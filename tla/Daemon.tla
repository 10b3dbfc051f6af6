------------------------------- MODULE Daemon -------------------------------
(***************************************************************************)
(* The inventory daemon (crates/krab-server): it renders every target      *)
(* once, then watches the files and, for every batch of changed paths,     *)
(* drops the caches that depend on them and re-renders the affected        *)
(* targets.  The watcher callback is one thread; renders run in parallel   *)
(* (InventoryRender); edits happen at any time and reach the callback      *)
(* through the debouncer, whose queue is the set `events'.                 *)
(***************************************************************************)
EXTENDS InventoryRender

CONSTANTS
    Outside,         \* real files outside the watched inventory directory
    ConfigSource,    \* registry sources: .kapitan, resolvers.py
    Worlds,          \* inventories to look at; for each of them:
    InitialDisks,    \*   what may be on disk when the daemon starts
    Versions,        \*   real path -> the contents it may be given
    Trees,           \*   directories moved in and out: [dir, content]
    MaxEdits,        \*   bound on the edits of a behaviour
    Lossy            \*   may an edit escape the watcher?

ASSUME DaemonAssumption ==
    \A w \in Worlds :
        /\ InitialDisks[w] \subseteq [Path -> Document \cup {Absent}]
        /\ \A p \in DOMAIN Versions[w] :
              /\ p \in Path /\ Real[p] = p
              /\ Versions[w][p] \subseteq Document \cup {Absent}
        /\ \A tree \in Trees[w] :
              /\ tree.dir.ext = ""
              /\ tree.content \in [{p \in Path : Under(p, tree.dir)} -> Document \cup {Absent}]
        /\ MaxEdits[w] \in Nat /\ Lossy[w] \in BOOLEAN

VARIABLES
    world,           \* the inventory of this behaviour
    edits,           \* number of edits so far
    lost,            \* has an edit escaped the watcher?
    events,          \* paths queued in the debouncer
    watching,        \* has watch::start run?
    watchedOutside,  \* real files outside the inventory in watched directories
    phase,           \* what the rendering thread is doing
    batch,           \* the changed paths of the current pass
    found,           \* the targets discovered for the current pass
    affected,        \* names to re-render in the current pass
    specs,           \* Inner.specs
    targets,         \* Inner.targets: name -> render
    errors,          \* Inner.errors: the names of the failed targets
    index,           \* Inner.index, as pairs <<path, name>>
    aliases,         \* Inner.aliases, as pairs <<real path, path>>
    generation,      \* Inner.generation
    stop             \* State.stop

diskVars  == << world, disk, edits, lost, events >>
passVars  == << phase, batch, found, affected >>
watchVars == << watching, watchedOutside >>
inner     == << specs, targets, errors, index, aliases, generation >>
vars == << world, disk, edits, lost, events, watching, watchedOutside, phase, batch, found,
           affected, specs, targets, errors, index, aliases, generation, stop,
           files, closures, queue, stack, report >>

Names(S) == {s.name : s \in S}

Init ==
    /\ world \in Worlds
    /\ disk \in InitialDisks[world]
    /\ edits = 0 /\ lost = FALSE /\ events = {}
    /\ watching = FALSE /\ watchedOutside = {}
    /\ phase = "start" /\ batch = {} /\ found = {} /\ affected = {}
    /\ specs = {} /\ targets = EmptyMap /\ errors = {}
    /\ index = {} /\ aliases = {} /\ generation = 0 /\ stop = FALSE
    /\ files = EmptyMap /\ closures = EmptyMap
    /\ queue = {} /\ stack = EmptyMap /\ report = EmptyMap

-----------------------------------------------------------------------------
(* The file system and the debouncer (notify). *)

Seen(p) == watching /\ (p \notin Outside \/ p \in watchedOutside)

(* An event for `p', if `p' is watched. *)
Notice(seen, p) ==
    /\ edits < MaxEdits[world] /\ (seen \/ Lossy[world])
    /\ edits' = edits + 1
    /\ lost' = (lost \/ ~seen)
    /\ events' = IF seen THEN events \cup {p} ELSE events

Edit(p) ==
    /\ Notice(Seen(p), p)
    /\ \E v \in Versions[world][p] \ {disk[p]} : disk' = [disk EXCEPT ![p] = v]
    /\ UNCHANGED << world, watchVars, passVars, inner, stop, renderVars >>

(* A directory is moved away or into place: one event, for the directory. *)
MoveTree(tree) ==
    /\ Notice(watching, tree.dir)
    /\ LET there == {p \in Path : Under(p, tree.dir)}
           gone  == [p \in there |-> Absent]
       IN  \/ /\ \E p \in there : disk[p] # Absent
              /\ disk' = Join(gone, disk)
           \/ /\ \A p \in there : disk[p] = Absent
              /\ disk' = Join(tree.content, disk)
    /\ UNCHANGED << world, watchVars, passVars, inner, stop, renderVars >>

(* notify hands an error to the callback, which logs it and returns. *)
WatchError ==
    /\ Lossy[world] /\ watching
    /\ \E b \in SUBSET events \ {{}} : events' = events \ b
    /\ lost' = TRUE
    /\ UNCHANGED << world, disk, edits, watchVars, passVars, inner, stop, renderVars >>

-----------------------------------------------------------------------------
(* The watcher. *)

(* watch::start, once the initial render is ready. *)
StartWatch ==
    /\ phase = "idle" /\ ~watching
    /\ watching' = TRUE
    /\ UNCHANGED << diskVars, watchedOutside, passVars, inner, stop, renderVars >>

(* The alias thread: watch the real directories of symlinked files. *)
WatchAliases ==
    LET dirs == {Front(a[1].at) : a \in aliases}
        seen == {p \in Outside : Front(p.at) \in dirs}
    IN  /\ watching /\ ~(seen \subseteq watchedOutside)
        /\ watchedOutside' = watchedOutside \cup seen
        /\ UNCHANGED << diskVars, watching, passVars, inner, stop, renderVars >>

IsFile(p) == p \in Existing(disk)

(* An event on a file that is neither inventory nor configuration. *)
Noise(p) == IsFile(p) /\ ~IsYaml(p) /\ p \notin ConfigSource

ExpandAliases(changed) == changed \cup {a[2] : a \in {b \in aliases : b[1] \in changed}}

(* The debouncer calls back with a batch, and apply_changes begins: note a *)
(* changed configuration source, add the symlinks of changed files, drop   *)
(* the caches that depend on the batch.                                    *)
TakeBatch ==
    /\ watching /\ phase = "idle"
    /\ \E b \in SUBSET events \ {{}} :
         LET kept    == {p \in b : ~Noise(p)}
             changed == ExpandAliases(kept)
         IN  /\ events' = events \ b
             /\ IF kept = {}
                THEN UNCHANGED << phase, batch, stop, files, closures >>
                ELSE /\ phase' = "discover"
                     /\ batch' = changed
                     /\ stop' = (stop \/ kept \cap ConfigSource # {})
                     /\ Invalidate(changed, {p \in changed : ~IsFile(p)})
    /\ UNCHANGED << world, disk, edits, lost, watchVars, found, affected, inner,
                    queue, stack, report >>

(* discover_targets *)
Discover ==
    /\ phase = "discover"
    /\ found' = Discovered(Existing(disk))
    /\ phase' = "affect"
    /\ UNCHANGED << diskVars, watchVars, batch, affected, inner, stop, renderVars >>

(* A plausible slip: only the path itself is looked up. *)
IndexedAt(p) == {e[2] : e \in {x \in index : x[1] = p}}

IndexedUnder(p) ==
    {e[2] : e \in {x \in index : x[1] \in Above(p) \/ (~IsFile(p) /\ Under(x[1], p))}}

(* Targets indexed under a changed path, failed ones and new ones. *)
AffectedOrNew ==
    (UNION {IndexedUnder(p) : p \in batch}) \cup (Names(found) \ Names(specs))

AffectedNames == AffectedOrNew \cup errors

(* The discovered ones of them are rendered. *)
ToRender(names) == {s \in found : s.name \in names}

Affect ==
    /\ phase = "affect"
    /\ affected' = AffectedNames
    /\ QueueUp(ToRender(affected'))
    /\ phase' = "render"
    /\ UNCHANGED << diskVars, watchVars, batch, found, inner, stop, files, closures >>

(* render_all: the initial pass renders everything that is discovered. *)
InitialPass ==
    /\ phase = "start"
    /\ found' = Discovered(Existing(disk))
    /\ affected' = Names(found')
    /\ QueueUp(found')
    /\ files' = EmptyMap /\ closures' = EmptyMap
    /\ phase' = "render"
    /\ UNCHANGED << diskVars, watchVars, batch, inner, stop >>

Render ==
    /\ phase = "render"
    /\ RenderStep
    /\ UNCHANGED << world, edits, lost, events, watchVars, passVars, inner, stop >>

-----------------------------------------------------------------------------
(* Installing the outcome of a pass, under the write lock. *)

Deps(r) == DOMAIN r.files \cup DOMAIN r.probes

Gone == {n \in DOMAIN targets : n \notin Names(found) \/ n \in affected}
Rendered == {n \in DOMAIN report : report[n] # Failed}

(* errors.retain; a slip would keep the errors of re-rendered targets. *)
KeptErrorsAll == {n \in errors : n \in Names(found)}

KeptErrors == {n \in KeptErrorsAll : n \notin affected}

(* The index loses the entries of every target that leaves or is replaced  *)
(* and gains those of the new renders; a slip would only add.              *)
ReindexedOnto == index \cup (UNION {Deps(report[n]) \X {n} : n \in Rendered})

Reindexed ==
    (index \ (UNION {Deps(targets[n]) \X {n} : n \in Gone}))
        \cup (UNION {Deps(report[n]) \X {n} : n \in Rendered})

(* Symlinks are learned from the files of successful renders only. *)
Learned ==
    UNION {{<< Real[f], f >> : f \in {g \in DOMAIN report[n].files : IsFile(g) /\ Real[g] # g}}
              : n \in Rendered}

Install ==
    /\ phase = "render" /\ ~Rendering
    /\ targets' = [n \in (DOMAIN targets \ Gone) \cup Rendered |->
                       IF n \in Rendered THEN report[n] ELSE targets[n]]
    /\ errors' = KeptErrors \cup {n \in DOMAIN report : report[n] = Failed}
    /\ index' = Reindexed
    /\ aliases' = aliases \cup Learned
    /\ specs' = found
    /\ generation' = generation + 1
    /\ phase' = "idle" /\ batch' = {} /\ found' = {} /\ affected' = {}
    /\ report' = EmptyMap
    /\ UNCHANGED << diskVars, watchVars, stop, files, closures, queue, stack >>

-----------------------------------------------------------------------------
Environment ==
    \/ \E p \in DOMAIN Versions[world] : Edit(p)
    \/ \E tree \in Trees[world] : MoveTree(tree)
    \/ WatchError

Pass == InitialPass \/ Discover \/ Affect \/ Render \/ Install

Next == Environment \/ StartWatch \/ WatchAliases \/ TakeBatch \/ Pass

Spec == Init /\ [][Next]_vars

(* The rendering thread, the watcher and the alias thread all keep going;  *)
(* nobody has to edit a file.                                              *)
Fairness ==
    /\ WF_vars(Pass)
    /\ WF_vars(StartWatch)
    /\ WF_vars(TakeBatch)
    /\ WF_vars(WatchAliases)

FairSpec == Spec /\ Fairness

-----------------------------------------------------------------------------
(* Properties. *)

Phases == {"start", "idle", "discover", "affect", "render"}

(* Every variable has its type; a target has an outcome at most once. *)
TypeOK ==
    /\ disk \in [Path -> Document \cup {Absent}]
    /\ DOMAIN files \subseteq Path /\ DOMAIN closures \subseteq Path
    /\ \A p \in DOMAIN files : Loads(files[p])
    /\ world \in Worlds /\ lost \in BOOLEAN
    /\ edits \in 0 .. MaxEdits[world] /\ generation \in Nat
    /\ watching \in BOOLEAN /\ stop \in BOOLEAN
    /\ phase \in Phases
    /\ watchedOutside \subseteq Outside
    /\ queue \subseteq found /\ DOMAIN report \cup DOMAIN stack \subseteq Names(found)
    /\ aliases \subseteq Path \X Path

(* inventory.deps and the next batch's affected targets are read from the  *)
(* index, which rerender maintains by removing and adding the entries of   *)
(* the targets it replaces: it must list exactly what the stored renders   *)
(* depend on, after any sequence of passes.                                *)
IndexExact ==
    index = UNION {Deps(targets[n]) \X {n} : n \in DOMAIN targets}

(* Every target the daemon knows has either a render or an error, never    *)
(* both, and nothing else has one: `inventory.target' always has an answer *)
(* for a known name, and never one for a name that is gone.                *)
AnswersCoverSpecs ==
    /\ DOMAIN targets \cup errors = Names(specs)
    /\ DOMAIN targets \cap errors = {}

(* A change that has yet to be taken from the debouncer reaches `p'. *)
Reaches(e, p) == e \in Above(p) \/ p \in Above(e) \/ (p \in Path /\ e = Real[p])

Current(c, changes) ==
    /\ \A p \in DOMAIN c.files :
          c.files[p] = Content(disk, p) \/ \E e \in changes : Reaches(e, p)
    /\ \A p \in DOMAIN c.probes :
          c.probes[p] = Look(disk, p) \/ \E e \in changes : Reaches(e, p)

(* A cached document, a cached closure or a stored render that read        *)
(* something else than what is on disk now is out of date only while the   *)
(* change that made it so is still queued, or (for a stored render) in the *)
(* batch being applied, as long as the watcher has seen every change.      *)
StaleOnlyIfPending ==
  ~lost =>
    /\ \A p \in DOMAIN files :
          files[p] = Content(disk, p) \/ \E e \in events : Reaches(e, p)
    /\ \A f \in DOMAIN closures : Current(closures[f], events)
    /\ \A n \in DOMAIN targets : Current(targets[n], events \cup batch)

Settled == phase = "idle" /\ watching /\ events = {}

Answer(n) == IF n \in DOMAIN targets THEN targets[n].tree ELSE Failed

Exact ==
    /\ specs = Discovered(Existing(disk))
    /\ \A s \in specs : Answer(s.name) = FreshTree(disk, s.file)

(* SRV-32, the safety half: with nothing left to apply, the daemon answers *)
(* what a fresh render of the disk would answer, for every target.  An     *)
(* edit that escaped the watcher is excused.                               *)
SettledExact == Settled /\ ~lost => Exact

(* SRV-32, the liveness half: when the edits stop, the daemon settles on   *)
(* the right answers for good.                                             *)
EventuallyExact == <>[](Settled /\ (lost \/ Exact))

(* SRV-33, SRV-34: a change to a configuration source the watcher saw      *)
(* makes the daemon stop, whatever else is in the batch.                   *)
ConfigChangeStops == \A c \in ConfigSource : (c \in events) ~> (stop \/ lost)

(* SRV-32 to SRV-34: every change takes effect, in the answers or, for a   *)
(* configuration source, by ending the daemon.                             *)
ChangesTakeEffect == EventuallyExact /\ ConfigChangeStops
=============================================================================
