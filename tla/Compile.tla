------------------------------- MODULE Compile -------------------------------
(***************************************************************************)
(* The incremental compiler (crates/krab-compile/src/engine.rs): a run     *)
(* decides from the manifest and from digests which targets are stale,     *)
(* compiles those in parallel into private trees, installs each result     *)
(* under compiled/, records what it read, and a full run then removes the  *)
(* output of targets that are gone.                                        *)
(*                                                                         *)
(* A target name is the sequence of its dotted components and is its       *)
(* directory under compiled/; a place is a file of compiled/, so nested    *)
(* targets own directories inside their parents' ones.  Digests are the    *)
(* values they stand for.  What a compile writes is a function of what it  *)
(* read, so a file's content is the record of that.  A directory is there  *)
(* when it holds a file.  The manifest in memory is saved under its lock   *)
(* with every record, so one variable stands for both.  `suspect' and      *)
(* `settled' are history variables that no guard reads.                    *)
(***************************************************************************)
EXTENDS Naturals, FiniteSets, Sequences, SequencesExt

CONSTANTS
    Projects,          \* the projects this instance looks at
    TargetOrder,       \* the target names of all projects, sorted
    DocsOf,            \* project -> target -> the documents it may render to
    Document,          \* documents: [reads, globals, all, spills, version]
    Gone, Unrendered,  \* no such target; the target fails to render
    ContentsOf,        \* input file -> its possible contents
    Bad,               \* a content that makes a compile fail
    Settings,          \* project -> the compiler's identities and settings
    Selections,        \* project -> what -t may name; {} selects every target
    Workers,           \* project -> parallelism
    MaxEdits,          \* project -> bound on the edits of a behaviour
    EditsDuringRuns,   \* the projects whose sources may change during a run
    MaxCrashes,        \* project -> bound on the interrupted runs
    NoRun, Junk

Target == ToSet(TargetOrder)
InputFile == DOMAIN ContentsOf

ASSUME CompileAssumption ==
    /\ TargetOrder \in Seq(Seq(STRING)) /\ <<>> \notin Target
    /\ \A p \in Projects :
          /\ \A t \in Target : DocsOf[p][t] \subseteq Document \cup {Gone, Unrendered}
          /\ Selections[p] \subseteq SUBSET Target
          /\ Workers[p] \in Nat \ {0} /\ MaxEdits[p] \in Nat
          /\ MaxCrashes[p] \in Nat
    /\ Gone \notin Document /\ Unrendered \notin Document
    /\ Gone # Unrendered
    /\ \A t \in Target : "main" \notin ToSet(t)
    /\ \A p \in Projects, t \in Target : \A d \in DocsOf[p][t] \cap Document :
          \A s \in d.spills : s \in Seq(STRING) /\ IsStrictPrefix(t, s)
    /\ \A d \in Document : /\ d.reads \subseteq InputFile
                           /\ d.globals \subseteq Target /\ d.all \in BOOLEAN
    /\ EditsDuringRuns \subseteq Projects

VARIABLES
    project,
    settings, doc, input,  \* the sources; `doc' is what the daemon answers
    output,                \* place -> content: the files of compiled/
    manifest,              \* target -> record
    phase, run,            \* the stage and the snapshot of the run going on
    queue,                 \* stale targets no worker has taken yet
    work,                  \* target -> its worker's progress
    failed,                \* did a target fail in this run?
    edits, crashes,
    suspect,               \* targets whose sources moved before their record
    settled                \* nothing happened since a full run without failure

sources == << project, settings, doc, input >>
compiled == << output, manifest, suspect >>
progress == << phase, run, queue, work, failed >>
vars == << sources, compiled, progress, edits, crashes, settled >>

EmptyMap == << >>
Put(f, x, v) == [y \in DOMAIN f \cup {x} |-> IF y = x THEN v ELSE f[y]]

-----------------------------------------------------------------------------
(* What a target's compile reads and writes. *)

Rendered(docs) == {t \in DOMAIN docs : docs[t] \in Document}
Failing(docs) == {t \in DOMAIN docs : docs[t] = Unrendered}
Paths(docs) == Rendered(docs) \cup Failing(docs)

(* The documents of the targets `names', or of every target. *)
GlobalDocs(all, names, docs) ==
    IF all THEN [u \in Rendered(docs) |-> docs[u]]
    ELSE [u \in names |-> IF u \in Rendered(docs) THEN docs[u] ELSE Gone]

Now == [docs |-> doc, fetched |-> doc, settings |-> settings]

(* The document is the one fetched once the target was found stale; files  *)
(* and other targets are read while the target compiles.                   *)
Reads(t, at) ==
    LET d == at.fetched[t]
    IN  [settings |-> at.settings, doc |-> d,
         files |-> [f \in d.reads |-> input[f]], globals |-> GlobalDocs(d.all, d.globals, doc)]

(* The compile itself fails, or install_and_record refuses what it read    *)
(* because the global inventory is incomplete.                             *)
Fails(made, docs) ==
    \/ \E f \in DOMAIN made.files : made.files[f] = Bad
    \/ made.doc.globals \cap Failing(docs) # {}
    \/ made.doc.all /\ Failing(docs) # {}

Within(place, dir) == IsStrictPrefix(dir, place)

(* The compile's private tree: a file of its own, and what it writes into  *)
(* other directories below its own (kapitan's `output_path').              *)
Produced(t, made) ==
    [p \in {Append(t, "main")} \cup made.doc.spills |-> [by |-> t, from |-> made]]

(* child_names: entries of the target's directory that belong to targets.  *)
Children(t, paths) == {p[Len(t) + 1] : p \in {q \in paths : IsStrictPrefix(t, q)}}

OwnPlaces(t, paths) ==
    {p \in DOMAIN output : Within(p, t) /\ p[Len(t) + 1] \notin Children(t, paths)}

(* Digests::tree; a slip would digest the whole directory. *)
TreeOfAll(t, paths) == [p \in {q \in DOMAIN output : Within(q, t)} |-> output[p]]

Tree(t, paths) == [p \in OwnPlaces(t, paths) |-> output[p]]

-----------------------------------------------------------------------------
(* Staleness. *)

(* why_stale.  A slip would forget the files read.                         *)
WhyStaleNoDeps(t, at) ==
    \/ t \notin DOMAIN manifest
    \/ LET r == manifest[t] IN
       \/ r.settings # at.settings \/ r.doc # at.docs[t]
       \/ r.globals # GlobalDocs(r.doc.all, DOMAIN r.globals, at.docs)
       \/ r.output # Tree(t, Paths(at.docs))

WhyStale(t, at) ==
    \/ t \notin DOMAIN manifest
    \/ LET r == manifest[t] IN
       \/ r.settings # at.settings \/ r.doc # at.docs[t]
       \/ \E f \in DOMAIN r.deps : r.deps[f] # input[f]
       \/ r.globals # GlobalDocs(r.doc.all, DOMAIN r.globals, at.docs)
       \/ r.output # Tree(t, Paths(at.docs))

-----------------------------------------------------------------------------
(* The sources and compiled/ change under the compiler. *)

Editable == /\ edits < MaxEdits[project]
            /\ phase = "off" \/ project \in EditsDuringRuns

Edit ==
    /\ Editable
    /\ \/ \E t \in Target, d \in Document \cup {Gone, Unrendered} :
             /\ d \in DocsOf[project][t] \ {doc[t]}
             /\ doc' = [doc EXCEPT ![t] = d]
             /\ UNCHANGED << settings, input >>
       \/ \E f \in InputFile : \E c \in ContentsOf[f] \ {input[f]} :
             input' = [input EXCEPT ![f] = c] /\ UNCHANGED << settings, doc >>
       \/ \E s \in Settings[project] \ {settings} :
             settings' = s /\ UNCHANGED << doc, input >>
    /\ edits' = edits + 1 /\ settled' = FALSE
    /\ UNCHANGED << project, compiled, progress, crashes >>

(* Someone deletes or overwrites a compiled file, or loses the manifest.   *)
Tamper ==
    /\ edits < MaxEdits[project] /\ phase = "off"
    /\ \/ \E p \in DOMAIN output :
             /\ \/ output' = RestrictDomain(output, LAMBDA q : q # p)
                \/ output[p] # Junk /\ output' = Put(output, p, Junk)
             /\ UNCHANGED manifest
       \/ manifest # EmptyMap /\ manifest' = EmptyMap /\ UNCHANGED output
    /\ edits' = edits + 1 /\ settled' = FALSE
    /\ UNCHANGED << sources, suspect, progress, crashes >>

-----------------------------------------------------------------------------
(* A run. *)

Init ==
    /\ project \in Projects
    /\ settings \in Settings[project]
    /\ doc \in [Target -> Document \cup {Gone, Unrendered}]
    /\ \A t \in Target : doc[t] \in DocsOf[project][t]
    /\ input \in [InputFile -> UNION {ContentsOf[f] : f \in InputFile}]
    /\ \A f \in InputFile : input[f] \in ContentsOf[f]
    /\ output = EmptyMap /\ manifest = EmptyMap
    /\ phase = "off" /\ run = NoRun /\ queue = {} /\ work = EmptyMap
    /\ failed = FALSE /\ edits = 0 /\ crashes = 0
    /\ suspect = {} /\ settled = FALSE

(* Take the digests of every document and select the candidates.  A        *)
(* target that fails to render, or that is not there, ends the run here    *)
(* when the run asks for it; such a run changes nothing.                   *)
Start ==
    /\ phase = "off"
    /\ \E selection \in Selections[project] :
         LET everything == selection = {}
             candidates == IF everything THEN Rendered(doc) ELSE selection
         IN  /\ everything => Failing(doc) = {}
             /\ candidates \subseteq Rendered(doc) /\ candidates # {}
             /\ run' = [docs |-> doc, fetched |-> doc, settings |-> settings, edits |-> edits,
                        candidates |-> candidates, everything |-> everything]
    /\ phase' = "decide" /\ failed' = FALSE /\ settled' = FALSE
    /\ UNCHANGED << sources, compiled, queue, work, edits, crashes >>

EndRun == phase' = "off" /\ run' = NoRun

StaleOnes(force) == {t \in run.candidates : force \/ WhyStale(t, run)}

(* Staleness of every candidate; --dry-run stops here.  Then the documents *)
(* of the stale ones are fetched: a local run has kept those of its        *)
(* snapshot, a daemon sends its current ones, and has none of a target     *)
(* that is gone or fails by now, which ends the run.                       *)
Decide ==
    /\ phase = "decide"
    /\ \/ EndRun /\ UNCHANGED queue
       \/ \E force \in BOOLEAN, documents \in {run.docs, doc} :
             IF StaleOnes(force) \subseteq Rendered(documents)
             THEN /\ queue' = StaleOnes(force)
                  /\ run' = [run EXCEPT !.fetched = documents]
                  /\ phase' = "work"
             ELSE EndRun /\ UNCHANGED queue
    /\ UNCHANGED << sources, compiled, work, failed, edits, crashes, settled >>

Free == Cardinality(DOMAIN work) < Workers[project]

(* The queue is sorted by name.                                            *)
IsFirst(t) == \A i, j \in DOMAIN TargetOrder :
                  TargetOrder[j] = t /\ TargetOrder[i] \in queue => j <= i

(* A worker takes the next target and compiles it into a private tree; a   *)
(* failure leaves compiled/ and the manifest alone.                        *)
CompileTarget ==
    /\ phase = "work" /\ Free
    /\ \E t \in queue :
         LET made == Reads(t, run)
             fails == Fails(made, run.docs)
         IN  /\ IsFirst(t)
             /\ queue' = queue \ {t}
             /\ failed' = (failed \/ fails)
             /\ work' = IF fails THEN work
                        ELSE Put(work, t, [stage |-> "compiled", made |-> made])
    /\ UNCHANGED << sources, compiled, phase, run, edits, crashes, settled >>

At(t, stage) == phase = "work" /\ t \in DOMAIN work /\ work[t].stage = stage
Advance(t, stage) == work' = [work EXCEPT ![t].stage = stage]

(* install, first half: what is there goes, except nested targets'         *)
(* directories.                                                            *)
Replaced(t) == OwnPlaces(t, Paths(run.docs))

InstallRemove(t) ==
    /\ At(t, "compiled")
    /\ output' = RestrictDomain(output, LAMBDA p : p \notin Replaced(t))
    /\ Advance(t, "removed")
    /\ UNCHANGED << sources, manifest, suspect, phase, run, queue, failed, edits, crashes,
                    settled >>

(* install, second half: the new files are moved in, those that lie in a   *)
(* nested target's directory are merged into it.                           *)
InstallMove(t) ==
    /\ At(t, "removed")
    /\ LET new == Produced(t, work[t].made)
       IN  output' = [p \in DOMAIN output \cup DOMAIN new |->
                        IF p \in DOMAIN new THEN new[p] ELSE output[p]]
    /\ Advance(t, "moved")
    /\ UNCHANGED << sources, manifest, suspect, phase, run, queue, failed, edits, crashes,
                    settled >>

(* What a record keeps of the documents read: a target that does not exist *)
(* is left out, and so is the target itself.                               *)
GlobalsRead(t, d, docs) ==
    GlobalDocs(d.all, (d.globals \cap Rendered(docs)) \ {t}, docs)

(* A file the target read has changed since, or the daemon had other       *)
(* documents when it was asked than in the run's snapshot of digests.      *)
Overtaken(made) ==
    \/ \E f \in DOMAIN made.files : made.files[f] # input[f]
    \/ made.globals # GlobalDocs(made.doc.all, made.doc.globals, run.docs)

(* install_and_record, after the install.  Every path gets the fingerprint *)
(* it has now, every other target the digest of the snapshot.              *)
Record(t) ==
    /\ At(t, "moved")
    /\ LET made == work[t].made
       IN /\ manifest' = Put(manifest, t,
             [settings |-> made.settings, doc |-> made.doc,
              deps |-> [f \in DOMAIN made.files |-> input[f]],
              globals |-> GlobalsRead(t, made.doc, run.docs),
              output |-> Tree(t, Paths(run.docs))])
          /\ suspect' = IF Overtaken(made) THEN suspect \cup {t} ELSE suspect \ {t}
    /\ work' = RestrictDomain(work, LAMBDA u : u # t)
    /\ UNCHANGED << sources, output, phase, run, queue, failed, edits, crashes, settled >>

AllWorked ==
    /\ phase = "work" /\ queue = {} /\ work = EmptyMap
    /\ IF run.everything THEN phase' = "clean" /\ UNCHANGED run ELSE EndRun
    /\ UNCHANGED << sources, compiled, queue, work, failed, edits, crashes, settled >>

(* cleanup: a full run removes what lies in no target's directory; it does *)
(* not descend into a target's directory.  A slip would remove nothing.    *)
KeptEverything == DOMAIN output

Kept == {p \in DOMAIN output : \E t \in Paths(run.docs) : Within(p, t)}

Cleanup ==
    /\ phase = "clean"
    /\ output' = [p \in Kept |-> output[p]]
    /\ phase' = "forget"
    /\ UNCHANGED << sources, manifest, suspect, run, queue, work, failed, edits, crashes,
                    settled >>

Forget ==
    /\ phase = "forget"
    /\ manifest' = RestrictDomain(manifest, LAMBDA t : t \in Rendered(run.docs))
    /\ EndRun
    /\ settled' = (~failed /\ run.edits = edits)
    /\ UNCHANGED << sources, output, suspect, queue, work, failed, edits, crashes >>

(* Ctrl-C, or the machine stops, at any point of a run. *)
Crash ==
    /\ phase # "off" /\ crashes < MaxCrashes[project]
    /\ EndRun /\ queue' = {} /\ work' = EmptyMap /\ failed' = FALSE
    /\ crashes' = crashes + 1
    /\ UNCHANGED << sources, compiled, edits, settled >>

Worker(t) == InstallRemove(t) \/ InstallMove(t) \/ Record(t)

Run == \/ Decide \/ CompileTarget \/ \E t \in Target : Worker(t)
       \/ AllWorked \/ Cleanup \/ Forget

Next == Edit \/ Tamper \/ Start \/ Run \/ Crash

Spec == Init /\ [][Next]_vars

-----------------------------------------------------------------------------
(* Properties. *)

Phases == {"off", "decide", "work", "clean", "forget"}

(* Every variable has its type; no target is both waiting and in work, and *)
(* there is a snapshot exactly while a run is going on.                    *)
TypeOK ==
    /\ project \in Projects /\ settings \in Settings[project]
    /\ \A t \in Target : doc[t] \in DocsOf[project][t]
    /\ \A f \in InputFile : input[f] \in ContentsOf[f]
    /\ \A p \in DOMAIN output : output[p] = Junk \/ Within(p, output[p].by)
    /\ DOMAIN manifest \subseteq Target /\ suspect \subseteq Target
    /\ phase \in Phases /\ (phase = "off") = (run = NoRun)
    /\ queue \cup DOMAIN work \subseteq Target /\ queue \cap DOMAIN work = {}
    /\ Cardinality(DOMAIN work) <= Workers[project]
    /\ failed \in BOOLEAN /\ settled \in BOOLEAN
    /\ edits \in 0 .. MaxEdits[project] /\ crashes \in 0 .. MaxCrashes[project]

(* What a compile of everything into an empty directory writes. *)
Fresh(t) == Produced(t, Reads(t, Now))
FreshTree(t) ==
    LET places == {p \in DOMAIN Fresh(t) : p[Len(t) + 1] \notin Children(t, Paths(doc))}
    IN  [p \in places |-> Fresh(t)[p]]

(* CMP-23 and the rule the compiler is built on: a target the next run     *)
(* would report up to date holds what compiling it now would write, and    *)
(* compiling it now would succeed.  Nested targets' directories are their  *)
(* own.  It takes a change between a target's reads and its record         *)
(* (CMP-EC-8) to break this.                                               *)
UpToDateIsExact ==
    \A t \in Rendered(doc) \ suspect :
        ~WhyStale(t, Now) => /\ ~Fails(Reads(t, Now), doc)
                            /\ [p \in OwnPlaces(t, Paths(doc)) |-> output[p]] = FreshTree(t)

(* No compile writes into the directory of a nested target.  One that does *)
(* merges its files into what is there (CMP-17), where the nested target's *)
(* next install takes them away again.                                     *)
Apart(docs) == \A t \in Rendered(docs) : docs[t].spills = {}

(* "An incremental compile leaves the same tree a --force compile does,    *)
(* whatever was compiled before" (incremental.rs): after a full run        *)
(* without failures, compiled/ holds what a compile of everything into an  *)
(* empty directory leaves, and nothing else.                               *)
FullRunExact ==
    settled /\ Apart(doc) /\ suspect \cap Rendered(doc) = {} =>
        /\ DOMAIN output = UNION {DOMAIN Fresh(t) : t \in Rendered(doc)}
        /\ \A t \in Rendered(doc) : \A p \in DOMAIN Fresh(t) : output[p] = Fresh(t)[p]

(* The run after a full run without failures finds nothing to do, though   *)
(* parents and nested targets were installed in parallel.                  *)
FullRunSettles == settled /\ Apart(doc) => \A t \in Rendered(doc) : ~WhyStale(t, Now)

=============================================================================
