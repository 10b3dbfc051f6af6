--------------------------------- MODULE Fetch ---------------------------------
(***************************************************************************)
(* Dependencies of the targets are fetched before a compile                *)
(* (crates/krab-compile/src/fetch.rs): the declared items are deduplicated *)
(* and grouped by source, groups are fetched in parallel, and each group   *)
(* copies what it got to every destination that wants it.  Charts with a   *)
(* version go through a cache that all processes of the user share.        *)
(*                                                                         *)
(* A path is a sequence of names; a file's content records the source, the *)
(* ref and the state of the remote it comes from, and where it was there.  *)
(* What a run keeps in its own temporary directory is part of the group    *)
(* that put it there.  A file that is removed stays in `disk' with what it *)
(* last was, and in `gone'.  `smooth' and `disturbed' are history          *)
(* variables that no guard reads.                                          *)
(***************************************************************************)
EXTENDS Naturals, FiniteSets, Sequences, SequencesExt, Functions

CONSTANTS
    Projects,     \* what users may have declared and run; see FetchAssumption
    FilesOf,      \* source -> paths in it
    ModulesOf,    \* git source -> paths its submodules add
    LayersOf,     \* oci source -> media type -> paths of those layers
    RefsOf,       \* git source -> the refs that exist
    DefaultOf,    \* git source -> the remote's default branch or NoRef
    Archives,     \* the http sources that can be unpacked
    NoRef, AnyType

VARIABLES
    project,      \* the member of Projects this behaviour is about
    disk, dirs,   \* path -> content; the directories that exist
    gone,         \* the paths of `disk' whose file a copy has removed
    cache,        \* chart -> path -> content: $XDG_CACHE_HOME/kapitan/charts
    remote,       \* source -> how often something was published there
    run,          \* process -> its run
    work,         \* process -> group -> the group's progress
    ran, faults, crashes,
    smooth,       \* no item has failed and no run was interrupted
    disturbed     \* charts two groups worked on at once or one left half-way

tree == << disk, dirs, gone >>
bounds == << ran, faults, crashes >>
vars == << project, tree, cache, remote, run, work, bounds, smooth, disturbed >>

Dependency ==
    [target : STRING, kind : {"git", "http", "helm", "oci"}, source : DOMAIN FilesOf,
     dest : Seq(STRING), force : BOOLEAN,
     ref : UNION {RefsOf[s] : s \in DOMAIN RefsOf} \cup {NoRef, "missing"},
     sub : Seq(STRING), modules : BOOLEAN,                           \* git, oci
     unpack : BOOLEAN,                                               \* http
     chart : [name : STRING, version : {"v1", NoRef}], binary : STRING,  \* helm
     type : UNION {DOMAIN LayersOf[s] : s \in DOMAIN LayersOf} \cup {AnyType},
     link : {"https", "http"}]                                       \* oci

(* A destination is below the compile's output; `subdir' and `subpath' are *)
(* of git and oci; only git has submodules; what is downloaded without     *)
(* being unpacked is one file.                                             *)
Path == Seq(STRING) \ {<< >>}

Declared(d) ==
    /\ d.dest \in Path
    /\ d.kind \notin {"git", "oci"} => d.sub = << >>
    /\ d.modules => d.kind = "git"
    /\ d.kind = "http" /\ ~d.unpack => \E f \in FilesOf[d.source] : FilesOf[d.source] = {f}
    /\ d.kind = "oci" => /\ d.source \in DOMAIN LayersOf
                         /\ d.type \in DOMAIN LayersOf[d.source] \cup {AnyType}

(* A process is a user's shell in a repository; it has dependencies, sets  *)
(* of targets -t may select ({}: all), combinations of --fetch and         *)
(* --force-fetch, and a number of threads.  `oneDisk': the temporary       *)
(* directory and the cache are on one file system.  `max' bounds what      *)
(* happens in a behaviour: runs of each process, publications, failing     *)
(* pulls and copies, and interruptions.                                    *)
ASSUME FetchAssumption ==
    /\ \A x \in Projects :
          /\ x.oneDisk \in BOOLEAN
          /\ x.max \in [runs : Nat, publish : Nat, faults : Nat, crashes : Nat]
          /\ \A p \in DOMAIN x.users :
                LET u == x.users[p] IN
                /\ u.threads \in Nat \ {0}
                /\ u.flags \subseteq [all : BOOLEAN, force : BOOLEAN]
                /\ u.items \in Seq(Dependency)
                /\ \A i \in DOMAIN u.items : Declared(u.items[i])
    /\ \A s \in DOMAIN FilesOf : FilesOf[s] \cup ModulesOf[s] \subseteq Path
    /\ \A s \in DOMAIN LayersOf : \A t \in DOMAIN LayersOf[s] : LayersOf[s][t] \subseteq Path
    /\ \A s \in DOMAIN DefaultOf : DefaultOf[s] \in RefsOf[s] \cup {NoRef}

-----------------------------------------------------------------------------
(* Which items are fetched. *)

Within(dir, path) == IsPrefix(dir, path)
There == DOMAIN disk \ gone
Exists(path) == \E q \in dirs \cup There : Within(path, q)
IsFile(path) == path \in There

Blocked(path) == \E q \in There : Within(q, path)
Ancestors(path) == {SubSeq(path, 1, n) : n \in 1..Len(path)}

Process == DOMAIN project.users
Item(p, i) == project.users[p].items[i]
Items(p) == DOMAIN project.users[p].items
Sources == UNION {{Item(p, i).source : i \in Items(p)} : p \in Process}

(* The candidates' items of a selection, the first of each source and      *)
(* destination only, whatever else the later ones ask for.                 *)
Candidate(p, only) == {i \in Items(p) : only = {} \/ Item(p, i).target \in only}
Firsts(p, only) ==
    {i \in Candidate(p, only) :
        \A j \in Candidate(p, only) :
            j < i => \/ Item(p, j).source # Item(p, i).source
                     \/ Item(p, j).dest # Item(p, i).dest}

Considered(p, f) == {i \in Firsts(p, f.only) : f.all \/ f.force \/ Item(p, i).force}
Forced(p, i, f) == f.force \/ Item(p, i).force

(* A slip would look at directories only and fetch over a file.            *)
WantedDirs(p, f) ==
    {i \in Considered(p, f) : Forced(p, i, f) \/ ~ \E q \in There :
        IsStrictPrefix(Item(p, i).dest, q)}

Wanted(p, f) == {i \in Considered(p, f) : Forced(p, i, f) \/ ~Exists(Item(p, i).dest)}

GroupOf(d) == IF d.kind = "helm" THEN << d.kind, d.source, d.chart, d.binary >>
              ELSE << d.kind, d.source >>

Cached(d) == d.kind = "helm" /\ d.chart.version # NoRef
ChartOf(d) == << d.source, d.chart >>

-----------------------------------------------------------------------------
(* A run. *)

Idle == [phase |-> "off"]
NoWork == << >>
NoFile == << >>

(* What a group got from its source: the state of the remote, the ref that *)
(* is checked out and the files that are there.                            *)
Nothing == [at |-> 0, ref |-> NoRef, files |-> {}]

Group(p, g, f) == {i \in Wanted(p, f) : GroupOf(Item(p, i)) = g}

(* fetch: items, groups.  Without a group there is nothing to do.          *)
Start(p) ==
    /\ run[p].phase = "off" /\ ran[p] < project.max.runs
    /\ \E fl \in project.users[p].flags, only \in project.users[p].selections :
         LET f == [all |-> fl.all, force |-> fl.force, only |-> only]
             groups == {GroupOf(Item(p, i)) : i \in Wanted(p, f)}
         IN  /\ run' = [run EXCEPT ![p] =
                  [phase |-> "fetch", flags |-> f,
                   skipped |-> Considered(p, f) \ Wanted(p, f),
                   fetched |-> {}, failed |-> {}]]
             /\ work' = [work EXCEPT ![p] =
                  [g \in groups |-> [step |-> "waiting", left |-> Group(p, g, f),
                                     held |-> Nothing, todo |-> {}, file |-> NoFile]]]
    /\ ran' = [ran EXCEPT ![p] = @ + 1]
    /\ UNCHANGED << project, tree, cache, remote, faults, crashes, smooth, disturbed >>

Busy(p) == {g \in DOMAIN work[p] : work[p][g].step \notin {"waiting", "ended"}}
First(p, g) == Item(p, CHOOSE i \in work[p][g].left : \A j \in work[p][g].left : i <= j)
Current(p, g) == CHOOSE i \in work[p][g].left : \A j \in work[p][g].left : i <= j
AnyForced(p, g) == \E i \in work[p][g].left : Forced(p, i, run[p].flags)

Go(p, g, w) == work' = [work EXCEPT ![p][g] = w]

(* The items `is' of a group end with an error. *)
Fail(p, g, is, next) ==
    /\ run' = [run EXCEPT ![p].failed = @ \cup is]
    /\ Go(p, g, [work[p][g] EXCEPT !.left = @ \ is, !.step = next, !.todo = {}, !.file = NoFile])
    /\ smooth' = FALSE

Others(p, g, c) ==
    {q \in Process : \E h \in Busy(q) :
        << q, h >> # << p, g >> /\ work[q][h].left # {} /\ Cached(First(q, h))
          /\ ChartOf(First(q, h)) = c}

(* A thread of the pool takes a group.  A chart that is cached is not      *)
(* pulled unless an item is forced; is_dir is true of a partial copy too.  *)
Take(p, g) ==
    /\ run[p].phase = "fetch" /\ work[p][g].step = "waiting"
    /\ Cardinality(Busy(p)) < project.users[p].threads
    /\ LET d == First(p, g)
           known == Cached(d) /\ ChartOf(d) \in DOMAIN cache /\ ~AnyForced(p, g)
       IN  /\ Go(p, g, [work[p][g] EXCEPT !.step = IF known THEN "next" ELSE "pull"])
           /\ disturbed' = IF Cached(d) /\ Others(p, g, ChartOf(d)) # {}
                           THEN disturbed \cup {ChartOf(d)} ELSE disturbed
    /\ UNCHANGED << project, tree, cache, remote, run, bounds, smooth >>

(* The layers any destination asks for; one that names no type gets all.   *)
LayerFiles(p, g, d) ==
    LET types == {Item(p, i).type : i \in work[p][g].left}
    IN  UNION {LayersOf[d.source][t] :
                  t \in IF AnyType \in types THEN DOMAIN LayersOf[d.source] ELSE types}

Cloned(d) == [at |-> remote[d.source], ref |-> DefaultOf[d.source], files |-> FilesOf[d.source]]
Downloaded(d) == [at |-> remote[d.source], ref |-> NoRef, files |-> FilesOf[d.source]]
ChartPulled(d) == [at |-> remote[d.source], ref |-> NoRef, files |-> FilesOf[d.source]]
ImagePulled(p, g, d) ==
    [at |-> remote[d.source], ref |-> NoRef, files |-> LayerFiles(p, g, d)]

Pulled(p, g, d) ==
    CASE d.kind = "git" -> Cloned(d)
      [] d.kind = "http" -> Downloaded(d)
      [] d.kind = "helm" -> ChartPulled(d)
      [] d.kind = "oci" -> ImagePulled(p, g, d)

Disagree(p, g) ==
    First(p, g).kind = "oci" /\ Cardinality({Item(p, i).link : i \in work[p][g].left}) > 1

(* The shared step: clone, download, helm pull, oci pull.  It may fail for *)
(* all destinations of the group, and does when those of an image disagree *)
(* on the connection.                                                      *)
Pull(p, g) ==
    /\ work[p][g].step = "pull"
    /\ \/ /\ ~Disagree(p, g)
          /\ LET d == First(p, g) IN
             Go(p, g, [work[p][g] EXCEPT !.held = Pulled(p, g, d),
                          !.step = IF Cached(d) THEN "drop" ELSE "next"])
          /\ UNCHANGED << run, faults, smooth >>
       \/ /\ ~Disagree(p, g) /\ faults < project.max.faults /\ faults' = faults + 1
          /\ Fail(p, g, work[p][g].left, "ended")
       \/ /\ Disagree(p, g) /\ UNCHANGED faults
          /\ Fail(p, g, work[p][g].left, "ended")
    /\ UNCHANGED << project, tree, cache, remote, ran, crashes, disturbed >>

-----------------------------------------------------------------------------
(* The chart cache. *)

InCache(c) == IF c \in DOMAIN cache THEN DOMAIN cache[c] ELSE {}
Content(d, held, path) == [source |-> d.source, ref |-> held.ref, at |-> held.at, path |-> path]
Without(f, x) == [y \in DOMAIN f \ {x} |-> f[y]]
With(f, x, v) == [y \in DOMAIN f \cup {x} |-> IF y = x THEN v ELSE f[y]]

(* remove_dir_all(cached) removes the entries it listed and then the       *)
(* directory, if it is empty; its errors are ignored.                      *)
ListCached(p, g) ==
    /\ work[p][g].step = "drop"
    /\ Go(p, g, [work[p][g] EXCEPT !.step = "dropping",
                                   !.todo = InCache(ChartOf(First(p, g)))])
    /\ UNCHANGED << project, tree, cache, remote, run, bounds, smooth, disturbed >>

DropCached(p, g) ==
    /\ work[p][g].step = "dropping"
    /\ LET c == ChartOf(First(p, g))
           todo == work[p][g].todo
       IN  \/ \E f \in todo :
                 /\ cache' = IF f \in InCache(c) THEN [cache EXCEPT ![c] = Without(@, f)]
                            ELSE cache
                 /\ Go(p, g, [work[p][g] EXCEPT !.todo = @ \ {f}])
           \/ /\ todo = {}
              /\ cache' = IF InCache(c) = {} THEN Without(cache, c) ELSE cache
              /\ Go(p, g, [work[p][g] EXCEPT !.step = "store"])
    /\ UNCHANGED << project, tree, remote, run, bounds, smooth, disturbed >>

(* rename the chart into the cache at once, or, when that fails because it *)
(* is another file system or someone was faster, copy file by file.        *)
Store(p, g) ==
    /\ work[p][g].step = "store"
    /\ LET d == First(p, g)
           w == work[p][g]
           c == ChartOf(d)
       IN  IF project.oneDisk /\ InCache(c) = {}
           THEN /\ cache' = With(cache, c, [f \in w.held.files |-> Content(d, w.held, f)])
                /\ Go(p, g, [w EXCEPT !.step = "next"])
           ELSE /\ cache' = With(cache, c, IF c \in DOMAIN cache THEN cache[c] ELSE << >>)
                /\ Go(p, g, [w EXCEPT !.step = "storing", !.todo = w.held.files])
    /\ UNCHANGED << project, tree, remote, run, bounds, smooth, disturbed >>

(* copy_tree removes a file that is there, then copies, and may fail.      *)
StoreFile(p, g) ==
    /\ work[p][g].step = "storing"
    /\ LET d == First(p, g)
           w == work[p][g]
           c == ChartOf(d)
       IN  \/ /\ w.todo = {} /\ UNCHANGED << cache, run, faults, smooth, disturbed >>
              /\ Go(p, g, [w EXCEPT !.step = "next"])
           \/ \E f \in w.todo :
                 /\ f \in InCache(c) /\ cache' = [cache EXCEPT ![c] = Without(@, f)]
                 /\ UNCHANGED << run, work, faults, smooth, disturbed >>
           \/ \E f \in w.todo :
                 /\ c \in DOMAIN cache
                 /\ cache' = [cache EXCEPT ![c] = With(@, f, Content(d, w.held, f))]
                 /\ Go(p, g, [w EXCEPT !.todo = @ \ {f}])
                 /\ UNCHANGED << run, faults, smooth, disturbed >>
           \/ /\ w.todo # {} /\ c \notin DOMAIN cache /\ UNCHANGED << cache, faults, disturbed >>
              /\ Fail(p, g, w.left, "ended")
           \/ /\ w.todo # {} /\ c \in DOMAIN cache /\ UNCHANGED cache
              /\ faults < project.max.faults /\ faults' = faults + 1
              /\ Fail(p, g, w.left, "ended") /\ disturbed' = disturbed \cup {c}
    /\ UNCHANGED << project, tree, remote, ran, crashes >>

-----------------------------------------------------------------------------
(* The destinations. *)

Under(files, dir) == {f \in files : IsStrictPrefix(dir, f)}
Plain(d) == d.kind = "http" /\ ~d.unpack
Place(d, f) == IF Plain(d) THEN d.dest ELSE d.dest \o SubSeq(f, Len(d.sub) + 1, Len(f))

(* What is checked out for an item: its ref, else the default branch, else *)
(* what is there.  Submodules of earlier items of the group stay.  A slip  *)
(* would leave an earlier item's ref checked out.                          *)
CheckoutKeepsRef(d, held) ==
    IF d.kind # "git" THEN held
    ELSE [held EXCEPT !.ref = IF d.ref # NoRef THEN d.ref ELSE @,
                      !.files = IF d.modules THEN @ \cup ModulesOf[d.source] ELSE @]

Checkout(d, held) ==
    IF d.kind # "git" THEN held
    ELSE [held EXCEPT !.ref = IF d.ref # NoRef THEN d.ref
                              ELSE IF DefaultOf[d.source] # NoRef THEN DefaultOf[d.source] ELSE @,
                      !.files = IF d.modules THEN @ \cup ModulesOf[d.source] ELSE @]

(* What there is to copy. *)
Offered(d, held) == IF Cached(d) THEN InCache(ChartOf(d)) ELSE held.files
ContentAt(d, held, f) == IF Cached(d) THEN cache[ChartOf(d)][f] ELSE Content(d, held, f)

NoSuchRef(d) == d.kind = "git" /\ d.ref \notin RefsOf[d.source] \cup {NoRef}
NotUnpackable(d) == d.kind = "http" /\ d.unpack /\ d.source \notin Archives
NoSource(d, held) ==
    \/ d.sub # << >> /\ Under(Offered(d, held), d.sub) = {}
    \/ Cached(d) /\ ChartOf(d) \notin DOMAIN cache
NoRoom(d) == IF Plain(d) THEN d.dest \in dirs \/ Blocked(Front(d.dest)) ELSE Blocked(d.dest)

(* The first steps of an item of the group.  The directory to unpack into  *)
(* is made before it is known whether the archive can be unpacked.         *)
Begin(p, g) ==
    /\ work[p][g].step = "next"
    /\ LET w == work[p][g] IN
         \/ /\ w.left = {}
            /\ Go(p, g, [w EXCEPT !.step = "ended"]) /\ UNCHANGED << dirs, run, smooth >>
         \/ /\ w.left # {}
            /\ LET d == First(p, g)
                   held == Checkout(d, w.held)
               IN  IF NoSuchRef(d) \/ NoSource(d, held) \/ NoRoom(d) \/ NotUnpackable(d)
                   THEN /\ Fail(p, g, {Current(p, g)}, "next")
                        /\ dirs' = IF NotUnpackable(d) /\ ~NoRoom(d)
                                   THEN dirs \cup Ancestors(d.dest) ELSE dirs
                   ELSE /\ Go(p, g, [w EXCEPT !.step = "copy", !.held = held,
                                              !.todo = Under(Offered(d, held), d.sub)])
                        /\ dirs' = dirs \cup Ancestors(IF Plain(d) THEN Front(d.dest) ELSE d.dest)
                        /\ UNCHANGED << run, smooth >>
    /\ UNCHANGED << project, disk, gone, cache, remote, bounds, disturbed >>

(* safe_copy_tree leaves existing files alone, copy_tree replaces them; a  *)
(* slip would let one forced item force its whole group.                   *)
ReplacesForGroup(p, g) == AnyForced(p, g)

Replaces(p, g) == Forced(p, Current(p, g), run[p].flags)

(* A file that cannot be copied: it is not there any more, or there is a   *)
(* directory or a file in the way.                                         *)
NoCopy(d, held, f) ==
    f \notin Offered(d, held) \/ Place(d, f) \in dirs \/ Blocked(Front(Place(d, f)))

(* What is gone when a copy is about to write over a place: copy_tree has  *)
(* removed the file, what is not unpacked is written over it, and an       *)
(* archive removes it or not.                                              *)
Cleared(d, place) ==
    IF ~IsFile(place) \/ Plain(d) THEN {gone}
    ELSE (IF d.kind = "http" THEN {gone} ELSE {}) \cup {gone \cup {place}}

(* One file of the tree: whether it is there is looked at, and it is       *)
(* removed, before it is written.                                          *)
CopyFile(p, g) ==
    /\ work[p][g].step = "copy" /\ work[p][g].file = NoFile
    /\ LET w == work[p][g]
           d == First(p, g)
       IN  \E f \in w.todo :
             LET place == Place(d, f) IN
             \/ /\ NoCopy(d, w.held, f) /\ UNCHANGED tree
                /\ Fail(p, g, {Current(p, g)}, "next")
             \/ /\ ~NoCopy(d, w.held, f) /\ IsFile(place) /\ ~Replaces(p, g)
                /\ Go(p, g, [w EXCEPT !.todo = @ \ {f}]) /\ UNCHANGED << tree, run, smooth >>
             \/ /\ ~NoCopy(d, w.held, f) /\ (IsFile(place) => Replaces(p, g))
                /\ Go(p, g, [w EXCEPT !.file = f])
                /\ gone' \in Cleared(d, place)
                /\ dirs' = dirs \cup Ancestors(Front(place))
                /\ UNCHANGED << disk, run, smooth >>
    /\ UNCHANGED << project, cache, remote, bounds, disturbed >>

Written(p, g) ==
    LET d == First(p, g)
        f == work[p][g].file
    IN  /\ disk' = With(disk, Place(d, f), ContentAt(d, work[p][g].held, f))
        /\ gone' = gone \ {Place(d, f)}

(* The copy fails if something has come into the way, and may fail with or *)
(* without a part of the file written.                                     *)
WriteFile(p, g) ==
    /\ work[p][g].step = "copy" /\ work[p][g].file # NoFile
    /\ LET w == work[p][g]
           missing == NoCopy(First(p, g), w.held, w.file)
       IN  \/ /\ ~missing /\ Written(p, g) /\ UNCHANGED << run, faults, smooth >>
              /\ Go(p, g, [w EXCEPT !.todo = @ \ {w.file}, !.file = NoFile])
           \/ /\ missing /\ UNCHANGED << disk, gone, faults >>
              /\ Fail(p, g, {Current(p, g)}, "next")
           \/ /\ ~missing /\ faults < project.max.faults /\ faults' = faults + 1
              /\ Written(p, g) \/ UNCHANGED << disk, gone >>
              /\ Fail(p, g, {Current(p, g)}, "next")
    /\ UNCHANGED << project, dirs, cache, remote, ran, crashes, disturbed >>

Copied(p, g) ==
    /\ work[p][g].step = "copy" /\ work[p][g].todo = {}
    /\ run' = [run EXCEPT ![p].fetched = @ \cup {Current(p, g)}]
    /\ Go(p, g, [work[p][g] EXCEPT !.left = @ \ {Current(p, g)}, !.step = "next"])
    /\ UNCHANGED << project, tree, cache, remote, bounds, smooth, disturbed >>

(* All groups are done: the temporary directory goes, and the compile goes *)
(* on if nothing failed and ends otherwise.                                *)
Over(p) == run[p].phase = "fetch" /\ \A g \in DOMAIN work[p] : work[p][g].step = "ended"

Finish(p) ==
    /\ Over(p)
    /\ run' = [run EXCEPT ![p] = Idle] /\ work' = [work EXCEPT ![p] = NoWork]
    /\ UNCHANGED << project, tree, cache, remote, bounds, smooth, disturbed >>

(* The process is interrupted, perhaps while it changes a cached chart.    *)
HalfStored(p) ==
    {ChartOf(First(p, g)) : g \in {h \in Busy(p) :
        \/ work[p][h].step = "dropping"
        \/ work[p][h].step = "storing" /\ ~project.oneDisk}} \cap DOMAIN cache

Crash(p) ==
    /\ run[p].phase = "fetch" /\ crashes < project.max.crashes
    /\ run' = [run EXCEPT ![p] = Idle] /\ work' = [work EXCEPT ![p] = NoWork]
    /\ crashes' = crashes + 1 /\ smooth' = FALSE
    /\ disturbed' = disturbed \cup HalfStored(p)
    /\ UNCHANGED << project, tree, cache, remote, ran, faults >>

(* Someone publishes to a source: branches move, files are replaced.       *)
Publish(s) ==
    /\ remote[s] < project.max.publish
    /\ remote' = [remote EXCEPT ![s] = @ + 1]
    /\ UNCHANGED << project, tree, cache, run, work, bounds, smooth, disturbed >>

Init ==
    /\ project \in Projects
    /\ disk = << >> /\ dirs = {} /\ gone = {} /\ cache = << >>
    /\ remote = [s \in DOMAIN FilesOf |-> 0]
    /\ run = [p \in Process |-> Idle] /\ work = [p \in Process |-> NoWork]
    /\ ran = [p \in Process |-> 0] /\ faults = 0 /\ crashes = 0
    /\ smooth = TRUE /\ disturbed = {}

Advance(p, g) ==
    \/ Take(p, g) \/ Pull(p, g) \/ ListCached(p, g) \/ DropCached(p, g) \/ Store(p, g)
    \/ StoreFile(p, g) \/ Begin(p, g) \/ CopyFile(p, g) \/ WriteFile(p, g) \/ Copied(p, g)

Next ==
    \/ \E p \in Process :
          Start(p) \/ Finish(p) \/ Crash(p) \/ \E g \in DOMAIN work[p] : Advance(p, g)
    \/ \E s \in Sources : Publish(s)

Spec == Init /\ [][Next]_vars

-----------------------------------------------------------------------------
Files == UNION {FilesOf[s] \cup ModulesOf[s] : s \in DOMAIN FilesOf}

TypeOK ==
    /\ \A q \in DOMAIN disk :
          /\ disk[q].source \in DOMAIN FilesOf /\ disk[q].path \in Files
          /\ disk[q].at \in 0..remote[disk[q].source]
          /\ q \in dirs => q \in gone
          /\ Ancestors(Front(q)) \subseteq dirs
    /\ gone \subseteq DOMAIN disk
    /\ \A c \in DOMAIN cache : \A f \in DOMAIN cache[c] : cache[c][f].source = c[1]
    /\ \A p \in Process :
          /\ Cardinality(Busy(p)) <= project.users[p].threads
          /\ run[p].phase = "fetch" =>
                /\ run[p].fetched \cap run[p].failed = {}
                /\ run[p].fetched \cup run[p].failed
                      \cup UNION {work[p][g].left : g \in DOMAIN work[p]}
                   = Considered(p, run[p].flags) \ run[p].skipped
                /\ \A g \in DOMAIN work[p] :
                      \A i \in work[p][g].left : GroupOf(Item(p, i)) = g

(* What an item asks for, and whether it has it. *)
Part(d) ==
    Under(IF d.kind = "oci" THEN UNION {LayersOf[d.source][t] :
              t \in IF d.type = AnyType THEN DOMAIN LayersOf[d.source] ELSE {d.type}}
          ELSE FilesOf[d.source] \cup (IF d.modules THEN ModulesOf[d.source] ELSE {}), d.sub)

Whole(d) == Exists(d.dest) /\ \A f \in Part(d) : IsFile(Place(d, f))

AskedRef(d) == IF d.kind # "git" THEN NoRef
               ELSE IF d.ref # NoRef THEN d.ref ELSE DefaultOf[d.source]

Right(d) == \A f \in Part(d) : /\ disk[Place(d, f)].source = d.source
                               /\ disk[Place(d, f)].path = f
                               /\ disk[Place(d, f)].ref = AskedRef(d)

(* No other declared item writes into the destination.                     *)
Asks(d) == [d EXCEPT !.target = "", !.force = FALSE]
Alone(d) ==
    \A p \in Process : \A i \in Items(p) :
        \/ Asks(Item(p, i)) = Asks(d)
        \/ ~Within(d.dest, Item(p, i).dest) /\ ~Within(Item(p, i).dest, d.dest)

(* No other process declares anything there.                               *)
Own(p, d) ==
    \A q \in Process \ {p} : \A i \in Items(q) :
        ~Within(d.dest, Item(q, i).dest) /\ ~Within(Item(q, i).dest, d.dest)

Undisturbed(d) == Cached(d) => ChartOf(d) \notin disturbed

(* When a run ends, an item it reports as fetched has been put in its      *)
(* place as a whole, and in a directory of its own it is what was asked    *)
(* for.  If no other process copies to the place it is there as a whole,   *)
(* and when it was forced nothing older than what this run pulled is left  *)
(* of it.  Whatever failed or was interrupted before, only a chart that    *)
(* two groups took from the cache at once, or that was left there          *)
(* half-way, may be incomplete.                                            *)
FetchedIsWhole ==
    \A p \in Process : Over(p) =>
        \A i \in run[p].fetched :
            LET d == Item(p, i)
                w == work[p][GroupOf(d)]
            IN  Undisturbed(d) =>
                  /\ \A f \in Part(d) : Place(d, f) \in DOMAIN disk
                  /\ Alone(d) /\ (d.kind = "git" => AskedRef(d) # NoRef) => Right(d)
                  /\ Alone(d) /\ Own(p, d) =>
                        /\ Whole(d)
                        /\ Forced(p, i, run[p].flags) =>
                              \A f \in Part(d) : disk[Place(d, f)].at >= w.held.at

(* "Already present" is all that keeps an item from being fetched: unless  *)
(* something failed or was interrupted, a destination no other item writes *)
(* into that is there, and that no run is copying to, is there as a whole. *)
Copying(dest) ==
    \E p \in Process : \E g \in DOMAIN work[p] :
        \E i \in work[p][g].left : Item(p, i).dest = dest

PresentIsWhole ==
    smooth => \A p \in Process : \A i \in Items(p) :
        LET d == Item(p, i) IN
        Exists(d.dest) /\ Alone(d) /\ Undisturbed(d) /\ ~Copying(d.dest) => Whole(d)

(* What is in the chart cache is whole and of one version of its source    *)
(* unless someone is putting it there, two groups did at once, or one was  *)
(* interrupted while it removed or copied files: with rename, and nothing  *)
(* removed, an interruption is harmless.                                   *)
ChartsAreWhole ==
    \A p \in Process : \A i \in Items(p) :
        LET d == Item(p, i)
            chart == cache[ChartOf(d)]
        IN
        /\ Cached(d) /\ ChartOf(d) \in DOMAIN cache /\ Undisturbed(d)
        /\ \A q \in Process : \A g \in Busy(q) :
              work[q][g].step \in {"dropping", "store", "storing"} =>
                 ChartOf(First(q, g)) # ChartOf(d)
        => /\ DOMAIN chart = FilesOf[d.source]
           /\ \A e, f \in DOMAIN chart : chart[e].at = chart[f].at

(* Nothing is reported as fetched, passed over as present or taken from    *)
(* the chart cache that is not there as a whole.                           *)
FilesAreWhole == FetchedIsWhole /\ PresentIsWhole /\ ChartsAreWhole

(* After a run that fetched everything without a failure, the next one     *)
(* that is not forced goes to the network for forced items only, and for a *)
(* file that a copy into a directory around it has just removed.           *)
SettledIsOffline ==
    \A p \in Process :
        Over(p) /\ run[p].failed = {} /\ (run[p].flags.all \/ run[p].flags.force) =>
            \A i \in Wanted(p, [run[p].flags EXCEPT !.force = FALSE]) :
                Item(p, i).force \/ Item(p, i).dest \in gone

(* A file that is there is removed or changed only under the destination   *)
(* of a forced item that a run is copying, and removed only when a file of *)
(* the item is about to be written to its place.  Only where another group *)
(* or process copies to the same place as well may an item that is not     *)
(* forced change it, which looked before it was there.                     *)
Contested(p, g, q) ==
    \E r \in Process : \E j \in Items(r) :
        Within(Item(r, j).dest, q) /\ (r # p \/ GroupOf(Item(r, j)) # g)

CopiesOver(p, g, q) ==
    LET w == work'[p][g] IN
    \/ /\ Forced(p, Current(p, g), run[p].flags)
       /\ q \notin There' => w.file # NoFile /\ Place(First(p, g), w.file) = q
    \/ q \in There' /\ Contested(p, g, q)

UnforcedKeepsFiles ==
    [][ \A q \in There :
          \/ q \in There' /\ disk'[q] = disk[q]
          \/ \E p \in Process : \E g \in Busy(p) :
                /\ work[p][g].step = "copy" /\ Within(First(p, g).dest, q)
                /\ CopiesOver(p, g, q) ]_vars

(* docs/specs/fetch.md, FET-10: a copy that is not forced "never           *)
(* overwrites an existing file".                                           *)
UnforcedNeverOverwrites ==
    [][ \A q \in There :
          \/ q \in There' /\ disk'[q] = disk[q]
          \/ \E p \in Process : \E g \in Busy(p) :
                /\ work[p][g].step = "copy" /\ Within(First(p, g).dest, q)
                /\ Forced(p, Current(p, g), run[p].flags) ]_vars

(* docs/specs/fetch.md, FET-6: an item with `force_fetch: true' is fetched *)
(* and overwrites what is there, with or without --fetch.                  *)
ForcedItemsAreFetched ==
    \A p \in Process :
        Over(p) /\ run[p].failed = {} =>
            \A i \in Candidate(p, run[p].flags.only) :
                Item(p, i).force => /\ Whole(Item(p, i))
                                    /\ AskedRef(Item(p, i)) # NoRef => Right(Item(p, i))
=============================================================================
