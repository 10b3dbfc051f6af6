----------------------------- MODULE CompileProofs -----------------------------
(***************************************************************************)
(* What Compile promises, for any targets, documents, contents, settings,  *)
(* numbers of workers, edits and interruptions.                            *)
(***************************************************************************)
EXTENDS Compile, TLAPS

(* -------------------- What a project's documents do. ------------------- *)

DocumentsOf(p, t) == DocsOf[p][t] \cap Document

(* The targets that may be there. *)
Possible(p) == {t \in Target : DocsOf[p][t] \cap (Document \cup {Unrendered}) # {}}

(* Nothing in the document of t writes into a nested target's directory.   *)
StaysApart(p, t, d) ==
    \A s \in d.spills, u \in Possible(p) : Within(u, t) => s[Len(t) + 1] # u[Len(t) + 1]

(* What keeps a record from being incomplete: a target that is asked for   *)
(* by name exists, and one that first fails to render does not appear      *)
(* beside a target that reads them all.                                    *)
ReadsAreRecorded(p, t, d) ==
    /\ \A u \in d.globals : u # t /\ Gone \notin DocsOf[p][u]
    /\ d.all => \A u \in Target : Gone \notin DocsOf[p][u] \/ Unrendered \notin DocsOf[p][u]

Orderly(p) == \A t \in Target : \A d \in DocumentsOf(p, t) :
                  StaysApart(p, t, d) /\ ReadsAreRecorded(p, t, d)

(* Of two targets nested below a third in one of its directories, none     *)
(* goes away.                                                              *)
NoOrphans(p) ==
    \A t, u, w \in Possible(p) :
        /\ Within(u, t) /\ Within(w, t) /\ u[Len(t) + 1] = w[Len(t) + 1] /\ u # w
        => Gone \notin DocsOf[p][u]

(* ---------------------------- The invariant. --------------------------- *)

Inventories(p) == {docs \in [Target -> Document \cup {Gone, Unrendered}] :
                      \A t \in Target : docs[t] \in DocsOf[p][t]}

(* What a compile of t has read. *)
IsMade(made, t) ==
    /\ made.doc \in DocumentsOf(project, t)
    /\ made = [settings |-> made.settings, doc |-> made.doc, files |-> made.files,
               globals |-> made.globals]
    /\ made.files = [f \in made.doc.reads |-> made.files[f]]

Owned(t, p, paths) == Within(p, t) /\ p[Len(t) + 1] \notin Children(t, paths)

Typed ==
    /\ project \in Projects /\ doc \in Inventories(project)
    /\ DOMAIN input = InputFile /\ DOMAIN manifest \subseteq Target /\ edits \in Nat
    /\ phase \in Phases
    /\ phase # "work" => queue = {} /\ work = EmptyMap
    /\ phase # "off" => ~settled

RunTyped ==
    phase # "off" =>
        /\ run = [docs |-> run.docs, fetched |-> run.fetched, settings |-> run.settings,
                  edits |-> run.edits, candidates |-> run.candidates,
                  everything |-> run.everything]
        /\ run.docs \in Inventories(project)
        /\ run.candidates \subseteq Rendered(run.docs)
        /\ run.everything => run.candidates = Rendered(run.docs) /\ Failing(run.docs) = {}
        /\ run.edits \in Nat /\ run.edits <= edits
        /\ queue \cup DOMAIN work \subseteq run.candidates
        /\ phase = "work" => /\ run.fetched \in Inventories(project)
                             /\ queue \cup DOMAIN work \subseteq Rendered(run.fetched)
        /\ phase \in {"clean", "forget"} => run.everything

(* Nothing has been edited since the run began. *)
Undisturbed == run.edits = edits

Current ==
    phase # "off" /\ Undisturbed =>
        /\ run.docs = doc /\ run.settings = settings
        /\ phase # "decide" => run.fetched = doc

Working ==
    /\ work = [t \in DOMAIN work |-> work[t]]
    /\ \A t \in DOMAIN work :
        /\ work[t] = [stage |-> work[t].stage, made |-> work[t].made]
        /\ IsMade(work[t].made, t)
        /\ work[t].stage \in {"compiled", "removed", "moved"}
        /\ ~Fails(work[t].made, run.docs)
        /\ work[t].made.doc = run.fetched[t]
        /\ work[t].made.settings = run.settings

(* Every file of compiled/ was written by some target. *)
Placed ==
    \A p \in DOMAIN output : \E t \in Target : \E d \in DocumentsOf(project, t) :
        p \in {Append(t, "main")} \cup d.spills

(* Between its install and its record a target's directory is its own.     *)
Installed ==
    Orderly(project) =>
        \A t \in DOMAIN work :
            /\ work[t].stage = "removed" => OwnPlaces(t, Paths(run.docs)) = {}
            /\ work[t].stage = "moved" =>
                  Tree(t, Paths(run.docs)) = Produced(t, work[t].made)

(* The record of t is that of a compile that read `made' while `docs' were *)
(* the documents.                                                          *)
RecordOf(t, r, made, docs) ==
    /\ ~Fails(made, docs)
    /\ r.settings = made.settings /\ r.doc = made.doc /\ r.deps = made.files
    /\ made.globals = GlobalDocs(made.doc.all, made.doc.globals, docs)
    /\ r.globals = GlobalsRead(t, made.doc, docs)
    /\ r.output = Produced(t, made)

Recorded ==
    Orderly(project) =>
        \A t \in DOMAIN manifest \ suspect :
            \E made, docs : /\ IsMade(made, t) /\ docs \in Inventories(project)
                            /\ RecordOf(t, manifest[t], made, docs)

(* As long as nothing fails and nothing is edited, what the run is done    *)
(* with is up to date.                                                     *)
Done ==
    phase \in {"work", "clean", "forget"} /\ Undisturbed /\ ~failed /\ Apart(doc) =>
        \A t \in run.candidates \ (queue \cup DOMAIN work) : ~WhyStale(t, Now)

Tidied ==
    /\ phase = "forget" => \A p \in DOMAIN output : \E t \in Paths(run.docs) : Within(p, t)
    /\ settled => /\ Failing(doc) = {}
                  /\ \A p \in DOMAIN output : \E t \in Rendered(doc) : Within(p, t)

Inv == /\ Typed /\ RunTyped /\ Current /\ Working /\ Placed /\ Installed /\ Recorded
       /\ Done /\ Tidied /\ FullRunSettles

-----------------------------------------------------------------------------
(* ------------------------------- Paths. -------------------------------- *)

AnyPath == Seq(STRING \cup {"main"})

LEMMA NamesArePaths == Seq(STRING) \subseteq AnyPath
<1> SUFFICES ASSUME NEW s \in Seq(STRING) PROVE s \in AnyPath
  OBVIOUS
<1>1. Len(s) \in Nat /\ \A i \in 1 .. Len(s) : s[i] \in STRING
  OBVIOUS
<1>2. s = [i \in 1 .. Len(s) |-> s[i]]
  OBVIOUS
<1> QED
  BY <1>1, <1>2 DEF AnyPath

LEMMA PrefixIs ==
  ASSUME NEW s \in AnyPath, NEW t \in AnyPath
  PROVE  IsPrefix(s, t) <=> Len(s) <= Len(t) /\ \A i \in 1 .. Len(s) : s[i] = t[i]
<1>1. Len(s) \in Nat /\ Len(t) \in Nat
  BY DEF AnyPath
<1>2. SubSeq(s, 1, Len(s)) = [i \in 1 .. Len(s) |-> s[i]]
  BY <1>1 DEF AnyPath
<1>3. ASSUME Len(s) <= Len(t)
      PROVE  SubSeq(t, 1, Len(s)) = [i \in 1 .. Len(s) |-> t[i]]
  BY <1>1, <1>3 DEF AnyPath
<1>4. ASSUME [i \in 1 .. Len(s) |-> s[i]] = [i \in 1 .. Len(s) |-> t[i]], NEW i \in 1 .. Len(s)
      PROVE  s[i] = t[i]
  <2>1. [j \in 1 .. Len(s) |-> s[j]][i] = s[i] /\ [j \in 1 .. Len(s) |-> t[j]][i] = t[i]
    OBVIOUS
  <2> QED
    BY <1>4, <2>1
<1> QED
  BY <1>2, <1>3, <1>4 DEF IsPrefix

LEMMA WithinIs ==
  ASSUME NEW p \in AnyPath, NEW t \in AnyPath
  PROVE  Within(p, t) <=> Len(t) < Len(p) /\ \A i \in 1 .. Len(t) : t[i] = p[i]
<1>1. Len(p) \in Nat /\ Len(t) \in Nat
  BY DEF AnyPath
<1>2. ASSUME Len(t) = Len(p), \A i \in 1 .. Len(t) : t[i] = p[i]
      PROVE  t = p
  <2>1. t = [i \in 1 .. Len(t) |-> t[i]] /\ p = [i \in 1 .. Len(p) |-> p[i]]
    BY DEF AnyPath
  <2> QED
    BY <1>2, <2>1
<1> QED
  BY <1>1, <1>2, PrefixIs DEF Within, IsStrictPrefix

LEMMA TargetsArePaths == /\ Target \subseteq AnyPath
                         /\ \A t \in Target : \A i \in 1 .. Len(t) : t[i] # "main"
<1>1. Target \subseteq Seq(STRING)
  BY CompileAssumption DEF Target, ToSet
<1>2. Target \subseteq AnyPath
  BY <1>1, NamesArePaths
<1>3. ASSUME NEW t \in Target, NEW i \in 1 .. Len(t) PROVE t[i] # "main"
  <2>1. t[i] \in ToSet(t)
    BY <1>2 DEF ToSet, AnyPath
  <2> QED
    BY <2>1, CompileAssumption
<1> QED
  BY <1>2, <1>3

(* A file lies in one target's own part of compiled/ at most. *)
LEMMA OwnersDiffer ==
  ASSUME NEW paths \in SUBSET Target, NEW t \in paths, NEW u \in paths, t # u,
         NEW p \in AnyPath, Owned(t, p, paths)
  PROVE  ~Owned(u, p, paths)
<1>1. /\ t \in AnyPath /\ u \in AnyPath
      /\ Len(p) \in Nat /\ Len(t) \in Nat /\ Len(u) \in Nat
  BY TargetsArePaths DEF AnyPath
<1> SUFFICES ASSUME Owned(u, p, paths) PROVE FALSE
  OBVIOUS
<1>2. /\ Len(t) < Len(p) /\ \A i \in 1 .. Len(t) : t[i] = p[i]
      /\ Len(u) < Len(p) /\ \A i \in 1 .. Len(u) : u[i] = p[i]
  BY <1>1, WithinIs DEF Owned
<1>3. ASSUME NEW v \in paths, NEW w \in paths, v \in AnyPath, w \in AnyPath,
             Len(v) \in Nat, Len(w) \in Nat, Len(v) < Len(w), Len(w) < Len(p),
             \A i \in 1 .. Len(v) : v[i] = p[i], \A i \in 1 .. Len(w) : w[i] = p[i],
             Owned(v, p, paths)
      PROVE  FALSE
  <2>1. IsStrictPrefix(v, w)
    BY <1>3, WithinIs DEF Within
  <2>2. w[Len(v) + 1] = p[Len(v) + 1]
    BY <1>1, <1>3
  <2> QED
    BY <1>3, <2>1, <2>2 DEF Owned, Children
<1>4. ASSUME Len(t) = Len(u) PROVE FALSE
  <2>1. t = [i \in 1 .. Len(t) |-> t[i]] /\ u = [i \in 1 .. Len(u) |-> u[i]]
    BY <1>1 DEF AnyPath
  <2> QED
    BY <1>2, <1>4, <2>1
<1>5. CASE Len(t) < Len(u)
  BY <1>1, <1>2, <1>3, <1>5
<1>6. CASE Len(u) < Len(t)
  BY <1>1, <1>2, <1>3, <1>6
<1> QED
  BY <1>1, <1>4, <1>5, <1>6

PlacesOf(t, d) == {Append(t, "main")} \cup d.spills

LEMMA PlacesAreWithin ==
  ASSUME NEW q \in Projects, NEW t \in Target, NEW d \in DocumentsOf(q, t),
         NEW s \in PlacesOf(t, d)
  PROVE  s \in AnyPath /\ Within(s, t)
<1>1. t \in AnyPath /\ Len(t) \in Nat
  BY TargetsArePaths DEF AnyPath
<1>2. CASE s = Append(t, "main")
  <2>1. t \in Seq(STRING \cup {"main"}) /\ "main" \in STRING \cup {"main"}
    BY <1>1 DEF AnyPath
  <2>2. s \in Seq(STRING \cup {"main"}) /\ Len(s) = Len(t) + 1
    BY <1>2, <2>1
  <2>3. \A i \in 1 .. Len(t) : s[i] = t[i]
    BY <1>2, <2>1
  <2> QED
    BY <1>1, <2>2, <2>3, WithinIs DEF AnyPath
<1>3. CASE s \in d.spills
  BY <1>3, CompileAssumption, NamesArePaths DEF DocumentsOf, Within
<1> QED
  BY <1>2, <1>3 DEF PlacesOf

(* What a target writes is its own, unless it spills. *)
LEMMA WritesAreOwned ==
  ASSUME NEW q \in Projects, NEW t \in Target, NEW d \in DocumentsOf(q, t),
         StaysApart(q, t, d), NEW s \in PlacesOf(t, d), NEW paths \in SUBSET Possible(q)
  PROVE  Owned(t, s, paths)
<1>1. s \in AnyPath /\ Within(s, t) /\ t \in AnyPath /\ Len(t) \in Nat
  BY PlacesAreWithin, TargetsArePaths DEF AnyPath
<1>2. ASSUME NEW u \in paths, IsStrictPrefix(t, u) PROVE s[Len(t) + 1] # u[Len(t) + 1]
  <2>1. u \in Target /\ u \in Possible(q) /\ u \in AnyPath /\ Within(u, t)
    BY <1>2, TargetsArePaths DEF Possible, Within
  <2>2. CASE s = Append(t, "main")
    <3>1. s[Len(t) + 1] = "main"
      BY <1>1, <2>2 DEF AnyPath
    <3>2. Len(u) \in Nat /\ Len(t) + 1 \in 1 .. Len(u)
      BY <1>1, <2>1, WithinIs DEF AnyPath
    <3> QED
      BY <2>1, <3>1, <3>2, TargetsArePaths
  <2>3. CASE s \in d.spills
    BY <2>1, <2>3 DEF StaysApart
  <2> QED
    BY <2>2, <2>3 DEF PlacesOf
<1> QED
  BY <1>1, <1>2 DEF Owned, Children

LEMMA WritesAreNotOthers ==
  ASSUME NEW q \in Projects, NEW paths \in SUBSET Possible(q), NEW t \in paths, NEW u \in paths,
         t # u, NEW d \in DocumentsOf(q, u), StaysApart(q, u, d), NEW s \in PlacesOf(u, d)
  PROVE  ~Owned(t, s, paths)
<1>1. paths \in SUBSET Target
  BY DEF Possible
<1>2. Owned(u, s, paths) /\ s \in AnyPath
  BY <1>1, WritesAreOwned, PlacesAreWithin
<1> QED
  BY <1>1, <1>2, OwnersDiffer

-----------------------------------------------------------------------------
(* ------------------- What a step leaves as it is. ---------------------- *)

LEMMA StaysFresh ==
  ASSUME NEW t, UNCHANGED << settings, doc, input >>, ~WhyStale(t, Now),
         t \in DOMAIN manifest => t \in DOMAIN manifest' /\ manifest'[t] = manifest[t],
         Tree(t, Paths(doc))' = Tree(t, Paths(doc))
  PROVE  ~WhyStale(t, Now)'
<1> DEFINE at == [docs |-> doc, fetched |-> doc, settings |-> settings]
<1>1. Now = at /\ Now' = at
  BY DEF Now
<1>2. Paths(at.docs) = Paths(doc) /\ Paths(at.docs)' = Paths(doc)'
  OBVIOUS
<1>3. /\ t \in DOMAIN manifest /\ manifest[t].settings = at.settings
      /\ manifest[t].doc = at.docs[t]
      /\ \A f \in DOMAIN manifest[t].deps : manifest[t].deps[f] = input[f]
      /\ manifest[t].globals
            = GlobalDocs(manifest[t].doc.all, DOMAIN manifest[t].globals, at.docs)
      /\ manifest[t].output = Tree(t, Paths(doc))
  BY <1>1, <1>2 DEF WhyStale
<1> QED
  BY <1>1, <1>2, <1>3 DEF WhyStale

LEMMA RecordsStay ==
  ASSUME Recorded, UNCHANGED project,
         DOMAIN manifest' \ suspect' \subseteq DOMAIN manifest \ suspect,
         \A t \in DOMAIN manifest' \ suspect' : manifest'[t] = manifest[t]
  PROVE  Recorded'
BY DEF Recorded, IsMade, RecordOf

LEMMA PlacesStay ==
  ASSUME Placed, UNCHANGED project, DOMAIN output' \subseteq DOMAIN output
  PROVE  Placed'
BY DEF Placed

LEMMA WorkStays ==
  ASSUME Working, Installed, UNCHANGED << project, work, run, output >>
  PROVE  Working' /\ Installed'
BY DEF Working, IsMade, Installed, OwnPlaces, Tree, Children

LEMMA InitInv == Init => Inv
<1> SUFFICES ASSUME Init PROVE Inv
  OBVIOUS
<1> USE DEF Init
<1>1. Typed
  BY DEF Typed, Inventories, Phases, EmptyMap
<1>2. RunTyped /\ Current /\ Done
  BY DEF RunTyped, Current, Done
<1>3. DOMAIN work = {} /\ DOMAIN output = {} /\ DOMAIN manifest = {}
  BY DEF EmptyMap
<1>4. work = [t \in DOMAIN work |-> work[t]]
  BY DEF EmptyMap
<1>5. Working /\ Placed /\ Installed /\ Recorded
  BY <1>3, <1>4 DEF Working, Placed, Installed, Recorded
<1>6. Tidied /\ FullRunSettles
  BY DEF Tidied, FullRunSettles
<1> QED
  BY <1>1, <1>2, <1>5, <1>6 DEF Inv

LEMMA EditKeeps ==
  ASSUME Inv, Edit
  PROVE  Inv'
<1>1. /\ UNCHANGED << project, output, manifest, suspect, phase, run, queue, work, failed >>
      /\ edits \in Nat /\ edits' = edits + 1 /\ settled' = FALSE
      /\ DOMAIN input = InputFile /\ doc \in Inventories(project)
  BY DEF Inv, Typed, Edit, compiled, progress
<1>2. doc' \in Inventories(project) /\ DOMAIN input' = InputFile
  <2>1. CASE \E t \in Target, d \in Document \cup {Gone, Unrendered} :
               d \in DocsOf[project][t] /\ doc' = [doc EXCEPT ![t] = d] /\ input' = input
    BY <1>1, <2>1 DEF Inventories
  <2>2. CASE doc' = doc /\ \E f \in InputFile : \E c \in ContentsOf[f] :
               input' = [input EXCEPT ![f] = c]
    BY <1>1, <2>2
  <2>3. CASE UNCHANGED << doc, input >>
    BY <1>1, <2>3
  <2> QED
    BY <2>1, <2>2, <2>3 DEF Edit
<1>3. Typed'
  BY <1>1, <1>2 DEF Inv, Typed
<1>4. RunTyped'
  BY <1>1 DEF Inv, RunTyped
<1>5. phase' # "off" => ~Undisturbed'
  BY <1>1 DEF Inv, RunTyped, Undisturbed
<1>6. Current' /\ Done'
  BY <1>1, <1>5 DEF Current, Done
<1>7. Working' /\ Installed' /\ Recorded' /\ Placed'
  BY <1>1, WorkStays, RecordsStay, PlacesStay DEF Inv
<1>8. Tidied' /\ FullRunSettles'
  BY <1>1 DEF Inv, Tidied, FullRunSettles
<1> QED
  BY <1>3, <1>4, <1>6, <1>7, <1>8 DEF Inv

LEMMA TamperKeeps ==
  ASSUME Inv, Tamper
  PROVE  Inv'
<1>1. /\ UNCHANGED << project, settings, doc, input, suspect, phase, run, queue, work, failed >>
      /\ edits \in Nat /\ edits' = edits + 1 /\ settled' = FALSE /\ phase = "off"
      /\ work = EmptyMap /\ DOMAIN work = {} /\ DOMAIN manifest \subseteq Target
  BY DEF Inv, Typed, Tamper, sources, progress, EmptyMap
<1>2. DOMAIN output' \subseteq DOMAIN output
  <2>1. CASE \E p \in DOMAIN output : output' = RestrictDomain(output, LAMBDA q : q # p)
    BY <2>1 DEF RestrictDomain, Restrict
  <2>2. CASE \E p \in DOMAIN output : output' = Put(output, p, Junk)
    <3>1. PICK p \in DOMAIN output : output' = Put(output, p, Junk)
      BY <2>2
    <3>2. DOMAIN output' = DOMAIN output \cup {p}
      BY <3>1 DEF Put
    <3> QED
      BY <3>2
  <2>3. CASE output' = output
    BY <2>3
  <2> QED
    BY <2>1, <2>2, <2>3 DEF Tamper
<1>9. manifest' = manifest \/ DOMAIN manifest' = {}
  <2>1. DOMAIN EmptyMap = {}
    BY DEF EmptyMap
  <2> QED
    BY <2>1 DEF Tamper
<1>3. Typed'
  BY <1>1, <1>9 DEF Inv, Typed
<1>4. RunTyped' /\ Current' /\ Done' /\ Tidied' /\ FullRunSettles'
  BY <1>1 DEF RunTyped, Current, Done, Tidied, FullRunSettles
<1>5. Working' /\ Installed'
  BY <1>1 DEF Inv, Working, Installed
<1>6. Recorded' /\ Placed'
  BY <1>1, <1>2, <1>9, RecordsStay, PlacesStay DEF Inv
<1> QED
  BY <1>3, <1>4, <1>5, <1>6 DEF Inv

LEMMA StartKeeps ==
  ASSUME Inv, Start
  PROVE  Inv'
<1>1. /\ UNCHANGED << project, settings, doc, input, output, manifest, suspect, queue, work,
                      edits >>
      /\ phase = "off" /\ phase' = "decide" /\ failed' = FALSE /\ settled' = FALSE
      /\ edits \in Nat /\ doc \in Inventories(project) /\ queue = {} /\ work = EmptyMap
      /\ DOMAIN work = {}
  BY DEF Inv, Typed, Start, sources, compiled, EmptyMap
<1>2. PICK selection \in Selections[project] :
        LET everything == selection = {}
            candidates == IF everything THEN Rendered(doc) ELSE selection
        IN  /\ everything => Failing(doc) = {}
            /\ candidates \subseteq Rendered(doc) /\ candidates # {}
            /\ run' = [docs |-> doc, fetched |-> doc, settings |-> settings, edits |-> edits,
                       candidates |-> candidates, everything |-> everything]
  BY DEF Start
<1>3. /\ run' = [docs |-> run'.docs, fetched |-> run'.fetched, settings |-> run'.settings,
                 edits |-> run'.edits, candidates |-> run'.candidates,
                 everything |-> run'.everything]
      /\ run'.docs = doc /\ run'.settings = settings /\ run'.edits = edits
      /\ run'.candidates \subseteq Rendered(doc)
      /\ run'.everything => run'.candidates = Rendered(doc) /\ Failing(doc) = {}
  BY <1>2
<1>4. Typed'
  BY <1>1 DEF Inv, Typed, Phases
<1>5. RunTyped'
  BY <1>1, <1>3 DEF RunTyped
<1>6. Current' /\ Done' /\ Tidied' /\ FullRunSettles'
  BY <1>1, <1>3 DEF Current, Done, Tidied, FullRunSettles
<1>7. Working' /\ Installed'
  BY <1>1 DEF Inv, Working, Installed
<1>8. Recorded' /\ Placed'
  BY <1>1, RecordsStay, PlacesStay DEF Inv
<1> QED
  BY <1>4, <1>5, <1>6, <1>7, <1>8 DEF Inv

LEMMA CrashKeeps ==
  ASSUME Inv, Crash
  PROVE  Inv'
<1>1. /\ UNCHANGED << project, settings, doc, input, output, manifest, suspect, edits, settled >>
      /\ phase # "off" /\ phase' = "off" /\ queue' = {} /\ work' = EmptyMap /\ DOMAIN work' = {}
      /\ ~settled
  BY DEF Inv, Typed, Crash, EndRun, sources, compiled, EmptyMap
<1>2. work' = [t \in DOMAIN work' |-> work'[t]]
  BY <1>1 DEF EmptyMap
<1>3. Typed'
  BY <1>1 DEF Inv, Typed, Phases
<1>4. RunTyped' /\ Current' /\ Done' /\ Tidied' /\ FullRunSettles'
  BY <1>1 DEF RunTyped, Current, Done, Tidied, FullRunSettles
<1>5. Working' /\ Installed'
  BY <1>1, <1>2 DEF Working, Installed
<1>6. Recorded' /\ Placed'
  BY <1>1, RecordsStay, PlacesStay DEF Inv
<1> QED
  BY <1>3, <1>4, <1>5, <1>6 DEF Inv

LEMMA SnapshotIsNow ==
  ASSUME NEW t, phase # "off", run.docs = doc, run.settings = settings, ~WhyStale(t, run)
  PROVE  ~WhyStale(t, Now)
<1> DEFINE at == [docs |-> doc, fetched |-> doc, settings |-> settings]
<1>1. Now = at /\ at.docs = run.docs /\ at.settings = run.settings
  BY DEF Now
<1> QED
  BY <1>1 DEF WhyStale

LEMMA DecideKeeps ==
  ASSUME Inv, Decide
  PROVE  Inv'
<1>1. /\ UNCHANGED << project, settings, doc, input, output, manifest, suspect, work, failed,
                      edits, settled >>
      /\ phase = "decide" /\ queue = {} /\ work = EmptyMap /\ DOMAIN work = {} /\ ~settled
      /\ doc \in Inventories(project)
  BY DEF Inv, Typed, Decide, sources, compiled, EmptyMap
<1>2. Recorded' /\ Placed'
  BY <1>1, RecordsStay, PlacesStay DEF Inv
<1>3. work' = [t \in DOMAIN work' |-> work'[t]]
  BY <1>1 DEF Inv, Working
<1>4. Working' /\ Installed' /\ FullRunSettles'
  BY <1>1, <1>3 DEF Working, Installed, FullRunSettles
<1>5. CASE EndRun /\ UNCHANGED queue
  <2>1. Typed'
    BY <1>1, <1>5 DEF Inv, Typed, Phases, EndRun
  <2>2. RunTyped' /\ Current' /\ Done' /\ Tidied'
    BY <1>1, <1>5 DEF RunTyped, Current, Done, Tidied, EndRun
  <2> QED
    BY <1>2, <1>4, <2>1, <2>2 DEF Inv
<1>6. CASE \E force \in BOOLEAN, documents \in {run.docs, doc} :
              /\ StaleOnes(force) \subseteq Rendered(documents)
              /\ queue' = StaleOnes(force)
              /\ run' = [run EXCEPT !.fetched = documents]
              /\ phase' = "work"
  <2>1. PICK force \in BOOLEAN, documents \in {run.docs, doc} :
              /\ StaleOnes(force) \subseteq Rendered(documents)
              /\ queue' = StaleOnes(force)
              /\ run' = [run EXCEPT !.fetched = documents]
              /\ phase' = "work"
    BY <1>6
  <2>2. /\ run' = [docs |-> run.docs, fetched |-> documents, settings |-> run.settings,
                   edits |-> run.edits, candidates |-> run.candidates,
                   everything |-> run.everything]
        /\ run.docs \in Inventories(project) /\ documents \in Inventories(project)
        /\ run.candidates \subseteq Rendered(run.docs)
        /\ run.everything => run.candidates = Rendered(run.docs) /\ Failing(run.docs) = {}
        /\ run.edits \in Nat /\ run.edits <= edits
    BY <1>1, <2>1 DEF Inv, RunTyped
  <2>3. /\ run' = [docs |-> run'.docs, fetched |-> run'.fetched, settings |-> run'.settings,
                   edits |-> run'.edits, candidates |-> run'.candidates,
                   everything |-> run'.everything]
        /\ run'.docs = run.docs /\ run'.fetched = documents /\ run'.settings = run.settings
        /\ run'.edits = run.edits /\ run'.candidates = run.candidates
        /\ run'.everything = run.everything
    BY <2>2
  <2>4. queue' = StaleOnes(force) /\ queue' \subseteq run.candidates
    BY <2>1 DEF StaleOnes
  <2>5. Typed'
    BY <1>1, <2>1 DEF Inv, Typed, Phases
  <2>6. RunTyped'
    BY <1>1, <2>1, <2>2, <2>3, <2>4 DEF RunTyped
  <2>7. Undisturbed' => run.docs = doc /\ run.settings = settings /\ documents = doc
    BY <1>1, <2>1, <2>3 DEF Inv, Current, Undisturbed
  <2>8. Current'
    BY <1>1, <2>3, <2>7 DEF Current
  <2>9. Done'
    <3> SUFFICES ASSUME Undisturbed', NEW t \in run'.candidates \ (queue' \cup DOMAIN work')
                 PROVE  ~WhyStale(t, Now)'
      BY DEF Done
    <3>1. ~WhyStale(t, run)
      BY <2>3, <2>4 DEF StaleOnes
    <3>2. ~WhyStale(t, Now)
      BY <1>1, <2>7, <3>1, SnapshotIsNow
    <3>3. Tree(t, Paths(doc))' = Tree(t, Paths(doc))
      BY <1>1 DEF Tree, OwnPlaces
    <3> QED
      BY <1>1, <3>2, <3>3, StaysFresh
  <2>10. Tidied'
    BY <1>1, <2>1 DEF Tidied
  <2> QED
    BY <1>2, <1>4, <2>5, <2>6, <2>8, <2>9, <2>10 DEF Inv
<1> QED
  BY <1>5, <1>6 DEF Decide

LEMMA CompileTargetKeeps ==
  ASSUME Inv, CompileTarget
  PROVE  Inv'
<1> DEFINE made(t) == Reads(t, run)
<1>1. /\ UNCHANGED << project, settings, doc, input, output, manifest, suspect, phase, run,
                      edits, settled >>
      /\ phase = "work" /\ ~settled
      /\ doc \in Inventories(project)
  BY DEF Inv, Typed, CompileTarget, sources, compiled
<1>2. PICK t \in queue :
         /\ queue' = queue \ {t}
         /\ failed' = (failed \/ Fails(made(t), run.docs))
         /\ work' = IF Fails(made(t), run.docs) THEN work
                    ELSE Put(work, t, [stage |-> "compiled", made |-> made(t)])
  BY DEF CompileTarget
<1>3. /\ run.docs \in Inventories(project) /\ run.fetched \in Inventories(project)
      /\ t \in run.candidates /\ t \in Rendered(run.fetched) /\ t \in Target
      /\ run.candidates \subseteq Rendered(run.docs)
  BY <1>1, <1>2 DEF Inv, RunTyped, Rendered, Inventories
<1>4. Recorded' /\ Placed'
  BY <1>1, RecordsStay, PlacesStay DEF Inv
<1>5. IsMade(made(t), t) /\ made(t).doc = run.fetched[t] /\ made(t).settings = run.settings
  <2>1. run.fetched[t] \in DocumentsOf(project, t)
    BY <1>3 DEF Rendered, Inventories, DocumentsOf
  <2> QED
    BY <2>1 DEF IsMade, Reads
<1>6. DOMAIN work' \subseteq DOMAIN work \cup {t}
  BY <1>2 DEF Put
<1>7. Typed'
  BY <1>1 DEF Inv, Typed
<1>8. RunTyped'
  BY <1>1, <1>2, <1>3, <1>6 DEF Inv, RunTyped
<1>9. Current'
  BY <1>1 DEF Inv, Current, Undisturbed
<1>10. Tidied' /\ FullRunSettles'
  BY <1>1 DEF Tidied, FullRunSettles
<1>11. CASE Fails(made(t), run.docs)
  <2>1. Working' /\ Installed'
    BY <1>1, <1>2, <1>11, WorkStays DEF Inv
  <2>2. Done'
    BY <1>2, <1>11 DEF Done
  <2> QED
    BY <1>4, <1>7, <1>8, <1>9, <1>10, <2>1, <2>2 DEF Inv
<1>12. CASE ~Fails(made(t), run.docs)
  <2> HIDE DEF made
  <2>1. /\ DOMAIN work' = DOMAIN work \cup {t}
        /\ work' = [u \in DOMAIN work' |-> work'[u]]
        /\ work'[t] = [stage |-> "compiled", made |-> made(t)]
        /\ \A u \in DOMAIN work : u # t => work'[u] = work[u]
    BY <1>2, <1>12 DEF Put
  <2>2. Working'
    <3> SUFFICES ASSUME NEW u \in DOMAIN work'
                 PROVE  /\ work'[u] = [stage |-> work'[u].stage, made |-> work'[u].made]
                        /\ IsMade(work'[u].made, u)
                        /\ work'[u].stage \in {"compiled", "removed", "moved"}
                        /\ ~Fails(work'[u].made, run.docs)
                        /\ work'[u].made.doc = run.fetched[u]
                        /\ work'[u].made.settings = run.settings
      BY <1>1, <2>1 DEF Working, IsMade
    <3>1. CASE u = t
      BY <1>5, <1>12, <2>1, <3>1
    <3>2. CASE u # t
      BY <2>1, <3>2 DEF Inv, Working
    <3> QED
      BY <3>1, <3>2
  <2>3. Installed'
    <3> SUFFICES ASSUME Orderly(project), NEW u \in DOMAIN work'
                 PROVE  /\ work'[u].stage = "removed" => OwnPlaces(u, Paths(run.docs)) = {}
                        /\ work'[u].stage = "moved" =>
                               Tree(u, Paths(run.docs)) = Produced(u, work'[u].made)
      BY <1>1 DEF Installed, OwnPlaces, Tree
    <3> QED
      BY <2>1 DEF Inv, Installed
  <2>4. Done'
    <3> SUFFICES ASSUME Undisturbed', ~failed', Apart(doc)',
                        NEW u \in run'.candidates \ (queue' \cup DOMAIN work')
                 PROVE  ~WhyStale(u, Now)'
      BY DEF Done
    <3>1. u \in run.candidates \ (queue \cup DOMAIN work)
      BY <1>1, <1>2, <2>1
    <3>2. Undisturbed /\ ~failed /\ Apart(doc)
      BY <1>1, <1>2 DEF Undisturbed, Apart
    <3>3. ~WhyStale(u, Now)
      BY <1>1, <3>1, <3>2 DEF Inv, Done
    <3>4. Tree(u, Paths(doc))' = Tree(u, Paths(doc))
      BY <1>1 DEF Tree, OwnPlaces
    <3> QED
      BY <1>1, <3>3, <3>4, StaysFresh
  <2> QED
    BY <1>4, <1>7, <1>8, <1>9, <1>10, <2>2, <2>3, <2>4 DEF Inv
<1> QED
  BY <1>11, <1>12

LEMMA AllWorkedKeeps ==
  ASSUME Inv, AllWorked
  PROVE  Inv'
<1>1. /\ UNCHANGED << project, settings, doc, input, output, manifest, suspect, queue, work,
                      failed, edits, settled >>
      /\ phase = "work" /\ queue = {} /\ work = EmptyMap /\ DOMAIN work = {} /\ ~settled
  BY DEF Inv, Typed, AllWorked, sources, compiled, EmptyMap
<1>2. Recorded' /\ Placed'
  BY <1>1, RecordsStay, PlacesStay DEF Inv
<1>3. work' = [t \in DOMAIN work' |-> work'[t]]
  BY <1>1 DEF Inv, Working
<1>4. Working' /\ Installed' /\ FullRunSettles'
  BY <1>1, <1>3 DEF Working, Installed, FullRunSettles
<1>5. CASE run.everything /\ phase' = "clean" /\ UNCHANGED run
  <2>1. Typed' /\ RunTyped' /\ Current' /\ Tidied'
    BY <1>1, <1>5 DEF Inv, Typed, Phases, RunTyped, Current, Undisturbed, Tidied
  <2>2. Done'
    <3> SUFFICES ASSUME Undisturbed', ~failed', Apart(doc)',
                        NEW u \in run'.candidates \ (queue' \cup DOMAIN work')
                 PROVE  ~WhyStale(u, Now)'
      BY DEF Done
    <3>1. ~WhyStale(u, Now)
      BY <1>1, <1>5 DEF Inv, Done, Undisturbed, Apart
    <3>2. Tree(u, Paths(doc))' = Tree(u, Paths(doc))
      BY <1>1 DEF Tree, OwnPlaces
    <3> QED
      BY <1>1, <3>1, <3>2, StaysFresh
  <2> QED
    BY <1>2, <1>4, <2>1, <2>2 DEF Inv
<1>6. CASE EndRun
  <2>1. Typed'
    BY <1>1, <1>6 DEF Inv, Typed, Phases, EndRun
  <2>2. RunTyped' /\ Current' /\ Done' /\ Tidied'
    BY <1>1, <1>6 DEF RunTyped, Current, Done, Tidied, EndRun
  <2> QED
    BY <1>2, <1>4, <2>1, <2>2 DEF Inv
<1> QED
  BY <1>5, <1>6 DEF AllWorked

-----------------------------------------------------------------------------
(* ------------------------- Steps of the workers. ----------------------- *)

Own(out, t, paths) == {p \in DOMAIN out : Owned(t, p, paths)}
TreeOf(out, t, paths) == [p \in Own(out, t, paths) |-> out[p]]

LEMMA TreesAre ==
  ASSUME NEW t, NEW paths
  PROVE  /\ OwnPlaces(t, paths) = Own(output, t, paths)
         /\ Tree(t, paths) = TreeOf(output, t, paths)
BY DEF OwnPlaces, Tree, Own, TreeOf, Owned

LEMMA TreesAgree ==
  ASSUME NEW old, NEW new, NEW t, NEW paths,
         \A p \in DOMAIN old \cup DOMAIN new :
            Owned(t, p, paths) => p \in DOMAIN old /\ p \in DOMAIN new /\ new[p] = old[p]
  PROVE  Own(new, t, paths) = Own(old, t, paths) /\ TreeOf(new, t, paths) = TreeOf(old, t, paths)
<1>1. Own(new, t, paths) = Own(old, t, paths)
  BY DEF Own
<1>2. \A p \in Own(old, t, paths) : new[p] = old[p]
  BY DEF Own
<1> QED
  BY <1>1, <1>2 DEF TreeOf

LEMMA PathsArePossible ==
  ASSUME NEW p, NEW docs \in Inventories(p)
  PROVE  Paths(docs) \in SUBSET Possible(p) /\ Paths(docs) \in SUBSET Target
BY DEF Inventories, Paths, Rendered, Failing, Possible

LEMMA FilesArePaths ==
  ASSUME Inv
  PROVE  DOMAIN output \subseteq AnyPath
<1> SUFFICES ASSUME NEW p \in DOMAIN output PROVE p \in AnyPath
  OBVIOUS
<1>1. PICK t \in Target : \E d \in DocumentsOf(project, t) : p \in PlacesOf(t, d)
  BY DEF Inv, Placed, PlacesOf
<1> QED
  BY <1>1, PlacesAreWithin DEF Inv, Typed

(* What is known of a target in work. *)
LEMMA WorkerFacts ==
  ASSUME Inv, NEW t \in Target, NEW stage, At(t, stage)
  PROVE  /\ phase = "work" /\ ~settled /\ queue \cup DOMAIN work \subseteq run.candidates
         /\ t \in DOMAIN work /\ work[t].stage = stage
         /\ run.docs \in Inventories(project) /\ run.fetched \in Inventories(project)
         /\ doc \in Inventories(project) /\ project \in Projects
         /\ run.candidates \subseteq Paths(run.docs)
         /\ IsMade(work[t].made, t) /\ work[t].made.doc \in DocumentsOf(project, t)
         /\ work[t].made.doc = run.fetched[t]
         /\ \A u \in DOMAIN work : u \in Paths(run.docs)
<1>1. phase = "work" /\ t \in DOMAIN work /\ work[t].stage = stage
  BY DEF At
<1>2. /\ run.docs \in Inventories(project) /\ run.fetched \in Inventories(project)
      /\ queue \cup DOMAIN work \subseteq run.candidates
      /\ run.candidates \subseteq Rendered(run.docs)
  BY <1>1 DEF Inv, RunTyped
<1>3. /\ doc \in Inventories(project) /\ project \in Projects /\ ~settled
  BY <1>1 DEF Inv, Typed
<1>4. IsMade(work[t].made, t) /\ work[t].made.doc = run.fetched[t]
  BY <1>1 DEF Inv, Working
<1>5. run.candidates \subseteq Paths(run.docs)
  BY <1>2 DEF Paths
<1> QED
  BY <1>1, <1>2, <1>3, <1>4, <1>5 DEF IsMade

(* A step of one worker leaves what others have done as it is. *)
LEMMA WorkerStepKeeps ==
  ASSUME Inv, NEW t \in Target, NEW stage, NEW next \in {"removed", "moved"}, At(t, stage),
         Advance(t, next),
         UNCHANGED << project, settings, doc, input, manifest, suspect, phase, run, queue,
                      failed, edits, settled >>,
         Placed',
         \A u \in Paths(run.docs) : u # t /\ StaysApart(project, t, work[t].made.doc) =>
            TreeOf(output', u, Paths(run.docs)) = TreeOf(output, u, Paths(run.docs))
            /\ Own(output', u, Paths(run.docs)) = Own(output, u, Paths(run.docs)),
         Orderly(project) /\ next = "removed" => Own(output', t, Paths(run.docs)) = {},
         Orderly(project) /\ next = "moved" =>
            TreeOf(output', t, Paths(run.docs)) = Produced(t, work[t].made)
  PROVE  Inv'
<1>1. /\ phase = "work" /\ ~settled /\ t \in DOMAIN work
      /\ \A u \in DOMAIN work : u \in Paths(run.docs)
      /\ run.candidates \subseteq Paths(run.docs)
      /\ work[t].made.doc \in DocumentsOf(project, t) /\ work[t].made.doc = run.fetched[t]
  BY WorkerFacts
<1>2. /\ DOMAIN work' = DOMAIN work
      /\ work' = [u \in DOMAIN work' |-> work'[u]]
      /\ work'[t] = [stage |-> next, made |-> work[t].made]
      /\ \A u \in DOMAIN work : u # t => work'[u] = work[u]
  <2>1. work = [u \in DOMAIN work |-> work[u]]
    BY DEF Inv, Working
  <2>2. work[t] = [stage |-> work[t].stage, made |-> work[t].made]
    BY <1>1 DEF Inv, Working
  <2> QED
    BY <1>1, <2>1, <2>2 DEF Advance
<1>3. Recorded'
  BY RecordsStay DEF Inv
<1>4. Typed' /\ RunTyped' /\ Current' /\ Tidied' /\ FullRunSettles'
  BY <1>1, <1>2 DEF Inv, Typed, RunTyped, Current, Undisturbed, Tidied, FullRunSettles
<1>5. Working'
  <2> SUFFICES ASSUME NEW u \in DOMAIN work'
               PROVE  /\ work'[u] = [stage |-> work'[u].stage, made |-> work'[u].made]
                      /\ IsMade(work'[u].made, u)
                      /\ work'[u].stage \in {"compiled", "removed", "moved"}
                      /\ ~Fails(work'[u].made, run.docs)
                      /\ work'[u].made.doc = run.fetched[u]
                      /\ work'[u].made.settings = run.settings
    BY <1>2 DEF Working, IsMade
  <2>1. CASE u = t
    BY <1>1, <1>2, <2>1 DEF Inv, Working
  <2>2. CASE u # t
    BY <1>2, <2>2 DEF Inv, Working
  <2> QED
    BY <2>1, <2>2
<1>6. Installed'
  <2> SUFFICES ASSUME Orderly(project), NEW u \in DOMAIN work
               PROVE  /\ work'[u].stage = "removed" => Own(output', u, Paths(run.docs)) = {}
                      /\ work'[u].stage = "moved" =>
                             TreeOf(output', u, Paths(run.docs)) = Produced(u, work'[u].made)
    BY <1>2 DEF Installed, OwnPlaces, Tree, Own, TreeOf, Owned
  <2>1. CASE u = t
    BY <1>2, <2>1
  <2>2. CASE u # t
    <3>1. StaysApart(project, t, work[t].made.doc)
      BY <1>1 DEF Orderly
    <3>2. /\ work[u].stage = "removed" => Own(output, u, Paths(run.docs)) = {}
          /\ work[u].stage = "moved" =>
                 TreeOf(output, u, Paths(run.docs)) = Produced(u, work[u].made)
      BY TreesAre DEF Inv, Installed
    <3> QED
      BY <1>1, <1>2, <2>2, <3>1, <3>2
  <2> QED
    BY <2>1, <2>2
<1>7. Done'
  <2> SUFFICES ASSUME Undisturbed', ~failed', Apart(doc)',
                      NEW u \in run'.candidates \ (queue' \cup DOMAIN work')
               PROVE  ~WhyStale(u, Now)'
    BY DEF Done
  <2>1. u \in run.candidates \ (queue \cup DOMAIN work) /\ u # t /\ u \in Paths(run.docs)
    BY <1>1, <1>2
  <2>2. Undisturbed /\ ~failed /\ Apart(doc)
    BY DEF Undisturbed, Apart
  <2>3. ~WhyStale(u, Now)
    BY <1>1, <2>1, <2>2 DEF Inv, Done
  <2>4. run.docs = doc /\ run.fetched = doc
    BY <1>1, <2>2 DEF Inv, Current
  <2>5. StaysApart(project, t, work[t].made.doc)
    <3>1. t \in Rendered(run.fetched)
      BY <1>1 DEF Inv, RunTyped
    <3>2. work[t].made.doc.spills = {}
      BY <1>1, <2>2, <2>4, <3>1 DEF Apart
    <3> QED
      BY <3>2 DEF StaysApart
  <2>6. Tree(u, Paths(doc))' = Tree(u, Paths(doc))
    <3>1. TreeOf(output', u, Paths(doc)) = TreeOf(output, u, Paths(doc))
      BY <2>1, <2>4, <2>5
    <3>2. Tree(u, Paths(doc))' = TreeOf(output', u, Paths(doc))
      BY DEF Tree, OwnPlaces, Own, TreeOf, Owned
    <3> QED
      BY <3>1, <3>2, TreesAre
  <2> QED
    BY <2>3, <2>6, StaysFresh
<1> QED
  BY <1>3, <1>4, <1>5, <1>6, <1>7 DEF Inv

LEMMA InstallRemoveKeeps ==
  ASSUME Inv, NEW t \in Target, InstallRemove(t)
  PROVE  Inv'
<1> DEFINE paths == Paths(run.docs)
<1>1. /\ At(t, "compiled") /\ Advance(t, "removed")
      /\ output' = RestrictDomain(output, LAMBDA p : p \notin Replaced(t))
      /\ UNCHANGED << project, settings, doc, input, manifest, suspect, phase, run, queue,
                      failed, edits, settled >>
  BY DEF InstallRemove, sources
<1>2. /\ DOMAIN output' = DOMAIN output \ Own(output, t, paths)
      /\ \A p \in DOMAIN output' : output'[p] = output[p]
  BY <1>1, TreesAre DEF RestrictDomain, Restrict, Replaced
<1>3. DOMAIN output \subseteq AnyPath /\ paths \in SUBSET Target /\ t \in paths
  BY <1>1, FilesArePaths, WorkerFacts, PathsArePossible
<1>4. Placed'
  BY <1>1, <1>2, PlacesStay DEF Inv
<1> HIDE DEF paths
<1>5. ASSUME NEW u \in paths, u # t
      PROVE  /\ TreeOf(output', u, paths) = TreeOf(output, u, paths)
             /\ Own(output', u, paths) = Own(output, u, paths)
  <2>1. ASSUME NEW p \in DOMAIN output, Owned(u, p, paths) PROVE ~Owned(t, p, paths)
    BY <1>3, <1>5, <2>1, OwnersDiffer
  <2>2. \A p \in DOMAIN output \cup DOMAIN output' :
           Owned(u, p, paths) =>
              p \in DOMAIN output /\ p \in DOMAIN output' /\ output'[p] = output[p]
    BY <1>2, <2>1 DEF Own
  <2> QED
    BY <2>2, TreesAgree
<1>6. Own(output', t, paths) = {}
  BY <1>2 DEF Own
<1> QED
  BY <1>1, <1>4, <1>5, <1>6, WorkerStepKeeps DEF paths

LEMMA InstallMoveKeeps ==
  ASSUME Inv, NEW t \in Target, InstallMove(t)
  PROVE  Inv'
<1> DEFINE paths == Paths(run.docs)
           made == work[t].made
           new == Produced(t, made)
<1>1. /\ At(t, "removed") /\ Advance(t, "moved")
      /\ output' = [p \in DOMAIN output \cup DOMAIN new |->
                      IF p \in DOMAIN new THEN new[p] ELSE output[p]]
      /\ UNCHANGED << project, settings, doc, input, manifest, suspect, phase, run, queue,
                      failed, edits, settled >>
  BY DEF InstallMove, sources
<1>2. DOMAIN new = PlacesOf(t, made.doc)
  BY DEF Produced, PlacesOf
<1>3. new = [p \in DOMAIN new |-> new[p]]
  BY DEF Produced
<1>4. /\ DOMAIN output \subseteq AnyPath /\ paths \in SUBSET Target /\ t \in paths
      /\ paths \in SUBSET Possible(project) /\ project \in Projects
      /\ made.doc \in DocumentsOf(project, t)
      /\ t \in DOMAIN work /\ work[t].stage = "removed"
  BY <1>1, FilesArePaths, WorkerFacts, PathsArePossible
<1> HIDE DEF new, made, paths
<1>5. /\ DOMAIN output' = DOMAIN output \cup DOMAIN new
      /\ \A p \in DOMAIN new : output'[p] = new[p]
      /\ \A p \in DOMAIN output : p \notin DOMAIN new => output'[p] = output[p]
  BY <1>1
<1>6. Placed'
  BY <1>1, <1>2, <1>4, <1>5 DEF Inv, Placed, PlacesOf
<1>7. ASSUME NEW u \in paths, u # t, StaysApart(project, t, made.doc)
      PROVE  /\ TreeOf(output', u, paths) = TreeOf(output, u, paths)
             /\ Own(output', u, paths) = Own(output, u, paths)
  <2>1. ASSUME NEW p \in DOMAIN new PROVE ~Owned(u, p, paths)
    BY <1>2, <1>4, <1>7, WritesAreNotOthers
  <2>2. \A p \in DOMAIN output \cup DOMAIN output' :
           Owned(u, p, paths) =>
              p \in DOMAIN output /\ p \in DOMAIN output' /\ output'[p] = output[p]
    BY <1>5, <2>1
  <2> QED
    BY <2>2, TreesAgree
<1>8. ASSUME Orderly(project) PROVE TreeOf(output', t, paths) = new
  <2>1. StaysApart(project, t, made.doc)
    BY <1>4, <1>8 DEF Orderly
  <2>2. \A p \in DOMAIN new : Owned(t, p, paths)
    BY <1>2, <1>4, <2>1, WritesAreOwned
  <2>3. Own(output, t, paths) = {}
    BY <1>4, <1>8, TreesAre DEF Inv, Installed, paths
  <2>4. Own(output', t, paths) = DOMAIN new
    BY <1>5, <2>2, <2>3 DEF Own
  <2> QED
    BY <1>3, <1>5, <2>4 DEF TreeOf
<1> QED
  BY <1>1, <1>6, <1>7, <1>8, WorkerStepKeeps DEF paths, made, new

LEMMA RecordKeeps ==
  ASSUME Inv, NEW t \in Target, Record(t)
  PROVE  Inv'
<1> DEFINE made == work[t].made
           r == [settings |-> made.settings, doc |-> made.doc,
                 deps |-> [f \in DOMAIN made.files |-> input[f]],
                 globals |-> GlobalsRead(t, made.doc, run.docs),
                 output |-> Tree(t, Paths(run.docs))]
<1>1. /\ At(t, "moved")
      /\ manifest' = Put(manifest, t, r)
      /\ suspect' = IF Overtaken(made) THEN suspect \cup {t} ELSE suspect \ {t}
      /\ work' = RestrictDomain(work, LAMBDA u : u # t)
      /\ UNCHANGED << project, settings, doc, input, output, phase, run, queue, failed, edits,
                      settled >>
  BY DEF Record, sources
<1>2. /\ phase = "work" /\ ~settled /\ t \in DOMAIN work /\ work[t].stage = "moved"
      /\ run.docs \in Inventories(project) /\ IsMade(made, t)
      /\ run.candidates \subseteq Paths(run.docs)
  BY <1>1, WorkerFacts
<1>3. /\ ~Fails(made, run.docs) /\ made.doc = run.fetched[t] /\ made.settings = run.settings
  BY <1>2 DEF Inv, Working
<1>4. /\ manifest'[t] = r /\ DOMAIN manifest' = DOMAIN manifest \cup {t}
      /\ \A u \in DOMAIN manifest : u # t => manifest'[u] = manifest[u]
  BY <1>1 DEF Put
<1>5. /\ DOMAIN work' = DOMAIN work \ {t} /\ \A u \in DOMAIN work' : work'[u] = work[u]
      /\ work' = [u \in DOMAIN work' |-> work'[u]]
  BY <1>1 DEF RestrictDomain, Restrict
<1>6. Placed' /\ Typed' /\ RunTyped' /\ Current' /\ Tidied' /\ FullRunSettles'
  BY <1>1, <1>2, <1>4, <1>5
     DEF Inv, Placed, Typed, RunTyped, Current, Undisturbed, Tidied, FullRunSettles
<1>7. Working'
  <2> SUFFICES ASSUME NEW u \in DOMAIN work'
               PROVE  /\ work'[u] = [stage |-> work'[u].stage, made |-> work'[u].made]
                      /\ IsMade(work'[u].made, u)
                      /\ work'[u].stage \in {"compiled", "removed", "moved"}
                      /\ ~Fails(work'[u].made, run.docs)
                      /\ work'[u].made.doc = run.fetched[u]
                      /\ work'[u].made.settings = run.settings
    BY <1>1, <1>5 DEF Working, IsMade
  <2> QED
    BY <1>5 DEF Inv, Working
<1>8. Installed'
  <2>1. ASSUME NEW u
        PROVE  /\ OwnPlaces(u, Paths(run.docs))' = OwnPlaces(u, Paths(run.docs))
               /\ Tree(u, Paths(run.docs))' = Tree(u, Paths(run.docs))
    BY <1>1 DEF OwnPlaces, Tree
  <2> SUFFICES ASSUME Orderly(project), NEW u \in DOMAIN work'
               PROVE  /\ work'[u].stage = "removed" => OwnPlaces(u, Paths(run.docs))' = {}
                      /\ work'[u].stage = "moved" =>
                             Tree(u, Paths(run.docs))' = Produced(u, work'[u].made)
    BY <1>1 DEF Installed
  <2> QED
    BY <1>5, <2>1 DEF Inv, Installed
<1>9. Recorded'
  <2> SUFFICES ASSUME Orderly(project), NEW u \in DOMAIN manifest' \ suspect'
               PROVE  \E m, docs : /\ IsMade(m, u) /\ docs \in Inventories(project)
                                   /\ RecordOf(u, manifest'[u], m, docs)
    BY <1>1 DEF Recorded, IsMade
  <2>1. CASE u # t
    <3>1. u \in DOMAIN manifest \ suspect /\ manifest'[u] = manifest[u]
      BY <1>1, <1>4, <2>1
    <3> QED
      BY <3>1 DEF Inv, Recorded
  <2>2. CASE u = t
    <3>1. ~Overtaken(made)
      BY <1>1, <2>2
    <3>2. made.globals = GlobalDocs(made.doc.all, made.doc.globals, run.docs)
      BY <3>1 DEF Overtaken
    <3>3. [f \in DOMAIN made.files |-> input[f]] = made.files
      <4>1. \A f \in DOMAIN made.files : made.files[f] = input[f]
        BY <3>1 DEF Overtaken
      <4>2. made.files = [f \in DOMAIN made.files |-> made.files[f]]
        BY <1>2 DEF IsMade
      <4> QED
        BY <4>1, <4>2
    <3>4. Tree(t, Paths(run.docs)) = Produced(t, made)
      BY <1>2 DEF Inv, Installed
    <3>5. RecordOf(t, r, made, run.docs)
      BY <1>3, <3>2, <3>3, <3>4 DEF RecordOf
    <3> QED
      BY <1>2, <1>4, <2>2, <3>5
  <2> QED
    BY <2>1, <2>2
<1>10. Done'
  <2> SUFFICES ASSUME Undisturbed', ~failed', Apart(doc)',
                      NEW u \in run'.candidates \ (queue' \cup DOMAIN work')
               PROVE  ~WhyStale(u, Now)'
    BY DEF Done
  <2>1. Undisturbed /\ ~failed /\ Apart(doc) /\ u \in run.candidates \ queue
    BY <1>1 DEF Undisturbed, Apart
  <2>2. run.docs = doc /\ run.settings = settings /\ run.fetched = doc
    BY <1>2, <2>1 DEF Inv, Current
  <2>3. CASE u # t
    <3>1. ~WhyStale(u, Now)
      BY <1>2, <1>5, <1>1, <2>1, <2>3 DEF Inv, Done
    <3>2. Tree(u, Paths(doc))' = Tree(u, Paths(doc))
      BY <1>1 DEF Tree, OwnPlaces
    <3> QED
      BY <1>1, <1>4, <2>3, <3>1, <3>2, StaysFresh
  <2>4. CASE u = t
    <3> DEFINE at == [docs |-> doc, fetched |-> doc, settings |-> settings]
    <3>1. Now' = at /\ at.settings = settings /\ at.docs = doc
      BY <1>1 DEF Now
    <3>2. /\ r.settings = settings /\ r.doc = doc[t]
          /\ \A f \in DOMAIN r.deps : r.deps[f] = input[f]
          /\ r.output = Tree(t, Paths(doc))
          /\ r.globals = GlobalsRead(t, r.doc, doc)
      BY <1>3, <2>2
    <3>3. r.globals = GlobalDocs(r.doc.all, DOMAIN r.globals, doc)
      BY <3>2 DEF GlobalsRead, GlobalDocs
    <3>4. Tree(t, Paths(doc))' = Tree(t, Paths(doc))
      BY <1>1 DEF Tree, OwnPlaces
    <3> HIDE DEF r
    <3> QED
      BY <1>1, <1>4, <2>4, <3>1, <3>2, <3>3, <3>4 DEF WhyStale
  <2> QED
    BY <2>3, <2>4
<1> QED
  BY <1>6, <1>7, <1>8, <1>9, <1>10 DEF Inv

LEMMA CleanupKeeps ==
  ASSUME Inv, Cleanup
  PROVE  Inv'
<1>1. /\ UNCHANGED << project, settings, doc, input, manifest, suspect, run, queue, work, failed,
                      edits, settled >>
      /\ phase = "clean" /\ phase' = "forget" /\ output' = [p \in Kept |-> output[p]]
      /\ DOMAIN work = {} /\ work = EmptyMap /\ ~settled
  BY DEF Inv, Typed, Cleanup, sources, EmptyMap
<1>2. /\ DOMAIN output' \subseteq DOMAIN output
      /\ \A p \in DOMAIN output' : output'[p] = output[p] /\ \E t \in Paths(run.docs) : Within(p, t)
      /\ \A p \in DOMAIN output : (\E t \in Paths(run.docs) : Within(p, t)) => p \in DOMAIN output'
  BY <1>1 DEF Kept
<1>3. Recorded' /\ Placed'
  BY <1>1, <1>2, RecordsStay, PlacesStay DEF Inv
<1>4. Typed' /\ RunTyped' /\ Current' /\ Tidied' /\ FullRunSettles'
  BY <1>1, <1>2 DEF Inv, Typed, Phases, RunTyped, Current, Undisturbed, Tidied, FullRunSettles
<1>5. Working' /\ Installed'
  BY <1>1 DEF Inv, Working, Installed
<1>6. Done'
  <2> SUFFICES ASSUME Undisturbed', ~failed', Apart(doc)',
                      NEW u \in run'.candidates \ (queue' \cup DOMAIN work')
               PROVE  ~WhyStale(u, Now)'
    BY DEF Done
  <2>1. Undisturbed /\ ~failed /\ Apart(doc) /\ u \in run.candidates \ (queue \cup DOMAIN work)
    BY <1>1 DEF Undisturbed, Apart
  <2>2. run.docs = doc /\ u \in Paths(doc)
    BY <1>1, <2>1 DEF Inv, Current, RunTyped, Paths
  <2>3. ~WhyStale(u, Now)
    BY <1>1, <2>1 DEF Inv, Done
  <2>4. \A p \in DOMAIN output \cup DOMAIN output' :
           Owned(u, p, Paths(doc)) =>
              p \in DOMAIN output /\ p \in DOMAIN output' /\ output'[p] = output[p]
    BY <1>2, <2>2 DEF Owned
  <2>5. TreeOf(output', u, Paths(doc)) = TreeOf(output, u, Paths(doc))
    BY <2>4, TreesAgree
  <2>6. Tree(u, Paths(doc))' = TreeOf(output', u, Paths(doc))
    BY <1>1 DEF Tree, OwnPlaces, Own, TreeOf, Owned
  <2> QED
    BY <1>1, <2>3, <2>5, <2>6, TreesAre, StaysFresh
<1> QED
  BY <1>3, <1>4, <1>5, <1>6 DEF Inv

LEMMA ForgetKeeps ==
  ASSUME Inv, Forget
  PROVE  Inv'
<1>1. /\ UNCHANGED << project, settings, doc, input, output, suspect, queue, work, failed, edits >>
      /\ phase = "forget" /\ phase' = "off"
      /\ manifest' = RestrictDomain(manifest, LAMBDA t : t \in Rendered(run.docs))
      /\ settled' = (~failed /\ run.edits = edits)
      /\ DOMAIN work = {} /\ work = EmptyMap /\ queue = {} /\ run.everything
  BY DEF Inv, Typed, RunTyped, Forget, EndRun, sources, EmptyMap
<1>2. /\ DOMAIN manifest' = DOMAIN manifest \cap Rendered(run.docs)
      /\ \A t \in DOMAIN manifest' : manifest'[t] = manifest[t]
  BY <1>1 DEF RestrictDomain, Restrict
<1>3. Recorded' /\ Placed'
  BY <1>1, <1>2, RecordsStay, PlacesStay DEF Inv
<1>4. Working' /\ Installed'
  BY <1>1 DEF Inv, Working, Installed
<1>5. Typed' /\ RunTyped' /\ Current' /\ Done'
  BY <1>1, <1>2 DEF Inv, Typed, Phases, RunTyped, Current, Done
<1>6. ASSUME settled'
      PROVE  /\ Undisturbed /\ ~failed /\ run.docs = doc /\ run.candidates = Rendered(doc)
             /\ Failing(doc) = {}
  BY <1>1, <1>6 DEF Inv, Undisturbed, Current, RunTyped
<1>7. Tidied'
  <2> SUFFICES ASSUME settled'
               PROVE  /\ Failing(doc) = {}
                      /\ \A p \in DOMAIN output : \E t \in Rendered(doc) : Within(p, t)
    BY <1>1 DEF Tidied
  <2>1. \A p \in DOMAIN output : \E t \in Paths(doc) : Within(p, t)
    BY <1>1, <1>6 DEF Inv, Tidied
  <2> QED
    BY <1>6, <2>1 DEF Paths
<1>8. FullRunSettles'
  <2> SUFFICES ASSUME settled', Apart(doc), NEW t \in Rendered(doc)
               PROVE  ~WhyStale(t, Now)'
    BY <1>1 DEF FullRunSettles
  <2>1. ~WhyStale(t, Now)
    BY <1>1, <1>6 DEF Inv, Done
  <2>2. t \in DOMAIN manifest => t \in DOMAIN manifest' /\ manifest'[t] = manifest[t]
    BY <1>2, <1>6
  <2>3. Tree(t, Paths(doc))' = Tree(t, Paths(doc))
    BY <1>1 DEF Tree, OwnPlaces
  <2> QED
    BY <1>1, <2>1, <2>2, <2>3, StaysFresh
<1> QED
  BY <1>3, <1>4, <1>5, <1>7, <1>8 DEF Inv

-----------------------------------------------------------------------------
(* ----------------------------- The results. ---------------------------- *)

LEMMA NextKeeps ==
  ASSUME Inv, [Next]_vars
  PROVE  Inv'
<1>1. ASSUME Run PROVE Inv'
  BY <1>1, DecideKeeps, CompileTargetKeeps, InstallRemoveKeeps, InstallMoveKeeps, RecordKeeps,
     AllWorkedKeeps, CleanupKeeps, ForgetKeeps DEF Run, Worker
<1>2. ASSUME UNCHANGED vars PROVE Inv'
  <2>1. UNCHANGED << project, settings, doc, input, output, manifest, suspect, phase, run, queue,
                     work, failed, edits, settled >>
    BY <1>2 DEF vars, sources, compiled, progress
  <2>2. Recorded' /\ Placed' /\ Working' /\ Installed'
    BY <2>1, RecordsStay, PlacesStay, WorkStays DEF Inv
  <2>3. Typed' /\ RunTyped' /\ Current' /\ Tidied'
    BY <2>1 DEF Inv, Typed, RunTyped, Current, Undisturbed, Tidied
  <2>4. \A t : ~WhyStale(t, Now) => ~WhyStale(t, Now)'
    <3> SUFFICES ASSUME NEW t, ~WhyStale(t, Now) PROVE ~WhyStale(t, Now)'
      OBVIOUS
    <3>1. Tree(t, Paths(doc))' = Tree(t, Paths(doc))
      BY <2>1 DEF Tree, OwnPlaces
    <3> QED
      BY <2>1, <3>1, StaysFresh
  <2>5. Done'
    BY <2>1, <2>4 DEF Inv, Done, Undisturbed, Apart
  <2>6. FullRunSettles'
    BY <2>1, <2>4 DEF Inv, FullRunSettles, Apart
  <2> QED
    BY <2>2, <2>3, <2>5, <2>6 DEF Inv
<1> QED
  BY <1>1, <1>2, EditKeeps, TamperKeeps, StartKeeps, CrashKeeps DEF Next

(* The invariant of engine.rs, under edits, workers and interruptions: a   *)
(* run's snapshot is what is there until something is edited; and in       *)
(* Orderly projects a directory is its target's own from install to        *)
(* record, and a record that is not suspect is that of a compile which     *)
(* read what it says and wrote what its output digest says.                *)
THEOREM CompilerIsAccounted == Spec => []Inv
<1>1. Init => Inv
  BY InitInv
<1>2. Inv /\ [Next]_vars => Inv'
  BY NextKeeps
<1> QED
  BY <1>1, <1>2, PTL DEF Spec

(* After a full run without failures the next one finds nothing to do.     *)
THEOREM FullRunsSettle == Spec => []FullRunSettles
<1>1. Inv => FullRunSettles
  BY DEF Inv
<1> QED
  BY <1>1, CompilerIsAccounted, PTL

(* An up-to-date record is what a compile would write now. *)
LEMMA UpToDateIsFresh ==
  ASSUME Inv, Orderly(project), NEW t \in Rendered(doc) \ suspect, ~WhyStale(t, Now)
  PROVE  /\ ~Fails(Reads(t, Now), doc)
         /\ Tree(t, Paths(doc)) = Fresh(t)
<1> DEFINE r == manifest[t]
           at == [docs |-> doc, fetched |-> doc, settings |-> settings]
<1>1. Now = at /\ at.docs = doc /\ at.settings = settings /\ at.fetched = doc
  BY DEF Now
<1>2. /\ t \in DOMAIN manifest /\ r.settings = settings /\ r.doc = doc[t]
      /\ \A f \in DOMAIN r.deps : r.deps[f] = input[f]
      /\ r.globals = GlobalDocs(r.doc.all, DOMAIN r.globals, doc)
      /\ r.output = Tree(t, Paths(doc))
  BY <1>1 DEF WhyStale
<1>3. PICK made, docs : /\ IsMade(made, t) /\ docs \in Inventories(project)
                        /\ RecordOf(t, r, made, docs)
  BY <1>2 DEF Inv, Recorded
<1>4. /\ ~Fails(made, docs) /\ made.settings = settings /\ made.doc = doc[t]
      /\ r.deps = made.files
      /\ made.globals = GlobalDocs(made.doc.all, made.doc.globals, docs)
      /\ r.globals = GlobalDocs(made.doc.all, (made.doc.globals \cap Rendered(docs)) \ {t}, docs)
      /\ r.globals = GlobalDocs(made.doc.all, DOMAIN r.globals, doc)
      /\ Tree(t, Paths(doc)) = Produced(t, made)
      /\ made.doc \in DocumentsOf(project, t)
  BY <1>2, <1>3 DEF RecordOf, GlobalsRead, IsMade
<1>5. /\ doc \in Inventories(project) /\ t \in Target
  BY DEF Inv, Typed, Inventories, Rendered
<1>6. ReadsAreRecorded(project, t, made.doc)
  BY <1>4, <1>5 DEF Orderly
<1> HIDE DEF r, at
<1>7. made.globals = GlobalDocs(made.doc.all, made.doc.globals, doc)
      /\ made.doc.globals \cap Failing(doc) = {}
      /\ (made.doc.all => Failing(doc) = {})
  <2>1. CASE made.doc.all
    <3>1. [u \in Rendered(docs) |-> docs[u]] = [u \in Rendered(doc) |-> doc[u]]
      BY <1>4, <2>1 DEF GlobalDocs
    <3>2. Rendered(docs) = Rendered(doc)
      <4>1. DOMAIN [u \in Rendered(docs) |-> docs[u]] = Rendered(docs)
        OBVIOUS
      <4>2. DOMAIN [u \in Rendered(doc) |-> doc[u]] = Rendered(doc)
        OBVIOUS
      <4> QED
        BY <3>1, <4>1, <4>2
    <3>3. made.globals = GlobalDocs(made.doc.all, made.doc.globals, doc)
      BY <1>4, <2>1, <3>1 DEF GlobalDocs
    <3>4. Failing(docs) = {}
      BY <1>4, <2>1 DEF Fails
    <3>5. ASSUME NEW u \in Failing(doc) PROVE FALSE
      <4>1. u \in Target /\ doc[u] = Unrendered /\ Unrendered \in DocsOf[project][u]
        BY <1>5 DEF Failing, Inventories
      <4>2. Gone \notin DocsOf[project][u]
        BY <1>6, <2>1, <4>1 DEF ReadsAreRecorded
      <4>3. docs[u] \in Document \cup {Gone, Unrendered} /\ docs[u] \in DocsOf[project][u]
            /\ DOMAIN docs = Target
        BY <1>3, <4>1 DEF Inventories
      <4>4. docs[u] \in Document
        BY <3>4, <4>1, <4>2, <4>3 DEF Failing
      <4>5. u \in Rendered(docs)
        BY <4>1, <4>3, <4>4 DEF Rendered
      <4> QED
        BY <3>2, <4>1, <4>5, CompileAssumption DEF Rendered
    <3> QED
      BY <3>3, <3>5
  <2>2. CASE ~made.doc.all
    <3>1. ASSUME NEW u \in made.doc.globals
          PROVE  u # t /\ u \in Rendered(docs) /\ docs[u] # Gone
      <4>1. u # t /\ Gone \notin DocsOf[project][u] /\ u \in Target
        BY <1>4, <1>6, <3>1, CompileAssumption DEF ReadsAreRecorded, DocumentsOf
      <4>2. docs[u] \in Document \cup {Gone, Unrendered} /\ docs[u] \in DocsOf[project][u]
            /\ DOMAIN docs = Target
        BY <1>3, <4>1 DEF Inventories
      <4>3. u \notin Failing(docs)
        BY <1>4, <3>1 DEF Fails
      <4> QED
        BY <4>1, <4>2, <4>3 DEF Failing, Rendered
    <3>2. (made.doc.globals \cap Rendered(docs)) \ {t} = made.doc.globals
      BY <3>1
    <3>3. r.globals = made.globals
      BY <1>4, <3>2
    <3>4. DOMAIN r.globals = made.doc.globals
      BY <1>4, <2>2, <3>2 DEF GlobalDocs
    <3>5. made.globals = GlobalDocs(made.doc.all, made.doc.globals, doc)
      BY <1>4, <3>3, <3>4
    <3>6. ASSUME NEW u \in made.doc.globals PROVE u \in Rendered(doc)
      <4>1. made.globals[u] = docs[u]
        BY <1>4, <2>2, <3>1, <3>6 DEF GlobalDocs
      <4>2. u \notin Rendered(doc) => made.globals[u] = Gone
        BY <2>2, <3>5, <3>6 DEF GlobalDocs
      <4> QED
        BY <3>1, <3>6, <4>1, <4>2
    <3>7. Rendered(doc) \cap Failing(doc) = {}
      BY CompileAssumption DEF Rendered, Failing
    <3> QED
      BY <2>2, <3>5, <3>6, <3>7
  <2> QED
    BY <2>1, <2>2
<1>8. Reads(t, Now) = made
  <2>1. Reads(t, Now) = [settings |-> settings, doc |-> doc[t],
                         files |-> [f \in doc[t].reads |-> input[f]],
                         globals |-> GlobalDocs(doc[t].all, doc[t].globals, doc)]
    BY <1>1 DEF Reads
  <2>2. made = [settings |-> made.settings, doc |-> made.doc, files |-> made.files,
                globals |-> made.globals]
        /\ made.files = [f \in made.doc.reads |-> made.files[f]]
    BY <1>3 DEF IsMade
  <2>3. made.files = [f \in doc[t].reads |-> input[f]]
    BY <1>2, <1>4, <2>2
  <2> QED
    BY <1>4, <1>7, <2>1, <2>2, <2>3
<1>9. ~Fails(made, doc)
  BY <1>4, <1>7 DEF Fails
<1> QED
  BY <1>4, <1>8, <1>9 DEF Fresh

LEMMA FreshTreeIs ==
  ASSUME Inv, Orderly(project), NEW t \in Rendered(doc)
  PROVE  /\ FreshTree(t) = Fresh(t) /\ DOMAIN Fresh(t) = PlacesOf(t, doc[t])
         /\ \A p \in DOMAIN Fresh(t) : Owned(t, p, Paths(doc))
<1>1. /\ doc \in Inventories(project) /\ t \in Target /\ project \in Projects
      /\ doc[t] \in DocumentsOf(project, t)
  BY DEF Inv, Typed, Inventories, Rendered, DocumentsOf
<1>2. StaysApart(project, t, doc[t]) /\ Paths(doc) \in SUBSET Possible(project)
  BY <1>1, PathsArePossible DEF Orderly
<1>3. Reads(t, Now).doc = doc[t]
  BY DEF Reads, Now
<1>4. DOMAIN Fresh(t) = PlacesOf(t, doc[t]) /\ Fresh(t) = [p \in DOMAIN Fresh(t) |-> Fresh(t)[p]]
  BY <1>3 DEF Fresh, Produced, PlacesOf
<1>5. \A p \in DOMAIN Fresh(t) : Owned(t, p, Paths(doc))
  BY <1>1, <1>2, <1>4, WritesAreOwned
<1>6. {p \in DOMAIN Fresh(t) : p[Len(t) + 1] \notin Children(t, Paths(doc))} = DOMAIN Fresh(t)
  BY <1>5 DEF Owned
<1>7. FreshTree(t) = Fresh(t)
  BY <1>4, <1>6 DEF FreshTree
<1> QED
  BY <1>4, <1>5, <1>7

LEMMA UpToDateExact ==
  ASSUME Inv, Orderly(project)
  PROVE  UpToDateIsExact
<1> SUFFICES ASSUME NEW t \in Rendered(doc) \ suspect, ~WhyStale(t, Now)
             PROVE  /\ ~Fails(Reads(t, Now), doc)
                    /\ Tree(t, Paths(doc)) = FreshTree(t)
  BY DEF UpToDateIsExact, Tree
<1> QED
  BY UpToDateIsFresh, FreshTreeIs

(* Up to date means that compiling it now would succeed and write what is  *)
(* there (why_stale, install_and_record), in every project whose documents *)
(* name only targets that exist and write into no nested target.           *)
THEOREM UpToDateTargetsAreExact == Spec => [](Orderly(project) => UpToDateIsExact)
<1>1. Inv => (Orderly(project) => UpToDateIsExact)
  BY UpToDateExact
<1> QED
  BY <1>1, CompilerIsAccounted, PTL

LEMMA FullExact ==
  ASSUME Inv, Orderly(project), NoOrphans(project)
  PROVE  FullRunExact
<1> SUFFICES ASSUME settled, Apart(doc), suspect \cap Rendered(doc) = {}
             PROVE  /\ DOMAIN output = UNION {DOMAIN Fresh(t) : t \in Rendered(doc)}
                    /\ \A t \in Rendered(doc) : \A p \in DOMAIN Fresh(t) : output[p] = Fresh(t)[p]
  BY DEF FullRunExact
<1>1. ASSUME NEW t \in Rendered(doc)
      PROVE  /\ Tree(t, Paths(doc)) = Fresh(t)
             /\ DOMAIN Fresh(t) = OwnPlaces(t, Paths(doc))
             /\ \A p \in DOMAIN Fresh(t) : p \in DOMAIN output /\ output[p] = Fresh(t)[p]
  <2>1. ~WhyStale(t, Now) /\ t \in Rendered(doc) \ suspect
    BY DEF Inv, FullRunSettles
  <2>2. Tree(t, Paths(doc)) = Fresh(t)
    BY <2>1, UpToDateIsFresh
  <2>3. DOMAIN Fresh(t) = OwnPlaces(t, Paths(doc))
    BY <2>2 DEF Tree
  <2>4. \A p \in OwnPlaces(t, Paths(doc)) :
           p \in DOMAIN output /\ Tree(t, Paths(doc))[p] = output[p]
    BY DEF OwnPlaces, Tree
  <2> QED
    BY <2>2, <2>3, <2>4
<1>2. ASSUME NEW p \in DOMAIN output
      PROVE  \E t \in Rendered(doc) : p \in DOMAIN Fresh(t)
  <2>1. PICK t \in Rendered(doc) : Within(p, t)
    BY DEF Inv, Tidied
  <2>2. PICK u \in Target : \E d \in DocumentsOf(project, u) : p \in PlacesOf(u, d)
    BY DEF Inv, Placed, PlacesOf
  <2>3. PICK d \in DocumentsOf(project, u) : p \in PlacesOf(u, d)
    BY <2>2
  <2>4. /\ project \in Projects /\ doc \in Inventories(project) /\ t \in Target
        /\ StaysApart(project, u, d) /\ u \in Possible(project)
        /\ Paths(doc) \in SUBSET Possible(project) /\ Rendered(doc) \subseteq Paths(doc)
        /\ Failing(doc) = {} /\ Paths(doc) = Rendered(doc)
    BY <2>3, PathsArePossible
       DEF Inv, Typed, Tidied, Orderly, Possible, DocumentsOf, Rendered, Inventories, Paths
  <2>5. Owned(u, p, Paths(doc)) /\ p \in AnyPath /\ Within(p, u)
    BY <2>3, <2>4, WritesAreOwned, PlacesAreWithin
  <2>6. CASE u \in Rendered(doc)
    <3>1. p \in OwnPlaces(u, Paths(doc))
      BY <2>5 DEF OwnPlaces, Owned
    <3> QED
      BY <1>1, <2>6, <3>1
  <2>7. CASE Owned(t, p, Paths(doc))
    <3>1. p \in OwnPlaces(t, Paths(doc))
      BY <2>7 DEF OwnPlaces, Owned
    <3> QED
      BY <1>1, <3>1
  <2>8. CASE u \notin Rendered(doc) /\ ~Owned(t, p, Paths(doc))
    <3>1. Gone \in DocsOf[project][u]
      BY <2>4, <2>8 DEF Inventories, Rendered, Failing
    <3>2. PICK w \in Paths(doc) : IsStrictPrefix(t, w) /\ w[Len(t) + 1] = p[Len(t) + 1]
      BY <2>1, <2>8 DEF Owned, Children
    <3>3. /\ t \in AnyPath /\ u \in AnyPath /\ w \in AnyPath /\ t # u
          /\ Len(t) \in Nat /\ Len(u) \in Nat /\ Len(p) \in Nat
      BY <2>4, <2>5, <2>8, <3>2, TargetsArePaths DEF AnyPath, Possible
    <3>4. /\ Len(t) < Len(p) /\ \A i \in 1 .. Len(t) : t[i] = p[i]
          /\ Len(u) < Len(p) /\ \A i \in 1 .. Len(u) : u[i] = p[i]
      BY <2>1, <2>5, <3>3, WithinIs
    <3>5. Len(t) # Len(u)
      <4>1. t = [i \in 1 .. Len(t) |-> t[i]] /\ u = [i \in 1 .. Len(u) |-> u[i]]
        BY <3>3 DEF AnyPath
      <4> QED
        BY <3>3, <3>4, <4>1
    <3>6. ~(Len(u) < Len(t))
      <4> SUFFICES ASSUME Len(u) < Len(t) PROVE FALSE
        OBVIOUS
      <4>1. IsStrictPrefix(u, t) /\ t[Len(u) + 1] = p[Len(u) + 1]
        BY <3>3, <3>4, WithinIs DEF Within
      <4> QED
        BY <2>4, <2>5, <4>1 DEF Owned, Children
    <3>7. IsStrictPrefix(t, u) /\ u[Len(t) + 1] = p[Len(t) + 1]
      BY <3>3, <3>4, <3>5, <3>6, WithinIs DEF Within
    <3>8. t \in Possible(project) /\ w \in Possible(project) /\ u # w
      BY <2>4, <2>8, <3>2
    <3> QED
      BY <2>4, <3>1, <3>2, <3>7, <3>8 DEF NoOrphans, Within
  <2> QED
    BY <2>6, <2>7, <2>8
<1>3. DOMAIN output \subseteq UNION {DOMAIN Fresh(t) : t \in Rendered(doc)}
  BY <1>2
<1>4. UNION {DOMAIN Fresh(t) : t \in Rendered(doc)} \subseteq DOMAIN output
  BY <1>1
<1> QED
  BY <1>1, <1>3, <1>4

(* An incremental full run leaves what a compile from nothing leaves, and  *)
(* nothing else (cleanup), where no target inside another one's part goes  *)
(* away while a neighbour stays.                                           *)
THEOREM FullRunsAreExact ==
  Spec => [](Orderly(project) /\ NoOrphans(project) => FullRunExact)
<1>1. Inv => (Orderly(project) /\ NoOrphans(project) => FullRunExact)
  BY FullExact
<1> QED
  BY <1>1, CompilerIsAccounted, PTL

=============================================================================
