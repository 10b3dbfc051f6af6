---------------------------- MODULE DaemonProofs ----------------------------
(***************************************************************************)
(* Proofs about the daemon, for every inventory, every set of contents and *)
(* every number of edits.                                                  *)
(***************************************************************************)
EXTENDS Daemon, ClassTree, Lifecycle, TLAPS, WellFoundedInduction, FiniteSetTheorems

(* What a pass still owes: in the render phase the targets queued, being   *)
(* loaded and reported are the discovered ones that are affected, and the  *)
(* others already have an answer.                                          *)
PassAccounted ==
    phase = "render" =>
        /\ Names(queue) \cup DOMAIN stack \cup DOMAIN report = affected \cap Names(found)
        /\ Names(found) \ affected \subseteq Names(specs)

Bookkeeping == IndexExact /\ AnswersCoverSpecs /\ PassAccounted

LEMMA PutDomain ==
    ASSUME NEW f, NEW x, NEW v
    PROVE  DOMAIN Put(f, x, v) = DOMAIN f \cup {x}
BY DEF Put

(* A target that ends leaves the stack and enters the report. *)
LEMMA FinishedDomains ==
    ASSUME NEW t, NEW outcome, Finished(t, outcome)
    PROVE  /\ DOMAIN stack' = DOMAIN stack \ {t}
           /\ DOMAIN report' = DOMAIN report \cup {t}
BY PutDomain DEF Finished, RestrictDomain, Restrict

(* Entering a file never loses the target: it is loading or it has failed. *)
LEMMA EnterDomains ==
    ASSUME NEW t, NEW frames, NEW p, Enter(t, frames, p)
    PROVE  DOMAIN stack' \cup DOMAIN report' = DOMAIN stack \cup DOMAIN report \cup {t}
<1>1. CASE Finished(t, Failed)
  BY <1>1, FinishedDomains
<1>2. CASE stack' = Put(stack, t, Append(frames, Frame(p, Loaded(p)))) /\ UNCHANGED report
  <2>1. DOMAIN stack' = DOMAIN stack \cup {t}
    BY <1>2, PutDomain
  <2>2. report' = report
    BY <1>2
  <2>. QED
    BY <2>1, <2>2
<1>. QED
  BY <1>1, <1>2 DEF Enter

LEMMA StartAccounts ==
    ASSUME NEW spec, Start(spec)
    PROVE  Names(queue') \cup DOMAIN stack' \cup DOMAIN report'
             = Names(queue) \cup DOMAIN stack \cup DOMAIN report
<1>1. DOMAIN stack' \cup DOMAIN report' = DOMAIN stack \cup DOMAIN report \cup {spec.name}
  BY EnterDomains DEF Start
<1>2. Names(queue') \cup {spec.name} = Names(queue)
  BY DEF Start, Names
<1>. QED
  BY <1>1, <1>2

(* A step of a loading target leaves it loading or reported. *)
LEMMA StepAccounts ==
    ASSUME NEW t \in DOMAIN stack, Step(t)
    PROVE  DOMAIN stack' \cup DOMAIN report' = DOMAIN stack \cup DOMAIN report
<1>1. CASE \E outcome : Finished(t, outcome)
  <2>1. /\ DOMAIN stack' = DOMAIN stack \ {t}
        /\ DOMAIN report' = DOMAIN report \cup {t}
    BY <1>1, FinishedDomains
  <2>. QED
    BY <2>1
<1>2. CASE \E frames : stack' = Put(stack, t, frames) /\ report' = report
  BY <1>2 DEF Put
<1>3. CASE Enter(t, stack[t], Top(t).class)
  BY <1>3, EnterDomains
<1>4. CASE ResolveNext(t)
  BY <1>1, <1>2, <1>4 DEF ResolveNext, WithTop
<1>5. CASE Include(t)
  BY <1>2, <1>3, <1>5 DEF Include, WithTop
<1>6. CASE Finish(t)
  BY <1>1, <1>2, <1>6 DEF Finish
<1>. QED
  BY <1>4, <1>5, <1>6 DEF Step

LEMMA RenderAccounts ==
    ASSUME PassAccounted, Render
    PROVE  PassAccounted'
<1>1. Names(queue') \cup DOMAIN stack' \cup DOMAIN report'
        = Names(queue) \cup DOMAIN stack \cup DOMAIN report
  <2>1. CASE \E spec \in queue : Start(spec)
    BY <2>1, StartAccounts
  <2>2. CASE \E t \in DOMAIN stack : Step(t)
    <3>1. queue' = queue
      BY <2>2 DEF Step, ResolveNext, Include, Finish
    <3>. QED
      BY <2>2, <3>1, StepAccounts DEF Names
  <2>. QED
    BY <2>1, <2>2 DEF Render, RenderStep
<1>. QED
  BY <1>1 DEF PassAccounted, Render, passVars, inner, Names

(* Before Render, the affected targets; a target that was not known is one *)
(* of them.                                                                *)
LEMMA PassStarts ==
    ASSUME InitialPass \/ Affect
    PROVE  PassAccounted'
<1>1. CASE InitialPass
  BY <1>1 DEF InitialPass, QueueUp, PassAccounted, Names, EmptyMap, inner
<1>2. CASE Affect
  BY <1>2 DEF Affect, QueueUp, ToRender, AffectedNames, AffectedOrNew, PassAccounted,
              Names, EmptyMap, inner
<1>. QED
  BY <1>1, <1>2

(* The index after a pass lists the dependencies of the renders after it:  *)
(* nothing is removed or added for a target that keeps its render.         *)
LEMMA InstallIndex ==
    ASSUME IndexExact, PassAccounted, Install
    PROVE  IndexExact'
<1>1. Rendered \cap (DOMAIN targets \ Gone) = {}
  BY DEF Install, Rendering, PassAccounted, Rendered, Gone
<1>2. Gone \subseteq DOMAIN targets
  BY DEF Gone
<1>3. targets' = [n \in (DOMAIN targets \ Gone) \cup Rendered |->
                     IF n \in Rendered THEN report[n] ELSE targets[n]]
  BY DEF Install
<1>4. index' = Reindexed
  BY DEF Install
<1>5. ASSUME NEW e
      PROVE  e \in index' <=> \E n \in DOMAIN targets' : e \in Deps(targets'[n]) \X {n}
  <2>1. e \in index' <=> \/ /\ \E n \in DOMAIN targets : e \in Deps(targets[n]) \X {n}
                            /\ ~ \E n \in Gone : e \in Deps(targets[n]) \X {n}
                         \/ \E n \in Rendered : e \in Deps(report[n]) \X {n}
    BY <1>4 DEF Reindexed, IndexExact
  <2>2. ASSUME NEW n, NEW m, NEW S, NEW T, e \in S \X {n}, e \in T \X {m}
        PROVE  n = m
    BY <2>2
  <2>3. (/\ \E n \in DOMAIN targets : e \in Deps(targets[n]) \X {n}
         /\ ~ \E n \in Gone : e \in Deps(targets[n]) \X {n})
        <=> \E n \in DOMAIN targets \ Gone : e \in Deps(targets[n]) \X {n}
    BY <1>2, <2>2
  <2>4. \A n \in DOMAIN targets \ Gone : n \in DOMAIN targets' /\ targets'[n] = targets[n]
    BY <1>1, <1>3
  <2>5. \A n \in Rendered : n \in DOMAIN targets' /\ targets'[n] = report[n]
    BY <1>3
  <2>6. \A n \in DOMAIN targets' : n \in DOMAIN targets \ Gone \/ n \in Rendered
    BY <1>3
  <2>. QED
    BY <2>1, <2>3, <2>4, <2>5, <2>6
<1>. QED
  BY <1>5 DEF IndexExact, Deps

LEMMA InstallAnswers ==
    ASSUME AnswersCoverSpecs, PassAccounted, Install
    PROVE  AnswersCoverSpecs'
<1>1. DOMAIN report = affected \cap Names(found)
  BY DEF Install, Rendering, PassAccounted, Names
<1>2. Names(found) \ affected \subseteq DOMAIN targets \cup errors
  BY DEF Install, PassAccounted, AnswersCoverSpecs
<1>3. DOMAIN targets' = (DOMAIN targets \ Gone) \cup Rendered
  BY DEF Install
<1>4. errors' = KeptErrors \cup (DOMAIN report \ Rendered) /\ Names(specs)' = Names(found)
  BY DEF Install, Rendered, Names
<1>. QED
  BY <1>1, <1>2, <1>3, <1>4 DEF AnswersCoverSpecs, Gone, KeptErrors, KeptErrorsAll, Rendered

LEMMA BookkeepingInductive ==
    ASSUME Bookkeeping, [Next]_vars
    PROVE  Bookkeeping'
<1>1. CASE Render
  <2>1. PassAccounted'
    BY <1>1, RenderAccounts DEF Bookkeeping
  <2>. QED
    BY <1>1, <2>1 DEF Bookkeeping, Render, inner, IndexExact, AnswersCoverSpecs, Deps, Names
<1>2. CASE Install
  BY <1>2, InstallIndex, InstallAnswers DEF Bookkeeping, Install, PassAccounted
<1>3. CASE InitialPass \/ Affect
  <2>1. PassAccounted'
    BY <1>3, PassStarts
  <2>2. UNCHANGED inner
    BY <1>3 DEF InitialPass, Affect
  <2>. QED
    BY <2>1, <2>2 DEF Bookkeeping, inner, IndexExact, AnswersCoverSpecs, Deps, Names
<1>4. CASE Environment \/ StartWatch \/ WatchAliases
  <2>1. UNCHANGED << inner, phase, affected, found, queue, stack, report >>
    BY <1>4 DEF Environment, Edit, MoveTree, WatchError, StartWatch, WatchAliases,
                passVars, renderVars
  <2>. QED
    BY <2>1 DEF Bookkeeping, inner, IndexExact, AnswersCoverSpecs, PassAccounted, Deps, Names
<1>5. CASE TakeBatch \/ Discover
  <2>1. UNCHANGED inner /\ phase' # "render"
    BY <1>5 DEF TakeBatch, Discover
  <2>. QED
    BY <2>1 DEF Bookkeeping, inner, IndexExact, AnswersCoverSpecs, PassAccounted, Deps, Names
<1>6. CASE UNCHANGED vars
  BY <1>6 DEF vars, Bookkeeping, IndexExact, AnswersCoverSpecs, PassAccounted, Deps, Names
<1>. QED
  BY <1>1, <1>2, <1>3, <1>4, <1>5, <1>6 DEF Next, Pass

(* The index and the answers are right after any sequence of edits, lost   *)
(* events and passes.                                                      *)
THEOREM BookkeepingInvariant == Spec => [](IndexExact /\ AnswersCoverSpecs)
<1>1. Init => Bookkeeping
  BY DEF Init, Bookkeeping, IndexExact, AnswersCoverSpecs, PassAccounted, Names, EmptyMap
<1>2. Bookkeeping /\ [Next]_vars => Bookkeeping'
  BY BookkeepingInductive
<1>3. Bookkeeping => IndexExact /\ AnswersCoverSpecs
  BY DEF Bookkeeping
<1>. QED
  BY <1>1, <1>2, <1>3, PTL DEF Spec

(* A target the daemon knows has a render or an error and never both, so   *)
(* a request about it is always answered from one of the two.              *)
THEOREM EveryTargetAnswers == Spec => []AnswersCoverSpecs
  BY BookkeepingInvariant, PTL

-----------------------------------------------------------------------------
(* Staleness.  Aliases are learned from successful renders only, so what   *)
(* follows is about inventories without symlinks.                          *)

NoSymlinks == \A p \in Path : Real[p] = p

(* Where a class or a target can be; whether the watcher's callback heeds  *)
(* an event whatever the disk looks like by then.                          *)
Source(p) == p \in Path /\ IsYaml(p)
Heeded(e) == e \in Path => IsYaml(e)
Touched(changes, p) == \E e \in changes : Heeded(e) /\ Reaches(e, p)

(* What was read is what is there, but for what a queued change reaches.   *)
ReadRight(f, d, changes) ==
    \A p \in DOMAIN f : Source(p) /\ (f[p] = Content(d, p) \/ Touched(changes, p))
ProbedRight(f, d, changes) ==
    \A p \in DOMAIN f : f[p] = Look(d, p) \/ Touched(changes, p)
Fresh(c, d, changes) == ReadRight(c.files, d, changes) /\ ProbedRight(c.probes, d, changes)

FrameFields == {"file", "classes", "class", "merged", "files", "probes"}
FreshFrame(f, d, changes) ==
    /\ DOMAIN f = FrameFields /\ Fresh(f, d, changes)
    /\ f.class # NoPath => Source(f.class)
FreshFrames(s, d, changes) ==
    (\E S : s \in Seq(S)) /\ \A i \in DOMAIN s : FreshFrame(s[i], d, changes)

(* What the caches, the loaders and the answers hold.                      *)
Caches(d, changes) ==
    /\ ReadRight(files, d, changes)
    /\ \A p \in DOMAIN closures : Fresh(closures[p], d, changes)
Loaders(d, changes) ==
    /\ \A t \in DOMAIN stack : stack[t] # << >> /\ FreshFrames(stack[t], d, changes)
    /\ \A n \in Rendered : Fresh(report[n], d, changes)
Answers(d, changes) ==
    /\ \A n \in DOMAIN targets : Fresh(targets[n], d, changes \cup batch)
    /\ phase = "render" =>
          \A n \in DOMAIN targets \ affected : Fresh(targets[n], d, changes)

InPhase ==
    /\ world \in Worlds /\ DOMAIN disk = Path /\ aliases = {}
    /\ \A s \in found \cup queue : Source(s.file)
    /\ phase \in {"start", "idle"} => batch = {}
    /\ phase # "render" => queue = {} /\ DOMAIN stack = {} /\ DOMAIN report = {}

Sound ==
    /\ InPhase
    /\ ~lost => Caches(disk, events) /\ Loaders(disk, events) /\ Answers(disk, events)

-----------------------------------------------------------------------------
(* Paths. *)

LEMMA SmallestOf ==
  ASSUME NEW S, S \subseteq Nat, S # {}
  PROVE  \E k \in S : \A j \in S : k <= j
<1>1. PICK m \in S : \A k \in S : ~ (<< k, m >> \in OpToRel(<, Nat))
  BY WFMin, NatLessThanWellFounded
<1>2. ASSUME NEW k \in S PROVE m <= k
  <2>1. k < m => << k, m >> \in OpToRel(<, Nat)
    BY DEF OpToRel
  <2>. QED
    BY <1>1, <2>1 DEF OpToRel
<1>. QED
  BY <1>2

(* A path above another one is a directory, and no directory is a file. *)
LEMMA AboveIsDir ==
  ASSUME NEW p, NEW e \in Above(p), e # p
  PROVE  e.ext = "" /\ e \notin Path
<1>1. e.ext = ""
  <2>1. PICK n \in 0 .. Len(p.at) - 1 : e = Dir(SubSeq(p.at, 1, n))
    BY DEF Above
  <2>. QED
    BY <2>1 DEF Dir
<1>2. \A x \in Path : x.ext # ""
  BY PathAssumption
<1>. QED
  BY <1>1, <1>2

LEMMA SourcesAreLeaves ==
  ASSUME NEW p, Source(p), NEW e, p \in Above(e)
  PROVE  p = e
BY AboveIsDir DEF Source

(* Of two paths above a third one is above the other. *)
LEMMA AboveIsLinear ==
  ASSUME NEW p \in Path, NEW q \in Above(p), NEW r \in Above(p), r # p
  PROVE  q \in Above(r) \/ r \in Above(q)
<1>1. PICK m \in 0 .. Len(p.at) - 1 : r = Dir(SubSeq(p.at, 1, m))
  BY DEF Above
<1>2. CASE q = p
  BY <1>2
<1>3. CASE q # p
  <2>1. PICK n \in 0 .. Len(p.at) - 1 : q = Dir(SubSeq(p.at, 1, n))
    BY <1>3 DEF Above
  <2>2. p.at \in Seq(STRING) /\ Len(p.at) \in Nat
    <3>1. p.at \in Seq(STRING)
      BY PathAssumption
    <3>. QED
      BY <3>1
  <2>3. ASSUME NEW a \in 0 .. Len(p.at) - 1, NEW b \in 0 .. Len(p.at) - 1, a < b
        PROVE  Dir(SubSeq(p.at, 1, a)) \in Above(Dir(SubSeq(p.at, 1, b)))
    <3>1. Len(SubSeq(p.at, 1, b)) = b /\ a \in 0 .. b - 1
      BY <2>2, <2>3
    <3>2. SubSeq(SubSeq(p.at, 1, b), 1, a) = SubSeq(p.at, 1, a)
      BY <2>2, <2>3
    <3>3. Dir(SubSeq(p.at, 1, b)).at = SubSeq(p.at, 1, b)
      BY DEF Dir
    <3>. QED
      BY <3>1, <3>2, <3>3 DEF Above
  <2>4. m < n \/ n < m \/ m = n
    OBVIOUS
  <2>5. r \in Above(r)
    BY DEF Above
  <2>. QED
    BY <1>1, <2>1, <2>3, <2>4, <2>5
<1>. QED
  BY <1>2, <1>3

(* Without symlinks a change reaches what is at it or above it and, when   *)
(* it is none of a file, what is below.                                    *)
LEMMA ReachesCases ==
  ASSUME NoSymlinks, NEW p, NEW e, Reaches(e, p)
  PROVE  p \in Above(e) \/ (e \notin Path /\ e \in Above(p))
<1>1. p \in Above(p)
  BY DEF Above
<1>. QED
  BY <1>1, AboveIsDir DEF Reaches, NoSymlinks

-----------------------------------------------------------------------------
(* What class names and target files lead to. *)

LEMMA CandidatesAreYaml ==
  ASSUME NEW name, NEW from, NEW i \in DOMAIN Candidates(name, from)
  PROVE  IsYaml(Candidates(name, from)[i])
<1>. DEFINE base == BaseDir(name, from)
            full == Joined(base, name)
            compat == Joined(base, SubSeq(name, 3, Len(name)))
            With(ext) == << File(Append(full, "init"), ext), File(full, ext),
                            File(compat, ext), File(Append(compat, "init"), ext) >>
            Yaml == {File(Append(full, "init"), "yml"), File(full, "yml"),
                     File(compat, "yml"), File(Append(compat, "init"), "yml"),
                     File(Append(full, "init"), "yaml"), File(full, "yaml"),
                     File(compat, "yaml"), File(Append(compat, "init"), "yaml")}
<1>1. Candidates(name, from) = With("yml") \o With("yaml")
  BY DEF Candidates
<1>2. With("yml") \in Seq(Yaml) /\ With("yaml") \in Seq(Yaml)
  <2>. HIDE DEF full, compat
  <2>. QED
    OBVIOUS
<1>3. \A x \in Yaml : IsYaml(x)
  BY DEF IsYaml, File
<1>. HIDE DEF With, Yaml
<1>4. With("yml") \o With("yaml") \in Seq(Yaml)
  BY <1>2
<1>. QED
  BY <1>1, <1>3, <1>4

LEMMA CandidateDomain ==
  ASSUME NEW name, NEW from
  PROVE  DOMAIN Candidates(name, from) \subseteq Nat
BY DEF Candidates

LEMMA FoundIsSource ==
  ASSUME NEW name, NEW from, NEW d
  PROVE  LET r == Resolve(name, from, Existing(d)) IN r.found = NoPath \/ Source(r.found)
<1>. DEFINE tried == Candidates(name, from)
            Hits == {i \in DOMAIN tried : tried[i] \in Existing(d)}
            first == FirstHit(tried, Existing(d))
<1>1. Hits \subseteq Nat
  <2>1. DOMAIN tried \subseteq Nat
    BY CandidateDomain
  <2>. QED
    BY <2>1
<1>2. CASE Hits = {}
  <2>1. first = 0
    BY <1>2 DEF FirstHit
  <2>. QED
    BY <2>1 DEF Resolve
<1>3. CASE Hits # {}
  <2>1. \E i \in Hits : \A j \in Hits : i <= j
    <3>. HIDE DEF Hits
    <3>. QED
      BY <1>1, <1>3, SmallestOf
  <2>2. first \in Hits
    BY <1>3, <2>1 DEF FirstHit
  <2>3. tried[first] \in Path /\ IsYaml(tried[first])
    BY <2>2, CandidatesAreYaml DEF Existing
  <2>4. Resolve(name, from, Existing(d)).found \in {NoPath, tried[first]}
    <3>. HIDE DEF first, tried
    <3>. QED
      BY DEF Resolve, first, tried
  <2>. QED
    BY <2>3, <2>4 DEF Source
<1>. QED
  BY <1>2, <1>3

LEMMA DiscoveredAreSources ==
  ASSUME NEW s \in Discovered(Existing(disk))
  PROVE  Source(s.file)
<1>1. PICK p \in TargetFiles(Existing(disk)) : s = TargetSpec(p)
  BY DEF Discovered
<1>. QED
  BY <1>1 DEF TargetFiles, TargetSpec, Existing, Source

-----------------------------------------------------------------------------
(* What is right stays right as long as whatever comes to differ is        *)
(* announced, and nothing that was announced is forgotten.                 *)

Carries(d1, changes1, d2, changes2) ==
    \A p : /\ Source(p) => Content(d1, p) = Content(d2, p) \/ Touched(changes2, p)
           /\ Look(d1, p) = Look(d2, p) \/ Touched(changes2, p)
           /\ Touched(changes1, p) => Touched(changes2, p)

LEMMA ReadsCarry ==
  ASSUME NEW d1, NEW c1, NEW d2, NEW c2, Carries(d1, c1, d2, c2)
  PROVE  /\ \A f : ReadRight(f, d1, c1) => ReadRight(f, d2, c2)
         /\ \A f : ProbedRight(f, d1, c1) => ProbedRight(f, d2, c2)
BY DEF ReadRight, ProbedRight, Carries

LEMMA FreshCarries ==
  ASSUME NEW d1, NEW c1, NEW d2, NEW c2, Carries(d1, c1, d2, c2)
  PROVE  /\ \A c : Fresh(c, d1, c1) => Fresh(c, d2, c2)
         /\ \A s : FreshFrames(s, d1, c1) => FreshFrames(s, d2, c2)
<1>1. \A c : Fresh(c, d1, c1) => Fresh(c, d2, c2)
  BY ReadsCarry DEF Fresh
<1>. QED
  BY <1>1 DEF FreshFrames, FreshFrame

LEMMA MoreIsAnnounced ==
  ASSUME NEW d1, NEW c1, NEW d2, NEW c2, Carries(d1, c1, d2, c2), NEW b
  PROVE  Carries(d1, c1 \cup b, d2, c2 \cup b)
BY DEF Carries, Touched

(* A change of the disk comes with an event that reaches all it changed.   *)
LEMMA ChangesAreAnnounced ==
  ASSUME NoSymlinks, NEW d1, NEW d2, NEW e, Heeded(e), NEW changes,
         \A p \in Path : d1[p] = d2[p] \/ p = e \/ (e.ext = "" /\ Under(p, e))
  PROVE  Carries(d1, changes, d2, changes \cup {e})
<1>1. ASSUME NEW p, p \in Above(e) \/ e \in Above(p)
      PROVE  Touched(changes \cup {e}, p)
  BY <1>1 DEF Touched, Reaches
<1>2. \A p : p \in Above(p)
  BY DEF Above
<1>3. ASSUME NEW p, Source(p)
      PROVE  Content(d1, p) = Content(d2, p) \/ Touched(changes \cup {e}, p)
  BY <1>1, <1>2, <1>3 DEF Source, Content, NoSymlinks, Under
<1>4. ASSUME NEW p
      PROVE  Look(d1, p) = Look(d2, p) \/ Touched(changes \cup {e}, p)
  <2>1. CASE \A q \in Path : Under(q, p) => d1[q] = d2[q]
    BY <2>1 DEF Look, Existing, Content, NoSymlinks
  <2>2. CASE \E q \in Path : Under(q, p) /\ d1[q] # d2[q]
    <3>1. PICK q \in Path : Under(q, p) /\ d1[q] # d2[q]
      BY <2>2
    <3>2. CASE q = e
      BY <1>1, <3>1, <3>2 DEF Under
    <3>3. CASE q # e
      <4>1. p \in Above(q) /\ e \in Above(q)
        BY <3>1, <3>3 DEF Under
      <4>. QED
        BY <1>1, <3>3, <4>1, AboveIsLinear
    <3>. QED
      BY <3>2, <3>3
  <2>. QED
    BY <2>1, <2>2
<1>5. \A p : Touched(changes, p) => Touched(changes \cup {e}, p)
  BY DEF Touched
<1>. QED
  BY <1>3, <1>4, <1>5 DEF Carries

(* An event about a file that is no YAML file is about nothing anybody     *)
(* reads.                                                                  *)
LEMMA OthersChangeNothing ==
  ASSUME NoSymlinks, NEW d1, NEW d2, NEW e, ~Heeded(e), NEW changes,
         \A p \in Path : d1[p] = d2[p] \/ p = e
  PROVE  Carries(d1, changes, d2, changes \cup {e})
<1>1. ~IsYaml(e)
  BY DEF Heeded
<1>2. ASSUME NEW p, Source(p)
      PROVE  Content(d1, p) = Content(d2, p)
  BY <1>1, <1>2 DEF Source, Content, NoSymlinks
<1>3. ASSUME NEW p
      PROVE  Look(d1, p) = Look(d2, p)
  BY <1>1 DEF Look, Existing, Content, NoSymlinks
<1>. QED
  BY <1>2, <1>3 DEF Carries, Touched

LEMMA TreesMove ==
  ASSUME InPhase, NEW tree \in Trees[world], MoveTree(tree)
  PROVE  DOMAIN disk' = Path /\ \A q \in Path : disk[q] = disk'[q] \/ Under(q, tree.dir)
<1>. DEFINE there == {q \in Path : Under(q, tree.dir)}
<1>1. DOMAIN tree.content = there
  BY DaemonAssumption DEF InPhase
<1>2. DOMAIN [q \in there |-> Absent] = there
  OBVIOUS
<1>3. \E f : DOMAIN f = there /\ disk' = Join(f, disk)
  BY <1>1, <1>2 DEF MoveTree
<1>. QED
  BY <1>3 DEF Join, InPhase

LEMMA EnvironmentCarries ==
  ASSUME NoSymlinks, InPhase, Environment, ~lost'
  PROVE  Carries(disk, events, disk', events')
<1>1. ASSUME NEW p \in DOMAIN Versions[world], Edit(p)
      PROVE  Carries(disk, events, disk', events')
  <2>1. events' = events \cup {p}
    BY <1>1 DEF Edit, Notice
  <2>2. \A q \in Path : disk[q] = disk'[q] \/ q = p
    BY <1>1 DEF Edit, InPhase
  <2>. QED
    BY <2>1, <2>2, ChangesAreAnnounced, OthersChangeNothing
<1>2. ASSUME NEW tree \in Trees[world], MoveTree(tree)
      PROVE  Carries(disk, events, disk', events')
  <2>1. events' = events \cup {tree.dir}
    BY <1>2 DEF MoveTree, Notice
  <2>2. tree.dir.ext = ""
    BY <1>2, DaemonAssumption DEF InPhase
  <2>3. Heeded(tree.dir)
    <3>1. \A x \in Path : x.ext # ""
      BY PathAssumption
    <3>. QED
      BY <2>2, <3>1 DEF Heeded
  <2>. QED
    BY <1>2, <2>1, <2>2, <2>3, TreesMove, ChangesAreAnnounced
<1>3. ~WatchError
  BY DEF WatchError
<1>. QED
  BY <1>1, <1>2, <1>3 DEF Environment

LEMMA SoundCarries ==
  ASSUME Sound, ~lost, Carries(disk, events, disk', events'),
         UNCHANGED << phase, batch, affected, targets, files, closures, stack, report >>
  PROVE  Caches(disk, events)' /\ Loaders(disk, events)' /\ Answers(disk, events)'
<1>1. Caches(disk, events)'
  BY ReadsCarry, FreshCarries DEF Sound, Caches
<1>2. Loaders(disk, events)'
  BY FreshCarries DEF Sound, Loaders, Rendered
<1>3. Answers(disk, events)'
  <2>1. Carries(disk, events \cup batch, disk', events' \cup batch)
    BY MoreIsAnnounced
  <2>. QED
    BY <2>1, FreshCarries DEF Sound, Answers
<1>. QED
  BY <1>1, <1>2, <1>3

-----------------------------------------------------------------------------
(* Taking a batch. *)

LEMMA HeededIsKept ==
  ASSUME NEW e, Heeded(e)
  PROVE  ~Noise(e)
BY DEF Heeded, Noise, IsFile, Existing

(* With no event in the batch that anybody heeds nothing changes.          *)
LEMMA NoiseIsDropped ==
  ASSUME NEW b, \A e \in b : Noise(e), NEW d, NEW changes
  PROVE  Carries(d, changes, d, changes \ b)
<1>1. ASSUME NEW p, Touched(changes, p)
      PROVE  Touched(changes \ b, p)
  BY <1>1, HeededIsKept DEF Touched
<1>. QED
  BY <1>1 DEF Carries

(* What an event reaches is dropped: files by their path or a directory    *)
(* they lie below, closures by what they read and by where they looked.    *)
LEMMA TouchedIsDropped ==
  ASSUME NoSymlinks, NEW e, NEW c, NEW p, Reaches(e, p), NEW paths, e \in paths,
         p \in DOMAIN c.files \cup DOMAIN c.probes,
         p \in DOMAIN c.files => Source(p)
  PROVE  DependsOn(c, paths) \/ LiesUnder(c, {q \in paths : ~IsFile(q)})
<1>1. CASE p \in Above(e) /\ p \in DOMAIN c.files
  <2>1. p = e
    BY <1>1, SourcesAreLeaves
  <2>. QED
    BY <1>1, <2>1 DEF DependsOn
<1>2. CASE p \in Above(e) /\ p \in DOMAIN c.probes
  BY <1>2 DEF DependsOn, Under
<1>3. CASE e \notin Path /\ e \in Above(p)
  BY <1>3 DEF LiesUnder, Under, IsFile, Existing
<1>. QED
  BY <1>1, <1>2, <1>3, ReachesCases

LEMMA InvalidateDrops ==
  ASSUME NoSymlinks, Caches(disk, events), NEW b, NEW paths, UNCHANGED disk,
         \A e \in b : Heeded(e) => e \in paths,
         Invalidate(paths, {q \in paths : ~IsFile(q)}),
         events' = events \ b
  PROVE  Caches(disk, events)'
<1>. DEFINE dirs == {q \in paths : ~IsFile(q)}
<1>1. ASSUME NEW p, Touched(events, p), ~Touched(events \ b, p)
      PROVE  \E e \in paths : Reaches(e, p)
  BY <1>1 DEF Touched
<1>2. ASSUME NEW p \in DOMAIN files, p \notin paths, \A q \in dirs : ~Under(p, q)
      PROVE  Source(p) /\ (files[p] = Content(disk, p) \/ Touched(events \ b, p))
  <2>1. Source(p) /\ (files[p] = Content(disk, p) \/ Touched(events, p))
    BY DEF Caches, ReadRight
  <2>2. ASSUME NEW e \in paths PROVE ~Reaches(e, p)
    BY <1>2, <2>1, ReachesCases, SourcesAreLeaves DEF Under, IsFile, Existing
  <2>. QED
    BY <1>1, <2>1, <2>2
<1>3. ReadRight(files, disk, events)'
  <2>1. files' = [p \in {q \in DOMAIN files : q \notin paths /\ \A r \in dirs : ~Under(q, r)}
                     |-> files[p]]
    BY DEF Invalidate, RestrictDomain, Restrict
  <2>. QED
    BY <1>2, <2>1 DEF ReadRight
<1>4. ASSUME NEW c, Fresh(c, disk, events), ~DependsOn(c, paths), ~LiesUnder(c, dirs)
      PROVE  Fresh(c, disk, events \ b)
  <2>1. ASSUME NEW p \in DOMAIN c.files \cup DOMAIN c.probes, Touched(events, p)
        PROVE  Touched(events \ b, p)
    BY <1>1, <1>4, <2>1, TouchedIsDropped DEF Fresh, ReadRight
  <2>. QED
    BY <1>4, <2>1 DEF Fresh, ReadRight, ProbedRight
<1>5. ASSUME NEW p \in DOMAIN closures'
      PROVE  Fresh(closures'[p], disk, events \ b)
  <2>1. closures' = [q \in {r \in DOMAIN closures : ~DependsOn(closures[r], paths)
                                                    /\ ~LiesUnder(closures[r], dirs)}
                        |-> closures[q]]
    BY DEF Invalidate, RestrictDomain, Restrict
  <2>2. /\ p \in DOMAIN closures /\ closures'[p] = closures[p]
        /\ ~DependsOn(closures[p], paths) /\ ~LiesUnder(closures[p], dirs)
    BY <2>1
  <2>. QED
    BY <1>4, <2>2 DEF Caches
<1>. QED
  BY <1>3, <1>5 DEF Caches

LEMMA TakeBatchIsSound ==
  ASSUME NoSymlinks, Sound, ~lost, TakeBatch
  PROVE  Caches(disk, events)' /\ Loaders(disk, events)' /\ Answers(disk, events)'
<1>. PICK b \in SUBSET events \ {{}} :
         LET kept    == {p \in b : ~Noise(p)}
             changed == ExpandAliases(kept)
         IN  /\ events' = events \ b
             /\ IF kept = {}
                THEN UNCHANGED << phase, batch, stop, files, closures >>
                ELSE /\ phase' = "discover"
                     /\ batch' = changed
                     /\ stop' = (stop \/ kept \cap ConfigSource # {})
                     /\ Invalidate(changed, {p \in changed : ~IsFile(p)})
  BY DEF TakeBatch
<1>. DEFINE kept == {p \in b : ~Noise(p)}
<1>1. /\ phase = "idle" /\ events' = events \ b
      /\ UNCHANGED << disk, affected, targets, stack, report >>
  BY DEF TakeBatch, inner
<1>2. CASE kept = {}
  <2>1. Carries(disk, events, disk', events')
    <3>1. \A e \in b : Noise(e)
      BY <1>2
    <3>2. Carries(disk, events, disk, events \ b)
      BY <3>1, NoiseIsDropped
    <3>. QED
      BY <1>1, <3>2
  <2>2. UNCHANGED << phase, batch, affected, targets, files, closures, stack, report >>
    BY <1>1, <1>2
  <2>. QED
    BY <2>1, <2>2, SoundCarries
<1>3. CASE kept # {}
  <2>1. /\ phase' = "discover" /\ batch' = ExpandAliases(kept)
        /\ Invalidate(batch', {p \in batch' : ~IsFile(p)})
    BY <1>3
  <2>2. batch' = kept /\ batch = {}
    BY <1>1, <2>1 DEF ExpandAliases, Sound, InPhase
  <2>3. \A e \in b : Heeded(e) => e \in batch'
    BY <2>2, HeededIsKept
  <2>4. Caches(disk, events)'
    BY <1>1, <2>1, <2>3, InvalidateDrops DEF Sound
  <2>5. Loaders(disk, events)'
    BY <1>1 DEF Sound, InPhase, Loaders, Rendered
  <2>6. Answers(disk, events)'
    <3>1. Carries(disk, events \cup batch, disk', events' \cup batch')
      BY <1>1, <2>2, <2>3 DEF Carries, Touched
    <3>. QED
      BY <1>1, <2>1, <3>1, FreshCarries DEF Sound, Answers
  <2>. QED
    BY <2>4, <2>5, <2>6
<1>. QED
  BY <1>2, <1>3

-----------------------------------------------------------------------------
(* A pass begins: who depends on a change of the batch is affected, since  *)
(* the index lists what each stored render depends on.                     *)

LEMMA TouchedIsAffected ==
  ASSUME NoSymlinks, IndexExact, NEW n \in DOMAIN targets, NEW e \in batch,
         NEW p \in Deps(targets[n]), Reaches(e, p)
  PROVE  n \in AffectedNames
<1>1. << p, n >> \in index
  BY DEF IndexExact
<1>2. n \in IndexedUnder(e)
  <2>1. p \in Above(e) \/ (~IsFile(e) /\ Under(p, e))
    BY ReachesCases DEF IsFile, Existing, Under
  <2>. QED
    BY <1>1, <2>1 DEF IndexedUnder
<1>. QED
  BY <1>2 DEF AffectedNames, AffectedOrNew

LEMMA AffectIsSound ==
  ASSUME NoSymlinks, Sound, IndexExact, ~lost, Affect
  PROVE  Caches(disk, events)' /\ Loaders(disk, events)' /\ Answers(disk, events)'
<1>1. /\ UNCHANGED << disk, events, batch, targets, files, closures >>
      /\ affected' = AffectedNames /\ DOMAIN stack' = {} /\ DOMAIN report' = {}
  BY DEF Affect, diskVars, inner, QueueUp, EmptyMap
<1>2. Caches(disk, events)'
  BY <1>1 DEF Sound, Caches
<1>3. Loaders(disk, events)'
  BY <1>1 DEF Loaders, Rendered
<1>4. ASSUME NEW n \in DOMAIN targets, n \notin AffectedNames
      PROVE  Fresh(targets[n], disk, events)
  <2>1. Fresh(targets[n], disk, events \cup batch)
    BY DEF Sound, Answers
  <2>2. ASSUME NEW p \in Deps(targets[n]), Touched(events \cup batch, p)
        PROVE  Touched(events, p)
    BY <1>4, <2>2, TouchedIsAffected DEF Touched
  <2>. QED
    BY <2>1, <2>2 DEF Fresh, ReadRight, ProbedRight, Deps
<1>5. Answers(disk, events)'
  BY <1>1, <1>4 DEF Sound, Answers
<1>. QED
  BY <1>2, <1>3, <1>5

LEMMA InitialPassIsSound ==
  ASSUME Sound, ~lost, InitialPass
  PROVE  Caches(disk, events)' /\ Loaders(disk, events)' /\ Answers(disk, events)'
<1>1. /\ UNCHANGED << disk, events, batch, targets >> /\ batch = {}
      /\ DOMAIN files' = {} /\ DOMAIN closures' = {}
      /\ DOMAIN stack' = {} /\ DOMAIN report' = {}
  BY DEF InitialPass, diskVars, inner, QueueUp, EmptyMap, Sound, InPhase
<1>2. Caches(disk, events)'
  BY <1>1 DEF Caches, ReadRight
<1>3. Loaders(disk, events)'
  BY <1>1 DEF Loaders, Rendered
<1>4. Answers(disk, events)'
  <2>1. \A n \in DOMAIN targets : Fresh(targets[n], disk, events)
    <3>1. events \cup batch = events
      BY <1>1
    <3>. QED
      BY <3>1 DEF Sound, Answers
  <2>. QED
    BY <1>1, <2>1 DEF Sound, Answers
<1>. QED
  BY <1>2, <1>3, <1>4

(* What is installed was rendered in this pass or depends on nothing in    *)
(* the batch.                                                              *)
LEMMA InstallIsSound ==
  ASSUME Sound, ~lost, Install
  PROVE  Caches(disk, events)' /\ Loaders(disk, events)' /\ Answers(disk, events)'
<1>1. /\ phase = "render" /\ phase' = "idle" /\ batch' = {}
      /\ DOMAIN report' = {} /\ DOMAIN stack = {}
      /\ UNCHANGED << disk, events, files, closures, stack >>
  <2>1. phase = "render" /\ phase' = "idle" /\ batch' = {} /\ ~Rendering
    BY DEF Install
  <2>2. report' = EmptyMap
    BY DEF Install
  <2>3. UNCHANGED << disk, events, files, closures, stack >>
    BY DEF Install, diskVars
  <2>. QED
    BY <2>1, <2>2, <2>3 DEF EmptyMap, Rendering
<1>2. Caches(disk, events)'
  BY <1>1 DEF Sound, Caches
<1>3. Loaders(disk, events)'
  BY <1>1 DEF Loaders, Rendered
<1>4. ASSUME NEW n \in DOMAIN targets'
      PROVE  Fresh(targets'[n], disk, events)
  <2>1. targets' = [m \in (DOMAIN targets \ Gone) \cup Rendered |->
                       IF m \in Rendered THEN report[m] ELSE targets[m]]
    BY DEF Install
  <2>2. CASE n \in Rendered
    BY <2>1, <2>2 DEF Sound, Loaders
  <2>3. CASE n \notin Rendered
    <3>1. n \in DOMAIN targets \ affected /\ targets'[n] = targets[n]
      BY <2>1, <2>3 DEF Gone
    <3>. QED
      BY <1>1, <3>1 DEF Sound, Answers
  <2>. QED
    BY <2>2, <2>3
<1>5. Answers(disk, events)'
  <2>1. (events \cup batch)' = events
    BY <1>1
  <2>. QED
    BY <1>1, <1>4, <2>1 DEF Answers
<1>. QED
  BY <1>2, <1>3, <1>5

-----------------------------------------------------------------------------
(* The loader: frames gather what is right. *)

LEMMA PutIs ==
  ASSUME NEW f, NEW x, NEW v, NEW y \in DOMAIN Put(f, x, v)
  PROVE  \/ y = x /\ Put(f, x, v)[y] = v
         \/ y \in DOMAIN f /\ Put(f, x, v)[y] = f[y]
BY DEF Put

LEMMA JoinIsRight ==
  ASSUME NEW f, NEW g, NEW d, NEW changes
  PROVE  /\ ReadRight(f, d, changes) /\ ReadRight(g, d, changes)
              => ReadRight(Join(f, g), d, changes)
         /\ ProbedRight(f, d, changes) /\ ProbedRight(g, d, changes)
              => ProbedRight(Join(f, g), d, changes)
BY DEF Join, ReadRight, ProbedRight

LEMMA LooksAreRight ==
  ASSUME NEW d, NEW P, NEW changes
  PROVE  ProbedRight(Looks(d, P), d, changes)
BY DEF Looks, ProbedRight

LEMMA FramesAreStacked ==
  ASSUME NEW s, NEW d, NEW changes, FreshFrames(s, d, changes)
  PROVE  /\ \A f : FreshFrame(f, d, changes) =>
                FreshFrames(Append(s, f), d, changes) /\ Append(s, f) # << >>
         /\ s # << >> => FreshFrame(Last(s), d, changes) /\ FreshFrames(Front(s), d, changes)
<1>1. PICK S : s \in Seq(S)
  BY DEF FreshFrames
<1>2. ASSUME NEW f, FreshFrame(f, d, changes)
      PROVE  FreshFrames(Append(s, f), d, changes) /\ Append(s, f) # << >>
  <2>1. s \in Seq(S \cup {f})
    BY <1>1
  <2>2. /\ Append(s, f) \in Seq(S \cup {f})
        /\ Len(Append(s, f)) = Len(s) + 1 /\ Append(s, f)[Len(s) + 1] = f
        /\ \A i \in 1 .. Len(s) : Append(s, f)[i] = s[i]
        /\ DOMAIN s = 1 .. Len(s) /\ DOMAIN Append(s, f) = 1 .. Len(s) + 1
    BY <2>1
  <2>3. \A i \in DOMAIN Append(s, f) : i \in DOMAIN s \/ i = Len(s) + 1
    BY <1>1, <2>2
  <2>4. \A i \in DOMAIN Append(s, f) : FreshFrame(Append(s, f)[i], d, changes)
    BY <1>2, <2>2, <2>3 DEF FreshFrames
  <2>. QED
    BY <1>1, <2>2, <2>4 DEF FreshFrames
<1>3. ASSUME s # << >>
      PROVE  FreshFrame(Last(s), d, changes) /\ FreshFrames(Front(s), d, changes)
  <2>1. Len(s) \in Nat /\ Len(s) >= 1 /\ DOMAIN s = 1 .. Len(s)
    BY <1>1, <1>3
  <2>2. FreshFrame(Last(s), d, changes)
    BY <2>1 DEF FreshFrames, Last
  <2>3. /\ Front(s) \in Seq(S) /\ DOMAIN Front(s) = 1 .. Len(s) - 1
        /\ \A i \in 1 .. Len(s) - 1 : Front(s)[i] = s[i]
    BY <1>1, <2>1 DEF Front
  <2>4. \A i \in DOMAIN Front(s) : i \in DOMAIN s
    BY <2>1, <2>3
  <2>. QED
    BY <2>2, <2>3, <2>4 DEF FreshFrames
<1>. QED
  BY <1>2, <1>3

LEMMA NoFramesAreFresh ==
  ASSUME NEW d, NEW changes
  PROVE  FreshFrames(<< >>, d, changes)
<1>1. << >> \in Seq({})
  OBVIOUS
<1>. QED
  BY <1>1 DEF FreshFrames

LEMMA FirstFrameIsFresh ==
  ASSUME NEW p, Source(p), Caches(disk, events)
  PROVE  /\ Loaded(p) = Content(disk, p) \/ Touched(events, p)
         /\ FreshFrame(Frame(p, Loaded(p)), disk, events)
<1>1. Loaded(p) = Content(disk, p) \/ Touched(events, p)
  BY DEF Loaded, Caches, ReadRight
<1>. DEFINE f == Frame(p, Loaded(p))
<1>2. /\ DOMAIN f = FrameFields /\ f.class = NoPath
      /\ f.files = Put(EmptyMap, p, Loaded(p))
      /\ f.probes \in {Looks(disk, {ClassesDir}), EmptyMap}
  BY DEF Frame, FrameFields
<1>3. ReadRight(f.files, disk, events)
  <2>1. DOMAIN EmptyMap = {}
    BY DEF EmptyMap
  <2>2. \A q \in DOMAIN f.files : q = p /\ f.files[q] = Loaded(p)
    BY <1>2, <2>1, PutIs
  <2>. QED
    BY <1>1, <2>2 DEF ReadRight
<1>4. ProbedRight(f.probes, disk, events)
  <2>1. ProbedRight(EmptyMap, disk, events)
    BY DEF ProbedRight, EmptyMap
  <2>. QED
    BY <1>2, <2>1, LooksAreRight
<1>. QED
  BY <1>1, <1>2, <1>3, <1>4 DEF FreshFrame, Fresh

LEMMA MergedIsFresh ==
  ASSUME NEW f, NEW c, NEW d, NEW changes, FreshFrame(f, d, changes), Fresh(c, d, changes)
  PROVE  FreshFrame(Merge(f, c), d, changes)
<1>. DEFINE g == Merge(f, c)
<1>1. /\ DOMAIN g = FrameFields /\ g.class = NoPath
      /\ g.files = Join(f.files, c.files) /\ g.probes = Join(f.probes, c.probes)
  BY DEF Merge, FreshFrame, FrameFields
<1>. QED
  BY <1>1, JoinIsRight DEF FreshFrame, Fresh

(* A loader that fails or ends leaves the others alone.                    *)
LEMMA FinishedIsSound ==
  ASSUME Loaders(disk, events), NEW t, NEW outcome, Finished(t, outcome),
         outcome # Failed => Fresh(outcome, disk, events), UNCHANGED << disk, events >>
  PROVE  Loaders(disk, events)'
<1>1. stack' = [u \in {v \in DOMAIN stack : v # t} |-> stack[u]]
  BY DEF Finished, RestrictDomain, Restrict
<1>2. \A n \in DOMAIN report' : \/ n = t /\ report'[n] = outcome
                                \/ n \in DOMAIN report /\ report'[n] = report[n]
  BY PutIs DEF Finished
<1>3. \A n \in Rendered' : Fresh(report'[n], disk, events)
  BY <1>2 DEF Rendered, Loaders
<1>. QED
  BY <1>1, <1>3 DEF Loaders

LEMMA PushedIsSound ==
  ASSUME Loaders(disk, events), NEW t, NEW s, stack' = Put(stack, t, s),
         s # << >>, FreshFrames(s, disk, events), UNCHANGED << disk, events, report >>
  PROVE  Loaders(disk, events)'
<1>1. \A u \in DOMAIN stack' : \/ u = t /\ stack'[u] = s
                               \/ u \in DOMAIN stack /\ stack'[u] = stack[u]
  BY PutIs
<1>. QED
  BY <1>1 DEF Loaders, Rendered

LEMMA EnterIsSound ==
  ASSUME Caches(disk, events), Loaders(disk, events),
         NEW t, NEW frames, NEW p, Enter(t, frames, p), Source(p),
         FreshFrames(frames, disk, events), UNCHANGED << disk, events, closures >>
  PROVE  Caches(disk, events)' /\ Loaders(disk, events)'
<1>1. \A q \in DOMAIN files' : \/ q \in DOMAIN files /\ files'[q] = files[q]
                               \/ q = p /\ files'[q] = Loaded(p)
  BY PutIs DEF Enter
<1>2. Caches(disk, events)'
  BY <1>1, FirstFrameIsFresh DEF Caches, ReadRight
<1>3. CASE Finished(t, Failed)
  BY <1>2, <1>3, FinishedIsSound
<1>4. CASE stack' = Put(stack, t, Append(frames, Frame(p, Loaded(p)))) /\ UNCHANGED report
  <2>. DEFINE s == Append(frames, Frame(p, Loaded(p)))
  <2>1. s # << >> /\ FreshFrames(s, disk, events)
    BY FirstFrameIsFresh, FramesAreStacked
  <2>. HIDE DEF s
  <2>2. stack' = Put(stack, t, s)
    BY <1>4 DEF s
  <2>. QED
    BY <1>2, <1>4, <2>1, <2>2, PushedIsSound
<1>. QED
  BY <1>3, <1>4 DEF Enter

LEMMA StartIsSound ==
  ASSUME InPhase, Caches(disk, events), Loaders(disk, events), NEW spec, Start(spec),
         UNCHANGED events
  PROVE  Caches(disk, events)' /\ Loaders(disk, events)'
<1>1. Source(spec.file) /\ UNCHANGED << disk, closures >>
  BY DEF Start, InPhase
<1>. QED
  BY <1>1, NoFramesAreFresh, EnterIsSound DEF Start

LEMMA ResolveNextIsSound ==
  ASSUME Caches(disk, events), Loaders(disk, events), NEW t, ResolveNext(t),
         UNCHANGED events
  PROVE  Caches(disk, events)' /\ Loaders(disk, events)'
<1>1. UNCHANGED << disk, files, closures >>
  BY DEF ResolveNext
<1>2. Caches(disk, events)'
  BY <1>1 DEF Caches
<1>. DEFINE r == Resolve(Top(t).classes[Position(Top(t))], Top(t).file, Existing(disk))
            probed == [Top(t) EXCEPT !.class = r.found,
                                     !.merged = IF r.found = NoPath THEN Append(@, NoPath) ELSE @,
                                     !.probes = Join(@, Looks(disk, r.tried))]
<1>3. /\ stack[t] # << >> /\ FreshFrames(stack[t], disk, events)
  BY DEF ResolveNext, Loaders
<1>4. FreshFrame(Top(t), disk, events) /\ FreshFrames(Front(stack[t]), disk, events)
  BY <1>3, FramesAreStacked DEF Top
<1>5. FreshFrame(probed, disk, events)
  <2>1. r.found = NoPath \/ Source(r.found)
    BY FoundIsSource
  <2>. HIDE DEF r
  <2>2. /\ DOMAIN probed = FrameFields /\ probed.class = r.found
        /\ probed.files = Top(t).files
        /\ probed.probes = Join(Top(t).probes, Looks(disk, r.tried))
    BY <1>4 DEF FreshFrame, FrameFields
  <2>3. ProbedRight(probed.probes, disk, events)
    BY <1>4, <2>2, LooksAreRight, JoinIsRight DEF FreshFrame, Fresh
  <2>. QED
    BY <1>4, <2>1, <2>2, <2>3 DEF FreshFrame, Fresh
<1>6. CASE Finished(t, Failed)
  BY <1>1, <1>2, <1>6, FinishedIsSound
<1>7. CASE stack' = WithTop(t, probed) /\ UNCHANGED report
  <2>. DEFINE s == Append(Front(stack[t]), probed)
  <2>1. s # << >> /\ FreshFrames(s, disk, events)
    <3>. HIDE DEF probed
    <3>. QED
      BY <1>4, <1>5, FramesAreStacked
  <2>2. stack' = Put(stack, t, s)
    BY <1>7 DEF WithTop
  <2>. HIDE DEF s
  <2>. QED
    BY <1>1, <1>2, <1>7, <2>1, <2>2, PushedIsSound
<1>. QED
  BY <1>6, <1>7 DEF ResolveNext

LEMMA IncludeIsSound ==
  ASSUME Caches(disk, events), Loaders(disk, events), NEW t, Include(t), UNCHANGED events
  PROVE  Caches(disk, events)' /\ Loaders(disk, events)'
<1>1. UNCHANGED << disk, closures >> /\ Top(t).class # NoPath
  BY DEF Include
<1>2. stack[t] # << >> /\ FreshFrames(stack[t], disk, events)
  BY DEF Include, Loaders
<1>3. FreshFrame(Top(t), disk, events) /\ FreshFrames(Front(stack[t]), disk, events)
  BY <1>2, FramesAreStacked DEF Top
<1>4. CASE /\ Top(t).class \in DOMAIN closures
           /\ stack' = WithTop(t, Merge(Top(t), closures[Top(t).class]))
           /\ UNCHANGED << files, report >>
  <2>. DEFINE f == Merge(Top(t), closures[Top(t).class])
              s == Append(Front(stack[t]), f)
  <2>1. FreshFrame(f, disk, events)
    BY <1>3, <1>4, MergedIsFresh DEF Caches
  <2>2. s # << >> /\ FreshFrames(s, disk, events)
    BY <1>3, <2>1, FramesAreStacked
  <2>3. stack' = Put(stack, t, s)
    BY <1>4 DEF WithTop
  <2>4. Caches(disk, events)'
    BY <1>1, <1>4 DEF Caches
  <2>. HIDE DEF s
  <2>. QED
    BY <1>1, <1>4, <2>2, <2>3, <2>4, PushedIsSound
<1>5. CASE Enter(t, stack[t], Top(t).class)
  <2>1. Source(Top(t).class)
    BY <1>1, <1>3 DEF FreshFrame
  <2>. QED
    BY <1>1, <1>2, <1>5, <2>1, EnterIsSound
<1>. QED
  BY <1>4, <1>5 DEF Include

LEMMA FinishIsSound ==
  ASSUME Caches(disk, events), Loaders(disk, events), NEW t, Finish(t), UNCHANGED events
  PROVE  Caches(disk, events)' /\ Loaders(disk, events)'
<1>. DEFINE c == Result(Top(t))
            below == Front(stack[t])
<1>1. UNCHANGED << disk, files >>
  BY DEF Finish
<1>2. stack[t] # << >> /\ FreshFrames(stack[t], disk, events)
  BY DEF Finish, Loaders
<1>3. FreshFrame(Top(t), disk, events) /\ FreshFrames(below, disk, events)
  BY <1>2, FramesAreStacked DEF Top
<1>4. Fresh(c, disk, events)
  BY <1>3 DEF Result, FreshFrame, Fresh
<1>5. CASE /\ Finished(t, IF Evaluates(c.files) THEN c ELSE Failed)
           /\ UNCHANGED closures
  <2>1. Caches(disk, events)'
    BY <1>1, <1>5 DEF Caches
  <2>2. Loaders(disk, events)'
    <3>. HIDE DEF c
    <3>. QED
      BY <1>1, <1>4, <1>5, FinishedIsSound
  <2>. QED
    BY <2>1, <2>2
<1>6. CASE /\ below # << >>
           /\ closures' = Put(closures, Top(t).file, c)
           /\ stack' = Put(stack, t, Append(Front(below), Merge(Last(below), c)))
           /\ UNCHANGED report
  <2>. DEFINE s == Append(Front(below), Merge(Last(below), c))
  <2>. HIDE DEF c, below
  <2>1. s # << >> /\ FreshFrames(s, disk, events)
    <3>1. FreshFrame(Last(below), disk, events) /\ FreshFrames(Front(below), disk, events)
      BY <1>3, <1>6, FramesAreStacked
    <3>2. FreshFrame(Merge(Last(below), c), disk, events)
      BY <1>4, <3>1, MergedIsFresh
    <3>. QED
      BY <3>1, <3>2, FramesAreStacked
  <2>2. Loaders(disk, events)'
    <3>. HIDE DEF s
    <3>1. stack' = Put(stack, t, s)
      BY <1>6 DEF s
    <3>. QED
      BY <1>1, <1>6, <2>1, <3>1, PushedIsSound
  <2>3. ASSUME NEW q \in DOMAIN closures'
        PROVE  \/ closures'[q] = c
               \/ q \in DOMAIN closures /\ closures'[q] = closures[q]
    <3>1. closures' = Put(closures, Top(t).file, c)
      BY <1>6
    <3>. QED
      BY <3>1, PutIs
  <2>4. Caches(disk, events)'
    BY <1>1, <1>4, <2>3 DEF Caches
  <2>. QED
    BY <2>2, <2>4
<1>. QED
  BY <1>5, <1>6 DEF Finish

LEMMA RenderIsSound ==
  ASSUME Sound, ~lost, Render
  PROVE  Caches(disk, events)' /\ Loaders(disk, events)' /\ Answers(disk, events)'
<1>1. UNCHANGED << events, phase, batch, affected, targets >>
  BY DEF Render, passVars, inner
<1>2. CASE \E spec \in queue : Start(spec)
  <2>1. Caches(disk, events)' /\ Loaders(disk, events)'
    BY <1>1, <1>2, StartIsSound DEF Sound
  <2>2. UNCHANGED disk
    BY <1>2 DEF Start
  <2>. QED
    BY <1>1, <2>1, <2>2 DEF Sound, Answers
<1>3. CASE \E t \in DOMAIN stack : Step(t)
  <2>1. Caches(disk, events)' /\ Loaders(disk, events)'
    BY <1>1, <1>3, ResolveNextIsSound, IncludeIsSound, FinishIsSound DEF Sound, Step
  <2>2. UNCHANGED disk
    BY <1>3 DEF Step, ResolveNext, Include, Finish
  <2>. QED
    BY <1>1, <2>1, <2>2 DEF Sound, Answers
<1>. QED
  BY <1>2, <1>3 DEF Render, RenderStep

-----------------------------------------------------------------------------
(* The invariant.                                                          *)

LEMMA InPhaseKept ==
  ASSUME NoSymlinks, InPhase, [Next]_vars
  PROVE  InPhase'
<1>1. CASE Environment
  <2>1. UNCHANGED << world, phase, batch, found, aliases, queue, stack, report >>
    BY <1>1 DEF Environment, Edit, MoveTree, WatchError, passVars, inner, renderVars
  <2>2. DOMAIN disk' = Path
    <3>1. ASSUME NEW p \in DOMAIN Versions[world], Edit(p)
          PROVE  DOMAIN disk' = Path
      BY <3>1 DEF Edit, InPhase
    <3>. QED
      BY <1>1, <3>1, TreesMove DEF Environment, WatchError, InPhase
  <2>. QED
    BY <2>1, <2>2 DEF InPhase
<1>2. CASE StartWatch \/ WatchAliases
  BY <1>2 DEF StartWatch, WatchAliases, InPhase, diskVars, passVars, inner, renderVars
<1>3. CASE TakeBatch
  BY <1>3 DEF TakeBatch, InPhase, inner
<1>4. CASE Discover
  BY <1>4, DiscoveredAreSources DEF Discover, InPhase, diskVars, inner, renderVars
<1>5. CASE Affect
  BY <1>5 DEF Affect, QueueUp, ToRender, InPhase, diskVars, inner
<1>6. CASE InitialPass
  BY <1>6, DiscoveredAreSources DEF InitialPass, QueueUp, InPhase, diskVars, inner
<1>7. CASE Render
  <2>1. UNCHANGED << world, disk, phase, batch, found, aliases >> /\ phase = "render"
    BY <1>7 DEF Render, RenderStep, Start, Step, ResolveNext, Include, Finish, passVars, inner
  <2>2. queue' \subseteq queue
    BY <1>7 DEF Render, RenderStep, Start, Step, ResolveNext, Include, Finish
  <2>. QED
    BY <2>1, <2>2 DEF InPhase
<1>8. CASE Install
  <2>1. Learned = {}
    <3>1. \A g : IsFile(g) => Real[g] = g
      BY DEF IsFile, Existing, NoSymlinks
    <3>. QED
      BY <3>1 DEF Learned
  <2>2. /\ UNCHANGED << world, disk, queue, stack >> /\ queue = {} /\ DOMAIN stack = {}
        /\ aliases' = aliases \cup Learned
    BY <1>8 DEF Install, Rendering, diskVars
  <2>3. phase' = "idle" /\ batch' = {} /\ found' = {} /\ DOMAIN report' = {}
    <3>1. report' = EmptyMap
      BY <1>8 DEF Install
    <3>. QED
      BY <1>8, <3>1 DEF Install, EmptyMap
  <2>. QED
    BY <2>1, <2>2, <2>3 DEF InPhase
<1>9. CASE UNCHANGED vars
  BY <1>9 DEF vars, InPhase
<1>. QED
  BY <1>1, <1>2, <1>3, <1>4, <1>5, <1>6, <1>7, <1>8, <1>9 DEF Next, Pass

LEMMA SoundKept ==
  ASSUME NoSymlinks, Sound, IndexExact, [Next]_vars
  PROVE  Sound'
<1>. SUFFICES ASSUME ~lost'
              PROVE  Caches(disk, events)' /\ Loaders(disk, events)' /\ Answers(disk, events)'
  BY InPhaseKept DEF Sound
<1>1. CASE Environment
  <2>1. ~lost /\ UNCHANGED << phase, batch, affected, targets, files, closures, stack, report >>
    BY <1>1 DEF Environment, Edit, MoveTree, WatchError, Notice, passVars, inner, renderVars
  <2>. QED
    BY <1>1, <2>1, EnvironmentCarries, SoundCarries DEF Sound
<1>2. CASE StartWatch \/ WatchAliases \/ Discover \/ UNCHANGED vars
  <2>1. /\ UNCHANGED << disk, events, lost, batch, affected, targets, files, closures, stack,
                        report >>
        /\ phase' = phase \/ phase' # "render"
    BY <1>2 DEF StartWatch, WatchAliases, Discover, diskVars, passVars, inner, renderVars, vars
  <2>. QED
    BY <2>1 DEF Sound, Caches, Loaders, Rendered, Answers
<1>3. CASE TakeBatch
  BY <1>3, TakeBatchIsSound DEF TakeBatch
<1>4. CASE Affect
  BY <1>4, AffectIsSound DEF Affect, diskVars
<1>5. CASE InitialPass
  BY <1>5, InitialPassIsSound DEF InitialPass, diskVars
<1>6. CASE Render
  BY <1>6, RenderIsSound DEF Render
<1>7. CASE Install
  BY <1>7, InstallIsSound DEF Install, diskVars
<1>. QED
  BY <1>1, <1>2, <1>3, <1>4, <1>5, <1>6, <1>7 DEF Next, Pass

LEMMA SoundAtFirst ==
  ASSUME Init
  PROVE  Sound
<1>1. /\ DOMAIN files = {} /\ DOMAIN closures = {} /\ DOMAIN stack = {}
      /\ DOMAIN report = {} /\ DOMAIN targets = {}
  BY DEF Init, EmptyMap
<1>2. InPhase
  BY <1>1, DaemonAssumption DEF Init, InPhase
<1>. QED
  BY <1>1, <1>2 DEF Sound, Caches, Loaders, Rendered, Answers, ReadRight, Init

(* Of an inventory without symlinks the daemon holds nothing that is out   *)
(* of date but for a change still queued or in the batch: every cached     *)
(* document and closure, however renders and edits interleaved while it    *)
(* was read, and every stored render.                                      *)
THEOREM NothingStaysStale == NoSymlinks => (Spec => []StaleOnlyIfPending)
<1>. SUFFICES ASSUME NoSymlinks PROVE Spec => []StaleOnlyIfPending
  OBVIOUS
<1>1. Init => Sound
  BY SoundAtFirst
<1>2. Sound /\ IndexExact /\ [Next]_vars => Sound'
  BY SoundKept
<1>3. Sound => StaleOnlyIfPending
  <2>1. \A d, changes, p : Touched(changes, p) => \E e \in changes : Reaches(e, p)
    BY DEF Touched
  <2>. QED
    BY <2>1 DEF Sound, StaleOnlyIfPending, Current, Caches, Answers, Fresh, ReadRight,
                ProbedRight
<1>4. Spec => [](IndexExact /\ AnswersCoverSpecs)
  BY BookkeepingInvariant
<1>. QED
  BY <1>1, <1>2, <1>3, <1>4, PTL DEF Spec

-----------------------------------------------------------------------------
(* The reference is well defined: FreshTrees, a recursive function over sets *)
(* of files, unfolds, since a chain of files only grows.                   *)

(* How many files a chain has not reached; the chains of which that is less *)
(* than n; what it is to be the trees of the chains in S.                  *)
Unseen(seen) == Cardinality(Path \ seen)
Long(n) == {seen \in SUBSET Path : Unseen(seen) < n}

IsTrees(d, f, S) == f = [seen \in S |-> [p \in Path |-> Tree(d, f, seen, p)]]

LEMMA UnseenIsNat ==
  ASSUME NEW seen \in SUBSET Path
  PROVE  Unseen(seen) \in Nat
<1>1. IsFiniteSet(Path \ seen)
  BY PathAssumption, FS_Difference
<1>. QED
  BY <1>1, FS_CardinalityType DEF Unseen

LEMMA UnseenShrinks ==
  ASSUME NEW seen \in SUBSET Path, NEW q \in Path \ seen
  PROVE  /\ seen \cup {q} \in SUBSET Path
         /\ Unseen(seen \cup {q}) \in Nat /\ Unseen(seen \cup {q}) < Unseen(seen)
<1>1. IsFiniteSet(Path \ seen)
  BY PathAssumption, FS_Difference
<1>2. Path \ (seen \cup {q}) = (Path \ seen) \ {q}
  OBVIOUS
<1>3. Cardinality((Path \ seen) \ {q}) = Cardinality(Path \ seen) - 1
  BY <1>1, FS_RemoveElement
<1>4. Cardinality(Path \ seen) \in Nat /\ Cardinality(Path \ (seen \cup {q})) \in Nat
  BY UnseenIsNat DEF Unseen
<1>5. Cardinality(Path \ (seen \cup {q})) = Cardinality(Path \ seen) - 1
  BY <1>2, <1>3
<1>6. Cardinality(Path \ (seen \cup {q})) < Cardinality(Path \ seen)
  BY <1>4, <1>5
<1>. QED
  BY <1>4, <1>6 DEF Unseen

LEMMA EntryInPath ==
  ASSUME NEW d, NEW p, NEW i
  PROVE  Entry(d, p, i).found = NoPath \/ Entry(d, p, i).found \in Path
BY FoundIsSource DEF Entry, Source

(* Trees of the longer chains give those of chains that are one shorter,   *)
LEMMA TreesGrow ==
  ASSUME NEW d, NEW n \in Nat, NEW f, IsTrees(d, f, Long(n))
  PROVE  \E g : IsTrees(d, g, Long(n + 1))
<1>. DEFINE g == [seen \in Long(n + 1) |-> [p \in Path |-> Tree(d, f, seen, p)]]
<1>1. ASSUME NEW seen \in Long(n + 1), NEW p \in Path
      PROVE  Tree(d, g, seen, p) = Tree(d, f, seen, p)
  <2>1. ASSUME NEW q, q = NoPath \/ q \in Path
        PROVE  Subtree(g, seen, q) = Subtree(f, seen, q)
    <3>1. CASE q = NoPath \/ q \in seen
      BY <3>1 DEF Subtree
    <3>2. CASE q # NoPath /\ q \notin seen
      <4>1. seen \cup {q} \in Long(n) /\ seen \cup {q} \in Long(n + 1)
        BY <2>1, <3>2, UnseenShrinks, UnseenIsNat DEF Long
      <4>2. f[seen \cup {q}] = [x \in Path |-> Tree(d, f, seen \cup {q}, x)]
        BY <4>1 DEF IsTrees
      <4>3. g[seen \cup {q}] = f[seen \cup {q}]
        BY <4>1, <4>2
      <4>. HIDE DEF g
      <4>. QED
        BY <3>2, <4>3 DEF Subtree
    <3>. QED
      BY <3>1, <3>2
  <2>. HIDE DEF g
  <2>2. ASSUME NEW i
        PROVE  Subtree(g, seen, Entry(d, p, i).found) = Subtree(f, seen, Entry(d, p, i).found)
    BY <2>1, EntryInPath
  <2>3. [i \in DOMAIN Classes(d, p) |-> Subtree(g, seen, Entry(d, p, i).found)]
          = [i \in DOMAIN Classes(d, p) |-> Subtree(f, seen, Entry(d, p, i).found)]
    BY <2>2
  <2>. QED
    BY <2>3 DEF Tree
<1>2. IsTrees(d, g, Long(n + 1))
  BY <1>1, Zenon DEF IsTrees
<1>. QED
  BY <1>2

(* and so of all.                                                          *)
LEMMA TreesExist ==
  ASSUME NEW d
  PROVE  \E f : IsTrees(d, f, SUBSET Path)
<1>. DEFINE Has(n) == \E f : IsTrees(d, f, Long(n))
            Not == {n \in Nat : ~Has(n)}
<1>1. Not = {}
  <2>1. SUFFICES ASSUME Not # {} PROVE FALSE
    OBVIOUS
  <2>2. PICK k \in Not : \A j \in Not : k <= j
    <3>. HIDE DEF Has
    <3>. QED
      BY <2>1, SmallestOf
  <2>3. CASE k = 0
    <3>1. Long(0) = {}
      BY UnseenIsNat DEF Long
    <3>2. IsTrees(d, [seen \in {} |-> seen], Long(0))
      BY <3>1 DEF IsTrees
    <3>. QED
      BY <2>2, <2>3, <3>2
  <2>4. CASE k # 0
    <3>1. k - 1 \in Nat /\ k - 1 \notin Not /\ (k - 1) + 1 = k
      <4>. HIDE DEF Has
      <4>. QED
        BY <2>2, <2>4
    <3>2. Has(k - 1)
      BY <3>1
    <3>3. Has(k)
      BY <3>1, <3>2, TreesGrow
    <3>. QED
      BY <2>2, <3>3
  <2>. QED
    BY <2>3, <2>4
<1>2. Unseen({}) + 1 \in Nat
  BY UnseenIsNat
<1>3. Long(Unseen({}) + 1) = SUBSET Path
  <2>1. ASSUME NEW seen \in SUBSET Path PROVE Unseen(seen) < Unseen({}) + 1
    <3>1. Path \ seen \subseteq Path /\ Path \ {} = Path
      OBVIOUS
    <3>2. Cardinality(Path \ seen) <= Cardinality(Path)
      BY <3>1, FS_Subset, PathAssumption
    <3>3. Cardinality(Path \ seen) \in Nat /\ Cardinality(Path) \in Nat
      BY <3>1, UnseenIsNat DEF Unseen
    <3>. QED
      BY <3>1, <3>2, <3>3 DEF Unseen
  <2>. QED
    BY <2>1 DEF Long
<1>4. Has(Unseen({}) + 1)
  <2>. HIDE DEF Has
  <2>. QED
    BY <1>1, <1>2
<1>. QED
  BY <1>3, <1>4

(* FreshTrees satisfies the equation that defines it.                      *)
LEMMA TreesUnfold ==
  ASSUME NEW d, NEW seen \in SUBSET Path, NEW p \in Path
  PROVE  FreshTrees(d)[seen][p] = Tree(d, FreshTrees(d), seen, p)
<1>1. FreshTrees(d) = CHOOSE f : IsTrees(d, f, SUBSET Path)
  BY DEF FreshTrees, IsTrees
<1>2. IsTrees(d, FreshTrees(d), SUBSET Path)
  BY <1>1, TreesExist
<1>. QED
  BY <1>2 DEF IsTrees

-----------------------------------------------------------------------------
(* Why a target fails, and why what loads has no cycle, without recursion. *)

(* A class entry of p resolves to q.                                       *)
Includes(d, p, q) ==
    /\ p \in Path /\ q \in Path
    /\ \E i \in DOMAIN Classes(d, p) : Entry(d, p, i).found = q

(* Each of these files is broken or includes another of them. *)
Doomed(d, Z) == \A q \in Z : Broken(d, q) \/ \E r \in Z : Includes(d, q, r)
Doom(d) == UNION {Z \in SUBSET Path : Doomed(d, Z)}

(* The files that lead to q: those in every set that q is in and that has, *)
(* with a file, all files that include it.                                 *)
Upward(d, W) == \A a, b \in Path : Includes(d, a, b) /\ b \in W => a \in W
Leads(d, q) == {x \in Path : \A W \in SUBSET Path : q \in W /\ Upward(d, W) => x \in W}

LEMMA DoomedIsDoom ==
  ASSUME NEW d, NEW Z \in SUBSET Path, Doomed(d, Z)
  PROVE  Z \subseteq Doom(d)
BY DEF Doom

LEMMA DoomIsDoomed ==
  ASSUME NEW d
  PROVE  Doom(d) \in SUBSET Path /\ Doomed(d, Doom(d))
BY DEF Doom, Doomed

LEMMA DoomGrows ==
  ASSUME NEW d, NEW p \in Path, Broken(d, p) \/ \E r \in Doom(d) : Includes(d, p, r)
  PROVE  p \in Doom(d)
<1>. DEFINE Z == Doom(d) \cup {p}
<1>1. Z \in SUBSET Path /\ Doomed(d, Z)
  BY DoomIsDoomed DEF Doomed
<1>. QED
  BY <1>1, DoomedIsDoom

(* What is doomed has no tree.                                             *)
LEMMA DoomFails ==
  ASSUME NEW d, NEW p \in Doom(d), NEW seen \in SUBSET Path
  PROVE  FreshTrees(d)[seen][p] = Failed
<1>. DEFINE Spared(n) == \E s \in SUBSET Path, q \in Doom(d) :
                            Unseen(s) = n /\ FreshTrees(d)[s][q] # Failed
            Some == {n \in Nat : Spared(n)}
<1>1. Some = {}
  <2>1. SUFFICES ASSUME Some # {} PROVE FALSE
    OBVIOUS
  <2>2. PICK k \in Some : \A j \in Some : k <= j
    <3>. HIDE DEF Spared
    <3>. QED
      BY <2>1, SmallestOf
  <2>3. PICK s \in SUBSET Path, q \in Doom(d) : Unseen(s) = k /\ FreshTrees(d)[s][q] # Failed
    BY <2>2
  <2>4. q \in Path /\ Tree(d, FreshTrees(d), s, q) # Failed
    BY <2>3, DoomIsDoomed, TreesUnfold
  <2>5. ~Broken(d, q)
    BY <2>4 DEF Tree
  <2>6. PICK r \in Doom(d) : Includes(d, q, r)
    BY <2>5, DoomIsDoomed DEF Doomed
  <2>7. PICK i \in DOMAIN Classes(d, q) : Entry(d, q, i).found = r
    BY <2>6 DEF Includes
  <2>8. Subtree(FreshTrees(d), s, r) # Failed
    BY <2>4, <2>5, <2>7 DEF Tree
  <2>9. r \in Path /\ r # NoPath
    BY <2>6, PathAssumption DEF Includes
  <2>10. r \notin s /\ FreshTrees(d)[s \cup {r}][r] # Failed
    BY <2>8, <2>9 DEF Subtree
  <2>11. s \cup {r} \in SUBSET Path /\ Unseen(s \cup {r}) \in Nat /\ Unseen(s \cup {r}) < k
    BY <2>3, <2>9, <2>10, UnseenShrinks
  <2>12. Unseen(s \cup {r}) \in Some
    BY <2>10, <2>11
  <2>. HIDE DEF Some
  <2>13. k \in Nat
    BY <2>2 DEF Some
  <2>. QED
    BY <2>2, <2>11, <2>12, <2>13
<1>2. ASSUME FreshTrees(d)[seen][p] # Failed PROVE FALSE
  BY <1>1, <1>2, UnseenIsNat
<1>. QED
  BY <1>2

LEMMA LeadsToItself ==
  ASSUME NEW d, NEW p \in Path
  PROVE  p \in Leads(d, p)
BY DEF Leads

LEMMA LeadsFurther ==
  ASSUME NEW d, NEW q, NEW r \in Leads(d, q), NEW p, Includes(d, p, r)
  PROVE  p \in Leads(d, q)
BY DEF Leads, Upward, Includes

(* On a cycle nothing renders. *)
LEMMA CycleDooms ==
  ASSUME NEW d, NEW p, NEW r, Includes(d, p, r), r \in Leads(d, p)
  PROVE  r \in Doom(d)
<1>. DEFINE Z == Leads(d, p)
            W == {x \in Z : x = p \/ \E y \in Z : Includes(d, x, y)}
<1>1. Z \in SUBSET Path
  BY DEF Leads
<1>2. p \in W
  BY LeadsToItself DEF Includes
<1>3. Upward(d, W)
  BY LeadsFurther DEF Upward
<1>4. Z \subseteq W
  BY <1>1, <1>2, <1>3 DEF Leads
<1>5. Doomed(d, Z)
  BY <1>4 DEF Doomed
<1>. QED
  BY <1>1, <1>5, DoomedIsDoom

-----------------------------------------------------------------------------
(* Disks on which the files of a set read the same. *)

(* The entries of p read and resolve the same on both disks; none of them  *)
(* leads out of D; the files of D are so on both.                          *)
SameEntries(d1, d2, p) ==
    /\ Content(d1, p) = Content(d2, p) /\ Classes(d1, p) = Classes(d2, p)
    /\ \A i \in DOMAIN Classes(d1, p) : Entry(d1, p, i) = Entry(d2, p, i)

Closed(d, p, D) == \A i \in DOMAIN Classes(d, p) : Entry(d, p, i).found \in D \cup {NoPath}

Alike(d1, d2, D) ==
    /\ D \in SUBSET Path
    /\ \A p \in D :
          /\ Opens(d1, p) <=> Opens(d2, p)
          /\ Opens(d1, p) => SameEntries(d1, d2, p) /\ Closed(d1, p, D)

LEMMA AlikeBreaks ==
  ASSUME NEW d1, NEW d2, NEW D, Alike(d1, d2, D), NEW p \in D
  PROVE  Broken(d1, p) <=> Broken(d2, p)
<1>1. Opens(d1, p) <=> Opens(d2, p)
  BY DEF Alike
<1>2. CASE ~Opens(d1, p)
  BY <1>1, <1>2 DEF Broken
<1>3. CASE Opens(d1, p)
  <2>1. SameEntries(d1, d2, p)
    BY <1>3 DEF Alike
  <2>. QED
    BY <1>1, <2>1 DEF Broken, SameEntries
<1>. QED
  BY <1>2, <1>3

(* They have the same trees, doom and lead to each other alike.            *)
LEMMA AlikeTrees ==
  ASSUME NEW d1, NEW d2, NEW D, Alike(d1, d2, D), NEW p \in D, NEW seen \in SUBSET Path
  PROVE  FreshTrees(d1)[seen][p] = FreshTrees(d2)[seen][p]
<1>. DEFINE Differ(n) == \E s \in SUBSET Path, q \in D :
                            Unseen(s) = n /\ FreshTrees(d1)[s][q] # FreshTrees(d2)[s][q]
            Some == {n \in Nat : Differ(n)}
<1>1. Some = {}
  <2>1. SUFFICES ASSUME Some # {} PROVE FALSE
    OBVIOUS
  <2>2. PICK k \in Some : \A j \in Some : k <= j
    <3>. HIDE DEF Differ
    <3>. QED
      BY <2>1, SmallestOf
  <2>3. PICK s \in SUBSET Path, q \in D :
             Unseen(s) = k /\ FreshTrees(d1)[s][q] # FreshTrees(d2)[s][q]
    BY <2>2
  <2>4. q \in Path /\ Tree(d1, FreshTrees(d1), s, q) # Tree(d2, FreshTrees(d2), s, q)
    BY <2>3, TreesUnfold DEF Alike
  <2>5. ~Broken(d1, q) /\ ~Broken(d2, q)
    BY <2>3, <2>4, AlikeBreaks DEF Tree
  <2>6. Opens(d1, q) /\ SameEntries(d1, d2, q) /\ Closed(d1, q, D)
    BY <2>3, <2>5 DEF Alike, Broken
  <2>7. ASSUME NEW r \in D \cup {NoPath}
        PROVE  Subtree(FreshTrees(d1), s, r) = Subtree(FreshTrees(d2), s, r)
    <3>1. CASE r = NoPath \/ r \in s
      BY <3>1 DEF Subtree
    <3>2. CASE r # NoPath /\ r \notin s
      <4>1. r \in D /\ r \in Path
        BY <2>7, <3>2 DEF Alike
      <4>2. s \cup {r} \in SUBSET Path /\ Unseen(s \cup {r}) \in Nat /\ Unseen(s \cup {r}) < k
        BY <2>3, <3>2, <4>1, UnseenShrinks
      <4>3. Unseen(s \cup {r}) \notin Some
        <5>. HIDE DEF Some
        <5>1. k \in Nat
          BY <2>2 DEF Some
        <5>. QED
          BY <2>2, <4>2, <5>1
      <4>4. FreshTrees(d1)[s \cup {r}][r] = FreshTrees(d2)[s \cup {r}][r]
        BY <4>1, <4>2, <4>3
      <4>. QED
        BY <3>2, <4>4 DEF Subtree
    <3>. QED
      BY <3>1, <3>2
  <2>8. [i \in DOMAIN Classes(d1, q) |-> Subtree(FreshTrees(d1), s, Entry(d1, q, i).found)]
          = [i \in DOMAIN Classes(d2, q) |-> Subtree(FreshTrees(d2), s, Entry(d2, q, i).found)]
    BY <2>6, <2>7 DEF SameEntries, Closed
  <2>9. Content(d1, q) = Content(d2, q)
    BY <2>6 DEF SameEntries
  <2>. QED
    BY <2>4, <2>5, <2>8, <2>9 DEF Tree
<1>2. ASSUME FreshTrees(d1)[seen][p] # FreshTrees(d2)[seen][p] PROVE FALSE
  BY <1>1, <1>2, UnseenIsNat
<1>. QED
  BY <1>2

LEMMA AlikeIncludes ==
  ASSUME NEW d1, NEW d2, NEW D, Alike(d1, d2, D), NEW p \in D, Opens(d1, p), NEW q
  PROVE  /\ Includes(d1, p, q) <=> Includes(d2, p, q)
         /\ Includes(d1, p, q) => q \in D
<1>1. SameEntries(d1, d2, p) /\ Closed(d1, p, D)
  BY DEF Alike
<1>. QED
  BY <1>1, PathAssumption DEF SameEntries, Closed, Includes

LEMMA AlikeDoom ==
  ASSUME NEW d1, NEW d2, NEW D, Alike(d1, d2, D), NEW p \in D, p \in Doom(d1)
  PROVE  p \in Doom(d2)
<1>. DEFINE Z == D \cap Doom(d1)
<1>1. Doomed(d2, Z)
  <2>1. ASSUME NEW q \in Z, ~Broken(d2, q)
        PROVE  \E r \in Z : Includes(d2, q, r)
    <3>1. ~Broken(d1, q) /\ Opens(d1, q)
      BY <2>1, AlikeBreaks DEF Broken
    <3>2. PICK r \in Doom(d1) : Includes(d1, q, r)
      BY <3>1, DoomIsDoomed DEF Doomed
    <3>. QED
      BY <3>1, <3>2, AlikeIncludes
  <2>. QED
    BY <2>1 DEF Doomed
<1>2. Z \in SUBSET Path
  BY DEF Alike
<1>. QED
  BY <1>1, <1>2, DoomedIsDoom

LEMMA AlikeLeads ==
  ASSUME NEW d1, NEW d2, NEW D, Alike(d1, d2, D), \A x \in D : Opens(d1, x),
         NEW p \in D, NEW q \in D, p \in Leads(d1, q)
  PROVE  p \in Leads(d2, q)
<1>1. ASSUME NEW W \in SUBSET Path, q \in W, Upward(d2, W)
      PROVE  p \in W
  <2>. DEFINE V == W \cup (Path \ D)
  <2>1. ASSUME NEW a \in Path, NEW b \in Path, Includes(d1, a, b), b \in V
        PROVE  a \in V
    BY <1>1, <2>1, AlikeIncludes DEF Upward
  <2>2. Upward(d1, V)
    BY <2>1 DEF Upward
  <2>3. p \in V
    BY <1>1, <2>2 DEF Leads
  <2>. QED
    BY <2>3
<1>. QED
  BY <1>1 DEF Leads, Alike

-----------------------------------------------------------------------------
(* What a class name resolves to depends on the paths tried for it.        *)

LEMMA CandidatesAreSeq ==
  ASSUME NEW name, NEW from
  PROVE  \E S : Candidates(name, from) \in Seq(S)
<1>. DEFINE base == BaseDir(name, from)
            full == Joined(base, name)
            compat == Joined(base, SubSeq(name, 3, Len(name)))
            With(ext) == << File(Append(full, "init"), ext), File(full, ext),
                            File(compat, ext), File(Append(compat, "init"), ext) >>
            S == {File(Append(full, "init"), "yml"), File(full, "yml"),
                  File(compat, "yml"), File(Append(compat, "init"), "yml"),
                  File(Append(full, "init"), "yaml"), File(full, "yaml"),
                  File(compat, "yaml"), File(Append(compat, "init"), "yaml")}
<1>1. Candidates(name, from) = With("yml") \o With("yaml")
  BY DEF Candidates
<1>2. With("yml") \in Seq(S) /\ With("yaml") \in Seq(S)
  <2>. HIDE DEF full, compat
  <2>. QED
    OBVIOUS
<1>. HIDE DEF With, S
<1>. QED
  BY <1>1, <1>2

LEMMA FirstHitIs ==
  ASSUME NEW name, NEW from, NEW S
  PROVE  LET tried == Candidates(name, from)
             first == FirstHit(tried, S)
         IN  \/ first = 0 /\ \A i \in DOMAIN tried : tried[i] \notin S
             \/ /\ first \in DOMAIN tried /\ first \in Nat /\ first # 0 /\ tried[first] \in S
                /\ \A i \in DOMAIN tried : tried[i] \in S => first <= i
<1>. DEFINE tried == Candidates(name, from)
            Hits == {i \in DOMAIN tried : tried[i] \in S}
<1>1. DOMAIN tried \subseteq Nat \ {0}
  BY CandidatesAreSeq
<1>2. CASE Hits = {}
  BY <1>2 DEF FirstHit
<1>3. CASE Hits # {}
  <2>1. \E i \in Hits : \A j \in Hits : i <= j
    <3>1. Hits \subseteq Nat
      BY <1>1
    <3>. HIDE DEF Hits
    <3>. QED
      BY <3>1, <1>3, SmallestOf
  <2>2. FirstHit(tried, S) = CHOOSE i \in Hits : \A j \in Hits : i <= j
    BY <1>3 DEF FirstHit
  <2>3. FirstHit(tried, S) \in Hits /\ \A j \in Hits : FirstHit(tried, S) <= j
    <3>. HIDE DEF Hits
    <3>. QED
      BY <2>1, <2>2
  <2>. QED
    BY <1>1, <2>3
<1>. QED
  BY <1>2, <1>3

LEMMA ResolveIs ==
  ASSUME NEW name, NEW from, NEW S
  PROVE  LET tried == Candidates(name, from)
             first == FirstHit(tried, S)
             r     == Resolve(name, from, S)
         IN  /\ first = 0 => r.found = NoPath /\ r.tried = ToSet(tried)
             /\ first # 0 => r.found = tried[first] /\ r.tried = ToSet(SubSeq(tried, 1, first))
             /\ r = [found |-> r.found, tried |-> r.tried]
BY DEF Resolve

LEMMA TriedBefore ==
  ASSUME NEW name, NEW from, NEW n \in DOMAIN Candidates(name, from)
  PROVE  ToSet(SubSeq(Candidates(name, from), 1, n))
           = {Candidates(name, from)[i] : i \in 1 .. n}
<1>. DEFINE s == Candidates(name, from)
<1>1. PICK S : s \in Seq(S)
  BY CandidatesAreSeq
<1>. HIDE DEF s
<1>2. n \in 1 .. Len(s) /\ Len(s) \in Nat
  BY <1>1 DEF s
<1>3. DOMAIN SubSeq(s, 1, n) = 1 .. n /\ \A i \in 1 .. n : SubSeq(s, 1, n)[i] = s[i]
  BY <1>1, <1>2
<1>. QED
  BY <1>3 DEF ToSet, s

(* What a name resolves to depends on the paths tried for it only.         *)
LEMMA ResolveDepends ==
  ASSUME NEW name, NEW from, NEW S1, NEW S2,
         \A x \in Resolve(name, from, S1).tried : x \in S1 <=> x \in S2
  PROVE  Resolve(name, from, S1) = Resolve(name, from, S2)
<1>. DEFINE s == Candidates(name, from)
            n == FirstHit(s, S1)
<1>1. DOMAIN s \subseteq Nat \ {0} /\ \A i \in DOMAIN s : 1 .. i \subseteq DOMAIN s
  <2>1. PICK S : s \in Seq(S)
    BY CandidatesAreSeq
  <2>. HIDE DEF s
  <2>. QED
    BY <2>1
<1>2. CASE n = 0
  <2>1. \A i \in DOMAIN s : s[i] \in Resolve(name, from, S1).tried
    BY <1>2, ResolveIs DEF ToSet
  <2>2. \A i \in DOMAIN s : s[i] \notin S1
    BY <1>1, <1>2, FirstHitIs
  <2>3. \A i \in DOMAIN s : s[i] \notin S2
    BY <2>1, <2>2
  <2>4. FirstHit(s, S2) = 0
    BY <2>3 DEF FirstHit
  <2>. QED
    BY <1>2, <2>4 DEF Resolve
<1>3. CASE n # 0
  <2>1. /\ n \in DOMAIN s /\ n \in Nat /\ s[n] \in S1
        /\ \A i \in DOMAIN s : s[i] \in S1 => n <= i
    BY <1>3, FirstHitIs
  <2>2. \A i \in 1 .. n : s[i] \in Resolve(name, from, S1).tried
    <3>1. Resolve(name, from, S1).tried = {s[i] : i \in 1 .. n}
      BY <1>3, <2>1, ResolveIs, TriedBefore
    <3>. QED
      BY <3>1
  <2>. DEFINE m == FirstHit(s, S2)
  <2>. HIDE DEF s, n, m
  <2>3. n \in 1 .. n
    BY <1>1, <2>1
  <2>4. s[n] \in S2
    BY <2>1, <2>2, <2>3
  <2>5. /\ m \in DOMAIN s /\ m \in Nat /\ s[m] \in S2 /\ m # 0
        /\ \A i \in DOMAIN s : s[i] \in S2 => m <= i
    BY <2>1, <2>4, FirstHitIs DEF s, m
  <2>6. m <= n
    BY <2>1, <2>4, <2>5
  <2>7. s[m] \in S1
    BY <2>1, <2>2, <2>5, <2>6
  <2>8. n = m
    BY <2>1, <2>5, <2>6, <2>7
  <2>. QED
    BY <2>8 DEF Resolve, s, n, m
<1>. QED
  BY <1>2, <1>3

LEMMA TriedAreYaml ==
  ASSUME NEW name, NEW from, NEW S, NEW x \in Resolve(name, from, S).tried
  PROVE  IsYaml(x)
<1>. DEFINE s == Candidates(name, from)
            n == FirstHit(s, S)
<1>1. CASE n = 0
  BY <1>1, ResolveIs, CandidatesAreYaml DEF ToSet
<1>2. CASE n # 0
  <2>1. n \in DOMAIN s /\ n \in Nat
    BY <1>2, FirstHitIs
  <2>2. 1 .. n \subseteq DOMAIN s
    <3>1. PICK X : s \in Seq(X)
      BY CandidatesAreSeq
    <3>. HIDE DEF s, n
    <3>. QED
      BY <2>1, <3>1
  <2>3. Resolve(name, from, S).tried = {s[i] : i \in 1 .. n}
    BY <1>2, <2>1, ResolveIs, TriedBefore
  <2>. QED
    BY <2>2, <2>3, CandidatesAreYaml
<1>. QED
  BY <1>1, <1>2

-----------------------------------------------------------------------------
(* What was explored of a disk reads the same on every disk that differs   *)
(* elsewhere only.                                                         *)

(* A file that opens, with its patterns, its i-th entry and all its entries *)
(* followed by whoever probed the paths P and read the files D; disks that *)
(* look the same at P.                                                     *)
Visited(d, q, P) ==
    Opens(d, q) /\ (HasPatterns(Content(d, q).classes) => ClassesDir \in P)

Followed(d, q, i, D, P) ==
    /\ Entry(d, q, i).tried \subseteq P
    /\ \/ Entry(d, q, i).found \in D
       \/ Entry(d, q, i).found = NoPath /\ IgnoreClassNotFound

Explored(d, q, D, P) ==
    Visited(d, q, P) /\ \A i \in DOMAIN Classes(d, q) : Followed(d, q, i, D, P)

SameSeen(d1, d2, P) == \A x \in P : Look(d1, x) = Look(d2, x)

LEMMA SameAvailable ==
  ASSUME NEW d1, NEW d2, Look(d1, ClassesDir) = Look(d2, ClassesDir)
  PROVE  Available(Existing(d1)) = Available(Existing(d2))
BY DEF Look, Available, ClassFiles

LEMMA SameVisited ==
  ASSUME NEW d1, NEW d2, NEW q, NEW P, Visited(d1, q, P), SameSeen(d1, d2, P),
         Content(d1, q) = Content(d2, q)
  PROVE  Opens(d2, q) /\ Visited(d2, q, P) /\ Classes(d1, q) = Classes(d2, q)
<1>. DEFINE refs == Content(d1, q).classes
<1>1. CASE ~HasPatterns(refs)
  BY <1>1 DEF Visited, Opens, PatternsFail, Classes, ExpandPatterns
<1>2. CASE HasPatterns(refs)
  <2>1. Available(Existing(d1)) = Available(Existing(d2))
    BY <1>2, SameAvailable DEF Visited, SameSeen
  <2>. QED
    BY <2>1 DEF Visited, Opens, PatternsFail, Classes, ExpandPatterns
<1>. QED
  BY <1>1, <1>2

LEMMA SameFollowed ==
  ASSUME NEW d1, NEW d2, NEW q, NEW i, NEW P, SameSeen(d1, d2, P),
         Classes(d1, q) = Classes(d2, q), Entry(d1, q, i).tried \subseteq P
  PROVE  Entry(d1, q, i) = Entry(d2, q, i)
<1>1. ASSUME NEW x \in Entry(d1, q, i).tried
      PROVE  x \in Existing(d1) <=> x \in Existing(d2)
  <2>1. IsYaml(x) /\ Under(x, x)
    BY TriedAreYaml DEF Entry, Under, Above
  <2>2. Look(d1, x) = Look(d2, x)
    BY DEF SameSeen
  <2>. QED
    BY <2>1, <2>2 DEF Look
<1>. QED
  BY <1>1, ResolveDepends DEF Entry

LEMMA ExploredIsAlike ==
  ASSUME NEW d1, NEW d2, NEW D \in SUBSET Path, NEW P, SameSeen(d1, d2, P),
         \A q \in D : Content(d1, q) = Content(d2, q) /\ Explored(d1, q, D, P)
  PROVE  /\ Alike(d1, d2, D)
         /\ \A q \in D : Explored(d2, q, D, P)
<1>1. ASSUME NEW q \in D
      PROVE  /\ Opens(d1, q) /\ Opens(d2, q) /\ Explored(d2, q, D, P)
             /\ SameEntries(d1, d2, q) /\ Closed(d1, q, D)
  <2>1. Opens(d1, q) /\ Opens(d2, q) /\ Visited(d2, q, P) /\ Classes(d1, q) = Classes(d2, q)
    BY SameVisited DEF Explored, Visited
  <2>2. \A i \in DOMAIN Classes(d1, q) : Entry(d1, q, i) = Entry(d2, q, i)
    BY <2>1, SameFollowed DEF Explored, Followed
  <2>. QED
    BY <2>1, <2>2 DEF Explored, Followed, SameEntries, Closed
<1>. QED
  BY <1>1 DEF Alike

(* Files that are no YAML files have no part in it.                        *)
LEMMA OthersAreAlike ==
  ASSUME NEW d1, NEW d2, \A q : Source(q) => Content(d1, q) = Content(d2, q),
         \A x : Look(d1, x) = Look(d2, x)
  PROVE  Alike(d1, d2, {q \in Path : IsYaml(q)})
<1>. DEFINE D == {q \in Path : IsYaml(q)}
<1>1. Available(Existing(d1)) = Available(Existing(d2))
  BY SameAvailable
<1>2. ASSUME NEW q \in D
      PROVE  (Opens(d1, q) <=> Opens(d2, q)) /\ SameEntries(d1, d2, q) /\ Closed(d1, q, D)
  <2>1. Content(d1, q) = Content(d2, q)
    BY DEF Source
  <2>2. Classes(d1, q) = Classes(d2, q) /\ (Opens(d1, q) <=> Opens(d2, q))
    BY <1>1, <2>1 DEF Classes, ExpandPatterns, Opens, PatternsFail
  <2>3. \A i : Entry(d1, q, i) = Entry(d2, q, i)
    <3>1. ASSUME NEW i PROVE SameSeen(d1, d2, Entry(d1, q, i).tried)
      BY DEF SameSeen
    <3>. QED
      BY <2>2, <3>1, SameFollowed
  <2>4. \A i : Entry(d1, q, i).found \in D \cup {NoPath}
    BY FoundIsSource DEF Entry, Source
  <2>. QED
    BY <2>1, <2>2, <2>3, <2>4 DEF SameEntries, Closed
<1>. QED
  BY <1>2 DEF Alike

-----------------------------------------------------------------------------
(* Closures that are right.                                                *)

LEMMA SameExplored ==
  ASSUME NEW d1, NEW d2, NEW q, NEW D, NEW P, SameSeen(d1, d2, P),
         Content(d1, q) = Content(d2, q), Explored(d1, q, D, P)
  PROVE  /\ Opens(d1, q) /\ Opens(d2, q) /\ Explored(d2, q, D, P)
         /\ SameEntries(d1, d2, q) /\ Closed(d1, q, D)
<1>1. Opens(d1, q) /\ Opens(d2, q) /\ Visited(d2, q, P) /\ Classes(d1, q) = Classes(d2, q)
  BY SameVisited DEF Explored, Visited
<1>2. \A i \in DOMAIN Classes(d1, q) : Entry(d1, q, i) = Entry(d2, q, i)
  BY <1>1, SameFollowed DEF Explored, Followed
<1>. QED
  BY <1>1, <1>2 DEF Explored, Followed, SameEntries, Closed

LEMMA MoreIsExplored ==
  ASSUME NEW d, NEW q, NEW D1, NEW D2, D1 \subseteq D2, NEW P1, NEW P2, P1 \subseteq P2
  PROVE  /\ Visited(d, q, P1) => Visited(d, q, P2)
         /\ \A i : Followed(d, q, i, D1, P1) => Followed(d, q, i, D2, P2)
         /\ Explored(d, q, D1, P1) => Explored(d, q, D2, P2)
<1>1. Visited(d, q, P1) => Visited(d, q, P2)
  BY DEF Visited
<1>2. \A i : Followed(d, q, i, D1, P1) => Followed(d, q, i, D2, P2)
  BY DEF Followed
<1>. QED
  BY <1>1, <1>2 DEF Explored

(* A closure of p that read what is on the disk has the tree of p, or      *)
(* there is none.                                                          *)
Reads(f, d) == \A q \in DOMAIN f : Source(q) /\ f[q] = Content(d, q)

Right(c, p, d) ==
    /\ p \in DOMAIN c.files /\ Reads(c.files, d)
    /\ \A q \in DOMAIN c.files : Explored(d, q, DOMAIN c.files, DOMAIN c.probes)
    /\ IF Evaluates(c.files)
       THEN /\ \A q \in DOMAIN c.files : p \in Leads(d, q)
            /\ c.tree # Failed
            /\ \A seen \in SUBSET Path :
                  seen \cap DOMAIN c.files \subseteq {p} => FreshTrees(d)[seen][p] = c.tree
       ELSE p \in Doom(d)

(* A closure that is right stays right on a disk that differs only where it *)
(* did not look.                                                           *)
LEMMA RightOnBoth ==
  ASSUME NEW d1, NEW d2, NEW c, NEW p, Right(c, p, d1), SameSeen(d1, d2, DOMAIN c.probes),
         \A q \in DOMAIN c.files : Content(d1, q) = Content(d2, q)
  PROVE  Right(c, p, d2)
<1>. DEFINE D == DOMAIN c.files
            P == DOMAIN c.probes
<1>1. /\ D \in SUBSET Path /\ p \in D
      /\ \A q \in D : Content(d1, q) = Content(d2, q) /\ Explored(d1, q, D, P)
  BY DEF Right, Reads, Source
<1>2. Alike(d1, d2, D) /\ \A q \in D : Explored(d2, q, D, P)
  BY <1>1, ExploredIsAlike
<1>3. \A q \in D : Opens(d1, q)
  BY <1>1 DEF Explored, Visited
<1>4. Reads(c.files, d2)
  BY DEF Right, Reads
<1>5. CASE Evaluates(c.files)
  <2>1. \A q \in D : p \in Leads(d2, q)
    BY <1>1, <1>2, <1>3, <1>5, AlikeLeads DEF Right
  <2>2. \A seen \in SUBSET Path : FreshTrees(d1)[seen][p] = FreshTrees(d2)[seen][p]
    BY <1>1, <1>2, AlikeTrees
  <2>. QED
    BY <1>1, <1>2, <1>4, <1>5, <2>1, <2>2 DEF Right
<1>6. CASE ~Evaluates(c.files)
  <2>1. p \in Doom(d2)
    BY <1>1, <1>2, <1>6, AlikeDoom DEF Right
  <2>. QED
    BY <1>1, <1>2, <1>4, <1>6, <2>1 DEF Right
<1>. QED
  BY <1>5, <1>6

-----------------------------------------------------------------------------
(* Frames: what they merged is right and the rest of their file is ahead.  *)

(* What was merged for the i-th entry is its tree for every chain that has *)
(* met no other file of the frame; the files below; every entry merged so, *)
(* each file below led to by one of them; or one of them is doomed.        *)
MergedRight(f, i, d) ==
    LET q == Entry(d, f.file, i).found IN
    IF q = NoPath THEN f.merged[i] = NoPath
    ELSE /\ q # f.file /\ f.merged[i] # Failed
         /\ \A seen \in SUBSET Path :
               seen \cap DOMAIN f.files \subseteq {f.file, q}
                   => FreshTrees(d)[seen][q] = f.merged[i]

Below(f) == DOMAIN f.files \ {f.file}

MergedAll(f, d) ==
    /\ \A i \in DOMAIN f.merged : MergedRight(f, i, d)
    /\ \A q \in Below(f) :
          /\ \A i \in DOMAIN Classes(d, q) : Entry(d, q, i).found # f.file
          /\ \E i \in DOMAIN f.merged : Entry(d, f.file, i).found \in Below(f) \cap Leads(d, q)

MergedDoom(f, d) ==
    \/ Content(d, f.file).kind = "unresolvable"
    \/ \E i \in DOMAIN f.merged : Entry(d, f.file, i).found \in Doom(d)

(* The frame read what is on the disk and probed all it needed to.         *)
FrameRight(f, d) ==
    /\ f.file \in DOMAIN f.files /\ Reads(f.files, d)
    /\ Visited(d, f.file, DOMAIN f.probes) /\ f.classes = Classes(d, f.file)
    /\ \A q \in Below(f) : Explored(d, q, DOMAIN f.files, DOMAIN f.probes)
    /\ \A i \in DOMAIN f.merged :
          i \in DOMAIN f.classes /\ Followed(d, f.file, i, DOMAIN f.files, DOMAIN f.probes)
    /\ f.class # NoPath =>
          /\ Position(f) \in DOMAIN f.classes
          /\ Entry(d, f.file, Position(f)).found = f.class
          /\ Entry(d, f.file, Position(f)).tried \subseteq DOMAIN f.probes
    /\ IF Evaluates(f.files) THEN MergedAll(f, d) ELSE MergedDoom(f, d)

LEMMA FrameDoomIsDoom ==
  ASSUME NEW f, NEW d, FrameRight(f, d), MergedDoom(f, d)
  PROVE  f.file \in Doom(d)
<1>1. f.file \in Path
  BY DEF FrameRight, Reads, Source
<1>2. CASE Content(d, f.file).kind = "unresolvable"
  BY <1>1, <1>2, DoomGrows DEF Broken
<1>3. CASE \E i \in DOMAIN f.merged : Entry(d, f.file, i).found \in Doom(d)
  <2>1. PICK i \in DOMAIN f.merged : Entry(d, f.file, i).found \in Doom(d)
    BY <1>3
  <2>2. Includes(d, f.file, Entry(d, f.file, i).found)
    BY <1>1, <2>1, DoomIsDoomed DEF FrameRight, Includes
  <2>. QED
    BY <1>1, <2>1, <2>2, DoomGrows
<1>. QED
  BY <1>2, <1>3 DEF MergedDoom

LEMMA FrameDoomOnBoth ==
  ASSUME NEW d1, NEW d2, NEW f, FrameRight(f, d1), MergedDoom(f, d1),
         SameSeen(d1, d2, DOMAIN f.probes),
         \A q \in DOMAIN f.files : Content(d1, q) = Content(d2, q)
  PROVE  MergedDoom(f, d2)
<1>. DEFINE p == f.file
            Z == DOMAIN f.files \cap Doom(d1)
<1>1. p \in Z /\ Z \in SUBSET Path
  BY FrameDoomIsDoom, DoomIsDoomed DEF FrameRight
<1>2. CASE Content(d1, p).kind = "unresolvable"
  BY <1>1, <1>2 DEF MergedDoom
<1>3. CASE \E i \in DOMAIN f.merged : Entry(d1, p, i).found \in Doom(d1)
  <2>1. PICK i \in DOMAIN f.merged : Entry(d1, p, i).found \in Doom(d1)
    BY <1>3
  <2>2. Classes(d1, p) = Classes(d2, p) /\ i \in DOMAIN Classes(d1, p)
    BY <1>1, <2>1, SameVisited DEF FrameRight
  <2>3. Entry(d1, p, i) = Entry(d2, p, i)
    BY <2>1, <2>2, SameFollowed DEF FrameRight, Followed
  <2>. DEFINE r == Entry(d1, p, i).found
  <2>4. r \in Z
    <3>1. r \in Path
      BY <2>1, DoomIsDoomed
    <3>2. r # NoPath
      BY <3>1, PathAssumption
    <3>. QED
      BY <2>1, <3>2 DEF FrameRight, Followed
  <2>5. Includes(d2, p, r)
    BY <1>1, <2>2, <2>3, <2>4 DEF Includes
  <2>6. ASSUME NEW q \in Z, q # p
        PROVE  Broken(d2, q) \/ \E x \in Z : Includes(d2, q, x)
    <3>1. Explored(d1, q, DOMAIN f.files, DOMAIN f.probes)
      BY <2>6 DEF FrameRight, Below
    <3>2. /\ Opens(d1, q) /\ Opens(d2, q) /\ SameEntries(d1, d2, q)
          /\ Closed(d1, q, DOMAIN f.files)
      BY <2>6, <3>1, SameExplored
    <3>3. Broken(d1, q) => Broken(d2, q)
      BY <3>2 DEF Broken, SameEntries
    <3>4. ASSUME NEW x \in Doom(d1), Includes(d1, q, x)
          PROVE  x \in Z /\ Includes(d2, q, x)
      BY <3>2, <3>4, PathAssumption DEF Includes, SameEntries, Closed
    <3>. QED
      BY <3>3, <3>4, DoomIsDoomed DEF Doomed
  <2>7. Doomed(d2, Z)
    BY <2>4, <2>5, <2>6 DEF Doomed
  <2>8. r \in Doom(d2)
    BY <1>1, <2>4, <2>7, DoomedIsDoom
  <2>. QED
    BY <2>3, <2>8 DEF MergedDoom
<1>. QED
  BY <1>2, <1>3 DEF MergedDoom

LEMMA MergedAllOnBoth ==
  ASSUME NEW d1, NEW d2, NEW f, FrameRight(f, d1), MergedAll(f, d1),
         SameSeen(d1, d2, DOMAIN f.probes),
         \A q \in DOMAIN f.files : Content(d1, q) = Content(d2, q)
  PROVE  MergedAll(f, d2)
<1>. DEFINE p == f.file
            D == DOMAIN f.files
            B == Below(f)
<1>1. D \in SUBSET Path /\ B \subseteq D
  BY DEF FrameRight, Reads, Source, Below
<1>2. ASSUME NEW q \in B
      PROVE  /\ Opens(d1, q) /\ Opens(d2, q) /\ SameEntries(d1, d2, q) /\ Closed(d1, q, B)
  <2>1. Explored(d1, q, D, DOMAIN f.probes)
    BY DEF FrameRight
  <2>2. Opens(d1, q) /\ Opens(d2, q) /\ SameEntries(d1, d2, q) /\ Closed(d1, q, D)
    BY <1>1, <2>1, SameExplored
  <2>. QED
    BY <2>2 DEF MergedAll, Closed, Below
<1>3. Alike(d1, d2, B)
  BY <1>1, <1>2 DEF Alike
<1>4. ASSUME NEW i \in DOMAIN f.merged
      PROVE  Entry(d1, p, i) = Entry(d2, p, i) /\ Entry(d1, p, i).found \in D \cup {NoPath}
  <2>1. Classes(d1, p) = Classes(d2, p)
    BY SameVisited DEF FrameRight
  <2>. QED
    BY <2>1, SameFollowed DEF FrameRight, Followed
<1>5. ASSUME NEW i \in DOMAIN f.merged
      PROVE  MergedRight(f, i, d2)
  <2>. DEFINE q == Entry(d1, p, i).found
  <2>1. MergedRight(f, i, d1) /\ q = Entry(d2, p, i).found
    BY <1>4 DEF MergedAll
  <2>2. CASE q = NoPath
    BY <2>1, <2>2 DEF MergedRight
  <2>3. CASE q # NoPath
    <3>1. q \in B
      BY <1>4, <2>1, <2>3 DEF MergedRight, Below
    <3>2. \A seen \in SUBSET Path : FreshTrees(d1)[seen][q] = FreshTrees(d2)[seen][q]
      BY <1>3, <3>1, AlikeTrees
    <3>. HIDE DEF q
    <3>. QED
      BY <2>1, <2>3, <3>2 DEF MergedRight, q
  <2>. QED
    BY <2>2, <2>3
<1>6. ASSUME NEW q \in B
      PROVE  /\ \A i \in DOMAIN Classes(d2, q) : Entry(d2, q, i).found # p
             /\ \E i \in DOMAIN f.merged : Entry(d2, p, i).found \in B \cap Leads(d2, q)
  <2>1. \A i \in DOMAIN Classes(d2, q) : Entry(d2, q, i).found # p
    BY <1>2 DEF MergedAll, SameEntries
  <2>2. PICK i \in DOMAIN f.merged : Entry(d1, p, i).found \in B \cap Leads(d1, q)
    BY DEF MergedAll
  <2>3. Entry(d1, p, i).found \in Leads(d2, q)
    BY <1>2, <1>3, <2>2, AlikeLeads
  <2>. QED
    BY <1>4, <2>1, <2>2, <2>3
<1>. QED
  BY <1>5, <1>6 DEF MergedAll

LEMMA FrameRightOnBoth ==
  ASSUME NEW d1, NEW d2, NEW f, FrameRight(f, d1), SameSeen(d1, d2, DOMAIN f.probes),
         \A q \in DOMAIN f.files : Content(d1, q) = Content(d2, q)
  PROVE  FrameRight(f, d2)
<1>. DEFINE p == f.file
            D == DOMAIN f.files
            P == DOMAIN f.probes
<1>1. p \in D /\ Reads(f.files, d2)
  BY DEF FrameRight, Reads
<1>2. Visited(d2, p, P) /\ Classes(d1, p) = Classes(d2, p) /\ f.classes = Classes(d2, p)
  BY <1>1, SameVisited DEF FrameRight
<1>3. \A q \in Below(f) : Explored(d2, q, D, P)
  BY SameExplored DEF FrameRight, Below
<1>4. \A i \in DOMAIN f.merged : i \in DOMAIN f.classes /\ Followed(d2, p, i, D, P)
  BY <1>2, SameFollowed DEF FrameRight, Followed
<1>5. f.class # NoPath =>
          /\ Position(f) \in DOMAIN f.classes
          /\ Entry(d2, p, Position(f)).found = f.class
          /\ Entry(d2, p, Position(f)).tried \subseteq P
  BY <1>2, SameFollowed DEF FrameRight
<1>6. IF Evaluates(f.files) THEN MergedAll(f, d2) ELSE MergedDoom(f, d2)
  BY MergedAllOnBoth, FrameDoomOnBoth DEF FrameRight
<1>. QED
  BY <1>1, <1>2, <1>3, <1>4, <1>5, <1>6 DEF FrameRight

-----------------------------------------------------------------------------
(* Merging a closure into a frame, and closing the frame.                  *)

(* A loader's frame, whatever it has read.                                 *)
IsFrame(f) ==
    /\ DOMAIN f = FrameFields /\ \E S : f.merged \in Seq(S)
    /\ Source(f.file)

(* m is what f merged, and x. *)
Adds(f, m, x) ==
    /\ \E S : m \in Seq(S)
    /\ DOMAIN m = DOMAIN f.merged \cup {Position(f)}
    /\ Position(f) \notin DOMAIN f.merged
    /\ m[Position(f)] = x
    /\ \A i \in DOMAIN f.merged : m[i] = f.merged[i]

LEMMA PositionIsNext ==
  ASSUME NEW f, IsFrame(f), NEW x
  PROVE  Adds(f, Append(f.merged, x), x)
<1>1. PICK S : f.merged \in Seq(S)
  BY DEF IsFrame
<1>2. Append(f.merged, x) \in Seq(S \cup {x})
  <2>1. f.merged \in Seq(S \cup {x})
    BY <1>1
  <2>. QED
    BY <2>1
<1>3. /\ Len(f.merged) \in Nat /\ DOMAIN f.merged = 1 .. Len(f.merged)
      /\ Len(Append(f.merged, x)) = Len(f.merged) + 1
      /\ DOMAIN Append(f.merged, x) = 1 .. Len(f.merged) + 1
      /\ Append(f.merged, x)[Len(f.merged) + 1] = x
      /\ \A i \in 1 .. Len(f.merged) : Append(f.merged, x)[i] = f.merged[i]
  BY <1>1
<1>. QED
  BY <1>2, <1>3 DEF Position, Adds

LEMMA JoinDomain ==
  ASSUME NEW f, NEW g
  PROVE  DOMAIN Join(f, g) = DOMAIN f \cup DOMAIN g
BY DEF Join

LEMMA JoinReads ==
  ASSUME NEW f, NEW g, NEW d, Reads(f, d), Reads(g, d)
  PROVE  /\ Reads(Join(f, g), d)
         /\ Evaluates(Join(f, g)) <=> Evaluates(f) /\ Evaluates(g)
BY DEF Join, Reads, Evaluates

LEMMA MergeFields ==
  ASSUME NEW f, IsFrame(f), NEW c
  PROVE  LET g == Merge(f, c) IN
         /\ g.file = f.file /\ g.classes = f.classes /\ g.class = NoPath
         /\ g.merged = Append(f.merged, c.tree)
         /\ g.files = Join(f.files, c.files) /\ g.probes = Join(f.probes, c.probes)
         /\ IsFrame(g)
<1>. DEFINE g == Merge(f, c)
<1>1. /\ DOMAIN g = FrameFields
      /\ g.file = f.file /\ g.classes = f.classes /\ g.class = NoPath
      /\ g.merged = Append(f.merged, c.tree)
      /\ g.files = Join(f.files, c.files) /\ g.probes = Join(f.probes, c.probes)
  BY DEF Merge, IsFrame, FrameFields
<1>. HIDE DEF g
<1>2. \E S : g.merged \in Seq(S)
  <2>1. Adds(f, g.merged, c.tree)
    BY <1>1, PositionIsNext
  <2>. QED
    BY <2>1 DEF Adds
<1>3. IsFrame(g)
  BY <1>1, <1>2 DEF IsFrame
<1>. QED
  BY <1>1, <1>3 DEF g

(* A class that leads back to the file that includes it has no closure.    *)
LEMMA ClosureIsApart ==
  ASSUME NEW d, NEW p, NEW q, Includes(d, p, q), NEW c, Right(c, q, d), Evaluates(c.files)
  PROVE  p \notin DOMAIN c.files
<1>. SUFFICES ASSUME p \in DOMAIN c.files PROVE FALSE
  OBVIOUS
<1>1. q \in Doom(d)
  BY CycleDooms DEF Right
<1>2. {q} \in SUBSET Path /\ {q} \cap DOMAIN c.files \subseteq {q}
  BY DEF Includes
<1>. QED
  BY <1>1, <1>2, DoomFails DEF Right

LEMMA PendingIsIncluded ==
  ASSUME NEW d, NEW f, FrameRight(f, d), f.class # NoPath, f.class \in Path
  PROVE  Includes(d, f.file, f.class)
BY DEF FrameRight, Reads, Source, Includes

(* A frame that is right and merges a closure that is right is right,      *)
LEMMA MergedIsRight ==
  ASSUME NEW d, NEW f, IsFrame(f), FrameRight(f, d), f.class # NoPath,
         NEW c, Right(c, f.class, d)
  PROVE  FrameRight(Merge(f, c), d)
<1>. DEFINE g == Merge(f, c)
            p == f.file
            q == f.class
            k == Position(f)
            D == DOMAIN f.files
            E == DOMAIN c.files
            P == DOMAIN f.probes
            Q == DOMAIN c.probes
<1>0. /\ g.file = p /\ g.classes = f.classes /\ g.class = NoPath
      /\ g.merged = Append(f.merged, c.tree)
      /\ g.files = Join(f.files, c.files) /\ g.probes = Join(f.probes, c.probes)
  BY MergeFields
<1>1. /\ g.file = p /\ g.classes = f.classes /\ g.class = NoPath
      /\ DOMAIN g.files = D \cup E /\ DOMAIN g.probes = P \cup Q
      /\ DOMAIN g.merged = DOMAIN f.merged \cup {k} /\ k \notin DOMAIN f.merged
      /\ g.merged[k] = c.tree
      /\ \A i \in DOMAIN f.merged : g.merged[i] = f.merged[i]
  <2>. HIDE DEF g
  <2>1. DOMAIN g.files = D \cup E /\ DOMAIN g.probes = P \cup Q
    BY <1>0, JoinDomain
  <2>2. /\ DOMAIN g.merged = DOMAIN f.merged \cup {k} /\ k \notin DOMAIN f.merged
        /\ g.merged[k] = c.tree
        /\ \A i \in DOMAIN f.merged : g.merged[i] = f.merged[i]
    <3>1. Adds(f, g.merged, c.tree)
      BY <1>0, PositionIsNext
    <3>. QED
      BY <3>1 DEF Adds
  <2>. QED
    BY <1>0, <2>1, <2>2
<1>2. /\ Reads(g.files, d)
      /\ Evaluates(g.files) <=> Evaluates(f.files) /\ Evaluates(c.files)
  <2>1. Reads(f.files, d) /\ Reads(c.files, d)
    BY DEF FrameRight, Right
  <2>. HIDE DEF g
  <2>. QED
    BY <1>0, <2>1, JoinReads
<1>3. /\ q \in E /\ q \in Path /\ p \in D /\ p \in Path /\ Includes(d, p, q)
      /\ k \in DOMAIN f.classes /\ Entry(d, p, k).found = q /\ Entry(d, p, k).tried \subseteq P
  BY PendingIsIncluded DEF Right, Reads, Source, FrameRight
<1>4. Below(g) = Below(f) \cup (E \ {p})
  BY <1>1 DEF Below
<1>5. Visited(d, p, P \cup Q) /\ g.classes = Classes(d, p)
  BY <1>1, MoreIsExplored DEF FrameRight
<1>6. \A x \in Below(g) : Explored(d, x, D \cup E, P \cup Q)
  <2>1. \A x \in Below(f) : Explored(d, x, D \cup E, P \cup Q)
    <3>1. \A x \in Below(f) : Explored(d, x, D, P)
      BY DEF FrameRight
    <3>. QED
      BY <3>1, MoreIsExplored
  <2>2. \A x \in E : Explored(d, x, D \cup E, P \cup Q)
    <3>1. \A x \in E : Explored(d, x, E, Q)
      BY DEF Right
    <3>2. E \subseteq D \cup E /\ Q \subseteq P \cup Q
      OBVIOUS
    <3>. HIDE DEF D, E, P, Q
    <3>. QED
      BY <3>1, <3>2, MoreIsExplored
  <2>. QED
    BY <1>4, <2>1, <2>2
<1>7. ASSUME NEW i \in DOMAIN g.merged
      PROVE  i \in DOMAIN g.classes /\ Followed(d, p, i, D \cup E, P \cup Q)
  <2>1. CASE i \in DOMAIN f.merged
    <3>1. i \in DOMAIN f.classes /\ Followed(d, p, i, D, P)
      BY <2>1 DEF FrameRight
    <3>. QED
      BY <1>1, <3>1, MoreIsExplored
  <2>2. CASE i = k
    BY <1>1, <1>3, <2>2 DEF Followed
  <2>. QED
    BY <1>1, <2>1, <2>2
<1>8. ASSUME Evaluates(g.files)
      PROVE  MergedAll(g, d)
  <2>1. MergedAll(f, d) /\ Evaluates(c.files)
    BY <1>2, <1>8 DEF FrameRight
  <2>2. p \notin E
    BY <1>3, <2>1, ClosureIsApart
  <2>3. ASSUME NEW i \in DOMAIN f.merged
        PROVE  MergedRight(g, i, d)
    <3>1. MergedRight(f, i, d) /\ g.merged[i] = f.merged[i]
      BY <1>1, <2>1 DEF MergedAll
    <3>2. \A seen, r : seen \cap DOMAIN g.files \subseteq {p, r}
                          => seen \cap D \subseteq {p, r}
      BY <1>1
    <3>. QED
      BY <1>1, <3>1, <3>2 DEF MergedRight
  <2>4. MergedRight(g, k, d)
    <3>1. q # p /\ q # NoPath /\ c.tree # Failed
      BY <1>3, <2>1, <2>2 DEF Right
    <3>2. ASSUME NEW seen \in SUBSET Path, seen \cap DOMAIN g.files \subseteq {p, q}
          PROVE  FreshTrees(d)[seen][q] = c.tree
      <4>1. seen \cap E \subseteq {q}
        BY <1>1, <2>2, <3>2
      <4>. QED
        BY <2>1, <4>1 DEF Right
    <3>. QED
      BY <1>1, <1>3, <3>1, <3>2 DEF MergedRight
  <2>5. ASSUME NEW x \in Below(g)
        PROVE  /\ \A i \in DOMAIN Classes(d, x) : Entry(d, x, i).found # p
               /\ \E i \in DOMAIN g.merged : Entry(d, p, i).found \in Below(g) \cap Leads(d, x)
    <3>1. CASE x \in Below(f)
      BY <1>1, <1>4, <2>1, <3>1 DEF MergedAll
    <3>2. CASE x \in E
      <4>1. \A i \in DOMAIN Classes(d, x) : Entry(d, x, i).found # p
        <5>1. Explored(d, x, E, Q)
          BY <3>2 DEF Right
        <5>2. p # NoPath
          BY <1>3, PathAssumption
        <5>. QED
          BY <2>2, <5>1, <5>2 DEF Explored, Followed
      <4>2. q \in Leads(d, x)
        BY <2>1, <3>2 DEF Right
      <4>3. q \in Below(g)
        BY <1>3, <1>4, <2>2
      <4>. QED
        BY <1>1, <1>3, <4>1, <4>2, <4>3
    <3>. QED
      BY <1>4, <3>1, <3>2
  <2>. QED
    BY <1>1, <2>3, <2>4, <2>5 DEF MergedAll
<1>9. ASSUME ~Evaluates(g.files)
      PROVE  MergedDoom(g, d)
  <2>1. CASE ~Evaluates(f.files)
    BY <1>1, <2>1 DEF FrameRight, MergedDoom
  <2>2. CASE ~Evaluates(c.files)
    BY <1>1, <1>3, <2>2 DEF Right, MergedDoom
  <2>. QED
    BY <1>2, <1>9, <2>1, <2>2
<1>. HIDE DEF g
<1>10. \A i \in DOMAIN g.merged :
          i \in DOMAIN g.classes /\ Followed(d, p, i, DOMAIN g.files, DOMAIN g.probes)
  BY <1>1, <1>7
<1>. QED
  BY <1>1, <1>2, <1>3, <1>5, <1>6, <1>8, <1>9, <1>10 DEF FrameRight, g

(* and gives a closure that is right once all its entries are merged.      *)
LEMMA ResultIsRight ==
  ASSUME NEW d, NEW f, IsFrame(f), FrameRight(f, d), f.class = NoPath,
         DOMAIN f.merged = DOMAIN f.classes
  PROVE  Right(Result(f), f.file, d)
<1>. DEFINE c == Result(f)
            p == f.file
            D == DOMAIN f.files
<1>1. /\ c.files = f.files /\ c.probes = f.probes
      /\ c.tree = [file |-> p, doc |-> f.files[p], classes |-> f.merged]
  BY DEF Result
<1>2. /\ p \in D /\ p \in Path /\ D \subseteq Path /\ f.files[p] = Content(d, p)
      /\ f.classes = Classes(d, p) /\ Visited(d, p, DOMAIN f.probes)
      /\ \A i \in DOMAIN f.classes : Followed(d, p, i, D, DOMAIN f.probes)
  BY DEF FrameRight, Reads, Source
<1>3. \A q \in D : Explored(d, q, D, DOMAIN f.probes)
  BY <1>2 DEF FrameRight, Explored, Below
<1>4. ASSUME Evaluates(f.files), NEW q \in D
      PROVE  p \in Leads(d, q)
  <2>1. CASE q = p
    BY <1>2, <2>1, LeadsToItself
  <2>2. CASE q # p
    <3>1. PICK i \in DOMAIN f.merged : Entry(d, p, i).found \in Below(f) \cap Leads(d, q)
      BY <1>4, <2>2 DEF FrameRight, MergedAll, Below
    <3>2. Includes(d, p, Entry(d, p, i).found)
      BY <1>2, <3>1 DEF Includes, Below
    <3>. QED
      BY <3>1, <3>2, LeadsFurther
  <2>. QED
    BY <2>1, <2>2
<1>5. c.tree # Failed
  <2>1. DOMAIN c.tree = {"file", "doc", "classes"}
    BY <1>1
  <2>2. DOMAIN Failed = {"failed"}
    BY DEF Failed
  <2>. QED
    BY <2>1, <2>2
<1>6. ASSUME Evaluates(f.files), NEW seen \in SUBSET Path, seen \cap D \subseteq {p}
      PROVE  FreshTrees(d)[seen][p] = c.tree
  <2>1. ~Broken(d, p)
    <3>1. Content(d, p).kind # "unresolvable"
      BY <1>2, <1>6 DEF Evaluates
    <3>. QED
      BY <1>2, <3>1, PathAssumption DEF Broken, Visited, Followed
  <2>2. ASSUME NEW i \in DOMAIN f.merged
        PROVE  /\ Subtree(FreshTrees(d), seen, Entry(d, p, i).found) = f.merged[i]
               /\ f.merged[i] # Failed
    <3>. DEFINE q == Entry(d, p, i).found
    <3>1. MergedRight(f, i, d)
      BY <1>6 DEF FrameRight, MergedAll
    <3>2. CASE q = NoPath
      BY <3>1, <3>2, PathAssumption DEF MergedRight, Subtree
    <3>3. CASE q # NoPath
      <4>1. /\ q # p /\ f.merged[i] # Failed
            /\ \A s \in SUBSET Path : s \cap D \subseteq {p, q} => FreshTrees(d)[s][q] = f.merged[i]
        BY <3>1, <3>3 DEF MergedRight
      <4>2. q \in D
        BY <1>2, <3>3 DEF Followed
      <4>3. q \notin seen /\ seen \cup {q} \in SUBSET Path
            /\ (seen \cup {q}) \cap D \subseteq {p, q}
        BY <1>2, <1>6, <4>1, <4>2
      <4>. HIDE DEF q
      <4>. QED
        BY <3>3, <4>1, <4>3 DEF Subtree, q
    <3>. QED
      BY <3>2, <3>3
  <2>. DEFINE subs == [i \in DOMAIN Classes(d, p) |->
                           Subtree(FreshTrees(d), seen, Entry(d, p, i).found)]
  <2>3. subs = f.merged
    <3>1. f.merged = [i \in DOMAIN f.merged |-> f.merged[i]]
      BY DEF IsFrame
    <3>2. DOMAIN Classes(d, p) = DOMAIN f.merged
      BY <1>2
    <3>. QED
      BY <2>2, <3>1, <3>2
  <2>4. Tree(d, FreshTrees(d), seen, p) = [file |-> p, doc |-> Content(d, p), classes |-> subs]
    BY <1>2, <2>1, <2>2 DEF Tree
  <2>. QED
    BY <1>1, <1>2, <2>3, <2>4, TreesUnfold
<1>7. ASSUME ~Evaluates(f.files)
      PROVE  p \in Doom(d)
  BY <1>7, FrameDoomIsDoom DEF FrameRight
<1>8. Reads(f.files, d)
  BY DEF FrameRight
<1>. HIDE DEF c
<1>9. /\ p \in DOMAIN c.files /\ Reads(c.files, d)
      /\ \A q \in DOMAIN c.files : Explored(d, q, DOMAIN c.files, DOMAIN c.probes)
      /\ Evaluates(c.files) =>
            /\ \A q \in DOMAIN c.files : p \in Leads(d, q)
            /\ \A seen \in SUBSET Path :
                  seen \cap DOMAIN c.files \subseteq {p} => FreshTrees(d)[seen][p] = c.tree
      /\ ~Evaluates(c.files) => p \in Doom(d)
  BY <1>1, <1>2, <1>3, <1>4, <1>6, <1>7, <1>8
<1>10. Right(c, p, d)
  BY <1>5, <1>9 DEF Right
<1>. QED
  BY <1>10 DEF c

-----------------------------------------------------------------------------
(* While changes are queued: a closure or a frame that no queued change has *)
(* touched is right.  With nothing queued that anybody heeds, all of them  *)
(* are.                                                                    *)

Untouched(c, changes) ==
    \A x \in DOMAIN c.files \cup DOMAIN c.probes : ~Touched(changes, x)

Quiet(changes) == \A e \in changes : ~Heeded(e)

LEMMA QuietTouchesNothing ==
  ASSUME NEW changes, Quiet(changes)
  PROVE  \A c : Untouched(c, changes)
BY DEF Quiet, Untouched, Touched

Sure(c, p, d, changes) == Untouched(c, changes) => Right(c, p, d)
SureFrame(f, d, changes) == IsFrame(f) /\ (Untouched(f, changes) => FrameRight(f, d))

SureFrames(s, d, changes) ==
    /\ \E S : s \in Seq(S)
    /\ \A i \in DOMAIN s : SureFrame(s[i], d, changes)
    /\ \A i, j \in DOMAIN s : j = i + 1 => s[i].class = s[j].file

(* A change of the disk that is announced leaves all that intact.          *)
LEMMA SureCarries ==
  ASSUME NEW d1, NEW c1, NEW d2, NEW c2, Carries(d1, c1, d2, c2)
  PROVE  /\ \A c, p : Sure(c, p, d1, c1) => Sure(c, p, d2, c2)
         /\ \A f : SureFrame(f, d1, c1) => SureFrame(f, d2, c2)
         /\ \A s : SureFrames(s, d1, c1) => SureFrames(s, d2, c2)
<1>1. ASSUME NEW c, Untouched(c, c2)
      PROVE  Untouched(c, c1) /\ SameSeen(d1, d2, DOMAIN c.probes)
  BY <1>1 DEF Carries, Untouched, SameSeen
<1>2. ASSUME NEW c, Untouched(c, c2), Reads(c.files, d1)
      PROVE  \A q \in DOMAIN c.files : Content(d1, q) = Content(d2, q)
  BY <1>2 DEF Carries, Untouched, Reads
<1>3. ASSUME NEW c, NEW p, Sure(c, p, d1, c1), Untouched(c, c2)
      PROVE  Right(c, p, d2)
  <2>1. Right(c, p, d1) /\ Reads(c.files, d1)
    BY <1>1, <1>3 DEF Sure, Right
  <2>. QED
    BY <1>1, <1>2, <1>3, <2>1, RightOnBoth
<1>4. ASSUME NEW f, SureFrame(f, d1, c1), Untouched(f, c2)
      PROVE  FrameRight(f, d2)
  <2>1. FrameRight(f, d1) /\ Reads(f.files, d1)
    BY <1>1, <1>4 DEF SureFrame, FrameRight
  <2>. QED
    BY <1>1, <1>2, <1>4, <2>1, FrameRightOnBoth
<1>5. \A f : SureFrame(f, d1, c1) => SureFrame(f, d2, c2)
  BY <1>4 DEF SureFrame
<1>. QED
  BY <1>3, <1>5 DEF Sure, SureFrames

-----------------------------------------------------------------------------
(* Stacks of frames. *)

LEMMA NoFramesAreSure ==
  ASSUME NEW d, NEW changes
  PROVE  SureFrames(<< >>, d, changes)
<1>1. << >> \in Seq({})
  OBVIOUS
<1>. QED
  BY <1>1 DEF SureFrames

LEMMA FramesPush ==
  ASSUME NEW s, NEW d, NEW changes, SureFrames(s, d, changes),
         NEW g, SureFrame(g, d, changes), s # << >> => Last(s).class = g.file
  PROVE  /\ SureFrames(Append(s, g), d, changes) /\ Append(s, g) # << >>
         /\ Append(s, g)[1].file = IF s = << >> THEN g.file ELSE s[1].file
<1>. DEFINE r == Append(s, g)
            n == Len(s)
<1>1. PICK S : s \in Seq(S)
  BY DEF SureFrames
<1>2. s \in Seq(S \cup {g})
  BY <1>1
<1>3. /\ r \in Seq(S \cup {g}) /\ n \in Nat
      /\ DOMAIN s = 1 .. n /\ DOMAIN r = 1 .. n + 1
      /\ r[n + 1] = g /\ \A i \in 1 .. n : r[i] = s[i]
  BY <1>2
<1>4. s = << >> <=> n = 0
  BY <1>1
<1>. HIDE DEF r, n
<1>5. \A i \in DOMAIN r : SureFrame(r[i], d, changes)
  BY <1>3 DEF SureFrames
<1>6. ASSUME NEW i \in DOMAIN r, NEW j \in DOMAIN r, j = i + 1
      PROVE  r[i].class = r[j].file
  <2>1. CASE j = n + 1
    <3>1. i = n /\ s # << >> /\ r[i] = s[n] /\ Last(s) = s[n]
      BY <1>3, <1>4, <1>6, <2>1 DEF Last, n
    <3>. QED
      BY <1>3, <2>1, <3>1
  <2>2. CASE j # n + 1
    <3>1. i \in DOMAIN s /\ j \in DOMAIN s /\ r[i] = s[i] /\ r[j] = s[j]
      BY <1>3, <1>6, <2>2
    <3>. QED
      BY <1>6, <3>1 DEF SureFrames
  <2>. QED
    BY <2>1, <2>2
<1>7. r # << >> /\ r[1].file = IF s = << >> THEN g.file ELSE s[1].file
  BY <1>3, <1>4
<1>8. SureFrames(r, d, changes)
  BY <1>3, <1>5, <1>6 DEF SureFrames
<1>. QED
  BY <1>7, <1>8 DEF r

LEMMA FramesPop ==
  ASSUME NEW s, NEW d, NEW changes, SureFrames(s, d, changes), s # << >>
  PROVE  /\ SureFrame(Last(s), d, changes) /\ SureFrames(Front(s), d, changes)
         /\ Front(s) = << >> => s[1] = Last(s)
         /\ Front(s) # << >> => /\ Last(Front(s)).class = Last(s).file
                                /\ Front(s)[1] = s[1]
<1>. DEFINE r == Front(s)
            n == Len(s)
<1>1. PICK S : s \in Seq(S)
  BY DEF SureFrames
<1>2. n \in Nat /\ n >= 1 /\ DOMAIN s = 1 .. n /\ Last(s) = s[n]
  BY <1>1 DEF Last
<1>3. /\ r \in Seq(S) /\ Len(r) = n - 1 /\ DOMAIN r = 1 .. n - 1
      /\ \A i \in 1 .. n - 1 : r[i] = s[i]
  BY <1>1, <1>2 DEF Front
<1>4. (r = << >> <=> n = 1) /\ Last(r) = r[n - 1]
  BY <1>2, <1>3 DEF Last
<1>. HIDE DEF r, n
<1>5. n \in DOMAIN s /\ \A i \in DOMAIN r : i \in DOMAIN s /\ r[i] = s[i]
  BY <1>2, <1>3
<1>6. SureFrame(Last(s), d, changes) /\ SureFrames(r, d, changes)
  BY <1>2, <1>3, <1>5 DEF SureFrames
<1>7. ASSUME r # << >>
      PROVE  Last(r).class = Last(s).file /\ r[1] = s[1]
  <2>1. /\ n - 1 \in DOMAIN s /\ n \in DOMAIN s /\ n = (n - 1) + 1
        /\ r[n - 1] = s[n - 1] /\ r[1] = s[1]
    BY <1>2, <1>3, <1>4, <1>7
  <2>2. s[n - 1].class = s[n].file
    BY <2>1 DEF SureFrames
  <2>. QED
    BY <1>2, <1>4, <2>1, <2>2
<1>8. r = << >> => s[1] = Last(s)
  BY <1>2, <1>4
<1>. QED
  BY <1>6, <1>7, <1>8 DEF r

LEMMA FramesReplace ==
  ASSUME NEW s, NEW d, NEW changes, SureFrames(s, d, changes), s # << >>,
         NEW g, SureFrame(g, d, changes), g.file = Last(s).file
  PROVE  LET r == Append(Front(s), g) IN
         SureFrames(r, d, changes) /\ r # << >> /\ r[1].file = s[1].file
<1>. DEFINE b == Front(s)
            r == Append(Front(s), g)
<1>1. /\ SureFrames(b, d, changes) /\ (b = << >> => s[1] = Last(s))
      /\ b # << >> => Last(b).class = Last(s).file /\ b[1] = s[1]
  BY FramesPop
<1>2. /\ SureFrames(r, d, changes) /\ r # << >>
      /\ r[1].file = IF b = << >> THEN g.file ELSE b[1].file
  BY <1>1, FramesPush
<1>. QED
  BY <1>1, <1>2

(* When the file on top cannot be merged no file of the stack can.         *)
LEMMA StackIsDoomed ==
  ASSUME NEW s, NEW d, NEW changes, SureFrames(s, d, changes), s # << >>, Quiet(changes),
         \/ Broken(d, Last(s).file)
         \/ \E r \in Doom(d) \cup {s[i].file : i \in DOMAIN s} : Includes(d, Last(s).file, r)
  PROVE  s[1].file \in Doom(d)
<1>. DEFINE chain == {s[i].file : i \in DOMAIN s}
            Z == Doom(d) \cup chain
            n == Len(s)
<1>1. n \in Nat /\ n >= 1 /\ DOMAIN s = 1 .. n /\ Last(s) = s[n]
  BY DEF SureFrames, Last
<1>2. \A i \in DOMAIN s : Source(s[i].file) /\ FrameRight(s[i], d)
  BY QuietTouchesNothing DEF SureFrames, SureFrame, IsFrame
<1>3. Z \in SUBSET Path
  BY <1>2, DoomIsDoomed DEF Source
<1>4. ASSUME NEW i \in DOMAIN s, i # n
      PROVE  \E r \in Z : Includes(d, s[i].file, r)
  <2>1. i + 1 \in DOMAIN s
    BY <1>1, <1>4
  <2>2. s[i].class = s[i + 1].file /\ s[i].class \in Path
    BY <1>2, <2>1 DEF SureFrames, Source
  <2>3. Includes(d, s[i].file, s[i].class)
    BY <1>2, <2>2, PathAssumption, PendingIsIncluded
  <2>. QED
    BY <2>1, <2>2, <2>3
<1>5. Doomed(d, Z)
  <2>1. \A q \in Doom(d) : Broken(d, q) \/ \E r \in Z : Includes(d, q, r)
    BY DoomIsDoomed DEF Doomed
  <2>2. \A i \in DOMAIN s : Broken(d, s[i].file) \/ \E r \in Z : Includes(d, s[i].file, r)
    BY <1>1, <1>4
  <2>. QED
    BY <2>1, <2>2 DEF Doomed
<1>6. s[1].file \in Z
  BY <1>1
<1>. QED
  BY <1>3, <1>5, <1>6, DoomedIsDoom

-----------------------------------------------------------------------------
(* The steps of a loader, on one frame.                                    *)

(* A file that opens gives a frame that is right, unless it was touched.   *)
LEMMA EnteredIsSure ==
  ASSUME NEW p, Source(p), Caches(disk, events), Loads(Loaded(p)),
         ~PatternsFail(Loaded(p).classes, Existing(disk))
  PROVE  SureFrame(Frame(p, Loaded(p)), disk, events) /\ Frame(p, Loaded(p)).file = p
<1>. DEFINE f == Frame(p, Loaded(p))
            doc == Loaded(p)
<1>1. /\ DOMAIN f = FrameFields /\ f.file = p /\ f.class = NoPath /\ f.merged = << >>
      /\ f.classes = ExpandPatterns(doc.classes, Existing(disk))
      /\ f.files = Put(EmptyMap, p, doc)
      /\ f.probes = IF HasPatterns(doc.classes) THEN Looks(disk, {ClassesDir}) ELSE EmptyMap
  BY DEF Frame, FrameFields
<1>2. DOMAIN f.files = {p} /\ f.files[p] = doc /\ DOMAIN f.merged = {} /\ Below(f) = {}
  BY <1>1 DEF Put, EmptyMap, Below
<1>3. HasPatterns(doc.classes) => ClassesDir \in DOMAIN f.probes
  BY <1>1 DEF Looks
<1>4. IsFrame(f)
  <2>1. << >> \in Seq({})
    OBVIOUS
  <2>. QED
    BY <1>1, <2>1 DEF IsFrame
<1>5. ASSUME Untouched(f, events)
      PROVE  FrameRight(f, disk)
  <2>1. doc = Content(disk, p)
    BY <1>2, <1>5, FirstFrameIsFresh DEF Untouched
  <2>2. Reads(f.files, disk)
    BY <1>2, <2>1 DEF Reads
  <2>3. Visited(disk, p, DOMAIN f.probes) /\ f.classes = Classes(disk, p)
    BY <1>1, <1>3, <2>1 DEF Visited, Opens, Classes
  <2>4. IF Evaluates(f.files) THEN MergedAll(f, disk) ELSE MergedDoom(f, disk)
    BY <1>1, <1>2, <2>1 DEF Evaluates, MergedAll, MergedDoom
  <2>. HIDE DEF f
  <2>. QED
    BY <1>1, <1>2, <2>2, <2>3, <2>4 DEF FrameRight
<1>. QED
  BY <1>1, <1>4, <1>5 DEF SureFrame

(* A file that does not open while nothing is queued is broken.            *)
LEMMA UnopenedIsBroken ==
  ASSUME NEW p, Source(p), Caches(disk, events), Quiet(events),
         ~Loads(Loaded(p)) \/ PatternsFail(Loaded(p).classes, Existing(disk))
  PROVE  Broken(disk, p)
<1>1. Loaded(p) = Content(disk, p)
  BY FirstFrameIsFresh DEF Quiet, Touched
<1>. QED
  BY <1>1 DEF Broken, Opens

LEMMA SameMerged ==
  ASSUME NEW f, NEW g, NEW d, g.file = f.file, g.files = f.files, g.merged = f.merged
  PROVE  /\ MergedAll(f, d) => MergedAll(g, d)
         /\ MergedDoom(f, d) => MergedDoom(g, d)
<1>1. \A i : MergedRight(f, i, d) => MergedRight(g, i, d)
  BY DEF MergedRight
<1>. QED
  BY <1>1 DEF MergedAll, MergedDoom, Below

(* The frame after its next entry resolved to r, as in ResolveNext.        *)
Probed(f, r) ==
    [f EXCEPT !.class = r.found,
              !.merged = IF r.found = NoPath THEN Append(@, NoPath) ELSE @,
              !.probes = Join(@, Looks(disk, r.tried))]

LEMMA ProbedIsSure ==
  ASSUME NEW f, SureFrame(f, disk, events), f.class = NoPath,
         Position(f) \in DOMAIN f.classes,
         NEW r, r = Resolve(f.classes[Position(f)], f.file, Existing(disk)),
         r.found = NoPath => IgnoreClassNotFound
  PROVE  SureFrame(Probed(f, r), disk, events) /\ Probed(f, r).file = f.file
<1>. DEFINE g == Probed(f, r)
            p == f.file
            k == Position(f)
            D == DOMAIN f.files
            P == DOMAIN f.probes
<1>1. /\ DOMAIN g = FrameFields /\ g.file = p /\ g.class = r.found /\ g.files = f.files
      /\ g.classes = f.classes /\ g.probes = Join(f.probes, Looks(disk, r.tried))
      /\ g.merged = IF r.found = NoPath THEN Append(f.merged, NoPath) ELSE f.merged
  BY DEF SureFrame, IsFrame, FrameFields, Probed
<1>. HIDE DEF g
<1>2. DOMAIN g.probes = P \cup r.tried
  <2>1. DOMAIN Looks(disk, r.tried) = r.tried
    BY DEF Looks
  <2>2. g.probes = Join(f.probes, Looks(disk, r.tried))
    BY <1>1
  <2>. HIDE DEF P
  <2>3. DOMAIN g.probes = DOMAIN f.probes \cup DOMAIN Looks(disk, r.tried)
    BY <2>2, JoinDomain
  <2>. QED
    BY <2>1, <2>3 DEF P
<1>3. Adds(f, Append(f.merged, NoPath), NoPath)
  BY PositionIsNext DEF SureFrame
<1>4. IsFrame(g)
  BY <1>1, <1>3 DEF SureFrame, IsFrame, Adds
<1>5. ASSUME Untouched(g, events)
      PROVE  FrameRight(g, disk)
  <2>1. FrameRight(f, disk)
    BY <1>1, <1>2, <1>5 DEF SureFrame, Untouched
  <2>2. r = Entry(disk, p, k) /\ k \in DOMAIN f.classes
    BY <2>1 DEF FrameRight, Entry
  <2>3. Visited(disk, p, DOMAIN g.probes)
    BY <1>2, <2>1, MoreIsExplored DEF FrameRight
  <2>4. Below(g) = Below(f) /\ DOMAIN g.files = D
    BY <1>1 DEF Below
  <2>5. \A q \in Below(g) : Explored(disk, q, D, DOMAIN g.probes)
    BY <1>2, <2>1, <2>4, MoreIsExplored DEF FrameRight
  <2>6. \A i \in DOMAIN f.merged :
            i \in DOMAIN f.classes /\ Followed(disk, p, i, D, DOMAIN g.probes)
    <3>1. \A i \in DOMAIN f.merged : i \in DOMAIN f.classes /\ Followed(disk, p, i, D, P)
      BY <2>1 DEF FrameRight
    <3>. QED
      BY <1>2, <3>1, MoreIsExplored
  <2>7. CASE r.found # NoPath
    <3>1. g.merged = f.merged /\ Position(g) = k
      BY <1>1, <2>7 DEF Position
    <3>2. IF Evaluates(g.files) THEN MergedAll(g, disk) ELSE MergedDoom(g, disk)
      <4>1. /\ MergedAll(f, disk) => MergedAll(g, disk)
            /\ MergedDoom(f, disk) => MergedDoom(g, disk)
        BY <1>1, <3>1, SameMerged
      <4>. QED
        BY <1>1, <2>1, <4>1 DEF FrameRight
    <3>3. Reads(f.files, disk) /\ p \in D /\ f.classes = Classes(disk, p)
      BY <2>1 DEF FrameRight
    <3>. QED
      BY <1>1, <1>2, <2>2, <2>3, <2>4, <2>5, <2>6, <3>1, <3>2, <3>3 DEF FrameRight
  <2>8. CASE r.found = NoPath
    <3>1. Adds(f, g.merged, NoPath)
      BY <1>1, <1>3, <2>8
    <3>2. /\ DOMAIN g.merged = DOMAIN f.merged \cup {k} /\ g.merged[k] = NoPath
          /\ \A i \in DOMAIN f.merged : g.merged[i] = f.merged[i]
      BY <3>1 DEF Adds
    <3>3. Followed(disk, p, k, D, DOMAIN g.probes)
      BY <1>2, <2>2, <2>8 DEF Followed
    <3>4. IF Evaluates(g.files) THEN MergedAll(g, disk) ELSE MergedDoom(g, disk)
      <4>1. ASSUME MergedAll(f, disk)
            PROVE  MergedAll(g, disk)
        <5>1. \A i \in DOMAIN f.merged : MergedRight(g, i, disk)
          BY <1>1, <3>2, <4>1 DEF MergedAll, MergedRight
        <5>2. MergedRight(g, k, disk)
          BY <1>1, <2>2, <2>8, <3>2 DEF MergedRight
        <5>. QED
          BY <1>1, <2>4, <3>2, <4>1, <5>1, <5>2 DEF MergedAll
      <4>2. MergedDoom(f, disk) => MergedDoom(g, disk)
        BY <1>1, <3>2 DEF MergedDoom
      <4>. QED
        BY <1>1, <2>1, <4>1, <4>2 DEF FrameRight
    <3>5. Reads(f.files, disk) /\ p \in D /\ f.classes = Classes(disk, p)
      BY <2>1 DEF FrameRight
    <3>. QED
      BY <1>1, <2>2, <2>3, <2>4, <2>5, <2>6, <2>8, <3>2, <3>3, <3>4, <3>5 DEF FrameRight
  <2>. QED
    BY <2>7, <2>8
<1>. QED
  BY <1>1, <1>4, <1>5 DEF SureFrame, g

(* Merging a class, cached or just loaded;                                 *)
LEMMA MergedIsSure ==
  ASSUME NEW f, NEW c, NEW d, NEW changes, SureFrame(f, d, changes),
         f.class # NoPath, Sure(c, f.class, d, changes)
  PROVE  SureFrame(Merge(f, c), d, changes) /\ Merge(f, c).file = f.file
<1>. DEFINE g == Merge(f, c)
<1>1. /\ g.file = f.file /\ IsFrame(g) /\ IsFrame(f)
      /\ g.files = Join(f.files, c.files) /\ g.probes = Join(f.probes, c.probes)
  BY MergeFields DEF SureFrame
<1>2. ASSUME Untouched(g, changes)
      PROVE  FrameRight(g, d)
  <2>1. Untouched(f, changes) /\ Untouched(c, changes)
    <3>1. DOMAIN g.files = DOMAIN f.files \cup DOMAIN c.files
      BY <1>1, JoinDomain
    <3>2. DOMAIN g.probes = DOMAIN f.probes \cup DOMAIN c.probes
      BY <1>1, JoinDomain
    <3>. QED
      BY <1>2, <3>1, <3>2 DEF Untouched
  <2>. QED
    BY <1>1, <2>1, MergedIsRight DEF SureFrame, Sure
<1>. QED
  BY <1>1, <1>2 DEF SureFrame

(* closing the frame.                                                      *)
LEMMA ResultIsSure ==
  ASSUME NEW f, NEW d, NEW changes, SureFrame(f, d, changes), f.class = NoPath,
         DOMAIN f.merged = DOMAIN f.classes
  PROVE  /\ Sure(Result(f), f.file, d, changes)
         /\ Result(f).tree.file = f.file /\ Result(f).files = f.files
         /\ Result(f) # Failed
<1>1. /\ Result(f).files = f.files /\ Result(f).probes = f.probes
      /\ Result(f).tree.file = f.file
  BY DEF Result
<1>2. Result(f) # Failed
  <2>1. DOMAIN Result(f) = {"tree", "files", "probes"}
    BY DEF Result
  <2>2. DOMAIN Failed = {"failed"}
    BY DEF Failed
  <2>. QED
    BY <2>1, <2>2
<1>3. ASSUME Untouched(Result(f), changes)
      PROVE  Right(Result(f), f.file, d)
  <2>1. Untouched(f, changes)
    BY <1>1, <1>3 DEF Untouched
  <2>. QED
    BY <2>1, ResultIsRight DEF SureFrame
<1>. QED
  BY <1>1, <1>2, <1>3 DEF Sure

-----------------------------------------------------------------------------
(* The steps of the loaders, on the caches, the stacks and the report.     *)

(* p is a file that declares the target n.                                 *)
TargetFile(p, n) == Source(p) /\ Under(p, TargetsDir) /\ TargetName(p) = n

(* Target files, one for each name. *)
Listed(S) ==
    /\ \A s \in S : TargetFile(s.file, s.name)
    /\ \A r, s \in S : r.name = s.name => r = s

(* A render of n is of a file that declares n and right unless touched; a  *)
(* failure of n is one the disk explains, unless something is queued.      *)
SureTarget(c, n, d, changes) ==
    /\ TargetFile(c.tree.file, n) /\ Evaluates(c.files)
    /\ Sure(c, c.tree.file, d, changes)

SureFailure(S, n, d, changes) ==
    Quiet(changes) => \E s \in S : s.name = n /\ s.file \in Doom(d)

(* What the caches hold, and what the loaders have and reported.           *)
SureCaches(d, changes) ==
    \A p \in DOMAIN closures : Sure(closures[p], p, d, changes)

SureLoaders(d, changes) ==
    /\ \A t \in DOMAIN stack :
          /\ stack[t] # << >> /\ SureFrames(stack[t], d, changes)
          /\ \E s \in found : s.name = t /\ s.file = stack[t][1].file
    /\ \A n \in DOMAIN report :
          IF report[n] = Failed THEN SureFailure(found, n, d, changes)
          ELSE SureTarget(report[n], n, d, changes)

LEMMA FinishedIsSure ==
  ASSUME SureLoaders(disk, events), NEW t, NEW outcome, Finished(t, outcome),
         IF outcome = Failed THEN SureFailure(found, t, disk, events)
         ELSE SureTarget(outcome, t, disk, events),
         UNCHANGED << disk, events, found >>
  PROVE  SureLoaders(disk, events)'
<1>1. stack' = [u \in {v \in DOMAIN stack : v # t} |-> stack[u]]
  BY DEF Finished, RestrictDomain, Restrict
<1>2. \A n \in DOMAIN report' : \/ n = t /\ report'[n] = outcome
                                \/ n \in DOMAIN report /\ report'[n] = report[n]
  BY PutIs DEF Finished
<1>3. ASSUME NEW n \in DOMAIN report'
      PROVE  IF report'[n] = Failed THEN SureFailure(found, n, disk, events)
             ELSE SureTarget(report'[n], n, disk, events)
  <2>1. CASE n = t /\ report'[n] = outcome
    BY <2>1
  <2>2. CASE n \in DOMAIN report /\ report'[n] = report[n]
    BY <2>2 DEF SureLoaders
  <2>. QED
    BY <1>2, <2>1, <2>2
<1>4. \A u \in DOMAIN stack' :
          /\ stack'[u] # << >> /\ SureFrames(stack'[u], disk, events)
          /\ \E s \in found : s.name = u /\ s.file = stack'[u][1].file
  BY <1>1 DEF SureLoaders
<1>. QED
  BY <1>3, <1>4 DEF SureLoaders

LEMMA PushedIsSure ==
  ASSUME SureLoaders(disk, events), NEW t, NEW s, stack' = Put(stack, t, s),
         s # << >>, SureFrames(s, disk, events),
         \E spec \in found : spec.name = t /\ spec.file = s[1].file,
         UNCHANGED << disk, events, found, report >>
  PROVE  SureLoaders(disk, events)'
<1>1. \A u \in DOMAIN stack' : \/ u = t /\ stack'[u] = s
                               \/ u \in DOMAIN stack /\ stack'[u] = stack[u]
  BY PutIs
<1>2. \A u \in DOMAIN stack' :
          /\ stack'[u] # << >> /\ SureFrames(stack'[u], disk, events)
          /\ \E spec \in found : spec.name = u /\ spec.file = stack'[u][1].file
  BY <1>1 DEF SureLoaders
<1>. QED
  BY <1>2 DEF SureLoaders

LEMMA EnterIsSure ==
  ASSUME Caches(disk, events), SureLoaders(disk, events),
         NEW t, NEW frames, NEW p, Enter(t, frames, p), Source(p),
         SureFrames(frames, disk, events),
         frames # << >> => Last(frames).class = p,
         NEW spec \in found, spec.name = t,
         spec.file = IF frames = << >> THEN p ELSE frames[1].file,
         UNCHANGED << disk, events, found >>
  PROVE  SureLoaders(disk, events)'
<1>. DEFINE doc == Loaded(p)
            g == Frame(p, doc)
            r == Append(frames, g)
<1>1. CASE Loads(doc) /\ ~PatternsFail(doc.classes, Existing(disk))
  <2>1. SureFrame(g, disk, events) /\ g.file = p
    BY <1>1, EnteredIsSure
  <2>2. stack' = Put(stack, t, r) /\ UNCHANGED report
    BY <1>1 DEF Enter
  <2>. HIDE DEF g, r
  <2>3. /\ SureFrames(r, disk, events) /\ r # << >>
        /\ r[1].file = IF frames = << >> THEN p ELSE frames[1].file
    BY <2>1, FramesPush DEF r
  <2>. QED
    BY <2>2, <2>3, PushedIsSure
<1>2. CASE ~(Loads(doc) /\ ~PatternsFail(doc.classes, Existing(disk)))
  <2>1. Finished(t, Failed)
    BY <1>2 DEF Enter
  <2>2. ASSUME Quiet(events)
        PROVE  spec.file \in Doom(disk)
    <3>1. p \in Path /\ p \in Doom(disk)
      BY <1>2, <2>2, UnopenedIsBroken, DoomGrows DEF Source
    <3>2. CASE frames # << >>
      <4>. DEFINE f == Last(frames)
      <4>1. SureFrame(f, disk, events) /\ FrameRight(f, disk)
        BY <2>2, <3>2, FramesPop, QuietTouchesNothing DEF SureFrame
      <4>2. Includes(disk, f.file, p)
        BY <3>1, <3>2, <4>1, PathAssumption, PendingIsIncluded
      <4>. QED
        BY <2>2, <3>1, <3>2, <4>2, StackIsDoomed
    <3>. QED
      BY <3>1, <3>2
  <2>3. SureFailure(found, t, disk, events)
    BY <2>2 DEF SureFailure
  <2>. QED
    BY <2>1, <2>3, FinishedIsSure
<1>. QED
  BY <1>1, <1>2

(* Each of the steps of a render keeps that.                               *)
LEMMA StartIsSure ==
  ASSUME InPhase, Caches(disk, events), SureLoaders(disk, events), NEW spec \in found,
         Start(spec), UNCHANGED << events, found >>
  PROVE  SureLoaders(disk, events)'
<1>1. Source(spec.file) /\ UNCHANGED disk /\ Enter(spec.name, << >>, spec.file)
  BY DEF Start, InPhase
<1>. QED
  BY <1>1, NoFramesAreSure, EnterIsSure

LEMMA ResolveNextIsSure ==
  ASSUME SureLoaders(disk, events), NEW t, ResolveNext(t), UNCHANGED << events, found >>
  PROVE  SureLoaders(disk, events)'
<1>. DEFINE s == stack[t]
            f == Top(t)
            r == Resolve(f.classes[Position(f)], f.file, Existing(disk))
            g == Probed(f, r)
<1>1. /\ t \in DOMAIN stack /\ f.class = NoPath /\ Position(f) \in DOMAIN f.classes
      /\ UNCHANGED << disk, files, closures >>
  BY DEF ResolveNext
<1>2. s # << >> /\ SureFrames(s, disk, events)
  BY <1>1 DEF SureLoaders
<1>3. PICK spec \in found : spec.name = t /\ spec.file = s[1].file
  BY <1>1 DEF SureLoaders
<1>4. f = Last(s) /\ SureFrame(f, disk, events)
  BY <1>2, FramesPop DEF Top
<1>5. CASE (r.found = NoPath /\ ~IgnoreClassNotFound) \/ r.found \in OnStack(t)
  <2>1. Finished(t, Failed)
    BY <1>5 DEF ResolveNext
  <2>2. ASSUME Quiet(events)
        PROVE  spec.file \in Doom(disk)
    <3>1. FrameRight(f, disk) /\ Source(f.file)
      BY <1>4, <2>2, QuietTouchesNothing DEF SureFrame, IsFrame
    <3>2. r = Entry(disk, f.file, Position(f)) /\ Position(f) \in DOMAIN Classes(disk, f.file)
      BY <1>1, <3>1 DEF FrameRight, Entry
    <3>3. r.found = NoPath /\ ~IgnoreClassNotFound => Broken(disk, f.file)
      BY <3>2 DEF Broken
    <3>4. r.found \in OnStack(t) => /\ r.found \in {s[i].file : i \in DOMAIN s}
                                    /\ Includes(disk, f.file, r.found)
      <4>1. \A i \in DOMAIN s : s[i].file \in Path
        BY <1>2 DEF SureFrames, SureFrame, IsFrame, Source
      <4>. HIDE DEF r
      <4>. QED
        BY <3>1, <3>2, <4>1 DEF OnStack, Includes, Source
    <3>. HIDE DEF r
    <3>. QED
      BY <1>2, <1>3, <1>4, <1>5, <2>2, <3>3, <3>4, StackIsDoomed
  <2>3. SureFailure(found, t, disk, events)
    BY <1>3, <2>2 DEF SureFailure
  <2>. QED
    BY <1>1, <2>1, <2>3, FinishedIsSure
<1>6. CASE ~((r.found = NoPath /\ ~IgnoreClassNotFound) \/ r.found \in OnStack(t))
  <2>1. stack' = WithTop(t, g) /\ UNCHANGED report
    BY <1>6 DEF ResolveNext, Probed
  <2>2. SureFrame(g, disk, events) /\ g.file = f.file
    <3>1. /\ r.found = NoPath => IgnoreClassNotFound
          /\ r = Resolve(f.classes[Position(f)], f.file, Existing(disk))
      BY <1>6
    <3>. HIDE DEF r, f
    <3>. QED
      BY <1>1, <1>4, <3>1, ProbedIsSure
  <2>. HIDE DEF g
  <2>. DEFINE w == Append(Front(s), g)
  <2>3. SureFrames(w, disk, events) /\ w # << >> /\ w[1].file = s[1].file
    BY <1>2, <1>4, <2>2, FramesReplace
  <2>4. stack' = Put(stack, t, w)
    BY <2>1 DEF WithTop
  <2>. HIDE DEF w
  <2>. QED
    BY <1>1, <1>3, <2>1, <2>3, <2>4, PushedIsSure
<1>. QED
  BY <1>5, <1>6

LEMMA IncludeIsSure ==
  ASSUME Caches(disk, events), SureCaches(disk, events), SureLoaders(disk, events),
         Loaders(disk, events), NEW t, Include(t), UNCHANGED << events, found >>
  PROVE  SureLoaders(disk, events)'
<1>. DEFINE s == stack[t]
            f == Top(t)
<1>1. t \in DOMAIN stack /\ f.class # NoPath /\ UNCHANGED << disk, closures >>
  BY DEF Include
<1>2. s # << >> /\ SureFrames(s, disk, events)
  BY <1>1 DEF SureLoaders
<1>3. PICK spec \in found : spec.name = t /\ spec.file = s[1].file
  BY <1>1 DEF SureLoaders
<1>4. f = Last(s) /\ SureFrame(f, disk, events)
  BY <1>2, FramesPop DEF Top
<1>5. CASE f.class \in DOMAIN closures
  <2>. DEFINE g == Merge(f, closures[f.class])
              w == Append(Front(s), g)
  <2>1. SureFrame(g, disk, events) /\ g.file = f.file
    BY <1>1, <1>4, <1>5, MergedIsSure DEF SureCaches
  <2>2. stack' = WithTop(t, g) /\ UNCHANGED << files, report >>
    BY <1>5 DEF Include
  <2>. HIDE DEF g
  <2>3. SureFrames(w, disk, events) /\ w # << >> /\ w[1].file = s[1].file
    BY <1>2, <1>4, <2>1, FramesReplace
  <2>4. stack' = Put(stack, t, w)
    BY <2>2 DEF WithTop
  <2>. HIDE DEF w
  <2>. QED
    BY <1>1, <1>3, <2>2, <2>3, <2>4, PushedIsSure
<1>6. CASE f.class \notin DOMAIN closures
  <2>1. Enter(t, s, f.class)
    BY <1>6 DEF Include
  <2>2. Source(f.class)
    BY <1>1, <1>2, <1>4, FramesAreStacked DEF Loaders, FreshFrame
  <2>. QED
    BY <1>1, <1>2, <1>3, <1>4, <2>1, <2>2, EnterIsSure
<1>. QED
  BY <1>5, <1>6

LEMMA FinishIsSure ==
  ASSUME SureCaches(disk, events), SureLoaders(disk, events), Listed(found),
         NEW t, Finish(t), UNCHANGED << events, found >>
  PROVE  SureCaches(disk, events)' /\ SureLoaders(disk, events)'
<1>. DEFINE s == stack[t]
            f == Top(t)
            c == Result(f)
            below == Front(s)
<1>1. /\ t \in DOMAIN stack /\ f.class = NoPath /\ DOMAIN f.merged = DOMAIN f.classes
      /\ UNCHANGED << disk, files >>
  BY DEF Finish
<1>2. s # << >> /\ SureFrames(s, disk, events)
  BY <1>1 DEF SureLoaders
<1>3. PICK spec \in found : spec.name = t /\ spec.file = s[1].file
  BY <1>1 DEF SureLoaders
<1>4. f = Last(s) /\ SureFrame(f, disk, events)
  BY <1>2, FramesPop DEF Top
<1>5. Sure(c, f.file, disk, events) /\ c.tree.file = f.file /\ c # Failed
  BY <1>1, <1>4, ResultIsSure
<1>. HIDE DEF c
<1>6. CASE below = << >>
  <2>1. /\ Finished(t, IF Evaluates(c.files) THEN c ELSE Failed)
        /\ UNCHANGED closures
    BY <1>6 DEF Finish, c
  <2>2. f.file = spec.file /\ TargetFile(f.file, t)
    BY <1>2, <1>3, <1>4, <1>6, FramesPop DEF Listed
  <2>3. CASE Evaluates(c.files)
    <3>1. SureTarget(c, t, disk, events)
      BY <1>5, <2>2, <2>3 DEF SureTarget
    <3>2. SureLoaders(disk, events)'
      BY <1>1, <1>5, <2>1, <2>3, <3>1, FinishedIsSure
    <3>. QED
      BY <1>1, <2>1, <3>2 DEF SureCaches
  <2>4. CASE ~Evaluates(c.files)
    <3>1. Quiet(events) => f.file \in Doom(disk)
      BY <1>5, <2>4, QuietTouchesNothing DEF Sure, Right
    <3>2. SureFailure(found, t, disk, events)
      BY <1>3, <2>2, <3>1 DEF SureFailure
    <3>3. SureLoaders(disk, events)'
      BY <1>1, <2>1, <2>4, <3>2, FinishedIsSure
    <3>. QED
      BY <1>1, <2>1, <3>3 DEF SureCaches
  <2>. QED
    BY <2>3, <2>4
<1>7. CASE below # << >>
  <2>. DEFINE b == Last(below)
              g == Merge(b, c)
              w == Append(Front(below), g)
  <2>1. /\ closures' = Put(closures, f.file, c)
        /\ stack' = Put(stack, t, w)
        /\ UNCHANGED report
    BY <1>7 DEF Finish, c
  <2>2. /\ SureFrames(below, disk, events) /\ b.class = f.file /\ below[1] = s[1]
    BY <1>2, <1>4, <1>7, FramesPop
  <2>3. SureFrame(b, disk, events)
    BY <1>7, <2>2, FramesPop
  <2>4. b.class # NoPath
    BY <1>4, <2>2, PathAssumption DEF SureFrame, IsFrame, Source
  <2>5. SureFrame(g, disk, events) /\ g.file = b.file
    BY <1>5, <2>2, <2>3, <2>4, MergedIsSure
  <2>. HIDE DEF g
  <2>6. SureFrames(w, disk, events) /\ w # << >> /\ w[1].file = s[1].file
    <3>. HIDE DEF below
    <3>. QED
      BY <1>7, <2>2, <2>5, FramesReplace
  <2>. HIDE DEF w
  <2>7. SureLoaders(disk, events)'
    BY <1>1, <1>3, <2>1, <2>6, PushedIsSure
  <2>8. \A q \in DOMAIN closures' : \/ q = f.file /\ closures'[q] = c
                                    \/ q \in DOMAIN closures /\ closures'[q] = closures[q]
    BY <2>1, PutIs
  <2>9. SureCaches(disk, events)'
    BY <1>1, <1>5, <2>8 DEF SureCaches
  <2>. QED
    BY <2>7, <2>9
<1>. QED
  BY <1>6, <1>7

LEMMA RenderIsSure ==
  ASSUME Sound, ~lost, Listed(found), queue \subseteq found,
         SureCaches(disk, events), SureLoaders(disk, events), Render
  PROVE  SureCaches(disk, events)' /\ SureLoaders(disk, events)'
<1>1. UNCHANGED << events, found >>
  BY DEF Render, passVars
<1>2. Caches(disk, events) /\ Loaders(disk, events) /\ InPhase
  BY DEF Sound
<1>3. ASSUME NEW spec \in queue, Start(spec)
      PROVE  SureCaches(disk, events)' /\ SureLoaders(disk, events)'
  <2>1. UNCHANGED << disk, closures >> /\ spec \in found
    BY <1>3 DEF Start
  <2>. QED
    BY <1>1, <1>2, <1>3, <2>1, StartIsSure DEF SureCaches
<1>4. ASSUME NEW t, ResolveNext(t) \/ Include(t)
      PROVE  SureCaches(disk, events)' /\ SureLoaders(disk, events)'
  <2>1. UNCHANGED << disk, closures >>
    BY <1>4 DEF ResolveNext, Include
  <2>. QED
    BY <1>1, <1>2, <1>4, <2>1, ResolveNextIsSure, IncludeIsSure DEF SureCaches
<1>5. ASSUME NEW t, Finish(t)
      PROVE  SureCaches(disk, events)' /\ SureLoaders(disk, events)'
  BY <1>1, <1>5, FinishIsSure
<1>. QED
  BY <1>3, <1>4, <1>5 DEF Render, RenderStep, Step

-----------------------------------------------------------------------------
(* The passes and the environment.                                         *)

(* What the daemon stored: renders are right but for the changes queued or *)
(* in the batch, and while it is rendering those it does not render but for *)
(* the changes queued; failures are explained; with nothing queued that    *)
(* anybody heeds the targets are those on the disk.                        *)
SureAnswers(d, changes) ==
    /\ \A n \in DOMAIN targets : SureTarget(targets[n], n, d, changes \cup batch)
    /\ phase = "render" =>
          \A n \in DOMAIN targets \ affected : SureTarget(targets[n], n, d, changes)
    /\ phase = "idle" => \A n \in errors : SureFailure(specs, n, d, changes)
    /\ Quiet(changes) =>
          /\ phase = "idle" => specs = Discovered(Existing(d))
          /\ phase \in {"affect", "render"} => found = Discovered(Existing(d))

(* The targets have files and names of their own, and every known failure  *)
(* is rendered again in every pass.                                        *)
InPass ==
    /\ Listed(found) /\ Listed(specs) /\ queue \subseteq found
    /\ phase = "start" => DOMAIN targets = {} /\ errors = {}
    /\ phase = "render" => errors \subseteq affected

Exactly ==
    /\ InPass
    /\ ~lost => SureCaches(disk, events) /\ SureLoaders(disk, events)
                /\ SureAnswers(disk, events)

(* Discovered targets have names of their own.                             *)
LEMMA DiscoveredAreListed ==
  ASSUME NEW d
  PROVE  Listed(Discovered(Existing(d)))
<1>. DEFINE F == TargetFiles(Existing(d))
<1>1. \A p \in F : Source(p) /\ Under(p, TargetsDir)
  BY DEF TargetFiles, Existing, Source
<1>2. CASE \E p, q \in F : p # q /\ TargetName(p) = TargetName(q)
  <2>1. Discovered(Existing(d)) = {}
    BY <1>2 DEF Discovered
  <2>. QED
    BY <2>1 DEF Listed
<1>3. CASE ~ \E p, q \in F : p # q /\ TargetName(p) = TargetName(q)
  <2>1. Discovered(Existing(d)) = {TargetSpec(p) : p \in F}
    BY <1>3 DEF Discovered
  <2>. HIDE DEF F
  <2>2. ASSUME NEW s \in {TargetSpec(p) : p \in F}
        PROVE  s.file \in F /\ s = TargetSpec(s.file) /\ s.name = TargetName(s.file)
    BY DEF TargetSpec
  <2>. QED
    BY <1>1, <1>3, <2>1, <2>2 DEF Listed, TargetFile
<1>. QED
  BY <1>2, <1>3

(* Where nothing is touched nothing differs. *)
LEMMA QuietIsSame ==
  ASSUME NEW d1, NEW c1, NEW d2, NEW c2, Carries(d1, c1, d2, c2), Quiet(c2)
  PROVE  /\ Discovered(Existing(d1)) = Discovered(Existing(d2))
         /\ \A p : Source(p) /\ p \in Doom(d1) => p \in Doom(d2)
<1>1. \A p : ~Touched(c2, p)
  BY DEF Quiet, Touched
<1>2. /\ \A q : Source(q) => Content(d1, q) = Content(d2, q)
      /\ \A x : Look(d1, x) = Look(d2, x)
  BY <1>1 DEF Carries
<1>3. Alike(d1, d2, {q \in Path : IsYaml(q)})
  BY <1>2, OthersAreAlike
<1>4. \A p : Source(p) /\ p \in Doom(d1) => p \in Doom(d2)
  BY <1>3, AlikeDoom DEF Source
<1>5. \A d : TargetFiles(Existing(d)) = Look(d, TargetsDir)
  BY DEF TargetFiles, Look
<1>6. TargetFiles(Existing(d1)) = TargetFiles(Existing(d2))
  BY <1>2, <1>5
<1>. QED
  BY <1>4, <1>6 DEF Discovered

LEMMA SureTargetCarries ==
  ASSUME NEW d1, NEW c1, NEW d2, NEW c2, Carries(d1, c1, d2, c2)
  PROVE  \A c, n : SureTarget(c, n, d1, c1) => SureTarget(c, n, d2, c2)
BY SureCarries DEF SureTarget

LEMMA SureFailureCarries ==
  ASSUME NEW d1, NEW c1, NEW d2, NEW c2, Carries(d1, c1, d2, c2),
         Quiet(c2) => Quiet(c1), NEW S, Listed(S)
  PROVE  \A n : SureFailure(S, n, d1, c1) => SureFailure(S, n, d2, c2)
BY QuietIsSame DEF SureFailure, Listed, TargetFile

(* As long as changes are announced all of it is kept.                     *)
LEMMA ExactlyCarries ==
  ASSUME Exactly, ~lost, Carries(disk, events, disk', events'), Quiet(events') => Quiet(events),
         UNCHANGED << phase, batch, found, affected, specs, targets, errors,
                      closures, stack, report >>
  PROVE  SureCaches(disk, events)' /\ SureLoaders(disk, events)' /\ SureAnswers(disk, events)'
<1>1. SureCaches(disk, events)'
  BY SureCarries DEF Exactly, SureCaches
<1>2. SureLoaders(disk, events)'
  <2>1. \A t \in DOMAIN stack :
          /\ stack[t] # << >> /\ SureFrames(stack[t], disk', events')
          /\ \E s \in found : s.name = t /\ s.file = stack[t][1].file
    BY SureCarries DEF Exactly, SureLoaders
  <2>2. ASSUME NEW n \in DOMAIN report
        PROVE  IF report[n] = Failed THEN SureFailure(found, n, disk', events')
               ELSE SureTarget(report[n], n, disk', events')
    BY SureTargetCarries, SureFailureCarries DEF Exactly, InPass, SureLoaders
  <2>. QED
    BY <2>1, <2>2 DEF SureLoaders
<1>3. SureAnswers(disk, events)'
  <2>1. Carries(disk, events \cup batch, disk', events' \cup batch)
    BY MoreIsAnnounced
  <2>2. \A n \in DOMAIN targets : SureTarget(targets[n], n, disk', events' \cup batch)
    BY <2>1, SureTargetCarries DEF Exactly, SureAnswers
  <2>3. phase = "render" =>
           \A n \in DOMAIN targets \ affected : SureTarget(targets[n], n, disk', events')
    BY SureTargetCarries DEF Exactly, SureAnswers
  <2>4. phase = "idle" => \A n \in errors : SureFailure(specs, n, disk', events')
    BY SureFailureCarries DEF Exactly, InPass, SureAnswers
  <2>5. Quiet(events') => Discovered(Existing(disk)) = Discovered(Existing(disk'))
    BY QuietIsSame
  <2>. QED
    BY <2>2, <2>3, <2>4, <2>5 DEF Exactly, SureAnswers
<1>. QED
  BY <1>1, <1>2, <1>3

LEMMA EnvironmentIsExact ==
  ASSUME NoSymlinks, Sound, Exactly, Environment, ~lost'
  PROVE  SureCaches(disk, events)' /\ SureLoaders(disk, events)' /\ SureAnswers(disk, events)'
<1>1. /\ ~lost
      /\ UNCHANGED << phase, batch, found, affected, specs, targets, errors,
                      closures, stack, report >>
  BY DEF Environment, Edit, MoveTree, WatchError, Notice, passVars, inner, renderVars
<1>2. events \subseteq events'
  BY DEF Environment, Edit, MoveTree, WatchError, Notice
<1>3. Quiet(events') => Quiet(events)
  BY <1>2 DEF Quiet
<1>. QED
  BY <1>1, <1>3, EnvironmentCarries, ExactlyCarries DEF Sound

(* A closure that a batch did not drop was not touched by it.              *)
LEMMA UntouchedByTheRest ==
  ASSUME NoSymlinks, Caches(disk, events), NEW b, NEW paths,
         \A e \in b : Heeded(e) => e \in paths,
         NEW p \in DOMAIN closures, NEW c, c = closures[p],
         ~DependsOn(c, paths), ~LiesUnder(c, {q \in paths : ~IsFile(q)}),
         Untouched(c, events \ b)
  PROVE  Untouched(c, events)
<1>1. ASSUME NEW x \in DOMAIN c.files \cup DOMAIN c.probes, NEW e \in events, Heeded(e),
             Reaches(e, x)
      PROVE  FALSE
  <2>1. CASE e \in b
    <3>1. x \in DOMAIN c.files => Source(x)
      BY DEF Caches, Fresh, ReadRight
    <3>. QED
      BY <1>1, <2>1, <3>1, TouchedIsDropped
  <2>2. CASE e \notin b
    BY <1>1, <2>2 DEF Untouched, Touched
  <2>. QED
    BY <2>1, <2>2
<1>. QED
  BY <1>1 DEF Untouched, Touched

LEMMA TakeBatchIsExact ==
  ASSUME NoSymlinks, Sound, Exactly, ~lost, TakeBatch
  PROVE  SureCaches(disk, events)' /\ SureLoaders(disk, events)' /\ SureAnswers(disk, events)'
<1>. PICK b \in SUBSET events \ {{}} :
         LET kept    == {p \in b : ~Noise(p)}
             changed == ExpandAliases(kept)
         IN  /\ events' = events \ b
             /\ IF kept = {}
                THEN UNCHANGED << phase, batch, stop, files, closures >>
                ELSE /\ phase' = "discover"
                     /\ batch' = changed
                     /\ stop' = (stop \/ kept \cap ConfigSource # {})
                     /\ Invalidate(changed, {p \in changed : ~IsFile(p)})
  BY DEF TakeBatch
<1>. DEFINE kept == {p \in b : ~Noise(p)}
<1>1. /\ phase = "idle" /\ events' = events \ b
      /\ UNCHANGED << disk, found, affected, specs, targets, errors, stack, report >>
  BY DEF TakeBatch, inner
<1>2. CASE kept = {}
  <2>1. \A e \in b : Noise(e)
    BY <1>2
  <2>2. Carries(disk, events, disk', events')
    <3>1. Carries(disk, events, disk, events \ b)
      BY <2>1, NoiseIsDropped
    <3>. QED
      BY <1>1, <3>1
  <2>3. Quiet(events') => Quiet(events)
    BY <1>1, <2>1, HeededIsKept DEF Quiet
  <2>4. UNCHANGED << phase, batch, closures >>
    BY <1>2
  <2>. QED
    BY <1>1, <2>2, <2>3, <2>4, ExactlyCarries
<1>3. CASE kept # {}
  <2>1. /\ phase' = "discover" /\ batch' = ExpandAliases(kept)
        /\ Invalidate(batch', {p \in batch' : ~IsFile(p)})
    BY <1>3
  <2>2. batch' = kept /\ batch = {} /\ DOMAIN stack = {} /\ DOMAIN report = {}
    BY <1>1, <2>1 DEF ExpandAliases, Sound, InPhase
  <2>3. \A e \in b : Heeded(e) => e \in batch'
    BY <2>2, HeededIsKept
  <2>4. SureCaches(disk, events)'
    <3>1. closures' = [q \in {r \in DOMAIN closures :
                                 ~DependsOn(closures[r], batch')
                                 /\ ~LiesUnder(closures[r], {p \in batch' : ~IsFile(p)})}
                         |-> closures[q]]
      BY <2>1 DEF Invalidate, RestrictDomain, Restrict
    <3>2. ASSUME NEW p \in DOMAIN closures'
          PROVE  Sure(closures'[p], p, disk, events \ b)
      <4>1. /\ p \in DOMAIN closures /\ closures'[p] = closures[p]
            /\ ~DependsOn(closures[p], batch')
            /\ ~LiesUnder(closures[p], {q \in batch' : ~IsFile(q)})
        BY <3>1
      <4>2. Sure(closures[p], p, disk, events)
        BY <4>1 DEF Exactly, SureCaches
      <4>3. Untouched(closures[p], events \ b) => Untouched(closures[p], events)
        BY <2>3, <4>1, UntouchedByTheRest DEF Sound
      <4>. QED
        BY <4>1, <4>2, <4>3 DEF Sure
    <3>. QED
      BY <1>1, <3>2 DEF SureCaches
  <2>5. SureLoaders(disk, events)'
    BY <1>1, <2>2 DEF SureLoaders
  <2>6. SureAnswers(disk, events)'
    <3>1. Carries(disk, events \cup batch, disk', events' \cup batch')
      BY <1>1, <2>2, <2>3 DEF Carries, Touched
    <3>2. \A n \in DOMAIN targets : SureTarget(targets[n], n, disk', events' \cup batch')
      BY <3>1, SureTargetCarries DEF Exactly, SureAnswers
    <3>. QED
      BY <1>1, <2>1, <3>2 DEF SureAnswers
  <2>. QED
    BY <2>4, <2>5, <2>6
<1>. QED
  BY <1>2, <1>3

LEMMA AffectIsExact ==
  ASSUME NoSymlinks, Sound, IndexExact, Exactly, ~lost, Affect
  PROVE  SureCaches(disk, events)' /\ SureLoaders(disk, events)' /\ SureAnswers(disk, events)'
<1>1. /\ UNCHANGED << disk, events, batch, found, targets, closures >>
      /\ phase = "affect" /\ phase' = "render"
      /\ affected' = AffectedNames /\ DOMAIN stack' = {} /\ DOMAIN report' = {}
  BY DEF Affect, diskVars, inner, QueueUp, EmptyMap
<1>2. SureCaches(disk, events)'
  BY <1>1 DEF Exactly, SureCaches
<1>3. SureLoaders(disk, events)'
  BY <1>1 DEF SureLoaders
<1>4. ASSUME NEW n \in DOMAIN targets, n \notin AffectedNames
      PROVE  SureTarget(targets[n], n, disk, events)
  <2>1. SureTarget(targets[n], n, disk, events \cup batch)
    BY DEF Exactly, SureAnswers
  <2>2. Untouched(targets[n], events) => Untouched(targets[n], events \cup batch)
    BY <1>4, TouchedIsAffected DEF Untouched, Touched, Deps
  <2>. QED
    BY <2>1, <2>2 DEF SureTarget, Sure
<1>5. \A n \in DOMAIN targets : SureTarget(targets[n], n, disk, events \cup batch)
  BY DEF Exactly, SureAnswers
<1>6. Quiet(events) => found = Discovered(Existing(disk))
  BY <1>1 DEF Exactly, SureAnswers
<1>7. SureAnswers(disk, events)'
  BY <1>1, <1>4, <1>5, <1>6 DEF SureAnswers
<1>. QED
  BY <1>2, <1>3, <1>7

LEMMA InitialPassIsExact ==
  ASSUME Exactly, InitialPass
  PROVE  SureCaches(disk, events)' /\ SureLoaders(disk, events)' /\ SureAnswers(disk, events)'
<1>1. /\ UNCHANGED << disk, targets >> /\ phase = "start" /\ phase' = "render"
      /\ found' = Discovered(Existing(disk)) /\ DOMAIN closures' = {}
      /\ DOMAIN stack' = {} /\ DOMAIN report' = {}
  BY DEF InitialPass, diskVars, inner, QueueUp, EmptyMap
<1>2. DOMAIN targets = {}
  BY <1>1 DEF Exactly, InPass
<1>. QED
  BY <1>1, <1>2 DEF SureCaches, SureLoaders, SureAnswers

LEMMA DiscoverIsExact ==
  ASSUME Sound, Exactly, ~lost, Discover
  PROVE  SureCaches(disk, events)' /\ SureLoaders(disk, events)' /\ SureAnswers(disk, events)'
<1>1. /\ UNCHANGED << disk, events, batch, targets, closures, stack, report >>
      /\ phase = "discover" /\ phase' = "affect" /\ found' = Discovered(Existing(disk))
  BY DEF Discover, diskVars, inner, renderVars
<1>2. DOMAIN stack = {} /\ DOMAIN report = {}
  BY <1>1 DEF Sound, InPhase
<1>3. SureCaches(disk, events)' /\ SureLoaders(disk, events)'
  BY <1>1, <1>2 DEF Exactly, SureCaches, SureLoaders
<1>4. \A n \in DOMAIN targets : SureTarget(targets[n], n, disk, events \cup batch)
  BY DEF Exactly, SureAnswers
<1>5. SureAnswers(disk, events)'
  BY <1>1, <1>4 DEF SureAnswers
<1>. QED
  BY <1>3, <1>5

LEMMA InstallIsExact ==
  ASSUME Exactly, ~lost, Install
  PROVE  SureCaches(disk, events)' /\ SureLoaders(disk, events)' /\ SureAnswers(disk, events)'
<1>1. /\ phase = "render" /\ phase' = "idle" /\ batch' = {} /\ specs' = found
      /\ DOMAIN report' = {} /\ DOMAIN stack = {}
      /\ UNCHANGED << disk, events, closures, stack >>
  <2>1. phase = "render" /\ phase' = "idle" /\ batch' = {} /\ specs' = found /\ ~Rendering
    BY DEF Install
  <2>2. report' = EmptyMap
    BY DEF Install
  <2>3. UNCHANGED << disk, events, closures, stack >>
    BY DEF Install, diskVars
  <2>. QED
    BY <2>1, <2>2, <2>3 DEF EmptyMap, Rendering
<1>2. SureCaches(disk, events)'
  BY <1>1 DEF Exactly, SureCaches
<1>3. SureLoaders(disk, events)'
  BY <1>1 DEF SureLoaders
<1>4. ASSUME NEW n \in DOMAIN targets'
      PROVE  SureTarget(targets'[n], n, disk, events)
  <2>1. targets' = [m \in (DOMAIN targets \ Gone) \cup Rendered |->
                       IF m \in Rendered THEN report[m] ELSE targets[m]]
    BY DEF Install
  <2>2. CASE n \in Rendered
    <3>1. n \in DOMAIN report /\ report[n] # Failed /\ targets'[n] = report[n]
      BY <2>1, <2>2 DEF Rendered
    <3>. QED
      BY <3>1 DEF Exactly, SureLoaders
  <2>3. CASE n \notin Rendered
    <3>1. n \in DOMAIN targets \ affected /\ targets'[n] = targets[n]
      BY <2>1, <2>3 DEF Gone
    <3>. QED
      BY <1>1, <3>1 DEF Exactly, SureAnswers
  <2>. QED
    BY <2>2, <2>3
<1>5. ASSUME NEW n \in errors'
      PROVE  SureFailure(found, n, disk, events)
  <2>1. n \in DOMAIN report /\ report[n] = Failed
    <3>1. errors \subseteq affected
      BY <1>1 DEF Exactly, InPass
    <3>2. errors' = KeptErrors \cup {m \in DOMAIN report : report[m] = Failed}
      BY DEF Install
    <3>. QED
      BY <1>5, <3>1, <3>2 DEF KeptErrors, KeptErrorsAll
  <2>. QED
    BY <2>1 DEF Exactly, SureLoaders
<1>6. Quiet(events) => found = Discovered(Existing(disk))
  BY <1>1 DEF Exactly, SureAnswers
<1>7. SureAnswers(disk, events)'
  <2>1. (events \cup batch)' = events
    BY <1>1
  <2>. QED
    BY <1>1, <1>4, <1>5, <1>6, <2>1 DEF SureAnswers
<1>. QED
  BY <1>2, <1>3, <1>7

LEMMA RenderIsExact ==
  ASSUME Sound, Exactly, ~lost, Render
  PROVE  SureCaches(disk, events)' /\ SureLoaders(disk, events)' /\ SureAnswers(disk, events)'
<1>1. UNCHANGED << disk, events, phase, batch, found, affected, specs, targets, errors >>
  BY DEF Render, RenderStep, Start, Step, ResolveNext, Include, Finish, passVars, inner
<1>2. SureCaches(disk, events)' /\ SureLoaders(disk, events)'
  BY RenderIsSure DEF Exactly, InPass
<1>3. SureAnswers(disk, events)'
  BY <1>1 DEF Exactly, SureAnswers
<1>. QED
  BY <1>2, <1>3

(* The invariant is inductive, and settling makes it exact.                *)
LEMMA InPassKept ==
  ASSUME InPhase, InPass, [Next]_vars
  PROVE  InPass'
<1>1. CASE Environment \/ StartWatch \/ WatchAliases \/ UNCHANGED vars
  <2>1. UNCHANGED << phase, found, affected, specs, targets, errors, queue >>
    BY <1>1 DEF Environment, Edit, MoveTree, WatchError, StartWatch, WatchAliases,
                passVars, inner, renderVars, vars
  <2>. QED
    BY <2>1 DEF InPass
<1>2. CASE TakeBatch
  <2>1. UNCHANGED << found, specs, queue >> /\ phase' \in {"idle", "discover"}
    BY <1>2 DEF TakeBatch, inner
  <2>. QED
    BY <2>1 DEF InPass
<1>3. CASE Discover
  <2>1. UNCHANGED << specs, queue >> /\ phase' = "affect" /\ found' = Discovered(Existing(disk))
    BY <1>3 DEF Discover, inner, renderVars
  <2>2. queue = {}
    BY <1>3 DEF Discover, InPhase
  <2>. QED
    BY <2>1, <2>2, DiscoveredAreListed DEF InPass
<1>4. CASE Affect
  <2>1. /\ UNCHANGED << found, specs, errors >> /\ phase' = "render"
        /\ affected' = AffectedNames /\ queue' = ToRender(affected')
    BY <1>4 DEF Affect, QueueUp, inner
  <2>. QED
    BY <2>1 DEF InPass, AffectedNames, ToRender
<1>5. CASE InitialPass
  <2>1. /\ UNCHANGED << specs, errors >> /\ phase = "start" /\ phase' = "render"
        /\ found' = Discovered(Existing(disk)) /\ queue' = found'
    BY <1>5 DEF InitialPass, QueueUp, inner
  <2>. QED
    BY <2>1, DiscoveredAreListed DEF InPass
<1>6. CASE Render
  <2>1. UNCHANGED << phase, found, affected, specs, targets, errors >> /\ phase = "render"
    BY <1>6 DEF Render, passVars, inner
  <2>2. queue' \subseteq queue
    BY <1>6 DEF Render, RenderStep, Start, Step, ResolveNext, Include, Finish
  <2>. QED
    BY <2>1, <2>2 DEF InPass
<1>7. CASE Install
  <2>1. /\ specs' = found /\ found' = {} /\ phase' = "idle" /\ queue' = queue /\ queue = {}
    BY <1>7 DEF Install, Rendering
  <2>. QED
    BY <2>1 DEF InPass, Listed
<1>. QED
  BY <1>1, <1>2, <1>3, <1>4, <1>5, <1>6, <1>7 DEF Next, Pass

LEMMA ExactlyKept ==
  ASSUME NoSymlinks, Sound, IndexExact, Exactly, [Next]_vars
  PROVE  Exactly'
<1>1. InPass'
  BY InPassKept DEF Sound, Exactly
<1>. SUFFICES ASSUME ~lost'
              PROVE  /\ SureCaches(disk, events)' /\ SureLoaders(disk, events)'
                     /\ SureAnswers(disk, events)'
  BY <1>1 DEF Exactly
<1>2. CASE Environment
  BY <1>2, EnvironmentIsExact
<1>3. CASE StartWatch \/ WatchAliases \/ UNCHANGED vars
  <2>1. UNCHANGED << lost, disk, events, phase, batch, found, affected, specs, targets, errors,
                     closures, stack, report >>
    BY <1>3 DEF StartWatch, WatchAliases, diskVars, passVars, inner, renderVars, vars
  <2>. QED
    BY <2>1 DEF Exactly, SureCaches, SureLoaders, SureAnswers
<1>4. CASE TakeBatch
  BY <1>4, TakeBatchIsExact DEF TakeBatch
<1>5. CASE Discover
  BY <1>5, DiscoverIsExact DEF Discover, diskVars
<1>6. CASE Affect
  BY <1>6, AffectIsExact DEF Affect, diskVars
<1>7. CASE InitialPass
  BY <1>7, InitialPassIsExact
<1>8. CASE Render
  BY <1>8, RenderIsExact DEF Render
<1>9. CASE Install
  BY <1>9, InstallIsExact DEF Install, diskVars
<1>. QED
  BY <1>2, <1>3, <1>4, <1>5, <1>6, <1>7, <1>8, <1>9 DEF Next, Pass

LEMMA ExactlyAtFirst ==
  ASSUME Init
  PROVE  Exactly
<1>1. /\ DOMAIN closures = {} /\ DOMAIN stack = {} /\ DOMAIN report = {}
      /\ DOMAIN targets = {} /\ phase = "start" /\ found = {} /\ specs = {}
      /\ queue = {} /\ errors = {}
  BY DEF Init, EmptyMap
<1>. QED
  BY <1>1 DEF Exactly, InPass, Listed, SureCaches, SureLoaders, SureAnswers

(* With nothing pending a stored render is the tree of the one file that   *)
(* declares the target.                                                    *)
LEMMA SureTargetAnswers ==
  ASSUME NEW d, NEW s \in Discovered(Existing(d)), NEW c, SureTarget(c, s.name, d, {})
  PROVE  c.tree = FreshTree(d, s.file)
<1>. DEFINE q == c.tree.file
            F == TargetFiles(Existing(d))
<1>1. TargetFile(q, s.name) /\ Right(c, q, d) /\ Evaluates(c.files)
  BY DEF SureTarget, Sure, Untouched, Touched
<1>2. q \in DOMAIN c.files /\ FreshTrees(d)[{q}][q] = c.tree
  <2>1. q \in Path
    BY <1>1 DEF TargetFile, Source
  <2>2. {q} \in SUBSET Path /\ {q} \cap DOMAIN c.files \subseteq {q}
    BY <2>1
  <2>. QED
    BY <1>1, <2>2 DEF Right
<1>3. q \in F
  <2>1. Content(d, q) # Absent
    BY <1>1, <1>2 DEF Right, Explored, Visited, Opens, Loads
  <2>. QED
    BY <1>1, <2>1 DEF TargetFile, Source, TargetFiles, Existing
<1>4. /\ ~ \E a, b \in F : a # b /\ TargetName(a) = TargetName(b)
      /\ s \in {TargetSpec(p) : p \in F}
  BY DEF Discovered
<1>5. s.file \in F /\ s.name = TargetName(s.file)
  <2>. HIDE DEF F
  <2>. QED
    BY <1>4 DEF TargetSpec
<1>6. s.file = q
  <2>. HIDE DEF F
  <2>. QED
    BY <1>1, <1>3, <1>4, <1>5 DEF TargetFile
<1>. QED
  BY <1>2, <1>6 DEF FreshTree

LEMMA ExactlySettles ==
  ASSUME Sound, Exactly, AnswersCoverSpecs
  PROVE  SettledExact
<1>. SUFFICES ASSUME Settled, ~lost
              PROVE  Exact
  BY DEF SettledExact
<1>1. phase = "idle" /\ events = {} /\ batch = {} /\ Quiet(events)
  BY DEF Settled, Sound, InPhase, Quiet
<1>2. specs = Discovered(Existing(disk)) /\ Listed(specs)
  BY <1>1 DEF Exactly, SureAnswers, InPass
<1>3. ASSUME NEW s \in specs
      PROVE  Answer(s.name) = FreshTree(disk, s.file)
  <2>1. CASE s.name \in DOMAIN targets
    <3>1. events \cup batch = {}
      BY <1>1
    <3>2. SureTarget(targets[s.name], s.name, disk, {})
      BY <2>1, <3>1 DEF Exactly, SureAnswers
    <3>. QED
      BY <1>2, <2>1, <3>2, SureTargetAnswers DEF Answer
  <2>2. CASE s.name \notin DOMAIN targets
    <3>1. s.name \in errors
      BY <2>2 DEF AnswersCoverSpecs, Names
    <3>2. SureFailure(specs, s.name, disk, events)
      BY <1>1, <3>1 DEF Exactly, SureAnswers
    <3>3. s.file \in Doom(disk)
      BY <1>1, <1>2, <3>2 DEF SureFailure, Listed
    <3>4. {s.file} \in SUBSET Path
      BY <1>2 DEF Listed, TargetFile, Source
    <3>. QED
      BY <2>2, <3>3, <3>4, DoomFails DEF Answer, FreshTree
  <2>. QED
    BY <2>1, <2>2
<1>. QED
  BY <1>2, <1>3 DEF Exact

(* SRV-32, the safety half, for every inventory without symlinks: whatever *)
(* edits, batches, passes and renders came before, and however they were   *)
(* interleaved with the loaders and their caches, a daemon that watches, is *)
(* idle and has no event left to take from the debouncer knows exactly the *)
(* targets that are on the disk and answers for each what a fresh render   *)
(* with empty caches would (rerender, invalidate_dependents, the closure   *)
(* cache and the index together).                                          *)
THEOREM SettledDaemonsAreExact == NoSymlinks => (Spec => []SettledExact)
<1>. SUFFICES ASSUME NoSymlinks PROVE Spec => []SettledExact
  OBVIOUS
<1>1. Init => Sound /\ Exactly
  BY SoundAtFirst, ExactlyAtFirst
<1>2. (Sound /\ Exactly) /\ IndexExact /\ [Next]_vars => (Sound /\ Exactly)'
  BY SoundKept, ExactlyKept
<1>3. Sound /\ Exactly /\ AnswersCoverSpecs => SettledExact
  BY ExactlySettles
<1>4. Spec => [](IndexExact /\ AnswersCoverSpecs)
  BY BookkeepingInvariant
<1>. QED
  BY <1>1, <1>2, <1>3, <1>4, PTL DEF Spec

-----------------------------------------------------------------------------
(* Names in a tree of files that come and go (ClassTree).                  *)

(* Loading again is needed only when a probed path changes: for any class  *)
(* names, any files that list them and any changes of the tree, a name     *)
(* resolves to the same file as long as none of the paths tried for it     *)
(* appears or disappears (resolve_class_file and its `tried').             *)
THEOREM ProbesAreEnough == TreeSpec => ProbesDecide
<1>. DEFINE Decided == \A n \in ClassRefs, from \in Includers :
                          LET r == Resolve(n, from, exists)
                          IN  exists' \cap r.tried = exists \cap r.tried =>
                                 Resolve(n, from, exists') = r
<1>1. Decided
  <2>1. ASSUME NEW n, NEW from,
               exists' \cap Resolve(n, from, exists).tried
                  = exists \cap Resolve(n, from, exists).tried
        PROVE  Resolve(n, from, exists') = Resolve(n, from, exists)
    <3>1. \A x \in Resolve(n, from, exists).tried : x \in exists <=> x \in exists'
      BY <2>1
    <3>. QED
      BY <3>1, ResolveDepends
  <2>. QED
    BY <2>1
<1>2. Decided => [Decided]_exists
  OBVIOUS
<1>. HIDE DEF Decided
<1>3. [][Decided]_exists
  BY <1>1, <1>2, PTL
<1>. QED
  BY <1>3, PTL DEF ProbesDecide, Decided

(* One more file moves the first hit to it or not at all.                  *)
LEMMA OneMoreFile ==
  ASSUME NEW name, NEW from, NEW S, NEW p, p \notin S
  PROVE  LET tried == Candidates(name, from)
             a == FirstHit(tried, S)
             b == FirstHit(tried, S \cup {p})
         IN  \/ a = b
             \/ /\ b \in DOMAIN tried /\ b # 0 /\ tried[b] = p
                /\ a # 0 => a \in DOMAIN tried /\ a \in Nat /\ b \in 1 .. a
<1>. DEFINE tried == Candidates(name, from)
            a == FirstHit(tried, S)
            b == FirstHit(tried, S \cup {p})
<1>1. /\ \/ a = 0 /\ \A i \in DOMAIN tried : tried[i] \notin S
         \/ /\ a \in DOMAIN tried /\ a \in Nat /\ a # 0 /\ tried[a] \in S
            /\ \A i \in DOMAIN tried : tried[i] \in S => a <= i
      /\ \/ b = 0 /\ \A i \in DOMAIN tried : tried[i] \notin S \cup {p}
         \/ /\ b \in DOMAIN tried /\ b \in Nat /\ b # 0 /\ tried[b] \in S \cup {p}
            /\ \A i \in DOMAIN tried : tried[i] \in S \cup {p} => b <= i
  BY FirstHitIs
<1>2. \/ a = b
      \/ /\ b \in DOMAIN tried /\ b # 0 /\ tried[b] = p
         /\ a # 0 => a \in DOMAIN tried /\ a \in Nat /\ b \in 1 .. a
  <2>. HIDE DEF tried, a, b
  <2>1. CASE a = 0
    BY <1>1, <2>1
  <2>2. CASE a # 0
    <3>1. a \in DOMAIN tried /\ a \in Nat /\ tried[a] \in S
      BY <1>1, <2>2
    <3>2. b \in DOMAIN tried /\ b \in Nat /\ b # 0 /\ b <= a /\ tried[b] \in S \cup {p}
      BY <1>1, <3>1
    <3>3. tried[b] \in S => a = b
      BY <1>1, <2>2, <3>1, <3>2
    <3>4. b \in 1 .. a
      BY <3>1, <3>2
    <3>. QED
      BY <3>1, <3>2, <3>3, <3>4
  <2>. QED
    BY <2>1, <2>2
<1>. QED
  BY <1>2

(* The probes of the candidates up to one of them grow with it.            *)
LEMMA TriedGrows ==
  ASSUME NEW name, NEW from, NEW n \in DOMAIN Candidates(name, from)
  PROVE  LET tried == Candidates(name, from) IN
         /\ ToSet(SubSeq(tried, 1, n)) \subseteq ToSet(tried)
         /\ n # 0 => tried[n] \in ToSet(SubSeq(tried, 1, n))
         /\ \A m \in 1 .. n : /\ tried[m] \in ToSet(SubSeq(tried, 1, n))
                              /\ ToSet(SubSeq(tried, 1, m)) \subseteq ToSet(SubSeq(tried, 1, n))
<1>. DEFINE tried == Candidates(name, from)
<1>1. PICK S : tried \in Seq(S)
  BY CandidatesAreSeq
<1>2. n \in 1 .. Len(tried) /\ Len(tried) \in Nat /\ DOMAIN tried = 1 .. Len(tried)
  BY <1>1
<1>3. \A m \in 1 .. n : /\ m \in DOMAIN tried
                        /\ ToSet(SubSeq(tried, 1, m)) = {tried[i] : i \in 1 .. m}
  BY <1>2, TriedBefore
<1>4. ToSet(tried) = {tried[i] : i \in 1 .. Len(tried)}
  BY <1>2 DEF ToSet
<1>. HIDE DEF tried
<1>. QED
  BY <1>2, <1>3, <1>4 DEF tried

(* A file that appears is what a name means or changes nothing about it,   *)
(* and can take the place only of a file that is tried after it, so that   *)
(* who probed for that file has probed for it too.                         *)
THEOREM ShadowingReverses == TreeSpec => []ShadowingIsReversible
<1>1. ShadowingIsReversible
  <2>. SUFFICES ASSUME NEW n \in ClassRefs, NEW from \in Includers, NEW p \in Universe \ exists
                PROVE  LET before == Resolve(n, from, exists)
                           after  == Resolve(n, from, exists \cup {p})
                       IN  after.found \in {before.found, p}
                           /\ (after.found = p /\ before.found # NoPath => p \in before.tried)
                           /\ after.tried \subseteq before.tried
    BY DEF ShadowingIsReversible
  <2>. DEFINE tried == Candidates(n, from)
              a == FirstHit(tried, exists)
              b == FirstHit(tried, exists \cup {p})
              before == Resolve(n, from, exists)
              after  == Resolve(n, from, exists \cup {p})
  <2>1. /\ a = 0 => before.found = NoPath /\ before.tried = ToSet(tried)
        /\ a # 0 => before.found = tried[a] /\ before.tried = ToSet(SubSeq(tried, 1, a))
        /\ b = 0 => after.found = NoPath /\ after.tried = ToSet(tried)
        /\ b # 0 => after.found = tried[b] /\ after.tried = ToSet(SubSeq(tried, 1, b))
    BY ResolveIs
  <2>2. \/ a = b
        \/ /\ b \in DOMAIN tried /\ b # 0 /\ tried[b] = p
           /\ a # 0 => a \in DOMAIN tried /\ a \in Nat /\ b \in 1 .. a
    BY OneMoreFile
  <2>3. a # 0 => a \in DOMAIN tried /\ tried[a] \in exists
    BY FirstHitIs
  <2>4. \A m \in DOMAIN tried :
           /\ ToSet(SubSeq(tried, 1, m)) \subseteq ToSet(tried)
           /\ \A k \in 1 .. m : /\ tried[k] \in ToSet(SubSeq(tried, 1, m))
                                /\ ToSet(SubSeq(tried, 1, k)) \subseteq ToSet(SubSeq(tried, 1, m))
    BY TriedGrows
  <2>5. /\ after.found \in {before.found, p}
        /\ after.found = p /\ before.found # NoPath => p \in before.tried
        /\ after.tried \subseteq before.tried
    <3>. HIDE DEF tried, a, b, before, after
    <3>1. CASE a = b
      <4>1. after.found = before.found /\ after.tried = before.tried
        BY <2>1, <3>1
      <4>2. before.found # NoPath => before.found \in exists
        BY <2>1, <2>3
      <4>. QED
        BY <4>1, <4>2
    <3>2. CASE a # b
      BY <2>1, <2>2, <2>3, <2>4, <3>2
    <3>. QED
      BY <3>1, <3>2
  <2>. QED
    BY <2>5
<1>. QED
  BY <1>1, PTL

-----------------------------------------------------------------------------
(* Lists put together from shorter ones. *)

LEMMA UpTo ==
  ASSUME NEW n \in Nat, NEW m \in Nat, NEW S, m \in S, \A k \in m .. n - 1 : k \in S => k + 1 \in S
  PROVE  m .. n \subseteq S
<1>. DEFINE Out == {k \in m .. n : k \notin S}
<1>1. ASSUME Out # {} PROVE FALSE
  <2>1. Out \subseteq Nat
    OBVIOUS
  <2>2. PICK k \in Out : \A j \in Out : k <= j
    BY <1>1, <2>1, SmallestOf
  <2>3. k \in Nat /\ k # m /\ m <= k /\ k <= n /\ k \notin S
    BY <2>2
  <2>4. k - 1 \in m .. n - 1 /\ k - 1 \notin Out /\ (k - 1) + 1 = k
    BY <2>2, <2>3
  <2>5. k - 1 \in S
    BY <2>4
  <2>. QED
    BY <2>3, <2>4, <2>5
<1>. QED
  BY <1>1

LEMMA AppendedIs ==
  ASSUME NEW S, NEW s \in Seq(S), NEW t \in Seq(S)
  PROVE  ToSet(s \o t) = ToSet(s) \cup ToSet(t)
<1>1. DOMAIN (s \o t) = 1 .. Len(s) + Len(t) /\ DOMAIN s = 1 .. Len(s) /\ DOMAIN t = 1 .. Len(t)
      /\ Len(s) \in Nat /\ Len(t) \in Nat
  OBVIOUS
<1>2. \A i \in 1 .. Len(s) + Len(t) : (s \o t)[i] = IF i <= Len(s) THEN s[i] ELSE t[i - Len(s)]
  OBVIOUS
<1>3. ASSUME NEW i \in 1 .. Len(s) PROVE s[i] \in ToSet(s \o t)
  BY <1>1, <1>2 DEF ToSet
<1>4. ASSUME NEW i \in 1 .. Len(t) PROVE t[i] \in ToSet(s \o t)
  <2>1. Len(s) + i \in 1 .. Len(s) + Len(t) /\ ~(Len(s) + i <= Len(s)) /\ (Len(s) + i) - Len(s) = i
    BY <1>1
  <2>2. (s \o t)[Len(s) + i] = t[i]
    BY <1>2, <2>1
  <2>. QED
    BY <1>1, <2>1, <2>2 DEF ToSet
<1>5. ASSUME NEW i \in 1 .. Len(s) + Len(t) PROVE (s \o t)[i] \in ToSet(s) \cup ToSet(t)
  <2>1. CASE i <= Len(s)
    <3>1. i \in 1 .. Len(s)
      BY <1>1, <2>1
    <3>. QED
      BY <1>1, <1>2, <2>1, <3>1 DEF ToSet
  <2>2. CASE ~(i <= Len(s))
    <3>1. i - Len(s) \in 1 .. Len(t)
      BY <1>1, <2>2
    <3>. QED
      BY <1>1, <1>2, <2>2, <3>1 DEF ToSet
  <2>. QED
    BY <2>1, <2>2
<1>. HIDE DEF ToSet
<1>6. ToSet(s \o t) = {(s \o t)[i] : i \in 1 .. Len(s) + Len(t)}
  BY <1>1 DEF ToSet
<1>7. ToSet(s) = {s[i] : i \in 1 .. Len(s)} /\ ToSet(t) = {t[i] : i \in 1 .. Len(t)}
  BY <1>1 DEF ToSet
<1>. QED
  BY <1>3, <1>4, <1>5, <1>6, <1>7

(* The prefixes that FlattenSeq puts together one after the other. *)
Flattens(seqs, f, n) == f = [i \in 1 .. n |-> IF i = 1 THEN seqs[i] ELSE f[i - 1] \o seqs[i]]

LEMMA FlattenUnfolds ==
  ASSUME NEW S, NEW seqs \in Seq(Seq(S)), seqs # << >>
  PROVE  \E f : Flattens(seqs, f, Len(seqs)) /\ FlattenSeq(seqs) = f[Len(seqs)]
<1>. DEFINE n == Len(seqs)
            All == {m \in Nat : \E f : Flattens(seqs, f, m)}
<1>1. n \in Nat /\ n >= 1 /\ n # 0
  OBVIOUS
<1>2. 1 \in All
  <2>. DEFINE f == [i \in 1 .. 1 |-> seqs[i]]
  <2>1. Flattens(seqs, f, 1)
    BY DEF Flattens
  <2>. HIDE DEF f
  <2>. QED
    BY <2>1
<1>3. ASSUME NEW m \in 1 .. n - 1, m \in All PROVE m + 1 \in All
  <2>1. PICK f : Flattens(seqs, f, m)
    BY <1>3
  <2>. DEFINE g == [i \in 1 .. m + 1 |-> IF i = m + 1 THEN f[m] \o seqs[m + 1] ELSE f[i]]
  <2>2. m \in Nat /\ m # 0
    BY <1>1
  <2>3. ASSUME NEW i \in 1 .. m + 1
        PROVE  g[i] = IF i = 1 THEN seqs[i] ELSE g[i - 1] \o seqs[i]
    <3>1. CASE i = m + 1
      <4>1. i - 1 = m /\ m \in 1 .. m + 1 /\ m # m + 1 /\ i # 1
        BY <2>2, <3>1
      <4>2. g[i - 1] = f[m]
        BY <4>1
      <4>. QED
        BY <3>1, <4>1, <4>2
    <3>2. CASE i # m + 1
      <4>1. i \in 1 .. m /\ g[i] = f[i]
        BY <2>2, <3>2
      <4>2. f[i] = IF i = 1 THEN seqs[i] ELSE f[i - 1] \o seqs[i]
        BY <2>1, <4>1 DEF Flattens
      <4>3. i # 1 => g[i - 1] = f[i - 1]
        BY <2>2, <4>1
      <4>. QED
        BY <4>1, <4>2, <4>3
    <3>. QED
      BY <3>1, <3>2
  <2>4. Flattens(seqs, g, m + 1)
    BY <2>3 DEF Flattens
  <2>. HIDE DEF g
  <2>. QED
    BY <2>2, <2>4
<1>4. n \in All
  <2>. HIDE DEF All
  <2>1. 1 .. n \subseteq All
    BY <1>1, <1>2, <1>3, UpTo
  <2>. QED
    BY <1>1, <2>1
<1>5. PICK f : f = CHOOSE g : Flattens(seqs, g, n)
  OBVIOUS
<1>6. Flattens(seqs, f, n)
  BY <1>4, <1>5
<1>7. FlattenSeq(seqs) = f[n]
  BY <1>1, <1>5 DEF FlattenSeq, Flattens
<1>. QED
  BY <1>6, <1>7

(* What is in the whole is in one of the parts. *)
LEMMA FlattenIs ==
  ASSUME NEW S, NEW seqs \in Seq(Seq(S))
  PROVE  /\ FlattenSeq(seqs) \in Seq(S)
         /\ \A x : x \in ToSet(FlattenSeq(seqs)) <=> \E i \in DOMAIN seqs : x \in ToSet(seqs[i])
<1>1. CASE seqs = << >>
  BY <1>1 DEF FlattenSeq, ToSet
<1>2. CASE seqs # << >>
  <2>. DEFINE n == Len(seqs)
  <2>1. PICK f : Flattens(seqs, f, n) /\ FlattenSeq(seqs) = f[n]
    BY <1>2, FlattenUnfolds
  <2>2. n \in Nat /\ n >= 1 /\ DOMAIN seqs = 1 .. n
    BY <1>2
  <2>. DEFINE Fine == {m \in Nat : /\ m \in 1 .. n /\ f[m] \in Seq(S)
                                   /\ \A x : x \in ToSet(f[m]) <=> \E i \in 1 .. m : x \in ToSet(seqs[i])}
  <2>3. 1 \in Fine
    <3>1. f[1] = seqs[1] /\ 1 \in 1 .. n /\ seqs[1] \in Seq(S) /\ 1 .. 1 = {1}
      BY <2>1, <2>2 DEF Flattens
    <3>. QED
      BY <3>1
  <2>4. ASSUME NEW m \in 1 .. n - 1, m \in Fine PROVE m + 1 \in Fine
    <3>1. m + 1 \in 1 .. n /\ m + 1 # 1 /\ (m + 1) - 1 = m /\ 1 .. m + 1 = 1 .. m \cup {m + 1}
      BY <2>2
    <3>2. f[m + 1] = f[m] \o seqs[m + 1]
      BY <2>1, <3>1 DEF Flattens
    <3>3. seqs[m + 1] \in Seq(S) /\ f[m] \in Seq(S)
      BY <2>2, <2>4, <3>1
    <3>4. ToSet(f[m + 1]) = ToSet(f[m]) \cup ToSet(seqs[m + 1])
      BY <3>2, <3>3, AppendedIs
    <3>5. \A x : x \in ToSet(f[m]) <=> \E i \in 1 .. m : x \in ToSet(seqs[i])
      BY <2>4
    <3>6. \A x : x \in ToSet(f[m + 1]) <=> \E i \in 1 .. m + 1 : x \in ToSet(seqs[i])
      BY <3>1, <3>4, <3>5
    <3>7. f[m + 1] \in Seq(S) /\ m + 1 \in Nat
      BY <3>1, <3>2, <3>3
    <3>. QED
      BY <3>1, <3>6, <3>7
  <2>5. n \in Fine
    <3>. HIDE DEF Fine
    <3>1. 1 .. n \subseteq Fine
      BY <2>2, <2>3, <2>4, UpTo
    <3>. QED
      BY <2>2, <3>1
  <2>. QED
    BY <2>1, <2>2, <2>5
<1>. QED
  BY <1>1, <1>2


LEMMA AppendedIsDistinct ==
  ASSUME NEW S, NEW s \in Seq(S), NEW t \in Seq(S), IsInjective(s), IsInjective(t),
         ToSet(s) \cap ToSet(t) = {}
  PROVE  IsInjective(s \o t)
<1>1. DOMAIN (s \o t) = 1 .. Len(s) + Len(t) /\ DOMAIN s = 1 .. Len(s) /\ DOMAIN t = 1 .. Len(t)
      /\ Len(s) \in Nat /\ Len(t) \in Nat
  OBVIOUS
<1>2. \A i \in 1 .. Len(s) + Len(t) : (s \o t)[i] = IF i <= Len(s) THEN s[i] ELSE t[i - Len(s)]
  OBVIOUS
<1>3. \A i \in 1 .. Len(s), j \in 1 .. Len(t) : s[i] # t[j]
  BY <1>1 DEF ToSet
<1>4. ASSUME NEW i \in 1 .. Len(s) + Len(t), NEW j \in 1 .. Len(s) + Len(t),
             (s \o t)[i] = (s \o t)[j]
      PROVE  i = j
  <2>1. CASE i <= Len(s) /\ j <= Len(s)
    <3>1. i \in DOMAIN s /\ j \in DOMAIN s /\ s[i] = s[j]
      BY <1>1, <1>2, <1>4, <2>1
    <3>. QED
      BY <3>1 DEF IsInjective
  <2>2. CASE ~(i <= Len(s)) /\ ~(j <= Len(s))
    <3>1. i - Len(s) \in DOMAIN t /\ j - Len(s) \in DOMAIN t /\ t[i - Len(s)] = t[j - Len(s)]
      BY <1>1, <1>2, <1>4, <2>2
    <3>2. i - Len(s) = j - Len(s)
      BY <3>1 DEF IsInjective
    <3>. QED
      BY <1>1, <3>2
  <2>3. CASE i <= Len(s) /\ ~(j <= Len(s))
    <3>1. i \in 1 .. Len(s) /\ j - Len(s) \in 1 .. Len(t) /\ s[i] = t[j - Len(s)]
      BY <1>1, <1>2, <1>4, <2>3
    <3>. QED
      BY <1>3, <3>1
  <2>4. CASE ~(i <= Len(s)) /\ j <= Len(s)
    <3>1. j \in 1 .. Len(s) /\ i - Len(s) \in 1 .. Len(t) /\ s[j] = t[i - Len(s)]
      BY <1>1, <1>2, <1>4, <2>4
    <3>. QED
      BY <1>3, <3>1
  <2>. QED
    BY <2>1, <2>2, <2>3, <2>4
<1>. QED
  BY <1>1, <1>4 DEF IsInjective

LEMMA FlattenIsDistinct ==
  ASSUME NEW S, NEW seqs \in Seq(Seq(S)), \A i \in DOMAIN seqs : IsInjective(seqs[i]),
         \A i, j \in DOMAIN seqs : i # j => ToSet(seqs[i]) \cap ToSet(seqs[j]) = {}
  PROVE  IsInjective(FlattenSeq(seqs))
<1>1. CASE seqs = << >>
  BY <1>1 DEF FlattenSeq, IsInjective
<1>2. CASE seqs # << >>
  <2>. DEFINE n == Len(seqs)
  <2>1. PICK f : Flattens(seqs, f, n) /\ FlattenSeq(seqs) = f[n]
    BY <1>2, FlattenUnfolds
  <2>2. n \in Nat /\ n >= 1 /\ DOMAIN seqs = 1 .. n
    BY <1>2
  <2>. DEFINE Fine == {m \in Nat : /\ m \in 1 .. n /\ f[m] \in Seq(S) /\ IsInjective(f[m])
                                   /\ \A x : x \in ToSet(f[m]) <=> \E i \in 1 .. m : x \in ToSet(seqs[i])}
  <2>3. 1 \in Fine
    <3>1. f[1] = seqs[1] /\ 1 \in 1 .. n /\ seqs[1] \in Seq(S) /\ 1 .. 1 = {1} /\ IsInjective(seqs[1])
      BY <2>1, <2>2 DEF Flattens
    <3>. QED
      BY <3>1
  <2>4. ASSUME NEW m \in 1 .. n - 1, m \in Fine PROVE m + 1 \in Fine
    <3>1. m + 1 \in 1 .. n /\ m + 1 # 1 /\ (m + 1) - 1 = m /\ 1 .. m + 1 = 1 .. m \cup {m + 1}
          /\ m + 1 \notin 1 .. m /\ 1 .. m \subseteq 1 .. n
      BY <2>2
    <3>2. f[m + 1] = f[m] \o seqs[m + 1]
      BY <2>1, <3>1 DEF Flattens
    <3>3. seqs[m + 1] \in Seq(S) /\ f[m] \in Seq(S) /\ IsInjective(f[m]) /\ IsInjective(seqs[m + 1])
      <4>1. f[m] \in Seq(S) /\ IsInjective(f[m])
        BY <2>4
      <4>2. m + 1 \in DOMAIN seqs
        BY <2>2, <3>1
      <4>. HIDE DEF Fine
      <4>3. IsInjective(seqs[m + 1])
        BY <4>2
      <4>4. seqs[m + 1] \in Seq(S)
        BY <4>2
      <4>. QED
        BY <4>1, <4>3, <4>4
    <3>4. ToSet(f[m + 1]) = ToSet(f[m]) \cup ToSet(seqs[m + 1])
      BY <3>2, <3>3, AppendedIs
    <3>5. \A x : x \in ToSet(f[m]) <=> \E i \in 1 .. m : x \in ToSet(seqs[i])
      BY <2>4
    <3>6. \A x : x \in ToSet(f[m + 1]) <=> \E i \in 1 .. m + 1 : x \in ToSet(seqs[i])
      BY <3>1, <3>4, <3>5
    <3>7. \A i \in 1 .. m : ToSet(seqs[i]) \cap ToSet(seqs[m + 1]) = {}
      BY <2>2, <3>1
    <3>8. ToSet(f[m]) \cap ToSet(seqs[m + 1]) = {}
      BY <3>5, <3>7
    <3>9. f[m + 1] \in Seq(S) /\ m + 1 \in Nat /\ IsInjective(f[m + 1])
      BY <3>1, <3>2, <3>3, <3>8, AppendedIsDistinct
    <3>. QED
      BY <3>1, <3>6, <3>9
  <2>5. n \in Fine
    <3>. HIDE DEF Fine
    <3>1. 1 .. n \subseteq Fine
      BY <2>2, <2>3, <2>4, UpTo
    <3>. QED
      BY <2>2, <3>1
  <2>. QED
    BY <2>1, <2>5
<1>. QED
  BY <1>1, <1>2

LEMMA DistinctCounts ==
  ASSUME NEW S, NEW s \in Seq(S), IsInjective(s)
  PROVE  Cardinality(ToSet(s)) = Len(s)
<1>1. Len(s) \in Nat /\ DOMAIN s = 1 .. Len(s)
  OBVIOUS
<1>2. s \in Bijection(1 .. Len(s), ToSet(s))
  <2>1. s \in [1 .. Len(s) -> ToSet(s)]
    BY <1>1 DEF ToSet
  <2>2. \A a, b \in 1 .. Len(s) : s[a] = s[b] => a = b
    BY <1>1 DEF IsInjective
  <2>3. \A t \in ToSet(s) : \E a \in 1 .. Len(s) : s[a] = t
    BY <1>1 DEF ToSet
  <2>. QED
    BY <2>1, <2>2, <2>3 DEF Bijection, Injection, Surjection, IsInjective
<1>3. ExistsBijection(1 .. Len(s), ToSet(s))
  BY <1>2 DEF ExistsBijection
<1>. QED
  BY <1>1, <1>3, FS_CountingElements

-----------------------------------------------------------------------------
(* Lists of class names. *)

(* The first of each. *)
LEMMA FirstOnesIs ==
  ASSUME NEW S, NEW names \in Seq(S)
  PROVE  /\ FirstOnes(names) \in Seq(S) /\ IsInjective(FirstOnes(names))
         /\ ToSet(FirstOnes(names)) = ToSet(names)
<1>. DEFINE Again(i) == \E j \in 1 .. i - 1 : names[j] = names[i]
            parts == [i \in DOMAIN names |-> IF Again(i) THEN << >> ELSE << names[i] >>]
<1>1. DOMAIN names = 1 .. Len(names) /\ Len(names) \in Nat /\ \A i \in 1 .. Len(names) : names[i] \in S
  OBVIOUS
<1>2. parts \in Seq(Seq(S))
  <2>1. \A i \in 1 .. Len(names) : parts[i] \in Seq(S)
    BY <1>1
  <2>. QED
    BY <1>1, <2>1
<1>3. ASSUME NEW i \in DOMAIN names
      PROVE  /\ Again(i) => ToSet(parts[i]) = {}
             /\ ~Again(i) => ToSet(parts[i]) = {names[i]}
             /\ IsInjective(parts[i])
  <2>. HIDE DEF Again
  <2>1. CASE Again(i)
    <3>1. parts[i] = << >>
      BY <2>1
    <3>. QED
      BY <2>1, <3>1 DEF ToSet, IsInjective
  <2>2. CASE ~Again(i)
    <3>1. parts[i] = << names[i] >>
      BY <2>2
    <3>. HIDE DEF parts
    <3>. QED
      BY <2>2, <3>1 DEF ToSet, IsInjective
  <2>. QED
    BY <2>1, <2>2
<1>4. ASSUME NEW i \in DOMAIN names, NEW j \in DOMAIN names, i # j
      PROVE  ToSet(parts[i]) \cap ToSet(parts[j]) = {}
  <2>1. names[i] = names[j] => Again(i) \/ Again(j)
    BY <1>1, <1>4
  <2>. HIDE DEF Again, parts
  <2>. QED
    BY <1>3, <2>1
<1>5. ASSUME NEW i \in DOMAIN names
      PROVE  \E j \in DOMAIN names : names[j] = names[i] /\ ~Again(j)
  <2>. DEFINE Same == {j \in DOMAIN names : names[j] = names[i]}
  <2>1. Same \subseteq Nat /\ i \in Same
    BY <1>1
  <2>2. PICK j \in Same : \A k \in Same : j <= k
    <3>. HIDE DEF Same
    <3>. QED
      BY <2>1, SmallestOf
  <2>3. ~Again(j)
    BY <1>1, <2>2
  <2>. HIDE DEF Again
  <2>. QED
    BY <2>2, <2>3
<1>6. FirstOnes(names) = FlattenSeq(parts) /\ DOMAIN parts = DOMAIN names
  BY DEF FirstOnes
<1>. HIDE DEF parts
<1>7. FirstOnes(names) \in Seq(S) /\ IsInjective(FirstOnes(names))
  BY <1>2, <1>3, <1>4, <1>6, FlattenIs, FlattenIsDistinct
<1>8. ASSUME NEW x
      PROVE  x \in ToSet(FirstOnes(names)) <=> x \in ToSet(names)
  <2>1. x \in ToSet(FirstOnes(names)) <=> \E i \in DOMAIN names : x \in ToSet(parts[i])
    BY <1>2, <1>6, FlattenIs
  <2>2. x \in ToSet(names) <=> \E i \in DOMAIN names : x = names[i]
    BY DEF ToSet
  <2>3. ASSUME NEW i \in DOMAIN names, x \in ToSet(parts[i]) PROVE x = names[i]
    BY <1>3, <2>3
  <2>4. ASSUME NEW i \in DOMAIN names, x = names[i] PROVE \E j \in DOMAIN names : x \in ToSet(parts[j])
    <3>1. PICK j \in DOMAIN names : names[j] = names[i] /\ ~Again(j)
      BY <1>5
    <3>. HIDE DEF Again
    <3>. QED
      BY <1>3, <2>4, <3>1
  <2>. HIDE DEF Again
  <2>. QED
    BY <2>1, <2>2, <2>3, <2>4
<1>. QED
  BY <1>7, <1>8

LEMMA MatchesAreAvailable ==
  ASSUME NameOrder \in Seq(Seq(STRING)), NEW pattern, NEW available
  PROVE  /\ MatchesOf(pattern, available) \in Seq(Seq(STRING))
         /\ ToSet(MatchesOf(pattern, available)) \subseteq available
<1>. DEFINE Hit(i) == NameOrder[i] \in available /\ Fnmatch(pattern, NameOrder[i])
            parts == [i \in DOMAIN NameOrder |-> IF Hit(i) THEN << NameOrder[i] >> ELSE << >>]
<1>1. DOMAIN NameOrder = 1 .. Len(NameOrder) /\ Len(NameOrder) \in Nat
      /\ \A i \in 1 .. Len(NameOrder) : NameOrder[i] \in Seq(STRING)
  OBVIOUS
<1>2. ASSUME NEW i \in DOMAIN NameOrder
      PROVE  parts[i] \in Seq(Seq(STRING)) /\ ToSet(parts[i]) \subseteq available
  <2>1. CASE Hit(i)
    <3>1. parts[i] = << NameOrder[i] >> /\ NameOrder[i] \in available
      BY <2>1
    <3>. HIDE DEF parts, Hit
    <3>. QED
      BY <1>1, <3>1 DEF ToSet
  <2>2. CASE ~Hit(i)
    <3>1. parts[i] = << >>
      BY <2>2
    <3>. HIDE DEF parts, Hit
    <3>. QED
      BY <3>1 DEF ToSet
  <2>. QED
    BY <2>1, <2>2
<1>3. parts \in Seq(Seq(Seq(STRING))) /\ DOMAIN parts = DOMAIN NameOrder
  <2>. HIDE DEF Hit
  <2>. QED
    BY <1>1, <1>2
<1>4. MatchesOf(pattern, available) = FlattenSeq(parts)
  BY DEF MatchesOf
<1>. HIDE DEF parts
<1>. QED
  BY <1>2, <1>3, <1>4, FlattenIs

LEMMA ExpansionIs ==
  ASSUME NameOrder \in Seq(Seq(STRING)), NEW refs \in Seq(Seq(STRING)), NEW available
  PROVE  LET whole == Expansion(refs, available) IN
         /\ whole \in Seq(Seq(STRING))
         /\ \A i \in DOMAIN refs : Literal(refs[i], available) => refs[i] \in ToSet(whole)
         /\ \A n \in ToSet(whole) : n \in available \/ Literal(n, available)
<1>. DEFINE parts == [i \in DOMAIN refs |->
                        IF Literal(refs[i], available) THEN << refs[i] >>
                        ELSE MatchesOf(refs[i], available)]
<1>1. DOMAIN refs = 1 .. Len(refs) /\ Len(refs) \in Nat
      /\ \A i \in 1 .. Len(refs) : refs[i] \in Seq(STRING)
  OBVIOUS
<1>2. ASSUME NEW i \in DOMAIN refs
      PROVE  /\ parts[i] \in Seq(Seq(STRING))
             /\ Literal(refs[i], available) => refs[i] \in ToSet(parts[i])
             /\ \A n \in ToSet(parts[i]) : n \in available \/ Literal(n, available)
  <2>1. CASE Literal(refs[i], available)
    <3>1. parts[i] = << refs[i] >>
      BY <2>1
    <3>2. ToSet(<< refs[i] >>) = {refs[i]}
      BY DEF ToSet
    <3>3. << refs[i] >> \in Seq(Seq(STRING))
      BY <1>1
    <3>. HIDE DEF parts
    <3>. QED
      BY <2>1, <3>1, <3>2, <3>3
  <2>2. CASE ~Literal(refs[i], available)
    <3>1. parts[i] = MatchesOf(refs[i], available)
      BY <2>2
    <3>. HIDE DEF parts
    <3>. QED
      BY <2>2, <3>1, MatchesAreAvailable
  <2>. QED
    BY <2>1, <2>2
<1>3. DOMAIN parts = DOMAIN refs /\ Expansion(refs, available) = FlattenSeq(parts)
  BY DEF Expansion
<1>4. parts \in Seq(Seq(Seq(STRING)))
  BY <1>1, <1>2
<1>. HIDE DEF parts
<1>5. /\ FlattenSeq(parts) \in Seq(Seq(STRING))
      /\ \A x : x \in ToSet(FlattenSeq(parts)) <=> \E i \in DOMAIN refs : x \in ToSet(parts[i])
  BY <1>3, <1>4, FlattenIs
<1>. QED
  BY <1>2, <1>3, <1>5

-----------------------------------------------------------------------------
(* No file has a name that is a pattern. *)
PlainNames == \A p \in Universe, i \in Nat : i \in DOMAIN p.at => p.at[i] # "*"

LEMMA AvailableAreNames ==
  ASSUME PlainNames, NEW S \in SUBSET Universe, NEW n \in Available(S)
  PROVE  ~IsPattern(n)
<1>1. PICK p \in S : IsYaml(p) /\ Under(p, ClassesDir) /\ n = ClassNameOf(p)
  BY DEF Available, ClassFiles
<1>2. p.at \in Seq(STRING) /\ \A i \in DOMAIN p.at : p.at[i] # "*"
  <2>1. p.at \in Seq(STRING)
    BY TreeAssumption
  <2>2. DOMAIN p.at \subseteq Nat
    BY <2>1
  <2>. QED
    BY <2>1, <2>2 DEF PlainNames
<1>3. p.at # << >>
  <2>1. p # ClassesDir
    <3>1. p.ext # ""
      BY <1>1 DEF IsYaml
    <3>2. ClassesDir.ext = ""
      BY DEF ClassesDir, Dir
    <3>. QED
      BY <3>1, <3>2
  <2>2. PICK m \in 0 .. Len(p.at) - 1 : ClassesDir = Dir(SubSeq(p.at, 1, m))
    BY <1>1, <2>1 DEF Under, Above
  <2>. QED
    BY <1>2, <2>2
<1>. DEFINE parts == Tail(p.at)
<1>4. parts \in Seq(STRING) /\ \A i \in DOMAIN parts : parts[i] # "*"
  <2>1. Len(p.at) \in Nat /\ Len(p.at) # 0 /\ DOMAIN p.at = 1 .. Len(p.at)
    BY <1>2, <1>3
  <2>. DEFINE loc == p.at
  <2>a. loc \in Seq(STRING) /\ loc # << >>
    BY <1>2, <1>3
  <2>b. Tail(loc) \in Seq(STRING) /\ Len(Tail(loc)) = Len(loc) - 1
        /\ \A i \in 1 .. Len(loc) - 1 : Tail(loc)[i] = loc[i + 1]
    <3>. HIDE DEF loc
    <3>. QED
      BY <2>a
  <2>2. parts \in Seq(STRING) /\ Len(parts) = Len(p.at) - 1
        /\ \A i \in 1 .. Len(p.at) - 1 : parts[i] = p.at[i + 1]
    BY <2>b
  <2>3. \A i \in 1 .. Len(p.at) - 1 : i + 1 \in DOMAIN p.at
    BY <2>1
  <2>4. DOMAIN parts = 1 .. Len(p.at) - 1
    BY <2>1, <2>2
  <2>. HIDE DEF parts
  <2>. QED
    BY <1>2, <2>2, <2>3, <2>4
<1>5. n = parts \/ (Len(parts) > 1 /\ n = Front(parts))
  BY <1>1 DEF ClassNameOf
<1>. HIDE DEF parts
<1>6. CASE n = parts
  BY <1>4, <1>6 DEF IsPattern
<1>7. CASE Len(parts) > 1 /\ n = Front(parts)
  <2>1. n = SubSeq(parts, 1, Len(parts) - 1)
    BY <1>7 DEF Front
  <2>2. DOMAIN parts = 1 .. Len(parts) /\ Len(parts) \in Nat
    BY <1>4
  <2>3. DOMAIN n = 1 .. Len(parts) - 1 /\ \A i \in 1 .. Len(parts) - 1 : n[i] = parts[i]
    BY <1>4, <1>7, <2>1, <2>2
  <2>4. 1 .. Len(parts) - 1 \subseteq DOMAIN parts
    BY <2>2
  <2>. QED
    BY <1>4, <2>3, <2>4 DEF IsPattern
<1>. QED
  BY <1>5, <1>6, <1>7

(* Where no file is named like a pattern, an expanded list names a class   *)
(* once, keeps every entry that is no pattern, holds no pattern and stays  *)
(* as it is when it is expanded again, whatever files come and go          *)
(* (expand_class_patterns).                                                *)
THEOREM ExpansionsSettle == PlainNames => (TreeSpec => []ExpansionSettles)
<1>. SUFFICES ASSUME PlainNames PROVE TreeSpec => []ExpansionSettles
  OBVIOUS
<1>1. InitTree => exists \in SUBSET Universe
  BY DEF InitTree
<1>2. exists \in SUBSET Universe /\ [NextTree]_exists => (exists \in SUBSET Universe)'
  BY DEF NextTree, Create, Delete
<1>3. exists \in SUBSET Universe => ExpansionSettles
  <2>. SUFFICES ASSUME exists \in SUBSET Universe, NEW refs \in ClassLists, HasPatterns(refs)
                PROVE  LET names == ExpandPatterns(refs, exists)
                       IN  /\ Cardinality(ToSet(names)) = Len(names)
                           /\ \A i \in DOMAIN refs : ~IsPattern(refs[i]) => Contains(names, refs[i])
                           /\ \A n \in ToSet(names) : ~IsPattern(n)
                           /\ ExpandPatterns(names, exists) = names
    BY DEF ExpansionSettles
  <2>. DEFINE whole == Expansion(refs, Available(exists))
              names == ExpandPatterns(refs, exists)
  <2>1. refs \in Seq(Seq(STRING)) /\ NameOrder \in Seq(Seq(STRING))
    BY TreeAssumption
  <2>2. /\ whole \in Seq(Seq(STRING))
        /\ \A i \in DOMAIN refs : Literal(refs[i], Available(exists)) => refs[i] \in ToSet(whole)
        /\ \A n \in ToSet(whole) : n \in Available(exists) \/ Literal(n, Available(exists))
    BY <2>1, ExpansionIs
  <2>3. names = FirstOnes(whole)
    BY DEF ExpandPatterns
  <2>. HIDE DEF whole
  <2>4. names \in Seq(Seq(STRING)) /\ IsInjective(names) /\ ToSet(names) = ToSet(whole)
    BY <2>2, <2>3, FirstOnesIs
  <2>. HIDE DEF names
  <2>5. Cardinality(ToSet(names)) = Len(names)
    BY <2>4, DistinctCounts
  <2>6. ASSUME NEW n \in ToSet(names) PROVE ~IsPattern(n)
    BY <2>2, <2>4, AvailableAreNames DEF Literal
  <2>7. ASSUME NEW i \in DOMAIN refs, ~IsPattern(refs[i]) PROVE Contains(names, refs[i])
    <3>1. refs[i] \in ToSet(names)
      BY <2>2, <2>4, <2>7 DEF Literal
    <3>. QED
      BY <2>4, <3>1 DEF ToSet, Contains
  <2>8. ExpandPatterns(names, exists) = names
    <3>1. ~HasPatterns(names)
      BY <2>6 DEF HasPatterns, ToSet
    <3>. QED
      BY <3>1 DEF ExpandPatterns
  <2>. QED
    BY <2>5, <2>6, <2>7, <2>8 DEF names
<1>. QED
  BY <1>1, <1>2, <1>3, PTL DEF TreeSpec

-----------------------------------------------------------------------------
(* How daemons start and end.  A starter that has found a socket dead, or  *)
(* means to remove it, must not be overtaken by somebody who binds it, and *)
(* only starters bind.                                                     *)

Labels == {"exited", "probe", "replace", "list", "sweep", "bind", "bound",
           "serving", "closing", "joining"}

Typed ==
    /\ file \in [Build -> Daemons \cup {None, Dead}]
    /\ pc \in [Daemons -> Labels]
    /\ build \in [Daemons -> Build]
    /\ doomed \in [Daemons -> SUBSET Build]
    /\ BuildOf \in [Clients -> Build]

(* A daemon owns its socket file from bind(2) until it removes it. *)
Holds(d) == pc[d] \in {"bound", "serving", "closing"}
HoldersOwn == \A d \in Daemons : Holds(d) => file[build[d]] = d

OneStarter == \A d, e \in Daemons : InStart(d) /\ InStart(e) => d = e

(* The files a starter is about to remove are nobody's. *)
Free(b) == \A e \in Daemons : Holds(e) => build[e] # b
RemovesFree ==
    \A d \in Daemons : /\ pc[d] = "replace" => Free(build[d])
                       /\ pc[d] = "sweep" => \A b \in doomed[d] : Free(b)

Ordered == HoldersOwn /\ OneStarter /\ RemovesFree
Safe == Typed /\ (~raced => Ordered)

-----------------------------------------------------------------------------
LEMMA InitSafe == InitLife => Safe
<1> SUFFICES ASSUME InitLife PROVE Safe
  OBVIOUS
<1>1. BuildOf \in [Clients -> Build] /\ (CHOOSE c \in Clients : TRUE) \in Clients
  BY LifecycleAssumption DEF InitLife
<1>2. Typed
  BY <1>1 DEF InitLife, Typed, Labels
<1>3. Ordered
  BY DEF InitLife, Ordered, HoldersOwn, OneStarter, RemovesFree, Holds, InStart
<1> QED
  BY <1>2, <1>3 DEF Safe

(* A process that ends takes nobody's file but its own. *)
LEMMA ExitSafe ==
  ASSUME Safe, NEW d \in Daemons, Goto(d, "exited"),
         file' = [b \in Build |-> IF file[b] = d THEN Dead ELSE file[b]],
         doomed' = [doomed EXCEPT ![d] = {}], UNCHANGED << build, BuildOf, raced >>
  PROVE  Safe'
<1> USE DEF Goto
<1>1. Typed'
  BY DEF Safe, Typed, Labels
<1>2. ASSUME ~raced PROVE Ordered'
  <2> USE <1>2 DEF Safe, Ordered, Typed
  <2>1. \A e \in Daemons : (Holds(e)' => Holds(e) /\ e # d) /\ (InStart(e)' => InStart(e))
    BY DEF Holds, InStart
  <2>2. HoldersOwn'
    BY <2>1 DEF HoldersOwn
  <2>3. OneStarter'
    BY <2>1 DEF OneStarter
  <2>4. RemovesFree'
    BY <2>1 DEF RemovesFree, Free
  <2> QED
    BY <2>2, <2>3, <2>4
<1> QED
  BY <1>1, <1>2 DEF Safe

LEMMA ProbeSafe == ASSUME Safe, NEW d \in Daemons, Probe(d) PROVE Safe'
<1> USE DEF Goto
<1>1. CASE Alive(build[d])
  BY <1>1, ExitSafe DEF Probe, Exit
<1>2. CASE ~Alive(build[d])
  <2>1. /\ pc[d] = "probe"
        /\ pc' = [pc EXCEPT ![d] = IF file[build[d]] = None THEN "list" ELSE "replace"]
        /\ UNCHANGED << file, build, doomed, BuildOf, raced >>
    BY <1>2 DEF Probe, clientVars
  <2>2. Typed'
    BY <2>1 DEF Safe, Typed, Labels
  <2>3. ASSUME ~raced PROVE Ordered'
    <3> USE <2>1, <2>3 DEF Safe, Ordered, Typed
    <3>1. \A e \in Daemons : (Holds(e)' <=> Holds(e)) /\ (InStart(e)' <=> InStart(e))
      BY DEF Holds, InStart
    <3>2. HoldersOwn' /\ OneStarter'
      BY <3>1 DEF HoldersOwn, OneStarter
    <3>3. \A e \in Daemons : Holds(e) => build[e] # build[d]
      BY <1>2 DEF Alive, Listening, Holds, HoldersOwn, OneStarter, InStart
    <3>4. RemovesFree'
      BY <3>1, <3>3 DEF RemovesFree, Free
    <3> QED
      BY <3>2, <3>4
  <2> QED
    BY <2>1, <2>2, <2>3 DEF Safe
<1> QED
  BY <1>1, <1>2

LEMMA ReplaceSafe == ASSUME Safe, NEW d \in Daemons, Replace(d) PROVE Safe'
<1> USE DEF Goto, Unlink
<1>1. CASE file[build[d]] = None
  BY <1>1, ExitSafe DEF Replace, Exit
<1>2. CASE file[build[d]] # None
  <2>1. /\ pc[d] = "replace"
        /\ pc' = [pc EXCEPT ![d] = "list"]
        /\ file' = [file EXCEPT ![build[d]] = None]
        /\ UNCHANGED << build, doomed, BuildOf, raced >>
    BY <1>2 DEF Replace, clientVars
  <2>2. Typed'
    BY <2>1 DEF Safe, Typed, Labels
  <2>3. ASSUME ~raced PROVE Ordered'
    <3> USE <2>1, <2>3 DEF Safe, Ordered, Typed
    <3>1. \A e \in Daemons : (Holds(e)' <=> Holds(e)) /\ (InStart(e)' <=> InStart(e))
      BY DEF Holds, InStart
    <3>2. HoldersOwn'
      BY <3>1 DEF HoldersOwn, RemovesFree, Free
    <3>3. OneStarter' /\ RemovesFree'
      BY <3>1 DEF OneStarter, RemovesFree, Free
    <3> QED
      BY <3>2, <3>3
  <2> QED
    BY <2>1, <2>2, <2>3 DEF Safe
<1> QED
  BY <1>1, <1>2

LEMMA ListDeadSafe == ASSUME Safe, NEW d \in Daemons, ListDead(d) PROVE Safe'
<1> USE DEF Goto
<1>1. /\ pc[d] = "list" /\ pc' = [pc EXCEPT ![d] = "sweep"]
      /\ doomed' = [doomed EXCEPT ![d] = DeadSockets]
      /\ UNCHANGED << file, build, BuildOf, raced >>
  BY DEF ListDead, clientVars
<1>2. Typed'
  BY <1>1 DEF Safe, Typed, Labels, DeadSockets, EverySocket
<1>3. ASSUME ~raced PROVE Ordered'
  <2> USE <1>1, <1>3 DEF Safe, Ordered, Typed
  <2>1. \A e \in Daemons : (Holds(e)' <=> Holds(e)) /\ (InStart(e)' <=> InStart(e))
    BY DEF Holds, InStart
  <2>2. \A b \in DeadSockets : Free(b)
    BY DEF DeadSockets, EverySocket, Alive, Listening, Free, Holds, HoldersOwn, OneStarter,
           InStart
  <2>3. HoldersOwn' /\ OneStarter'
    BY <2>1 DEF HoldersOwn, OneStarter
  <2>4. RemovesFree'
    BY <2>1, <2>2 DEF RemovesFree, Free
  <2> QED
    BY <2>3, <2>4
<1> QED
  BY <1>1, <1>2, <1>3 DEF Safe

LEMMA SweepSafe == ASSUME Safe, NEW d \in Daemons, Sweep(d) PROVE Safe'
<1> USE DEF Goto, Unlink
<1>1. CASE doomed[d] = {} /\ pc' = [pc EXCEPT ![d] = "bind"] /\ UNCHANGED << file, doomed >>
  <2>1. pc[d] = "sweep" /\ UNCHANGED << build, BuildOf, raced >>
    BY DEF Sweep, clientVars
  <2>2. \A e \in Daemons : (Holds(e)' <=> Holds(e)) /\ (InStart(e)' <=> InStart(e))
    BY <1>1, <2>1 DEF Holds, InStart, Safe, Typed
  <2> QED
    BY <1>1, <2>1, <2>2 DEF Safe, Typed, Labels, Ordered, HoldersOwn, OneStarter, RemovesFree, Free
<1>2. ASSUME NEW b \in doomed[d], file' = [file EXCEPT ![b] = None],
             doomed' = [doomed EXCEPT ![d] = @ \ {b}], UNCHANGED pc
      PROVE  Safe'
  <2>1. pc[d] = "sweep" /\ UNCHANGED << build, BuildOf, raced >>
    BY DEF Sweep, clientVars
  <2>2. \A e \in Daemons : (Holds(e)' <=> Holds(e)) /\ (InStart(e)' <=> InStart(e))
    BY <1>2, <2>1 DEF Holds, InStart
  <2>3. Typed'
    BY <1>2, <2>1 DEF Safe, Typed
  <2>4. ASSUME ~raced PROVE Ordered'
    <3> USE <1>2, <2>1, <2>2, <2>4 DEF Safe, Ordered, Typed, RemovesFree, Free
    <3>1. HoldersOwn'
      BY DEF HoldersOwn
    <3>2. OneStarter'
      BY DEF OneStarter
    <3>3. RemovesFree'
      OBVIOUS
    <3> QED
      BY <3>1, <3>2, <3>3
  <2> QED
    BY <2>1, <2>3, <2>4 DEF Safe
<1> QED
  BY <1>1, <1>2 DEF Sweep

LEMMA BindSafe == ASSUME Safe, NEW d \in Daemons, Bind(d) PROVE Safe'
<1> USE DEF Goto
<1>1. CASE file[build[d]] # None
  BY <1>1, ExitSafe DEF Bind, Exit
<1>2. CASE file[build[d]] = None
  <2>1. /\ pc[d] = "bind"
        /\ pc' = [pc EXCEPT ![d] = "bound"]
        /\ file' = [file EXCEPT ![build[d]] = d]
        /\ UNCHANGED << build, doomed, BuildOf, raced >>
    BY <1>2 DEF Bind, clientVars
  <2>2. Typed'
    BY <2>1 DEF Safe, Typed, Labels
  <2>3. ASSUME ~raced PROVE Ordered'
    <3> USE <2>1, <2>3 DEF Safe, Ordered, Typed
    <3>1. \A e \in Daemons : /\ Holds(e)' <=> Holds(e) \/ e = d
                             /\ InStart(e)' <=> InStart(e)
      BY DEF Holds, InStart
    <3>2. HoldersOwn'
      BY <1>2, <3>1, LifecycleAssumption DEF HoldersOwn
    <3>3. OneStarter'
      BY <3>1 DEF OneStarter
    <3>4. \A e \in Daemons : pc'[e] \notin {"replace", "sweep"}
      BY DEF OneStarter, InStart
    <3>5. RemovesFree'
      BY <3>4 DEF RemovesFree
    <3> QED
      BY <3>2, <3>3, <3>5
  <2> QED
    BY <2>1, <2>2, <2>3 DEF Safe
<1> QED
  BY <1>1, <1>2

(* Listen and Break: a holder goes on holding. *)
LEMMA HolderGoesOn ==
  ASSUME Safe, NEW d \in Daemons, NEW label \in {"serving", "closing"}, Holds(d),
         pc' = [pc EXCEPT ![d] = label], UNCHANGED << file, build, doomed, BuildOf, raced >>
  PROVE  Safe'
<1>1. \A e \in Daemons : (Holds(e)' <=> Holds(e)) /\ (InStart(e)' => InStart(e))
  BY DEF Holds, InStart, Safe, Typed
<1>2. Typed'
  BY DEF Safe, Typed, Labels
<1>3. ASSUME ~raced PROVE Ordered'
  BY <1>1, <1>3 DEF Safe, Typed, Ordered, HoldersOwn, OneStarter, RemovesFree, Free
<1> QED
  BY <1>2, <1>3 DEF Safe

LEMMA CloseSafe == ASSUME Safe, NEW d \in Daemons, Close(d) PROVE Safe'
<1>1. /\ pc[d] = "closing"
      /\ pc' = [pc EXCEPT ![d] = "joining"]
      /\ file' = [file EXCEPT ![build[d]] = None]
      /\ UNCHANGED << build, doomed, BuildOf, raced >>
  BY DEF Close, Goto, Unlink, clientVars
<1>2. Typed'
  BY <1>1 DEF Safe, Typed, Labels
<1>3. ASSUME ~raced PROVE Ordered'
  <2> USE <1>1, <1>3 DEF Safe, Ordered, Typed
  <2>1. \A e \in Daemons : /\ Holds(e)' => Holds(e) /\ e # d
                           /\ InStart(e)' <=> InStart(e)
    BY DEF Holds, InStart
  <2>2. HoldersOwn'
    BY <2>1 DEF HoldersOwn, Holds
  <2>3. OneStarter' /\ RemovesFree'
    BY <2>1 DEF OneStarter, RemovesFree, Free
  <2> QED
    BY <2>2, <2>3
<1> QED
  BY <1>1, <1>2, <1>3 DEF Safe

LEMMA SpawnSafe == ASSUME Safe, NEW c \in Clients, Spawn(c) PROVE Safe'
<1>1. PICK d \in Daemons : /\ pc[d] = "exited"
                           /\ pc' = [pc EXCEPT ![d] = "probe"]
                           /\ build' = [build EXCEPT ![d] = BuildOf[c]]
  BY DEF Spawn, Goto
<1>2. /\ UNCHANGED << file, doomed, BuildOf >>
      /\ raced' = (raced \/ \E e \in Daemons : InStart(e))
  BY DEF Spawn
<1>3. Typed'
  BY <1>1, <1>2 DEF Safe, Typed, Labels
<1>4. ASSUME ~raced' PROVE Ordered'
  <2> USE <1>1, <1>2, <1>4 DEF Safe, Ordered, Typed
  <2>1. ~raced /\ \A e \in Daemons : ~InStart(e)
    OBVIOUS
  <2>2. \A e \in Daemons : /\ Holds(e)' => Holds(e) /\ e # d
                           /\ InStart(e)' <=> e = d
    BY <2>1 DEF Holds, InStart
  <2>3. HoldersOwn'
    BY <2>1, <2>2 DEF HoldersOwn
  <2>4. OneStarter'
    BY <2>2 DEF OneStarter
  <2>5. \A e \in Daemons : pc'[e] \notin {"replace", "sweep"}
    BY <2>2 DEF InStart
  <2>6. RemovesFree'
    BY <2>5 DEF RemovesFree
  <2> QED
    BY <2>3, <2>4, <2>6
<1> QED
  BY <1>3, <1>4 DEF Safe

(* Everything else leaves the files and the daemons' steps alone. *)
LEMMA OthersSafe ==
  ASSUME Safe, UNCHANGED << file, pc, build, doomed, BuildOf, raced >> PROVE Safe'
  BY DEF Safe, Typed, Ordered, HoldersOwn, OneStarter, RemovesFree, Free, Holds, InStart

LEMMA SafeInductive == Safe /\ [NextLife]_lifeVars => Safe'
<1> SUFFICES ASSUME Safe, [NextLife]_lifeVars PROVE Safe'
  OBVIOUS
<1>1. ASSUME NEW d \in Daemons, Starting(d) PROVE Safe'
  <2>1. CASE Listen(d)
    BY <2>1, HolderGoesOn DEF Listen, Goto, clientVars, Holds
  <2> QED
    BY <1>1, <2>1, ProbeSafe, ReplaceSafe, ListDeadSafe, SweepSafe, BindSafe DEF Starting
<1>2. ASSUME NEW d \in Daemons, Serving(d) PROVE Safe'
  <2>1. CASE Break(d)
    BY <2>1, HolderGoesOn DEF Break, Goto, clientVars, Holds
  <2>2. CASE End(d)
    BY <2>2, ExitSafe DEF End, Exit
  <2> QED
    BY <1>2, <2>1, <2>2, CloseSafe DEF Serving
<1>3. ASSUME NEW d \in Daemons, Crash(d) PROVE Safe'
  BY <1>3, ExitSafe DEF Crash
<1>4. ASSUME NEW d \in Daemons, ConfigChange(d) PROVE Safe'
  BY <1>4, OthersSafe DEF ConfigChange, clientVars
<1>5. ASSUME NEW b \in Build, Shutdown(b) PROVE Safe'
  BY <1>5, OthersSafe DEF Shutdown, clientVars
<1>6. ASSUME NEW c \in Clients, TryExisting(c) PROVE Safe'
  BY <1>6, OthersSafe DEF TryExisting, daemonVars
<1>7. ASSUME NEW c \in Clients, Attempt(c) PROVE Safe'
  <2>1. CASE Await(c) \/ GiveUpWaiting(c) \/ Connect(c)
    BY <2>1, OthersSafe DEF Await, GiveUpWaiting, Connect, daemonVars
  <2> QED
    BY <1>7, <2>1, SpawnSafe DEF Attempt
<1>8. ASSUME NEW c \in Clients, Leave(c) PROVE Safe'
  BY <1>8, OthersSafe DEF Leave, daemonVars
<1>9. CASE UNCHANGED lifeVars
  BY <1>9, OthersSafe DEF lifeVars
<1> QED
  BY <1>1, <1>2, <1>3, <1>4, <1>5, <1>6, <1>7, <1>8, <1>9 DEF NextLife

(* A daemon that serves owns the socket file of its build, unless starts   *)
(* overlapped: no close, sweep, crash or start of another takes it away    *)
(* (rpc.rs:39-54, 82; paths.rs:52-75).                                     *)
THEOREM ServersAreReachable == LifeSpec => []ServersReachable
<1>1. Safe => ServersReachable
  BY DEF Safe, Ordered, HoldersOwn, Holds, ServersReachable
<1> QED
  BY InitSafe, SafeInductive, <1>1, PTL DEF LifeSpec

(* So no two daemons serve one build (SRV-16).                             *)
THEOREM DaemonsAreUnique == LifeSpec => []OneDaemonPerBuild
<1>1. Safe => OneDaemonPerBuild
  BY DEF Safe, Ordered, HoldersOwn, Holds, OneDaemonPerBuild, ExactlyOneSurvives, Running
<1> QED
  BY InitSafe, SafeInductive, <1>1, PTL DEF LifeSpec
=============================================================================
