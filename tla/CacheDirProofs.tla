---------------------------- MODULE CacheDirProofs ----------------------------
(***************************************************************************)
(* EnvironmentsAreExact, RememberedIsTrue and ChoiceIsRight of             *)
(* Interpreters, for any number of compiles, interpreters, edits and       *)
(* crashes.  The first two rest on what a compile holds in its hands: what *)
(* it builds fits the digest it took unless something moved, and an        *)
(* environment it has found is there.  The third adds what it has seen of  *)
(* the candidates it tried.                                                *)
(*                                                                         *)
(* ChartsAreTrue of CacheDir, for any number of compiles, threads, values, *)
(* charts and crashes: what a thread does is what it was asked for and was *)
(* current when it began, a temporary file belongs to those writing it, and *)
(* a scratch directory to the thread it was handed to.                     *)
(***************************************************************************)
EXTENDS CacheDir, TLAPS

\* What has happened is two things, and most steps leave both as they are.
USE DEF history

Installations == [stamp : 1 .. 2, kadet : 0 .. 2, kapitan : 0 .. 2]
Environments ==
  [there : {TRUE}, base : 1 .. 2, reqs : 1 .. 2, whole : BOOLEAN, marked : BOOLEAN,
   moved : BOOLEAN]
Interps == ({"env"} \X Digest) \cup ({"user"} \X Names)
Entries == [about : [needs : Backends, python : Interps, stamp : 0 .. 2], versions : 0 .. 2]
Runs ==
  [pc : PCs, key : Digest, rest : Seq(Names), python : Interps, versions : 0 .. 2,
   entries : SUBSET Entries, then : {"probe", "versions"}, moved : BOOLEAN]

WorldTyped ==
  /\ job \in Setups /\ Once(job.explicit, job.venvs) \in Seq(Names)
  /\ base \in 1 .. 2 /\ reqs \in 1 .. 2 /\ pythons \in [Names -> Installations]
BuildsTyped == builds \in [Procs -> {NoEnv} \cup Environments]
EnvsTyped == envs \in [Digest -> {NoEnv} \cup Environments]
ProbesTyped == probes \in [whole : BOOLEAN, known : SUBSET Entries]
RunTyped == run \in [Procs -> [pc : {"idle"}] \cup Runs]
Typed == WorldTyped /\ BuildsTyped /\ EnvsTyped /\ ProbesTyped /\ RunTyped

(* What p is building is made from what its digest says, and once it is    *)
(* marked everything is in it.                                             *)
Fit(r, b) ==
  /\ r.pc \in {"look", "venv", "install"} /\ ~r.moved => r.key = Key
  /\ r.pc = "install" /\ b.there /\ ~r.moved => b.base = r.key.base
  /\ r.pc \in {"mark", "rename"} /\ b.there =>
        b.whole /\ (r.moved \/ (b.base = r.key.base /\ b.reqs = r.key.reqs))
  /\ r.pc = "rename" /\ b.there => b.marked
BuildsFit == \A p \in Procs : Fit(run[p], builds[p])

(* An interpreter somebody has at hand or has written about is there. *)
Present(c) == c[1] = "env" => envs[c[2]].there
InHand == \A p \in Active : Present(run[p].python)

(* An entry cannot turn true or false later: it is about an environment    *)
(* that is there, or about a file of the user; python3 changes its stamp   *)
(* when it changes.                                                        *)
Lasting(e) ==
  /\ Present(e.about.python)
  /\ base = 1 /\ e.about.python = Python(System) => e.about.stamp = 1
Written == probes.known \cup UNION {run[p].entries : p \in Active}
EntriesLast == \A e \in Written : Lasting(e)
SystemStamp == base = 1 => pythons[System].stamp = 1

(* Nothing has changed in an interpreter since a compile asked its versions. *)
Honest ==
  \A p \in Procs :
    run[p].pc = "read" => run[p].versions = Installed(run[p].python)[job.needs[p]]
EntriesTrue == \A e \in Written : True(e)

Sound == Typed /\ BuildsFit /\ EnvironmentsAreExact
Truthful == InHand /\ EntriesLast /\ SystemStamp /\ (~unnoticed => Honest /\ EntriesTrue)

-----------------------------------------------------------------------------
LEMMA InitSound == Init => Sound
<1> SUFFICES ASSUME Init PROVE Sound
  OBVIOUS
<1>1. WorldTyped
  <2>1. job \in Setups /\ job \in Jobs
    BY JobsAssumption DEF Init, Setups
  <2>2. job.pythons \in [Names -> [stamp : {1}, kadet : 0 .. 2, kapitan : 0 .. 2]]
    BY <2>1 DEF Setups
  <2>3. [stamp : {1}, kadet : 0 .. 2, kapitan : 0 .. 2] \subseteq Installations
    BY DEF Installations
  <2>4. pythons \in [Names -> Installations]
    BY <2>2, <2>3 DEF Init
  <2>5. Once(job.explicit, job.venvs) \in Seq(Names)
    BY <2>1, CandidatesAssumption, Zenon
  <2>6. base \in 1 .. 2 /\ reqs \in 1 .. 2
    BY DEF Init
  <2> QED
    BY <2>1, <2>4, <2>5, <2>6, Zenon DEF WorldTyped
<1>2. BuildsTyped /\ EnvsTyped /\ ProbesTyped /\ RunTyped
  BY DEF Init, BuildsTyped, EnvsTyped, ProbesTyped, RunTyped
<1>3. BuildsFit /\ EnvironmentsAreExact
  BY DEF Init, BuildsFit, Fit, EnvironmentsAreExact, NoEnv
<1> QED
  BY <1>1, <1>2, <1>3 DEF Sound, Typed

LEMMA TriedNames ==
  ASSUME Typed, NEW p \in Procs PROVE Tried(p) \in Seq(Names)
<1>1. <<System>> \in Seq(Names)
  BY DEF Names
<1>2. Candidates \in Seq(Names)
  BY <1>1 DEF Typed, WorldTyped, Setups, Candidates
<1> QED
  BY <1>2 DEF Typed, WorldTyped, Setups, Tried

LEMMA KeyDigest == ASSUME Typed PROVE Key \in Digest
  BY DEF Typed, WorldTyped, Key, Digest

LEMMA InstalledVersions ==
  ASSUME Typed, NEW c \in Interps
  PROVE  Installed(c) \in [stamp : 0 .. 2, kadet : 0 .. 2, kapitan : 0 .. 2]
<1>1. CASE c[1] = "user"
  <2>1. c[2] \in Names
    BY <1>1 DEF Interps
  <2> QED
    BY <1>1, <2>1 DEF Installed, Typed, WorldTyped, Installations
<1>2. CASE c[1] # "user"
  <2>1. c[2] \in Digest
    BY <1>2 DEF Interps
  <2>2. envs[c[2]] \in {NoEnv} \cup Environments
    BY <2>1 DEF Typed, EnvsTyped
  <2>3. CASE envs[c[2]] = NoEnv
    BY <1>2, <2>3 DEF Installed, NoEnv
  <2>4. CASE envs[c[2]] \in Environments
    <3> DEFINE e == envs[c[2]]
    <3>1. e.base \in 1 .. 2
      BY <2>4 DEF Environments
    <3>2. /\ (IF e.there THEN e.base ELSE 0) \in 0 .. 2
          /\ (IF e.there /\ e.whole THEN 1 ELSE 0) \in 0 .. 2
      BY <3>1
    <3> QED
      BY <1>2, <3>2 DEF Installed
  <2> QED
    BY <2>2, <2>3, <2>4
<1> QED
  BY <1>1, <1>2

LEMMA AboutTyped ==
  ASSUME Typed, NEW p \in Procs, run[p] \in Runs
  PROVE  About(p) \in [needs : Backends, python : Interps, stamp : 0 .. 2]
<1>1. run[p].python \in Interps /\ job.needs[p] \in Backends
  BY DEF Runs, Typed, WorldTyped, Setups
<1> QED
  BY <1>1, InstalledVersions DEF About, Stamp

-----------------------------------------------------------------------------
(* The steps that only p takes: from somewhere, to a run of its own.       *)
LEMMA ActiveRun ==
  ASSUME Typed, NEW p \in Procs, ~At(p, "idle") PROVE run[p] \in Runs
  BY DEF Typed, RunTyped, At

LEMMA GotoIsStep ==
  ASSUME Typed, NEW p \in Procs, NEW pc \in PCs, ~At(p, "idle"), Goto(p, pc)
  PROVE  /\ Step(p, [run[p] EXCEPT !.pc = pc])
         /\ [run[p] EXCEPT !.pc = pc] \in Runs
<1>1. run[p] \in Runs
  BY ActiveRun
<1>2. [run[p] EXCEPT !.pc = pc] \in Runs
  BY <1>1 DEF Runs
<1> QED
  BY <1>2 DEF Typed, RunTyped, Goto, Step

LEMMA StepTyped ==
  ASSUME RunTyped, NEW p \in Procs, NEW r \in [pc : {"idle"}] \cup Runs, Step(p, r)
  PROVE  RunTyped' /\ run'[p] = r /\ \A q \in Procs \ {p} : run'[q] = run[q]
  BY DEF RunTyped, Step

LEMMA NoRun == [pc |-> "idle"] \in [pc : {"idle"}]
  OBVIOUS

Building == {"look", "venv", "install", "mark", "rename"}

(* A step of p, which only touches what it builds itself. *)
LEMMA BuildStep ==
  ASSUME Sound, NEW p \in Procs, NEW r \in [pc : {"idle"}] \cup Runs, Step(p, r),
         NEW b \in {NoEnv} \cup Environments, builds' = [builds EXCEPT ![p] = b], Fit(r, b),
         UNCHANGED << base, reqs >>, WorldTyped', ProbesTyped', EnvsTyped', EnvironmentsAreExact'
  PROVE  Sound'
<1>1. RunTyped' /\ run'[p] = r /\ \A q \in Procs \ {p} : run'[q] = run[q]
  BY StepTyped DEF Sound, Typed
<1>2. BuildsTyped' /\ builds'[p] = b /\ \A q \in Procs \ {p} : builds'[q] = builds[q]
  BY DEF Sound, Typed, BuildsTyped
<1>3. Key' = Key
  BY DEF Key
<1>4. ASSUME NEW q \in Procs PROVE Fit(run[q], builds[q])'
  <2>1. CASE q = p
    BY <1>1, <1>2, <1>3, <2>1 DEF Fit
  <2>2. CASE q # p
    <3>1. Fit(run[q], builds[q])
      BY DEF Sound, BuildsFit
    <3> QED
      BY <1>1, <1>2, <1>3, <2>2, <3>1 DEF Fit
  <2> QED
    BY <2>1, <2>2
<1> QED
  BY <1>1, <1>2, <1>4 DEF Sound, Typed, BuildsFit

(* A step of p that builds nothing. *)
LEMMA QuietStep ==
  ASSUME Sound, NEW p \in Procs, NEW r \in [pc : {"idle"}] \cup Runs, Step(p, r),
         r.pc \notin Building, UNCHANGED << base, reqs, builds, envs >>,
         WorldTyped', ProbesTyped'
  PROVE  Sound'
<1>1. builds[p] \in {NoEnv} \cup Environments /\ builds' = [builds EXCEPT ![p] = builds[p]]
  BY DEF Sound, Typed, BuildsTyped
<1>2. Fit(r, builds[p])
  BY DEF Fit, Building
<1>3. EnvsTyped' /\ EnvironmentsAreExact'
  BY DEF Sound, Typed, EnvsTyped, EnvironmentsAreExact
<1> QED
  BY <1>1, <1>2, <1>3, BuildStep

LEMMA WorldStays ==
  ASSUME Typed, UNCHANGED << job, base, reqs, pythons >> PROVE WorldTyped'
  BY DEF Typed, WorldTyped

(* A budget of a job is spent. *)
LEMMA JobTyped ==
  ASSUME Typed,
         \/ \E p \in Procs : job.runs[p] > 0 /\ job' = [job EXCEPT !.runs[p] = @ - 1]
         \/ job.edits > 0 /\ job' = [job EXCEPT !.edits = @ - 1]
         \/ job.crashes > 0 /\ job' = [job EXCEPT !.crashes = @ - 1]
  PROVE  /\ job' \in Setups /\ Once(job.explicit, job.venvs)' \in Seq(Names)
         /\ job'.needs = job.needs
<1> DEFINE Kept == /\ job' \in Setups /\ job'.needs = job.needs
                   /\ job'.explicit = job.explicit /\ job'.venvs = job.venvs
<1>0. job \in Setups
  BY DEF Typed, WorldTyped
<1>1. ASSUME NEW p \in Procs, job.runs[p] > 0, job' = [job EXCEPT !.runs[p] = @ - 1] PROVE Kept
  <2>1. job.runs \in [Procs -> Nat]
    BY <1>0 DEF Setups
  <2>2. [job.runs EXCEPT ![p] = @ - 1] \in [Procs -> Nat]
    BY <1>1, <2>1
  <2>3. job' = [job EXCEPT !.runs = [job.runs EXCEPT ![p] = @ - 1]]
    BY <1>0, <1>1 DEF Setups
  <2> QED
    BY <1>0, <2>2, <2>3 DEF Setups
<1>2. ASSUME job.edits > 0, job' = [job EXCEPT !.edits = @ - 1] PROVE Kept
  <2>1. job.edits \in Nat
    BY <1>0 DEF Setups
  <2>2. job.edits - 1 \in Nat
    BY <1>2, <2>1
  <2>3. job' = [job EXCEPT !.edits = job.edits - 1]
    BY <1>0, <1>2 DEF Setups
  <2> QED
    BY <1>0, <2>2, <2>3 DEF Setups
<1>3. ASSUME job.crashes > 0, job' = [job EXCEPT !.crashes = @ - 1] PROVE Kept
  <2>1. job.crashes \in Nat
    BY <1>0 DEF Setups
  <2>2. job.crashes - 1 \in Nat
    BY <1>3, <2>1
  <2>3. job' = [job EXCEPT !.crashes = job.crashes - 1]
    BY <1>0, <1>3 DEF Setups
  <2> QED
    BY <1>0, <2>2, <2>3 DEF Setups
<1>4. Kept
  BY <1>1, <1>2, <1>3
<1> QED
  BY <1>4 DEF Typed, WorldTyped

LEMMA FailsSound ==
  ASSUME Sound, NEW p \in Procs, Fails(p), UNCHANGED << base, reqs, builds, envs >>,
         WorldTyped', ProbesTyped'
  PROVE  Sound'
  BY QuietStep, NoRun DEF Fails, Building

LEMMA QuietActions ==
  ASSUME Sound, NEW p \in Procs,
         \/ Begin(p) \/ Cached(p) \/ Probe(p) \/ Versions(p) \/ ReadAll(p) \/ Open(p)
         \/ Write(p) \/ FindScript(p) \/ FillScript(p) \/ Start(p) \/ Crash(p)
  PROVE  Sound'
<1> USE DEF Sound
<1>1. CASE Begin(p)
  <2>1. Fresh(p) \in Runs
    BY TriedNames DEF Fresh, Runs, PCs, Digest, Interps, Python, Names
  <2>2. WorldTyped' /\ ProbesTyped'
    BY <1>1, JobTyped DEF Begin, Typed, WorldTyped, ProbesTyped
  <2> QED
    BY <1>1, <2>1, <2>2, QuietStep DEF Begin, Fresh, Building
<1>2. ASSUME ~At(p, "idle"), UNCHANGED << base, reqs, builds, envs, job, pythons >>, ProbesTyped',
             NEW pc \in PCs \ Building, Goto(p, pc)
      PROVE  Sound'
  <2>1. [run[p] EXCEPT !.pc = pc] \in Runs /\ [run[p] EXCEPT !.pc = pc].pc = pc
    BY <1>2, GotoIsStep, ActiveRun DEF Runs
  <2> QED
    BY <1>2, <2>1, GotoIsStep, QuietStep, WorldStays
<1>3. ASSUME NEW r \in Runs, r.pc \notin Building, Step(p, r), ProbesTyped',
             UNCHANGED << base, reqs, builds, envs, job, pythons >>
      PROVE  Sound'
  BY <1>3, QuietStep, WorldStays
<1>4. CASE UNCHANGED << job, base, reqs, pythons, builds, envs, probes >> /\ Fails(p)
  BY <1>4, FailsSound, WorldStays DEF Typed, ProbesTyped
<1>5. ASSUME ~At(p, "idle") PROVE run[p] \in Runs
  BY <1>5, ActiveRun
<1>6. CASE Cached(p)
  <2> USE DEF Cached
  <2>1. run[p] \in Runs /\ ProbesTyped' /\ ~At(p, "idle")
    BY <1>5, <1>6 DEF At, Typed, ProbesTyped
  <2>2. CASE ~Knows(p, ReadProbes)
    <3>1. run[p].then \in PCs \ Building
      BY <2>1 DEF Runs, PCs, Building
    <3> QED
      BY <1>2, <1>6, <2>1, <2>2, <3>1
  <2>3. CASE Knows(p, ReadProbes) /\ run[p].then = "probe"
    <3> DEFINE r == [run[p] EXCEPT !.pc = "cached", !.then = "versions"]
    <3>1. r \in Runs /\ r.pc \notin Building
      BY <2>1 DEF Runs, PCs, Building
    <3> QED
      BY <1>3, <1>6, <2>1, <2>3, <3>1
  <2>4. CASE Knows(p, ReadProbes) /\ run[p].then # "probe"
    <3> DEFINE r == [run[p] EXCEPT !.pc = "script", !.versions = Known(p, ReadProbes)]
    <3>1. Known(p, ReadProbes) \in 0 .. 2
      BY <2>4 DEF Known, Knows, ReadProbes, Typed, ProbesTyped, Entries
    <3>2. r \in Runs /\ r.pc \notin Building
      BY <2>1, <3>1 DEF Runs, PCs, Building
    <3> QED
      BY <1>3, <1>6, <2>1, <2>4, <3>2
  <2> QED
    BY <2>2, <2>3, <2>4
<1>7. CASE Probe(p)
  <2>1. ProbesTyped' /\ ~At(p, "idle") /\ {"versions", "detect"} \subseteq PCs \ Building
    BY <1>7 DEF Probe, At, Typed, ProbesTyped, PCs, Building
  <2> QED
    BY <1>2, <1>4, <1>7, <2>1 DEF Probe
<1>8. CASE Versions(p)
  <2> DEFINE r == [run[p] EXCEPT !.pc = "read", !.versions = Installed(run[p].python)[job.needs[p]]]
             s == [run[p] EXCEPT !.pc = "script", !.versions = 0]
  <2>1. run[p] \in Runs /\ ProbesTyped' /\ ~At(p, "idle")
    BY <1>5, <1>8 DEF Versions, At, Typed, ProbesTyped
  <2>2. Installed(run[p].python)[job.needs[p]] \in 0 .. 2
    <3>1. run[p].python \in Interps /\ job.needs[p] \in Backends
      BY <2>1 DEF Runs, Typed, WorldTyped, Setups
    <3> QED
      BY <3>1, InstalledVersions DEF Backends
  <2>3. r \in Runs /\ r.pc \notin Building /\ s \in Runs /\ s.pc \notin Building
    <3>1. r \in Runs /\ r.pc \notin Building
      BY <2>1, <2>2 DEF Runs, PCs, Building
    <3>2. 0 \in 0 .. 2 /\ "script" \in PCs \ Building
      BY DEF PCs, Building
    <3>3. s \in Runs /\ s.pc \notin Building
      BY <2>1, <3>2 DEF Runs
    <3> QED
      BY <3>1, <3>3
  <2>4. "detect" \in PCs \ Building
    BY DEF PCs, Building
  <2>5. CASE Step(p, r)
    BY <1>3, <1>8, <2>1, <2>3, <2>5 DEF Versions
  <2>6. CASE Step(p, s)
    BY <1>3, <1>8, <2>1, <2>3, <2>6 DEF Versions
  <2>7. CASE Goto(p, "detect")
    BY <1>2, <1>8, <2>1, <2>4, <2>7 DEF Versions
  <2> QED
    BY <1>8, <2>5, <2>6, <2>7 DEF Versions
<1>9. CASE ReadAll(p)
  <2> DEFINE es == {e \in ReadProbes : e.about # About(p)}
                   \cup {[about |-> About(p), versions |-> run[p].versions]}
             r == [run[p] EXCEPT !.pc = "open", !.entries = es]
  <2>1. run[p] \in Runs /\ ProbesTyped'
    BY <1>5, <1>9 DEF ReadAll, At, Typed, ProbesTyped
  <2>2. es \subseteq Entries
    <3>1. ReadProbes \subseteq Entries
      BY DEF ReadProbes, Typed, ProbesTyped
    <3>2. [about |-> About(p), versions |-> run[p].versions] \in Entries
      BY <2>1, AboutTyped DEF Entries, Runs
    <3> QED
      BY <3>1, <3>2
  <2>3. r \in Runs /\ r.pc \notin Building
    BY <2>1, <2>2 DEF Runs, PCs, Building
  <2> QED
    BY <1>3, <1>9, <2>1, <2>3 DEF ReadAll
<1>10. CASE Open(p)
  <2>1. ProbesTyped' /\ ~At(p, "idle") /\ "write" \in PCs \ Building
    BY <1>10 DEF Open, At, ProbesTyped, PCs, Building
  <2> QED
    BY <1>2, <1>10, <2>1 DEF Open
<1>11. CASE Write(p)
  <2> DEFINE r == IF run[p].then = "probe"
                  THEN [run[p] EXCEPT !.pc = "cached", !.then = "versions", !.entries = {}]
                  ELSE [run[p] EXCEPT !.pc = "script", !.entries = {}]
  <2>1. run[p] \in Runs
    BY <1>5, <1>11 DEF Write, At
  <2>2. ProbesTyped'
    <3>1. PICK whole \in BOOLEAN :
            probes' = [whole |-> whole, known |-> IF whole THEN run[p].entries ELSE {}]
      BY <1>11 DEF Write
    <3>2. run[p].entries \in SUBSET Entries
      BY <2>1 DEF Runs
    <3>3. (IF whole THEN run[p].entries ELSE {}) \in SUBSET Entries
      BY <3>2
    <3> QED
      BY <3>1, <3>3 DEF ProbesTyped
  <2>3. r \in Runs /\ r.pc \notin Building
    BY <2>1 DEF Runs, PCs, Building
  <2> QED
    BY <1>3, <1>11, <2>2, <2>3 DEF Write
<1>12. CASE FindScript(p) \/ FillScript(p)
  <2>1. ProbesTyped' /\ ~At(p, "idle") /\ {"fill", "start"} \subseteq PCs \ Building
    BY <1>12 DEF FindScript, FillScript, At, Typed, ProbesTyped, PCs, Building
  <2> QED
    BY <1>2, <1>12, <2>1 DEF FindScript, FillScript
<1>13. CASE Start(p)
  BY <1>4, <1>13 DEF Start
<1>14. CASE Crash(p)
  <2>1. WorldTyped' /\ ProbesTyped'
    BY <1>14, JobTyped DEF Crash, Typed, WorldTyped, ProbesTyped
  <2> QED
    BY <1>14, <2>1, FailsSound DEF Crash
<1> QED
  BY <1>1, <1>6, <1>7, <1>8, <1>9, <1>10, <1>11, <1>12, <1>13, <1>14

-----------------------------------------------------------------------------
(* The steps that find or build an environment.                            *)
LEMMA EnvsStay ==
  ASSUME Sound, UNCHANGED envs PROVE EnvsTyped' /\ EnvironmentsAreExact'
  BY DEF Sound, Typed, EnvsTyped, EnvironmentsAreExact

LEMMA DetectSound ==
  ASSUME Sound, NEW p \in Procs, Detect(p) PROVE Sound'
<1> USE DEF Detect
<1>1. run[p] \in Runs
  BY ActiveRun DEF Sound, At
<1>2. WorldTyped' /\ ProbesTyped'
  BY WorldStays DEF Sound, Typed, ProbesTyped
<1>3. CASE Managed(p)
  <2> DEFINE r == [run[p] EXCEPT !.pc = "look", !.key = Key]
  <2>1. r \in Runs /\ Fit(r, builds[p])
    BY <1>1, KeyDigest DEF Runs, PCs, Fit, Sound
  <2>2. builds[p] \in {NoEnv} \cup Environments /\ builds' = [builds EXCEPT ![p] = builds[p]]
    BY DEF Sound, Typed, BuildsTyped
  <2> QED
    BY <1>2, <1>3, <2>1, <2>2, BuildStep, EnvsStay
<1>4. CASE ~Managed(p) /\ run[p].rest = <<>>
  BY <1>2, <1>4, FailsSound
<1>5. CASE ~Managed(p) /\ run[p].rest # <<>>
  <2> DEFINE r == [run[p] EXCEPT !.pc = "cached", !.python = Python(Head(run[p].rest)),
                                 !.rest = Tail(@), !.then = "probe"]
  <2>1. run[p].rest \in Seq(Names)
    BY <1>1 DEF Runs
  <2>2. Head(run[p].rest) \in Names /\ Tail(run[p].rest) \in Seq(Names)
    BY <1>5, <2>1
  <2>3. Python(Head(run[p].rest)) \in Interps
    BY <2>2 DEF Interps, Python
  <2>4. r \in Runs /\ r.pc \notin Building
    BY <1>1, <2>2, <2>3 DEF Runs, PCs, Building
  <2> QED
    BY <1>2, <1>5, <2>4, QuietStep
<1> QED
  BY <1>3, <1>4, <1>5

(* p goes on to use the environment of its digest. *)
LEMMA TryRun ==
  ASSUME NEW p \in Procs, run[p] \in Runs, Try(p, EnvPython(run[p].key))
  PROVE  \E r \in Runs : Step(p, r) /\ r.pc = "cached" /\ r.python = EnvPython(run[p].key)
                         /\ r.entries = run[p].entries
<1> DEFINE r == [run[p] EXCEPT !.pc = "cached", !.python = EnvPython(run[p].key), !.then = "probe"]
<1>1. run[p].key \in Digest
  BY DEF Runs
<1>2. EnvPython(run[p].key) \in Interps
  BY <1>1 DEF EnvPython, Interps
<1>3. r \in Runs /\ r.pc = "cached" /\ r.python = EnvPython(run[p].key)
      /\ r.entries = run[p].entries
  BY <1>2 DEF Runs, PCs
<1> QED
  BY <1>3 DEF Try

LEMMA BuildActions ==
  ASSUME Sound, NEW p \in Procs,
         Look(p) \/ MakeVenv(p) \/ Install(p) \/ BuildFails(p) \/ Mark(p)
  PROVE  Sound'
<1> USE DEF Build
<1> DEFINE r == run[p]  b == builds[p]
<1>1. WorldTyped' /\ ProbesTyped' /\ EnvsTyped' /\ EnvironmentsAreExact'
  BY WorldStays, EnvsStay
  DEF Look, MakeVenv, Install, BuildFails, Mark, Sound, Typed, ProbesTyped
<1>2. r \in Runs /\ ~At(p, "idle") /\ Fit(r, b)
  BY ActiveRun DEF Look, MakeVenv, Install, BuildFails, Mark, At, Sound, BuildsFit
<1>3. b \in {NoEnv} \cup Environments /\ base \in 1 .. 2 /\ reqs \in 1 .. 2
  BY DEF Sound, Typed, BuildsTyped, WorldTyped
<1>4. b.there => b \in Environments
  BY <1>3 DEF NoEnv
<1>5. CASE Look(p)
  <2>1. CASE Complete(r.key)
    <3>1. PICK s \in Runs : Step(p, s) /\ s.pc = "cached"
      BY <1>2, <1>5, <2>1, TryRun DEF Look
    <3> QED
      BY <1>1, <1>5, <2>1, <3>1, QuietStep DEF Look, Building
  <2>2. CASE ~Complete(r.key)
    <3> DEFINE s == [r EXCEPT !.pc = "venv"]
    <3>1. s \in Runs /\ s.pc = "venv" /\ s.moved = r.moved /\ s.key = r.key
      BY <1>2 DEF Runs, PCs
    <3>2. Fit(s, NoEnv)
      BY <1>2, <1>5, <3>1 DEF Fit, NoEnv, Look, At
    <3>3. Step(p, s)
      BY <1>2, <1>5, <2>2, GotoIsStep DEF Look, PCs, Sound
    <3> QED
      BY <1>1, <1>5, <2>2, <3>1, <3>2, <3>3, BuildStep DEF Look
  <2> QED
    BY <2>1, <2>2
<1>6. CASE MakeVenv(p)
  <2> DEFINE s == [r EXCEPT !.pc = "install"]
  <2>1. s \in Runs /\ s.pc = "install" /\ s.moved = r.moved /\ s.key = r.key
    BY <1>2 DEF Runs, PCs
  <2>2. Venv(base) \in Environments /\ Venv(base).base = base
    BY <1>3 DEF Venv, Environments
  <2>3. Fit(s, Venv(base))
    BY <1>2, <1>6, <2>1, <2>2 DEF Fit, MakeVenv, At, Key
  <2>4. Step(p, s)
    BY <1>2, <1>6, GotoIsStep DEF MakeVenv, PCs, Sound
  <2> QED
    BY <1>1, <1>6, <2>1, <2>2, <2>3, <2>4, BuildStep DEF MakeVenv
<1>7. CASE Install(p)
  <2> DEFINE s == [r EXCEPT !.pc = "mark"]  c == [b EXCEPT !.reqs = reqs, !.whole = TRUE]
  <2>1. s \in Runs /\ s.pc = "mark" /\ s.moved = r.moved /\ s.key = r.key
    BY <1>2 DEF Runs, PCs
  <2>2. c \in Environments /\ c.base = b.base /\ c.reqs = reqs /\ c.whole
    BY <1>3, <1>4, <1>7 DEF Environments, Install
  <2>3. r.pc = "install" /\ b.there
    BY <1>7 DEF Install, At
  <2>4. ~r.moved => r.key = [base |-> base, reqs |-> reqs] /\ b.base = r.key.base
    BY <1>2, <2>3 DEF Fit, Key
  <2>5. Fit(s, c)
    BY <2>1, <2>2, <2>4 DEF Fit
  <2>6. Step(p, s)
    BY <1>2, <1>7, GotoIsStep DEF Install, PCs, Sound
  <2>7. builds' = [builds EXCEPT ![p] = c]
    <3>1. DOMAIN builds = Procs /\ b \in Environments
      BY <1>4, <2>3 DEF Sound, Typed, BuildsTyped
    <3> QED
      BY <1>7, <3>1 DEF Install, Environments
  <2> QED
    BY <1>1, <1>7, <2>1, <2>2, <2>5, <2>6, <2>7, BuildStep DEF Install
<1>8. CASE BuildFails(p)
  <2>1. Fit([pc |-> "idle"], NoEnv)
    BY DEF Fit
  <2> QED
    BY <1>1, <1>8, <2>1, NoRun, BuildStep DEF BuildFails, Fails
<1>9. CASE Mark(p)
  <2>1. CASE b.there
    <3> DEFINE s == [r EXCEPT !.pc = "rename"]  c == [b EXCEPT !.marked = TRUE]
    <3>1. s \in Runs /\ s.pc = "rename" /\ s.moved = r.moved /\ s.key = r.key
      BY <1>2 DEF Runs, PCs
    <3>2. /\ c \in Environments /\ c.base = b.base /\ c.reqs = b.reqs
          /\ c.marked /\ c.whole = b.whole
      BY <1>4, <2>1 DEF Environments
    <3>3. Fit(s, c)
      BY <1>2, <1>9, <2>1, <3>1, <3>2 DEF Fit, Mark, At
    <3>4. Step(p, s)
      BY <1>2, <1>9, <2>1, GotoIsStep DEF Mark, PCs, Sound
    <3>5. builds' = [builds EXCEPT ![p] = c]
      BY <1>9, <2>1 DEF Mark, Sound, Typed, BuildsTyped
    <3> QED
      BY <1>1, <1>9, <3>1, <3>2, <3>3, <3>4, <3>5, BuildStep DEF Mark
  <2>2. CASE ~b.there
    BY <1>1, <1>9, <2>2, FailsSound DEF Mark
  <2> QED
    BY <2>1, <2>2
<1> QED
  BY <1>5, <1>6, <1>7, <1>8, <1>9

LEMMA RenameSound ==
  ASSUME Sound, NEW p \in Procs, Rename(p) PROVE Sound'
<1> USE DEF Build
<1> DEFINE key == run[p].key  b == builds[p]
<1>1. WorldTyped' /\ ProbesTyped'
  BY WorldStays DEF Rename, Sound, Typed, ProbesTyped
<1>2. run[p] \in Runs /\ Fit(run[p], b) /\ run[p].pc = "rename"
  BY ActiveRun DEF Rename, At, Sound, BuildsFit
<1>3. key \in Digest /\ run[p].moved \in BOOLEAN
  BY <1>2 DEF Runs
<1>4. ASSUME NEW s \in Runs, s.pc = "cached" PROVE Fit(s, NoEnv)
  BY <1>4 DEF Fit
<1>5. CASE b.there /\ ~envs[key].there
  <2> DEFINE e == [b EXCEPT !.moved = run[p].moved]
  <2>1. b \in Environments
    BY <1>5 DEF Sound, Typed, BuildsTyped, NoEnv
  <2>2. e \in Environments /\ e.base = b.base /\ e.reqs = b.reqs /\ e.whole = b.whole
        /\ e.marked = b.marked /\ e.moved = run[p].moved
    BY <1>3, <2>1 DEF Environments
  <2>3. envs' = [envs EXCEPT ![key] = e]
    BY <1>5 DEF Rename
  <2>4. EnvsTyped'
    BY <2>2, <2>3 DEF Sound, Typed, EnvsTyped
  <2>5. ASSUME NEW k \in Digest, envs'[k].there
        PROVE  /\ envs'[k].whole /\ envs'[k].marked
               /\ envs'[k].moved \/ (envs'[k].base = k.base /\ envs'[k].reqs = k.reqs)
    <3>1. CASE k = key
      <4>1. envs'[k] = e
        BY <1>3, <2>3, <3>1 DEF Sound, Typed, EnvsTyped
      <4>2. /\ b.whole /\ b.marked
            /\ run[p].moved \/ (b.base = key.base /\ b.reqs = key.reqs)
        BY <1>2, <1>5 DEF Fit
      <4> QED
        BY <2>2, <3>1, <4>1, <4>2
    <3>2. CASE k # key
      <4>1. envs'[k] = envs[k]
        BY <2>3, <3>2 DEF Sound, Typed, EnvsTyped
      <4> QED
        BY <2>5, <4>1 DEF Sound, EnvironmentsAreExact
    <3> QED
      BY <3>1, <3>2
  <2>6. EnvironmentsAreExact'
    BY <2>5 DEF EnvironmentsAreExact
  <2>7. PICK s \in Runs : Step(p, s) /\ s.pc = "cached"
    BY <1>2, <1>5, TryRun DEF Rename
  <2> QED
    BY <1>1, <1>4, <1>5, <2>4, <2>6, <2>7, BuildStep DEF Rename
<1>6. CASE ~(b.there /\ ~envs[key].there) /\ Complete(key)
  <2>1. PICK s \in Runs : Step(p, s) /\ s.pc = "cached"
    BY <1>2, <1>6, TryRun DEF Rename
  <2>2. builds' = [builds EXCEPT ![p] = NoEnv] /\ UNCHANGED << base, reqs, envs >>
    BY <1>6 DEF Rename
  <2> QED
    BY <1>1, <1>4, <2>1, <2>2, EnvsStay, BuildStep
<1>7. CASE ~(b.there /\ ~envs[key].there) /\ ~Complete(key)
  <2>1. Fails(p) /\ UNCHANGED << base, reqs, envs, builds >>
    BY <1>7 DEF Rename
  <2> QED
    BY <1>1, <2>1, FailsSound
<1> QED
  BY <1>5, <1>6, <1>7

-----------------------------------------------------------------------------
(* What happens around the compiles.                                       *)
LEMMA EditSound ==
  ASSUME Sound, Edit, WorldTyped' PROVE Sound'
<1> USE DEF Edit
<1>1. /\ BuildsTyped' /\ EnvsTyped' /\ ProbesTyped' /\ EnvironmentsAreExact'
  BY EnvsStay DEF Sound, Typed, BuildsTyped, ProbesTyped
<1>2. ASSUME NEW p \in Procs
      PROVE  run'[p] \in [pc : {"idle"}] \cup Runs /\ Fit(run[p], builds[p])'
  <2>1. Fit(run[p], builds[p]) /\ run[p] \in [pc : {"idle"}] \cup Runs
    BY DEF Sound, Typed, RunTyped, BuildsFit
  <2>2. CASE At(p, "idle")
    <3>1. run'[p] = run[p] /\ run[p].pc = "idle"
      BY <2>2 DEF At
    <3> QED
      BY <2>1, <3>1 DEF Fit
  <2>3. CASE ~At(p, "idle")
    <3> DEFINE r == [run[p] EXCEPT !.moved = TRUE]
    <3>1. run'[p] = r /\ run[p] \in Runs
      BY <2>3, ActiveRun DEF Sound
    <3>2. r \in Runs /\ r.pc = run[p].pc /\ r.key = run[p].key /\ r.moved
      BY <3>1 DEF Runs
    <3> QED
      BY <2>1, <3>1, <3>2 DEF Fit
  <2> QED
    BY <2>2, <2>3
<1>3. RunTyped'
  BY <1>2 DEF RunTyped
<1> QED
  BY <1>1, <1>2, <1>3 DEF Sound, Typed, BuildsFit

LEMMA WorldActions ==
  ASSUME Sound, EditRequirements \/ UpgradePython \/ ChangePackage PROVE Sound'
<1>1. job' \in Setups /\ Once(job.explicit, job.venvs)' \in Seq(Names)
  BY JobTyped DEF Sound, EditRequirements, UpgradePython, ChangePackage, Edit
<1>2. base' \in 1 .. 2 /\ reqs' \in 1 .. 2
  BY DEF Sound, Typed, WorldTyped, EditRequirements, UpgradePython, ChangePackage
<1>3. pythons' \in [Names -> Installations]
  <2>1. pythons \in [Names -> Installations]
    BY DEF Sound, Typed, WorldTyped
  <2>2. CASE EditRequirements
    BY <2>1, <2>2 DEF EditRequirements
  <2>3. CASE UpgradePython
    <3>1. [stamp |-> 2, kadet |-> 0, kapitan |-> 2] \in Installations
      BY DEF Installations
    <3> QED
      BY <2>1, <2>3, <3>1 DEF UpgradePython
  <2>4. CASE ChangePackage
    <3>1. PICK u \in Users, needs \in Backends, v \in 0 .. 2 :
            pythons' = [pythons EXCEPT ![u][needs] = v]
      BY <2>4 DEF ChangePackage
    <3>2. u \in Names
      BY DEF Names
    <3>3. [pythons[u] EXCEPT ![needs] = v] \in Installations
      BY <2>1, <3>2 DEF Installations, Backends
    <3> QED
      BY <2>1, <3>1, <3>2, <3>3
  <2> QED
    BY <2>2, <2>3, <2>4
<1> QED
  BY <1>1, <1>2, <1>3, EditSound
  DEF WorldTyped, EditRequirements, UpgradePython, ChangePackage

LEMMA NextSound == Sound /\ [Next]_vars => Sound'
<1> SUFFICES ASSUME Sound, [Next]_vars PROVE Sound'
  OBVIOUS
<1>1. CASE UNCHANGED vars
  BY <1>1 DEF vars, Sound, Typed, WorldTyped, BuildsTyped, EnvsTyped, ProbesTyped, RunTyped,
     BuildsFit, Fit, Key, EnvironmentsAreExact
<1>2. CASE Next
  BY <1>2, DetectSound, BuildActions, RenameSound, QuietActions, WorldActions DEF Next
<1> QED
  BY <1>1, <1>2

(* However many compiles build environments in one cache directory at once *)
(* and wherever they are killed, an environment that is in place is        *)
(* complete and holds what its digest says, unless the requirements or     *)
(* Python changed during its build (PythonEnv::ensure, pyenv.rs:205-267).  *)
THEOREM EnvironmentsStayExact == Spec => []EnvironmentsAreExact
<1>1. Spec => []Sound
  BY InitSound, NextSound, PTL DEF Spec
<1>2. Sound => EnvironmentsAreExact
  BY DEF Sound
<1> QED
  BY <1>1, <1>2, PTL

-----------------------------------------------------------------------------
(* What is remembered. *)
LEMMA InitTruthful == Init => Truthful
<1> SUFFICES ASSUME Init PROVE Truthful
  OBVIOUS
<1>1. Active = {} /\ probes.known = {}
  BY DEF Init, Active, At
<1>2. Written = {}
  BY <1>1 DEF Written
<1>3. InHand /\ EntriesLast /\ EntriesTrue
  BY <1>1, <1>2 DEF InHand, EntriesLast, EntriesTrue
<1>4. Honest
  BY DEF Init, Honest
<1>5. SystemStamp
  <2>1. job.pythons \in [Names -> [stamp : {1}, kadet : 0 .. 2, kapitan : 0 .. 2]]
    BY JobsAssumption DEF Init, Setups
  <2> QED
    BY <2>1 DEF Init, SystemStamp, Names
<1> QED
  BY <1>3, <1>4, <1>5 DEF Truthful

(* An entry p may write: true of an interpreter that is there. *)
Fair(e) == Lasting(e) /\ (~unnoticed => True(e))

LEMMA WrittenFair ==
  ASSUME Typed, Truthful PROVE \A e \in Written : e \in Entries /\ Fair(e)
<1>1. Written \subseteq Entries
  <2>1. \A p \in Active : run[p].entries \subseteq Entries
    BY ActiveRun DEF Active, Runs
  <2> QED
    BY <2>1 DEF Written, Typed, ProbesTyped
<1> QED
  BY <1>1 DEF Truthful, EntriesLast, EntriesTrue, Fair

(* An environment that is there stays as it is. *)
LEMMA FairStays ==
  ASSUME Typed, UNCHANGED << base, pythons, unnoticed >>,
         \A k \in Digest : envs[k].there => envs'[k] = envs[k],
         NEW e \in Entries, Fair(e)
  PROVE  Lasting(e)' /\ (~unnoticed => True(e)')
<1> DEFINE c == e.about.python
<1>1. c \in Interps
  BY DEF Entries
<1>2. CASE c[1] = "user"
  BY <1>2 DEF Fair, Lasting, Present, True, Stamp, Installed
<1>3. CASE c[1] # "user"
  <2>1. c[1] = "env" /\ c[2] \in Digest
    BY <1>1, <1>3 DEF Interps
  <2>2. envs[c[2]].there /\ envs'[c[2]] = envs[c[2]]
    BY <2>1 DEF Fair, Lasting, Present
  <2> QED
    BY <2>1, <2>2 DEF Fair, Lasting, Present, True, Stamp, Installed
<1> QED
  BY <1>2, <1>3

(* A step of p while no interpreter changes that is there. *)
LEMMA StepTruthful ==
  ASSUME Typed, Truthful, NEW p \in Procs, NEW r \in [pc : {"idle"}] \cup Runs, Step(p, r),
         UNCHANGED << base, pythons, unnoticed >>, job'.needs = job.needs,
         \A k \in Digest : envs[k].there => envs'[k] = envs[k],
         r.pc # "idle" => /\ r \in Runs
                          /\ r.python[1] = "env" => envs'[r.python[2]].there
                          /\ \A e \in r.entries : Fair(e),
         r.pc = "read" => /\ UNCHANGED envs
                          /\ ~unnoticed => r.versions = Installed(r.python)[job.needs[p]],
         probes'.known \subseteq Entries, \A e \in probes'.known : Fair(e)
  PROVE  Truthful'
<1>1. run'[p] = r /\ \A q \in Procs \ {p} : run'[q] = run[q]
  BY StepTyped DEF Typed
<1>2. ASSUME NEW q \in Procs \ {p}, run[q].pc # "idle"
      PROVE  LET c == run[q].python IN
             /\ c \in Interps
             /\ c[1] = "env" => /\ c[2] \in Digest /\ envs[c[2]].there
                                /\ envs'[c[2]] = envs[c[2]]
  <2>1. run[q].python \in Interps
    BY <1>2, ActiveRun DEF At, Runs
  <2>2. Present(run[q].python)
    BY <1>2 DEF Truthful, InHand, Active, At
  <2> QED
    BY <2>1, <2>2 DEF Present, Interps
<1>3. InHand'
  <2> SUFFICES ASSUME NEW q \in Procs, run'[q].pc # "idle", run'[q].python[1] = "env"
               PROVE  envs'[run'[q].python[2]].there
    BY DEF InHand, Active, At, Present
  <2>1. CASE q = p
    BY <1>1, <2>1
  <2>2. CASE q # p
    BY <1>1, <1>2, <2>2
  <2> QED
    BY <2>1, <2>2
<1>4. ASSUME NEW e \in Written' PROVE e \in Entries /\ Fair(e)
  <2>1. CASE e \in probes'.known
    BY <2>1
  <2>2. CASE e \notin probes'.known
    <3>1. PICK q \in Procs : run'[q].pc # "idle" /\ e \in run'[q].entries
      BY <2>2 DEF Written, Active, At
    <3>2. CASE q = p
      BY <1>1, <3>1, <3>2 DEF Runs
    <3>3. CASE q # p
      <4>1. e \in Written
        BY <1>1, <3>1, <3>3 DEF Written, Active, At
      <4> QED
        BY <4>1, WrittenFair
    <3> QED
      BY <3>2, <3>3
  <2> QED
    BY <2>1, <2>2
<1>5. EntriesLast' /\ (~unnoticed' => EntriesTrue')
  BY <1>4, FairStays DEF EntriesLast, EntriesTrue
<1>6. ~unnoticed' => Honest'
  <2> SUFFICES ASSUME ~unnoticed, NEW q \in Procs, run'[q].pc = "read"
               PROVE  run'[q].versions = Installed(run[q].python)'[job'.needs[q]]
    BY DEF Honest
  <2>1. CASE q = p
    BY <1>1, <2>1 DEF Installed
  <2>2. CASE q # p
    <3>1. run'[q] = run[q] /\ run[q].versions = Installed(run[q].python)[job.needs[q]]
      BY <1>1, <2>2 DEF Truthful, Honest
    <3>2. job'.needs[q] = job.needs[q] /\ pythons' = pythons
      OBVIOUS
    <3>3. \A n : Installed(run[q].python)[n] = Installed(run[q].python)'[n]
      <4> PICK c : c = run[q].python /\ c = run'[q].python
        BY <3>1
      <4>1. c \in Interps /\ (c[1] = "env" => envs'[c[2]] = envs[c[2]])
        <5>1. q \in Procs \ {p} /\ run[q].pc # "idle"
          BY <2>2, <3>1
        <5>2. LET d == run[q].python IN
              d \in Interps /\ (d[1] = "env" => envs'[d[2]] = envs[d[2]])
          BY <1>2, <5>1
        <5> QED
          BY <5>2
      <4>2. Installed(c)' = Installed(c)
        BY <3>2, <4>1 DEF Installed, Interps
      <4> QED
        BY <4>2
    <3> QED
      BY <3>1, <3>2, <3>3
  <2> QED
    BY <2>1, <2>2
<1>7. SystemStamp'
  BY DEF Truthful, SystemStamp
<1> QED
  BY <1>3, <1>5, <1>6, <1>7 DEF Truthful

(* A step that asks and writes nothing. *)
LEMMA QuietTruthful ==
  ASSUME Typed, Truthful, NEW p \in Procs, NEW r \in [pc : {"idle"}] \cup Runs, Step(p, r),
         UNCHANGED << base, pythons, envs, unnoticed, probes >>, job'.needs = job.needs,
         r.pc # "read",
         r.pc # "idle" => /\ r \in Runs /\ Present(r.python)
                          /\ r.entries = {} \/ (~At(p, "idle") /\ r.entries = run[p].entries)
  PROVE  Truthful'
<1>1. \A e \in Written : e \in Entries /\ Fair(e)
  BY WrittenFair
<1>2. probes'.known \subseteq Entries /\ \A e \in probes'.known : Fair(e)
  BY <1>1 DEF Written
<1>3. r.pc # "idle" => \A e \in r.entries : Fair(e)
  BY <1>1 DEF Written, Active
<1>4. r.pc # "idle" => (r.python[1] = "env" => envs'[r.python[2]].there)
  BY DEF Present
<1> QED
  BY <1>2, <1>3, <1>4, StepTruthful

LEMMA FailsTruthful ==
  ASSUME Typed, Truthful, NEW p \in Procs, Fails(p), job'.needs = job.needs,
         UNCHANGED << base, pythons, envs, unnoticed, probes >>
  PROVE  Truthful'
  BY QuietTruthful, NoRun DEF Fails

LEMMA GotoTruthful ==
  ASSUME Typed, Truthful, NEW p \in Procs, NEW pc \in PCs \ {"read"}, ~At(p, "idle"), Goto(p, pc),
         UNCHANGED << job, base, pythons, envs, unnoticed, probes >>
  PROVE  Truthful'
<1> DEFINE r == [run[p] EXCEPT !.pc = pc]
<1>1. Step(p, r) /\ r \in Runs /\ run[p] \in Runs
  BY GotoIsStep, ActiveRun
<1>2. r.pc = pc /\ r.python = run[p].python /\ r.entries = run[p].entries
  BY <1>1 DEF Runs
<1>3. Present(run[p].python)
  BY DEF Truthful, InHand, Active
<1> QED
  BY <1>1, <1>2, <1>3, QuietTruthful

LEMMA SearchTruthful ==
  ASSUME Typed, Truthful, NEW p \in Procs,
         \/ Begin(p) \/ Detect(p) \/ Look(p) \/ MakeVenv(p) \/ Install(p) \/ BuildFails(p)
         \/ Mark(p) \/ Cached(p) \/ Probe(p)
  PROVE  Truthful'
<1>1. ~At(p, "idle") => run[p] \in Runs /\ Present(run[p].python)
  BY ActiveRun DEF Truthful, InHand, Active
<1>2. CASE Begin(p)
  <2>1. Fresh(p) \in Runs /\ Fresh(p).entries = {} /\ Fresh(p).pc = "detect"
    BY TriedNames DEF Fresh, Runs, PCs, Digest, Interps, Python, Names
  <2>2. Present(Fresh(p).python)
    BY DEF Fresh, Present, Python
  <2>3. job'.needs = job.needs
    BY <1>2, JobTyped DEF Begin
  <2> QED
    BY <1>2, <2>1, <2>2, <2>3, QuietTruthful DEF Begin
<1>3. CASE Detect(p)
  <2> USE DEF Detect
  <2>1. run[p] \in Runs /\ ~At(p, "idle")
    BY <1>1, <1>3 DEF At
  <2>2. CASE Managed(p)
    <3> DEFINE r == [run[p] EXCEPT !.pc = "look", !.key = Key]
    <3>1. /\ r \in Runs /\ r.pc = "look" /\ r.python = run[p].python
          /\ r.entries = run[p].entries
      BY <2>1, KeyDigest DEF Runs, PCs
    <3> QED
      BY <1>1, <1>3, <2>1, <2>2, <3>1, QuietTruthful
  <2>3. CASE ~Managed(p) /\ run[p].rest = <<>>
    BY <1>3, <2>3, FailsTruthful
  <2>4. CASE ~Managed(p) /\ run[p].rest # <<>>
    <3> DEFINE r == [run[p] EXCEPT !.pc = "cached", !.python = Python(Head(run[p].rest)),
                                   !.rest = Tail(@), !.then = "probe"]
    <3>1. run[p].rest \in Seq(Names)
      BY <2>1 DEF Runs
    <3>2. Head(run[p].rest) \in Names /\ Tail(run[p].rest) \in Seq(Names)
      BY <2>4, <3>1
    <3>3. Python(Head(run[p].rest)) \in Interps /\ Present(Python(Head(run[p].rest)))
      BY <3>2 DEF Interps, Python, Present
    <3>4. /\ r \in Runs /\ r.pc = "cached" /\ r.python = Python(Head(run[p].rest))
          /\ r.entries = run[p].entries
      BY <2>1, <3>2, <3>3 DEF Runs, PCs
    <3> QED
      BY <1>3, <2>1, <2>4, <3>3, <3>4, QuietTruthful
  <2> QED
    BY <2>2, <2>3, <2>4
<1>4. CASE Look(p)
  <2>1. run[p] \in Runs /\ ~At(p, "idle")
    BY <1>1, <1>4 DEF At, Look
  <2>2. CASE Complete(run[p].key)
    <3>1. PICK r \in Runs : /\ Step(p, r) /\ r.pc = "cached" /\ r.entries = run[p].entries
                            /\ r.python = EnvPython(run[p].key)
      BY <1>4, <2>1, <2>2, TryRun DEF Look
    <3>2. Present(r.python)
      BY <2>2, <3>1 DEF Complete, Present, EnvPython
    <3> QED
      BY <1>4, <2>1, <3>1, <3>2, QuietTruthful DEF Look
  <2>3. CASE ~Complete(run[p].key)
    BY <1>4, <2>1, <2>3, GotoTruthful DEF Look, PCs
  <2> QED
    BY <2>2, <2>3
<1>5. CASE MakeVenv(p) \/ Install(p)
  BY <1>5, GotoTruthful DEF MakeVenv, Install, PCs, At
<1>6. CASE BuildFails(p)
  BY <1>6, FailsTruthful DEF BuildFails
<1>7. CASE Mark(p)
  BY <1>7, GotoTruthful, FailsTruthful DEF Mark, PCs, At
<1>8. CASE Cached(p)
  <2> USE DEF Cached
  <2>1. run[p] \in Runs /\ ~At(p, "idle")
    BY <1>1, <1>8 DEF At
  <2>2. CASE ~Knows(p, ReadProbes)
    <3>1. run[p].then \in PCs \ {"read"}
      BY <2>1 DEF Runs, PCs
    <3> QED
      BY <1>8, <2>1, <2>2, <3>1, GotoTruthful
  <2>3. CASE Knows(p, ReadProbes) /\ run[p].then = "probe"
    <3> DEFINE r == [run[p] EXCEPT !.pc = "cached", !.then = "versions"]
    <3>1. /\ r \in Runs /\ r.pc = "cached" /\ r.python = run[p].python
          /\ r.entries = run[p].entries
      BY <2>1 DEF Runs, PCs
    <3> QED
      BY <1>1, <1>8, <2>1, <2>3, <3>1, QuietTruthful
  <2>4. CASE Knows(p, ReadProbes) /\ run[p].then # "probe"
    <3> DEFINE r == [run[p] EXCEPT !.pc = "script", !.versions = Known(p, ReadProbes)]
    <3>1. Known(p, ReadProbes) \in 0 .. 2
      BY <2>4 DEF Known, Knows, ReadProbes, Typed, ProbesTyped, Entries
    <3>2. /\ r \in Runs /\ r.pc = "script" /\ r.python = run[p].python
          /\ r.entries = run[p].entries
      BY <2>1, <3>1 DEF Runs, PCs
    <3> QED
      BY <1>1, <1>8, <2>1, <2>4, <3>2, QuietTruthful
  <2> QED
    BY <2>2, <2>3, <2>4
<1>9. CASE Probe(p)
  <2>1. ~At(p, "idle") /\ {"versions", "detect"} \subseteq PCs \ {"read"}
    BY <1>9 DEF Probe, At, PCs
  <2> QED
    BY <1>9, <2>1, GotoTruthful, FailsTruthful DEF Probe
<1> QED
  BY <1>2, <1>3, <1>4, <1>5, <1>6, <1>7, <1>8, <1>9

LEMMA RenameTruthful ==
  ASSUME Typed, Truthful, NEW p \in Procs, Rename(p) PROVE Truthful'
<1> USE DEF Build
<1> DEFINE key == run[p].key  b == builds[p]
<1>1. run[p] \in Runs /\ ~At(p, "idle") /\ key \in Digest
  BY ActiveRun DEF Rename, At, Runs
<1>2. ASSUME Try(p, EnvPython(key)), envs'[key].there,
             \A k \in Digest : envs[k].there => envs'[k] = envs[k]
      PROVE  Truthful'
  <2>1. PICK r \in Runs : /\ Step(p, r) /\ r.pc = "cached" /\ r.entries = run[p].entries
                          /\ r.python = EnvPython(key)
    BY <1>1, <1>2, TryRun
  <2>2. r.python[1] = "env" => envs'[r.python[2]].there
    BY <1>2, <2>1 DEF EnvPython
  <2>3. \A e \in Written : e \in Entries /\ Fair(e)
    BY WrittenFair
  <2>4. probes'.known \subseteq Entries /\ \A e \in probes'.known : Fair(e)
    BY <2>3 DEF Written, Rename
  <2>5. \A e \in r.entries : Fair(e)
    BY <1>1, <2>1, <2>3 DEF Written, Active
  <2> QED
    BY <1>2, <2>1, <2>2, <2>4, <2>5, StepTruthful DEF Rename
<1>3. CASE b.there /\ ~envs[key].there
  <2>1. b \in Environments
    BY <1>3 DEF Typed, BuildsTyped, NoEnv
  <2>2. [b EXCEPT !.moved = run[p].moved].there
    BY <1>3, <2>1 DEF Environments
  <2>3. envs' = [envs EXCEPT ![key] = [b EXCEPT !.moved = run[p].moved]] /\ Try(p, EnvPython(key))
    BY <1>3 DEF Rename
  <2>4. envs'[key].there /\ \A k \in Digest : envs[k].there => envs'[k] = envs[k]
    BY <1>1, <1>3, <2>2, <2>3 DEF Typed, EnvsTyped
  <2> QED
    BY <1>2, <2>3, <2>4
<1>4. CASE ~(b.there /\ ~envs[key].there) /\ Complete(key)
  <2>1. UNCHANGED envs /\ Try(p, EnvPython(key)) /\ envs[key].there
    BY <1>4 DEF Rename, Complete
  <2> QED
    BY <1>2, <2>1
<1>5. CASE ~(b.there /\ ~envs[key].there) /\ ~Complete(key)
  <2>1. Fails(p) /\ UNCHANGED envs
    BY <1>5 DEF Rename
  <2> QED
    BY <2>1, FailsTruthful DEF Rename
<1> QED
  BY <1>3, <1>4, <1>5

LEMMA ProbeFileTruthful ==
  ASSUME Typed, Truthful, NEW p \in Procs,
         \/ Versions(p) \/ ReadAll(p) \/ Open(p) \/ Write(p)
         \/ FindScript(p) \/ FillScript(p) \/ Start(p) \/ Crash(p)
  PROVE  Truthful'
<1>0. ~At(p, "idle")
  BY DEF Versions, ReadAll, Open, Write, FindScript, FillScript, Start, Crash, At
<1>1. run[p] \in Runs /\ Present(run[p].python) /\ \A e \in run[p].entries : Fair(e)
  BY <1>0, ActiveRun, WrittenFair DEF Truthful, InHand, Active, Written
<1>2. \A e \in Written : e \in Entries /\ Fair(e)
  BY WrittenFair
<1>3. probes.known \subseteq Entries /\ \A e \in probes.known : Fair(e)
  BY <1>2 DEF Written
<1>4. run[p].python \in Interps /\ job.needs[p] \in Backends /\ run[p].versions \in 0 .. 2
  BY <1>1 DEF Runs, Typed, WorldTyped, Setups
<1>5. CASE Versions(p)
  <2> DEFINE r == [run[p] EXCEPT !.pc = "read", !.versions = Installed(run[p].python)[job.needs[p]]]
             s == [run[p] EXCEPT !.pc = "script", !.versions = 0]
  <2>1. Installed(run[p].python)[job.needs[p]] \in 0 .. 2
    BY <1>4, InstalledVersions DEF Backends
  <2>2. /\ r \in Runs /\ r.pc = "read" /\ r.python = run[p].python
        /\ r.entries = run[p].entries
        /\ r.versions = Installed(run[p].python)[job.needs[p]]
    BY <1>1, <2>1 DEF Runs, PCs
  <2>3. /\ s \in Runs /\ s.pc = "script" /\ s.python = run[p].python
        /\ s.entries = run[p].entries
    <3>1. 0 \in 0 .. 2 /\ "script" \in PCs
      BY DEF PCs
    <3> QED
      BY <1>1, <3>1 DEF Runs
  <2>4. UNCHANGED << job, base, pythons, unnoticed, envs, probes >>
    BY <1>5 DEF Versions
  <2>5. run[p].python[1] = "env" => envs'[run[p].python[2]].there
    BY <1>1, <2>4 DEF Present
  <2> HIDE DEF r, s
  <2>6. CASE Step(p, r)
    BY <1>1, <1>3, <2>2, <2>4, <2>5, <2>6, StepTruthful
  <2>7. CASE Step(p, s)
    BY <1>1, <1>3, <2>3, <2>4, <2>5, <2>7, StepTruthful
  <2>8. CASE Goto(p, "detect")
    <3>1. "detect" \in PCs \ {"read"}
      BY DEF PCs
    <3> QED
      BY <1>0, <2>4, <2>8, <3>1, GotoTruthful
  <2> QED
    BY <1>5, <2>6, <2>7, <2>8 DEF Versions, r, s
<1>6. CASE ReadAll(p)
  <2> DEFINE new == [about |-> About(p), versions |-> run[p].versions]
             es == {e \in ReadProbes : e.about # About(p)} \cup {new}
             r == [run[p] EXCEPT !.pc = "open", !.entries = es]
  <2>1. new \in Entries /\ new.about = About(p) /\ new.versions = run[p].versions
    BY <1>1, <1>4, AboutTyped DEF Entries
  <2>2. Fair(new)
    <3>1. new.about.python = run[p].python /\ new.about.needs = job.needs[p]
          /\ new.about.stamp = Installed(run[p].python).stamp
      BY <2>1 DEF About, Stamp
    <3>2. base = 1 /\ run[p].python = Python(System) => Installed(run[p].python).stamp = 1
      BY DEF Truthful, SystemStamp, Installed, Python
    <3>3. ~unnoticed => run[p].versions = Installed(run[p].python)[job.needs[p]]
      BY <1>6 DEF Truthful, Honest, ReadAll, At
    <3> QED
      BY <1>1, <2>1, <3>1, <3>2, <3>3 DEF Fair, Lasting, True
  <2>3. es \subseteq Entries /\ \A e \in es : Fair(e)
    BY <1>3, <2>1, <2>2 DEF ReadProbes
  <2>4. /\ r \in Runs /\ r.pc = "open" /\ r.python = run[p].python /\ r.entries = es
    BY <1>1, <2>3 DEF Runs, PCs
  <2>5. Step(p, r) /\ UNCHANGED << job, base, pythons, unnoticed, envs, probes >>
    BY <1>6 DEF ReadAll
  <2>6. r.python[1] = "env" => envs'[r.python[2]].there
    BY <1>1, <2>4, <2>5 DEF Present
  <2> HIDE DEF r, es
  <2> QED
    BY <1>3, <2>3, <2>4, <2>5, <2>6, StepTruthful
<1>7. CASE Open(p)
  <2> DEFINE r == [run[p] EXCEPT !.pc = "write"]
  <2>1. Step(p, r) /\ r \in Runs
    BY <1>0, <1>7, GotoIsStep DEF Open, PCs
  <2>2. r.pc = "write" /\ r.python = run[p].python /\ r.entries = run[p].entries
    BY <1>1 DEF Runs
  <2>3. probes'.known = {} /\ UNCHANGED << job, base, pythons, unnoticed, envs >>
    BY <1>7 DEF Open
  <2>4. r.python[1] = "env" => envs'[r.python[2]].there
    BY <1>1, <2>2, <2>3 DEF Present
  <2> HIDE DEF r
  <2> QED
    BY <1>1, <2>1, <2>2, <2>3, <2>4, StepTruthful
<1>8. CASE Write(p)
  <2> DEFINE r == IF run[p].then = "probe"
                  THEN [run[p] EXCEPT !.pc = "cached", !.then = "versions", !.entries = {}]
                  ELSE [run[p] EXCEPT !.pc = "script", !.entries = {}]
  <2>1. /\ r \in Runs /\ r.pc \in {"cached", "script"} /\ r.python = run[p].python
        /\ r.entries = {}
    BY <1>1 DEF Runs, PCs
  <2>2. PICK whole \in BOOLEAN :
          probes' = [whole |-> whole, known |-> IF whole THEN run[p].entries ELSE {}]
    BY <1>8 DEF Write
  <2>3. probes'.known \subseteq run[p].entries
    BY <2>2
  <2>4. probes'.known \subseteq Entries /\ \A e \in probes'.known : Fair(e)
    BY <1>1, <2>3 DEF Runs
  <2>5. Step(p, r) /\ UNCHANGED << job, base, pythons, unnoticed, envs >>
    BY <1>8 DEF Write
  <2>6. r.python[1] = "env" => envs'[r.python[2]].there
    BY <1>1, <2>1, <2>5 DEF Present
  <2> HIDE DEF r
  <2> QED
    BY <2>1, <2>4, <2>5, <2>6, StepTruthful
<1>9. CASE FindScript(p) \/ FillScript(p)
  <2>1. {"fill", "start"} \subseteq PCs \ {"read"}
    BY DEF PCs
  <2> QED
    BY <1>0, <1>9, <2>1, GotoTruthful DEF FindScript, FillScript
<1>10. CASE Start(p)
  BY <1>10, FailsTruthful DEF Start
<1>11. CASE Crash(p)
  <2>1. job'.needs = job.needs
    BY <1>11, JobTyped DEF Crash
  <2> QED
    BY <1>11, <2>1, FailsTruthful DEF Crash
<1> QED
  BY <1>5, <1>6, <1>7, <1>8, <1>9, <1>10, <1>11

LEMMA EditKeeps ==
  ASSUME Typed, Edit
  PROVE  /\ Active' = Active /\ Written' = Written /\ job'.needs = job.needs
         /\ \A p \in Active : run'[p].pc = run[p].pc /\ run'[p].python = run[p].python
                           /\ run'[p].versions = run[p].versions
         /\ \A p \in Procs \ Active : run'[p].pc = "idle"
<1> USE DEF Edit
<1>1. ASSUME NEW p \in Active
      PROVE  /\ run'[p].pc = run[p].pc /\ run'[p].python = run[p].python
             /\ run'[p].versions = run[p].versions /\ run'[p].entries = run[p].entries
  <2>1. run[p] \in Runs /\ p \in Procs /\ ~At(p, "idle")
    BY <1>1, ActiveRun DEF Active
  <2>2. run'[p] = [run[p] EXCEPT !.moved = TRUE]
    BY <2>1
  <2> QED
    BY <2>1, <2>2 DEF Runs
<1>2. ASSUME NEW p \in Procs \ Active PROVE run'[p].pc = "idle"
  BY <1>2 DEF Active, At
<1>3. Active' = Active
  BY <1>1, <1>2 DEF Active, At
<1>4. Written' = Written
  <2>1. probes' = probes
    OBVIOUS
  <2>2. UNION {run'[p].entries : p \in Active'} = UNION {run[p].entries : p \in Active}
    BY <1>1, <1>3
  <2> QED
    BY <2>1, <2>2 DEF Written
<1>5. job'.needs = job.needs
  BY JobTyped
<1> QED
  BY <1>1, <1>2, <1>3, <1>4, <1>5

LEMMA WorldTruthful ==
  ASSUME Typed, Truthful, EditRequirements \/ UpgradePython \/ ChangePackage PROVE Truthful'
<1>1. Edit /\ UNCHANGED envs
  BY DEF EditRequirements, UpgradePython, ChangePackage, Edit
<1>2. /\ Active' = Active /\ Written' = Written /\ job'.needs = job.needs
      /\ \A p \in Active : run'[p].pc = run[p].pc /\ run'[p].python = run[p].python
                        /\ run'[p].versions = run[p].versions
      /\ \A p \in Procs \ Active : run'[p].pc = "idle"
  BY <1>1, EditKeeps
<1>3. InHand'
  BY <1>1, <1>2 DEF Truthful, InHand, Present
<1>4. \A e \in Written : e \in Entries /\ Fair(e)
  BY WrittenFair
<1>5. ASSUME NEW p \in Procs, run'[p].pc = "read" PROVE p \in Active /\ run[p] \in Runs
  BY <1>2, <1>5, ActiveRun DEF Active
<1>6. CASE EditRequirements
  <2> USE DEF EditRequirements
  <2>1. EntriesLast' /\ SystemStamp'
    BY <1>1, <1>2, <1>6 DEF Truthful, EntriesLast, Lasting, Present, SystemStamp
  <2>2. ~unnoticed => EntriesTrue'
    BY <1>1, <1>2, <1>6 DEF Truthful, EntriesTrue, True, Stamp, Installed
  <2>3. ~unnoticed => Honest'
    <3> SUFFICES ASSUME ~unnoticed, NEW p \in Procs, run'[p].pc = "read"
                 PROVE  run'[p].versions = Installed(run[p].python)'[job'.needs[p]]
      BY DEF Honest
    <3>1. p \in Active /\ run[p].pc = "read" /\ run'[p].python = run[p].python
          /\ run'[p].versions = run[p].versions
      BY <1>2, <1>5
    <3>2. run[p].versions = Installed(run[p].python)[job.needs[p]]
      BY <3>1 DEF Truthful, Honest
    <3> PICK c : c = run[p].python /\ c = run'[p].python
      BY <3>1
    <3>3. Installed(c)' = Installed(c)
      BY <1>1, <1>6 DEF Installed
    <3> QED
      BY <1>2, <3>1, <3>2, <3>3
  <2> QED
    BY <1>3, <1>6, <2>1, <2>2, <2>3 DEF Truthful
<1>7. CASE UpgradePython
  <2> USE DEF UpgradePython
  <2>1. base = 1 /\ base' = 2
    BY <1>7
  <2>2. EntriesLast' /\ SystemStamp'
    BY <1>1, <1>2, <2>1 DEF Truthful, EntriesLast, Lasting, Present, SystemStamp
  <2>3. pythons'[System].stamp = 2 /\ \A u \in Names \ {System} : pythons'[u] = pythons[u]
    BY <1>7 DEF Typed, WorldTyped, Names
  <2>4. ASSUME NEW c \in Interps, c # Python(System) PROVE Installed(c)' = Installed(c)
    BY <1>1, <2>3, <2>4 DEF Installed, Interps, Python
  <2>5. ASSUME ~unnoticed, NEW e \in Written PROVE True(e)'
    <3> DEFINE c == e.about.python
    <3>1. e \in Entries /\ Lasting(e) /\ True(e) /\ c \in Interps
      BY <1>4, <2>5 DEF Fair, Entries
    <3>2. CASE c = Python(System)
      BY <2>1, <2>3, <3>1, <3>2 DEF Lasting, True, Stamp, Installed, Python
    <3>3. CASE c # Python(System)
      BY <2>4, <3>1, <3>3 DEF True, Stamp
    <3> QED
      BY <3>2, <3>3
  <2>6. ASSUME ~unnoticed', NEW p \in Procs, run'[p].pc = "read"
        PROVE  run'[p].versions = Installed(run[p].python)'[job'.needs[p]]
    <3>1. p \in Active /\ run[p] \in Runs /\ run[p].pc = "read"
      BY <1>2, <1>5, <2>6
    <3>2. run[p].python # Python(System) /\ ~unnoticed
      BY <1>7, <2>6, <3>1 DEF At, Asking
    <3>3. run[p].versions = Installed(run[p].python)[job.needs[p]]
      BY <3>1, <3>2 DEF Truthful, Honest
    <3>4. run[p].python \in Interps /\ run'[p].python = run[p].python
          /\ run'[p].versions = run[p].versions
      BY <1>2, <3>1 DEF Runs
    <3> PICK c : c = run[p].python /\ c = run'[p].python
      BY <3>4
    <3>5. Installed(c)' = Installed(c)
      BY <2>4, <3>2, <3>4
    <3> QED
      BY <1>2, <3>3, <3>4, <3>5
  <2>7. ~unnoticed' => ~unnoticed
    BY <1>7
  <2> QED
    BY <1>2, <1>3, <2>2, <2>5, <2>6, <2>7 DEF Truthful, Honest, EntriesTrue
<1>8. CASE ChangePackage
  <2>1. unnoticed' = TRUE /\ base' = base
    BY <1>8 DEF ChangePackage
  <2>2. base = 1 => pythons'[System].stamp = 1
    <3>1. PICK u \in Users, needs \in Backends, v \in 0 .. 2 :
            pythons' = [pythons EXCEPT ![u][needs] = v]
      BY <1>8 DEF ChangePackage
    <3>2. u \in Names /\ System \in Names /\ pythons[u] \in Installations
      BY DEF Names, Typed, WorldTyped
    <3>3. [pythons[u] EXCEPT ![needs] = v].stamp = pythons[u].stamp
      BY <3>2 DEF Installations, Backends
    <3> QED
      BY <3>1, <3>2, <3>3 DEF Truthful, SystemStamp, Typed, WorldTyped
  <2>3. EntriesLast' /\ SystemStamp'
    BY <1>1, <1>2, <2>1, <2>2 DEF Truthful, EntriesLast, Lasting, Present, SystemStamp
  <2> QED
    BY <1>3, <2>1, <2>3 DEF Truthful
<1> QED
  BY <1>6, <1>7, <1>8

LEMMA NextTruthful == Sound /\ Truthful /\ [Next]_vars => Truthful'
<1> SUFFICES ASSUME Sound, Truthful, [Next]_vars PROVE Truthful'
  OBVIOUS
<1>1. CASE UNCHANGED vars
  <2> USE <1>1 DEF vars
  <2>1. InHand' /\ SystemStamp'
    BY DEF Truthful, InHand, SystemStamp, Present, Active, At
  <2>2. ~unnoticed' => Honest'
    BY DEF Truthful, Honest, Installed
  <2>3. Written' = Written
    BY DEF Written, Active, At
  <2>4. EntriesLast'
    BY <2>3 DEF Truthful, EntriesLast, Lasting, Present
  <2>5. ~unnoticed' => EntriesTrue'
    BY <2>3 DEF Truthful, EntriesTrue, True, Stamp, Installed
  <2> QED
    BY <2>1, <2>2, <2>4, <2>5 DEF Truthful
<1>2. CASE Next
  BY <1>2, SearchTruthful, RenameTruthful, ProbeFileTruthful, WorldTruthful DEF Next, Sound
<1> QED
  BY <1>1, <1>2

(* As long as packages change only with their interpreter's file, and not  *)
(* as it is being asked, whatever the probe file says, and whatever a      *)
(* compile is about to write there, is true of the interpreter it is       *)
(* about: compiles that read, write and die at once only lose entries      *)
(* (python.rs, remember).                                                  *)
THEOREM MemoryStaysTrue == Spec => []RememberedIsTrue
<1>1. Init => Sound /\ Truthful
  BY InitSound, InitTruthful
<1>2. Sound /\ Truthful /\ [Next]_vars => (Sound /\ Truthful)'
  BY NextSound, NextTruthful
<1>3. Sound /\ Truthful => RememberedIsTrue
  BY DEF Truthful, EntriesTrue, Written, RememberedIsTrue, ReadProbes
<1> QED
  BY <1>1, <1>2, <1>3, PTL DEF Spec

-----------------------------------------------------------------------------
(* What is chosen.                                                         *)

(* Nothing has happened that a compile cannot notice. *)
Calm == ~unnoticed /\ ~outdated
USE DEF Calm

Settled == {"read", "open", "write", "script", "fill", "start"}

(* Where a compile has seen that its interpreter can do what it needs. *)
Proven(r) == r.pc \in Settled \cup {"versions"} \/ (r.pc = "cached" /\ r.then = "versions")

(* Where it has its versions, and asks no more. *)
Gone(r) == r.pc \in {"script", "fill", "start"}

Found(p, r) ==
  /\ Calm /\ Proven(r) /\ ~(r.moved /\ Gone(r)) => Works(r.python, job.needs[p])
  /\ Calm /\ ~r.moved /\ r.pc \in Settled =>
       r.versions = Installed(r.python)[job.needs[p]]
  /\ Managed(p) /\ r.pc \notin Building \cup {"detect"} => r.python[1] = "env"

(* How many candidates it has taken up; all before the last one failed. *)
Place(p, r) == Len(Tried(p)) - Len(r.rest)
Searched(p, r) ==
  /\ Len(r.rest) <= Len(Tried(p))
  /\ \A i \in 1 .. Len(r.rest) : r.rest[i] = Tried(p)[Place(p, r) + i]
  /\ r.pc # "detect" =>
       /\ r.pc \notin Building /\ Place(p, r) > 0
       /\ r.python = Python(Tried(p)[Place(p, r)])
  /\ Calm /\ ~r.moved =>
       \A i \in 1 .. Place(p, r) :
         i < Place(p, r) \/ r.pc = "detect" => ~Works(Python(Tried(p)[i]), job.needs[p])

Chooses(p, r) == r.pc # "idle" => Found(p, r) /\ (~Managed(p) => Searched(p, r))
Positive == Calm => \A e \in Written : e.versions > 0
Chosen == Positive /\ \A p \in Procs : Chooses(p, run[p])

LEMMA InitChosen == Init => Chosen
<1> SUFFICES ASSUME Init PROVE Chosen
  OBVIOUS
<1>1. Written = {}
  BY DEF Init, Written, Active, At
<1>2. \A p \in Procs : Chooses(p, run[p])
  BY DEF Init, Chooses
<1> QED
  BY <1>1, <1>2 DEF Chosen, Positive

(* The job stays what it is, but for its budgets. *)
SameJob ==
  job'.needs = job.needs /\ job'.explicit = job.explicit
  /\ job'.venvs = job.venvs /\ job'.pex = job.pex

LEMMA BudgetSpent ==
  ASSUME Typed,
         \/ UNCHANGED job
         \/ \E p \in Procs : job' = [job EXCEPT !.runs[p] = @ - 1]
         \/ job' = [job EXCEPT !.edits = @ - 1]
         \/ job' = [job EXCEPT !.crashes = @ - 1]
  PROVE  SameJob
  BY DEF SameJob, Typed, WorldTyped, Setups

LEMMA SameSearch ==
  ASSUME SameJob, NEW p \in Procs
  PROVE  /\ Tried(p)' = Tried(p) /\ Managed(p)' = Managed(p)
         /\ job'.needs[p] = job.needs[p]
  BY DEF SameJob, Tried, Managed, Candidates

LEMMA CandidateTyped ==
  ASSUME Typed, NEW p \in Procs, NEW i \in 1 .. Len(Tried(p))
  PROVE  Tried(p)[i] \in Names /\ Python(Tried(p)[i]) \in Interps
  BY TriedNames DEF Python, Interps

(* An interpreter that works stays what it is, unless the user changes it. *)
LEMMA WorkingStays ==
  ASSUME Typed, UNCHANGED pythons, \A k \in Digest : envs[k].there => envs'[k] = envs[k],
         NEW c \in Interps, NEW n \in Backends, Works(c, n)
  PROVE  Installed(c)' = Installed(c)
<1>1. CASE c[1] = "user"
  BY <1>1 DEF Installed
<1>2. CASE c[1] # "user"
  <2>1. c[2] \in Digest
    BY <1>2 DEF Interps
  <2>2. envs[c[2]].there
    BY <1>2 DEF Works, Installed, Backends
  <2> QED
    BY <1>2, <2>1, <2>2 DEF Installed
<1> QED
  BY <1>1, <1>2

LEMMA ChoosesStays ==
  ASSUME Typed, SameJob, UNCHANGED << pythons, history >>,
         \A k \in Digest : envs[k].there => envs'[k] = envs[k],
         NEW p \in Procs, NEW r \in [pc : {"idle"}] \cup Runs, Chooses(p, r)
  PROVE  Chooses(p, r)'
<1> SUFFICES ASSUME r.pc # "idle" PROVE Found(p, r)' /\ (~Managed(p)' => Searched(p, r)')
  BY DEF Chooses
<1>1. r \in Runs /\ r.python \in Interps /\ job.needs[p] \in Backends
  BY DEF Runs, Typed, WorldTyped, Setups
<1>2. /\ Tried(p)' = Tried(p) /\ Managed(p)' = Managed(p) /\ job'.needs[p] = job.needs[p]
  BY SameSearch
<1>3. Works(r.python, job.needs[p]) => Installed(r.python)' = Installed(r.python)
  BY <1>1, WorkingStays
<1>4. Proven(r)' = Proven(r) /\ (r.pc \in Settled => Proven(r))
  BY DEF Proven
<1>5. Found(p, r)'
  BY <1>2, <1>3, <1>4 DEF Chooses, Found, Works
<1>6. ASSUME ~Managed(p) PROVE Searched(p, r)'
  <2>1. Searched(p, r) /\ Place(p, r)' = Place(p, r)
    BY <1>2, <1>6 DEF Chooses, Place
  <2>2. \A i \in 1 .. Place(p, r) :
          Works(Python(Tried(p)[i]), job.needs[p])' = Works(Python(Tried(p)[i]), job.needs[p])
    BY <1>2 DEF Works, Installed, Python
  <2> QED
    BY <1>2, <2>1, <2>2 DEF Searched
<1> QED
  BY <1>2, <1>5, <1>6

(* A step of p. *)
LEMMA ChosenStep ==
  ASSUME Typed, Chosen, NEW p \in Procs, NEW r \in [pc : {"idle"}] \cup Runs, Step(p, r),
         SameJob, UNCHANGED << pythons, history >>,
         \A k \in Digest : envs[k].there => envs'[k] = envs[k], Chooses(p, r),
         r.pc # "idle" => (Calm => \A e \in r.entries : e.versions > 0),
         Calm => \A e \in probes'.known : e.versions > 0
  PROVE  Chosen'
<1>1. run'[p] = r /\ \A q \in Procs \ {p} : run'[q] = run[q]
  BY StepTyped DEF Typed
<1>2. ASSUME NEW q \in Procs PROVE Chooses(q, run[q])'
  <2> DEFINE s == run'[q]
  <2>1. s \in [pc : {"idle"}] \cup Runs /\ Chooses(q, s)
    <3>1. CASE q = p
      BY <1>1, <3>1
    <3>2. CASE q # p
      BY <1>1, <3>2 DEF Typed, RunTyped, Chosen
    <3> QED
      BY <3>1, <3>2
  <2> PICK t \in [pc : {"idle"}] \cup Runs : t = s
    BY <2>1
  <2>2. Chooses(q, t)'
    BY <2>1, ChoosesStays
  <2> QED
    BY <2>2
<1>3. Positive'
  <2> SUFFICES ASSUME Calm, NEW e \in Written' PROVE e.versions > 0
    BY DEF Positive
  <2>1. CASE e \in probes'.known
    BY <2>1
  <2>2. CASE e \notin probes'.known
    <3>1. PICK q \in Procs : run'[q].pc # "idle" /\ e \in run'[q].entries
      BY <2>2 DEF Written, Active, At
    <3>2. CASE q = p
      BY <1>1, <3>1, <3>2
    <3>3. CASE q # p
      <4>1. e \in Written
        BY <1>1, <3>1, <3>3 DEF Written, Active, At
      <4> QED
        BY <4>1 DEF Chosen, Positive
    <3> QED
      BY <3>2, <3>3
  <2> QED
    BY <2>1, <2>2
<1> QED
  BY <1>2, <1>3 DEF Chosen

(* A step that writes nothing down. *)
LEMMA QuietChosen ==
  ASSUME Typed, Chosen, NEW p \in Procs, NEW r \in [pc : {"idle"}] \cup Runs, Step(p, r),
         SameJob, UNCHANGED << pythons, history, probes >>,
         \A k \in Digest : envs[k].there => envs'[k] = envs[k], Chooses(p, r),
         r.pc # "idle" => r.entries = {} \/ (~At(p, "idle") /\ r.entries = run[p].entries)
  PROVE  Chosen'
<1>1. Calm => \A e \in probes'.known : e.versions > 0
  BY DEF Chosen, Positive, Written
<1>2. r.pc # "idle" => (Calm => \A e \in r.entries : e.versions > 0)
  BY DEF Chosen, Positive, Written, Active
<1> QED
  BY <1>1, <1>2, ChosenStep

LEMMA FailsChosen ==
  ASSUME Typed, Chosen, NEW p \in Procs, Fails(p), SameJob,
         UNCHANGED << pythons, history, probes, envs >>
  PROVE  Chosen'
<1> DEFINE r == [pc |-> "idle"]
<1>1. r \in [pc : {"idle"}] \cup Runs /\ Step(p, r) /\ r.pc = "idle" /\ Chooses(p, r)
  BY NoRun DEF Fails, Chooses
<1> HIDE DEF r
<1> QED
  BY <1>1, QuietChosen

(* The same candidate, or the next one after it failed. *)
LEMMA SearchGoesOn ==
  ASSUME Typed, NEW p \in Procs, NEW r \in Runs, NEW s \in Runs, Searched(p, r),
         s.rest = r.rest, s.python = r.python, s.moved = r.moved,
         r.pc # "detect", s.pc \notin Building,
         s.pc = "detect" => (Calm => ~Works(r.python, job.needs[p]))
  PROVE  Searched(p, s)
<1>1. Place(p, s) = Place(p, r) /\ Place(p, r) \in Int
  <2>1. Len(Tried(p)) \in Nat /\ Len(r.rest) \in Nat
    BY TriedNames DEF Runs
  <2> QED
    BY <2>1 DEF Place
<1>2. Calm /\ ~s.moved =>
        \A i \in 1 .. Place(p, s) :
          i < Place(p, s) \/ s.pc = "detect" => ~Works(Python(Tried(p)[i]), job.needs[p])
  <2> SUFFICES ASSUME Calm, ~s.moved, NEW i \in 1 .. Place(p, s),
                      i < Place(p, s) \/ s.pc = "detect"
               PROVE  ~Works(Python(Tried(p)[i]), job.needs[p])
    OBVIOUS
  <2>1. CASE i < Place(p, s)
    BY <1>1, <2>1 DEF Searched
  <2>2. CASE ~(i < Place(p, s))
    <3>1. i = Place(p, r) /\ s.pc = "detect"
      BY <1>1, <2>2
    <3>2. r.python = Python(Tried(p)[i])
      BY <3>1 DEF Searched
    <3> QED
      BY <3>1, <3>2
  <2> QED
    BY <2>1, <2>2
<1> QED
  BY <1>1, <1>2 DEF Searched

(* A compile that goes on with what it has in hand. *)
LEMMA GoesOnChosen ==
  ASSUME Typed, Chosen, NEW p \in Procs, ~At(p, "idle"), NEW r \in Runs, Step(p, r),
         UNCHANGED << job, pythons, history, probes >>,
         \A k \in Digest : envs[k].there => envs'[k] = envs[k],
         r.entries = run[p].entries, r.rest = run[p].rest, r.python = run[p].python,
         r.moved = run[p].moved, ~At(p, "detect"), r.pc \notin Building, Found(p, r),
         r.pc = "detect" => (Calm => ~Works(r.python, job.needs[p]))
  PROVE  Chosen'
<1>1. run[p] \in Runs /\ (~Managed(p) => Searched(p, run[p]))
  BY ActiveRun DEF Chosen, Chooses, At
<1>2. ~Managed(p) => Searched(p, r)
  BY <1>1, SearchGoesOn DEF At
<1>3. Chooses(p, r) /\ SameJob
  BY <1>2 DEF Chooses, SameJob
<1> QED
  BY <1>3, QuietChosen

(* An environment of krab's: only a compile that is told of none has one. *)
LEMMA BuildersChosen ==
  ASSUME Typed, Chosen, NEW p \in Procs, NEW r \in Runs, Step(p, r),
         ~At(p, "idle"), Managed(p), UNCHANGED << job, pythons, history, probes >>,
         \A k \in Digest : envs[k].there => envs'[k] = envs[k],
         r.entries = run[p].entries,
         r.pc \in Building \/ (r.pc = "cached" /\ r.then = "probe" /\ r.python[1] = "env")
  PROVE  Chosen'
<1>1. Found(p, r)
  BY DEF Found, Proven, Settled, Building
<1>2. Chooses(p, r) /\ SameJob
  BY <1>1 DEF Chooses, SameJob
<1> QED
  BY <1>2, QuietChosen

LEMMA TryEnvironment ==
  ASSUME NEW p \in Procs, run[p] \in Runs, Try(p, EnvPython(run[p].key))
  PROVE  \E r \in Runs : /\ Step(p, r) /\ r.pc = "cached" /\ r.then = "probe"
                         /\ r.python[1] = "env" /\ r.entries = run[p].entries
<1> DEFINE r == [run[p] EXCEPT !.pc = "cached", !.python = EnvPython(run[p].key), !.then = "probe"]
<1>1. EnvPython(run[p].key) \in Interps /\ EnvPython(run[p].key)[1] = "env"
  BY DEF EnvPython, Interps, Runs
<1>2. r \in Runs /\ r.pc = "cached" /\ r.then = "probe" /\ r.python[1] = "env"
      /\ r.entries = run[p].entries
  BY <1>1 DEF Runs, PCs
<1> QED
  BY <1>2 DEF Try

LEMMA BuildingChosen ==
  ASSUME Typed, Chosen, NEW p \in Procs,
         Look(p) \/ MakeVenv(p) \/ Install(p) \/ BuildFails(p) \/ Mark(p) \/ Rename(p)
  PROVE  Chosen'
<1>1. run[p] \in Runs /\ ~At(p, "idle") /\ run[p].pc \in Building
  BY ActiveRun DEF Look, MakeVenv, Install, BuildFails, Mark, Rename, At, Building
<1>2. Managed(p)
  BY <1>1 DEF Chosen, Chooses, Searched, Building
<1>3. /\ UNCHANGED << job, pythons, history, probes >> /\ SameJob
      /\ \A k \in Digest : envs[k].there => envs'[k] = envs[k]
  <2>1. UNCHANGED << job, pythons, history, probes >>
    BY DEF Look, MakeVenv, Install, BuildFails, Mark, Rename
  <2>2. \A k \in Digest : envs[k].there => envs'[k] = envs[k]
    <3>1. CASE UNCHANGED envs
      BY <3>1
    <3>2. CASE Rename(p)
      BY <1>1, <3>2 DEF Rename, Typed, EnvsTyped, Runs
    <3> QED
      BY <3>1, <3>2 DEF Look, MakeVenv, Install, BuildFails, Mark
  <2> QED
    BY <2>1, <2>2 DEF SameJob
<1>4. CASE Try(p, EnvPython(run[p].key))
  <2>1. PICK r \in Runs : /\ Step(p, r) /\ r.pc = "cached" /\ r.then = "probe"
                          /\ r.python[1] = "env" /\ r.entries = run[p].entries
    BY <1>1, <1>4, TryEnvironment
  <2> QED
    BY <1>1, <1>2, <1>3, <2>1, BuildersChosen
<1>5. CASE \E pc \in Building : Goto(p, pc)
  <2>1. PICK pc \in Building : Goto(p, pc)
    BY <1>5
  <2> DEFINE r == [run[p] EXCEPT !.pc = pc]
  <2>2. Step(p, r) /\ r \in Runs
    BY <1>1, <2>1, GotoIsStep DEF Building, PCs
  <2>3. r.pc = pc /\ r.entries = run[p].entries
    BY <1>1 DEF Runs
  <2> HIDE DEF r
  <2> QED
    BY <1>1, <1>2, <1>3, <2>2, <2>3, BuildersChosen
<1>6. CASE Fails(p) /\ UNCHANGED envs
  BY <1>3, <1>6, FailsChosen
<1> QED
  BY <1>4, <1>5, <1>6 DEF Look, MakeVenv, Install, BuildFails, Mark, Rename, Building

LEMMA BeginChosen == ASSUME Typed, Chosen, NEW p \in Procs, Begin(p) PROVE Chosen'
<1> DEFINE r == Fresh(p)
<1>1. Tried(p) \in Seq(Names)
  BY TriedNames
<1>2. /\ r \in Runs /\ r.pc = "detect" /\ r.rest = Tried(p) /\ r.entries = {}
  BY <1>1 DEF Fresh, Runs, PCs, Digest, Interps, Python, Names
<1>3. Place(p, r) = 0
  BY <1>1, <1>2 DEF Place
<1>4. Searched(p, r) /\ Found(p, r)
  BY <1>1, <1>2, <1>3 DEF Searched, Found, Proven, Settled
<1>5. SameJob
  BY BudgetSpent DEF Begin
<1>6. Chooses(p, r)
  BY <1>4 DEF Chooses
<1> QED
  BY <1>2, <1>5, <1>6, QuietChosen DEF Begin

(* The next candidate is taken up. *)
LEMMA DetectChosen == ASSUME Typed, Chosen, NEW p \in Procs, Detect(p) PROVE Chosen'
<1>1. run[p] \in Runs /\ ~At(p, "idle") /\ run[p].pc = "detect"
  BY ActiveRun DEF Detect, At
<1>2. UNCHANGED << job, pythons, history, probes, envs >> /\ SameJob
  BY DEF Detect, SameJob
<1>3. CASE Managed(p)
  <2> DEFINE r == [run[p] EXCEPT !.pc = "look", !.key = Key]
  <2>1. r \in Runs /\ r.pc \in Building /\ r.entries = run[p].entries
    BY <1>1, KeyDigest DEF Runs, PCs, Building
  <2>2. Step(p, r)
    BY <1>3 DEF Detect
  <2> HIDE DEF r
  <2> QED
    BY <1>1, <1>2, <1>3, <2>1, <2>2, BuildersChosen
<1>4. CASE ~Managed(p) /\ run[p].rest = << >>
  BY <1>2, <1>4, FailsChosen DEF Detect
<1>5. CASE ~Managed(p) /\ run[p].rest # << >>
  <2> DEFINE t == Tried(p)  rest == run[p].rest
             r == [run[p] EXCEPT !.pc = "cached", !.python = Python(Head(rest)),
                                 !.rest = Tail(@), !.then = "probe"]
  <2>1. t \in Seq(Names) /\ rest \in Seq(Names) /\ Searched(p, run[p])
    BY <1>1, <1>5, TriedNames DEF Runs, Chosen, Chooses
  <2>2. Head(rest) = rest[1] /\ Head(rest) \in Names /\ Tail(rest) \in Seq(Names)
        /\ Len(Tail(rest)) = Len(rest) - 1 /\ \A i \in 1 .. Len(Tail(rest)) : Tail(rest)[i] = rest[i + 1]
    BY <1>5, <2>1
  <2>3. /\ r \in Runs /\ r.pc = "cached" /\ r.python = Python(Head(rest)) /\ r.then = "probe"
        /\ r.rest = Tail(rest) /\ r.moved = run[p].moved /\ r.entries = run[p].entries
    BY <1>1, <2>2 DEF Runs, PCs, Python, Interps
  <2>4. Step(p, r)
    BY <1>5 DEF Detect
  <2> HIDE DEF r
  <2>5. /\ Place(p, r) = Place(p, run[p]) + 1 /\ Place(p, run[p]) \in Nat
        /\ Len(rest) \in Nat \ {0}
    <3>1. Len(rest) \in Nat \ {0}
      BY <1>5, <2>1
    <3>2. Len(t) \in Nat /\ Len(rest) <= Len(t)
      BY <2>1 DEF Searched
    <3>3. Place(p, r) = Len(t) - (Len(rest) - 1) /\ Place(p, run[p]) = Len(t) - Len(rest)
      BY <2>2, <2>3 DEF Place
    <3> QED
      BY <3>1, <3>2, <3>3
  <2>6. \A i \in 1 .. Len(r.rest) : r.rest[i] = t[Place(p, r) + i]
    <3> SUFFICES ASSUME NEW i \in 1 .. Len(r.rest) PROVE r.rest[i] = t[Place(p, r) + i]
      OBVIOUS
    <3>1. i + 1 \in 1 .. Len(rest) /\ r.rest[i] = rest[i + 1]
      BY <2>1, <2>2, <2>3, <2>5
    <3>2. rest[i + 1] = t[Place(p, run[p]) + (i + 1)]
      BY <2>1, <3>1 DEF Searched
    <3>3. Place(p, run[p]) + (i + 1) = Place(p, r) + i
      BY <2>5
    <3> QED
      BY <3>1, <3>2, <3>3
  <2>7. r.python = Python(t[Place(p, r)])
    <3>1. 1 \in 1 .. Len(rest)
      BY <2>5
    <3> QED
      BY <2>1, <2>2, <2>3, <2>5, <3>1 DEF Searched
  <2>8. Calm /\ ~r.moved =>
          \A i \in 1 .. Place(p, r) : i < Place(p, r) => ~Works(Python(t[i]), job.needs[p])
    BY <1>1, <2>1, <2>3, <2>5 DEF Searched
  <2>9. Searched(p, r)
    <3>1. Len(r.rest) <= Len(t)
      BY <2>1, <2>2, <2>3, <2>5 DEF Searched
    <3> QED
      BY <2>3, <2>5, <2>6, <2>7, <2>8, <3>1 DEF Searched, Building
  <2>10. Found(p, r)
    BY <1>5, <2>3 DEF Found, Proven, Settled
  <2>11. Chooses(p, r)
    BY <2>9, <2>10 DEF Chooses
  <2> QED
    BY <1>1, <1>2, <2>3, <2>4, <2>11, QuietChosen
<1> QED
  BY <1>3, <1>4, <1>5

(* What the file says of an interpreter was found out of one that works. *)
LEMMA KnownWorks ==
  ASSUME Typed, Truthful, Chosen, NEW p \in Procs, Calm, Knows(p, ReadProbes)
  PROVE  /\ Works(run[p].python, job.needs[p])
         /\ Known(p, ReadProbes) = Installed(run[p].python)[job.needs[p]]
<1>1. PICK e \in ReadProbes : e.about = About(p) /\ Known(p, ReadProbes) = e.versions
  BY DEF Knows, Known
<1>2. e \in Written
  BY DEF ReadProbes, Written
<1>3. True(e) /\ e.versions > 0
  BY <1>2 DEF Truthful, EntriesTrue, Chosen, Positive
<1> QED
  BY <1>1, <1>3 DEF True, About, Stamp, Works

(* A jump to pc, with what is in hand. *)
LEMMA JumpChosen ==
  ASSUME Typed, Chosen, NEW p \in Procs, ~At(p, "idle"), ~At(p, "detect"),
         NEW pc \in PCs \ Building, Goto(p, pc),
         UNCHANGED << job, pythons, history, probes, envs >>,
         /\ Calm /\ ~(run[p].moved /\ pc \in {"fill", "start"})
         /\ pc \in Settled \cup {"versions"} \/ (pc = "cached" /\ run[p].then = "versions")
         => Works(run[p].python, job.needs[p]),
         pc \in Settled => run[p].pc \in Settled,
         pc = "detect" => (Calm => ~Works(run[p].python, job.needs[p])),
         run[p].pc \notin Building
  PROVE  Chosen'
<1> DEFINE r == [run[p] EXCEPT !.pc = pc]
<1>1. run[p] \in Runs /\ Found(p, run[p])
  BY ActiveRun DEF Chosen, Chooses, At
<1>2. Step(p, r) /\ r \in Runs
  BY GotoIsStep
<1>3. /\ r.pc = pc /\ r.entries = run[p].entries /\ r.rest = run[p].rest /\ r.python = run[p].python
      /\ r.moved = run[p].moved /\ r.then = run[p].then /\ r.versions = run[p].versions
  BY <1>1 DEF Runs
<1> HIDE DEF r
<1>4. Found(p, r)
  BY <1>1, <1>3 DEF Found, Proven, Gone, At
<1> QED
  BY <1>2, <1>3, <1>4, GoesOnChosen

LEMMA AskingChosen ==
  ASSUME Typed, Truthful, Chosen, NEW p \in Procs, Cached(p) \/ Probe(p) \/ Versions(p)
  PROVE  Chosen'
<1>1. run[p] \in Runs /\ ~At(p, "idle") /\ run[p].pc \in {"cached", "probe", "versions"}
  BY ActiveRun DEF Cached, Probe, Versions, At
<1>2. UNCHANGED << job, pythons, history, probes, envs >> /\ SameJob
  BY DEF Cached, Probe, Versions, SameJob
<1>3. Found(p, run[p]) /\ run[p].then \in {"probe", "versions"}
  BY <1>1 DEF Chosen, Chooses, Runs
<1>4. ~At(p, "detect") /\ run[p].pc \notin Building \cup Settled
  BY <1>1 DEF At, Building, Settled
<1>5. run[p].python \in Interps /\ job.needs[p] \in Backends
  BY <1>1 DEF Runs, Typed, WorldTyped, Setups
<1>6. Installed(run[p].python)[job.needs[p]] \in 0 .. 2
  BY <1>5, InstalledVersions DEF Backends
<1>7. CASE Cached(p)
  <2>1. CASE ~Knows(p, ReadProbes)
    <3>1. Goto(p, run[p].then) /\ run[p].then \in PCs \ (Building \cup Settled)
      BY <1>3, <1>7, <2>1 DEF Cached, PCs, Building, Settled
    <3>2. Calm /\ run[p].then = "versions" => Works(run[p].python, job.needs[p])
      BY <1>3, <1>7 DEF Found, Proven, Gone, Cached, At
    <3> QED
      BY <1>1, <1>2, <1>3, <1>4, <3>1, <3>2, JumpChosen
  <2>2. CASE Knows(p, ReadProbes) /\ run[p].then = "probe"
    <3> DEFINE r == [run[p] EXCEPT !.pc = "cached", !.then = "versions"]
    <3>1. /\ r \in Runs /\ r.pc = "cached" /\ r.entries = run[p].entries /\ r.rest = run[p].rest
          /\ r.python = run[p].python /\ r.moved = run[p].moved
      BY <1>1 DEF Runs, PCs
    <3>2. Step(p, r)
      BY <1>7, <2>2 DEF Cached
    <3> HIDE DEF r
    <3>3. Calm => Works(r.python, job.needs[p])
      BY <2>2, <3>1, KnownWorks
    <3>4. Found(p, r) /\ r.pc \notin Building
      BY <1>3, <1>4, <3>1, <3>3 DEF Found, Settled, Building, At
    <3> QED
      BY <1>1, <1>2, <1>4, <3>1, <3>2, <3>4, GoesOnChosen
  <2>3. CASE Knows(p, ReadProbes) /\ run[p].then # "probe"
    <3> DEFINE r == [run[p] EXCEPT !.pc = "script", !.versions = Known(p, ReadProbes)]
    <3>0. Known(p, ReadProbes) \in 0 .. 2
      BY <2>3 DEF Known, Knows, ReadProbes, Typed, ProbesTyped, Entries
    <3>1. /\ r \in Runs /\ r.pc = "script" /\ r.entries = run[p].entries /\ r.rest = run[p].rest
          /\ r.python = run[p].python /\ r.moved = run[p].moved
          /\ r.versions = Known(p, ReadProbes)
      BY <1>1, <3>0 DEF Runs, PCs
    <3>2. Step(p, r)
      BY <1>7, <2>3 DEF Cached
    <3> HIDE DEF r
    <3>3. Calm => /\ Works(r.python, job.needs[p])
                        /\ r.versions = Installed(r.python)[job.needs[p]]
      BY <2>3, <3>1, KnownWorks
    <3>4. Found(p, r) /\ r.pc \notin Building
      BY <1>3, <1>4, <3>1, <3>3 DEF Found, Settled, Building, At
    <3> QED
      BY <1>1, <1>2, <1>4, <3>1, <3>2, <3>4, GoesOnChosen
  <2> QED
    BY <2>1, <2>2, <2>3
<1>8. CASE Probe(p)
  <2>1. {"versions", "detect"} \subseteq PCs \ (Building \cup Settled)
    BY DEF PCs, Building, Settled
  <2>2. CASE Works(run[p].python, job.needs[p])
    <3>1. Goto(p, "versions")
      BY <1>8, <2>2 DEF Probe
    <3> QED
      BY <1>1, <1>2, <1>4, <2>1, <2>2, <3>1, JumpChosen
  <2>3. CASE ~Works(run[p].python, job.needs[p]) /\ Managed(p)
    BY <1>2, <1>8, <2>3, FailsChosen DEF Probe
  <2>4. CASE ~Works(run[p].python, job.needs[p]) /\ ~Managed(p)
    <3>1. Goto(p, "detect")
      BY <1>8, <2>4 DEF Probe
    <3> QED
      BY <1>1, <1>2, <1>4, <2>1, <2>4, <3>1, JumpChosen
  <2> QED
    BY <2>2, <2>3, <2>4
<1>9. CASE Versions(p)
  <2>1. Calm => Works(run[p].python, job.needs[p])
    BY <1>3, <1>9 DEF Found, Proven, Gone, Versions, At
  <2>2. CASE Answers(p)
    <3> DEFINE r == [run[p] EXCEPT !.pc = "read", !.versions = Installed(run[p].python)[job.needs[p]]]
    <3>1. /\ r \in Runs /\ r.pc = "read" /\ r.entries = run[p].entries /\ r.rest = run[p].rest
          /\ r.python = run[p].python /\ r.moved = run[p].moved
          /\ r.versions = Installed(run[p].python)[job.needs[p]]
      BY <1>1, <1>6 DEF Runs, PCs
    <3>2. Step(p, r)
      BY <1>9, <2>2 DEF Versions
    <3> HIDE DEF r
    <3>3. Found(p, r) /\ r.pc \notin Building
      BY <1>3, <1>4, <2>1, <3>1 DEF Found, Settled, Building, At
    <3> QED
      BY <1>1, <1>2, <1>4, <3>1, <3>2, <3>3, GoesOnChosen
  <2>3. CASE ~Answers(p)
    <3>1. ~Works(run[p].python, job.needs[p])
      BY <1>5, <2>3 DEF Answers, Backends
    <3>2. ~Calm
      BY <2>1, <3>1
    <3>3. CASE run[p].then = "probe"
      <4>1. Goto(p, "detect") /\ "detect" \in PCs \ (Building \cup Settled)
        BY <1>9, <2>3, <3>3 DEF Versions, PCs, Building, Settled
      <4> QED
        BY <1>1, <1>2, <1>4, <3>2, <4>1, JumpChosen
    <3>4. CASE run[p].then # "probe"
      <4> DEFINE r == [run[p] EXCEPT !.pc = "script", !.versions = 0]
      <4>0. 0 \in 0 .. 2 /\ "script" \in PCs
        BY DEF PCs
      <4>1. /\ r \in Runs /\ r.pc = "script" /\ r.entries = run[p].entries /\ r.rest = run[p].rest
            /\ r.python = run[p].python /\ r.moved = run[p].moved
        BY <1>1, <4>0 DEF Runs
      <4>2. Step(p, r)
        BY <1>9, <2>3, <3>4 DEF Versions
      <4> HIDE DEF r
      <4>3. Found(p, r) /\ r.pc \notin Building
        BY <1>3, <1>4, <3>2, <4>1 DEF Found, Settled, Building, At
      <4> QED
        BY <1>1, <1>2, <1>4, <4>1, <4>2, <4>3, GoesOnChosen
    <3> QED
      BY <3>3, <3>4
  <2> QED
    BY <2>2, <2>3
<1> QED
  BY <1>7, <1>8, <1>9

LEMMA FileChosen ==
  ASSUME Typed, Truthful, Chosen, NEW p \in Procs, ReadAll(p) \/ Open(p) \/ Write(p)
  PROVE  Chosen'
<1>1. run[p] \in Runs /\ ~At(p, "idle") /\ run[p].pc \in {"read", "open", "write"}
  BY ActiveRun DEF ReadAll, Open, Write, At
<1>2. UNCHANGED << job, pythons, history, envs >> /\ SameJob
  BY DEF ReadAll, Open, Write, SameJob
<1>3. Found(p, run[p]) /\ (~Managed(p) => Searched(p, run[p]))
  BY <1>1 DEF Chosen, Chooses
<1>4. Calm => Works(run[p].python, job.needs[p])
  BY <1>1, <1>3 DEF Found, Proven, Gone, Settled
<1>5. Calm => \A e \in Written : e.versions > 0
  BY DEF Chosen, Positive
<1>6. Calm => \A e \in run[p].entries : e.versions > 0
  BY <1>1, <1>5 DEF Written, Active
<1>7. ASSUME NEW r \in Runs, Step(p, r), r.pc \in Settled \cup {"cached"},
             r.rest = run[p].rest, r.python = run[p].python, r.moved = run[p].moved,
             r.versions = run[p].versions, Calm => \A e \in r.entries : e.versions > 0,
             Calm => \A e \in probes'.known : e.versions > 0
      PROVE  Chosen'
  <2>1. r.pc \notin Building \cup {"detect", "idle"} /\ run[p].pc \in Settled \ (Building \cup {"detect"})
    BY <1>1, <1>7 DEF Settled, Building
  <2>2. Found(p, r)
    BY <1>3, <1>4, <1>7, <2>1 DEF Found
  <2>3. ~Managed(p) => Searched(p, r)
    BY <1>1, <1>3, <1>7, <2>1, SearchGoesOn
  <2>4. Chooses(p, r)
    BY <2>2, <2>3 DEF Chooses
  <2> QED
    BY <1>2, <1>7, <2>4, ChosenStep
<1>8. CASE ReadAll(p)
  <2> DEFINE new == [about |-> About(p), versions |-> run[p].versions]
             es == {e \in ReadProbes : e.about # About(p)} \cup {new}
             r == [run[p] EXCEPT !.pc = "open", !.entries = es]
  <2>1. es \subseteq Entries
    <3>1. ReadProbes \subseteq Entries
      BY DEF ReadProbes, Typed, ProbesTyped
    <3>2. new \in Entries
      BY <1>1, AboutTyped DEF Entries, Runs
    <3> QED
      BY <3>1, <3>2
  <2>2. Calm => \A e \in es : e.versions > 0
    <3>1. Calm => \A e \in ReadProbes : e.versions > 0
      BY <1>5 DEF ReadProbes, Written
    <3>2. Calm => run[p].versions = Installed(run[p].python)[job.needs[p]]
      BY <1>8 DEF Truthful, Honest, ReadAll, At
    <3>3. Calm => new.versions > 0
      BY <1>4, <3>2 DEF Works
    <3> QED
      BY <3>1, <3>3
  <2>3. /\ r \in Runs /\ r.pc \in Settled /\ r.rest = run[p].rest /\ r.python = run[p].python
        /\ r.moved = run[p].moved /\ r.versions = run[p].versions /\ r.entries = es
    BY <1>1, <2>1 DEF Runs, PCs, Settled
  <2>4. Step(p, r) /\ probes' = probes
    BY <1>8 DEF ReadAll
  <2>5. Calm => \A e \in probes'.known : e.versions > 0
    BY <1>5, <2>4 DEF Written
  <2> HIDE DEF r, es
  <2> QED
    BY <1>7, <2>2, <2>3, <2>4, <2>5
<1>9. CASE Open(p)
  <2> DEFINE r == [run[p] EXCEPT !.pc = "write"]
  <2>1. /\ r \in Runs /\ r.pc \in Settled /\ r.rest = run[p].rest /\ r.python = run[p].python
        /\ r.moved = run[p].moved /\ r.versions = run[p].versions /\ r.entries = run[p].entries
    BY <1>1 DEF Runs, PCs, Settled
  <2>2. Step(p, r) /\ probes'.known = {}
    BY <1>1, <1>9, GotoIsStep DEF Open, PCs
  <2> HIDE DEF r
  <2> QED
    BY <1>6, <1>7, <2>1, <2>2
<1>10. CASE Write(p)
  <2> DEFINE r == IF run[p].then = "probe"
                  THEN [run[p] EXCEPT !.pc = "cached", !.then = "versions", !.entries = {}]
                  ELSE [run[p] EXCEPT !.pc = "script", !.entries = {}]
  <2>1. /\ r \in Runs /\ r.pc \in Settled \cup {"cached"} /\ r.rest = run[p].rest
        /\ r.python = run[p].python
        /\ r.moved = run[p].moved /\ r.versions = run[p].versions /\ r.entries = {}
    BY <1>1 DEF Runs, PCs, Settled
  <2>2. PICK whole \in BOOLEAN :
          probes' = [whole |-> whole, known |-> IF whole THEN run[p].entries ELSE {}]
    BY <1>10 DEF Write
  <2>3. probes'.known \subseteq run[p].entries
    BY <2>2
  <2>4. Step(p, r)
    BY <1>10 DEF Write
  <2> HIDE DEF r
  <2> QED
    BY <1>6, <1>7, <2>1, <2>3, <2>4
<1> QED
  BY <1>8, <1>9, <1>10

LEMMA ScriptChosen ==
  ASSUME Typed, Chosen, NEW p \in Procs,
         FindScript(p) \/ FillScript(p) \/ Start(p) \/ Crash(p)
  PROVE  Chosen'
<1>1. CASE Start(p) \/ Crash(p)
  <2>1. SameJob
    BY <1>1, BudgetSpent DEF Start, Crash
  <2> QED
    BY <1>1, <2>1, FailsChosen DEF Start, Crash
<1>2. CASE FindScript(p) \/ FillScript(p)
  <2>1. /\ run[p].pc \in {"script", "fill"} /\ ~At(p, "idle") /\ ~At(p, "detect")
        /\ run[p].pc \in Settled \ Building
    BY <1>2 DEF FindScript, FillScript, At, Settled, Building
  <2>2. PICK pc \in {"fill", "start"} : Goto(p, pc)
    BY <1>2 DEF FindScript, FillScript
  <2>3. pc \in PCs \ Building /\ pc \in Settled \ {"detect"}
    BY DEF PCs, Building, Settled
  <2>4. UNCHANGED << job, pythons, history, probes, envs >>
    BY <1>2 DEF FindScript, FillScript
  <2>5. Calm /\ ~run[p].moved => Works(run[p].python, job.needs[p])
    BY <2>1 DEF Chosen, Chooses, Found, Proven, At
  <2> QED
    BY <2>1, <2>2, <2>3, <2>4, <2>5, JumpChosen
<1> QED
  BY <1>1, <1>2

(* Every compile that runs has moved, so only what it has proven counts. *)
LEMMA EditChosen ==
  ASSUME Typed, Chosen, EditRequirements \/ UpgradePython \/ ChangePackage PROVE Chosen'
<1>1. Edit /\ UNCHANGED envs /\ (Calm' => Calm)
  <2>1. Edit /\ UNCHANGED envs
    BY DEF EditRequirements, UpgradePython, ChangePackage, Edit
  <2>2. CASE EditRequirements
    BY <2>1, <2>2 DEF EditRequirements
  <2>3. CASE UpgradePython
    BY <2>1, <2>3 DEF UpgradePython
  <2>4. CASE ChangePackage
    BY <2>1, <2>4 DEF ChangePackage
  <2> QED
    BY <2>2, <2>3, <2>4
<1>2. /\ Active' = Active /\ Written' = Written
      /\ \A p \in Procs \ Active : run'[p].pc = "idle"
  BY <1>1, EditKeeps
<1>3. SameJob
  BY <1>1, BudgetSpent DEF Edit
<1>4. Positive'
  BY <1>1, <1>2 DEF Chosen, Positive
<1>5. ASSUME NEW p \in Procs PROVE Chooses(p, run[p])'
  <2>1. CASE p \notin Active
    BY <1>2, <2>1 DEF Chooses
  <2>2. CASE p \in Active
    <3> DEFINE r == run[p]
    <3>1. r \in Runs /\ Found(p, r) /\ (~Managed(p) => Searched(p, r))
      BY <2>2, ActiveRun DEF Active, At, Chosen, Chooses
    <3>2. run'[p] = [r EXCEPT !.moved = TRUE]
      BY <1>1, <2>2 DEF Edit, Active
    <3>3. PICK s \in Runs : /\ s = run'[p] /\ s.pc = r.pc /\ s.rest = r.rest /\ s.python = r.python
                            /\ s.then = r.then /\ s.moved
      BY <3>1, <3>2 DEF Runs
    <3>4. /\ Tried(p)' = Tried(p) /\ Managed(p)' = Managed(p) /\ job'.needs[p] = job.needs[p]
      BY <1>3, SameSearch
    <3>5. ~Managed(p) => Searched(p, s)'
      <4>1. Place(p, s)' = Place(p, r)
        BY <3>3, <3>4 DEF Place
      <4> QED
        BY <3>1, <3>3, <3>4, <4>1 DEF Searched
    <3>6. ASSUME Calm', Proven(s), ~Gone(s) PROVE Works(s.python, job.needs[p])'
      <4>1. Works(s.python, job.needs[p]) /\ s.python \in Interps /\ job.needs[p] \in Backends
        <5>1. Proven(r) /\ ~Gone(r) /\ Calm
          BY <1>1, <3>3, <3>6 DEF Proven, Gone
        <5> QED
          BY <3>1, <3>3, <5>1 DEF Found, Runs, Typed, WorldTyped, Setups
      <4>2. CASE UNCHANGED pythons
        BY <1>1, <3>4, <4>1, <4>2 DEF Works, Installed
      <4>3. CASE ChangePackage
        BY <3>6, <4>3 DEF ChangePackage
      <4>4. CASE UpgradePython /\ s.python # Python(System)
        <5>1. \A u \in Names \ {System} : pythons'[u] = pythons[u]
          BY <4>4 DEF UpgradePython, Typed, WorldTyped
        <5>2. Installed(s.python)' = Installed(s.python)
          BY <1>1, <4>1, <4>4, <5>1 DEF Installed, Interps, Python
        <5> QED
          BY <3>4, <4>1, <5>2 DEF Works
      <4>5. CASE UpgradePython /\ s.python = Python(System)
        <5>1. Asking(p) /\ run[p].python = Python(System)
          BY <3>3, <3>6, <4>5 DEF Proven, Gone, Settled, Asking, At
        <5>2. pythons'[System][job.needs[p]] # 0
          BY <3>6, <4>5, <5>1 DEF UpgradePython
        <5>3. pythons'[System][job.needs[p]] \in 0 .. 2
          BY <4>1, <4>5 DEF UpgradePython, Typed, WorldTyped, Names, Backends
        <5> QED
          BY <3>4, <4>5, <5>2, <5>3 DEF Works, Installed, Python
      <4> QED
        BY <4>2, <4>3, <4>4, <4>5 DEF EditRequirements
    <3>7. Found(p, s)'
      BY <3>1, <3>3, <3>4, <3>6 DEF Found, Proven
    <3> QED
      BY <3>3, <3>4, <3>5, <3>7 DEF Chooses
  <2> QED
    BY <2>1, <2>2
<1> QED
  BY <1>4, <1>5 DEF Chosen

LEMMA NextChosen == Sound /\ Truthful /\ Chosen /\ [Next]_vars => Chosen'
<1> SUFFICES ASSUME Sound, Truthful, Chosen, [Next]_vars PROVE Chosen'
  OBVIOUS
<1>1. Typed
  BY DEF Sound
<1>2. CASE UNCHANGED vars
  <2>1. Written' = Written /\ UNCHANGED history
    BY <1>2 DEF vars, Written, Active, At
  <2>2. ASSUME NEW p \in Procs PROVE Chooses(p, run[p])'
    <3>1. run[p] \in [pc : {"idle"}] \cup Runs /\ run'[p] = run[p] /\ Chooses(p, run[p])
      BY <1>1, <1>2 DEF vars, Typed, RunTyped, Chosen
    <3> PICK r \in [pc : {"idle"}] \cup Runs : r = run[p] /\ r = run'[p]
      BY <3>1
    <3>2. Chooses(p, r)'
      BY <1>1, <1>2, <3>1, ChoosesStays DEF vars, SameJob
    <3> QED
      BY <3>2
  <2> QED
    BY <2>1, <2>2 DEF Chosen, Positive
<1>3. CASE Next
  BY <1>1, <1>3, BeginChosen, DetectChosen, BuildingChosen, AskingChosen, FileChosen, ScriptChosen,
     EditChosen DEF Next
<1> QED
  BY <1>2, <1>3

(* The interpreter a compile settles on can do what it is needed for, those *)
(* tried before it could not, and the version in the engine identity is the *)
(* one installed, unless something moved since, a package changed behind    *)
(* its interpreter's file or an upgrade took away what a compile had just   *)
(* found there (python.rs, detect).                                         *)
THEOREM ChoicesAreRight == Spec => []ChoiceIsRight
<1>1. Init => Sound /\ Truthful /\ Chosen
  BY InitSound, InitTruthful, InitChosen
<1>2. Sound /\ Truthful /\ Chosen /\ [Next]_vars => (Sound /\ Truthful /\ Chosen)'
  BY NextSound, NextTruthful, NextChosen
<1>3. Sound /\ Truthful /\ Chosen => ChoiceIsRight
  <2> SUFFICES ASSUME Sound, Chosen, NEW p \in Active,
                      run[p].pc \in {"script", "fill", "start"}, ~run[p].moved, Calm
               PROVE  /\ Works(run[p].python, job.needs[p])
                      /\ run[p].versions = Installed(run[p].python)[job.needs[p]]
                      /\ ~Managed(p) =>
                           \A i \in 1 .. Len(Tried(p)) - Len(run[p].rest) - 1 :
                             ~Works(Python(Tried(p)[i]), job.needs[p])
    BY DEF ChoiceIsRight
  <2>1. p \in Procs /\ Found(p, run[p]) /\ (~Managed(p) => Searched(p, run[p])) /\ run[p] \in Runs
    BY ActiveRun DEF Active, At, Chosen, Chooses, Sound
  <2>2. run[p].pc \in Settled /\ Proven(run[p])
    BY DEF Settled, Proven
  <2>3. ASSUME ~Managed(p), NEW i \in 1 .. Len(Tried(p)) - Len(run[p].rest) - 1
        PROVE  ~Works(Python(Tried(p)[i]), job.needs[p])
    <3>1. Len(Tried(p)) \in Nat /\ Len(run[p].rest) \in Nat
      BY <2>1, TriedNames DEF Sound, Runs
    <3>2. i \in 1 .. Place(p, run[p]) /\ i < Place(p, run[p])
      BY <3>1 DEF Place
    <3> QED
      BY <2>1, <2>3, <3>2 DEF Searched
  <2> QED
    BY <2>1, <2>2, <2>3 DEF Found
<1> QED
  BY <1>1, <1>2, <1>3, PTL DEF Spec
-----------------------------------------------------------------------------
(* Charts (HelmRender).  The values of its variables.                      *)
Text == [there : {TRUE}, of : Helm!Key, whole : BOOLEAN, late : BOOLEAN]
Texts == Text \cup {Helm!NoText}
Output == [name : ChartNames \cup {"output_file"}, chart : ChartNames]

(* What a thread that renders has in its hands, and one with an item.      *)
Rendering ==
  [pc : {"version", "ask"}, values : Values]
    \cup [pc : {"keep", "hash"}, values : Values, helm : 1 .. 2]
    \cup [pc : {"lookup", "helm", "failed"}, key : Helm!Key]
    \cup [pc : {"open", "answer"}, key : Helm!Key, text : Text]
    \cup [pc : {"write", "rename", "answer"}, key : Helm!Key, text : Text,
          at : {"tmp", "cache", "none"}]
Templating ==
  [pc : {"scratch", "chart", "collect", "done", "failed"}, charts : Seq(ChartNames),
   file : BOOLEAN, n : Nat, written : SUBSET Output]
Threading == [pc : {"idle", "failed"}] \cup Rendering \cup Templating

RequestsTyped ==
  requests \in
    [asked : [HelmThreads -> Seq(Asked)], work : [HelmThreads -> Seq(Asked)], reuse : BOOLEAN,
     edits : Nat, crashes : Nat, faults : Nat]
ProcsTyped ==
  /\ helm \in 1 .. 2 /\ chart \in 1 .. 2 /\ faulted \in BOOLEAN
  /\ versions \in [HelmProcs -> 0 .. 2] /\ seq \in [HelmProcs -> 0 .. Dirs]
  /\ moved \in [HelmProcs -> BOOLEAN]
FilesTyped ==
  /\ scratch \in [HelmProcs -> [0 .. Dirs - 1 -> SUBSET Output]]
  /\ cache \in [Helm!Key -> Texts] /\ tmp \in [HelmProcs -> [Helm!Key -> Texts]]
ThreadsTyped == threads \in [HelmThreads -> Threading]
HelmTyped == RequestsTyped /\ ProcsTyped /\ FilesTyped /\ ThreadsTyped

(* What a thread does is the first of the requests it has left; of an item *)
(* some charts are done and the rest is to be done.                        *)
Doing(t, r) ==
  /\ r.pc # "idle" => requests.work[t] # <<>>
  /\ r.pc \in {"version", "ask", "keep", "hash"} =>
        Head(requests.work[t]) = [kind |-> "render", values |-> r.values]
  /\ r.pc \in {"lookup", "helm", "open", "write", "rename"} =>
        Head(requests.work[t]) = [kind |-> "render", values |-> r.key.values]

Item(t) == Head(requests.work[t])
Did(t, r) == Len(Item(t).charts) - Len(r.charts)
AtItem(r) == r.pc \in {"scratch", "chart", "collect", "done"}
InDir(r) == r.pc \in {"chart", "collect"}
Left(rest, all, n) == \A i \in DOMAIN rest : rest[i] = all[n + i]
Goes(t, r) ==
  AtItem(r) =>
    /\ Item(t) \in ItemsOf(Seq(ChartNames) \ {<<>>})
    /\ Did(t, r) \in Nat
    /\ Left(r.charts, Item(t).charts, Did(t, r))
    /\ r.file = (Item(t).file /\ Did(t, r) = 0)
    /\ r.pc = "done" <=> r.charts = <<>>
    /\ InDir(r) => r.n < seq[t[1]]

(* Nothing has changed since its process started: what it took is current. *)
Recent(r) ==
  /\ r.pc \in {"keep", "hash"} => r.helm = helm
  /\ r.pc \in {"lookup", "helm"} => r.key.helm = helm /\ r.key.chart = chart

TrueText(text, k) == text.late \/ text.of = k
TextRight(r) ==
  /\ r.pc \in {"open", "write", "rename", "answer"} => TrueText(r.text, r.key)
  /\ r.pc \in {"open", "write", "rename"} => r.text.whole

ThreadRight(t, r) ==
  Doing(t, r) /\ Goes(t, r) /\ (~moved[t[1]] => Recent(r)) /\ TextRight(r)
ThreadsRight == \A t \in HelmThreads : ThreadRight(t, threads[t])

StillAsked ==
  \A t \in HelmThreads : \A i \in DOMAIN requests.work[t] :
    \E j \in DOMAIN requests.asked[t] : requests.work[t][i] = requests.asked[t][j]
VersionsRight == \A p \in HelmProcs : ~moved[p] => versions[p] \in {0, helm}
TmpTrue == \A p \in HelmProcs, k \in Helm!Key : tmp[p][k].there => TrueText(tmp[p][k], k)

HelmSound ==
  HelmTyped /\ ThreadsRight /\ StillAsked /\ VersionsRight /\ Helm!CacheIsTrue /\ TmpTrue

(* Threads that render different things do not meet: their temporary file  *)
(* is their own until it is renamed.                                       *)
OwnFile(t, r) ==
  /\ r.pc = "write" => r.at = "tmp" /\ (tmp[t[1]][r.key].there => ~tmp[t[1]][r.key].whole)
  /\ r.pc = "rename" => tmp[t[1]][r.key].there /\ tmp[t[1]][r.key].whole
  /\ r.pc = "answer" => r.text.whole
CacheWhole == \A k \in Helm!Key : cache[k].there => cache[k].whole
ApartIsWhole == Helm!Apart => CacheWhole /\ \A t \in HelmThreads : OwnFile(t, threads[t])

(* A temporary file that is torn, and not late, is being written.          *)
Writes(t, p, k) ==
  t[1] = p /\ threads[t].pc = "write" /\ threads[t].at = "tmp" /\ threads[t].key = k
TmpIsWritten ==
  \A p \in HelmProcs, k \in Helm!Key :
    tmp[p][k].there /\ ~tmp[p][k].whole /\ ~tmp[p][k].late =>
      \E t \in HelmThreads : Writes(t, p, k)
TornAreWritten == ~faulted => Helm!TornIsWritten /\ TmpIsWritten

(* The directories of a process are handed out once, and hold what their   *)
(* thread has rendered.                                                    *)
DirsApart ==
  \A t, u \in HelmThreads :
    t # u /\ t[1] = u[1] /\ InDir(threads[t]) /\ InDir(threads[u]) => threads[t].n # threads[u].n
DirsToCome == \A p \in HelmProcs : \A n \in seq[p] .. Dirs - 1 : scratch[p][n] = {}
OutputOf(q, i) ==
  [name |-> IF i = 1 /\ q.file THEN "output_file" ELSE q.charts[i], chart |-> q.charts[i]]
OutputRight(t, r) ==
  AtItem(r) =>
    /\ r.written = {OutputOf(Item(t), i) : i \in 1 .. Did(t, r)}
    /\ r.pc = "chart" => scratch[t[1]][r.n] = {}
    /\ r.pc = "collect" => scratch[t[1]][r.n] = {OutputOf(Item(t), Did(t, r) + 1)}
OutputsRight ==
  ~requests.reuse \/ ~faulted =>
    DirsToCome /\ \A t \in HelmThreads : OutputRight(t, threads[t])

LEMMA ThreadOf ==
  ASSUME ThreadsTyped, NEW t \in HelmThreads
  PROVE  t[1] \in HelmProcs /\ Helm!Proc(t) = t[1] /\ threads[t] \in Threading
  BY HelmAssumption DEF ThreadsTyped, Helm!Proc

LEMMA AtStage ==
  ASSUME ThreadsTyped, NEW t \in HelmThreads, NEW pc, Helm!At(t, pc)
  PROVE  \E r \in Threading : r = threads[t] /\ r.pc = pc
  BY ThreadOf DEF Helm!At

LEMMA AtKey ==
  ASSUME ThreadsTyped, NEW t \in HelmThreads
  PROVE  /\ threads[t].pc \in {"lookup", "helm", "open", "write", "rename"} => threads[t].key \in Helm!Key
         /\ threads[t].pc \in {"open", "write", "rename", "answer"} => threads[t].text \in Text /\ threads[t].key \in Helm!Key
         /\ threads[t].pc \in {"write", "rename"} => threads[t].at \in {"tmp", "cache", "none"}
         /\ threads[t].pc \in {"keep", "hash"} => threads[t].values \in Values /\ threads[t].helm \in 1 .. 2
         /\ threads[t].pc \in {"version", "ask"} => threads[t].values \in Values
         /\ threads[t].pc \in {"scratch", "chart", "collect", "done"} => threads[t] \in Templating
<1>1. PICK r \in Threading : r = threads[t]
  BY ThreadOf
<1>2. CASE r \in Templating
  BY <1>1, <1>2 DEF Templating
<1>3. CASE r \in Rendering
  BY <1>1, <1>3 DEF Rendering
<1>4. CASE r \in [pc : {"idle", "failed"}]
  BY <1>1, <1>4
<1> QED
  BY <1>2, <1>3, <1>4 DEF Threading

LEMMA StepOf ==
  ASSUME ThreadsTyped, NEW t \in HelmThreads, NEW f, Helm!Step(t, f)
  PROVE  \A u \in HelmThreads : threads'[u] = IF u = t THEN f ELSE threads[u]
  BY DEF ThreadsTyped, Helm!Step

LEMMA ThreadStepTyped ==
  ASSUME ThreadsTyped, NEW t \in HelmThreads, NEW f \in Threading, Helm!Step(t, f)
  PROVE  ThreadsTyped'
  BY DEF ThreadsTyped, Helm!Step

LEMMA HeadAsked ==
  ASSUME RequestsTyped, NEW t \in HelmThreads, requests.work[t] # <<>>
  PROVE  /\ Head(requests.work[t]) \in Asked
         /\ Tail(requests.work[t]) \in Seq(Asked)
  BY DEF RequestsTyped

LEMMA BeginTyped ==
  ASSUME HelmTyped, NEW t \in HelmThreads, Helm!Begin(t)
  PROVE  HelmTyped'
<1>1. Head(requests.work[t]) \in Asked
  BY HeadAsked DEF Helm!Begin, HelmTyped
<1> PICK q \in Asked : q = Head(requests.work[t])
  BY <1>1
<1>2. CASE q \in Renders
  <2>1. [pc |-> "version", values |-> q.values] \in Threading
    BY <1>2 DEF Renders, Threading, Rendering
  <2>2. Helm!Step(t, [pc |-> "version", values |-> q.values])
    BY <1>2 DEF Helm!Begin, Renders
  <2> QED
    BY <2>1, <2>2, ThreadStepTyped DEF Helm!Begin, HelmTyped, Helm!Outside, RequestsTyped,
                                       ProcsTyped, FilesTyped
<1>3. CASE q \in ItemsOf(Seq(ChartNames) \ {<<>>})
  <2> DEFINE f == [pc |-> "scratch", charts |-> q.charts, file |-> q.file, n |-> 0, written |-> {}]
  <2>1. f \in Threading
    BY <1>3 DEF ItemsOf, Threading, Templating
  <2>2. Helm!Step(t, f)
    BY <1>3 DEF Helm!Begin, ItemsOf
  <2> QED
    BY <2>1, <2>2, ThreadStepTyped DEF Helm!Begin, HelmTyped, Helm!Outside, RequestsTyped,
                                       ProcsTyped, FilesTyped
<1>4. CASE q \in [kind : {"bad"}]
  <2>1. [pc |-> "failed"] \in Threading
    BY DEF Threading
  <2>2. Helm!Step(t, [pc |-> "failed"])
    BY <1>4 DEF Helm!Begin
  <2> QED
    BY <2>1, <2>2, ThreadStepTyped DEF Helm!Begin, HelmTyped, Helm!Outside, RequestsTyped,
                                       ProcsTyped, FilesTyped
<1> QED
  BY <1>2, <1>3, <1>4 DEF Asked

LEMMA EndsTyped ==
  ASSUME HelmTyped, NEW t \in HelmThreads, Helm!Ends(t), requests.work[t] # <<>>
  PROVE  HelmTyped'
<1>1. Helm!Idle \in Threading /\ Helm!Step(t, Helm!Idle)
  BY DEF Helm!Idle, Threading, Helm!Ends
<1>2. ThreadsTyped'
  BY <1>1, ThreadStepTyped DEF HelmTyped
<1>3. RequestsTyped'
  BY HeadAsked DEF HelmTyped, RequestsTyped, Helm!Ends
<1> QED
  BY <1>2, <1>3 DEF Helm!Ends, HelmTyped, Helm!Outside, ProcsTyped, FilesTyped

LEMMA PutTyped ==
  ASSUME NEW A, NEW B, NEW S, NEW f \in [A -> [B -> S]], NEW a \in A, NEW b \in B, NEW x \in S
  PROVE  [f EXCEPT ![a][b] = x] \in [A -> [B -> S]]
  OBVIOUS

LEMMA GotoTyped ==
  ASSUME ThreadsTyped, NEW t \in HelmThreads, NEW from, NEW to, Helm!At(t, from), Helm!Goto(t, to),
         <<from, to>> \in {<<"keep", "hash">>, <<"helm", "failed">>, <<"write", "rename">>, <<"write", "answer">>,
                           <<"rename", "answer">>, <<"chart", "collect">>, <<"chart", "failed">>}
  PROVE  /\ ThreadsTyped'
         /\ \A u \in HelmThreads :
              threads'[u] = IF u = t THEN [threads[t] EXCEPT !.pc = to] ELSE threads[u]
<1>1. PICK r \in Threading : r = threads[t] /\ r.pc = from
  BY AtStage
<1>2. [r EXCEPT !.pc = to] \in Threading
  <2>1. CASE r \in Rendering
    BY <1>1, <2>1 DEF Threading, Rendering
  <2>2. CASE r \in Templating
    BY <1>1, <2>2 DEF Threading, Templating
  <2> QED
    BY <1>1, <2>1, <2>2 DEF Threading
<1>3. threads' = [threads EXCEPT ![t] = [r EXCEPT !.pc = to]]
  BY <1>1 DEF Helm!Goto, ThreadsTyped
<1> QED
  BY <1>1, <1>2, <1>3 DEF ThreadsTyped

LEMMA FaultTyped ==
  ASSUME RequestsTyped,
         \/ requests.faults > 0 /\ requests' = [requests EXCEPT !.faults = @ - 1]
         \/ requests.crashes > 0 /\ requests' = [requests EXCEPT !.crashes = @ - 1]
         \/ requests.edits > 0 /\ requests' = [requests EXCEPT !.edits = @ - 1]
  PROVE  RequestsTyped' /\ requests'.work = requests.work
<1>1. CASE requests.faults > 0 /\ requests' = [requests EXCEPT !.faults = @ - 1]
  <2>1. RequestsTyped'
    <3>1. requests.faults - 1 \in Nat
      BY <1>1 DEF RequestsTyped
    <3>2. requests' = [requests EXCEPT !.faults = requests.faults - 1]
      BY <1>1
    <3> QED
      BY <3>1, <3>2 DEF RequestsTyped
  <2>2. requests'.work = requests.work
    BY <1>1 DEF RequestsTyped
  <2> QED
    BY <2>1, <2>2
<1>2. CASE requests.crashes > 0 /\ requests' = [requests EXCEPT !.crashes = @ - 1]
  <2>1. RequestsTyped'
    <3>1. requests.crashes - 1 \in Nat
      BY <1>2 DEF RequestsTyped
    <3>2. requests' = [requests EXCEPT !.crashes = requests.crashes - 1]
      BY <1>2
    <3> QED
      BY <3>1, <3>2 DEF RequestsTyped
  <2>2. requests'.work = requests.work
    BY <1>2 DEF RequestsTyped
  <2> QED
    BY <2>1, <2>2
<1>3. CASE requests.edits > 0 /\ requests' = [requests EXCEPT !.edits = @ - 1]
  <2>1. RequestsTyped'
    <3>1. requests.edits - 1 \in Nat
      BY <1>3 DEF RequestsTyped
    <3>2. requests' = [requests EXCEPT !.edits = requests.edits - 1]
      BY <1>3
    <3> QED
      BY <3>1, <3>2 DEF RequestsTyped
  <2>2. requests'.work = requests.work
    BY <1>3 DEF RequestsTyped
  <2> QED
    BY <2>1, <2>2
<1> QED
  BY <1>1, <1>2, <1>3

(* Where a thread is after t has renamed.                                  *)
RenamedThread(t, u) ==
  IF u = t THEN [threads[t] EXCEPT !.pc = "answer"]
  ELSE IF Helm!Holds(t, u) THEN [threads[u] EXCEPT !.at = Helm!RenamedTo(t, u)]
  ELSE threads[u]

LEMMA RenamedThreads ==
  ASSUME NEW t \in HelmThreads, Helm!Rename(t), tmp[Helm!Proc(t)][threads[t].key].there
  PROVE  threads' = [u \in HelmThreads |-> RenamedThread(t, u)]
  BY DEF Helm!Rename, RenamedThread

LEMMA RenamedTyped ==
  ASSUME ThreadsTyped, NEW t \in HelmThreads, Helm!At(t, "rename"), NEW u \in HelmThreads
  PROVE  RenamedThread(t, u) \in Threading
<1>1. CASE u = t
  <2>1. PICK r \in Threading : r = threads[t] /\ r.pc = "rename"
    BY AtStage
  <2>2. [r EXCEPT !.pc = "answer"] \in Threading
    BY <2>1 DEF Threading, Rendering, Templating
  <2> QED
    BY <1>1, <2>1, <2>2 DEF RenamedThread
<1>2. CASE u # t /\ Helm!Holds(t, u)
  <2>1. PICK r \in Threading : r = threads[u] /\ r.pc = "write"
    BY <1>2, AtStage DEF Helm!Holds
  <2>2. Helm!RenamedTo(t, u) \in {"tmp", "cache", "none"}
    BY DEF Helm!RenamedTo
  <2>3. [r EXCEPT !.at = Helm!RenamedTo(t, u)] \in Threading
    BY <2>1, <2>2 DEF Threading, Rendering, Templating
  <2> QED
    BY <1>2, <2>1, <2>3 DEF RenamedThread
<1>3. CASE u # t /\ ~Helm!Holds(t, u)
  BY <1>3, ThreadOf DEF RenamedThread
<1> QED
  BY <1>1, <1>2, <1>3

LEMMA RenderTyped ==
  ASSUME HelmTyped, NEW t \in HelmThreads,
         Helm!Version(t) \/ Helm!AskVersion(t) \/ Helm!KeepVersion(t) \/ Helm!Hash(t)
         \/ Helm!Lookup(t) \/ Helm!RunHelm(t) \/ Helm!HelmFails(t)
  PROVE  HelmTyped'
<1>1. /\ ThreadsTyped /\ t[1] \in HelmProcs /\ Helm!Proc(t) = t[1] /\ RequestsTyped
  BY ThreadOf DEF HelmTyped
<1>2. CASE Helm!Version(t)
  <2> DEFINE known == versions[t[1]]
             f == IF known = 0 THEN [pc |-> "ask", values |-> threads[t].values]
                  ELSE [pc |-> "hash", values |-> threads[t].values, helm |-> known]
  <2>1. known \in 0 .. 2
    BY <1>1 DEF HelmTyped, ProcsTyped
  <2>2. f \in Threading
    BY <1>1, <1>2, <2>1, AtKey DEF Helm!Version, Helm!At, Threading, Rendering
  <2>3. Helm!Step(t, f)
    BY <1>1, <1>2 DEF Helm!Version
  <2> QED
    BY <1>2, <2>2, <2>3, ThreadStepTyped DEF Helm!Version, HelmTyped, RequestsTyped,
                                             ProcsTyped, FilesTyped, Helm!Outside
<1>7. CASE Helm!AskVersion(t)
  <2> DEFINE f == [pc |-> "keep", values |-> threads[t].values, helm |-> helm]
  <2>1. f \in Threading
    BY <1>1, <1>7, AtKey DEF Helm!AskVersion, Helm!At, Threading, Rendering, HelmTyped,
                             ProcsTyped
  <2>2. Helm!Step(t, f)
    BY <1>7 DEF Helm!AskVersion
  <2> QED
    BY <1>7, <2>1, <2>2, ThreadStepTyped DEF Helm!AskVersion, HelmTyped, RequestsTyped,
                                             ProcsTyped, FilesTyped, Helm!Outside
<1>8. CASE Helm!KeepVersion(t)
  <2>1. threads[t].helm \in 0 .. 2
    BY <1>1, <1>8, AtKey DEF Helm!KeepVersion, Helm!At
  <2>2. versions' = [versions EXCEPT ![t[1]] = threads[t].helm]
    BY <1>1, <1>8 DEF Helm!KeepVersion
  <2>3. ProcsTyped'
    BY <1>1, <1>8, <2>1, <2>2 DEF HelmTyped, ProcsTyped, Helm!KeepVersion, Helm!Outside
  <2>4. ThreadsTyped'
    BY <1>1, <1>8, GotoTyped DEF Helm!KeepVersion
  <2> QED
    BY <1>8, <2>3, <2>4 DEF Helm!KeepVersion, HelmTyped, RequestsTyped, FilesTyped
<1>3. CASE Helm!Hash(t)
  <2>1. Helm!Digest(t) \in Helm!Key
    BY <1>1, <1>3, AtKey DEF Helm!Hash, Helm!At, Helm!Digest, Helm!Key, HelmTyped, ProcsTyped
  <2>2. [pc |-> "lookup", key |-> Helm!Digest(t)] \in Threading
    BY <2>1 DEF Threading, Rendering
  <2> QED
    BY <1>3, <2>2, ThreadStepTyped DEF Helm!Hash, HelmTyped, RequestsTyped, ProcsTyped,
                                       FilesTyped, Helm!Outside
<1>4. CASE Helm!Lookup(t)
  <2> DEFINE k == threads[t].key
             f == IF cache[k].there THEN [pc |-> "answer", key |-> k, text |-> cache[k]]
                  ELSE [pc |-> "helm", key |-> k]
  <2>1. k \in Helm!Key
    BY <1>1, <1>4, AtKey DEF Helm!Lookup, Helm!At
  <2>2. cache[k].there => cache[k] \in Text
    BY <2>1 DEF HelmTyped, FilesTyped, Texts, Helm!NoText
  <2>3. f \in Threading
    <3> HIDE DEF k
    <3> QED
      BY <2>1, <2>2 DEF Threading, Rendering
  <2>4. Helm!Step(t, f)
    BY <1>4 DEF Helm!Lookup
  <2> QED
    BY <1>4, <2>3, <2>4, ThreadStepTyped DEF Helm!Lookup, HelmTyped, RequestsTyped,
                                             ProcsTyped, FilesTyped, Helm!Outside
<1>5. CASE Helm!RunHelm(t)
  <2> DEFINE of == [threads[t].key EXCEPT !.helm = helm, !.chart = chart]
             f == [pc |-> "open", key |-> threads[t].key, text |-> Helm!Text(of, TRUE, moved[Helm!Proc(t)])]
  <2>1. threads[t].key \in Helm!Key
    BY <1>1, <1>5, AtKey DEF Helm!RunHelm, Helm!At
  <2>2. of \in Helm!Key /\ moved[Helm!Proc(t)] \in BOOLEAN
    BY <1>1, <2>1 DEF Helm!Key, HelmTyped, ProcsTyped
  <2>3. Helm!Text(of, TRUE, moved[Helm!Proc(t)]) \in Text
    <3> HIDE DEF of
    <3> QED
      BY <2>2 DEF Helm!Text, Text
  <2>4. f \in Threading
    BY <2>1, <2>3 DEF Threading, Rendering
  <2>5. Helm!Step(t, f)
    BY <1>5 DEF Helm!RunHelm
  <2> QED
    BY <1>5, <2>4, <2>5, ThreadStepTyped DEF Helm!RunHelm, HelmTyped, RequestsTyped,
                                             ProcsTyped, FilesTyped, Helm!Outside
<1>6. CASE Helm!HelmFails(t)
  <2>1. ThreadsTyped'
    BY <1>1, <1>6, GotoTyped DEF Helm!HelmFails
  <2>2. RequestsTyped'
    BY <1>1, <1>6, FaultTyped DEF Helm!HelmFails
  <2> QED
    BY <1>6, <2>1, <2>2 DEF Helm!HelmFails, HelmTyped, ProcsTyped, FilesTyped, Helm!Outside
<1> QED
  BY <1>2, <1>3, <1>4, <1>5, <1>6, <1>7, <1>8

(* What a write puts into the file: the text, or a mix with another.       *)
LEMMA WriteIs ==
  ASSUME ThreadsTyped, NEW t \in HelmThreads, Helm!Write(t)
  PROVE  \E x \in Text :
           /\ Helm!Fill(t, x) /\ x.of = threads[t].text.of
           /\ \/ x = threads[t].text
              \/ x.late /\ ~Helm!Covers(threads[t].text, Helm!File(t))
<1> PICK text \in Text : text = threads[t].text
  BY AtKey DEF Helm!Write, Helm!At
<1>1. PICK x \in Helm!OverText(Helm!File(t), text) : Helm!Fill(t, x)
  BY DEF Helm!Write
<1>2. CASE x = text
  BY <1>1, <1>2
<1>3. CASE x # text
  <2>1. x = Helm!Mixed(text) /\ ~Helm!Covers(text, Helm!File(t))
    BY <1>1, <1>3 DEF Helm!OverText
  <2>2. x \in Text /\ x.of = text.of /\ x.late
    BY <2>1 DEF Helm!Mixed, Text
  <2> QED
    BY <1>1, <2>1, <2>2
<1> QED
  BY <1>2, <1>3

LEMMA StoreTyped ==
  ASSUME HelmTyped, NEW t \in HelmThreads,
         Helm!Open(t) \/ Helm!Write(t) \/ Helm!WriteFails(t) \/ Helm!Rename(t)
  PROVE  HelmTyped'
<1>1. /\ ThreadsTyped /\ t[1] \in HelmProcs /\ Helm!Proc(t) = t[1] /\ RequestsTyped /\ FilesTyped
  BY ThreadOf DEF HelmTyped
<1>2. threads[t].key \in Helm!Key
  BY <1>1, AtKey DEF Helm!Open, Helm!Write, Helm!WriteFails, Helm!Rename, Helm!At
<1> DEFINE k == threads[t].key
<1>3. CASE Helm!Open(t)
  <2> DEFINE f == [pc |-> "write", key |-> k, text |-> threads[t].text, at |-> "tmp"]
             torn == [threads[t].text EXCEPT !.whole = FALSE]
  <2>1. threads[t].text \in Text
    BY <1>1, <1>3, AtKey DEF Helm!Open, Helm!At
  <2>2. torn \in Texts
    BY <2>1 DEF Text, Texts
  <2>3. f \in Threading
    BY <1>2, <2>1 DEF Threading, Rendering
  <2>4. Helm!Step(t, f) /\ tmp' = [tmp EXCEPT ![t[1]][k] = torn]
    BY <1>1, <1>3 DEF Helm!Open
  <2>5. FilesTyped'
    <3>1. k \in Helm!Key
      BY <1>2
    <3> HIDE DEF torn, k
    <3>2. [tmp EXCEPT ![t[1]][k] = torn] \in [HelmProcs -> [Helm!Key -> Texts]]
      <4>1. tmp \in [HelmProcs -> [Helm!Key -> Texts]]
        BY <1>1 DEF FilesTyped
      <4> HIDE DEF Helm!Key
      <4> QED
        BY <1>1, <2>2, <3>1, <4>1, PutTyped
    <3> QED
      BY <1>1, <1>3, <2>4, <3>2 DEF FilesTyped, Helm!Open
  <2> QED
    BY <1>3, <2>3, <2>4, <2>5, ThreadStepTyped DEF Helm!Open, HelmTyped, RequestsTyped,
                                                   ProcsTyped, Helm!Outside
<1>4. CASE Helm!Write(t)
  <2>1. PICK x \in Texts : Helm!Fill(t, x)
    BY <1>1, <1>4, WriteIs DEF Texts
  <2>2. ThreadsTyped'
    BY <1>1, <1>4, GotoTyped DEF Helm!Write
  <2>3. FilesTyped'
    BY <1>1, <1>2, <1>4, <2>1 DEF Helm!Write, Helm!Fill, FilesTyped, HelmTyped
  <2> QED
    BY <1>4, <2>2, <2>3 DEF Helm!Write, HelmTyped, RequestsTyped, ProcsTyped, Helm!Outside
<1>5. CASE Helm!WriteFails(t)
  <2>1. ThreadsTyped'
    BY <1>1, <1>5, GotoTyped DEF Helm!WriteFails
  <2>2. RequestsTyped'
    BY <1>1, <1>5, FaultTyped DEF Helm!WriteFails
  <2> QED
    BY <1>5, <2>1, <2>2 DEF Helm!WriteFails, HelmTyped, ProcsTyped, FilesTyped, Helm!Outside
<1>6. CASE Helm!Rename(t)
  <2>1. CASE tmp[t[1]][k].there
    <3>1. FilesTyped'
      <4>1. /\ cache' = [cache EXCEPT ![k] = tmp[t[1]][k]]
            /\ tmp' = [tmp EXCEPT ![t[1]][k] = Helm!NoText] /\ scratch' = scratch
        BY <1>1, <1>6, <2>1 DEF Helm!Rename
      <4>2. tmp[t[1]][k] \in Texts /\ Helm!NoText \in Texts
        BY <1>1, <1>2 DEF HelmTyped, FilesTyped, Texts
      <4> HIDE DEF k
      <4> QED
        BY <1>1, <1>2, <4>1, <4>2 DEF FilesTyped, HelmTyped, k
    <3>2. ThreadsTyped'
      <4> SUFFICES ASSUME NEW u \in HelmThreads
                   PROVE  RenamedThread(t, u) \in Threading
        BY <1>1, <1>6, <2>1, RenamedThreads DEF ThreadsTyped
      <4> QED
        BY <1>1, <1>6, RenamedTyped DEF Helm!Rename
    <3> QED
      BY <1>6, <3>1, <3>2 DEF Helm!Rename, HelmTyped, RequestsTyped, ProcsTyped, Helm!Outside
  <2>2. CASE ~tmp[t[1]][k].there
    <3>1. Helm!Goto(t, "answer") /\ UNCHANGED <<cache, tmp>>
      BY <1>1, <1>6, <2>2 DEF Helm!Rename
    <3>2. ThreadsTyped'
      BY <1>1, <1>6, <3>1, GotoTyped DEF Helm!Rename
    <3> QED
      BY <1>6, <3>1, <3>2 DEF Helm!Rename, HelmTyped, RequestsTyped, ProcsTyped, FilesTyped,
                              Helm!Outside
  <2> QED
    BY <2>1, <2>2
<1> QED
  BY <1>3, <1>4, <1>5, <1>6

LEMMA OverOutputs ==
  ASSUME NEW old \in SUBSET Output, NEW new \in SUBSET Output
  PROVE  Helm!Over(old, new) \in SUBSET Output
  BY DEF Helm!Over

(* What one chart of an item leaves: one file.                             *)
Rendered(r) ==
  [name |-> IF r.file THEN "output_file" ELSE Head(r.charts), chart |-> Head(r.charts)]

(* The steps of an item leave its directory and its record as they say,    *)
(* with values of the right type.                                          *)
LEMMA ItemTyped ==
  ASSUME HelmTyped, NEW t \in HelmThreads,
         threads[t].charts # <<>>, Helm!At(t, "scratch") \/ threads[t].n \in 0 .. Dirs - 1,
         Helm!MakeScratch(t) \/ Helm!RenderChart(t) \/ Helm!ChartFails(t) \/ Helm!Collect(t)
  PROVE  HelmTyped'
<1>1. /\ ThreadsTyped /\ t[1] \in HelmProcs /\ Helm!Proc(t) = t[1] /\ RequestsTyped /\ FilesTyped
      /\ seq[t[1]] \in 0 .. Dirs /\ Dirs \in Nat
  BY ThreadOf, HelmAssumption DEF HelmTyped, ProcsTyped
<1>2. threads[t] \in Templating
  BY <1>1, AtKey DEF Helm!MakeScratch, Helm!RenderChart, Helm!ChartFails, Helm!Collect, Helm!At
<1> PICK r \in Templating : r = threads[t]
  BY <1>2
<1>3. /\ r.charts \in Seq(ChartNames) /\ r.charts # <<>> /\ r.written \in SUBSET Output
  BY DEF Templating
<1>4. Head(r.charts) \in ChartNames /\ Tail(r.charts) \in Seq(ChartNames)
  BY <1>3
<1>5. CASE Helm!MakeScratch(t)
  <2>1. [r EXCEPT !.pc = "chart", !.n = seq[t[1]]] \in Threading
    <3> SUFFICES [r EXCEPT !.pc = "chart", !.n = seq[t[1]]] \in Templating
      BY DEF Threading
    <3> QED
      <4>1. seq[t[1]] \in Nat
        BY <1>1
      <4> QED
        BY <4>1 DEF Templating
  <2>2. Helm!Step(t, [r EXCEPT !.pc = "chart", !.n = seq[t[1]]])
    BY <1>1, <1>5 DEF Helm!MakeScratch
  <2>3. ProcsTyped'
    BY <1>1, <1>5 DEF Helm!MakeScratch, HelmTyped, ProcsTyped, Helm!Outside
  <2> QED
    BY <1>1, <1>5, <2>1, <2>2, <2>3, ThreadStepTyped DEF Helm!MakeScratch, HelmTyped,
                                                         RequestsTyped, FilesTyped
<1>6. CASE Helm!RenderChart(t)
  <2>1. Rendered(r) \in Output
    BY <1>4 DEF Rendered, Output
  <2>2. scratch' = [scratch EXCEPT ![t[1]][r.n] = Helm!Over(@, {Rendered(r)})]
    BY <1>1, <1>6 DEF Helm!RenderChart, Rendered, Helm!OutputName
  <2>3. r.n \in 0 .. Dirs - 1
    BY <1>6 DEF Helm!RenderChart, Helm!At
  <2>4. Helm!Over(scratch[t[1]][r.n], {Rendered(r)}) \in SUBSET Output
    BY <1>1, <2>1, <2>3, OverOutputs DEF FilesTyped
  <2>5. FilesTyped'
    <3> DEFINE files == Helm!Over(scratch[t[1]][r.n], {Rendered(r)})
    <3>1. scratch' = [scratch EXCEPT ![t[1]][r.n] = files]
      BY <2>2
    <3> HIDE DEF files
    <3>2. files \in SUBSET Output
      BY <2>4 DEF files
    <3>3. [scratch EXCEPT ![t[1]][r.n] = files] \in [HelmProcs -> [0 .. Dirs - 1 -> SUBSET Output]]
      <4>1. scratch \in [HelmProcs -> [0 .. Dirs - 1 -> SUBSET Output]]
        BY <1>1 DEF FilesTyped
      <4> QED
        BY <1>1, <2>3, <3>2, <4>1, PutTyped
    <3> QED
      BY <1>1, <1>6, <3>1, <3>3 DEF FilesTyped, Helm!RenderChart
  <2>6. ThreadsTyped'
    BY <1>1, <1>6, GotoTyped DEF Helm!RenderChart
  <2> QED
    BY <1>6, <2>5, <2>6 DEF Helm!RenderChart, HelmTyped, RequestsTyped, ProcsTyped, Helm!Outside
<1>7. CASE Helm!ChartFails(t)
  <2>1. ThreadsTyped' /\ RequestsTyped'
    BY <1>1, <1>7, GotoTyped, FaultTyped DEF Helm!ChartFails
  <2>2. FilesTyped'
    BY <1>1, <1>7 DEF FilesTyped, Helm!ChartFails, Helm!At
  <2> QED
    BY <1>7, <2>1, <2>2 DEF Helm!ChartFails, HelmTyped, ProcsTyped, Helm!Outside
<1>8. CASE Helm!Collect(t)
  <2> DEFINE f == [r EXCEPT !.pc = IF Tail(r.charts) = <<>> THEN "done" ELSE "scratch",
                            !.charts = Tail(r.charts), !.file = Helm!FileLeft(t),
                            !.written = Helm!Over(@, scratch[t[1]][r.n])]
  <2>1. scratch[t[1]][r.n] \in SUBSET Output
    BY <1>1, <1>8 DEF FilesTyped, Helm!Collect, Helm!At
  <2>2. Helm!Over(r.written, scratch[t[1]][r.n]) \in SUBSET Output
    BY <1>3, <2>1, OverOutputs
  <2>3. f \in Threading
    <3> SUFFICES f \in Templating
      BY DEF Threading
    <3> QED
      BY <1>4, <2>2 DEF Templating, Helm!FileLeft
  <2>4. Helm!Step(t, f)
    BY <1>1, <1>8 DEF Helm!Collect
  <2>5. FilesTyped'
    BY <1>1, <1>8 DEF FilesTyped, Helm!Collect
  <2> QED
    BY <1>1, <1>8, <2>3, <2>4, <2>5, ThreadStepTyped DEF Helm!Collect, HelmTyped,
                                                         RequestsTyped, ProcsTyped, Helm!Outside
<1> QED
  BY <1>5, <1>6, <1>7, <1>8

LEMMA CrashTyped ==
  ASSUME HelmTyped, NEW p \in HelmProcs, Helm!Crash(p)
  PROVE  HelmTyped'
<1>1. RequestsTyped'
  <2>1. requests.crashes > 0 /\ requests' = [requests EXCEPT !.crashes = @ - 1]
    BY DEF Helm!Crash
  <2> QED
    BY <2>1, FaultTyped DEF HelmTyped
<1>2. ProcsTyped'
  BY HelmAssumption DEF HelmTyped, ProcsTyped, Helm!Crash
<1>3. FilesTyped'
  <2>1. [k \in Helm!Key |-> Helm!NoText] \in [Helm!Key -> Texts]
    BY DEF Texts
  <2>2. [n \in 0 .. Dirs - 1 |-> {}] \in [0 .. Dirs - 1 -> SUBSET Output]
    OBVIOUS
  <2>3. cache' = cache
    BY DEF Helm!Crash
  <2>4. \/ UNCHANGED <<scratch, tmp>>
        \/ /\ scratch' = [scratch EXCEPT ![p] = [n \in 0 .. Dirs - 1 |-> {}]]
           /\ tmp' = [tmp EXCEPT ![p] = [k \in Helm!Key |-> Helm!NoText]]
    BY DEF Helm!Crash
  <2> QED
    BY <2>1, <2>2, <2>3, <2>4 DEF HelmTyped, FilesTyped
<1>4. ThreadsTyped'
  <2>1. Helm!Idle \in Threading
    BY DEF Helm!Idle, Threading
  <2> QED
    BY <2>1 DEF HelmTyped, ThreadsTyped, Helm!Crash
<1> QED
  BY <1>1, <1>2, <1>3, <1>4 DEF HelmTyped

LEMMA EditTyped ==
  ASSUME HelmTyped, Helm!EditChart \/ Helm!UpgradeHelm
  PROVE  HelmTyped'
<1>1. \A q \in HelmProcs : Helm!Busy(q) \in BOOLEAN
  BY DEF Helm!Busy
<1>2. ProcsTyped'
  BY <1>1 DEF HelmTyped, ProcsTyped, Helm!EditChart, Helm!UpgradeHelm, Helm!Edit
<1>3. RequestsTyped'
  <2>1. requests.edits > 0 /\ requests' = [requests EXCEPT !.edits = @ - 1]
    BY DEF Helm!EditChart, Helm!UpgradeHelm, Helm!Edit
  <2> QED
    BY <2>1, FaultTyped DEF HelmTyped
<1> QED
  BY <1>2, <1>3 DEF HelmTyped, FilesTyped, ThreadsTyped, Helm!EditChart, Helm!UpgradeHelm,
                    Helm!Edit
-----------------------------------------------------------------------------
LEMMA ThreadsStay ==
  ASSUME HelmSound, NEW t \in HelmThreads, UNCHANGED <<helm, chart, moved>>,
         \A u \in HelmThreads \ {t} :
           threads'[u] = threads[u] /\ requests'.work[u] = requests.work[u],
         \A p \in HelmProcs : seq'[p] \in Nat /\ seq'[p] >= seq[p],
         ThreadRight(t, threads[t])'
  PROVE  ThreadsRight'
<1> SUFFICES ASSUME NEW u \in HelmThreads, u # t PROVE ThreadRight(u, threads[u])'
  BY DEF ThreadsRight
<1>1. threads'[u] = threads[u] /\ requests'.work[u] = requests.work[u] /\ ThreadRight(u, threads[u])
  BY DEF HelmSound, ThreadsRight
<1>2. u[1] \in HelmProcs /\ seq[u[1]] \in Nat
  BY ThreadOf, HelmAssumption DEF HelmSound, HelmTyped, ProcsTyped
<1>3. InDir(threads[u]) => threads[u].n \in Nat
  BY AtKey DEF HelmSound, HelmTyped, InDir, Templating
<1>4. Doing(u, threads[u])' /\ TextRight(threads[u])' /\ (~moved[u[1]] => Recent(threads[u]))'
  BY <1>1 DEF ThreadRight, Doing, TextRight, TrueText, Recent
<1>5. Goes(u, threads[u])'
  <2> DEFINE r == threads[u]
  <2>1. Item(u)' = Item(u) /\ Did(u, threads[u])' = Did(u, threads[u])
    BY <1>1 DEF Item, Did
  <2>2. InDir(r) /\ r.n < seq[u[1]] => r.n < seq'[u[1]]
    BY <1>2, <1>3
  <2> QED
    BY <1>1, <2>1, <2>2 DEF ThreadRight, Goes, AtItem, InDir
<1> QED
  BY <1>4, <1>5 DEF ThreadRight

LEMMA SeqStays ==
  ASSUME HelmTyped, UNCHANGED seq
  PROVE  \A p \in HelmProcs : seq'[p] \in Nat /\ seq'[p] >= seq[p]
<1>1. \A p \in HelmProcs : seq[p] \in Nat
  BY HelmAssumption DEF HelmTyped, ProcsTyped
<1> QED
  BY <1>1

LEMMA StillAskedStays ==
  ASSUME StillAsked, requests'.work = requests.work, requests'.asked = requests.asked
  PROVE  StillAsked'
  BY DEF StillAsked

LEMMA BeginSound ==
  ASSUME HelmSound, NEW t \in HelmThreads, Helm!Begin(t)
  PROVE  HelmSound'
<1>1. HelmTyped' /\ ThreadsTyped /\ RequestsTyped
  BY BeginTyped DEF HelmSound, HelmTyped
<1>2. UNCHANGED <<requests, versions, seq, scratch, cache, tmp, faulted, helm, chart, moved>>
  BY DEF Helm!Begin, Helm!Outside
<1>3. Head(requests.work[t]) \in Asked /\ requests.work[t] # <<>>
  BY <1>1, HeadAsked DEF Helm!Begin
<1> PICK q \in Asked : q = Head(requests.work[t])
  BY <1>3
<1>4. Item(t)' = q
  BY <1>2 DEF Item
<1>5. ThreadRight(t, threads[t])' /\ \A u \in HelmThreads \ {t} : threads'[u] = threads[u]
  <2>1. CASE q \in Renders
    <3>1. Helm!Step(t, [pc |-> "version", values |-> q.values])
      BY <2>1 DEF Helm!Begin, Renders
    <3>2. threads'[t] = [pc |-> "version", values |-> q.values]
      BY <1>1, <3>1, StepOf
    <3>3. q = [kind |-> "render", values |-> q.values]
      BY <2>1 DEF Renders
    <3>4. Doing(t, threads[t])'
      BY <1>2, <1>3, <3>2, <3>3 DEF Doing
    <3> QED
      BY <1>1, <3>1, <3>2, <3>4, StepOf DEF ThreadRight, Goes, AtItem, Recent, TextRight
  <2>2. CASE q \in ItemsOf(Seq(ChartNames) \ {<<>>})
    <3> DEFINE f == [pc |-> "scratch", charts |-> q.charts, file |-> q.file, n |-> 0, written |-> {}]
    <3>1. Helm!Step(t, f)
      BY <2>2 DEF Helm!Begin, ItemsOf
    <3>2. threads'[t] = f
      BY <1>1, <3>1, StepOf
    <3>3. q.charts \in Seq(ChartNames) /\ q.charts # <<>> /\ q.file \in BOOLEAN
      BY <2>2 DEF ItemsOf
    <3>4. Did(t, threads[t])' = 0
      BY <1>4, <3>2, <3>3 DEF Did
    <3>5. Left(q.charts, q.charts, 0)
      BY <3>3 DEF Left
    <3>6. Goes(t, threads[t])'
      <4>1. /\ threads'[t].charts = q.charts /\ threads'[t].file = q.file
            /\ threads'[t].pc = "scratch"
        BY <3>2
      <4>2. Left(threads'[t].charts, q.charts, Did(t, threads[t])')
        BY <3>4, <3>5, <4>1
      <4> QED
        BY <1>4, <2>2, <3>3, <3>4, <4>1, <4>2 DEF Goes, AtItem, InDir
    <3> QED
      BY <1>1, <1>2, <1>3, <3>1, <3>2, <3>6, StepOf DEF ThreadRight, Doing, Recent, TextRight
  <2>3. CASE q \in [kind : {"bad"}]
    <3>1. Helm!Step(t, [pc |-> "failed"])
      BY <2>3 DEF Helm!Begin
    <3>2. threads'[t] = [pc |-> "failed"]
      BY <1>1, <3>1, StepOf
    <3> QED
      BY <1>1, <1>2, <1>3, <3>1, <3>2, StepOf DEF ThreadRight, Doing, Goes, AtItem, Recent,
                                                  TextRight
  <2> QED
    BY <2>1, <2>2, <2>3 DEF Asked
<1>6. ThreadsRight'
  BY <1>2, <1>5, SeqStays, ThreadsStay DEF HelmSound
<1> QED
  BY <1>1, <1>2, <1>6 DEF HelmSound, StillAsked, VersionsRight, Helm!CacheIsTrue, TmpTrue

LEMMA TailHas ==
  ASSUME NEW S, NEW w \in Seq(S), w # <<>>, NEW i \in DOMAIN Tail(w)
  PROVE  i + 1 \in DOMAIN w /\ Tail(w)[i] = w[i + 1]
  OBVIOUS

LEMMA EndsSound ==
  ASSUME HelmSound, NEW t \in HelmThreads, Helm!Ends(t)
  PROVE  HelmSound'
<1>1. requests.work[t] # <<>>
  BY DEF HelmSound, ThreadsRight, ThreadRight, Doing, Helm!Ends
<1>2. HelmTyped' /\ ThreadsTyped /\ RequestsTyped
  BY <1>1, EndsTyped DEF HelmSound, HelmTyped
<1>3. UNCHANGED <<versions, seq, scratch, cache, tmp, faulted, helm, chart, moved>>
  BY DEF Helm!Ends, Helm!Outside
<1>4. requests' = [requests EXCEPT !.work[t] = Tail(@)]
  BY DEF Helm!Ends
<1>5. /\ requests'.asked = requests.asked /\ requests'.work[t] = Tail(requests.work[t])
      /\ \A u \in HelmThreads \ {t} : requests'.work[u] = requests.work[u]
  BY <1>2, <1>4 DEF RequestsTyped
<1>6. threads'[t] = [pc |-> "idle"] /\ \A u \in HelmThreads \ {t} : threads'[u] = threads[u]
  BY <1>2, StepOf DEF Helm!Ends, Helm!Idle
<1>7. ThreadRight(t, threads[t])'
  BY <1>6 DEF ThreadRight, Doing, Goes, AtItem, Recent, TextRight
<1>8. ThreadsRight'
  BY <1>3, <1>5, <1>6, <1>7, SeqStays, ThreadsStay DEF HelmSound
<1>9. StillAsked'
  <2>1. ASSUME NEW u \in HelmThreads, NEW i \in DOMAIN requests'.work[u]
        PROVE  \E j \in DOMAIN requests'.asked[u] : requests'.work[u][i] = requests'.asked[u][j]
    <3>1. CASE u # t
      BY <1>5, <3>1 DEF StillAsked, HelmSound
    <3>2. CASE u = t
      <4> DEFINE w == requests.work[t]
      <4>1. w \in Seq(Asked) /\ w # <<>>
        BY <1>1, <1>2 DEF RequestsTyped
      <4>2. i \in DOMAIN Tail(w) /\ requests'.work[u][i] = Tail(w)[i]
        BY <1>5, <3>2
      <4>3. i + 1 \in DOMAIN w /\ Tail(w)[i] = w[i + 1]
        <5> HIDE DEF w
        <5> QED
          BY <4>1, <4>2, TailHas
      <4>4. \E k \in DOMAIN requests.asked[t] : w[i + 1] = requests.asked[t][k]
        BY <4>3 DEF StillAsked, HelmSound
      <4> QED
        BY <1>5, <3>2, <4>2, <4>3, <4>4
    <3> QED
      BY <3>1, <3>2
  <2> QED
    BY <2>1 DEF StillAsked
<1> QED
  BY <1>2, <1>3, <1>8, <1>9 DEF HelmSound, VersionsRight, Helm!CacheIsTrue, TmpTrue

LEMMA RenderSound ==
  ASSUME HelmSound, NEW t \in HelmThreads,
         Helm!Version(t) \/ Helm!AskVersion(t) \/ Helm!KeepVersion(t) \/ Helm!Hash(t)
         \/ Helm!Lookup(t) \/ Helm!RunHelm(t) \/ Helm!HelmFails(t)
  PROVE  HelmSound'
<1>1. HelmTyped' /\ HelmTyped /\ ThreadsTyped /\ RequestsTyped
  BY RenderTyped DEF HelmSound, HelmTyped
<1>2. t[1] \in HelmProcs /\ Helm!Proc(t) = t[1] /\ ThreadRight(t, threads[t])
  BY <1>1, ThreadOf DEF HelmSound, ThreadsRight
<1>3. UNCHANGED <<seq, scratch, cache, tmp, faulted, helm, chart, moved>>
  BY DEF Helm!Version, Helm!AskVersion, Helm!KeepVersion, Helm!Hash, Helm!Lookup,
         Helm!RunHelm, Helm!HelmFails, Helm!Outside
<1>4. requests'.work = requests.work /\ requests'.asked = requests.asked
  BY <1>1 DEF RequestsTyped, Helm!Version, Helm!AskVersion, Helm!KeepVersion, Helm!Hash,
              Helm!Lookup, Helm!RunHelm, Helm!HelmFails
<1>5. CASE Helm!KeepVersion(t)
  <2> DEFINE v == threads[t].helm
  <2>1. PICK r \in Threading : r = threads[t] /\ r.pc = "keep"
    BY <1>1, <1>5, AtStage DEF Helm!KeepVersion
  <2>2. \A u \in HelmThreads : threads'[u] = IF u = t THEN [r EXCEPT !.pc = "hash"] ELSE threads[u]
    BY <1>1, <1>5, <2>1, GotoTyped DEF Helm!KeepVersion
  <2>3. r \in [pc : {"keep"}, values : Values, helm : 1 .. 2]
    BY <2>1 DEF Threading, Rendering, Templating
  <2>4. /\ threads'[t].pc = "hash" /\ threads'[t].helm = v /\ threads'[t].values = threads[t].values
        /\ threads[t].pc = "keep"
    BY <2>1, <2>2, <2>3
  <2>5. versions' = [versions EXCEPT ![t[1]] = v] /\ versions \in [HelmProcs -> 0 .. 2]
    BY <1>1, <1>2, <1>5 DEF Helm!KeepVersion, HelmTyped, ProcsTyped
  <2>6. ~moved[t[1]] => v = helm
    BY <1>2, <2>4 DEF ThreadRight, Recent
  <2> HIDE DEF v
  <2>7. ThreadRight(t, threads[t])'
    BY <1>2, <1>3, <1>4, <2>4, <2>6 DEF ThreadRight, Doing, Goes, AtItem, Recent, TextRight
  <2>8. VersionsRight'
    BY <1>2, <1>3, <2>5, <2>6 DEF VersionsRight, HelmSound
  <2>9. \A u \in HelmThreads \ {t} : threads'[u] = threads[u] /\ requests'.work[u] = requests.work[u]
    BY <1>4, <2>2
  <2>10. ThreadsRight'
    BY <1>1, <1>3, <2>7, <2>9, SeqStays, ThreadsStay
  <2> QED
    BY <1>1, <1>3, <1>4, <2>8, <2>10, StillAskedStays DEF HelmSound, Helm!CacheIsTrue, TmpTrue
<1>6. ASSUME ~Helm!KeepVersion(t)
      PROVE  ThreadRight(t, threads[t])' /\ \A u \in HelmThreads \ {t} : threads'[u] = threads[u]
  <2>5. CASE Helm!Version(t)
    <3> DEFINE known == versions[t[1]]
               f == IF known = 0 THEN [pc |-> "ask", values |-> threads[t].values]
                    ELSE [pc |-> "hash", values |-> threads[t].values, helm |-> known]
    <3>1. Helm!Step(t, f) /\ threads[t].pc = "version"
      BY <1>2, <2>5 DEF Helm!Version, Helm!At
    <3>2. \A u \in HelmThreads : threads'[u] = IF u = t THEN f ELSE threads[u]
      BY <1>1, <3>1, StepOf
    <3>3. ~moved[t[1]] => known \in {0, helm}
      BY <1>2 DEF HelmSound, VersionsRight
    <3> HIDE DEF known
    <3> QED
      BY <1>2, <1>3, <1>4, <3>1, <3>2, <3>3 DEF ThreadRight, Doing, Goes, AtItem, Recent,
                                                TextRight
  <2>6. CASE Helm!AskVersion(t)
    <3>1. Helm!Step(t, [pc |-> "keep", values |-> threads[t].values, helm |-> helm])
          /\ threads[t].pc = "ask"
      BY <2>6 DEF Helm!AskVersion, Helm!At
    <3>2. \A u \in HelmThreads :
            threads'[u] = IF u = t THEN [pc |-> "keep", values |-> threads[t].values, helm |-> helm]
                          ELSE threads[u]
      BY <1>1, <3>1, StepOf
    <3> QED
      BY <1>2, <1>3, <1>4, <3>1, <3>2 DEF ThreadRight, Doing, Goes, AtItem, Recent, TextRight
  <2>1. CASE Helm!Hash(t)
    <3>1. Helm!Step(t, [pc |-> "lookup", key |-> Helm!Digest(t)]) /\ threads[t].pc = "hash"
      BY <2>1 DEF Helm!Hash, Helm!At
    <3>2. \A u \in HelmThreads :
            threads'[u] = IF u = t THEN [pc |-> "lookup", key |-> Helm!Digest(t)] ELSE threads[u]
      BY <1>1, <3>1, StepOf
    <3>3. /\ Helm!Digest(t).values = threads[t].values /\ Helm!Digest(t).helm = threads[t].helm
          /\ Helm!Digest(t).chart = chart
      BY DEF Helm!Digest
    <3> QED
      BY <1>2, <1>3, <1>4, <3>1, <3>2, <3>3 DEF ThreadRight, Doing, Goes, AtItem, Recent,
                                                TextRight
  <2>2. CASE Helm!Lookup(t)
    <3> DEFINE k == threads[t].key
               f == IF cache[k].there THEN [pc |-> "answer", key |-> k, text |-> cache[k]]
                    ELSE [pc |-> "helm", key |-> k]
    <3>1. Helm!Step(t, f) /\ threads[t].pc = "lookup" /\ k \in Helm!Key
      BY <1>1, <2>2, AtKey DEF Helm!Lookup, Helm!At
    <3>2. \A u \in HelmThreads : threads'[u] = IF u = t THEN f ELSE threads[u]
      BY <1>1, <3>1, StepOf
    <3>3. cache[k].there => TrueText(cache[k], k)
      BY <3>1 DEF HelmSound, Helm!CacheIsTrue, TrueText
    <3> QED
      BY <1>2, <1>3, <1>4, <3>1, <3>2, <3>3
         DEF ThreadRight, Doing, Goes, AtItem, Recent, TextRight, TrueText
  <2>3. CASE Helm!RunHelm(t)
    <3> DEFINE k == threads[t].key
               of == [k EXCEPT !.helm = helm, !.chart = chart]
               text == Helm!Text(of, TRUE, moved[Helm!Proc(t)])
               f == [pc |-> "open", key |-> k, text |-> text]
    <3>1. Helm!Step(t, f) /\ threads[t].pc = "helm" /\ k \in Helm!Key
      BY <1>1, <2>3, AtKey DEF Helm!RunHelm, Helm!At
    <3>2. \A u \in HelmThreads : threads'[u] = IF u = t THEN f ELSE threads[u]
      BY <1>1, <3>1, StepOf
    <3>3. TrueText(text, k) /\ text.whole
      <4>1. text.late = moved[t[1]] /\ text.of = of /\ text.whole
        BY <1>2 DEF Helm!Text
      <4>2. ~moved[t[1]] => k.helm = helm /\ k.chart = chart
        BY <1>2, <3>1 DEF ThreadRight, Recent
      <4>3. ~moved[t[1]] => of = k
        BY <3>1, <4>2 DEF Helm!Key
      <4>4. moved[t[1]] \in BOOLEAN
        BY <1>1, <1>2 DEF HelmTyped, ProcsTyped
      <4> HIDE DEF text, of
      <4> QED
        BY <4>1, <4>3, <4>4 DEF TrueText
    <3> HIDE DEF text
    <3> QED
      BY <1>2, <1>3, <1>4, <3>1, <3>2, <3>3
         DEF ThreadRight, Doing, Goes, AtItem, Recent, TextRight, TrueText
  <2>4. CASE Helm!HelmFails(t)
    <3>1. \A u \in HelmThreads :
            threads'[u] = IF u = t THEN [threads[t] EXCEPT !.pc = "failed"] ELSE threads[u]
      BY <1>1, <2>4, GotoTyped DEF Helm!HelmFails
    <3>2. threads'[t].pc = "failed" /\ threads[t].pc = "helm"
      <4>1. PICK r \in Threading : r = threads[t] /\ r.pc = "helm"
        BY <1>1, <2>4, AtStage DEF Helm!HelmFails
      <4>2. [r EXCEPT !.pc = "failed"].pc = "failed"
        BY DEF Threading, Rendering, Templating
      <4> QED
        BY <3>1, <4>1, <4>2
    <3> QED
      BY <1>2, <1>3, <1>4, <3>1, <3>2 DEF ThreadRight, Doing, Goes, AtItem, Recent, TextRight
  <2> QED
    BY <1>6, <2>1, <2>2, <2>3, <2>4, <2>5, <2>6
<1>7. CASE ~Helm!KeepVersion(t)
  <2>1. ThreadsRight'
    BY <1>1, <1>3, <1>4, <1>6, <1>7, SeqStays, ThreadsStay
  <2>2. UNCHANGED versions
    BY <1>7 DEF Helm!Version, Helm!AskVersion, Helm!Hash, Helm!Lookup, Helm!RunHelm,
                Helm!HelmFails
  <2> QED
    BY <1>1, <1>3, <1>4, <2>1, <2>2, StillAskedStays
       DEF HelmSound, VersionsRight, Helm!CacheIsTrue, TmpTrue
<1> QED
  BY <1>5, <1>7

LEMMA GotoKeeps ==
  ASSUME ThreadsTyped, NEW t \in HelmThreads, NEW from \in {"write", "rename", "chart"}, NEW to,
         Helm!At(t, from), Helm!Goto(t, to),
         <<from, to>> \in {<<"write", "rename">>, <<"write", "answer">>, <<"rename", "answer">>,
                           <<"chart", "collect">>, <<"chart", "failed">>}
  PROVE  /\ threads[t].pc = from /\ threads'[t].pc = to
         /\ from # "chart" => /\ threads'[t].key = threads[t].key
                              /\ threads'[t].text = threads[t].text
                              /\ threads'[t].at = threads[t].at
         /\ from = "chart" => /\ threads'[t].charts = threads[t].charts
                              /\ threads'[t].file = threads[t].file
                              /\ threads'[t].n = threads[t].n
                              /\ threads'[t].written = threads[t].written
         /\ \A u \in HelmThreads \ {t} : threads'[u] = threads[u]
<1>1. PICK r \in Threading : r = threads[t] /\ r.pc = from
  BY AtStage
<1>2. threads'[t] = [r EXCEPT !.pc = to] /\ \A u \in HelmThreads \ {t} : threads'[u] = threads[u]
  BY <1>1, GotoTyped
<1>3. CASE from # "chart"
  <2>1. r \in Rendering
    BY <1>1, <1>3 DEF Threading, Templating
  <2> QED
    BY <1>1, <1>2, <1>3, <2>1 DEF Rendering
<1>4. CASE from = "chart"
  <2>1. r \in Templating
    BY <1>1, <1>4 DEF Threading, Rendering
  <2> QED
    BY <1>1, <1>2, <1>4, <2>1 DEF Templating
<1> QED
  BY <1>3, <1>4

(* What the rename leaves a thread with.                                   *)
LEMMA RenamedKeeps ==
  ASSUME ThreadsTyped, NEW t \in HelmThreads, Helm!At(t, "rename"), NEW u \in HelmThreads
  PROVE  LET r == RenamedThread(t, u) IN
         /\ u # t => r.pc = threads[u].pc
         /\ u = t => r.pc = "answer"
         /\ u = t \/ Helm!Holds(t, u) => r.key = threads[u].key /\ r.text = threads[u].text
         /\ u # t /\ Helm!Holds(t, u) => r.at = Helm!RenamedTo(t, u)
         /\ u # t /\ ~Helm!Holds(t, u) => r = threads[u]
<1> DEFINE q == RenamedThread(t, u)
<1>1. CASE u = t
  <2>1. PICK r \in Threading : r = threads[t] /\ r.pc = "rename"
    BY AtStage
  <2>2. r \in Rendering
    BY <2>1 DEF Threading, Templating
  <2>3. q = [r EXCEPT !.pc = "answer"]
    BY <1>1, <2>1 DEF RenamedThread
  <2>4. q.pc = "answer" /\ q.key = r.key /\ q.text = r.text
    BY <2>1, <2>2, <2>3 DEF Rendering
  <2> QED
    BY <1>1, <2>1, <2>4
<1>2. CASE u # t /\ Helm!Holds(t, u)
  <2>1. PICK r \in Threading : r = threads[u] /\ r.pc = "write"
    BY <1>2, AtStage DEF Helm!Holds
  <2>2. r \in Rendering
    BY <2>1 DEF Threading, Templating
  <2>3. q = [r EXCEPT !.at = Helm!RenamedTo(t, u)]
    BY <1>2, <2>1 DEF RenamedThread
  <2>4. q.pc = "write" /\ q.key = r.key /\ q.text = r.text /\ q.at = Helm!RenamedTo(t, u)
    <3> HIDE DEF q
    <3> QED
      BY <2>1, <2>2, <2>3 DEF Rendering
  <2> QED
    BY <1>2, <2>1, <2>4
<1>3. CASE u # t /\ ~Helm!Holds(t, u)
  BY <1>3 DEF RenamedThread
<1> QED
  BY <1>1, <1>2, <1>3

LEMMA StoreSound ==
  ASSUME HelmSound, NEW t \in HelmThreads,
         Helm!Open(t) \/ Helm!Write(t) \/ Helm!WriteFails(t) \/ Helm!Rename(t)
  PROVE  HelmSound'
<1>1. HelmTyped' /\ HelmTyped /\ ThreadsTyped /\ RequestsTyped /\ FilesTyped
  BY StoreTyped DEF HelmSound, HelmTyped
<1>2. t[1] \in HelmProcs /\ Helm!Proc(t) = t[1] /\ ThreadRight(t, threads[t])
  BY <1>1, ThreadOf DEF HelmSound, ThreadsRight
<1>3. UNCHANGED <<versions, seq, helm, chart, moved>>
  BY DEF Helm!Open, Helm!Write, Helm!WriteFails, Helm!Rename, Helm!Outside
<1>4. requests'.work = requests.work /\ requests'.asked = requests.asked
  BY <1>1 DEF RequestsTyped, Helm!Open, Helm!Write, Helm!WriteFails, Helm!Rename
<1> DEFINE k == threads[t].key
           text == threads[t].text
<1>5. k \in Helm!Key /\ threads[t].pc \in {"open", "write", "rename"} /\ text \in Text /\ TrueText(text, k)
  BY <1>1, <1>2, AtKey DEF Helm!Open, Helm!Write, Helm!WriteFails, Helm!Rename, Helm!At,
                           ThreadRight, TextRight
<1>6. \A c, p : (p \in HelmProcs /\ c \in Helm!Key /\ tmp[p][c].there => TrueText(tmp[p][c], c))
                /\ (c \in Helm!Key /\ cache[c].there => TrueText(cache[c], c))
  BY DEF HelmSound, TmpTrue, Helm!CacheIsTrue, TrueText
<1>7. SUFFICES /\ \A u \in HelmThreads : ThreadRight(u, threads[u])'
               /\ \A c \in Helm!Key : cache'[c].there => TrueText(cache'[c], c)
               /\ \A p \in HelmProcs, c \in Helm!Key : tmp'[p][c].there => TrueText(tmp'[p][c], c)
  <2>1. VersionsRight' /\ StillAsked'
    BY <1>3, <1>4, StillAskedStays DEF HelmSound, VersionsRight
  <2> QED
    BY <1>1, <1>7, <2>1 DEF HelmSound, ThreadsRight, Helm!CacheIsTrue, TmpTrue, TrueText
<1>8. ASSUME ThreadRight(t, threads[t])', \A u \in HelmThreads \ {t} : threads'[u] = threads[u]
      PROVE  \A u \in HelmThreads : ThreadRight(u, threads[u])'
  BY <1>1, <1>3, <1>4, <1>8, SeqStays, ThreadsStay DEF ThreadsRight
<1>9. CASE Helm!Open(t)
  <2> DEFINE f == [pc |-> "write", key |-> k, text |-> text, at |-> "tmp"]
             torn == [text EXCEPT !.whole = FALSE]
  <2>1. \A u \in HelmThreads : threads'[u] = IF u = t THEN f ELSE threads[u]
    BY <1>1, <1>9, StepOf DEF Helm!Open
  <2>2. ThreadRight(t, threads[t])'
    BY <1>2, <1>3, <1>4, <1>5, <2>1 DEF ThreadRight, Doing, Goes, AtItem, Recent, TextRight,
                                        TrueText
  <2>3. torn.of = text.of /\ torn.late = text.late
    BY <1>5 DEF Text
  <2>4. tmp' = [tmp EXCEPT ![t[1]][k] = torn] /\ cache' = cache
    BY <1>2, <1>9 DEF Helm!Open
  <2>5. ASSUME NEW p \in HelmProcs, NEW c \in Helm!Key, tmp'[p][c].there
        PROVE  TrueText(tmp'[p][c], c)
    <3> HIDE DEF torn, text, k
    <3>1. CASE p = t[1] /\ c = k
      <4>1. tmp'[p][c] = torn
        BY <1>1, <2>4, <3>1 DEF FilesTyped
      <4> QED
        BY <1>5, <2>3, <3>1, <4>1 DEF TrueText
    <3>2. CASE ~(p = t[1] /\ c = k)
      <4>1. tmp'[p][c] = tmp[p][c]
        BY <1>1, <2>4, <3>2 DEF FilesTyped
      <4> QED
        BY <1>6, <2>5, <4>1
    <3> QED
      BY <3>1, <3>2
  <2> QED
    BY <1>6, <1>8, <2>1, <2>2, <2>4, <2>5
<1>10. CASE Helm!Write(t) \/ Helm!WriteFails(t)
  <2>1. PICK to \in {"rename", "answer"} : Helm!Goto(t, to) /\ Helm!At(t, "write")
    BY <1>10 DEF Helm!Write, Helm!WriteFails
  <2>2. /\ threads'[t].pc = to /\ threads'[t].key = k /\ threads'[t].text = text
        /\ threads[t].pc = "write" /\ \A u \in HelmThreads \ {t} : threads'[u] = threads[u]
    BY <1>1, <2>1, GotoKeeps
  <2>3. ThreadRight(t, threads[t])'
    BY <1>2, <1>3, <1>4, <1>5, <2>2 DEF ThreadRight, Doing, Goes, AtItem, Recent, TextRight,
                                        TrueText
  <2>4. PICK x : /\ TrueText(x, k) /\ tmp' \in {tmp, [tmp EXCEPT ![t[1]][k] = x]}
                 /\ cache' \in {cache, [cache EXCEPT ![k] = x]}
    <3>1. CASE Helm!Write(t)
      <4>1. PICK x \in Text : Helm!Fill(t, x) /\ x.of = text.of /\ (x = text \/ x.late)
        BY <1>1, <3>1, WriteIs
      <4>2. TrueText(x, k)
        BY <1>5, <4>1 DEF TrueText
      <4> QED
        BY <1>2, <4>1, <4>2 DEF Helm!Fill
    <3>2. CASE Helm!WriteFails(t)
      BY <1>5, <3>2 DEF Helm!WriteFails
    <3> QED
      BY <1>10, <3>1, <3>2
  <2> HIDE DEF k, text
  <2>5. \A p \in HelmProcs, c \in Helm!Key :
          tmp'[p][c] = tmp[p][c] \/ (c = k /\ tmp'[p][c] = x)
    BY <1>1, <2>4 DEF FilesTyped
  <2>6. \A c \in Helm!Key : cache'[c] = cache[c] \/ (c = k /\ cache'[c] = x)
    BY <1>1, <2>4 DEF FilesTyped
  <2> QED
    BY <1>5, <1>6, <1>8, <2>2, <2>3, <2>4, <2>5, <2>6
<1>11. CASE Helm!Rename(t) /\ tmp[t[1]][k].there
  <2>1. \A u \in HelmThreads : threads'[u] = RenamedThread(t, u)
    BY <1>2, <1>11, RenamedThreads
  <2>2. \A u \in HelmThreads \ {t} : ThreadRight(u, threads[u])'
    <3> SUFFICES ASSUME NEW u \in HelmThreads, u # t PROVE ThreadRight(u, threads[u])'
      OBVIOUS
    <3>1. ThreadRight(u, threads[u]) /\ Helm!At(t, "rename")
      BY <1>11 DEF HelmSound, ThreadsRight, Helm!Rename
    <3>2. CASE ~Helm!Holds(t, u)
      <4>1. threads'[u] = threads[u]
        BY <1>1, <2>1, <3>1, <3>2, RenamedKeeps
      <4> QED
        BY <1>3, <1>4, <3>1, <4>1
           DEF ThreadRight, Doing, Goes, Item, Did, AtItem, InDir, Recent, TextRight, TrueText
    <3>3. CASE Helm!Holds(t, u)
      <4>1. /\ threads'[u].pc = threads[u].pc /\ threads[u].pc = "write"
            /\ threads'[u].key = threads[u].key /\ threads'[u].text = threads[u].text
        BY <1>1, <2>1, <3>1, <3>3, RenamedKeeps DEF Helm!Holds, Helm!At
      <4> QED
        BY <1>3, <1>4, <3>1, <4>1 DEF ThreadRight, Doing, Goes, AtItem, Recent, TextRight,
                                      TrueText
    <3> QED
      BY <3>2, <3>3
  <2>3. ThreadRight(t, threads[t])'
    <3>1. threads'[t].pc = "answer" /\ threads'[t].key = k /\ threads'[t].text = text
      BY <1>1, <1>11, <2>1, RenamedKeeps DEF Helm!Rename
    <3> QED
      BY <1>2, <1>3, <1>4, <1>5, <3>1 DEF ThreadRight, Doing, Goes, AtItem, Recent,
                                          TextRight, TrueText
  <2>4. /\ cache' = [cache EXCEPT ![k] = tmp[t[1]][k]]
        /\ tmp' = [tmp EXCEPT ![t[1]][k] = Helm!NoText]
    BY <1>2, <1>11 DEF Helm!Rename
  <2> HIDE DEF k
  <2>5. \A p \in HelmProcs, c \in Helm!Key : tmp'[p][c] \in {tmp[p][c], Helm!NoText}
    BY <1>1, <2>4 DEF FilesTyped
  <2>6. \A c \in Helm!Key : cache'[c] = cache[c] \/ (c = k /\ cache'[c] = tmp[t[1]][c])
    BY <1>1, <2>4 DEF FilesTyped
  <2>7. ~Helm!NoText.there
    BY DEF Helm!NoText
  <2> QED
    BY <1>2, <1>5, <1>6, <2>2, <2>3, <2>5, <2>6, <2>7
<1>12. CASE Helm!Rename(t) /\ ~tmp[t[1]][k].there
  <2>1. Helm!Goto(t, "answer") /\ UNCHANGED <<cache, tmp>> /\ Helm!At(t, "rename")
    BY <1>2, <1>12 DEF Helm!Rename
  <2>2. /\ threads'[t].pc = "answer" /\ threads'[t].key = k /\ threads'[t].text = text
        /\ \A u \in HelmThreads \ {t} : threads'[u] = threads[u]
    BY <1>1, <2>1, GotoKeeps
  <2>3. ThreadRight(t, threads[t])'
    BY <1>2, <1>3, <1>4, <1>5, <2>2 DEF ThreadRight, Doing, Goes, AtItem, Recent, TextRight,
                                        TrueText
  <2> QED
    BY <1>6, <1>8, <2>1, <2>2, <2>3
<1> QED
  BY <1>9, <1>10, <1>11, <1>12

(* The charts of an item that are left, after one of them.                 *)
LEMMA RestOf ==
  ASSUME NEW S, NEW s \in Seq(S), NEW n \in Nat, NEW r \in Seq(S), n = Len(s) - Len(r),
         Left(r, s, n), r # <<>>
  PROVE  /\ Len(s) - Len(Tail(r)) = n + 1 /\ n + 1 \in DOMAIN s
         /\ Left(Tail(r), s, n + 1) /\ Head(r) = s[n + 1]
<1>1. Len(s) \in Nat /\ Len(r) \in Nat /\ Len(r) > 0 /\ Len(Tail(r)) = Len(r) - 1
  OBVIOUS
<1>2. n + 1 \in 1 .. Len(s) /\ Len(s) - Len(Tail(r)) = n + 1
  BY <1>1
<1>3. Left(Tail(r), s, n + 1)
  <2> SUFFICES ASSUME NEW i \in DOMAIN Tail(r) PROVE Tail(r)[i] = s[(n + 1) + i]
    BY DEF Left
  <2>1. i + 1 \in DOMAIN r /\ Tail(r)[i] = r[i + 1]
    BY TailHas
  <2>2. i \in Nat /\ (n + 1) + i = n + (i + 1)
    BY <1>1
  <2> QED
    BY <2>1, <2>2 DEF Left
<1>4. Head(r) = s[n + 1]
  BY <1>1 DEF Left
<1> QED
  BY <1>1, <1>2, <1>3, <1>4

LEMMA ItemFacts ==
  ASSUME HelmSound, NEW t \in HelmThreads, AtItem(threads[t])
  PROVE  /\ t[1] \in HelmProcs /\ threads[t] \in Templating
         /\ Item(t).charts \in Seq(ChartNames) /\ Item(t).file \in BOOLEAN
         /\ Did(t, threads[t]) \in Nat
         /\ Left(threads[t].charts, Item(t).charts, Did(t, threads[t]))
         /\ threads[t].file = (Item(t).file /\ Did(t, threads[t]) = 0)
         /\ threads[t].pc = "done" <=> threads[t].charts = <<>>
         /\ InDir(threads[t]) =>
              threads[t].n < seq[t[1]] /\ threads[t].n \in 0 .. Dirs - 1
<1>1. Goes(t, threads[t])
  BY DEF HelmSound, ThreadsRight, ThreadRight
<1>2. t[1] \in HelmProcs /\ threads[t] \in Templating
  BY ThreadOf, AtKey DEF HelmSound, HelmTyped, AtItem
<1>3. Dirs \in Nat /\ seq[t[1]] \in 0 .. Dirs /\ threads[t].n \in Nat
  BY <1>2, HelmAssumption DEF HelmSound, HelmTyped, ProcsTyped, Templating
<1> QED
  BY <1>1, <1>2, <1>3 DEF Goes, ItemsOf

LEMMA ItemSound ==
  ASSUME HelmSound, NEW t \in HelmThreads,
         Helm!MakeScratch(t) \/ Helm!RenderChart(t) \/ Helm!ChartFails(t) \/ Helm!Collect(t)
  PROVE  HelmSound'
<1> DEFINE r == threads[t]
<1>1. HelmTyped /\ ThreadsTyped /\ RequestsTyped /\ ThreadRight(t, r)
  BY DEF HelmSound, HelmTyped, ThreadsRight
<1>2. AtItem(r) /\ r.pc # "done" /\ (r.pc # "scratch" => InDir(r))
  BY DEF Helm!MakeScratch, Helm!RenderChart, Helm!ChartFails, Helm!Collect, Helm!At, AtItem,
         InDir
<1>3. /\ t[1] \in HelmProcs /\ Helm!Proc(t) = t[1] /\ r \in Templating
      /\ Item(t).charts \in Seq(ChartNames) /\ Item(t).file \in BOOLEAN /\ Did(t, r) \in Nat
      /\ Left(r.charts, Item(t).charts, Did(t, r))
      /\ r.file = (Item(t).file /\ Did(t, r) = 0) /\ r.charts # <<>>
      /\ InDir(r) => r.n < seq[t[1]] /\ r.n \in 0 .. Dirs - 1
  BY <1>1, <1>2, ItemFacts, ThreadOf
<1>4. HelmTyped'
  BY <1>1, <1>2, <1>3, ItemTyped DEF Helm!At, InDir, AtItem
<1>5. UNCHANGED <<versions, cache, tmp, helm, chart, moved>>
  BY DEF Helm!MakeScratch, Helm!RenderChart, Helm!ChartFails, Helm!Collect, Helm!Outside
<1>6. requests'.work = requests.work /\ requests'.asked = requests.asked
  BY <1>1 DEF RequestsTyped, Helm!MakeScratch, Helm!RenderChart, Helm!ChartFails, Helm!Collect
<1>7. Item(t)' = Item(t)
  BY <1>6 DEF Item
<1>8. Item(t) \in ItemsOf(Seq(ChartNames) \ {<<>>}) /\ requests.work[t] # <<>>
  BY <1>1, <1>2 DEF ThreadRight, Goes, Doing, AtItem
<1>9. SUFFICES /\ ThreadRight(t, threads[t])' /\ \A u \in HelmThreads \ {t} : threads'[u] = threads[u]
               /\ \A p \in HelmProcs : seq'[p] \in Nat /\ seq'[p] >= seq[p]
  <2>1. ThreadsRight'
    BY <1>5, <1>6, <1>9, ThreadsStay
  <2>2. VersionsRight' /\ StillAsked'
    BY <1>5, <1>6, StillAskedStays DEF HelmSound, VersionsRight
  <2> QED
    BY <1>4, <1>5, <2>1, <2>2 DEF HelmSound, Helm!CacheIsTrue, TmpTrue
<1>10. CASE Helm!MakeScratch(t)
  <2> DEFINE f == [r EXCEPT !.pc = "chart", !.n = seq[t[1]]]
  <2>1. Helm!Step(t, f) /\ seq' = [seq EXCEPT ![t[1]] = @ + 1]
    BY <1>3, <1>10 DEF Helm!MakeScratch
  <2>2. \A u \in HelmThreads : threads'[u] = IF u = t THEN f ELSE threads[u]
    BY <1>1, <2>1, StepOf
  <2>3. /\ f.pc = "chart" /\ f.charts = r.charts /\ f.file = r.file /\ f.n = seq[t[1]]
    BY <1>3 DEF Templating
  <2>4. seq \in [HelmProcs -> Nat]
    BY <1>1, HelmAssumption DEF HelmTyped, ProcsTyped
  <2>5. seq[t[1]] < seq'[t[1]] /\ \A p \in HelmProcs : seq'[p] \in Nat /\ seq'[p] >= seq[p]
    BY <1>3, <2>1, <2>4
  <2>6. Did(t, threads[t])' = Did(t, r)
    BY <1>7, <2>2, <2>3 DEF Did
  <2>7. Goes(t, threads[t])'
    <3> HIDE DEF f
    <3> QED
      BY <1>3, <1>7, <1>8, <2>2, <2>3, <2>5, <2>6 DEF Goes, AtItem, InDir
  <2>8. threads'[t].pc = "chart"
    BY <2>2, <2>3
  <2>9. ThreadRight(t, threads[t])'
    BY <1>6, <1>8, <2>7, <2>8 DEF ThreadRight, Doing, Recent, TextRight
  <2> QED
    BY <2>2, <2>5, <2>9
<1>11. CASE Helm!RenderChart(t) \/ Helm!ChartFails(t)
  <2>1. PICK to \in {"collect", "failed"} : Helm!Goto(t, to) /\ Helm!At(t, "chart")
    BY <1>11 DEF Helm!RenderChart, Helm!ChartFails
  <2>2. /\ threads'[t].pc = to /\ threads'[t].charts = r.charts /\ threads'[t].file = r.file
        /\ threads'[t].n = r.n
        /\ threads[t].pc = "chart" /\ \A u \in HelmThreads \ {t} : threads'[u] = threads[u]
    BY <1>1, <2>1, GotoKeeps
  <2>3. seq' = seq
    BY <1>11 DEF Helm!RenderChart, Helm!ChartFails
  <2>4. Did(t, threads[t])' = Did(t, r)
    BY <1>7, <2>2 DEF Did
  <2>5. Goes(t, threads[t])'
    BY <1>3, <1>7, <1>8, <2>2, <2>3, <2>4 DEF Goes, AtItem, InDir
  <2>6. ThreadRight(t, threads[t])'
    BY <1>6, <1>8, <2>2, <2>5 DEF ThreadRight, Doing, Recent, TextRight
  <2> QED
    BY <1>1, <2>2, <2>3, <2>6, SeqStays
<1>12. CASE Helm!Collect(t)
  <2> DEFINE files == scratch[t[1]][r.n]
             f == [r EXCEPT !.pc = IF Tail(r.charts) = <<>> THEN "done" ELSE "scratch",
                            !.charts = Tail(r.charts), !.file = Helm!FileLeft(t),
                            !.written = Helm!Over(@, files)]
  <2>1. Helm!Step(t, f) /\ seq' = seq
    BY <1>3, <1>12 DEF Helm!Collect
  <2>2. \A u \in HelmThreads : threads'[u] = IF u = t THEN f ELSE threads[u]
    BY <1>1, <2>1, StepOf
  <2>3. /\ f.pc = IF Tail(r.charts) = <<>> THEN "done" ELSE "scratch"
        /\ f.charts = Tail(r.charts) /\ f.file = FALSE
    BY <1>3 DEF Templating, Helm!FileLeft
  <2>4. /\ Len(Item(t).charts) - Len(Tail(r.charts)) = Did(t, r) + 1
        /\ Left(Tail(r.charts), Item(t).charts, Did(t, r) + 1)
    <3>1. r.charts \in Seq(ChartNames) /\ Did(t, r) = Len(Item(t).charts) - Len(r.charts)
      BY <1>3 DEF Templating, Did
    <3> QED
      BY <1>3, <3>1, RestOf
  <2>5. Did(t, threads[t])' = Did(t, r) + 1
    BY <1>7, <2>2, <2>3, <2>4 DEF Did
  <2>6. Goes(t, threads[t])'
    <3>1. Did(t, r) + 1 # 0 /\ Did(t, r) + 1 \in Nat
      BY <1>3
    <3> HIDE DEF f
    <3> QED
      BY <1>7, <1>8, <2>2, <2>3, <2>4, <2>5, <3>1 DEF Goes, AtItem, InDir
  <2>7. threads'[t].pc \in {"done", "scratch"}
    BY <2>2, <2>3
  <2>8. ThreadRight(t, threads[t])'
    BY <1>6, <1>8, <2>6, <2>7 DEF ThreadRight, Doing, Recent, TextRight
  <2> QED
    BY <1>1, <2>1, <2>2, <2>8, SeqStays
<1> QED
  BY <1>10, <1>11, <1>12

LEMMA CrashSound ==
  ASSUME HelmSound, NEW p \in HelmProcs, Helm!Crash(p)
  PROVE  HelmSound'
<1>1. HelmTyped' /\ HelmTyped /\ ThreadsTyped /\ RequestsTyped /\ FilesTyped /\ ProcsTyped
  BY CrashTyped DEF HelmSound, HelmTyped
<1>2. UNCHANGED <<helm, chart, cache>>
  BY DEF Helm!Crash
<1>3. requests'.work = requests.work /\ requests'.asked = requests.asked
  BY <1>1 DEF RequestsTyped, Helm!Crash
<1>4. /\ seq' = [seq EXCEPT ![p] = 0] /\ moved' = [moved EXCEPT ![p] = FALSE]
      /\ versions' = [versions EXCEPT ![p] = 0]
      /\ tmp' \in {tmp, [tmp EXCEPT ![p] = [k \in Helm!Key |-> Helm!NoText]]}
  BY DEF Helm!Crash
<1>5. \A u \in HelmThreads : threads'[u] = IF u[1] = p THEN [pc |-> "idle"] ELSE threads[u]
  BY DEF Helm!Crash, Helm!Idle, Helm!Proc
<1>6. ThreadsRight'
  <2> SUFFICES ASSUME NEW u \in HelmThreads PROVE ThreadRight(u, threads[u])'
    BY DEF ThreadsRight
  <2>1. CASE u[1] = p
    <3>1. threads'[u] = [pc |-> "idle"]
      BY <1>5, <2>1
    <3> QED
      BY <3>1 DEF ThreadRight, Doing, Goes, AtItem, Recent, TextRight
  <2>2. CASE u[1] # p
    <3>1. threads'[u] = threads[u] /\ ThreadRight(u, threads[u])
      BY <1>5, <2>2 DEF HelmSound, ThreadsRight
    <3>2. u[1] \in HelmProcs
      BY <1>1, ThreadOf
    <3>3. seq'[u[1]] = seq[u[1]] /\ moved'[u[1]] = moved[u[1]]
      BY <1>1, <1>4, <2>2, <3>2 DEF ProcsTyped
    <3> QED
      BY <1>2, <1>3, <3>1, <3>3
         DEF ThreadRight, Doing, Goes, Item, Did, AtItem, InDir, Recent, TextRight, TrueText
  <2> QED
    BY <2>1, <2>2
<1>7. VersionsRight'
  BY <1>1, <1>2, <1>4 DEF VersionsRight, HelmSound, ProcsTyped
<1>8. TmpTrue'
  <2>1. \A q \in HelmProcs, c \in Helm!Key : tmp'[q][c] \in {tmp[q][c], Helm!NoText}
    BY <1>1, <1>4 DEF FilesTyped
  <2>2. ~Helm!NoText.there
    BY DEF Helm!NoText
  <2> QED
    BY <2>1, <2>2 DEF TmpTrue, TrueText, HelmSound
<1> QED
  BY <1>1, <1>2, <1>3, <1>6, <1>7, <1>8, StillAskedStays DEF HelmSound, Helm!CacheIsTrue

LEMMA EditHelmSound ==
  ASSUME HelmSound, Helm!EditChart \/ Helm!UpgradeHelm
  PROVE  HelmSound'
<1>1. HelmTyped' /\ HelmTyped /\ ThreadsTyped /\ RequestsTyped
  BY EditTyped DEF HelmSound, HelmTyped
<1>2. UNCHANGED <<versions, seq, scratch, cache, tmp, threads, faulted>>
  BY DEF Helm!EditChart, Helm!UpgradeHelm, Helm!Edit
<1>3. requests'.work = requests.work /\ requests'.asked = requests.asked
  BY <1>1 DEF RequestsTyped, Helm!EditChart, Helm!UpgradeHelm, Helm!Edit
<1>4. moved' = [p \in HelmProcs |-> moved[p] \/ Helm!Busy(p)]
  BY DEF Helm!EditChart, Helm!UpgradeHelm, Helm!Edit
<1>5. ASSUME NEW p \in HelmProcs, ~moved'[p]
      PROVE  versions[p] = 0 /\ \A u \in HelmThreads : u[1] = p => threads[u].pc = "idle"
  <2>1. ~Helm!Busy(p)
    BY <1>4, <1>5
  <2> QED
    BY <2>1 DEF Helm!Busy, Helm!Idle, Helm!Proc
<1>6. ThreadsRight'
  <2> SUFFICES ASSUME NEW u \in HelmThreads PROVE ThreadRight(u, threads[u])'
    BY DEF ThreadsRight
  <2>1. ThreadRight(u, threads[u]) /\ u[1] \in HelmProcs
    BY <1>1, ThreadOf DEF HelmSound, ThreadsRight
  <2>2. Doing(u, threads[u])' /\ Goes(u, threads[u])' /\ TextRight(threads[u])'
    BY <1>2, <1>3, <2>1 DEF ThreadRight, Doing, Goes, Item, Did, AtItem, InDir, TextRight,
                            TrueText
  <2>3. ~moved'[u[1]] => Recent(threads[u])'
    BY <1>2, <1>5, <2>1 DEF Recent
  <2> QED
    BY <2>2, <2>3 DEF ThreadRight
<1>7. VersionsRight'
  BY <1>2, <1>5 DEF VersionsRight
<1> QED
  BY <1>1, <1>2, <1>3, <1>6, <1>7, StillAskedStays DEF HelmSound, Helm!CacheIsTrue, TmpTrue

LEMMA NextHelmSound ==
  ASSUME HelmSound, [Helm!Next]_helmVars
  PROVE  HelmSound'
<1>1. CASE UNCHANGED helmVars
  <2>1. HelmTyped'
    BY <1>1 DEF helmVars, HelmSound, HelmTyped, RequestsTyped, ProcsTyped, FilesTyped,
                ThreadsTyped
  <2>2. ThreadsRight'
    <3> SUFFICES ASSUME NEW u \in HelmThreads PROVE ThreadRight(u, threads[u])'
      BY DEF ThreadsRight
    <3>1. ThreadRight(u, threads[u])
      BY DEF HelmSound, ThreadsRight
    <3> QED
      BY <1>1, <3>1 DEF helmVars, ThreadRight, Doing, Goes, Item, Did, AtItem, InDir, Recent,
                        TextRight, TrueText
  <2>3. StillAsked' /\ VersionsRight' /\ Helm!CacheIsTrue' /\ TmpTrue'
    BY <1>1 DEF helmVars, HelmSound, StillAsked, VersionsRight, Helm!CacheIsTrue, TmpTrue,
                TrueText
  <2> QED
    BY <2>1, <2>2, <2>3 DEF HelmSound
<1>2. CASE Helm!Next
  BY <1>2, BeginSound, EndsSound, RenderSound, StoreSound, ItemSound, CrashSound, EditHelmSound
     DEF Helm!Next
<1> QED
  BY <1>1, <1>2
-----------------------------------------------------------------------------
(* The steps of a thread that has no file open, and what it is given.      *)
LEMMA NoFileStep ==
  ASSUME HelmTyped, NEW t \in HelmThreads,
         \/ Helm!Begin(t) \/ Helm!Ends(t) \/ Helm!Version(t) \/ Helm!AskVersion(t)
         \/ Helm!KeepVersion(t) \/ Helm!Hash(t) \/ Helm!Lookup(t)
         \/ Helm!RunHelm(t) \/ Helm!HelmFails(t)
         \/ Helm!MakeScratch(t) \/ Helm!RenderChart(t) \/ Helm!ChartFails(t) \/ Helm!Collect(t)
  PROVE  /\ UNCHANGED <<cache, tmp, faulted>> /\ requests'.asked = requests.asked
         /\ \A u \in HelmThreads \ {t} : threads'[u] = threads[u]
         /\ threads[t].pc \notin {"write", "rename"}
         /\ threads'[t].pc \notin {"write", "rename"}
         /\ threads'[t].pc = "answer" =>
              /\ threads[t].key \in Helm!Key /\ cache[threads[t].key].there
              /\ threads'[t].text = cache[threads[t].key]
<1>1. ThreadsTyped /\ RequestsTyped
  BY DEF HelmTyped
<1>2. UNCHANGED <<cache, tmp, faulted>>
  BY DEF Helm!Begin, Helm!Ends, Helm!Version, Helm!AskVersion, Helm!KeepVersion, Helm!Hash,
         Helm!Lookup, Helm!RunHelm, Helm!HelmFails,
         Helm!MakeScratch, Helm!RenderChart, Helm!ChartFails, Helm!Collect
<1>3. requests'.asked = requests.asked
  BY <1>1 DEF RequestsTyped, Helm!Begin, Helm!Ends, Helm!Version, Helm!AskVersion,
              Helm!KeepVersion, Helm!Hash, Helm!Lookup,
              Helm!RunHelm, Helm!HelmFails, Helm!MakeScratch, Helm!RenderChart, Helm!ChartFails,
              Helm!Collect
<1>4. CASE Helm!KeepVersion(t) \/ Helm!HelmFails(t) \/ Helm!RenderChart(t) \/ Helm!ChartFails(t)
  <2>1. PICK from \in {"keep", "helm", "chart"}, to \in {"hash", "failed", "collect"} :
          /\ Helm!At(t, from) /\ Helm!Goto(t, to)
          /\ <<from, to>> \in {<<"keep", "hash">>, <<"helm", "failed">>, <<"chart", "failed">>, <<"chart", "collect">>}
    BY <1>4 DEF Helm!KeepVersion, Helm!HelmFails, Helm!RenderChart, Helm!ChartFails
  <2>2. PICK r \in Threading : r = threads[t] /\ r.pc = from
    BY <1>1, <2>1, AtStage
  <2>3. \A u \in HelmThreads : threads'[u] = IF u = t THEN [r EXCEPT !.pc = to] ELSE threads[u]
    BY <1>1, <2>1, <2>2, GotoTyped
  <2>4. [r EXCEPT !.pc = to].pc = to
    BY DEF Threading, Rendering, Templating
  <2> QED
    BY <1>2, <1>3, <2>1, <2>2, <2>3, <2>4
<1>5. ASSUME NEW f, Helm!Step(t, f)
      PROVE  threads'[t] = f /\ \A u \in HelmThreads \ {t} : threads'[u] = threads[u]
  BY <1>1, <1>5, StepOf
<1>6. CASE Helm!Begin(t)
  <2>1. Head(requests.work[t]).kind \in {"render", "item", "bad"}
    <3>1. Head(requests.work[t]) \in Asked
      BY <1>1, <1>6, HeadAsked DEF Helm!Begin
    <3> QED
      BY <3>1 DEF Asked, Renders, ItemsOf
  <2>2. PICK f : Helm!Step(t, f) /\ f.pc \in {"version", "scratch", "failed"}
    BY <1>6, <2>1 DEF Helm!Begin
  <2>3. threads[t].pc = "idle"
    BY <1>6 DEF Helm!Begin, Helm!At
  <2> QED
    BY <1>2, <1>3, <1>5, <2>2, <2>3
<1>7. CASE Helm!Ends(t) \/ Helm!Version(t) \/ Helm!AskVersion(t) \/ Helm!Hash(t)
           \/ Helm!RunHelm(t)
  <2>1. PICK f : Helm!Step(t, f) /\ f.pc \in {"idle", "ask", "keep", "hash", "lookup", "open"}
    BY <1>7 DEF Helm!Ends, Helm!Version, Helm!AskVersion, Helm!Hash, Helm!RunHelm, Helm!Idle
  <2>2. threads[t].pc \in {"answer", "failed", "done", "version", "ask", "hash", "helm"}
    BY <1>7 DEF Helm!Ends, Helm!Version, Helm!AskVersion, Helm!Hash, Helm!RunHelm, Helm!At
  <2> QED
    BY <1>2, <1>3, <1>5, <2>1, <2>2
<1>8. CASE Helm!Lookup(t)
  <2> DEFINE k == threads[t].key
             f == IF cache[k].there THEN [pc |-> "answer", key |-> k, text |-> cache[k]]
                  ELSE [pc |-> "helm", key |-> k]
  <2>1. Helm!Step(t, f) /\ threads[t].pc = "lookup" /\ k \in Helm!Key
    BY <1>1, <1>8, AtKey DEF Helm!Lookup, Helm!At
  <2>2. threads'[t] = f /\ \A u \in HelmThreads \ {t} : threads'[u] = threads[u]
    BY <1>5, <2>1
  <2> QED
    BY <1>2, <1>3, <2>1, <2>2
<1>9. CASE Helm!MakeScratch(t) \/ Helm!Collect(t)
  <2>1. threads[t].pc \in {"scratch", "collect"}
    BY <1>9 DEF Helm!MakeScratch, Helm!Collect, Helm!At
  <2>2. threads[t] \in Templating
    BY <1>1, <2>1, AtKey
  <2>3. PICK f : Helm!Step(t, f) /\ f.pc \in {"chart", "done", "scratch"}
    <3>1. CASE Helm!MakeScratch(t)
      <4>1. [threads[t] EXCEPT !.pc = "chart", !.n = seq[Helm!Proc(t)]].pc = "chart"
        BY <2>2 DEF Templating
      <4> QED
        BY <3>1, <4>1 DEF Helm!MakeScratch
    <3>2. CASE Helm!Collect(t)
      <4> DEFINE files == scratch[Helm!Proc(t)][threads[t].n]
                 rest == Tail(threads[t].charts)
                 g == [threads[t] EXCEPT !.pc = IF rest = <<>> THEN "done" ELSE "scratch",
                                         !.charts = rest, !.file = Helm!FileLeft(t),
                                         !.written = Helm!Over(@, files)]
      <4>1. g.pc \in {"done", "scratch"}
        BY <2>2 DEF Templating
      <4>2. Helm!Step(t, g)
        BY <3>2 DEF Helm!Collect
      <4> HIDE DEF g
      <4> QED
        BY <4>1, <4>2
    <3> QED
      BY <1>9, <3>1, <3>2
  <2> QED
    BY <1>2, <1>3, <1>5, <2>1, <2>3
<1> QED
  BY <1>4, <1>6, <1>7, <1>8, <1>9

(* Of two threads of a process that render different things, each has a    *)
(* digest of its own.                                                      *)
LEMMA ApartKeys ==
  ASSUME HelmSound, Helm!Apart, NEW t \in HelmThreads, NEW u \in HelmThreads, t # u, t[1] = u[1],
         threads[t].pc \in {"open", "write", "rename"}, threads[u].pc \in {"open", "write", "rename"}
  PROVE  threads[t].key # threads[u].key
<1>1. ASSUME NEW v \in HelmThreads, threads[v].pc \in {"open", "write", "rename"}
      PROVE  \E j \in DOMAIN requests.asked[v] :
               requests.asked[v][j] = [kind |-> "render", values |-> threads[v].key.values]
  <2>1. /\ requests.work[v] # <<>> /\ requests.work[v] \in Seq(Asked)
        /\ Head(requests.work[v]) = [kind |-> "render", values |-> threads[v].key.values]
    BY <1>1 DEF HelmSound, HelmTyped, RequestsTyped, ThreadsRight, ThreadRight, Doing
  <2>2. 1 \in DOMAIN requests.work[v] /\ Head(requests.work[v]) = requests.work[v][1]
    BY <2>1
  <2> QED
    BY <2>1, <2>2 DEF HelmSound, StillAsked
<1>2. PICK i \in DOMAIN requests.asked[t] :
        requests.asked[t][i] = [kind |-> "render", values |-> threads[t].key.values]
  BY <1>1
<1>3. PICK j \in DOMAIN requests.asked[u] :
        requests.asked[u][j] = [kind |-> "render", values |-> threads[u].key.values]
  BY <1>1
<1>4. Helm!Proc(t) = Helm!Proc(u)
  BY DEF Helm!Proc
<1>5. requests.asked[t][i].kind = "render"
  BY <1>2
<1>6. requests.asked[t][i] # requests.asked[u][j]
  BY <1>4, <1>5 DEF Helm!Apart
<1> QED
  BY <1>2, <1>3, <1>6

LEMMA StoreWhole ==
  ASSUME HelmSound, Helm!Apart, CacheWhole, \A u \in HelmThreads : OwnFile(u, threads[u]),
         NEW t \in HelmThreads,
         Helm!Open(t) \/ Helm!Write(t) \/ Helm!WriteFails(t) \/ Helm!Rename(t)
  PROVE  CacheWhole' /\ \A u \in HelmThreads : OwnFile(u, threads[u])'
<1> DEFINE k == threads[t].key
           text == threads[t].text
<1>1. ThreadsTyped /\ FilesTyped
  BY DEF HelmSound, HelmTyped
<1>2. /\ t[1] \in HelmProcs /\ Helm!Proc(t) = t[1] /\ ThreadRight(t, threads[t])
      /\ threads[t].pc \in {"open", "write", "rename"}
  BY <1>1, ThreadOf DEF HelmSound, ThreadsRight, Helm!Open, Helm!Write, Helm!WriteFails,
                        Helm!Rename, Helm!At
<1>3. k \in Helm!Key /\ text \in Text /\ text.whole /\ text.there
  BY <1>1, <1>2, AtKey DEF ThreadRight, TextRight, Text
<1>4. ASSUME NEW u \in HelmThreads, u # t, threads[u].pc \in {"write", "rename"}, threads[u].key = k
      PROVE  u[1] # t[1]
  BY <1>2, <1>4, ApartKeys
<1>5. \A u \in HelmThreads : threads[u].pc \in {"write", "rename"} =>
        u[1] \in HelmProcs /\ threads[u].key \in Helm!Key
  BY <1>1, AtKey, ThreadOf
<1>6. \* The others' files are as they were when only the temporary file of t has changed.
      ASSUME NEW x, tmp' \in {tmp, [tmp EXCEPT ![t[1]][k] = x]},
             \A u \in HelmThreads \ {t} : threads'[u] = threads[u],
             OwnFile(t, threads[t])'
      PROVE  \A u \in HelmThreads : OwnFile(u, threads[u])'
  <2> SUFFICES ASSUME NEW u \in HelmThreads, u # t PROVE OwnFile(u, threads[u])'
    BY <1>6
  <2>1. threads'[u] = threads[u] /\ OwnFile(u, threads[u])
    BY <1>6
  <2>2. threads[u].pc \in {"write", "rename"} => tmp'[u[1]][threads[u].key] = tmp[u[1]][threads[u].key]
    <3> SUFFICES ASSUME threads[u].pc \in {"write", "rename"}
                 PROVE  tmp'[u[1]][threads[u].key] = tmp[u[1]][threads[u].key]
      OBVIOUS
    <3>1. u[1] \in HelmProcs /\ threads[u].key \in Helm!Key /\ ~(u[1] = t[1] /\ threads[u].key = k)
      BY <1>4, <1>5
    <3> HIDE DEF k
    <3> QED
      BY <1>1, <1>2, <1>6, <3>1 DEF FilesTyped
  <2> QED
    BY <2>1, <2>2 DEF OwnFile
<1>7. CASE Helm!Open(t)
  <2> DEFINE f == [pc |-> "write", key |-> k, text |-> text, at |-> "tmp"]
             torn == [text EXCEPT !.whole = FALSE]
  <2>1. \A u \in HelmThreads : threads'[u] = IF u = t THEN f ELSE threads[u]
    BY <1>1, <1>7, StepOf DEF Helm!Open
  <2>3. tmp' = [tmp EXCEPT ![t[1]][k] = torn] /\ cache' = cache
    BY <1>2, <1>7 DEF Helm!Open
  <2>2. OwnFile(t, threads[t])'
    <3>1. ~torn.whole
      BY <1>3 DEF Text
    <3>2. tmp'[t[1]][k] = torn
      <4> HIDE DEF k, torn
      <4> QED
        BY <1>1, <1>2, <1>3, <2>3 DEF FilesTyped
    <3>3. threads'[t].pc = "write" /\ threads'[t].at = "tmp" /\ threads'[t].key = k
      BY <2>1
    <3> HIDE DEF k, torn
    <3> QED
      BY <3>1, <3>2, <3>3 DEF OwnFile
  <2>4. CacheWhole'
    BY <2>3 DEF CacheWhole
  <2>5. \A u \in HelmThreads \ {t} : threads'[u] = threads[u]
    BY <2>1
  <2>6. PICK x : tmp' \in {tmp, [tmp EXCEPT ![t[1]][k] = x]}
    BY <2>3
  <2> QED
    BY <1>6, <2>2, <2>4, <2>5, <2>6
<1>8. CASE Helm!Write(t)
  <2>1. threads[t].pc = "write" /\ threads[t].at = "tmp"
    BY <1>8 DEF Helm!Write, Helm!At, OwnFile
  <2>2. tmp' = [tmp EXCEPT ![t[1]][k] = text] /\ cache' = cache
    <3>1. Helm!File(t) = tmp[t[1]][k]
      BY <1>2, <2>1 DEF Helm!File
    <3>2. Helm!Covers(text, Helm!File(t))
      BY <2>1, <3>1 DEF Helm!Covers, OwnFile
    <3>3. Helm!Fill(t, text)
      BY <1>1, <1>8, <3>2, WriteIs
    <3> QED
      BY <1>2, <2>1, <3>3 DEF Helm!Fill
  <2>3. /\ threads'[t].pc = "rename" /\ threads'[t].key = k
        /\ \A u \in HelmThreads \ {t} : threads'[u] = threads[u]
    BY <1>1, <1>8, GotoKeeps DEF Helm!Write
  <2>4. tmp'[t[1]][k] = text
    <3> HIDE DEF k, text
    <3> QED
      BY <1>1, <1>2, <1>3, <2>2 DEF FilesTyped
  <2>5. OwnFile(t, threads[t])'
    BY <1>3, <2>3, <2>4 DEF OwnFile
  <2>6. CacheWhole'
    BY <2>2 DEF CacheWhole
  <2>7. PICK x : tmp' \in {tmp, [tmp EXCEPT ![t[1]][k] = x]}
    BY <2>2
  <2> QED
    BY <1>6, <2>3, <2>5, <2>6, <2>7
<1>9. CASE Helm!WriteFails(t)
  <2>1. /\ threads'[t].pc = "answer" /\ threads'[t].text = text
        /\ \A u \in HelmThreads \ {t} : threads'[u] = threads[u]
    BY <1>1, <1>9, GotoKeeps DEF Helm!WriteFails
  <2>2. tmp' = tmp /\ cache' = cache
    BY <1>9 DEF Helm!WriteFails
  <2>3. OwnFile(t, threads[t])'
    BY <1>3, <2>1 DEF OwnFile
  <2>4. CacheWhole'
    BY <2>2 DEF CacheWhole
  <2> QED
    BY <1>6, <2>1, <2>2, <2>3, <2>4
<1>10. CASE Helm!Rename(t)
  <2>1. Helm!At(t, "rename") /\ threads[t].pc = "rename"
    BY <1>10 DEF Helm!Rename, Helm!At
  <2>2. tmp[t[1]][k].there /\ tmp[t[1]][k].whole
    BY <2>1 DEF OwnFile
  <2>3. \A u \in HelmThreads : threads'[u] = RenamedThread(t, u)
    BY <1>2, <1>10, <2>2, RenamedThreads
  <2>4. /\ cache' = [cache EXCEPT ![k] = tmp[t[1]][k]]
        /\ tmp' = [tmp EXCEPT ![t[1]][k] = Helm!NoText]
    BY <1>2, <1>10, <2>2 DEF Helm!Rename
  <2>5. CacheWhole'
    <3> HIDE DEF k
    <3> QED
      BY <1>1, <1>3, <2>2, <2>4 DEF CacheWhole, FilesTyped
  <2>6. ASSUME NEW u \in HelmThreads, u # t PROVE threads'[u] = threads[u] \/ OwnFile(u, threads[u])'
    <3>1. CASE Helm!Holds(t, u)
      <4>1. threads[u].pc = "write" /\ threads[u].key = k /\ threads[u].at = "tmp"
        BY <3>1 DEF Helm!Holds, Helm!At, OwnFile
      <4>2. Helm!RenamedTo(t, u) = "tmp"
        <5>1. u[1] # t[1] /\ Helm!Proc(u) = u[1]
          BY <1>4, <2>6, <4>1 DEF Helm!Proc
        <5> QED
          BY <1>2, <4>1, <5>1 DEF Helm!RenamedTo
      <4>3. threads'[u].pc = "write" /\ threads'[u].at = "tmp" /\ threads'[u].key = k
        BY <1>1, <2>1, <2>3, <2>6, <3>1, <4>1, <4>2, RenamedKeeps
      <4>4. tmp'[u[1]][k] = tmp[u[1]][k]
        <5>1. u[1] # t[1] /\ u[1] \in HelmProcs /\ k \in Helm!Key
          BY <1>4, <1>5, <2>6, <4>1
        <5> HIDE DEF k
        <5> QED
          BY <1>1, <1>2, <2>4, <5>1 DEF FilesTyped
      <4> QED
        BY <4>1, <4>3, <4>4 DEF OwnFile
    <3>2. CASE ~Helm!Holds(t, u)
      BY <1>1, <2>1, <2>3, <2>6, <3>2, RenamedKeeps
    <3> QED
      BY <3>1, <3>2
  <2>7. OwnFile(t, threads[t])'
    <3>1. threads'[t].pc = "answer" /\ threads'[t].text = text
      BY <1>1, <2>1, <2>3, RenamedKeeps
    <3> QED
      BY <1>3, <3>1 DEF OwnFile
  <2>8. ASSUME NEW u \in HelmThreads, u # t, threads'[u] = threads[u]
        PROVE  OwnFile(u, threads[u])'
    <3>1. OwnFile(u, threads[u])
      OBVIOUS
    <3>2. threads[u].pc \in {"write", "rename"} => tmp'[u[1]][threads[u].key] = tmp[u[1]][threads[u].key]
      <4> SUFFICES ASSUME threads[u].pc \in {"write", "rename"}
                   PROVE  tmp'[u[1]][threads[u].key] = tmp[u[1]][threads[u].key]
        OBVIOUS
      <4>1. u[1] \in HelmProcs /\ threads[u].key \in Helm!Key /\ ~(u[1] = t[1] /\ threads[u].key = k)
        BY <1>4, <1>5, <2>8
      <4> HIDE DEF k
      <4> QED
        BY <1>1, <1>2, <2>4, <4>1 DEF FilesTyped
    <3> QED
      BY <2>8, <3>1, <3>2 DEF OwnFile
  <2> QED
    BY <2>5, <2>6, <2>7, <2>8
<1> QED
  BY <1>7, <1>8, <1>9, <1>10

LEMMA NextWhole ==
  ASSUME HelmSound, ApartIsWhole, [Helm!Next]_helmVars
  PROVE  ApartIsWhole'
<1>1. HelmTyped /\ RequestsTyped /\ ThreadsTyped /\ FilesTyped
  BY DEF HelmSound, HelmTyped
<1>2. \* What was asked never changes.
      ASSUME requests'.asked = requests.asked, Helm!Apart'
      PROVE  Helm!Apart
  BY <1>2 DEF Helm!Apart
<1>3. CASE UNCHANGED helmVars
  <2>1. requests'.asked = requests.asked /\ UNCHANGED <<cache, tmp, threads>>
    BY <1>3 DEF helmVars
  <2> SUFFICES ASSUME Helm!Apart' PROVE CacheWhole' /\ \A u \in HelmThreads : OwnFile(u, threads[u])'
    BY DEF ApartIsWhole
  <2> QED
    BY <1>2, <2>1 DEF ApartIsWhole, CacheWhole, OwnFile
<1>4. ASSUME NEW t \in HelmThreads,
             \/ Helm!Begin(t) \/ Helm!Ends(t) \/ Helm!Version(t) \/ Helm!AskVersion(t)
             \/ Helm!KeepVersion(t) \/ Helm!Hash(t) \/ Helm!Lookup(t)
             \/ Helm!RunHelm(t) \/ Helm!HelmFails(t)
             \/ Helm!MakeScratch(t) \/ Helm!RenderChart(t) \/ Helm!ChartFails(t)
             \/ Helm!Collect(t)
      PROVE  ApartIsWhole'
  <2>1. /\ UNCHANGED <<cache, tmp, faulted>> /\ requests'.asked = requests.asked
        /\ \A u \in HelmThreads \ {t} : threads'[u] = threads[u]
        /\ threads'[t].pc \notin {"write", "rename"}
        /\ threads'[t].pc = "answer" =>
              /\ threads[t].key \in Helm!Key /\ cache[threads[t].key].there
              /\ threads'[t].text = cache[threads[t].key]
    BY <1>1, <1>4, NoFileStep
  <2> SUFFICES ASSUME Helm!Apart' PROVE CacheWhole' /\ \A u \in HelmThreads : OwnFile(u, threads[u])'
    BY DEF ApartIsWhole
  <2>2. CacheWhole /\ \A u \in HelmThreads : OwnFile(u, threads[u])
    BY <1>2, <2>1 DEF ApartIsWhole
  <2>3. OwnFile(t, threads[t])'
    BY <2>1, <2>2 DEF OwnFile, CacheWhole
  <2>4. \A u \in HelmThreads \ {t} : OwnFile(u, threads[u])'
    BY <2>1, <2>2 DEF OwnFile
  <2> QED
    BY <2>1, <2>2, <2>3, <2>4 DEF CacheWhole
<1>5. ASSUME NEW t \in HelmThreads,
             Helm!Open(t) \/ Helm!Write(t) \/ Helm!WriteFails(t) \/ Helm!Rename(t)
      PROVE  ApartIsWhole'
  <2>1. requests'.asked = requests.asked
    BY <1>1, <1>5 DEF RequestsTyped, Helm!Open, Helm!Write, Helm!WriteFails, Helm!Rename
  <2> QED
    BY <1>2, <1>5, <2>1, StoreWhole DEF ApartIsWhole
<1>6. ASSUME NEW p \in HelmProcs, Helm!Crash(p)
      PROVE  ApartIsWhole'
  <2>1. requests'.asked = requests.asked /\ cache' = cache
    BY <1>1, <1>6 DEF RequestsTyped, Helm!Crash
  <2>2. \A u \in HelmThreads : threads'[u] = IF u[1] = p THEN [pc |-> "idle"] ELSE threads[u]
    BY <1>6 DEF Helm!Crash, Helm!Idle, Helm!Proc
  <2>3. tmp' \in {tmp, [tmp EXCEPT ![p] = [k \in Helm!Key |-> Helm!NoText]]}
    BY <1>6 DEF Helm!Crash
  <2> SUFFICES ASSUME Helm!Apart' PROVE CacheWhole' /\ \A u \in HelmThreads : OwnFile(u, threads[u])'
    BY DEF ApartIsWhole
  <2>4. CacheWhole /\ \A u \in HelmThreads : OwnFile(u, threads[u])
    BY <1>2, <2>1 DEF ApartIsWhole
  <2>5. ASSUME NEW u \in HelmThreads PROVE OwnFile(u, threads[u])'
    <3>1. CASE u[1] = p
      <4>1. threads'[u].pc = "idle"
        BY <2>2, <3>1
      <4> QED
        BY <4>1 DEF OwnFile
    <3>2. CASE u[1] # p
      <4>1. tmp'[u[1]] = tmp[u[1]] /\ threads'[u] = threads[u]
        BY <1>1, <2>2, <2>3, <3>2, ThreadOf DEF FilesTyped
      <4> QED
        BY <2>4, <4>1 DEF OwnFile
    <3> QED
      BY <3>1, <3>2
  <2> QED
    BY <2>1, <2>4, <2>5 DEF CacheWhole
<1>7. CASE Helm!EditChart \/ Helm!UpgradeHelm
  <2>1. requests'.asked = requests.asked /\ UNCHANGED <<cache, tmp, threads>>
    BY <1>1, <1>7 DEF RequestsTyped, Helm!EditChart, Helm!UpgradeHelm, Helm!Edit
  <2> SUFFICES ASSUME Helm!Apart' PROVE CacheWhole' /\ \A u \in HelmThreads : OwnFile(u, threads[u])'
    BY DEF ApartIsWhole
  <2> QED
    BY <1>2, <2>1 DEF ApartIsWhole, CacheWhole, OwnFile
<1> QED
  BY <1>3, <1>4, <1>5, <1>6, <1>7 DEF Helm!Next

(* Somebody writes a file in the cache that is torn.                       *)
Mends(t, k) == threads[t].pc = "write" /\ threads[t].at = "cache" /\ threads[t].key = k

LEMMA TornMeans ==
  Helm!TornIsWritten <=>
    \A k \in Helm!Key : cache[k].there /\ ~cache[k].whole /\ ~cache[k].late => \E t \in HelmThreads : Mends(t, k)
  BY DEF Helm!TornIsWritten, Helm!At, Mends

LEMMA TornMeansNext ==
  ASSUME \A k \in Helm!Key : cache'[k].there /\ ~cache'[k].whole /\ ~cache'[k].late => \E t \in HelmThreads : Mends(t, k)'
  PROVE  Helm!TornIsWritten'
  BY DEF Helm!TornIsWritten, Helm!At, Mends

(* Who writes goes on unless it is t.                                      *)
LEMMA WritersStay ==
  ASSUME TmpIsWritten, Helm!TornIsWritten, NEW t \in HelmThreads, threads[t].pc # "write",
         UNCHANGED <<cache, tmp>>, \A u \in HelmThreads \ {t} : threads'[u] = threads[u]
  PROVE  TmpIsWritten' /\ Helm!TornIsWritten'
<1>1. TmpIsWritten'
  BY DEF TmpIsWritten, Writes
<1>2. Helm!TornIsWritten'
  BY TornMeans, TornMeansNext DEF Mends
<1> QED
  BY <1>1, <1>2

LEMMA OpenTorn ==
  ASSUME HelmSound, TmpIsWritten, Helm!TornIsWritten, NEW t \in HelmThreads, Helm!Open(t)
  PROVE  TmpIsWritten' /\ Helm!TornIsWritten'
<1> DEFINE k == threads[t].key
           f == [pc |-> "write", key |-> k, text |-> threads[t].text, at |-> "tmp"]
           torn == [threads[t].text EXCEPT !.whole = FALSE]
<1>1. ThreadsTyped /\ FilesTyped /\ Helm!Proc(t) = t[1]
  BY ThreadOf DEF HelmSound, HelmTyped
<1>2. threads[t].pc = "open" /\ k \in Helm!Key
  BY <1>1, AtKey DEF Helm!Open, Helm!At
<1>3. \A u \in HelmThreads : threads'[u] = IF u = t THEN f ELSE threads[u]
  BY <1>1, StepOf DEF Helm!Open
<1>4. cache' = cache /\ tmp' = [tmp EXCEPT ![t[1]][k] = torn]
  BY <1>1 DEF Helm!Open
<1>5. Helm!TornIsWritten'
  BY <1>2, <1>3, <1>4, TornMeans, TornMeansNext DEF Mends
<1>6. TmpIsWritten'
  <2> SUFFICES ASSUME NEW p \in HelmProcs, NEW c \in Helm!Key, tmp'[p][c].there /\ ~tmp'[p][c].whole /\ ~tmp'[p][c].late
               PROVE  \E u \in HelmThreads : Writes(u, p, c)'
    BY DEF TmpIsWritten
  <2>1. CASE p = t[1] /\ c = k
    <3>1. Writes(t, p, c)'
      BY <1>3, <2>1 DEF Writes
    <3> QED
      BY <3>1
  <2>2. CASE ~(p = t[1] /\ c = k)
    <3>1. tmp'[p][c] = tmp[p][c]
      <4> HIDE DEF k, torn
      <4> QED
        BY <1>1, <1>4, <2>2 DEF FilesTyped
    <3>2. PICK u \in HelmThreads : Writes(u, p, c)
      BY <3>1 DEF TmpIsWritten
    <3>3. Writes(u, p, c)'
      BY <1>2, <1>3, <3>2 DEF Writes
    <3> QED
      BY <3>3
  <2> QED
    BY <2>1, <2>2
<1> QED
  BY <1>5, <1>6

LEMMA WriteTorn ==
  ASSUME HelmSound, TmpIsWritten, Helm!TornIsWritten, NEW t \in HelmThreads, Helm!Write(t)
  PROVE  TmpIsWritten' /\ Helm!TornIsWritten'
<1> DEFINE k == threads[t].key
           text == threads[t].text
<1>1. ThreadsTyped /\ FilesTyped /\ Helm!Proc(t) = t[1] /\ t[1] \in HelmProcs
  BY ThreadOf DEF HelmSound, HelmTyped
<1>2. threads[t].pc = "write" /\ k \in Helm!Key /\ text.whole
  BY <1>1, AtKey DEF Helm!Write, Helm!At, HelmSound, ThreadsRight, ThreadRight, TextRight
<1>3. \A u \in HelmThreads \ {t} : threads'[u] = threads[u]
  BY <1>1, GotoKeeps DEF Helm!Write
<1>7. PICK x \in Text : Helm!Fill(t, x) /\ (x = text \/ x.late)
  BY <1>1, WriteIs
<1>4. /\ tmp' = IF threads[t].at = "tmp" THEN [tmp EXCEPT ![t[1]][k] = x] ELSE tmp
      /\ cache' = IF threads[t].at = "cache" THEN [cache EXCEPT ![k] = x] ELSE cache
  BY <1>1, <1>7 DEF Helm!Fill
<1>5. ASSUME NEW c \in Helm!Key, cache'[c].there, ~cache'[c].whole, ~cache'[c].late
      PROVE  \E u \in HelmThreads : Mends(u, c)'
  <2>1. cache'[c] = cache[c] /\ ~(threads[t].at = "cache" /\ c = k)
    <3> HIDE DEF k, text
    <3> QED
      BY <1>1, <1>2, <1>4, <1>5, <1>7 DEF FilesTyped
  <2>2. PICK u \in HelmThreads : Mends(u, c)
    BY <1>5, <2>1, TornMeans
  <2>3. u # t
    BY <2>1, <2>2 DEF Mends
  <2> QED
    BY <1>3, <2>2, <2>3 DEF Mends
<1>6. TmpIsWritten'
  <2> SUFFICES ASSUME NEW p \in HelmProcs, NEW c \in Helm!Key, tmp'[p][c].there /\ ~tmp'[p][c].whole /\ ~tmp'[p][c].late
               PROVE  \E u \in HelmThreads : Writes(u, p, c)'
    BY DEF TmpIsWritten
  <2>1. tmp'[p][c] = tmp[p][c] /\ ~(threads[t].at = "tmp" /\ p = t[1] /\ c = k)
    <3> HIDE DEF k, text
    <3>1. CASE threads[t].at = "tmp"
      BY <1>1, <1>2, <1>4, <1>7, <3>1 DEF FilesTyped
    <3>2. CASE threads[t].at # "tmp"
      BY <1>4, <3>2
    <3> QED
      BY <3>1, <3>2
  <2>2. PICK u \in HelmThreads : Writes(u, p, c)
    BY <2>1 DEF TmpIsWritten
  <2>3. u # t
    BY <2>1, <2>2 DEF Writes
  <2> QED
    BY <1>3, <2>2, <2>3 DEF Writes
<1> QED
  BY <1>5, <1>6, TornMeansNext

LEMMA RenameTorn ==
  ASSUME HelmSound, TmpIsWritten, Helm!TornIsWritten, NEW t \in HelmThreads, Helm!Rename(t),
         tmp[t[1]][threads[t].key].there
  PROVE  TmpIsWritten' /\ Helm!TornIsWritten'
<1> DEFINE k == threads[t].key
<1>1. ThreadsTyped /\ FilesTyped /\ Helm!Proc(t) = t[1] /\ t[1] \in HelmProcs
  BY ThreadOf DEF HelmSound, HelmTyped
<1>2. Helm!At(t, "rename") /\ threads[t].pc = "rename" /\ k \in Helm!Key
  BY <1>1, AtKey DEF Helm!Rename, Helm!At
<1>3. /\ cache' = [cache EXCEPT ![k] = tmp[t[1]][k]]
      /\ tmp' = [tmp EXCEPT ![t[1]][k] = Helm!NoText]
  BY <1>1 DEF Helm!Rename
<1>4. ASSUME NEW u \in HelmThreads, threads[u].pc = "write"
      PROVE  /\ u # t /\ threads'[u].pc = "write" /\ threads'[u].key = threads[u].key
             /\ threads[u].key # k => threads'[u] = threads[u]
             /\ threads[u].key = k => threads'[u].at = Helm!RenamedTo(t, u)
  <2>1. threads'[u] = RenamedThread(t, u)
    BY <1>1, RenamedThreads
  <2>2. u # t /\ (Helm!Holds(t, u) <=> threads[u].key = k)
    BY <1>2, <1>4 DEF Helm!Holds, Helm!At
  <2> QED
    BY <1>1, <1>2, <1>4, <2>1, <2>2, RenamedKeeps
<1>5. ASSUME NEW c \in Helm!Key, cache'[c].there, ~cache'[c].whole, ~cache'[c].late
      PROVE  \E u \in HelmThreads : Mends(u, c)'
  <2>1. CASE c = k
    <3>1. cache'[c] = tmp[t[1]][k]
      <4> HIDE DEF k
      <4> QED
        BY <1>1, <1>2, <1>3, <2>1 DEF FilesTyped
    <3>2. PICK u \in HelmThreads : Writes(u, t[1], k)
      BY <1>1, <1>2, <1>5, <3>1 DEF TmpIsWritten
    <3>3. Helm!RenamedTo(t, u) = "cache"
      BY <1>1, <3>2 DEF Helm!RenamedTo, Writes, Helm!Proc
    <3> QED
      BY <1>4, <2>1, <3>2, <3>3 DEF Mends, Writes
  <2>2. CASE c # k
    <3>1. cache'[c] = cache[c]
      <4> HIDE DEF k
      <4> QED
        BY <1>1, <1>3, <2>2 DEF FilesTyped
    <3>2. PICK u \in HelmThreads : Mends(u, c)
      BY <1>5, <3>1, TornMeans
    <3> QED
      BY <1>4, <2>2, <3>2 DEF Mends
  <2> QED
    BY <2>1, <2>2
<1>6. TmpIsWritten'
  <2> SUFFICES ASSUME NEW p \in HelmProcs, NEW c \in Helm!Key, tmp'[p][c].there /\ ~tmp'[p][c].whole /\ ~tmp'[p][c].late
               PROVE  \E u \in HelmThreads : Writes(u, p, c)'
    BY DEF TmpIsWritten
  <2>1. ~(p = t[1] /\ c = k) /\ tmp'[p][c] = tmp[p][c]
    <3>1. CASE p = t[1] /\ c = k
      <4>1. tmp'[p][c] = Helm!NoText
        <5> HIDE DEF k
        <5> QED
          BY <1>1, <1>3, <3>1 DEF FilesTyped
      <4> QED
        BY <4>1 DEF Helm!NoText
    <3>2. CASE ~(p = t[1] /\ c = k)
      <4>1. tmp'[p][c] = tmp[p][c]
        <5> HIDE DEF k
        <5> QED
          BY <1>1, <1>3, <3>2 DEF FilesTyped
      <4> QED
        BY <3>2, <4>1
    <3> QED
      BY <3>1, <3>2
  <2>2. PICK u \in HelmThreads : Writes(u, p, c)
    BY <2>1 DEF TmpIsWritten
  <2>3. c = k => Helm!RenamedTo(t, u) = "tmp"
    BY <1>1, <2>1, <2>2 DEF Helm!RenamedTo, Writes, Helm!Proc
  <2> QED
    BY <1>4, <2>2, <2>3 DEF Writes
<1> QED
  BY <1>5, <1>6, TornMeansNext

LEMMA NextTorn ==
  ASSUME HelmSound, TornAreWritten, [Helm!Next]_helmVars
  PROVE  TornAreWritten'
<1> SUFFICES ASSUME ~faulted' PROVE TmpIsWritten' /\ Helm!TornIsWritten'
  BY DEF TornAreWritten
<1>1. ThreadsTyped /\ HelmTyped
  BY DEF HelmSound, HelmTyped
<1>2. ASSUME ~faulted PROVE TmpIsWritten /\ Helm!TornIsWritten
  BY <1>2 DEF TornAreWritten
<1>3. CASE UNCHANGED helmVars \/ Helm!EditChart \/ Helm!UpgradeHelm
  <2>1. UNCHANGED <<cache, tmp, threads, faulted>>
    BY <1>3 DEF helmVars, Helm!EditChart, Helm!UpgradeHelm, Helm!Edit
  <2> QED
    BY <1>2, <2>1, TornMeans, TornMeansNext DEF TmpIsWritten, Writes, Mends
<1>4. ASSUME NEW t \in HelmThreads,
             \/ Helm!Begin(t) \/ Helm!Ends(t) \/ Helm!Version(t) \/ Helm!AskVersion(t)
             \/ Helm!KeepVersion(t) \/ Helm!Hash(t) \/ Helm!Lookup(t)
             \/ Helm!RunHelm(t) \/ Helm!HelmFails(t)
             \/ Helm!MakeScratch(t) \/ Helm!RenderChart(t) \/ Helm!ChartFails(t)
             \/ Helm!Collect(t)
      PROVE  TmpIsWritten' /\ Helm!TornIsWritten'
  <2>1. /\ UNCHANGED <<cache, tmp, faulted>> /\ threads[t].pc \notin {"write", "rename"}
        /\ \A u \in HelmThreads \ {t} : threads'[u] = threads[u]
    BY <1>1, <1>4, NoFileStep
  <2> QED
    BY <1>2, <2>1, WritersStay
<1>5. ASSUME NEW t \in HelmThreads, Helm!Open(t) \/ Helm!Write(t)
      PROVE  TmpIsWritten' /\ Helm!TornIsWritten'
  <2>1. faulted' = faulted
    BY <1>5 DEF Helm!Open, Helm!Write
  <2> QED
    BY <1>2, <1>5, <2>1, OpenTorn, WriteTorn
<1>6. ASSUME NEW t \in HelmThreads, Helm!Rename(t)
      PROVE  TmpIsWritten' /\ Helm!TornIsWritten'
  <2>1. faulted' = faulted /\ Helm!Proc(t) = t[1]
    BY <1>6 DEF Helm!Rename, Helm!Proc
  <2>2. CASE ~tmp[t[1]][threads[t].key].there
    <3>1. Helm!Goto(t, "answer") /\ UNCHANGED <<cache, tmp>> /\ Helm!At(t, "rename")
      BY <1>6, <2>1, <2>2 DEF Helm!Rename
    <3>2. threads[t].pc = "rename" /\ \A u \in HelmThreads \ {t} : threads'[u] = threads[u]
      BY <1>1, <3>1, GotoKeeps
    <3> QED
      BY <1>2, <2>1, <3>1, <3>2, WritersStay
  <2> QED
    BY <1>2, <1>6, <2>1, <2>2, RenameTorn
<1>7. ASSUME NEW t \in HelmThreads, Helm!WriteFails(t)
      PROVE  FALSE
  BY <1>7 DEF Helm!WriteFails
<1>8. ASSUME NEW p \in HelmProcs, Helm!Crash(p)
      PROVE  FALSE
  BY <1>8 DEF Helm!Crash
<1> QED
  BY <1>3, <1>4, <1>5, <1>6, <1>7, <1>8 DEF Helm!Next
-----------------------------------------------------------------------------
(* Steps that are about no item leave those that work on one alone.        *)
LEMMA OtherItems ==
  ASSUME HelmSound, NEW t \in HelmThreads,
         \/ Helm!Ends(t) \/ Helm!Version(t) \/ Helm!AskVersion(t) \/ Helm!KeepVersion(t)
         \/ Helm!Hash(t) \/ Helm!Lookup(t)
         \/ Helm!RunHelm(t) \/ Helm!HelmFails(t)
         \/ Helm!Open(t) \/ Helm!Write(t) \/ Helm!WriteFails(t) \/ Helm!Rename(t)
  PROVE  /\ UNCHANGED <<seq, scratch>> /\ requests'.reuse = requests.reuse
         /\ faulted => faulted'
         /\ \A u \in HelmThreads :
              AtItem(threads'[u]) => threads'[u] = threads[u] /\ Item(u)' = Item(u)
<1>1. HelmTyped /\ ThreadsTyped /\ RequestsTyped
  BY DEF HelmSound, HelmTyped
<1>2. UNCHANGED <<seq, scratch>> /\ (faulted => faulted')
  BY DEF Helm!Ends, Helm!Version, Helm!AskVersion, Helm!KeepVersion, Helm!Hash, Helm!Lookup,
         Helm!RunHelm, Helm!HelmFails, Helm!Open,
         Helm!Write, Helm!WriteFails, Helm!Rename
<1>3. requests'.reuse = requests.reuse
  BY <1>1 DEF RequestsTyped, Helm!Ends, Helm!Version, Helm!AskVersion, Helm!KeepVersion,
              Helm!Hash, Helm!Lookup, Helm!RunHelm,
              Helm!HelmFails, Helm!Open, Helm!Write, Helm!WriteFails, Helm!Rename
<1>4. \A u \in HelmThreads \ {t} : Item(u)' = Item(u)
  BY <1>1 DEF Item, RequestsTyped, Helm!Ends, Helm!Version, Helm!AskVersion,
              Helm!KeepVersion, Helm!Hash, Helm!Lookup, Helm!RunHelm,
              Helm!HelmFails, Helm!Open, Helm!Write, Helm!WriteFails, Helm!Rename
<1>5. SUFFICES /\ ~AtItem(threads'[t])
               /\ \A u \in HelmThreads \ {t} : AtItem(threads'[u]) => threads'[u] = threads[u]
  BY <1>2, <1>3, <1>4
<1>6. CASE Helm!Ends(t) \/ Helm!Version(t) \/ Helm!AskVersion(t) \/ Helm!Hash(t)
           \/ Helm!RunHelm(t) \/ Helm!Open(t)
  <2>1. PICK f : Helm!Step(t, f) /\ f.pc \in {"idle", "ask", "keep", "hash", "lookup", "open", "write"}
    BY <1>6 DEF Helm!Ends, Helm!Version, Helm!AskVersion, Helm!Hash, Helm!RunHelm, Helm!Open,
                Helm!Idle
  <2> QED
    BY <1>1, <2>1, StepOf DEF AtItem
<1>7. CASE Helm!Lookup(t)
  <2>1. PICK f : Helm!Step(t, f) /\ f.pc \in {"answer", "helm"}
    BY <1>7 DEF Helm!Lookup
  <2> QED
    BY <1>1, <2>1, StepOf DEF AtItem
<1>8. CASE Helm!KeepVersion(t) \/ Helm!HelmFails(t)
  <2>1. PICK from \in {"keep", "helm"}, to \in {"hash", "failed"} :
          /\ Helm!Goto(t, to) /\ Helm!At(t, from) /\ <<from, to>> \in {<<"keep", "hash">>, <<"helm", "failed">>}
    BY <1>8 DEF Helm!KeepVersion, Helm!HelmFails
  <2>2. PICK r \in Threading : r = threads[t] /\ r.pc = from
    BY <1>1, <2>1, AtStage
  <2>3. \A u \in HelmThreads : threads'[u] = IF u = t THEN [r EXCEPT !.pc = to] ELSE threads[u]
    BY <1>1, <2>1, <2>2, GotoTyped
  <2>4. [r EXCEPT !.pc = to].pc = to
    BY <2>1, <2>2 DEF Threading, Rendering, Templating
  <2> QED
    BY <2>3, <2>4 DEF AtItem
<1>9. CASE Helm!Write(t) \/ Helm!WriteFails(t)
  <2>1. PICK to \in {"rename", "answer"} : Helm!Goto(t, to) /\ Helm!At(t, "write")
    BY <1>9 DEF Helm!Write, Helm!WriteFails
  <2>2. threads'[t].pc = to /\ \A u \in HelmThreads \ {t} : threads'[u] = threads[u]
    BY <1>1, <2>1, GotoKeeps
  <2> QED
    BY <2>2 DEF AtItem
<1>10. CASE Helm!Rename(t)
  <2>1. Helm!At(t, "rename") /\ Helm!Proc(t) = t[1]
    BY <1>10 DEF Helm!Rename, Helm!Proc
  <2>2. CASE tmp[t[1]][threads[t].key].there
    <3>1. \A u \in HelmThreads : threads'[u] = RenamedThread(t, u)
      BY <1>10, <2>1, <2>2, RenamedThreads
    <3>2. threads'[t].pc = "answer"
      BY <1>1, <2>1, <3>1, RenamedKeeps
    <3>3. ASSUME NEW u \in HelmThreads \ {t}, AtItem(threads'[u]) PROVE threads'[u] = threads[u]
      <4>1. threads'[u].pc = threads[u].pc
        BY <1>1, <2>1, <3>1, RenamedKeeps
      <4>2. ~Helm!Holds(t, u)
        BY <3>3, <4>1 DEF Helm!Holds, Helm!At, AtItem
      <4> QED
        BY <1>1, <2>1, <3>1, <4>2, RenamedKeeps
    <3> QED
      BY <3>2, <3>3 DEF AtItem
  <2>3. CASE ~tmp[t[1]][threads[t].key].there
    <3>1. Helm!Goto(t, "answer")
      BY <1>10, <2>1, <2>3 DEF Helm!Rename
    <3>2. threads'[t].pc = "answer" /\ \A u \in HelmThreads \ {t} : threads'[u] = threads[u]
      BY <1>1, <2>1, <3>1, GotoKeeps
    <3> QED
      BY <3>2 DEF AtItem
  <2> QED
    BY <2>2, <2>3
<1> QED
  BY <1>6, <1>7, <1>8, <1>9, <1>10

LEMMA OtherOutputs ==
  ASSUME DirsApart, OutputsRight, UNCHANGED <<seq, scratch>>, requests'.reuse = requests.reuse,
         faulted => faulted',
         \A u \in HelmThreads : AtItem(threads'[u]) => threads'[u] = threads[u] /\ Item(u)' = Item(u)
  PROVE  DirsApart' /\ OutputsRight'
<1>1. DirsApart'
  <2>1. \A u \in HelmThreads : InDir(threads'[u]) => threads'[u] = threads[u]
    BY DEF InDir, AtItem
  <2> QED
    BY <2>1 DEF DirsApart, InDir
<1>2. OutputsRight'
  <2> SUFFICES ASSUME ~requests'.reuse \/ ~faulted'
               PROVE  DirsToCome' /\ \A u \in HelmThreads : OutputRight(u, threads[u])'
    BY DEF OutputsRight
  <2>1. DirsToCome /\ \A u \in HelmThreads : OutputRight(u, threads[u])
    BY DEF OutputsRight
  <2>2. ASSUME NEW u \in HelmThreads PROVE OutputRight(u, threads[u])'
    <3> SUFFICES ASSUME AtItem(threads'[u]) PROVE OutputRight(u, threads[u])'
      BY DEF OutputRight, AtItem
    <3>1. threads'[u] = threads[u] /\ Item(u)' = Item(u) /\ OutputRight(u, threads[u])
      BY <2>1
    <3>2. Did(u, threads[u])' = Did(u, threads[u])
      BY <3>1 DEF Did
    <3>3. \A i : OutputOf(Item(u), i)' = OutputOf(Item(u), i)
      BY <3>1 DEF OutputOf
    <3> QED
      BY <3>1, <3>2, <3>3 DEF OutputRight, AtItem
  <2> QED
    BY <2>1, <2>2 DEF DirsToCome
<1> QED
  BY <1>1, <1>2

LEMMA BeginOutputs ==
  ASSUME HelmSound, DirsApart, OutputsRight, NEW t \in HelmThreads, Helm!Begin(t)
  PROVE  DirsApart' /\ OutputsRight'
<1>1. ThreadsTyped /\ RequestsTyped
  BY DEF HelmSound, HelmTyped
<1>2. UNCHANGED <<requests, seq, scratch, faulted>>
  BY DEF Helm!Begin
<1> PICK q : q = Head(requests.work[t])
  OBVIOUS
<1>3. q \in Asked
  BY <1>1, HeadAsked DEF Helm!Begin
<1>4. PICK f : /\ Helm!Step(t, f) /\ f.pc \in {"version", "scratch", "failed"}
               /\ f.pc = "scratch" => f.charts = q.charts /\ f.written = {} /\ q.charts \in Seq(ChartNames)
  <2>1. CASE q \in Renders
    BY <2>1 DEF Helm!Begin, Renders
  <2>2. CASE q \in ItemsOf(Seq(ChartNames) \ {<<>>})
    BY <2>2 DEF Helm!Begin, ItemsOf
  <2>3. CASE q \in [kind : {"bad"}]
    BY <2>3 DEF Helm!Begin
  <2> QED
    BY <1>3, <2>1, <2>2, <2>3 DEF Asked
<1>5. \A u \in HelmThreads : threads'[u] = IF u = t THEN f ELSE threads[u]
  BY <1>1, <1>4, StepOf
<1>6. DirsApart'
  <2>1. \A u \in HelmThreads : InDir(threads'[u]) => threads'[u] = threads[u]
    BY <1>4, <1>5 DEF InDir
  <2> QED
    BY <2>1 DEF DirsApart, InDir
<1>7. ASSUME AtItem(threads'[t]) PROVE OutputRight(t, threads[t])'
  <2>1. f.pc = "scratch" /\ threads'[t] = f
    BY <1>4, <1>5, <1>7 DEF AtItem
  <2>2. Did(t, threads[t])' = 0
    BY <1>2, <1>4, <2>1 DEF Did, Item
  <2> QED
    BY <1>4, <2>1, <2>2 DEF OutputRight
<1>8. OutputsRight'
  <2> SUFFICES ASSUME ~requests'.reuse \/ ~faulted'
               PROVE  DirsToCome' /\ \A u \in HelmThreads : OutputRight(u, threads[u])'
    BY DEF OutputsRight
  <2>1. DirsToCome /\ \A u \in HelmThreads : OutputRight(u, threads[u])
    BY <1>2 DEF OutputsRight
  <2>2. ASSUME NEW u \in HelmThreads, u # t PROVE OutputRight(u, threads[u])'
    <3>1. threads'[u] = threads[u] /\ OutputRight(u, threads[u])
      BY <1>5, <2>1, <2>2
    <3>2. Item(u)' = Item(u)
      BY <1>2 DEF Item
    <3>3. Did(u, threads[u])' = Did(u, threads[u])
      BY <3>1, <3>2 DEF Did
    <3>4. \A i : OutputOf(Item(u), i)' = OutputOf(Item(u), i)
      BY <3>2 DEF OutputOf
    <3> QED
      BY <1>2, <3>1, <3>3, <3>4 DEF OutputRight, AtItem
  <2>3. OutputRight(t, threads[t])'
    BY <1>7 DEF OutputRight, AtItem
  <2> QED
    BY <1>2, <2>1, <2>2, <2>3 DEF DirsToCome
<1> QED
  BY <1>6, <1>8

LEMMA MakeScratchOutputs ==
  ASSUME HelmSound, DirsApart, OutputsRight, NEW t \in HelmThreads, Helm!MakeScratch(t)
  PROVE  DirsApart' /\ OutputsRight'
<1> DEFINE r == threads[t]
           f == [r EXCEPT !.pc = "chart", !.n = seq[t[1]]]
<1>1. ThreadsTyped /\ t[1] \in HelmProcs /\ Helm!Proc(t) = t[1] /\ seq \in [HelmProcs -> Nat]
  BY ThreadOf, HelmAssumption DEF HelmSound, HelmTyped, ProcsTyped
<1>2. r.pc = "scratch" /\ AtItem(r) /\ r \in Templating
  BY <1>1, AtKey DEF Helm!MakeScratch, Helm!At, AtItem
<1>3. Helm!Step(t, f) /\ seq' = [seq EXCEPT ![t[1]] = @ + 1] /\ seq[t[1]] < Dirs
  BY <1>1 DEF Helm!MakeScratch
<1>4. UNCHANGED <<requests, scratch, faulted>>
  BY DEF Helm!MakeScratch
<1>5. \A u \in HelmThreads : threads'[u] = IF u = t THEN f ELSE threads[u]
  BY <1>1, <1>3, StepOf
<1>6. f.pc = "chart" /\ f.n = seq[t[1]] /\ f.charts = r.charts /\ f.file = r.file /\ f.written = r.written
  BY <1>2 DEF Templating
<1> HIDE DEF f
<1>7. DirsApart'
  <2>1. ASSUME NEW u \in HelmThreads, u # t, u[1] = t[1], InDir(threads'[u])
        PROVE  threads'[u].n # threads'[t].n
    <3>1. threads'[u] = threads[u] /\ threads'[t].n = seq[t[1]]
      BY <1>5, <1>6, <2>1
    <3>2. threads[u].n < seq[t[1]] /\ threads[u].n \in Nat
      BY <2>1, <3>1, ItemFacts DEF InDir, AtItem, Templating
    <3> QED
      BY <1>1, <3>1, <3>2
  <2>2. \A u \in HelmThreads : u # t => threads'[u] = threads[u]
    BY <1>5
  <2> QED
    BY <2>1, <2>2 DEF DirsApart, InDir
<1>8. OutputsRight'
  <2> SUFFICES ASSUME ~requests'.reuse \/ ~faulted'
               PROVE  DirsToCome' /\ \A u \in HelmThreads : OutputRight(u, threads[u])'
    BY DEF OutputsRight
  <2>1. DirsToCome /\ \A u \in HelmThreads : OutputRight(u, threads[u])
    BY <1>4 DEF OutputsRight
  <2>2. DirsToCome'
    BY <1>1, <1>3, <1>4, <2>1 DEF DirsToCome
  <2>3. ASSUME NEW u \in HelmThreads, u # t PROVE OutputRight(u, threads[u])'
    <3>1. threads'[u] = threads[u] /\ OutputRight(u, threads[u])
      BY <1>5, <2>1, <2>3
    <3>2. Item(u)' = Item(u)
      BY <1>4 DEF Item
    <3>3. Did(u, threads[u])' = Did(u, threads[u])
      BY <3>1, <3>2 DEF Did
    <3>4. \A i : OutputOf(Item(u), i)' = OutputOf(Item(u), i)
      BY <3>2 DEF OutputOf
    <3> QED
      BY <1>4, <3>1, <3>3, <3>4 DEF OutputRight, AtItem
  <2>4. OutputRight(t, threads[t])'
    <3>1. threads'[t] = f /\ OutputRight(t, r)
      BY <1>5, <2>1
    <3>2. Item(t)' = Item(t) /\ Did(t, threads[t])' = Did(t, r)
      BY <1>4, <1>6, <3>1 DEF Item, Did
    <3>3. scratch[t[1]][seq[t[1]]] = {}
      <4>1. seq[t[1]] \in seq[t[1]] .. Dirs - 1
        BY <1>1, <1>3, HelmAssumption
      <4> QED
        BY <1>1, <2>1, <4>1 DEF DirsToCome
    <3> QED
      BY <1>2, <1>4, <1>6, <3>1, <3>2, <3>3 DEF OutputRight, AtItem, OutputOf
  <2> QED
    BY <2>2, <2>3, <2>4
<1> QED
  BY <1>7, <1>8

(* What is put into a directory of t shows in no other directory.          *)
LEMMA OtherDirs ==
  ASSUME HelmSound, DirsApart, DirsToCome, \A u \in HelmThreads : OutputRight(u, threads[u]),
         NEW t \in HelmThreads, InDir(threads[t]),
         NEW x, scratch' = [scratch EXCEPT ![t[1]][threads[t].n] = x],
         requests'.work = requests.work, UNCHANGED seq,
         \A u \in HelmThreads \ {t} : threads'[u] = threads[u]
  PROVE  /\ DirsToCome' /\ scratch'[t[1]][threads[t].n] = x
         /\ \A u \in HelmThreads \ {t} : OutputRight(u, threads[u])'
<1> DEFINE n == threads[t].n
<1>1. /\ t[1] \in HelmProcs /\ n \in 0 .. Dirs - 1 /\ n < seq[t[1]]
      /\ FilesTyped /\ seq \in [HelmProcs -> Nat] /\ Dirs \in Nat
  BY ItemFacts, HelmAssumption DEF HelmSound, HelmTyped, ProcsTyped, InDir, AtItem
<1>2. ASSUME NEW p \in HelmProcs, NEW m \in 0 .. Dirs - 1, ~(p = t[1] /\ m = n)
      PROVE  scratch'[p][m] = scratch[p][m]
  <2> HIDE DEF n
  <2>1. scratch' = [scratch EXCEPT ![t[1]][n] = x]
    BY DEF n
  <2> QED
    BY <1>1, <1>2, <2>1 DEF FilesTyped
<1>3. scratch'[t[1]][n] = x
  <2> HIDE DEF n
  <2>1. scratch' = [scratch EXCEPT ![t[1]][n] = x]
    BY DEF n
  <2> QED
    BY <1>1, <2>1 DEF FilesTyped
<1>4. DirsToCome'
  <2> SUFFICES ASSUME NEW p \in HelmProcs, NEW m \in seq[p] .. Dirs - 1 PROVE scratch'[p][m] = {}
    BY DEF DirsToCome
  <2>1. m \in 0 .. Dirs - 1 /\ ~(p = t[1] /\ m = n)
    BY <1>1
  <2> QED
    BY <1>2, <2>1 DEF DirsToCome
<1>5. ASSUME NEW u \in HelmThreads, u # t PROVE OutputRight(u, threads[u])'
  <2>1. threads'[u] = threads[u] /\ OutputRight(u, threads[u]) /\ Item(u)' = Item(u)
    BY <1>5 DEF Item
  <2>2. InDir(threads[u]) => scratch'[u[1]][threads[u].n] = scratch[u[1]][threads[u].n]
    <3> SUFFICES ASSUME InDir(threads[u])
                 PROVE  scratch'[u[1]][threads[u].n] = scratch[u[1]][threads[u].n]
      OBVIOUS
    <3>1. u[1] \in HelmProcs /\ threads[u].n \in 0 .. Dirs - 1
      BY ItemFacts DEF InDir, AtItem
    <3>2. ~(u[1] = t[1] /\ threads[u].n = n)
      BY <1>5 DEF DirsApart
    <3> QED
      BY <1>2, <3>1, <3>2
  <2>3. Did(u, threads[u])' = Did(u, threads[u])
    BY <2>1 DEF Did
  <2>4. \A i : OutputOf(Item(u), i)' = OutputOf(Item(u), i)
    BY <2>1 DEF OutputOf
  <2>5. CASE InDir(threads[u])
    BY <2>1, <2>2, <2>3, <2>4, <2>5 DEF OutputRight, AtItem
  <2>6. CASE ~InDir(threads[u])
    BY <2>1, <2>3, <2>4, <2>6 DEF OutputRight, AtItem, InDir
  <2> QED
    BY <2>5, <2>6
<1> QED
  BY <1>3, <1>4, <1>5

LEMMA ChartOutputs ==
  ASSUME HelmSound, DirsApart, OutputsRight, NEW t \in HelmThreads,
         Helm!RenderChart(t) \/ Helm!ChartFails(t)
  PROVE  DirsApart' /\ OutputsRight'
<1> DEFINE r == threads[t]
<1>1. ThreadsTyped /\ RequestsTyped /\ Helm!Proc(t) = t[1]
  BY ThreadOf DEF HelmSound, HelmTyped
<1>2. PICK to \in {"collect", "failed"} : /\ Helm!Goto(t, to) /\ Helm!At(t, "chart")
                                          /\ to = "collect" => Helm!RenderChart(t)
  BY DEF Helm!RenderChart, Helm!ChartFails
<1>3. /\ threads'[t].pc = to /\ threads'[t].charts = r.charts /\ threads'[t].file = r.file
      /\ threads'[t].n = r.n /\ threads'[t].written = r.written /\ r.pc = "chart"
      /\ \A u \in HelmThreads \ {t} : threads'[u] = threads[u]
  BY <1>1, <1>2, GotoKeeps
<1>4. /\ requests'.work = requests.work /\ requests'.reuse = requests.reuse
      /\ UNCHANGED <<seq, faulted>>
  BY <1>1 DEF RequestsTyped, Helm!RenderChart, Helm!ChartFails
<1>5. AtItem(r) /\ InDir(r)
  BY <1>3 DEF AtItem, InDir
<1>6. DirsApart'
  <2>1. \A u \in HelmThreads :
          InDir(threads'[u]) => InDir(threads[u]) /\ threads'[u].n = threads[u].n
    BY <1>3, <1>5 DEF InDir
  <2> QED
    BY <2>1 DEF DirsApart
<1>7. OutputsRight'
  <2> SUFFICES ASSUME ~requests'.reuse \/ ~faulted'
               PROVE  DirsToCome' /\ \A u \in HelmThreads : OutputRight(u, threads[u])'
    BY DEF OutputsRight
  <2>1. DirsToCome /\ \A u \in HelmThreads : OutputRight(u, threads[u])
    BY <1>4 DEF OutputsRight
  <2>2. PICK x : scratch' = [scratch EXCEPT ![t[1]][r.n] = x]
    BY <1>1 DEF Helm!RenderChart, Helm!ChartFails
  <2>3. /\ DirsToCome' /\ scratch'[t[1]][r.n] = x
        /\ \A u \in HelmThreads \ {t} : OutputRight(u, threads[u])'
    BY <1>3, <1>4, <1>5, <2>1, <2>2, OtherDirs
  <2>4. OutputRight(t, threads[t])'
    <3>1. CASE to = "failed"
      BY <1>3, <3>1 DEF OutputRight, AtItem
    <3>2. CASE to = "collect"
      <4>1. OutputRight(t, r)
        BY <2>1
      <4>2. Item(t)' = Item(t) /\ Did(t, threads[t])' = Did(t, r)
        BY <1>3, <1>4 DEF Item, Did
      <4>3. r.charts \in Seq(ChartNames) /\ r.charts # <<>>
        BY <1>3, <1>5, ItemFacts DEF Templating
      <4>4. Head(r.charts) = Item(t).charts[Did(t, r) + 1]
        <5>1. 1 \in DOMAIN r.charts /\ Head(r.charts) = r.charts[1]
          BY <4>3
        <5> QED
          BY <1>5, <5>1, ItemFacts DEF Left
      <4>5. Rendered(r) = OutputOf(Item(t), Did(t, r) + 1)
        <5>1. Did(t, r) \in Nat /\ r.file = (Item(t).file /\ Did(t, r) = 0) /\ Item(t).file \in BOOLEAN
          BY <1>5, ItemFacts
        <5>2. Did(t, r) + 1 = 1 <=> Did(t, r) = 0
          BY <5>1
        <5> QED
          BY <4>4, <5>1, <5>2 DEF Rendered, OutputOf
      <4>6. scratch'[t[1]][r.n] = {Rendered(r)}
        <5>1. scratch[t[1]][r.n] = {} /\ t[1] \in HelmProcs /\ r.n \in 0 .. Dirs - 1
          BY <1>3, <1>5, <4>1, ItemFacts DEF OutputRight
        <5>2. Helm!Over({}, {Rendered(r)}) = {Rendered(r)}
          BY DEF Helm!Over
        <5>3. scratch' = [scratch EXCEPT ![t[1]][r.n] = Helm!Over(@, {Rendered(r)})]
          BY <1>1, <1>2, <3>2 DEF Helm!RenderChart, Rendered, Helm!OutputName
        <5>4. scratch \in [HelmProcs -> [0 .. Dirs - 1 -> SUBSET Output]]
          BY DEF HelmSound, HelmTyped, FilesTyped
        <5> QED
          BY <5>1, <5>2, <5>3, <5>4
      <4>7. OutputOf(Item(t), Did(t, r) + 1)' = OutputOf(Item(t), Did(t, r) + 1)
        BY <1>3, <1>4 DEF OutputOf, Item, Did
      <4> QED
        BY <1>3, <1>5, <3>2, <4>1, <4>2, <4>5, <4>6 DEF OutputRight, AtItem, OutputOf
    <3> QED
      BY <3>1, <3>2
  <2> QED
    BY <2>3, <2>4
<1> QED
  BY <1>6, <1>7

LEMMA CollectOutputs ==
  ASSUME HelmSound, DirsApart, OutputsRight, NEW t \in HelmThreads, Helm!Collect(t)
  PROVE  DirsApart' /\ OutputsRight'
<1> DEFINE r == threads[t]
           n == Did(t, r)
           f == [r EXCEPT !.pc = IF Tail(r.charts) = <<>> THEN "done" ELSE "scratch",
                          !.charts = Tail(r.charts), !.file = Helm!FileLeft(t),
                          !.written = Helm!Over(@, scratch[t[1]][r.n])]
<1>1. ThreadsTyped /\ Helm!Proc(t) = t[1]
  BY ThreadOf DEF HelmSound, HelmTyped
<1>2. r.pc = "collect" /\ AtItem(r) /\ InDir(r)
  BY DEF Helm!Collect, Helm!At, AtItem, InDir
<1>3. /\ UNCHANGED <<requests, seq, faulted>> /\ Helm!Step(t, f)
      /\ scratch' = [scratch EXCEPT ![t[1]][r.n] = {}]
  BY <1>1 DEF Helm!Collect
<1>4. \A u \in HelmThreads : threads'[u] = IF u = t THEN f ELSE threads[u]
  BY <1>1, <1>3, StepOf
<1>5. /\ r \in Templating /\ t[1] \in HelmProcs /\ Item(t).charts \in Seq(ChartNames)
      /\ n \in Nat /\ Left(r.charts, Item(t).charts, n) /\ r.charts # <<>>
      /\ r.charts \in Seq(ChartNames)
  BY <1>2, ItemFacts DEF Templating
<1>6. /\ f.pc \in {"done", "scratch"} /\ f.charts = Tail(r.charts)
      /\ f.written = Helm!Over(r.written, scratch[t[1]][r.n])
  BY <1>5 DEF Templating
<1>7. /\ Len(Item(t).charts) - Len(Tail(r.charts)) = n + 1 /\ n + 1 \in DOMAIN Item(t).charts
  <2>1. n = Len(Item(t).charts) - Len(r.charts)
    BY DEF Did
  <2> HIDE DEF n
  <2> QED
    BY <1>5, <2>1, RestOf
<1> HIDE DEF f
<1>8. DirsApart'
  <2>1. \A u \in HelmThreads : InDir(threads'[u]) => threads'[u] = threads[u]
    BY <1>4, <1>6 DEF InDir
  <2> QED
    BY <2>1 DEF DirsApart, InDir
<1>9. OutputsRight'
  <2> SUFFICES ASSUME ~requests'.reuse \/ ~faulted'
               PROVE  DirsToCome' /\ \A u \in HelmThreads : OutputRight(u, threads[u])'
    BY DEF OutputsRight
  <2>1. DirsToCome /\ \A u \in HelmThreads : OutputRight(u, threads[u])
    BY <1>3 DEF OutputsRight
  <2>2. DirsToCome' /\ \A u \in HelmThreads \ {t} : OutputRight(u, threads[u])'
    <3>1. \A u \in HelmThreads \ {t} : threads'[u] = threads[u]
      BY <1>4
    <3> QED
      BY <1>2, <1>3, <2>1, <3>1, OtherDirs
  <2>3. f.written = {OutputOf(Item(t), i) : i \in 1 .. n + 1}
    <3> DEFINE new == OutputOf(Item(t), n + 1)
               old == {OutputOf(Item(t), i) : i \in 1 .. n}
    <3>1. f.written = Helm!Over(old, {new})
      BY <1>2, <1>6, <2>1 DEF OutputRight
    <3>2. ASSUME NEW i \in 1 .. n, OutputOf(Item(t), i).name = new.name
          PROVE  OutputOf(Item(t), i) = new
      <4>1. i \in DOMAIN Item(t).charts /\ n + 1 # 1
        BY <1>5, <1>7
      <4>2. Item(t).charts[n + 1] \in ChartNames
        BY <1>5, <1>7
      <4>3. new.name = Item(t).charts[n + 1] /\ new.name # "output_file"
        BY <4>1, <4>2 DEF OutputOf, ChartNames
      <4>4. ~(i = 1 /\ Item(t).file)
        BY <3>2, <4>3 DEF OutputOf
      <4> QED
        BY <3>2, <4>1, <4>3, <4>4 DEF OutputOf
    <3>3. Helm!Over(old, {new}) = old \cup {new}
      BY <3>2 DEF Helm!Over
    <3>4. \A i : i \in 1 .. n + 1 <=> i \in 1 .. n \/ i = n + 1
      BY <1>5
    <3>5. old \cup {new} = {OutputOf(Item(t), i) : i \in 1 .. n + 1}
      BY <3>4
    <3> QED
      BY <3>1, <3>3, <3>5
  <2>4. OutputRight(t, threads[t])'
    <3>1. threads'[t] = f /\ Item(t)' = Item(t)
      BY <1>3, <1>4 DEF Item
    <3>2. Did(t, threads[t])' = n + 1
      BY <1>6, <1>7, <3>1 DEF Did
    <3>3. \A i : OutputOf(Item(t), i)' = OutputOf(Item(t), i)
      BY <3>1 DEF OutputOf
    <3> QED
      BY <1>6, <2>3, <3>1, <3>2, <3>3 DEF OutputRight, AtItem
  <2> QED
    BY <2>2, <2>4
<1> QED
  BY <1>8, <1>9

LEMMA CrashOutputs ==
  ASSUME HelmSound, DirsApart, OutputsRight, NEW p \in HelmProcs, Helm!Crash(p)
  PROVE  DirsApart' /\ OutputsRight'
<1>1. ThreadsTyped /\ RequestsTyped /\ FilesTyped /\ seq \in [HelmProcs -> 0 .. Dirs] /\ Dirs \in Nat
  BY HelmAssumption DEF HelmSound, HelmTyped, ProcsTyped
<1>2. \A u \in HelmThreads : threads'[u] = IF u[1] = p THEN [pc |-> "idle"] ELSE threads[u]
  BY DEF Helm!Crash, Helm!Idle, Helm!Proc
<1>3. /\ requests'.work = requests.work /\ requests'.reuse = requests.reuse
      /\ faulted' /\ seq' = [seq EXCEPT ![p] = 0]
  BY <1>1 DEF RequestsTyped, Helm!Crash
<1>4. \A u \in HelmThreads : AtItem(threads'[u]) => u[1] # p /\ threads'[u] = threads[u]
  BY <1>2 DEF AtItem
<1>5. DirsApart'
  <2>1. \A u \in HelmThreads : InDir(threads'[u]) => threads'[u] = threads[u]
    BY <1>4 DEF InDir, AtItem
  <2> QED
    BY <2>1 DEF DirsApart, InDir
<1>6. OutputsRight'
  <2> SUFFICES ASSUME ~requests'.reuse
               PROVE  DirsToCome' /\ \A u \in HelmThreads : OutputRight(u, threads[u])'
    BY <1>3 DEF OutputsRight
  <2>1. DirsToCome /\ \A u \in HelmThreads : OutputRight(u, threads[u])
    BY <1>3 DEF OutputsRight
  <2>2. scratch' = [scratch EXCEPT ![p] = [n \in 0 .. Dirs - 1 |-> {}]]
    BY <1>3 DEF Helm!Crash
  <2>3. /\ \A n \in 0 .. Dirs - 1 : scratch'[p][n] = {}
        /\ \A q \in HelmProcs : q # p => scratch'[q] = scratch[q] /\ seq'[q] = seq[q]
        /\ seq'[p] = 0
    BY <1>1, <1>3, <2>2 DEF FilesTyped
  <2>4. DirsToCome'
    BY <2>1, <2>3 DEF DirsToCome
  <2>5. ASSUME NEW u \in HelmThreads, AtItem(threads'[u]) PROVE OutputRight(u, threads[u])'
    <3>1. u[1] # p /\ threads'[u] = threads[u] /\ u[1] \in HelmProcs /\ Item(u)' = Item(u)
      BY <1>1, <1>3, <1>4, <2>5, ThreadOf DEF Item
    <3>2. scratch'[u[1]] = scratch[u[1]] /\ OutputRight(u, threads[u])
      BY <2>1, <2>3, <3>1
    <3>3. Did(u, threads[u])' = Did(u, threads[u])
      BY <3>1 DEF Did
    <3>4. \A i : OutputOf(Item(u), i)' = OutputOf(Item(u), i)
      BY <3>1 DEF OutputOf
    <3> QED
      BY <3>1, <3>2, <3>3, <3>4 DEF OutputRight, AtItem
  <2> QED
    BY <2>4, <2>5 DEF OutputRight, AtItem
<1> QED
  BY <1>5, <1>6

LEMMA NextOutputs ==
  ASSUME HelmSound, DirsApart, OutputsRight, [Helm!Next]_helmVars
  PROVE  DirsApart' /\ OutputsRight'
<1>1. CASE UNCHANGED helmVars
  <2>1. UNCHANGED <<requests, seq, scratch, threads, faulted>>
    BY <1>1 DEF helmVars
  <2>2. \A u \in HelmThreads : Item(u)' = Item(u)
    BY <2>1 DEF Item
  <2> QED
    BY <2>1, <2>2, OtherOutputs
<1>2. CASE Helm!EditChart \/ Helm!UpgradeHelm
  <2>1. UNCHANGED <<seq, scratch, threads, faulted>>
    BY <1>2 DEF Helm!EditChart, Helm!UpgradeHelm, Helm!Edit
  <2>2. requests'.work = requests.work /\ requests'.reuse = requests.reuse
    BY <1>2 DEF HelmSound, HelmTyped, RequestsTyped, Helm!EditChart, Helm!UpgradeHelm, Helm!Edit
  <2>3. \A u \in HelmThreads : Item(u)' = Item(u)
    BY <2>2 DEF Item
  <2> QED
    BY <2>1, <2>2, <2>3, OtherOutputs
<1>3. ASSUME NEW p \in HelmProcs, Helm!Crash(p) PROVE DirsApart' /\ OutputsRight'
  BY <1>3, CrashOutputs
<1>4. ASSUME NEW t \in HelmThreads,
             \/ Helm!Ends(t) \/ Helm!Version(t) \/ Helm!AskVersion(t)
             \/ Helm!KeepVersion(t) \/ Helm!Hash(t) \/ Helm!Lookup(t)
             \/ Helm!RunHelm(t) \/ Helm!HelmFails(t)
             \/ Helm!Open(t) \/ Helm!Write(t) \/ Helm!WriteFails(t) \/ Helm!Rename(t)
      PROVE  DirsApart' /\ OutputsRight'
  BY <1>4, OtherItems, OtherOutputs
<1>5. ASSUME NEW t \in HelmThreads,
             \/ Helm!Begin(t) \/ Helm!MakeScratch(t) \/ Helm!RenderChart(t)
             \/ Helm!ChartFails(t) \/ Helm!Collect(t)
      PROVE  DirsApart' /\ OutputsRight'
  BY <1>5, BeginOutputs, MakeScratchOutputs, ChartOutputs, CollectOutputs
<1> QED
  BY <1>1, <1>2, <1>3, <1>4, <1>5 DEF Helm!Next
-----------------------------------------------------------------------------
LEMMA HelmStarts ==
  Helm!Init => HelmSound /\ ApartIsWhole /\ TornAreWritten /\ DirsApart /\ OutputsRight
<1> SUFFICES ASSUME Helm!Init
             PROVE  HelmSound /\ ApartIsWhole /\ TornAreWritten /\ DirsApart /\ OutputsRight
  OBVIOUS
<1>1. /\ requests \in HelmJobs /\ requests.work = requests.asked /\ RequestsTyped
  BY HelmAssumption DEF Helm!Init, RequestsTyped
<1>2. /\ \A t \in HelmThreads : threads[t] = [pc |-> "idle"]
      /\ \A k \in Helm!Key : ~cache[k].there /\ \A p \in HelmProcs : ~tmp[p][k].there
      /\ \A p \in HelmProcs : versions[p] = 0 /\ seq[p] = 0
      /\ \A p \in HelmProcs, n \in 0 .. Dirs - 1 : scratch[p][n] = {}
  BY DEF Helm!Init, Helm!Idle, Helm!NoText
<1>3. ProcsTyped
  <2>1. 0 \in 0 .. Dirs /\ 0 \in 0 .. 2
    BY HelmAssumption
  <2>2. /\ versions = [p \in HelmProcs |-> 0] /\ seq = [p \in HelmProcs |-> 0]
        /\ moved = [p \in HelmProcs |-> FALSE]
        /\ helm = 1 /\ chart = 1 /\ faulted = FALSE
    BY DEF Helm!Init
  <2>3. versions \in [HelmProcs -> 0 .. 2] /\ seq \in [HelmProcs -> 0 .. Dirs]
    BY <2>1, <2>2
  <2>4. moved \in [HelmProcs -> BOOLEAN] /\ faulted \in BOOLEAN
    BY <2>2
  <2>5. helm \in 1 .. 2 /\ chart \in 1 .. 2
    BY <2>2
  <2> QED
    BY <2>3, <2>4, <2>5 DEF ProcsTyped
<1>4. FilesTyped
  BY DEF Helm!Init, FilesTyped, Texts, Helm!NoText
<1>5. ThreadsTyped
  BY DEF Helm!Init, ThreadsTyped, Threading, Helm!Idle
<1>6. ThreadsRight
  BY <1>2 DEF ThreadsRight, ThreadRight, Doing, Goes, AtItem, Recent, TextRight
<1>7. StillAsked
  BY <1>1 DEF StillAsked
<1>8. VersionsRight /\ Helm!CacheIsTrue /\ TmpTrue
  BY <1>2 DEF VersionsRight, Helm!CacheIsTrue, TmpTrue
<1>9. ApartIsWhole
  BY <1>2 DEF ApartIsWhole, CacheWhole, OwnFile
<1>10. TornAreWritten
  BY <1>2 DEF TornAreWritten, Helm!TornIsWritten, TmpIsWritten
<1>11. DirsApart /\ OutputsRight
  BY <1>2 DEF DirsApart, InDir, OutputsRight, DirsToCome, OutputRight, AtItem
<1> QED
  BY <1>1, <1>3, <1>4, <1>5, <1>6, <1>7, <1>8, <1>9, <1>10, <1>11 DEF HelmSound, HelmTyped

LEMMA ChartsFollow ==
  HelmSound /\ ApartIsWhole /\ TornAreWritten /\ OutputsRight => ChartsAreTrue
<1> SUFFICES ASSUME HelmSound, ApartIsWhole, TornAreWritten, OutputsRight
             PROVE  ChartsAreTrue
  OBVIOUS
<1>1. Helm!AnswersAreTrue
  BY DEF HelmSound, ThreadsRight, ThreadRight, TextRight, TrueText, Helm!AnswersAreTrue, Helm!At
<1>2. Helm!Apart => Helm!AnswersAreWhole
  BY DEF ApartIsWhole, OwnFile, Helm!AnswersAreWhole, Helm!At
<1>3. Helm!RendersAreTrue
  BY <1>1, <1>2 DEF HelmSound, TornAreWritten, Helm!RendersAreTrue
<1>4. ASSUME ~requests.reuse \/ ~faulted, NEW t \in HelmThreads, Helm!At(t, "done")
      PROVE  threads[t].written = {OutputOf(Item(t), i) : i \in DOMAIN Item(t).charts}
  <2>1. AtItem(threads[t]) /\ OutputRight(t, threads[t]) /\ threads[t].pc = "done"
    BY <1>4 DEF OutputsRight, AtItem, Helm!At
  <2>2. threads[t].charts = <<>> /\ Item(t).charts \in Seq(ChartNames)
    BY <2>1, ItemFacts
  <2>3. Did(t, threads[t]) = Len(Item(t).charts)
    BY <2>2 DEF Did
  <2>4. DOMAIN Item(t).charts = 1 .. Len(Item(t).charts)
    BY <2>2
  <2> QED
    BY <2>1, <2>3, <2>4 DEF OutputRight
<1>5. Helm!ItemsWriteTheirCharts
  BY <1>4 DEF Helm!ItemsWriteTheirCharts, Helm!WritesOnlyItsCharts, OutputOf, Item
<1> QED
  BY <1>3, <1>5 DEF ChartsAreTrue

(* Every step of the cache directory is one of HelmRender or leaves it.    *)
LEMMA EitherIsHelm == [EitherNext]_<<vars, helmVars>> => [Helm!Next]_helmVars
  BY DEF EitherNext

(* A render that a component takes from the cache is what helm writes for  *)
(* the digest it is kept under, and whole unless threads of one process    *)
(* ask for the same; one that is torn is being written, as long as no      *)
(* compile was killed and no write failed; an item writes an output for    *)
(* each of its charts and nothing else, unless a killed compile's process  *)
(* id is used again (helm.rs, render and compile_input).                   *)
THEOREM ChartsStayTrue == CacheDirSpec => []ChartsAreTrue
<1> DEFINE Inv == HelmSound /\ ApartIsWhole /\ TornAreWritten /\ DirsApart /\ OutputsRight
<1>1. Starting => Inv
  BY HelmStarts DEF Starting
<1>2. Inv /\ [EitherNext]_<<vars, helmVars>> => Inv'
  BY EitherIsHelm, NextHelmSound, NextWhole, NextTorn, NextOutputs
<1>3. Inv => ChartsAreTrue
  BY ChartsFollow
<1> QED
  BY <1>1, <1>2, <1>3, PTL DEF CacheDirSpec
=============================================================================
