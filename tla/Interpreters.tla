----------------------------- MODULE Interpreters -----------------------------
(***************************************************************************)
(* How a compile finds the Python it runs components in, and what several  *)
(* compiles share on the way: the environments krab builds, the file of    *)
(* probe results and the worker's script, all in the user's cache          *)
(* directory (krab-compile/src/pyenv.rs, python.rs, inputs/kadet.rs and    *)
(* krab-inventory/src/python.rs).                                          *)
(*                                                                         *)
(* Compiles start at any time, are killed at any step and start again,     *)
(* while the user edits the requirements, upgrades Python and installs     *)
(* packages.  No lock is taken anywhere: an environment is built aside and *)
(* renamed, the probe file is read, changed and written back whole.        *)
(***************************************************************************)
EXTENDS Naturals, Sequences, SequencesExt, FiniteSets

CONSTANTS
  Procs,    \* compile processes
  Users,    \* interpreters of the user: a venv, a PEX
  Jobs      \* what may be set up, one job chosen per behaviour

(* A job: `needs` of each process ("kadet" or "kapitan"), `explicit`, the  *)
(* command given by --python or KRAB_PYTHON (<<>> or one interpreter),     *)
(* `venvs` and `pex`, the interpreters found around the project and on     *)
(* PATH, and bounds: runs of each process, edits of the user, crashes.     *)

System == "python3"
Names == Users \cup {System}
Backends == {"kadet", "kapitan"}

Setups ==
  [needs : [Procs -> Backends], explicit : Seq(Names), venvs : Seq(Names), pex : Seq(Names),
   pythons : [Names -> [stamp : {1}, kadet : 0 .. 2, kapitan : 0 .. 2]],
   runs : [Procs -> Nat], edits : Nat, crashes : Nat]

ASSUME JobsAssumption == Jobs \subseteq Setups

VARIABLES
  job,
  base,      \* python3 on PATH: its version, which is also its file's stamp
  reqs,      \* the requirements: which version of the list or file
  pythons,   \* interpreter -> stamp of its file, kadet's and kapitan's versions (0: not there)
  builds,    \* process -> the environment it is building, aside
  envs,      \* digest -> the environment in place
  probes,    \* python-probe.json: its entries, or that it is being written
  script,    \* the worker's script: absent, part or whole
  run,       \* process -> where its compile is
  unnoticed, \* a package changed in an interpreter whose file did not, or an interpreter
             \* changed after a compile asked its versions and before it noted them down
  outdated   \* an interpreter lost what a compile had just found in it

history == <<unnoticed, outdated>>
vars == <<job, base, reqs, pythons, builds, envs, probes, script, run, history>>

NoEnv == [there |-> FALSE]

\* An environment before pip is done: the Python it is made from, and no package.
Venv(b) == [there |-> TRUE, base |-> b, reqs |-> 1, whole |-> FALSE, marked |-> FALSE,
            moved |-> FALSE]

\* The interpreters a command can name: the user's, the system's, those in krab's environments.
EnvPython(key) == <<"env", key>>
Python(name) == <<"user", name>>

Digest == [base : 1 .. 2, reqs : 1 .. 2]

\* What running `c` finds there now.
Installed(c) ==
  IF c[1] = "user" THEN pythons[c[2]]
  ELSE LET e == envs[c[2]] IN
       [stamp   |-> IF e.there THEN e.base ELSE 0,
        kadet   |-> IF e.there /\ e.whole THEN 1 ELSE 0,
        kapitan |-> 0]

Works(c, needs) == Installed(c)[needs] > 0
-----------------------------------------------------------------------------
(* The order interpreters are tried in.                                    *)

\* The command named explicitly first; a venv once; a PEX; python3 last.
Once(first, more) ==
  FoldLeft(LAMBDA cs, c : IF Contains(cs, c) THEN cs ELSE Append(cs, c), first, more)

ASSUME CandidatesAssumption == \A j \in Jobs : Once(j.explicit, j.venvs) \in Seq(Names)

Candidates == Once(job.explicit, job.venvs) \o job.pex \o <<System>>

\* What process p tries, when it needs no environment of krab's.
Tried(p) ==
  IF job.needs[p] = "kadet" THEN job.explicit ELSE Candidates

Managed(p) == job.needs[p] = "kadet" /\ job.explicit = <<>>
-----------------------------------------------------------------------------
Init ==
  /\ job \in Jobs
  /\ base = 1 /\ reqs = 1
  /\ pythons = job.pythons
  /\ builds = [p \in Procs |-> NoEnv]
  /\ envs = [k \in Digest |-> NoEnv]
  /\ probes = [whole |-> TRUE, known |-> {}]
  /\ script = "absent"
  /\ run = [p \in Procs |-> [pc |-> "idle"]]
  /\ unnoticed = FALSE /\ outdated = FALSE

At(p, pc) == run[p].pc = pc
Goto(p, pc) == run' = [run EXCEPT ![p].pc = pc]
Step(p, f) == run' = [run EXCEPT ![p] = f]

\* A run: where it is, the digest of the environment it wants, the candidates left, the
\* interpreter in hand, what it knows of it, the entries it will write, where it goes on after.
Fresh(p) == [pc |-> "detect", key |-> [base |-> 1, reqs |-> 1], rest |-> Tried(p),
             python |-> Python(System), versions |-> 0, entries |-> {}, then |-> "probe",
             moved |-> FALSE]

Begin(p) ==
  /\ At(p, "idle") /\ job.runs[p] > 0
  /\ job' = [job EXCEPT !.runs[p] = @ - 1]
  /\ Step(p, Fresh(p))
  /\ UNCHANGED <<base, reqs, pythons, builds, envs, probes, script, history>>

Fails(p) == Step(p, [pc |-> "idle"])

\* Go to an interpreter and ask the probe file about it.
Try(p, c) == Step(p, [run[p] EXCEPT !.pc = "cached", !.python = c, !.then = "probe"])
-----------------------------------------------------------------------------
(* PythonEnv::ensure.                                                      *)

\* The digest: the base interpreter and the requirements, read now.
Key == [base |-> base, reqs |-> reqs]

Detect(p) ==
  /\ At(p, "detect")
  /\ IF Managed(p)
     THEN Step(p, [run[p] EXCEPT !.pc = "look", !.key = Key])
     ELSE IF run[p].rest = <<>> THEN Fails(p)
     ELSE Step(p, [run[p] EXCEPT !.pc = "cached", !.python = Python(Head(run[p].rest)),
                                 !.rest = Tail(@), !.then = "probe"])
  /\ UNCHANGED <<job, base, reqs, pythons, builds, envs, probes, script, history>>

Complete(key) == envs[key].there /\ envs[key].marked

\* A slip: everybody builds in the same place.
BuildShared(p) == CHOOSE q \in Procs : TRUE

\* Where p builds: a sibling of the final directory, named after its process id.
Build(p) == p

\* The marker counts, nothing else; else what an earlier run left of the build goes.
Look(p) ==
  /\ At(p, "look")
  /\ IF Complete(run[p].key)
     THEN Try(p, EnvPython(run[p].key)) /\ UNCHANGED builds
     ELSE Goto(p, "venv") /\ builds' = [builds EXCEPT ![Build(p)] = NoEnv]
  /\ UNCHANGED <<job, base, reqs, pythons, envs, probes, script, history>>

\* populate: the venv first, from the base interpreter as it is now ...
MakeVenv(p) ==
  /\ At(p, "venv") /\ Goto(p, "install")
  /\ builds' = [builds EXCEPT ![Build(p)] = Venv(base)]
  /\ UNCHANGED <<job, base, reqs, pythons, envs, probes, script, history>>

\* ... then the packages, from the requirements as they are now.
Install(p) ==
  /\ At(p, "install") /\ builds[Build(p)].there
  /\ builds' = [builds EXCEPT ![Build(p)] = [@ EXCEPT !.reqs = reqs, !.whole = TRUE]]
  /\ Goto(p, "mark")
  /\ UNCHANGED <<job, base, reqs, pythons, envs, probes, script, history>>

\* No network, no python3-venv, or a build that is gone.
BuildFails(p) ==
  /\ run[p].pc \in {"venv", "install"}
  /\ builds' = [builds EXCEPT ![Build(p)] = NoEnv]
  /\ Fails(p)
  /\ UNCHANGED <<job, base, reqs, pythons, envs, probes, script, history>>

Mark(p) ==
  /\ At(p, "mark")
  /\ IF builds[Build(p)].there
     THEN builds' = [builds EXCEPT ![Build(p)].marked = TRUE] /\ Goto(p, "rename")
     ELSE Fails(p) /\ UNCHANGED builds
  /\ UNCHANGED <<job, base, reqs, pythons, envs, probes, script, history>>

\* A directory is renamed onto another only when that one is not there; who comes
\* second uses the environment of who came first.
Rename(p) ==
  /\ At(p, "rename")
  /\ LET key == run[p].key  b == builds[Build(p)] IN
     CASE b.there /\ ~envs[key].there ->
            /\ envs' = [envs EXCEPT ![key] = [b EXCEPT !.moved = run[p].moved]]
            /\ builds' = [builds EXCEPT ![Build(p)] = NoEnv]
            /\ Try(p, EnvPython(key))
       [] ~(b.there /\ ~envs[key].there) /\ Complete(key) ->
            /\ builds' = [builds EXCEPT ![Build(p)] = NoEnv]
            /\ Try(p, EnvPython(key))
            /\ UNCHANGED envs
       [] OTHER -> Fails(p) /\ UNCHANGED <<envs, builds>>
  /\ UNCHANGED <<job, base, reqs, pythons, probes, script, history>>
-----------------------------------------------------------------------------
(* Probing, and the file of what is known.                                 *)

\* A slip: an entry outlives the interpreter's file.
StampOfNothing(c) == 1

\* An entry is about an interpreter as its file is now, and a need.
Stamp(c) == Installed(c).stamp

\* A slip: what was asked of the interpreter is not part of the key.
AboutAny(p) == [needs |-> "kadet", python |-> run[p].python, stamp |-> Stamp(run[p].python)]

About(p) == [needs |-> job.needs[p], python |-> run[p].python, stamp |-> Stamp(run[p].python)]
Knows(p, entries) == \E e \in entries : e.about = About(p)
Known(p, entries) == (CHOOSE e \in entries : e.about = About(p)).versions

\* A file being written is no JSON, and an absent file knows nothing.
ReadProbes == IF probes.whole THEN probes.known ELSE {}

\* cached: the file answers for the probe, or for the versions; else Python is started.
Cached(p) ==
  /\ At(p, "cached")
  /\ IF Knows(p, ReadProbes)
     THEN IF run[p].then = "probe"
          THEN Step(p, [run[p] EXCEPT !.pc = "cached", !.then = "versions"])
          ELSE Step(p, [run[p] EXCEPT !.pc = "script", !.versions = Known(p, ReadProbes)])
     ELSE Goto(p, run[p].then)
  /\ UNCHANGED <<job, base, reqs, pythons, builds, envs, probes, script, history>>

\* probe: import what is needed.  A candidate that cannot is passed over; an
\* environment of krab's that cannot ends the search.
Probe(p) ==
  /\ At(p, "probe")
  /\ CASE Works(run[p].python, job.needs[p]) -> Goto(p, "versions")
       [] ~Works(run[p].python, job.needs[p]) /\ Managed(p) -> Fails(p)
       [] OTHER -> Goto(p, "detect")
  /\ UNCHANGED <<job, base, reqs, pythons, builds, envs, probes, script, history>>

\* versions_uncached: ask Python itself.  One without kadet still answers ("unknown", 0
\* here), one without kapitan does not: a candidate is passed over, and a compile that
\* had settled on it goes on without a version (engine.rs:232).
Answers(p) == job.needs[p] = "kadet" \/ Works(run[p].python, "kapitan")

Versions(p) ==
  /\ At(p, "versions")
  /\ CASE Answers(p) ->
            Step(p, [run[p] EXCEPT !.pc = "read",
                                   !.versions = Installed(run[p].python)[job.needs[p]]])
       [] ~Answers(p) /\ run[p].then = "probe" -> Goto(p, "detect")
       [] OTHER -> Step(p, [run[p] EXCEPT !.pc = "script", !.versions = 0])
  /\ UNCHANGED <<job, base, reqs, pythons, builds, envs, probes, script, history>>

\* remember: read the file, put the entry in, and write all of it: open, which empties
\* the file, then the text.
ReadAll(p) ==
  /\ At(p, "read")
  /\ Step(p, [run[p] EXCEPT !.pc = "open", !.entries =
       {e \in ReadProbes : e.about # About(p)}
       \cup {[about |-> About(p), versions |-> run[p].versions]}])
  /\ UNCHANGED <<job, base, reqs, pythons, builds, envs, probes, script, history>>

Open(p) ==
  /\ At(p, "open") /\ Goto(p, "write")
  /\ probes' = [whole |-> FALSE, known |-> {}]
  /\ UNCHANGED <<job, base, reqs, pythons, builds, envs, script, history>>

\* Over the text of another process that is longer, the end of that text stays behind.
Write(p) ==
  /\ At(p, "write")
  /\ \E whole \in IF probes.whole THEN BOOLEAN ELSE {TRUE} :
       probes' = [whole |-> whole, known |-> IF whole THEN run[p].entries ELSE {}]
  /\ Step(p, IF run[p].then = "probe"
             THEN [run[p] EXCEPT !.pc = "cached", !.then = "versions", !.entries = {}]
             ELSE [run[p] EXCEPT !.pc = "script", !.entries = {}])
  /\ UNCHANGED <<job, base, reqs, pythons, builds, envs, script, history>>
-----------------------------------------------------------------------------
(* The worker's script, written once for every build of krab.              *)

\* A script that exists is taken as it is.
FindScript(p) ==
  /\ At(p, "script")
  /\ IF script = "absent"
     THEN Goto(p, "fill") /\ script' = "part"
     ELSE Goto(p, "start") /\ UNCHANGED script
  /\ UNCHANGED <<job, base, reqs, pythons, builds, envs, probes, history>>

FillScript(p) ==
  /\ At(p, "fill") /\ Goto(p, "start")
  /\ script' = "whole"
  /\ UNCHANGED <<job, base, reqs, pythons, builds, envs, probes, history>>

\* The interpreter is started on the script as it is now; the compile goes on elsewhere.
Start(p) ==
  /\ At(p, "start")
  /\ Fails(p)
  /\ UNCHANGED <<job, base, reqs, pythons, builds, envs, probes, script, history>>
-----------------------------------------------------------------------------
(* What happens around the compiles.                                       *)

\* A compile is killed: what it left in the cache directory stays.
Crash(p) ==
  /\ ~At(p, "idle") /\ job.crashes > 0
  /\ job' = [job EXCEPT !.crashes = @ - 1]
  /\ Fails(p)
  /\ UNCHANGED <<base, reqs, pythons, builds, envs, probes, script, history>>

\* Every compile that is running has seen the world move under it.
Edit ==
  /\ job.edits > 0 /\ job' = [job EXCEPT !.edits = @ - 1]
  /\ run' = [p \in Procs |-> IF At(p, "idle") THEN run[p] ELSE [run[p] EXCEPT !.moved = TRUE]]
  /\ UNCHANGED <<builds, envs, probes, script>>

EditRequirements ==
  /\ Edit /\ reqs' = 3 - reqs
  /\ UNCHANGED <<base, pythons, history>>

\* A compile that has found what it needs in its interpreter, and is not done with its
\* versions.
Asking(p) ==
  \/ run[p].pc \in {"versions", "read", "open", "write"}
  \/ At(p, "cached") /\ run[p].then = "versions"

\* Another python3: its file and what is installed with it change.
UpgradePython ==
  /\ Edit /\ base = 1 /\ base' = 2
  /\ pythons' = [pythons EXCEPT ![System] = [stamp |-> 2, kadet |-> 0, kapitan |-> 2]]
  /\ LET with == {p \in Procs : Asking(p) /\ run[p].python = Python(System)} IN
     /\ unnoticed' = (unnoticed \/ \E p \in with : At(p, "read"))
     /\ outdated' = (outdated \/ \E p \in with : pythons'[System][job.needs[p]] = 0)
  /\ UNCHANGED reqs

\* pip install, upgrade or uninstall: the interpreter's file stays what it was.
ChangePackage ==
  /\ Edit
  /\ \E u \in Users, needs \in Backends, v \in 0 .. 2 :
       pythons' = [pythons EXCEPT ![u][needs] = v]
  /\ unnoticed' = TRUE
  /\ UNCHANGED <<base, reqs, outdated>>

Next ==
  \/ \E p \in Procs :
       \/ Begin(p) \/ Detect(p) \/ Look(p) \/ MakeVenv(p) \/ Install(p) \/ BuildFails(p)
       \/ Mark(p) \/ Rename(p) \/ Cached(p) \/ Probe(p) \/ Versions(p) \/ ReadAll(p)
       \/ Open(p) \/ Write(p) \/ FindScript(p) \/ FillScript(p) \/ Start(p) \/ Crash(p)
  \/ EditRequirements \/ UpgradePython \/ ChangePackage

Spec == Init /\ [][Next]_vars
-----------------------------------------------------------------------------
Active == {p \in Procs : ~At(p, "idle")}
PCs == {"detect", "look", "venv", "install", "mark", "rename", "cached", "probe",
        "versions", "read", "open", "write", "script", "fill", "start"}

(* Every variable has its type; what is written about an interpreter is    *)
(* about one that can be named.                                            *)
TypeOK ==
  /\ {base, reqs} \subseteq 1 .. 2 /\ {unnoticed, outdated} \subseteq BOOLEAN
  /\ \A p \in Active : run[p].pc \in PCs /\ run[p].versions \in 0 .. 2 /\ run[p].moved \in BOOLEAN
  /\ probes.known = {} \/ probes.whole
  /\ script \in {"absent", "part", "whole"}

(* An environment in place is complete, whoever built it and whoever was   *)
(* killed building, and holds what its digest says unless the requirements *)
(* or Python changed during the build (CMP-43, CMP-EC-5).                  *)
EnvironmentsAreExact ==
  \A key \in Digest : envs[key].there =>
    LET e == envs[key] IN
    /\ e.whole /\ e.marked
    /\ e.moved \/ (e.base = key.base /\ e.reqs = key.reqs)

\* An entry, in the file or about to be written, is true of the interpreter it is about.
True(e) ==
  LET c == e.about.python IN
  Stamp(c) = e.about.stamp => Installed(c)[e.about.needs] = e.versions

(* While packages change only with their interpreter's file, and not as it *)
(* is being asked, nothing false is remembered of an interpreter: compiles *)
(* that write the file at once, or die writing it, lose entries and        *)
(* falsify none (CMP-46).                                                  *)
RememberedIsTrue ==
  ~unnoticed =>
    \A e \in ReadProbes \cup UNION {run[p].entries : p \in Active} : True(e)

(* The interpreter a compile settles on can do what it is needed for, no   *)
(* candidate before it could, in the order of PythonCmd::candidates, and   *)
(* the versions in the engine identity are the ones installed, unless      *)
(* something moved meanwhile, a package changed behind its interpreter's   *)
(* file, or an upgrade took away what a compile had just found (CMP-42).   *)
ChoiceIsRight ==
  \A p \in Active :
    run[p].pc \in {"script", "fill", "start"} /\ ~run[p].moved /\ ~unnoticed /\ ~outdated =>
      /\ Works(run[p].python, job.needs[p])
      /\ run[p].versions = Installed(run[p].python)[job.needs[p]]
      /\ ~Managed(p) =>
           LET before == Len(Tried(p)) - Len(run[p].rest) - 1 IN
           \A i \in 1 .. before : ~Works(Python(Tried(p)[i]), job.needs[p])

(* A compile that was told which Python to use for kadet and finds that it *)
(* cannot import it fails; it runs no other, nor that one (CMP-42,         *)
(* docs/specs/compile.md).  An upgrade in between makes it do so.          *)
ChosenPythonWorks ==
  \A p \in Active :
    run[p].pc = "start" /\ ~run[p].moved /\ ~unnoticed => Works(run[p].python, job.needs[p])

(* The Python backend runs the interpreter it was told to use, a kapitan   *)
(* PEX on PATH or python3, and never a virtual environment it came across  *)
(* (CMP-45, docs/specs/compile.md).                                        *)
RunsDocumentedPython ==
  \A p \in Active :
    run[p].pc = "start" /\ job.needs[p] = "kapitan" =>
      \E c \in ToSet(job.explicit \o job.pex) \cup {System} : run[p].python = Python(c)

(* The versions in the engine identity are those of the Python that will   *)
(* run the components (CMP-33, docs/specs/compile.md).                     *)
EngineIsCurrent ==
  \A p \in Active :
    run[p].pc = "start" /\ ~run[p].moved =>
      run[p].versions = Installed(run[p].python)[job.needs[p]]

(* The evaluator runs this build's script, all of it (CMP-33).             *)
ScriptIsWhole == \A p \in Active : run[p].pc = "start" => script = "whole"
=============================================================================
