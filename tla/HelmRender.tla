------------------------------ MODULE HelmRender ------------------------------
(***************************************************************************)
(* Helm charts (krab-compile/src/inputs/helm.rs): the charts of a helm     *)
(* item, rendered into a scratch directory, and the renders components ask *)
(* the host for, kept in the user's cache directory under a digest of the  *)
(* helm version, the values and the chart.                                 *)
(*                                                                         *)
(* The threads of several compiles render at once.  A render is written to *)
(* a temporary file named after the digest and the process, then renamed:  *)
(* threads of one process share that file.  Compiles are killed at any     *)
(* step and start again; files are edited and helm is upgraded meanwhile.  *)
(***************************************************************************)
EXTENDS Naturals, Sequences

CONSTANTS
  Procs,    \* compile processes
  Threads,  \* their threads: <<process, number>>
  Values,   \* the values a chart is rendered with
  Dirs,     \* scratch directories a process makes at most: a bound of the model
  Jobs      \* what may be asked for, one job chosen per behaviour

(* A job: `asked` and `work`, the requests of each thread, all and those   *)
(* still to do; `reuse`, whether a compile started again gets the process id    *)
(* of the one killed; and bounds: edits of the user, crashes, and failed   *)
(* helm runs and writes.  A request is a "render" with its values, an      *)
(* "item" with its charts and whether its helm_params name an output file, *)
(* or one that is "bad".                                                   *)

VARIABLES
  job,
  helm,      \* the version of the helm binary
  chart,     \* the version of the charts' files
  versions,  \* process -> the helm version it asked for (0: not yet)
  seq,       \* process -> scratch directories handed out so far
  scratch,   \* process -> number -> the files in that scratch directory
  cache,     \* digest -> the render in place
  tmp,       \* process -> digest -> its temporary file
  run,       \* thread -> what it is doing
  moved,     \* process -> the user changed something since it started
  faulted    \* a compile was killed, or a write failed

vars == <<job, helm, chart, versions, seq, scratch, cache, tmp, run, moved, faulted>>

Proc(t) == t[1]
Key == [helm : 1 .. 2, chart : 1 .. 2, values : Values]
NoText == [there |-> FALSE]
Idle == [pc |-> "idle"]

\* What helm prints, when all of it is there; `late`: rendered after something changed.
Text(of, whole, late) == [there |-> TRUE, of |-> of, whole |-> whole, late |-> late]

Init ==
  /\ job \in Jobs
  /\ helm = 1 /\ chart = 1
  /\ versions = [p \in Procs |-> 0]
  /\ seq = [p \in Procs |-> 0]
  /\ scratch = [p \in Procs |-> [n \in 0 .. Dirs - 1 |-> {}]]
  /\ cache = [k \in Key |-> NoText]
  /\ tmp = [p \in Procs |-> [k \in Key |-> NoText]]
  /\ run = [t \in Threads |-> Idle]
  /\ moved = [p \in Procs |-> FALSE]
  /\ faulted = FALSE

At(t, pc) == run[t].pc = pc
Goto(t, pc) == run' = [run EXCEPT ![t].pc = pc]
Step(t, f) == run' = [run EXCEPT ![t] = f]
Outside == <<helm, chart, moved>>
-----------------------------------------------------------------------------
(* render: a chart for a component.                                        *)

\* The thread's next request.  helm_params krab refuses fail it at once: a "bad" request.
Begin(t) ==
  /\ At(t, "idle") /\ job.work[t] # <<>>
  /\ LET r == Head(job.work[t]) IN
     Step(t, CASE r.kind = "render" -> [pc |-> "version", values |-> r.values]
               [] r.kind = "item" ->
                    [pc |-> "scratch", charts |-> r.charts, file |-> r.file, n |-> 0, written |-> {}]
               [] r.kind = "bad" -> [pc |-> "failed"])
  /\ UNCHANGED <<job, versions, seq, scratch, cache, tmp, faulted, Outside>>

Ends(t) ==
  /\ run[t].pc \in {"answer", "failed", "done"}
  /\ Step(t, Idle)
  /\ job' = [job EXCEPT !.work[t] = Tail(@)]
  /\ UNCHANGED <<versions, seq, scratch, cache, tmp, faulted, Outside>>

\* helm_version: known to the process already, or asked of the binary ...
Version(t) ==
  /\ At(t, "version")
  /\ LET known == versions[Proc(t)] IN
     Step(t, IF known = 0 THEN [pc |-> "ask", values |-> run[t].values]
             ELSE [pc |-> "hash", values |-> run[t].values, helm |-> known])
  /\ UNCHANGED <<job, versions, seq, scratch, cache, tmp, faulted, Outside>>

\* ... outside the lock, by several threads at once ...
AskVersion(t) ==
  /\ At(t, "ask")
  /\ Step(t, [pc |-> "keep", values |-> run[t].values, helm |-> helm])
  /\ UNCHANGED <<job, versions, seq, scratch, cache, tmp, faulted, Outside>>

\* ... and kept for the process, over what another thread kept meanwhile.
KeepVersion(t) ==
  /\ At(t, "keep")
  /\ versions' = [versions EXCEPT ![Proc(t)] = run[t].helm]
  /\ Goto(t, "hash")
  /\ UNCHANGED <<job, seq, scratch, cache, tmp, faulted, Outside>>

\* A slip: the chart's files are not part of the digest.
DigestOfValues(t) == [helm |-> run[t].helm, chart |-> 1, values |-> run[t].values]

\* The digest: the version, the arguments with the values files' content, the chart's files.
Digest(t) == [helm |-> run[t].helm, chart |-> chart, values |-> run[t].values]

Hash(t) ==
  /\ At(t, "hash")
  /\ Step(t, [pc |-> "lookup", key |-> Digest(t)])
  /\ UNCHANGED <<job, versions, seq, scratch, cache, tmp, faulted, Outside>>

\* A file that can be read answers, whatever is in it.
Lookup(t) ==
  /\ At(t, "lookup")
  /\ LET k == run[t].key IN
     Step(t, IF cache[k].there
             THEN [pc |-> "answer", key |-> k, text |-> cache[k]]
             ELSE [pc |-> "helm", key |-> k])
  /\ UNCHANGED <<job, versions, seq, scratch, cache, tmp, faulted, Outside>>

\* run_helm reads the chart and the values again, with the helm there is now.
RunHelm(t) ==
  /\ At(t, "helm")
  /\ LET of == [run[t].key EXCEPT !.helm = helm, !.chart = chart] IN
     Step(t, [pc |-> "open", key |-> run[t].key, text |-> Text(of, TRUE, moved[Proc(t)])])
  /\ UNCHANGED <<job, versions, seq, scratch, cache, tmp, faulted, Outside>>

\* No helm, an error of its own, or a run longer than the timeout, which is killed.
HelmFails(t) ==
  /\ At(t, "helm") /\ job.faults > 0
  /\ job' = [job EXCEPT !.faults = @ - 1]
  /\ Goto(t, "failed")
  /\ UNCHANGED <<versions, seq, scratch, cache, tmp, faulted, Outside>>

(* Storing a render.  `at` says which name the file a thread holds open    *)
(* has: the temporary one, the final one once somebody renamed it, none    *)
(* once that one was replaced.  Errors are ignored, the text is answered.  *)

\* fs::write: open or create, which empties the file ...
Open(t) ==
  /\ At(t, "open")
  /\ tmp' = [tmp EXCEPT ![Proc(t)][run[t].key] = [run[t].text EXCEPT !.whole = FALSE]]
  /\ Step(t, [pc |-> "write", key |-> run[t].key, text |-> run[t].text, at |-> "tmp"])
  /\ UNCHANGED <<job, versions, seq, scratch, cache, faulted, Outside>>

Holds(t, u) == At(u, "write") /\ run[u].key = run[t].key

\* The file t has open, wherever it is by now.
File(t) ==
  CASE run[t].at = "tmp"   -> tmp[Proc(t)][run[t].key]
    [] run[t].at = "cache" -> cache[run[t].key]
    [] OTHER               -> NoText

Fill(t, text) ==
  /\ tmp' = IF run[t].at = "tmp" THEN [tmp EXCEPT ![Proc(t)][run[t].key] = text] ELSE tmp
  /\ cache' = IF run[t].at = "cache" THEN [cache EXCEPT ![run[t].key] = text] ELSE cache

\* Over another text that is longer, the end of that one stays behind: a mix of the two.
Mixed(text) == [text EXCEPT !.whole = FALSE, !.late = TRUE]
Covers(text, file) == file.there => ~file.whole \/ file.of = text.of
OverText(file, text) == IF Covers(text, file) THEN {text} ELSE {text, Mixed(text)}

\* ... then the text, from the start of the file that was opened.
Write(t) ==
  /\ At(t, "write") /\ Goto(t, "rename")
  /\ \E text \in OverText(File(t), run[t].text) : Fill(t, text)
  /\ UNCHANGED <<job, versions, seq, scratch, faulted, Outside>>

\* No space left: nothing is renamed.
WriteFails(t) ==
  /\ At(t, "write") /\ job.faults > 0
  /\ job' = [job EXCEPT !.faults = @ - 1]
  /\ faulted' = TRUE
  /\ Goto(t, "answer")
  /\ UNCHANGED <<versions, seq, scratch, cache, tmp, Outside>>

\* What u has open, after t renamed its temporary file onto the final name.
RenamedTo(t, u) ==
  IF run[u].at = "tmp" THEN IF Proc(u) = Proc(t) THEN "cache" ELSE "tmp"
  ELSE "none"

\* The temporary file another thread has open takes its writes along.
Rename(t) ==
  /\ At(t, "rename")
  /\ LET p == Proc(t)  k == run[t].key IN
     IF tmp[p][k].there
     THEN /\ cache' = [cache EXCEPT ![k] = tmp[p][k]]
          /\ tmp' = [tmp EXCEPT ![p][k] = NoText]
          /\ run' = [u \in Threads |->
               IF u = t THEN [run[t] EXCEPT !.pc = "answer"]
               ELSE IF Holds(t, u) THEN [run[u] EXCEPT !.at = RenamedTo(t, u)]
               ELSE run[u]]
     ELSE Goto(t, "answer") /\ UNCHANGED <<cache, tmp>>
  /\ UNCHANGED <<job, versions, seq, scratch, faulted, Outside>>
-----------------------------------------------------------------------------
(* compile_input: the charts of a helm item, one after another.            *)

\* The first chart consumes name and output_file.
FileLeft(t) == FALSE

\* A directory that is there already is taken with what it holds.
MakeScratch(t) ==
  /\ At(t, "scratch") /\ seq[Proc(t)] < Dirs
  /\ LET p == Proc(t) IN
     /\ seq' = [seq EXCEPT ![p] = @ + 1]
     /\ Step(t, [run[t] EXCEPT !.pc = "chart", !.n = seq[p]])
  /\ UNCHANGED <<job, versions, scratch, cache, tmp, faulted, Outside>>

\* helm writes its files under the chart's name, or what it prints goes to output_file.
OutputName(t) == IF run[t].file THEN "output_file" ELSE Head(run[t].charts)

\* The files of a directory, and those written over them.
Over(old, new) == {f \in old : \A g \in new : f.name # g.name} \cup new

RenderChart(t) ==
  /\ At(t, "chart")
  /\ scratch' = [scratch EXCEPT ![Proc(t)][run[t].n] =
                   Over(@, {[name |-> OutputName(t), chart |-> Head(run[t].charts)]})]
  /\ Goto(t, "collect")
  /\ UNCHANGED <<job, versions, seq, cache, tmp, faulted, Outside>>

ChartFails(t) ==
  /\ At(t, "chart") /\ job.faults > 0
  /\ job' = [job EXCEPT !.faults = @ - 1]
  /\ scratch' = [scratch EXCEPT ![Proc(t)][run[t].n] = {}]
  /\ Goto(t, "failed")
  /\ UNCHANGED <<versions, seq, cache, tmp, faulted, Outside>>

\* walk_files: every file of the directory is an output, then the directory is removed.
Collect(t) ==
  /\ At(t, "collect")
  /\ LET files == scratch[Proc(t)][run[t].n]  rest == Tail(run[t].charts) IN
     Step(t, [run[t] EXCEPT !.pc = IF rest = <<>> THEN "done" ELSE "scratch", !.charts = rest,
                            !.file = FileLeft(t), !.written = Over(@, files)])
  /\ scratch' = [scratch EXCEPT ![Proc(t)][run[t].n] = {}]
  /\ UNCHANGED <<job, versions, seq, cache, tmp, faulted, Outside>>
-----------------------------------------------------------------------------
(* What happens around the compiles.                                       *)

Busy(p) == versions[p] # 0 \/ \E t \in Threads : Proc(t) = p /\ run[t] # Idle

\* A compile is killed and started again.  Under another process id it finds neither
\* its temporary files nor its scratch directories.
Crash(p) ==
  /\ Busy(p) /\ job.crashes > 0
  /\ job' = [job EXCEPT !.crashes = @ - 1]
  /\ run' = [t \in Threads |-> IF Proc(t) = p THEN Idle ELSE run[t]]
  /\ versions' = [versions EXCEPT ![p] = 0] /\ seq' = [seq EXCEPT ![p] = 0]
  /\ moved' = [moved EXCEPT ![p] = FALSE]
  /\ faulted' = TRUE
  /\ IF job.reuse THEN UNCHANGED <<scratch, tmp>>
     ELSE /\ scratch' = [scratch EXCEPT ![p] = [n \in 0 .. Dirs - 1 |-> {}]]
          /\ tmp' = [tmp EXCEPT ![p] = [k \in Key |-> NoText]]
  /\ UNCHANGED <<helm, chart, cache>>

Edit ==
  /\ job.edits > 0 /\ job' = [job EXCEPT !.edits = @ - 1]
  /\ moved' = [p \in Procs |-> moved[p] \/ Busy(p)]
  /\ UNCHANGED <<versions, seq, scratch, cache, tmp, run, faulted>>

EditChart == Edit /\ chart' = 3 - chart /\ UNCHANGED helm
UpgradeHelm == Edit /\ helm' = 3 - helm /\ UNCHANGED chart

Next ==
  \/ \E t \in Threads :
       \/ Begin(t) \/ Ends(t) \/ Version(t) \/ AskVersion(t) \/ KeepVersion(t) \/ Hash(t)
       \/ Lookup(t) \/ RunHelm(t) \/ HelmFails(t) \/ Open(t) \/ Write(t) \/ WriteFails(t) \/ Rename(t)
       \/ MakeScratch(t) \/ RenderChart(t) \/ ChartFails(t) \/ Collect(t)
  \/ \E p \in Procs : Crash(p)
  \/ EditChart \/ UpgradeHelm

Spec == Init /\ [][Next]_vars
-----------------------------------------------------------------------------
\* Nothing changed while it was made, or it is what helm prints for its digest.
CacheIsTrue == \A k \in Key : cache[k].there => cache[k].late \/ cache[k].of = k
AnswersAreTrue ==
  \A t \in Threads : At(t, "answer") => run[t].text.late \/ run[t].text.of = run[t].key

\* A torn render is still being written, or is of two texts: one of them late.
TornIsWritten ==
  \A k \in Key : cache[k].there /\ ~cache[k].whole /\ ~cache[k].late =>
    \E t \in Threads : At(t, "write") /\ run[t].at = "cache" /\ run[t].key = k

(* A component gets all of what helm printed, whoever else renders.        *)
AnswersAreWhole == \A t \in Threads : At(t, "answer") => run[t].text.whole

\* No two threads of one process ask for the same render.
Apart ==
  \A t, u \in Threads : t # u /\ Proc(t) = Proc(u) =>
    \A i \in DOMAIN job.asked[t], j \in DOMAIN job.asked[u] :
      job.asked[t][i].kind = "render" => job.asked[t][i] # job.asked[u][j]

(* What is kept and what components get is what helm prints for the digest *)
(* it is kept under, unless something changed while it was made.  It is    *)
(* all of it when the threads of a process render different things; and,   *)
(* when no write fails, no compile is killed and nothing changed while it  *)
(* was made, but for the moment it is written (OUT-15).                    *)
RendersAreTrue ==
  /\ CacheIsTrue /\ AnswersAreTrue
  /\ Apart => AnswersAreWhole
  /\ ~faulted => TornIsWritten

(* A helm item writes one output for each of its charts, the first one's   *)
(* under output_file, and nothing else, whoever else renders (OUT-20,      *)
(* OUT-21).                                                                *)
WritesOnlyItsCharts ==
  \A t \in Threads : At(t, "done") =>
    LET r == Head(job.work[t]) IN
    run[t].written =
      {[name |-> IF i = 1 /\ r.file THEN "output_file" ELSE r.charts[i], chart |-> r.charts[i]]
         : i \in DOMAIN r.charts}

(* That, after a compile was killed, as long as its process id is not used *)
(* again.                                                                  *)
ItemsWriteTheirCharts == ~job.reuse \/ ~faulted => WritesOnlyItsCharts
=============================================================================
