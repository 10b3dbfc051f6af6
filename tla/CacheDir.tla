------------------------------- MODULE CacheDir -------------------------------
(***************************************************************************)
(* The user's cache directory: the environments, probe results and script  *)
(* of Interpreters and the renders of HelmRender.  They share no file, so  *)
(* a behaviour is about one of them, and the other stays as it started.    *)
(***************************************************************************)
EXTENDS Interpreters

CONSTANTS
  HelmProcs, HelmThreads, HelmJobs,  \* compiles that render, their threads, what they are asked
  Values, Dirs,                      \* see HelmRender
  Quiet,                             \* a job in which nobody looks for a Python
  NoRequests                         \* a job in which nothing is rendered

VARIABLES
  requests, helm, chart, versions, seq, scratch, cache, tmp, threads, moved, faulted

helmVars == <<requests, helm, chart, versions, seq, scratch, cache, tmp, threads, moved, faulted>>

Helm ==
  INSTANCE HelmRender WITH Procs <- HelmProcs, Threads <- HelmThreads,
    Jobs <- HelmJobs, job <- requests, run <- threads

(* Helm writes its files under the chart's name, so a chart named like the *)
(* output file of an item would write over it.                             *)
Renders == [kind : {"render"}, values : Values]
ItemsOf(charts) == [kind : {"item"}, charts : charts, file : BOOLEAN]
ChartNames == STRING \ {"output_file"}
Asked == Renders \cup ItemsOf(Seq(ChartNames) \ {<<>>}) \cup [kind : {"bad"}]

ASSUME HelmAssumption ==
  /\ HelmThreads \subseteq HelmProcs \X Nat /\ Dirs \in Nat
  /\ \A j \in HelmJobs : j.work = j.asked
  /\ HelmJobs \subseteq
       [asked : [HelmThreads -> Seq(Asked)], work : [HelmThreads -> Seq(Asked)],
        reuse : BOOLEAN, edits : Nat, crashes : Nat, faults : Nat]

Starting == Init /\ Helm!Init /\ (job = Quiet) # (requests = NoRequests)
EitherNext == \/ Next /\ UNCHANGED helmVars
              \/ Helm!Next /\ UNCHANGED vars
CacheDirSpec == Starting /\ [][EitherNext]_<<vars, helmVars>>

\* A render that a component takes from the cache is what helm writes for its chart
\* and values, and an item writes the renders of its charts and nothing else.
ChartsAreTrue == Helm!RendersAreTrue /\ Helm!ItemsWriteTheirCharts

\* Violated, see HelmRender: a render in the cache is whole, and an item writes
\* only into directories it made.
AnswersAreWhole == Helm!AnswersAreWhole
WritesOnlyItsCharts == Helm!WritesOnlyItsCharts
=============================================================================
