------------------------------ MODULE MCCacheDir ------------------------------
(* Compiles that build and search, or that render; see MCInterpreters.     *)
EXTENDS MCInterpreters, CacheDir

MCHelmProcs == {"p", "q"}
MCThreads == {<<"p", 1>>, <<"p", 2>>, <<"q", 1>>}

Render(v) == [kind |-> "render", values |-> v]
Item(charts, file) == [kind |-> "item", charts |-> charts, file |-> file]
Request(p1, p2, q1, reuse, edits, crashes, faults) ==
  LET w == <<"p", 1>> :> p1 @@ <<"p", 2>> :> p2 @@ <<"q", 1>> :> q1 IN
  [asked |-> w, work |-> w, reuse |-> reuse, edits |-> edits, crashes |-> crashes,
   faults |-> faults]

\* Nothing is rendered, nothing happens.
MCIdle == Request(<<>>, <<>>, <<>>, FALSE, 0, 0, 0)

\* The same chart and values in two threads of one process, and in another.
Together == Request(<<Render(1)>>, <<Render(1)>>, <<Render(1)>>, FALSE, 0, 1, 1)

\* Two threads of one process, and helm or the chart changes between them.
Between == Request(<<Render(1)>>, <<Render(1)>>, <<>>, FALSE, 1, 0, 1)

\* Different values in each thread, and a compile that is killed.
Different == Request(<<Render(1)>>, <<Render(2)>>, <<>>, TRUE, 1, 1, 0)

\* Two compiles; what was rendered before an edit, and what is asked for after it.
Twice == Request(<<Render(1)>>, <<>>, <<Render(1), Render(1)>>, FALSE, 2, 0, 0)

\* Items of two charts with an output file, beside another and a refused one.
Items == Request(<<Item(<<"a", "b">>, TRUE)>>, <<Item(<<"b">>, FALSE)>>,
                 <<[kind |-> "bad"]>>, FALSE, 0, 1, 1)

\* The process id of a killed compile is used again, as in containers.
Again == Request(<<Item(<<"a">>, FALSE)>>, <<Item(<<"b">>, FALSE)>>, <<>>, TRUE, 0, 1, 0)

MCHelmJobs == {MCIdle, Together, Between, Different, Twice, Items, Again}
MCValues == 1 .. 2
MCDirs == 4

\* No compile looks for a Python.
MCQuiet == [Search EXCEPT !.runs = Each(0), !.edits = 0]
MCQuietJobs == MCJobs \cup {MCQuiet}
=============================================================================
