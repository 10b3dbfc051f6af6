------------------------------ MODULE WorkerPool ------------------------------
(***************************************************************************)
(* The Python workers that run the functions of a repository's            *)
(* `resolvers.py` (krab-inventory/src/resolvers/python.rs) and the line    *)
(* protocol spoken with each of them (krab-inventory/src/python.rs).       *)
(*                                                                         *)
(* Render threads call Python.  A call takes an idle worker, starts one,   *)
(* or waits on a condition variable; while it runs, the worker may ask the *)
(* thread for a value, and answering may evaluate an interpolation that    *)
(* calls Python again, so one thread can hold several workers.  Workers    *)
(* die, hang and print rubbish.                                            *)
(***************************************************************************)
EXTENDS Integers, Sequences, FiniteSets

CONSTANTS
  Threads,      \* render threads
  MaxWorkers,   \* `workers:` of .kapitan
  MaxDepth,     \* bound: how deep a call may call Python again
  Budgets       \* bounds, one chosen per behaviour: who calls, how deep, and how many
                \* calls, lookups per attempt, faults and waits of a whole minute

ASSUME PoolAssumption ==
  /\ IsFiniteSet(Threads) /\ MaxWorkers \in Nat \ {0} /\ MaxDepth \in Nat \ {0}
  /\ Budgets \subseteq [threads : SUBSET Threads, depth : 1 .. MaxDepth,
                         calls : Nat, asks : Nat, faults : Nat, waits : Nat]

VARIABLES
  idle,       \* Pool.idle: a stack of workers
  live,       \* Pool.live
  proc,       \* what each worker process is doing
  stack,      \* per thread: its calls, the innermost last
  phase,      \* "load" before the file's names are registered, then "run" or "none"
  killed,     \* krab itself ended by SIGPIPE
  left        \* what is left of the budget

vars == <<idle, live, proc, stack, phase, killed, left>>

NoWorker == 0   \* a call that holds none
Results == {"ok", "failed", "inner", "timeout", "died", "busy", "unstartable"}

\* More processes than can exist at once; a dead worker's place is used again.
Workers == 1 .. Cardinality(Threads) * MaxDepth + MaxWorkers

Off == [state |-> "off", out |-> <<>>]
Unused == {w \in Workers : proc[w].state = "off"}
First == {w \in Unused : \A v \in Unused : w <= v}

Top(t) == stack[t][Len(stack[t])]
At(t, pc) == stack[t] # <<>> /\ Top(t).pc = pc
WithTop(t, f) == [stack EXCEPT ![t][Len(stack[t])] = f]
GoTo(t, pc) == WithTop(t, [Top(t) EXCEPT !.pc = pc])

\* One of the bounded things happens.
Spend(what) == left[what] > 0 /\ left' = [left EXCEPT ![what] = @ - 1]

\* What a worker is asked to do: this attempt of this call of this thread.
Request(t) == <<t, Len(stack[t]), Top(t).tries>>
Line(t, kind) == [kind |-> kind, request |-> Request(t)]

\* HELD > 0: a call further out on this thread is inside call_with.
Nested(t) == Len(stack[t]) > 1

NewCall == [pc |-> "acquire", worker |-> NoWorker, tries |-> 1, asks |-> 0,
            inner |-> FALSE, then |-> "none"]

Waiting == {t \in Threads : At(t, "waiting")}
Calls == {c \in Threads \X (1 .. MaxDepth) : c[2] <= Len(stack[c[1]])}
Frame(c) == stack[c[1]][c[2]]
Holding == {c \in Calls : Frame(c).worker # NoWorker}
\* The call is over: its frame goes, and the lookup it answered, if any, is replied to.
Ended(s, t, result) ==
  LET d == Len(s[t]) - 1
      outer == s[t][d] IN
  [s EXCEPT ![t] =
     IF d = 0 THEN <<>>
     ELSE Append(SubSeq(@, 1, d - 1),
                 [outer EXCEPT !.pc = "reply", !.inner = outer.inner \/ result # "ok"])]

\* What the call does once its worker is settled: end, or try once more.
After(s, t) ==
  LET f == s[t][Len(s[t])] IN
  IF f.then = "retry"
  THEN [s EXCEPT ![t][Len(s[t])] = [NewCall EXCEPT !.tries = f.tries + 1]]
  ELSE Ended(s, t, f.then)
-----------------------------------------------------------------------------
(* Loading the file.                                                       *)

Init ==
  /\ idle = <<>> /\ live = 0
  /\ proc = [w \in Workers |-> Off]
  /\ stack = [t \in Threads |-> <<>>]
  /\ phase = "load" /\ killed = FALSE
  /\ left \in Budgets

Idle == [state |-> "idle", out |-> <<>>]

\* What the file defines is known from the cache: no worker starts.
LoadKnown ==
  /\ phase = "load" /\ phase' = "run"
  /\ UNCHANGED <<idle, live, proc, stack, killed, left>>

\* The first worker imports the file and stays for the calls to come.
LoadBySpawn ==
  /\ phase = "load" /\ phase' = "run"
  /\ \E w \in First :
       /\ proc' = [proc EXCEPT ![w] = Idle]
       /\ idle' = Append(idle, w)
  /\ live' = live + 1
  /\ UNCHANGED <<stack, killed, left>>

\* The file does not import: its names are not registered and nothing calls them.
LoadFails ==
  /\ phase = "load" /\ phase' = "none"
  /\ UNCHANGED <<idle, live, proc, stack, killed, left>>
-----------------------------------------------------------------------------
(* Taking a worker.                                                        *)

Call(t) ==
  /\ phase = "run" /\ ~killed /\ stack[t] = <<>> /\ Spend("calls") /\ t \in left.threads
  /\ stack' = [stack EXCEPT ![t] = <<NewCall>>]
  /\ UNCHANGED <<idle, live, proc, phase, killed>>

\* A slip: a nested call waits like any other.
MayStartWithin(t) == live < MaxWorkers

\* May a call that finds no idle worker start one?
MayStart(t) == Nested(t) \/ live < MaxWorkers

\* One turn of acquire's loop, under the pool's lock.
Acquire(t) ==
  /\ ~killed /\ At(t, "acquire")
  /\ IF idle # <<>>
     THEN /\ stack' = WithTop(t, [Top(t) EXCEPT !.pc = "send", !.worker = idle[Len(idle)]])
          /\ idle' = SubSeq(idle, 1, Len(idle) - 1)
          /\ UNCHANGED live
     ELSE /\ stack' = GoTo(t, IF MayStart(t) THEN "spawn" ELSE "waiting")
          /\ live' = IF MayStart(t) THEN live + 1 ELSE live
          /\ UNCHANGED idle
  /\ UNCHANGED <<proc, phase, killed, left>>

Spawn(t) ==
  /\ ~killed /\ At(t, "spawn")
  /\ \E w \in First :
       /\ proc' = [proc EXCEPT ![w] = Idle]
       /\ stack' = WithTop(t, [Top(t) EXCEPT !.pc = "send", !.worker = w])
  /\ UNCHANGED <<idle, live, phase, killed, left>>

\* The interpreter does not start, or the import fails, dies or takes too long.
SpawnFails(t) ==
  /\ ~killed /\ At(t, "spawn") /\ Spend("faults")
  /\ stack' = WithTop(t, [Top(t) EXCEPT !.pc = "discard", !.then = "unstartable"])
  /\ UNCHANGED <<idle, live, proc, phase, killed>>

\* wait_until reports the minute is over; the pool is not looked at again.
GivesUp(t) ==
  /\ ~killed /\ At(t, "waiting") /\ Spend("waits")
  /\ stack' = Ended(stack, t, "busy")
  /\ UNCHANGED <<idle, live, proc, phase, killed>>
-----------------------------------------------------------------------------
(* Giving it back.                                                         *)

\* A slip: workers started for nested calls are all kept.
ReleaseAll(t) ==
  /\ ~killed /\ At(t, "release")
  /\ idle' = Append(idle, Top(t).worker)
  /\ stack' = WithTop(t, [Top(t) EXCEPT !.pc = "notify", !.worker = NoWorker])
  /\ UNCHANGED <<live, proc, phase, killed, left>>

\* release, with the lock held: keep the worker unless there are too many.
Release(t) ==
  /\ ~killed /\ At(t, "release")
  /\ LET w == Top(t).worker IN
     IF live > 2 * MaxWorkers
     THEN /\ live' = live - 1
          /\ proc' = [proc EXCEPT ![w] = Off]
          /\ UNCHANGED idle
     ELSE /\ idle' = Append(idle, w)
          /\ UNCHANGED <<live, proc>>
  /\ stack' = WithTop(t, [Top(t) EXCEPT !.pc = "notify", !.worker = NoWorker])
  /\ UNCHANGED <<phase, killed, left>>

\* A slip: a place becomes free and nobody is told.
DiscardQuietly(t) ==
  /\ ~killed /\ At(t, "discard")
  /\ live' = live - 1
  /\ stack' = After(stack, t)
  /\ UNCHANGED <<idle, proc, phase, killed, left>>

\* discard: a worker is gone, or could not be started.
Discard(t) ==
  /\ ~killed /\ At(t, "discard")
  /\ live' = live - 1
  /\ stack' = GoTo(t, "notify")
  /\ UNCHANGED <<idle, proc, phase, killed, left>>

\* notify_one, after the lock is released: one of the waiting threads looks again.
Notify(t) ==
  /\ ~killed /\ At(t, "notify")
  /\ IF Waiting = {}
     THEN stack' = After(stack, t)
     ELSE \E u \in Waiting : stack' = After(GoTo(u, "acquire"), t)
  /\ UNCHANGED <<idle, live, proc, phase, killed, left>>
-----------------------------------------------------------------------------
(* The protocol, the thread's side.                                        *)

\* Writing to a worker that is gone raises SIGPIPE, which krab does not ignore.
Write(t, then) ==
  LET w == Top(t).worker IN
  IF proc[w].state = "dead"
  THEN killed' = TRUE /\ UNCHANGED <<proc, stack>>
  ELSE /\ proc' = [proc EXCEPT ![w].state = "working"]
       /\ stack' = then
       /\ UNCHANGED killed

Send(t) ==
  /\ ~killed /\ At(t, "send")
  /\ Write(t, GoTo(t, "called"))
  /\ UNCHANGED <<idle, live, phase, left>>

Reply(t) ==
  /\ ~killed /\ At(t, "reply")
  /\ Write(t, GoTo(t, "called"))
  /\ UNCHANGED <<idle, live, phase, left>>

Out(t) == proc[Top(t).worker].out
Reading(t, kind) == ~killed /\ At(t, "called") /\ Out(t) # <<>> /\ Head(Out(t)).kind = kind

\* Read one line; `f` is what the call becomes.
Consume(t, f) ==
  /\ proc' = [proc EXCEPT ![Top(t).worker].out = Tail(@)]
  /\ stack' = WithTop(t, f)
  /\ UNCHANGED <<idle, live, phase, killed, left>>

\* A lookup is answered from the evaluator, or with the evaluator's error.
AnswerLookup(t) ==
  /\ Reading(t, "ask")
  /\ \E fails \in BOOLEAN :
       Consume(t, [Top(t) EXCEPT !.pc = "reply", !.inner = @ \/ fails])

\* The value asked for is itself computed by Python.
CallAgain(t) ==
  /\ Reading(t, "ask") /\ Len(stack[t]) < left.depth
  /\ proc' = [proc EXCEPT ![Top(t).worker].out = Tail(@)]
  /\ stack' = [GoTo(t, "lookup") EXCEPT ![t] = Append(@, NewCall)]
  /\ UNCHANGED <<idle, live, phase, killed, left>>

Answered(t) ==
  /\ Reading(t, "ok")
  /\ Consume(t, [Top(t) EXCEPT !.pc = "release", !.then = "ok"])

\* The evaluator's own error is the real failure.
Failed(t) ==
  /\ Reading(t, "failed")
  /\ Consume(t, [Top(t) EXCEPT !.pc = "release", !.then = IF Top(t).inner THEN "inner" ELSE "failed"])

\* The worker is dropped (asked to exit, killed after two seconds); one more try.
Lost(t, then) ==
  /\ proc' = [proc EXCEPT ![Top(t).worker] = Off]
  /\ stack' = WithTop(t, [Top(t) EXCEPT !.pc = "discard", !.worker = NoWorker, !.then = then])
  /\ UNCHANGED <<idle, live, phase, killed>>

\* A slip: every death is worth another try.
MayAlwaysTryAgain(t) == TRUE

MayTryAgain(t) == Top(t).tries < 2

\* End of file, or a line that is not JSON.
Died(t) ==
  /\ \/ Reading(t, "rubbish")
     \/ ~killed /\ At(t, "called") /\ Out(t) = <<>> /\ proc[Top(t).worker].state = "dead"
  /\ Lost(t, IF MayTryAgain(t) THEN "retry" ELSE "died")
  /\ UNCHANGED left

\* A slip: the worker that is late goes back to the pool.
TimedOutKept(t) ==
  /\ ~killed /\ At(t, "called") /\ Out(t) = <<>> /\ proc[Top(t).worker].state # "dead"
  /\ Spend("faults")
  /\ stack' = WithTop(t, [Top(t) EXCEPT !.pc = "release", !.then = "timeout"])
  /\ UNCHANGED <<idle, live, proc, phase, killed>>

\* No line within compile.python-timeout: the worker is killed, the call not repeated.
TimedOut(t) ==
  /\ ~killed /\ At(t, "called") /\ Out(t) = <<>> /\ proc[Top(t).worker].state # "dead"
  /\ Spend("faults")
  /\ Lost(t, "timeout")
-----------------------------------------------------------------------------
(* The protocol, the worker's side: runner/resolver_runner.py.             *)

Prints(t, kind, state) ==
  /\ ~killed /\ At(t, "called") /\ proc[Top(t).worker].state = "working"
  /\ proc' = [proc EXCEPT ![Top(t).worker] =
                [state |-> state, out |-> Append(@.out, Line(t, kind))]]
  /\ UNCHANGED <<idle, live, phase, killed>>

\* Host.request: one line out, then blocked until the reply comes.
Asks(t) ==
  /\ At(t, "called") /\ Top(t).asks < left.asks
  /\ Prints(t, "ask", "asking")
  /\ stack' = WithTop(t, [Top(t) EXCEPT !.asks = @ + 1])
  /\ UNCHANGED left

\* op_call returns or raises; whether a failed lookup was caught is the function's affair.
Concludes(t) ==
  /\ \E kind \in {"ok", "failed"} : Prints(t, kind, "idle")
  /\ UNCHANGED <<stack, left>>

PrintsRubbish(t) ==
  /\ Spend("faults")
  /\ Prints(t, "rubbish", "working")
  /\ UNCHANGED stack

\* A worker may die at any moment: out of memory, killed, os._exit.
Dies(w) ==
  /\ ~killed /\ proc[w].state \in {"idle", "working", "asking"}
  /\ Spend("faults")
  /\ proc' = [proc EXCEPT ![w].state = "dead"]
  /\ UNCHANGED <<idle, live, stack, phase, killed>>
-----------------------------------------------------------------------------
\* What the code does by itself once it can: no fault and no minute's wait among it.
Proceeds(t) ==
  \/ Acquire(t) \/ Spawn(t) \/ Release(t) \/ Discard(t) \/ Notify(t)
  \/ Send(t) \/ Reply(t) \/ AnswerLookup(t) \/ Answered(t) \/ Failed(t) \/ Died(t)
  \/ Concludes(t)

Load == LoadKnown \/ LoadBySpawn \/ LoadFails

Done ==
  /\ killed \/ phase = "none" \/ (phase = "run" /\ left.calls = 0 /\ \A t \in Threads : stack[t] = <<>>)
  /\ UNCHANGED vars

Next ==
  \/ Load
  \/ \E t \in Threads :
       \/ Call(t) \/ Proceeds(t) \/ CallAgain(t) \/ SpawnFails(t) \/ GivesUp(t)
       \/ TimedOut(t) \/ Asks(t) \/ PrintsRubbish(t)
  \/ \E w \in Workers : Dies(w)
  \/ Done

Spec == Init /\ [][Next]_vars /\ \A t \in Threads : WF_vars(Proceeds(t))
-----------------------------------------------------------------------------
PCs == {"acquire", "waiting", "spawn", "send", "called", "lookup", "reply",
        "release", "discard", "notify"}

(* Every variable has its type.                                            *)
TypeOK ==
  /\ idle \in Seq(Workers) /\ live \in Nat
  /\ \A w \in Workers :
       /\ proc[w].state \in {"off", "idle", "working", "asking", "dead"}
       /\ Len(proc[w].out) <= 3
  /\ \A t \in Threads : \A d \in 1 .. Len(stack[t]) :
       LET f == stack[t][d] IN
       /\ f.pc \in PCs /\ f.worker \in Workers \cup {NoWorker} /\ f.tries \in 1 .. 2
       /\ f.then \in Results \cup {"none", "retry"}
       /\ d < Len(stack[t]) => f.pc = "lookup"
       /\ f.inner \in BOOLEAN
  /\ phase \in {"load", "run", "none"} /\ killed \in BOOLEAN

Slots == {"spawn", "send", "called", "lookup", "reply", "release", "discard"}
Counted == {c \in Calls : Frame(c).pc \in Slots}
Owners(w) == {c \in Holding : Frame(c).worker = w}

(* Every worker process that exists has one owner, the pool or one call,   *)
(* `live` counts them and the ones being started or struck off, and no     *)
(* more than twice `workers` are kept, however deep calls nested.          *)
WorkersAreCounted ==
  /\ live = Len(idle) + Cardinality(Counted)
  /\ \A w \in Workers :
       Cardinality({i \in DOMAIN idle : idle[i] = w}) + Cardinality(Owners(w))
         = (IF proc[w].state = "off" THEN 0 ELSE 1)
  /\ Len(idle) <= 2 * MaxWorkers

(* A line in a worker's pipe answers the request the call that reads it    *)
(* sent: an answer that comes too late, or belongs to an attempt given up, *)
(* is read by nobody, though call_with compares no ids.                    *)
AnswersAreOwn ==
  /\ \A i \in DOMAIN idle : proc[idle[i]].state \in {"idle", "dead"} /\ proc[idle[i]].out = <<>>
  /\ \A c \in Holding :
       LET out == proc[Frame(c).worker].out IN
       \A i \in DOMAIN out : out[i].request = <<c[1], c[2], Frame(c).tries>>

Free == Len(idle) + (IF live < MaxWorkers THEN MaxWorkers - live ELSE 0)

(* While a thread waits, every worker that is idle and every place free is *)
(* on its way to somebody: a thread about to look, or one about to notify. *)
NoWakeUpIsLost ==
  Waiting # {} =>
    Free <= Cardinality({t \in Threads : At(t, "acquire") \/ At(t, "notify")})

(* Every call ends, by an answer, an error or its deadline, without any    *)
(* wait for a worker having to last the minute: threads that hold workers  *)
(* and need more never wait for each other (RES-61).                       *)
CallsEnd == \A t \in Threads : (stack[t] # <<>>) ~> (stack[t] = <<>> \/ killed)

(* A worker that dies during a call is replaced and the call tried again   *)
(* (RES-62, docs/specs/interpolation.md): krab outlives its workers.       *)
DeathsAreSurvived == ~killed
=============================================================================
