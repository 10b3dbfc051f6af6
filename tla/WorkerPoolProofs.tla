--------------------------- MODULE WorkerPoolProofs ---------------------------
(***************************************************************************)
(* The safety of WorkerPool, for any number of threads, workers, faults    *)
(* and nested calls.                                                       *)
(***************************************************************************)
EXTENDS WorkerPool, FiniteSetTheorems, SequenceTheorems, TLAPS

(* ------------------------------ The invariant. ------------------------- *)

States == {"off", "idle", "working", "asking", "dead"}
Kinds == {"ask", "ok", "failed", "rubbish"}
OutLine == [kind : Kinds, request : Threads \X Nat \X Nat]
Process == [state : States, out : Seq(OutLine)]
CallFrame ==
  [pc : PCs, worker : Workers \cup {NoWorker}, tries : Nat, asks : Nat, inner : BOOLEAN,
   then : Results \cup {"none", "retry"}]
Budget == [threads : SUBSET Threads, depth : 1 .. MaxDepth, calls : Nat, asks : Nat,
           faults : Nat, waits : Nat]

Typed ==
  /\ idle \in Seq(Workers) /\ live \in Int
  /\ proc \in [Workers -> Process]
  /\ stack \in [Threads -> Seq(CallFrame)]
  /\ left \in Budget

(* Only the innermost call of a thread does anything but wait for another. *)
Nesting ==
  \A t \in Threads :
    /\ Len(stack[t]) <= MaxDepth
    /\ \A d \in 1 .. Len(stack[t]) : stack[t][d].pc = "lookup" <=> d < Len(stack[t])

(* A call has a worker from the moment it took or started one until it     *)
(* gives it back or drops it.                                              *)
Using == {"send", "called", "lookup", "reply", "release"}
UsersHold == \A c \in Calls : Frame(c).worker # NoWorker <=> Frame(c).pc \in Using

(* Nobody has a worker that somebody else has.                             *)
Apart ==
  /\ \A i, j \in DOMAIN idle : idle[i] = idle[j] => i = j
  /\ \A c, e \in Holding : Frame(c).worker = Frame(e).worker => c = e
  /\ \A c \in Holding, i \in DOMAIN idle : Frame(c).worker # idle[i]

(* A worker process that exists is somebody's.                             *)
Owned ==
  \A w \in Workers :
    proc[w].state # "off" => \/ \E i \in DOMAIN idle : idle[i] = w
                             \/ \E c \in Holding : Frame(c).worker = w

Ownership == UsersHold /\ Apart /\ Owned

(* What the pipe of a worker may hold: nothing between calls and while the *)
(* worker waits for a reply; during a call, lines for this call, after     *)
(* whose answer or question nothing more is written.                       *)
Clean(w) == proc[w].out = << >> /\ proc[w].state \in {"idle", "dead"}
Blocked(w) == proc[w].out = << >> /\ proc[w].state \in {"asking", "dead"}
Speaks(w, request) ==
  LET out == proc[w].out IN
  /\ proc[w].state # "off"
  /\ \A i \in 1 .. Len(out) :
       /\ out[i].request = request
       /\ out[i].kind \in {"ok", "failed"} => i = Len(out) /\ proc[w].state \in {"idle", "dead"}
       /\ out[i].kind = "ask" => i = Len(out) /\ proc[w].state \in {"asking", "dead"}

Pipe(c) ==
  LET f == Frame(c) IN
  /\ f.pc \in {"send", "release"} => Clean(f.worker)
  /\ f.pc \in {"lookup", "reply"} => Blocked(f.worker)
  /\ f.pc = "called" => Speaks(f.worker, <<c[1], c[2], f.tries>>)

Pipes ==
  /\ \A i \in DOMAIN idle : Clean(idle[i])
  /\ \A c \in Calls : Pipe(c)

Count == live = Len(idle) + Cardinality(Counted) /\ Len(idle) <= 2 * MaxWorkers

(* Before the file is loaded there is nothing.                             *)
Unloaded == phase = "load" => /\ idle = << >> /\ live = 0 /\ \A t \in Threads : stack[t] = << >>

Safe == Typed /\ Nesting /\ Ownership /\ Pipes /\ Count /\ Unloaded
-----------------------------------------------------------------------------
(* Lemmas about stacks of calls.                                           *)

TopCall(t) == <<t, Len(stack[t])>>

(* A thread's innermost call changes and nothing else does.                *)
Changes(t, f) ==
  /\ stack' \in [Threads -> Seq(CallFrame)] /\ Nesting'
  /\ Calls' = Calls /\ TopCall(t) \in Calls /\ Frame(TopCall(t)) = Top(t)
  /\ \A c \in Calls : Frame(c)' = IF c = TopCall(t) THEN f ELSE Frame(c)

LEMMA FramesAreTyped ==
  ASSUME Typed, NEW c \in Calls
  PROVE  Frame(c) \in CallFrame
<1>1. c[1] \in Threads /\ c[2] \in 1 .. MaxDepth /\ c[2] <= Len(stack[c[1]])
  BY DEF Calls
<1>2. stack[c[1]] \in Seq(CallFrame)
  BY <1>1 DEF Typed
<1>3. c[2] \in 1 .. Len(stack[c[1]])
  BY <1>1, <1>2, PoolAssumption
<1> QED
  BY <1>2, <1>3 DEF Frame

LEMMA TopIsCall ==
  ASSUME Typed, Nesting, NEW t \in Threads, stack[t] # << >>
  PROVE  /\ Len(stack[t]) \in 1 .. MaxDepth /\ TopCall(t) \in Calls
         /\ Frame(TopCall(t)) = Top(t) /\ Top(t) \in CallFrame /\ Top(t).pc # "lookup"
<1>1. stack[t] \in Seq(CallFrame)
  BY DEF Typed
<1>2. Len(stack[t]) \in 1 .. MaxDepth
  BY <1>1, PoolAssumption DEF Nesting
<1> QED
  BY <1>1, <1>2 DEF TopCall, Calls, Frame, Top, Nesting

LEMMA TopChanges ==
  ASSUME Typed, Nesting, NEW t \in Threads, stack[t] # << >>, NEW f \in CallFrame,
         f.pc # "lookup", stack' = WithTop(t, f)
  PROVE  Changes(t, f)
<1> DEFINE n == Len(stack[t])
<1>1. n \in 1 .. MaxDepth /\ TopCall(t) \in Calls /\ Frame(TopCall(t)) = Top(t) /\ Top(t).pc # "lookup"
  BY TopIsCall
<1>2. stack[t] \in Seq(CallFrame) /\ stack \in [Threads -> Seq(CallFrame)]
  BY DEF Typed
<1>3. stack' = [stack EXCEPT ![t] = [stack[t] EXCEPT ![n] = f]]
  BY <1>2 DEF WithTop
<1>4. [stack[t] EXCEPT ![n] = f] \in Seq(CallFrame) /\ Len([stack[t] EXCEPT ![n] = f]) = n
  BY <1>1, <1>2
<1>5. stack' \in [Threads -> Seq(CallFrame)]
  BY <1>2, <1>3, <1>4
<1>6. \A u \in Threads : Len(stack'[u]) = Len(stack[u])
  BY <1>2, <1>3, <1>4
<1>7. \A u \in Threads : \A d \in 1 .. Len(stack[u]) :
        stack'[u][d] = IF u = t /\ d = n THEN f ELSE stack[u][d]
  BY <1>1, <1>2, <1>3, <1>4
<1>8. Nesting'
  BY <1>1, <1>6, <1>7 DEF Nesting
<1>9. Calls' = Calls
  BY <1>6 DEF Calls
<1>10. \A c \in Calls : Frame(c)' = IF c = TopCall(t) THEN f ELSE Frame(c)
  BY <1>2, <1>7 DEF Calls, Frame, TopCall
<1> QED
  BY <1>1, <1>5, <1>8, <1>9, <1>10 DEF Changes

(* Who has which worker depends on the calls that have one only.           *)
LEMMA OwnersStay ==
  ASSUME Apart, Owned, Holding' = Holding, idle' = idle,
         \A c \in Holding : Frame(c)'.worker = Frame(c).worker,
         \A w \in Workers : proc'[w].state # "off" => proc[w].state # "off"
  PROVE  Apart' /\ Owned'
<1>1. Apart'
  BY DEF Apart
<1>2. Owned'
  BY DEF Owned
<1> QED
  BY <1>1, <1>2

LEMMA CountedIsFinite == IsFiniteSet(Counted) /\ IsFiniteSet(Counted')
<1>1. IsFiniteSet(1 .. MaxDepth)
  BY FS_Interval, PoolAssumption
<1>2. IsFiniteSet(Threads \X (1 .. MaxDepth))
  BY <1>1, FS_Product, PoolAssumption
<1> QED
  BY <1>2, FS_Subset DEF Counted, Calls

(* One call takes a place in the pool, or gives its place up.              *)
LEMMA OneMoreCounted ==
  ASSUME NEW c, c \notin Counted, Counted' = Counted \cup {c}
  PROVE  /\ Cardinality(Counted)' = Cardinality(Counted) + 1 /\ Cardinality(Counted) \in Nat
BY CountedIsFinite, FS_AddElement, FS_CardinalityType

LEMMA OneLessCounted ==
  ASSUME NEW c, c \in Counted, Counted' = Counted \ {c}
  PROVE  /\ Cardinality(Counted)' = Cardinality(Counted) - 1 /\ Cardinality(Counted)' \in Nat
BY CountedIsFinite, FS_RemoveElement, FS_CardinalityType

(* A call exchanges lines with its worker and keeps it.                    *)
LEMMA TalkingIsSafe ==
  ASSUME Safe, NEW t \in Threads, stack[t] # << >>, NEW f \in CallFrame, stack' = WithTop(t, f),
         Top(t).pc \in Using, f.pc \in Using \ {"lookup"}, f.worker = Top(t).worker,
         UNCHANGED << idle, live, phase >>, left' \in Budget,
         proc' \in [Workers -> Process], proc'[f.worker].state # "off",
         \A w \in Workers : w # f.worker => proc'[w] = proc[w],
         f.pc \in {"send", "release"} => Clean(f.worker)',
         f.pc = "reply" => Blocked(f.worker)',
         NEW request, request = <<t, Len(stack[t]), f.tries>>,
         f.pc = "called" => Speaks(f.worker, request)'
  PROVE  Safe'
<1> PICK top \in Calls : top = TopCall(t)
  BY TopIsCall DEF Safe
<1>1. Changes(t, f) /\ top \in Calls /\ Frame(top) = Top(t) /\ Top(t) \in CallFrame
  BY TopChanges, TopIsCall DEF Safe
<1>2. Typed'
  BY <1>1 DEF Safe, Typed, Changes
<1>3. Holding' = Holding /\ \A c \in Calls : Frame(c)'.worker = Frame(c).worker
  BY <1>1 DEF Changes, Holding
<1>4. top \in Holding /\ Frame(top).worker = f.worker /\ f.worker \in Workers
  BY <1>1 DEF Holding, Safe, Ownership, UsersHold, CallFrame
<1>5. UsersHold'
  BY <1>1 DEF Changes, Safe, Ownership, UsersHold
<1>6. \A w \in Workers : proc'[w].state # "off" => proc[w].state # "off"
  <2>1. proc[f.worker].state # "off"
    BY <1>1, <1>4 DEF Safe, Pipes, Pipe, Clean, Blocked, Speaks, Using
  <2> QED
    BY <2>1
<1>7. Ownership'
  <2>1. \A c \in Holding : c \in Calls
    BY DEF Holding
  <2> QED
    BY <1>3, <1>5, <1>6, <2>1, OwnersStay DEF Safe, Ownership
<1>8. Pipes'
  <2>1. \A i \in DOMAIN idle : idle[i] \in Workers /\ idle[i] # f.worker
    BY <1>4 DEF Safe, Typed, Ownership, Apart
  <2>2. \A i \in DOMAIN idle : Clean(idle[i])'
    BY <2>1 DEF Safe, Pipes, Clean
  <2>3. ASSUME NEW c \in Calls, c # top PROVE Pipe(c)'
    <3>1. Frame(c)' = Frame(c) /\ Frame(c) \in CallFrame
      BY <1>1, <2>3, FramesAreTyped DEF Changes, Safe
    <3>2. CASE Frame(c).pc \notin Using
      BY <3>1, <3>2 DEF Pipe, Using
    <3>3. CASE Frame(c).pc \in Using
      <4>1. c \in Holding
        BY <3>3 DEF Holding, Safe, Ownership, UsersHold
      <4>2. Frame(c).worker \in Workers /\ Frame(c).worker # f.worker
        BY <1>4, <2>3, <3>1, <4>1 DEF Safe, Ownership, Apart, Holding, CallFrame
      <4>3. Pipe(c)
        BY DEF Safe, Pipes
      <4> QED
        BY <3>1, <4>2, <4>3 DEF Pipe, Clean, Blocked, Speaks
    <3> QED
      BY <3>2, <3>3
  <2>4. Pipe(top)'
    <3>1. Frame(top)' = f /\ request = <<top[1], top[2], f.tries>>
      BY <1>1 DEF Changes, TopCall
    <3> QED
      BY <3>1 DEF Pipe, Using
  <2> QED
    BY <1>1, <2>2, <2>3, <2>4 DEF Pipes, Changes
<1>9. Count'
  <2>1. Counted' = Counted
    BY <1>1 DEF Counted, Changes, Slots, Using
  <2> QED
    BY <2>1 DEF Safe, Count
<1>10. Unloaded'
  BY DEF Safe, Unloaded
<1> QED
  BY <1>1, <1>2, <1>7, <1>8, <1>9, <1>10 DEF Safe, Changes

LEMMA TopHolds ==
  ASSUME Safe, NEW t \in Threads, stack[t] # << >>, Top(t).pc \in Using
  PROVE  /\ Top(t).worker \in Workers /\ proc[Top(t).worker] \in Process
         /\ Top(t).pc \in {"send", "release"} => Clean(Top(t).worker)
         /\ Top(t).pc = "reply" => Blocked(Top(t).worker)
         /\ Top(t).pc = "called" => Speaks(Top(t).worker, Request(t))
<1>1. TopCall(t) \in Calls /\ Frame(TopCall(t)) = Top(t) /\ Top(t) \in CallFrame
  BY TopIsCall DEF Safe
<1>2. Top(t).worker \in Workers
  BY <1>1 DEF Safe, Ownership, UsersHold, CallFrame
<1> QED
  BY <1>1, <1>2 DEF Safe, Typed, Pipes, Pipe, TopCall, Request

-----------------------------------------------------------------------------
(* The actions.                                                            *)

LEMMA UnchangedIsSafe ==
  ASSUME Safe, UNCHANGED << idle, live, proc, stack, phase, left >>
  PROVE  Safe'
<1>1. Calls' = Calls /\ \A c : Frame(c)' = Frame(c)
  BY DEF Calls, Frame
<1>2. Holding' = Holding /\ Counted' = Counted
  BY <1>1 DEF Holding, Counted
<1>3. \A c : Pipe(c)' = Pipe(c)
  BY <1>1, SMTT(30) DEF Pipe, Clean, Blocked, Speaks
<1>4. \A w : Clean(w)' = Clean(w)
  BY DEF Clean
<1> QED
  BY <1>1, <1>2, <1>3, <1>4 DEF Safe, Typed, Nesting, Ownership, UsersHold, Apart, Owned, Pipes,
     Count, Unloaded

LEMMA TopHasNone ==
  ASSUME Safe, NEW t \in Threads, stack[t] # << >>, Top(t).pc \notin Using
  PROVE  Top(t) \in CallFrame /\ Top(t).worker = NoWorker
BY TopIsCall DEF Safe, Ownership, UsersHold

LEMMA SpendingIsTyped ==
  ASSUME Typed, NEW what \in {"calls", "faults", "waits"}, Spend(what)
  PROVE  left' \in Budget
<1>1. left \in Budget /\ left[what] \in Nat /\ left[what] - 1 \in Nat
  BY DEF Typed, Budget, Spend
<1> QED
  BY <1>1 DEF Spend, Budget

LEMMA WriteIsSafe ==
  ASSUME Safe, NEW t \in Threads, At(t, "send") \/ At(t, "reply"),
         Write(t, GoTo(t, "called")), UNCHANGED << idle, live, phase, left >>
  PROVE  Safe'
<1> DEFINE w == Top(t).worker
           f == [Top(t) EXCEPT !.pc = "called"]
<1>1. stack[t] # << >> /\ Top(t).pc \in {"send", "reply"} /\ Top(t) \in CallFrame
  BY TopIsCall DEF At, Safe
<1>2. w \in Workers /\ proc[w] \in Process /\ (Clean(w) \/ Blocked(w))
  BY <1>1, TopHolds DEF Using
<1>3. CASE proc[w].state = "dead"
  <2>1. UNCHANGED << idle, live, phase, left, proc, stack >>
    BY <1>3 DEF Write
  <2> QED
    BY <2>1, UnchangedIsSafe
<1>4. CASE proc[w].state # "dead"
  <2>1. proc' = [proc EXCEPT ![w].state = "working"] /\ stack' = WithTop(t, f)
    BY <1>4 DEF Write, GoTo
  <2>2. f \in CallFrame /\ f.pc = "called" /\ f.worker = w /\ f.tries = Top(t).tries
    BY <1>1 DEF CallFrame, PCs
  <2>3. /\ proc' \in [Workers -> Process] /\ proc'[w].out = << >> /\ proc'[w].state = "working"
        /\ \A v \in Workers : v # w => proc'[v] = proc[v]
    BY <1>2, <2>1 DEF Safe, Typed, Process, Clean, Blocked, States
  <2>4. PICK v, request : v \in Workers /\ v = w /\ request = <<t, Len(stack[t]), f.tries>>
    BY <1>2
  <2>5. Speaks(v, request)'
    BY <2>3, <2>4 DEF Speaks
  <2> QED
    BY <1>1, <2>1, <2>2, <2>3, <2>4, <2>5, TalkingIsSafe DEF Using, Safe, Typed
<1> QED
  BY <1>3, <1>4

(* What a call that reads a line finds in the pipe.                        *)
LEMMA LineIsRead ==
  ASSUME Safe, NEW t \in Threads, NEW kind, Reading(t, kind)
  PROVE  LET w == Top(t).worker
             out == proc[w].out IN
         /\ stack[t] # << >> /\ Top(t).pc = "called" /\ Top(t) \in CallFrame
         /\ w \in Workers /\ proc[w] \in Process /\ Speaks(w, Request(t))
         /\ out # << >> /\ out[1].kind = kind
         /\ kind \in {"ok", "failed", "ask"} => Tail(out) = << >>
         /\ kind \in {"ok", "failed"} => proc[w].state \in {"idle", "dead"}
         /\ kind = "ask" => proc[w].state \in {"asking", "dead"}
<1> DEFINE w == Top(t).worker
           out == proc[w].out
<1>1. stack[t] # << >> /\ Top(t).pc = "called" /\ Top(t) \in CallFrame
  BY TopIsCall DEF Reading, At, Safe
<1>2. w \in Workers /\ proc[w] \in Process /\ Speaks(w, Request(t))
  BY <1>1, TopHolds DEF Using
<1>3. out \in Seq(OutLine) /\ out # << >> /\ out[1].kind = kind
  BY <1>2 DEF Reading, Out, Process
<1>4. 1 \in 1 .. Len(out)
  BY <1>3
<1>5. kind \in {"ok", "failed", "ask"} => Len(out) = 1
  BY <1>2, <1>3, <1>4 DEF Speaks
<1>6. Len(out) = 1 => Tail(out) = << >>
  <2>1. Tail(out) \in Seq(OutLine) /\ Len(Tail(out)) = Len(out) - 1
    BY <1>3, HeadTailProperties
  <2>2. Tail(out) # << >> => Len(Tail(out)) # 0
    BY <2>1, EmptySeq
  <2> QED
    BY <2>1, <2>2
<1> QED
  BY <1>1, <1>2, <1>3, <1>4, <1>5, <1>6 DEF Speaks

LEMMA ConsumeIsSafe ==
  ASSUME Safe, NEW t \in Threads, NEW kind \in {"ask", "ok", "failed"}, Reading(t, kind),
         NEW f \in CallFrame, Consume(t, f), f.worker = Top(t).worker,
         f.pc = IF kind = "ask" THEN "reply" ELSE "release"
  PROVE  Safe'
<1> DEFINE w == Top(t).worker
<1>1. /\ stack[t] # << >> /\ Top(t).pc = "called" /\ w \in Workers /\ proc[w] \in Process
      /\ Tail(proc[w].out) = << >>
      /\ proc[w].state \in (IF kind = "ask" THEN {"asking", "dead"} ELSE {"idle", "dead"})
  BY LineIsRead
<1>2. proc' = [proc EXCEPT ![w].out = << >>] /\ stack' = WithTop(t, f)
  BY <1>1 DEF Consume, Safe, Typed
<1>3. /\ proc' \in [Workers -> Process] /\ proc'[w].out = << >> /\ proc'[w].state = proc[w].state
      /\ \A v \in Workers : v # w => proc'[v] = proc[v]
  <2>1. << >> \in Seq(OutLine)
    OBVIOUS
  <2>2. [proc[w] EXCEPT !.out = << >>] \in Process
    BY <1>1, <2>1 DEF Process
  <2> QED
    BY <1>1, <1>2, <2>2 DEF Safe, Typed
<1>4. PICK v, request : v \in Workers /\ v = w /\ request = <<t, Len(stack[t]), f.tries>>
  BY <1>1
<1>5. IF kind = "ask" THEN Blocked(v)' ELSE Clean(v)'
  BY <1>1, <1>3, <1>4 DEF Blocked, Clean
<1>6. UNCHANGED << idle, live, phase >> /\ left' \in Budget
  BY DEF Consume, Safe, Typed
<1> QED
  BY <1>1, <1>2, <1>3, <1>4, <1>5, <1>6, TalkingIsSafe DEF Using

LEMMA ReadingIsSafe ==
  ASSUME Safe, NEW t \in Threads, AnswerLookup(t) \/ Answered(t) \/ Failed(t)
  PROVE  Safe'
<1>1. CASE AnswerLookup(t)
  <2>1. PICK fails \in BOOLEAN :
           Consume(t, [Top(t) EXCEPT !.pc = "reply", !.inner = @ \/ fails])
    BY <1>1 DEF AnswerLookup
  <2>2. Top(t) \in CallFrame
    BY <1>1, LineIsRead DEF AnswerLookup
  <2>3. (Top(t).inner \/ fails) \in BOOLEAN
    BY <2>2 DEF CallFrame
  <2>4. [Top(t) EXCEPT !.pc = "reply", !.inner = @ \/ fails] \in CallFrame
    BY <2>2, <2>3 DEF CallFrame, PCs
  <2> QED
    BY <1>1, <2>1, <2>2, <2>4, ConsumeIsSafe DEF AnswerLookup, CallFrame
<1>2. CASE Answered(t)
  <2>1. Top(t) \in CallFrame
    BY <1>2, LineIsRead DEF Answered
  <2>2. [Top(t) EXCEPT !.pc = "release", !.then = "ok"] \in CallFrame
    BY <2>1 DEF CallFrame, PCs, Results
  <2> QED
    BY <1>2, <2>1, <2>2, ConsumeIsSafe DEF Answered, CallFrame
<1>3. CASE Failed(t)
  <2>1. Top(t) \in CallFrame
    BY <1>3, LineIsRead DEF Failed
  <2>2. [Top(t) EXCEPT !.pc = "release", !.then = IF Top(t).inner THEN "inner" ELSE "failed"]
           \in CallFrame
    BY <2>1 DEF CallFrame, PCs, Results
  <2> QED
    BY <1>3, <2>1, <2>2, ConsumeIsSafe DEF Failed, CallFrame
<1> QED
  BY <1>1, <1>2, <1>3

LEMMA PrintsIsSafe ==
  ASSUME Safe, NEW t \in Threads, NEW kind \in Kinds, NEW state \in States,
         Prints(t, kind, state), left' \in Budget,
         state = CASE kind = "ask" -> "asking" [] kind = "rubbish" -> "working" [] OTHER -> "idle",
         NEW f \in CallFrame, stack' = WithTop(t, f),
         f.pc = "called" /\ f.worker = Top(t).worker /\ f.tries = Top(t).tries
  PROVE  Safe'
<1> DEFINE w == Top(t).worker
           out == proc[w].out
           n == Len(out)
<1>1. stack[t] # << >> /\ Top(t).pc = "called" /\ proc[w].state = "working"
  BY DEF Prints, At
<1>2. w \in Workers /\ proc[w] \in Process /\ Speaks(w, Request(t)) /\ Top(t) \in CallFrame
  BY <1>1, TopHolds, TopIsCall DEF Using, Safe
<1>3. out \in Seq(OutLine) /\ n \in Nat
  BY <1>2 DEF Process
<1>4. Line(t, kind) \in OutLine
  <2>1. Len(stack[t]) \in Nat /\ Top(t).tries \in Nat
    BY <1>1, <1>2, TopIsCall, PoolAssumption DEF CallFrame, Safe
  <2> QED
    BY <2>1 DEF Line, Request, OutLine
<1>5. proc' = [proc EXCEPT ![w] = [state |-> state, out |-> Append(out, Line(t, kind))]]
  BY <1>2 DEF Prints, Safe, Typed
<1>6. [state |-> state, out |-> Append(out, Line(t, kind))] \in Process
  BY <1>3, <1>4 DEF Process
<1>7. /\ proc' \in [Workers -> Process] /\ proc'[w].state = state
      /\ proc'[w].out = Append(out, Line(t, kind))
      /\ \A v \in Workers : v # w => proc'[v] = proc[v]
  BY <1>2, <1>5, <1>6 DEF Safe, Typed
<1>8. /\ Len(proc'[w].out) = n + 1 /\ proc'[w].out[n + 1] = Line(t, kind)
      /\ \A i \in 1 .. n : proc'[w].out[i] = out[i]
  BY <1>3, <1>4, <1>7
<1>9. PICK v, request : v \in Workers /\ v = w /\ request = <<t, Len(stack[t]), f.tries>>
  BY <1>2
<1>10. /\ Line(t, kind).kind = kind /\ Line(t, kind).request = request /\ Request(t) = request
       /\ state # "off" /\ kind \in {"ok", "failed"} => state = "idle"
       /\ kind = "ask" => state = "asking"
  BY <1>9 DEF Line, Request, Kinds
<1>11. \A i \in 1 .. n : out[i].request = request /\ out[i].kind \notin {"ok", "failed", "ask"}
  BY <1>1, <1>2, <1>10 DEF Speaks
<1>12. Speaks(v, request)'
  <2>1. proc'[v].state = state /\ Len(proc'[v].out) = n + 1
    BY <1>7, <1>8, <1>9
  <2>2. ASSUME NEW i \in 1 .. n + 1
        PROVE  /\ proc'[v].out[i].request = request
               /\ proc'[v].out[i].kind \in {"ok", "failed"} => i = n + 1 /\ state \in {"idle", "dead"}
               /\ proc'[v].out[i].kind = "ask" => i = n + 1 /\ state \in {"asking", "dead"}
    <3>1. CASE i \in 1 .. n
      BY <1>8, <1>9, <1>11, <3>1
    <3>2. CASE i = n + 1
      BY <1>8, <1>9, <1>10, <3>2
    <3> QED
      BY <1>3, <3>1, <3>2
  <2> QED
    BY <1>10, <2>1, <2>2 DEF Speaks
<1>13. UNCHANGED << idle, live, phase >> /\ proc'[f.worker].state # "off"
  BY <1>7, <1>10 DEF Prints
<1> QED
  BY <1>1, <1>2, <1>7, <1>9, <1>12, <1>13, TalkingIsSafe DEF Using

LEMMA TopIsKept ==
  ASSUME Typed, NEW t \in Threads, stack[t] # << >>
  PROVE  stack = WithTop(t, Top(t))
BY DEF Typed, WithTop, Top

LEMMA WorkerWritesIsSafe ==
  ASSUME Safe, NEW t \in Threads, Asks(t) \/ Concludes(t) \/ PrintsRubbish(t)
  PROVE  Safe'
<1>1. stack[t] # << >> /\ Top(t) \in CallFrame /\ Top(t).pc = "called"
  BY TopIsCall DEF Asks, Concludes, PrintsRubbish, Prints, At, Safe
<1>2. CASE Asks(t)
  <2> DEFINE f == [Top(t) EXCEPT !.asks = @ + 1]
  <2>1. f \in CallFrame /\ f.pc = "called" /\ f.worker = Top(t).worker /\ f.tries = Top(t).tries
    BY <1>1 DEF CallFrame
  <2> QED
    BY <1>2, <2>1, PrintsIsSafe DEF Asks, Kinds, States, Safe, Typed
<1>3. CASE Concludes(t)
  <2>1. stack' = WithTop(t, Top(t))
    BY <1>1, <1>3, TopIsKept DEF Concludes, Safe
  <2>2. PICK kind \in {"ok", "failed"} : Prints(t, kind, "idle")
    BY <1>3 DEF Concludes
  <2>3. kind \in Kinds /\ "idle" \in States /\ left' \in Budget
    BY <1>3, <2>2 DEF Concludes, Kinds, States, Safe, Typed
  <2> QED
    BY <1>1, <2>1, <2>2, <2>3, PrintsIsSafe
<1>4. CASE PrintsRubbish(t)
  <2>1. stack' = WithTop(t, Top(t))
    BY <1>1, <1>4, TopIsKept DEF PrintsRubbish, Safe
  <2>2. "rubbish" \in Kinds /\ "working" \in States /\ left' \in Budget
    BY <1>4, SpendingIsTyped DEF PrintsRubbish, Kinds, States, Safe
  <2> QED
    BY <1>1, <1>4, <2>1, <2>2, PrintsIsSafe DEF PrintsRubbish
<1> QED
  BY <1>2, <1>3, <1>4

(* A worker that dies leaves what it has written.                          *)
LEMMA DyingIsSafe == ASSUME Safe, NEW v \in Workers, Dies(v) PROVE Safe'
<1>1. /\ proc[v] \in Process /\ proc[v].state \in {"idle", "working", "asking"}
      /\ proc' = [proc EXCEPT ![v].state = "dead"] /\ left' \in Budget
      /\ UNCHANGED << idle, live, stack, phase >>
  BY SpendingIsTyped DEF Dies, Safe, Typed
<1>2. /\ proc' \in [Workers -> Process]
      /\ \A w \in Workers : /\ proc'[w].out = proc[w].out
                            /\ proc'[w].state = IF w = v THEN "dead" ELSE proc[w].state
  BY <1>1 DEF Safe, Typed, Process, States
<1>3. Calls' = Calls /\ \A c : Frame(c)' = Frame(c)
  BY <1>1 DEF Calls, Frame
<1>4. Holding' = Holding /\ Counted' = Counted
  BY <1>3 DEF Holding, Counted
<1>5. Apart' /\ Owned'
  BY <1>1, <1>2, <1>3, <1>4, OwnersStay DEF Safe, Ownership
<1>6. UsersHold'
  BY <1>3 DEF Safe, Ownership, UsersHold
<1>7. \A w \in Workers : /\ Clean(w) => Clean(w)'
                         /\ Blocked(w) => Blocked(w)'
                         /\ \A request : Speaks(w, request) => Speaks(w, request)'
  BY <1>2 DEF Clean, Blocked, Speaks
<1>8. Pipes'
  <2>1. \A i \in DOMAIN idle : Clean(idle[i])'
    <3>1. \A i \in DOMAIN idle : idle[i] \in Workers /\ Clean(idle[i])
      BY DEF Safe, Typed, Pipes
    <3> QED
      BY <1>1, <1>7, <3>1
  <2>2. ASSUME NEW c \in Calls PROVE Pipe(c)'
    <3>1. Frame(c).pc \in Using => Frame(c).worker \in Workers
      BY FramesAreTyped DEF Safe, Ownership, UsersHold, CallFrame
    <3> QED
      BY <1>3, <1>7, <3>1 DEF Safe, Pipes, Pipe, Using
  <2> QED
    BY <1>1, <1>3, <2>1, <2>2 DEF Pipes
<1> QED
  BY <1>1, <1>2, <1>4, <1>5, <1>6, <1>8 DEF Safe, Typed, Nesting, Ownership, Count, Unloaded

(* Calls come, wait and go, and no worker is passed on.                    *)
LEMMA QuietIsSafe ==
  ASSUME Safe, phase # "load", UNCHANGED << idle, proc, phase >>,
         stack' \in [Threads -> Seq(CallFrame)], Nesting', live' \in Int, left' \in Budget, Count',
         \A c \in Calls' :
           \/ /\ Frame(c)'.pc \notin Using /\ Frame(c)'.worker = NoWorker
              /\ c \in Calls => Frame(c).pc \notin Using
           \/ c \in Calls /\ Frame(c)' = Frame(c)
           \/ /\ c \in Calls /\ Frame(c).pc = "lookup" /\ Frame(c)'.pc = "reply"
              /\ Frame(c)'.worker = Frame(c).worker,
         \A c \in Calls : c \notin Calls' => Frame(c).pc \notin Using
  PROVE  Safe'
<1>1. UsersHold'
  BY DEF Safe, Ownership, UsersHold, Using
<1>2. Holding' = Holding /\ \A c \in Holding : Frame(c)'.worker = Frame(c).worker
  BY DEF Safe, Ownership, UsersHold, Using, Holding
<1>3. Ownership'
  BY <1>1, <1>2, OwnersStay DEF Safe, Ownership
<1>4. Pipes'
  <2>1. \A i \in DOMAIN idle : Clean(idle[i])'
    BY DEF Safe, Pipes, Clean
  <2>2. ASSUME NEW c \in Calls' PROVE Pipe(c)'
    <3>1. \A w : (Clean(w) => Clean(w)') /\ (Blocked(w) => Blocked(w)')
      BY DEF Clean, Blocked
    <3>2. \A w, request : Speaks(w, request) => Speaks(w, request)'
      BY DEF Speaks
    <3>3. c \in Calls => Pipe(c)
      BY DEF Safe, Pipes
    <3> QED
      BY <3>1, <3>2, <3>3 DEF Pipe, Using
  <2> QED
    BY <2>1, <2>2 DEF Pipes
<1> QED
  BY <1>3, <1>4 DEF Safe, Typed, Unloaded

(* A call that has no worker goes on without one.                          *)
LEMMA WaitingIsSafe ==
  ASSUME Safe, NEW t \in Threads, stack[t] # << >>, Top(t).pc \notin Using,
         NEW f \in CallFrame, stack' = WithTop(t, f), f.pc \notin Using, f.worker = NoWorker,
         UNCHANGED << idle, proc, phase >>, live' \in Int, left' \in Budget, Count'
  PROVE  Safe'
<1>1. Changes(t, f)
  BY TopChanges DEF Safe, Using
<1>2. phase # "load"
  BY DEF Safe, Unloaded
<1>3. \A c \in Calls : \/ Frame(c)'.pc \notin Using /\ Frame(c)'.worker = NoWorker
                          /\ Frame(c).pc \notin Using
                       \/ Frame(c)' = Frame(c)
  BY <1>1 DEF Changes
<1> QED
  BY <1>1, <1>2, <1>3, QuietIsSafe DEF Changes

(* How a step of one call changes what is counted.                         *)
LEMMA CountChanges ==
  ASSUME Safe, NEW t \in Threads, stack[t] # << >>, NEW f \in CallFrame, f.pc # "lookup",
         stack' = WithTop(t, f)
  PROVE  /\ (f.pc \in Slots <=> Top(t).pc \in Slots) => Cardinality(Counted)' = Cardinality(Counted)
         /\ f.pc \in Slots /\ Top(t).pc \notin Slots =>
              Cardinality(Counted)' = Cardinality(Counted) + 1
         /\ f.pc \notin Slots /\ Top(t).pc \in Slots =>
              Cardinality(Counted)' = Cardinality(Counted) - 1
         /\ Cardinality(Counted) \in Nat /\ Cardinality(Counted)' \in Nat
<1> PICK top \in Calls : top = TopCall(t)
  BY TopIsCall DEF Safe
<1>1. Changes(t, f) /\ Frame(top) = Top(t)
  BY TopChanges, TopIsCall DEF Safe
<1>2. \A c \in Calls : Frame(c)' = IF c = top THEN f ELSE Frame(c)
  BY <1>1 DEF Changes
<1>3. (f.pc \in Slots <=> Top(t).pc \in Slots) => Counted' = Counted
  BY <1>1, <1>2 DEF Changes, Counted
<1>4. f.pc \in Slots /\ Top(t).pc \notin Slots => top \notin Counted /\ Counted' = Counted \cup {top}
  BY <1>1, <1>2 DEF Changes, Counted
<1>5. f.pc \notin Slots /\ Top(t).pc \in Slots => top \in Counted /\ Counted' = Counted \ {top}
  BY <1>1, <1>2 DEF Changes, Counted
<1> QED
  BY <1>3, <1>4, <1>5, OneMoreCounted, OneLessCounted, CountedIsFinite, FS_CardinalityType

LEMMA SpawnFailsIsSafe == ASSUME Safe, NEW t \in Threads, SpawnFails(t) PROVE Safe'
<1> DEFINE f == [Top(t) EXCEPT !.pc = "discard", !.then = "unstartable"]
<1>1. stack[t] # << >> /\ Top(t).pc = "spawn" /\ Top(t) \in CallFrame /\ Top(t).worker = NoWorker
  BY TopHasNone DEF SpawnFails, At, Using
<1>2. f \in CallFrame /\ f.pc = "discard" /\ f.worker = NoWorker
  BY <1>1 DEF CallFrame, PCs, Results
<1>3. Cardinality(Counted)' = Cardinality(Counted)
  BY <1>1, <1>2, CountChanges DEF SpawnFails, Slots
<1>4. Count' /\ left' \in Budget
  BY <1>3, SpendingIsTyped DEF SpawnFails, Safe, Count
<1> QED
  BY <1>1, <1>2, <1>4, WaitingIsSafe DEF SpawnFails, Using, Safe, Typed

LEMMA DiscardIsSafe == ASSUME Safe, NEW t \in Threads, Discard(t) PROVE Safe'
<1> DEFINE f == [Top(t) EXCEPT !.pc = "notify"]
<1>1. stack[t] # << >> /\ Top(t).pc = "discard" /\ Top(t) \in CallFrame /\ Top(t).worker = NoWorker
  BY TopHasNone DEF Discard, At, Using
<1>2. f \in CallFrame /\ f.pc = "notify" /\ f.worker = NoWorker /\ stack' = WithTop(t, f)
  BY <1>1 DEF CallFrame, PCs, Discard, GoTo
<1>3. Cardinality(Counted)' = Cardinality(Counted) - 1 /\ Cardinality(Counted) \in Nat
  BY <1>1, <1>2, CountChanges DEF Slots
<1>4. Count' /\ left' \in Budget /\ live' \in Int
  BY <1>3 DEF Discard, Safe, Typed, Count
<1> QED
  BY <1>1, <1>2, <1>4, WaitingIsSafe DEF Discard, Using

(* One call takes, gives back or loses the worker x; the others keep theirs. *)
LEMMA OthersKeepPipes ==
  ASSUME Safe, NEW t \in Threads, NEW f, Changes(t, f), NEW x,
         \A w \in Workers : w # x => proc'[w] = proc[w],
         \A c \in Holding : c # TopCall(t) => Frame(c).worker # x
  PROVE  \A c \in Calls : c # TopCall(t) => Pipe(c)'
<1> SUFFICES ASSUME NEW c \in Calls, c # TopCall(t) PROVE Pipe(c)'
  OBVIOUS
<1>1. Frame(c)' = Frame(c) /\ Frame(c) \in CallFrame
  BY FramesAreTyped DEF Changes, Safe
<1>2. CASE Frame(c).pc \notin Using
  BY <1>1, <1>2 DEF Pipe, Using
<1>3. CASE Frame(c).pc \in Using
  <2>1. c \in Holding
    BY <1>3 DEF Holding, Safe, Ownership, UsersHold
  <2>2. Frame(c).worker \in Workers /\ proc'[Frame(c).worker] = proc[Frame(c).worker]
    BY <1>1, <2>1 DEF Holding, CallFrame
  <2> QED
    BY <1>1, <2>2 DEF Safe, Pipes, Pipe, Clean, Blocked, Speaks
<1> QED
  BY <1>2, <1>3

(* A call that has no worker takes one that no other call has.             *)
LEMMA GainIsOwned ==
  ASSUME Safe, NEW t \in Threads, NEW f \in CallFrame, Changes(t, f), NEW x \in Workers,
         Top(t).pc \notin Using, f.pc \in Using, f.worker = x,
         \A c \in Holding : Frame(c).worker # x,
         \A i, j \in DOMAIN idle' : idle'[i] = idle'[j] => i = j,
         \A i \in DOMAIN idle' : idle'[i] # x /\ \E j \in DOMAIN idle : idle[j] = idle'[i],
         \A i \in DOMAIN idle : idle[i] = x \/ \E j \in DOMAIN idle' : idle'[j] = idle[i],
         \A w \in Workers : w # x => proc'[w] = proc[w]
  PROVE  Ownership'
<1> PICK top \in Calls : top = TopCall(t)
  BY DEF Changes
<1>1. Frame(top) = Top(t) /\ Calls' = Calls /\ x # NoWorker
      /\ \A c \in Calls : Frame(c)' = IF c = top THEN f ELSE Frame(c)
  BY PoolAssumption DEF Changes, Workers, NoWorker
<1>2. UsersHold'
  BY <1>1 DEF Safe, Ownership, UsersHold
<1>3. Holding' = Holding \cup {top} /\ top \notin Holding /\ Frame(top)' = f
      /\ \A c \in Holding : Frame(c)' = Frame(c)
  BY <1>1 DEF Holding, Safe, Ownership, UsersHold
<1>4. Apart'
  <2>1. \A c, e \in Holding' : Frame(c)'.worker = Frame(e)'.worker => c = e
    <3> SUFFICES ASSUME NEW c \in Holding', NEW e \in Holding', Frame(c)'.worker = Frame(e)'.worker
                 PROVE  c = e
      OBVIOUS
    <3>1. CASE c = top
      BY <1>3, <3>1
    <3>2. CASE c # top /\ e = top
      BY <1>3, <3>2
    <3>3. CASE c # top /\ e # top
      BY <1>3, <3>3 DEF Safe, Ownership, Apart
    <3> QED
      BY <3>1, <3>2, <3>3
  <2>2. \A c \in Holding', i \in DOMAIN idle' : Frame(c)'.worker # idle'[i]
    <3> SUFFICES ASSUME NEW c \in Holding', NEW i \in DOMAIN idle' PROVE Frame(c)'.worker # idle'[i]
      OBVIOUS
    <3>1. PICK j \in DOMAIN idle : idle[j] = idle'[i]
      OBVIOUS
    <3>2. CASE c = top
      BY <1>3, <3>2
    <3>3. CASE c # top
      BY <1>3, <3>1, <3>3 DEF Safe, Ownership, Apart
    <3> QED
      BY <3>2, <3>3
  <2> QED
    BY <2>1, <2>2 DEF Apart
<1>5. Owned'
  <2> SUFFICES ASSUME NEW w \in Workers, proc'[w].state # "off", w # x
               PROVE  \/ \E i \in DOMAIN idle' : idle'[i] = w
                      \/ \E c \in Holding' : Frame(c)'.worker = w
    BY <1>3 DEF Owned
  <2>1. CASE \E i \in DOMAIN idle : idle[i] = w
    BY <2>1
  <2>2. CASE \E c \in Holding : Frame(c).worker = w
    BY <1>3, <2>2
  <2> QED
    BY <2>1, <2>2 DEF Safe, Ownership, Owned
<1> QED
  BY <1>2, <1>4, <1>5 DEF Ownership

(* A call gives its worker up, to the pool or for good.                    *)
LEMMA LossIsOwned ==
  ASSUME Safe, NEW t \in Threads, NEW f \in CallFrame, Changes(t, f), NEW x \in Workers,
         Top(t).pc \in Using, f.pc \notin Using, Top(t).worker = x, f.worker = NoWorker,
         \A i, j \in DOMAIN idle' : idle'[i] = idle'[j] => i = j,
         \A i \in DOMAIN idle' : idle'[i] = x \/ \E j \in DOMAIN idle : idle[j] = idle'[i],
         \A i \in DOMAIN idle : \E j \in DOMAIN idle' : idle'[j] = idle[i],
         \A w \in Workers : w # x => proc'[w] = proc[w],
         proc'[x].state # "off" => \E i \in DOMAIN idle' : idle'[i] = x
  PROVE  Ownership'
<1> PICK top \in Calls : top = TopCall(t)
  BY DEF Changes
<1>1. Frame(top) = Top(t) /\ Calls' = Calls /\ x # NoWorker
      /\ \A c \in Calls : Frame(c)' = IF c = top THEN f ELSE Frame(c)
  BY PoolAssumption DEF Changes, Workers, NoWorker
<1>2. UsersHold'
  BY <1>1 DEF Safe, Ownership, UsersHold
<1>3. Holding' = Holding \ {top} /\ top \in Holding /\ Frame(top).worker = x
      /\ \A c \in Holding' : Frame(c)' = Frame(c)
  BY <1>1 DEF Holding
<1>4. Apart'
  <2>1. \A c, e \in Holding' : Frame(c)'.worker = Frame(e)'.worker => c = e
    BY <1>3 DEF Safe, Ownership, Apart
  <2>2. \A c \in Holding', i \in DOMAIN idle' : Frame(c)'.worker # idle'[i]
    <3> SUFFICES ASSUME NEW c \in Holding', NEW i \in DOMAIN idle' PROVE Frame(c)'.worker # idle'[i]
      OBVIOUS
    <3>1. Frame(c)'.worker # x
      BY <1>3 DEF Safe, Ownership, Apart
    <3>2. CASE \E j \in DOMAIN idle : idle[j] = idle'[i]
      BY <1>3, <3>2 DEF Safe, Ownership, Apart
    <3> QED
      BY <3>1, <3>2
  <2> QED
    BY <2>1, <2>2 DEF Apart
<1>5. Owned'
  <2> SUFFICES ASSUME NEW w \in Workers, proc'[w].state # "off", w # x
               PROVE  \/ \E i \in DOMAIN idle' : idle'[i] = w
                      \/ \E c \in Holding' : Frame(c)'.worker = w
    BY DEF Owned
  <2>1. CASE \E i \in DOMAIN idle : idle[i] = w
    BY <2>1
  <2>2. CASE \E c \in Holding : Frame(c).worker = w
    BY <1>3, <2>2
  <2> QED
    BY <2>1, <2>2 DEF Safe, Ownership, Owned
<1> QED
  BY <1>2, <1>4, <1>5 DEF Ownership

(* The last idle worker is taken.                                          *)
LEMMA TakingIsSafe ==
  ASSUME Safe, NEW t \in Threads, Acquire(t), idle # << >>
  PROVE  Safe'
<1> PICK top \in Calls : top = TopCall(t)
  BY TopIsCall DEF Safe, Acquire, At
<1> DEFINE n == Len(idle)
           f == [Top(t) EXCEPT !.pc = "send", !.worker = idle[n]]
<1>1. stack[t] # << >> /\ Top(t).pc = "acquire" /\ Top(t) \in CallFrame /\ Top(t).worker = NoWorker
      /\ Frame(top) = Top(t)
  BY TopHasNone, TopIsCall DEF Acquire, At, Using, Safe
<1>2. idle \in Seq(Workers) /\ n \in Nat \ {0} /\ n \in DOMAIN idle /\ idle[n] \in Workers
  BY DEF Safe, Typed
<1>3. f \in CallFrame /\ f.pc = "send" /\ f.worker = idle[n] /\ stack' = WithTop(t, f)
      /\ UNCHANGED << live, proc, phase, left >> /\ idle' = SubSeq(idle, 1, n - 1)
  BY <1>1, <1>2 DEF CallFrame, PCs, Acquire
<1>4. /\ idle' \in Seq(Workers) /\ Len(idle') = n - 1
      /\ \A i \in 1 .. n - 1 : idle'[i] = idle[i]
  <2>1. 1 \in 1 .. n + 1 /\ n - 1 \in 1 - 1 .. n
    BY <1>2
  <2>2. /\ SubSeq(idle, 1, n - 1) \in Seq(Workers)
        /\ Len(SubSeq(idle, 1, n - 1)) = IF 1 <= n - 1 THEN n - 1 - 1 + 1 ELSE 0
        /\ \A i \in 1 .. n - 1 - 1 + 1 : SubSeq(idle, 1, n - 1)[i] = idle[1 + i - 1]
    BY <1>2, <2>1, SubSeqProperties
  <2>3. \A i \in 1 .. n - 1 : i \in 1 .. n - 1 - 1 + 1 /\ 1 + i - 1 = i
    BY <1>2
  <2> HIDE DEF n
  <2>4. (IF 1 <= n - 1 THEN n - 1 - 1 + 1 ELSE 0) = n - 1
    <3>1. CASE n = 1
      BY <3>1
    <3>2. CASE n # 1
      <4>1. n \in Nat /\ 1 <= n - 1
        BY <1>2, <3>2
      <4> QED
        BY <4>1
    <3> QED
      BY <3>1, <3>2
  <2> QED
    BY <1>3, <2>2, <2>3, <2>4
<1>5. /\ DOMAIN idle' = 1 .. n - 1 /\ DOMAIN idle = (1 .. n - 1) \cup {n}
      /\ \A i \in 1 .. n - 1 : i \in DOMAIN idle /\ i # n
  BY <1>2, <1>4
<1>6. Changes(t, f) /\ Calls' = Calls /\ Frame(top)' = f
  BY <1>1, <1>3, TopChanges DEF Safe, Changes
<1>7. Ownership'
  <2>1. \A c \in Holding : Frame(c).worker # idle[n]
    BY <1>2 DEF Safe, Ownership, Apart
  <2>2. \A i \in 1 .. n - 1 : idle[i] # idle[n]
    BY <1>2, <1>5 DEF Safe, Ownership, Apart
  <2>3. \A i, j \in DOMAIN idle' : idle'[i] = idle'[j] => i = j
    BY <1>4, <1>5 DEF Safe, Ownership, Apart
  <2>4. \A i \in DOMAIN idle' : idle'[i] # idle[n] /\ \E j \in DOMAIN idle : idle[j] = idle'[i]
    BY <1>4, <1>5, <2>2
  <2>5. \A i \in DOMAIN idle : idle[i] = idle[n] \/ \E j \in DOMAIN idle' : idle'[j] = idle[i]
    BY <1>4, <1>5
  <2>6. Top(t).pc \notin Using /\ f.pc \in Using /\ \A w \in Workers : proc'[w] = proc[w]
    BY <1>1, <1>3 DEF Using
  <2> HIDE DEF f, n
  <2> QED
    BY <1>2, <1>3, <1>6, <2>1, <2>3, <2>4, <2>5, <2>6, GainIsOwned
<1>8. Pipes'
  <2>1. \A w : Clean(w)' = Clean(w)
    BY <1>3 DEF Clean
  <2>2. Pipe(top)'
    <3>1. Clean(idle[n])
      BY <1>2 DEF Safe, Pipes
    <3>2. Frame(top)'.pc = "send" /\ Frame(top)'.worker = idle[n]
      BY <1>3, <1>6
    <3> HIDE DEF f, n
    <3> QED
      BY <1>3, <3>1, <3>2 DEF Pipe, Clean
  <2>3. \A c \in Calls : c # top => Pipe(c)'
    <3>1. \A c \in Holding : Frame(c).worker # NoWorker
      BY DEF Holding
    <3> QED
      BY <1>3, <1>6, <3>1, OthersKeepPipes
  <2>4. (\A i \in DOMAIN idle : Clean(idle[i]))'
    <3>1. \A i \in DOMAIN idle' : idle'[i] = idle[i] /\ Clean(idle[i])
      BY <1>4, <1>5 DEF Safe, Pipes
    <3> QED
      BY <1>3, <3>1 DEF Clean
  <2> QED
    BY <1>6, <2>2, <2>3, <2>4 DEF Pipes
<1>9. Count'
  <2>1. Cardinality(Counted)' = Cardinality(Counted) + 1 /\ Cardinality(Counted) \in Nat
    BY <1>1, <1>3, CountChanges DEF Slots
  <2> QED
    BY <1>2, <1>3, <1>4, <2>1, PoolAssumption DEF Safe, Typed, Count
<1>10. Typed' /\ Nesting' /\ Unloaded'
  BY <1>1, <1>3, <1>4, <1>6 DEF Safe, Typed, Changes, Unloaded
<1> QED
  BY <1>7, <1>8, <1>9, <1>10 DEF Safe

LEMMA AcquireIsSafe == ASSUME Safe, NEW t \in Threads, Acquire(t) PROVE Safe'
<1>1. CASE idle # << >>
  BY <1>1, TakingIsSafe
<1>2. CASE idle = << >>
  <2> DEFINE f == [Top(t) EXCEPT !.pc = IF MayStart(t) THEN "spawn" ELSE "waiting"]
  <2>1. stack[t] # << >> /\ Top(t).pc = "acquire" /\ Top(t) \in CallFrame /\ Top(t).worker = NoWorker
    BY TopHasNone DEF Acquire, At, Using
  <2>2. /\ f \in CallFrame /\ f.pc = (IF MayStart(t) THEN "spawn" ELSE "waiting")
        /\ f.worker = NoWorker /\ stack' = WithTop(t, f)
        /\ live' = (IF MayStart(t) THEN live + 1 ELSE live)
        /\ UNCHANGED << idle, proc, phase, left >>
    BY <1>2, <2>1 DEF CallFrame, PCs, Acquire, GoTo
  <2>3. /\ Cardinality(Counted)' = Cardinality(Counted) + (IF MayStart(t) THEN 1 ELSE 0)
        /\ Cardinality(Counted) \in Nat
    <3>1. /\ "spawn" \in Slots /\ "waiting" \notin Slots /\ "acquire" \notin Slots
          /\ f.pc # "lookup"
      BY <2>2 DEF Slots
    <3> HIDE DEF f
    <3>2. CASE MayStart(t)
      BY <2>1, <2>2, <3>1, <3>2, CountChanges
    <3>3. CASE ~MayStart(t)
      <4>1. Cardinality(Counted)' = Cardinality(Counted) /\ Cardinality(Counted) \in Nat
        BY <2>1, <2>2, <3>1, <3>3, CountChanges
      <4> QED
        BY <3>3, <4>1
    <3> QED
      BY <3>2, <3>3
  <2>4. Count' /\ left' \in Budget /\ live' \in Int
    <3>1. live \in Int /\ Len(idle) \in Nat /\ live = Len(idle) + Cardinality(Counted)
          /\ Len(idle) <= 2 * MaxWorkers /\ left \in Budget
      BY DEF Safe, Typed, Count
    <3>2. CASE MayStart(t)
      BY <2>2, <2>3, <3>1, <3>2 DEF Count
    <3>3. CASE ~MayStart(t)
      BY <2>2, <2>3, <3>1, <3>3 DEF Count
    <3> QED
      BY <3>2, <3>3
  <2>5. f.pc \notin Using /\ Top(t).pc \notin Using
    BY <2>1, <2>2 DEF Using
  <2> HIDE DEF f
  <2> QED
    BY <2>1, <2>2, <2>4, <2>5, WaitingIsSafe
<1> QED
  BY <1>1, <1>2

LEMMA UnusedIsFree ==
  ASSUME Safe, NEW w \in Unused
  PROVE  /\ \A c \in Holding : Frame(c).worker # w
         /\ \A i \in DOMAIN idle : idle[i] # w
<1>1. \A i \in DOMAIN idle : Clean(idle[i])
  BY DEF Safe, Pipes
<1>2. ASSUME NEW c \in Holding PROVE proc[Frame(c).worker].state # "off"
  <2>1. c \in Calls /\ Frame(c).pc \in Using /\ Pipe(c)
    BY DEF Holding, Safe, Ownership, UsersHold, Pipes
  <2> QED
    BY <2>1 DEF Pipe, Using, Clean, Blocked, Speaks
<1> QED
  BY <1>1, <1>2 DEF Unused, Clean

LEMMA SpawnIsSafe == ASSUME Safe, NEW t \in Threads, Spawn(t) PROVE Safe'
<1> PICK top \in Calls : top = TopCall(t)
  BY TopIsCall DEF Safe, Spawn, At
<1>1. PICK w \in First : /\ proc' = [proc EXCEPT ![w] = Idle]
                        /\ stack' = WithTop(t, [Top(t) EXCEPT !.pc = "send", !.worker = w])
  BY DEF Spawn
<1> DEFINE f == [Top(t) EXCEPT !.pc = "send", !.worker = w]
<1>2. w \in Workers /\ w \in Unused
  BY DEF First, Unused
<1>3. stack[t] # << >> /\ Top(t).pc = "spawn" /\ Top(t) \in CallFrame /\ Frame(top) = Top(t)
  BY TopHasNone, TopIsCall DEF Spawn, At, Using, Safe
<1>4. f \in CallFrame /\ f.pc = "send" /\ f.worker = w /\ stack' = WithTop(t, f)
      /\ UNCHANGED << idle, live, phase, left >>
  BY <1>1, <1>2, <1>3 DEF CallFrame, PCs, Spawn
<1>5. Changes(t, f) /\ Calls' = Calls /\ Frame(top)' = f
  BY <1>3, <1>4, TopChanges DEF Safe, Changes
<1>6. Idle \in Process
  BY DEF Idle, Process, States
<1>7. /\ proc' \in [Workers -> Process] /\ proc'[w].out = << >> /\ proc'[w].state = "idle"
      /\ \A v \in Workers : v # w => proc'[v] = proc[v]
  BY <1>1, <1>2, <1>6 DEF Safe, Typed, Idle
<1>8. /\ \A c \in Holding : Frame(c).worker # w
      /\ \A i \in DOMAIN idle : idle[i] # w /\ idle[i] \in Workers
  BY <1>2, UnusedIsFree DEF Safe, Typed
<1>9. Top(t).pc \notin Using /\ f.pc \in Using
  BY <1>3, <1>4 DEF Using
<1> HIDE DEF f
<1>10. Ownership'
  <2>1. \A i, j \in DOMAIN idle' : idle'[i] = idle'[j] => i = j
    BY <1>4 DEF Safe, Ownership, Apart
  <2>2. \A i \in DOMAIN idle' : idle'[i] # w /\ \E j \in DOMAIN idle : idle[j] = idle'[i]
    BY <1>4, <1>8
  <2>3. \A i \in DOMAIN idle : idle[i] = w \/ \E j \in DOMAIN idle' : idle'[j] = idle[i]
    BY <1>4
  <2> QED
    BY <1>2, <1>4, <1>5, <1>7, <1>8, <1>9, <2>1, <2>2, <2>3, GainIsOwned
<1>11. Pipes'
  <2>1. Pipe(top)'
    BY <1>4, <1>5, <1>7 DEF Pipe, Clean
  <2>2. \A c \in Calls : c # top => Pipe(c)'
    BY <1>5, <1>7, <1>8, OthersKeepPipes
  <2>3. (\A i \in DOMAIN idle : Clean(idle[i]))'
    BY <1>4, <1>7, <1>8 DEF Safe, Pipes, Clean
  <2> QED
    BY <1>5, <2>1, <2>2, <2>3 DEF Pipes
<1>12. Count'
  <2>1. Cardinality(Counted)' = Cardinality(Counted)
    BY <1>3, <1>4, CountChanges DEF Slots
  <2> QED
    BY <1>4, <2>1 DEF Safe, Count
<1>13. Typed' /\ Nesting' /\ Unloaded'
  BY <1>3, <1>4, <1>5, <1>7 DEF Safe, Typed, Changes, Unloaded
<1> QED
  BY <1>10, <1>11, <1>12, <1>13 DEF Safe

(* The worker goes to the end of the pool, or is dropped.                  *)
LEMMA ReleaseIsSafe == ASSUME Safe, NEW t \in Threads, Release(t) PROVE Safe'
<1> PICK top \in Calls : top = TopCall(t)
  BY TopIsCall DEF Safe, Release, At
<1> PICK w : w = Top(t).worker
  OBVIOUS
<1> DEFINE f == [Top(t) EXCEPT !.pc = "notify", !.worker = NoWorker]
           n == Len(idle)
<1>1. stack[t] # << >> /\ Top(t).pc = "release" /\ Top(t) \in CallFrame /\ Frame(top) = Top(t)
  BY TopIsCall DEF Release, At, Safe
<1>2. w \in Workers /\ proc[w] \in Process /\ Clean(w)
  BY <1>1, TopHolds DEF Using
<1>3. f \in CallFrame /\ f.pc = "notify" /\ f.worker = NoWorker /\ stack' = WithTop(t, f)
      /\ UNCHANGED << phase, left >>
  BY <1>1 DEF CallFrame, PCs, Release
<1>4. Changes(t, f) /\ Calls' = Calls /\ Frame(top)' = f
  BY <1>1, <1>3, TopChanges DEF Safe, Changes
<1>5. Top(t).pc \in Using /\ f.pc \notin Using
  BY <1>1, <1>3 DEF Using
<1>6. top \in Holding /\ \A c \in Holding : c # top => Frame(c).worker # w
  <2>1. top \in Holding
    BY <1>1, <1>5 DEF Holding, Safe, Ownership, UsersHold
  <2> QED
    BY <1>1, <2>1 DEF Safe, Ownership, Apart
<1>7. \A i \in DOMAIN idle : idle[i] # w /\ idle[i] \in Workers
  BY <1>1, <1>6 DEF Safe, Typed, Ownership, Apart
<1>8. /\ Cardinality(Counted)' = Cardinality(Counted) - 1
      /\ Cardinality(Counted) \in Nat /\ Cardinality(Counted)' \in Nat
  BY <1>1, <1>3, CountChanges DEF Slots
<1>9. idle \in Seq(Workers) /\ n \in Nat /\ live \in Int /\ live = n + Cardinality(Counted)
      /\ n <= 2 * MaxWorkers
  BY DEF Safe, Typed, Count
<1>10. Pipe(top)'
  BY <1>3, <1>4 DEF Pipe
<1> HIDE DEF f
<1>11. CASE live > 2 * MaxWorkers
  <2>1. live' = live - 1 /\ proc' = [proc EXCEPT ![w] = Off] /\ idle' = idle
    BY <1>11 DEF Release
  <2>2. Off \in Process /\ Off.state = "off"
    BY DEF Off, Process, States
  <2>3. /\ proc' \in [Workers -> Process] /\ proc'[w].state = "off"
        /\ \A v \in Workers : v # w => proc'[v] = proc[v]
    BY <1>2, <2>1, <2>2 DEF Safe, Typed
  <2>4. Ownership'
    <3>1. \A i, j \in DOMAIN idle' : idle'[i] = idle'[j] => i = j
      BY <2>1 DEF Safe, Ownership, Apart
    <3> QED
      BY <1>2, <1>3, <1>4, <1>5, <2>1, <2>3, <3>1, LossIsOwned
  <2>5. Pipes'
    <3>1. \A c \in Calls : c # top => Pipe(c)'
      BY <1>4, <1>6, <2>3, OthersKeepPipes
    <3>2. (\A i \in DOMAIN idle : Clean(idle[i]))'
      BY <1>7, <2>1, <2>3 DEF Safe, Pipes, Clean
    <3> QED
      BY <1>4, <1>10, <3>1, <3>2 DEF Pipes
  <2>6. Count'
    BY <1>8, <1>9, <2>1 DEF Count
  <2>7. Typed' /\ Nesting' /\ Unloaded'
    BY <1>1, <1>3, <1>4, <2>1, <2>3 DEF Safe, Typed, Changes, Unloaded
  <2> QED
    BY <2>4, <2>5, <2>6, <2>7 DEF Safe
<1>12. CASE ~(live > 2 * MaxWorkers)
  <2>1. live' = live /\ proc' = proc /\ idle' = Append(idle, w)
    BY <1>12 DEF Release
  <2>2. /\ idle' \in Seq(Workers) /\ Len(idle') = n + 1 /\ DOMAIN idle = 1 .. n
        /\ DOMAIN idle' = (1 .. n) \cup {n + 1} /\ idle'[n + 1] = w
        /\ \A i \in 1 .. n : idle'[i] = idle[i]
    BY <1>2, <1>9, <2>1
  <2>3. Ownership'
    <3>1. \A i, j \in DOMAIN idle' : idle'[i] = idle'[j] => i = j
      <4>1. \A i, j \in 1 .. n : idle'[i] = idle'[j] => i = j
        BY <2>2 DEF Safe, Ownership, Apart
      <4>2. \A i \in 1 .. n : idle'[i] # w
        BY <1>7, <2>2
      <4> QED
        BY <2>2, <4>1, <4>2
    <3>2. \A i \in DOMAIN idle' : idle'[i] = w \/ \E j \in DOMAIN idle : idle[j] = idle'[i]
      BY <2>2
    <3>3. \A i \in DOMAIN idle : \E j \in DOMAIN idle' : idle'[j] = idle[i]
      BY <2>2
    <3>4. \E i \in DOMAIN idle' : idle'[i] = w
      BY <2>2
    <3> HIDE DEF n
    <3> QED
      BY <1>2, <1>3, <1>4, <1>5, <2>1, <3>1, <3>2, <3>3, <3>4, LossIsOwned
  <2>4. Pipes'
    <3>1. \A c \in Calls : c # top => Pipe(c)'
      BY <1>4, <1>6, <2>1, OthersKeepPipes
    <3>2. (\A i \in DOMAIN idle : Clean(idle[i]))'
      <4>1. \A i \in DOMAIN idle' : idle'[i] = w \/ (i \in DOMAIN idle /\ idle'[i] = idle[i])
        BY <2>2
      <4> QED
        BY <1>2, <2>1, <4>1 DEF Safe, Pipes, Clean
    <3> QED
      BY <1>4, <1>10, <3>1, <3>2 DEF Pipes
  <2>5. Count'
    BY <1>8, <1>9, <1>12, <2>1, <2>2, PoolAssumption DEF Count
  <2>6. Typed' /\ Nesting' /\ Unloaded'
    BY <1>1, <1>3, <1>4, <2>1, <2>2 DEF Safe, Typed, Changes, Unloaded
  <2> QED
    BY <2>3, <2>4, <2>5, <2>6 DEF Safe
<1> QED
  BY <1>11, <1>12

(* A worker that died or is too late is dropped.                           *)
LEMMA LostIsSafe ==
  ASSUME Safe, NEW t \in Threads, At(t, "called"), NEW then \in Results \cup {"none", "retry"},
         Lost(t, then), left' \in Budget
  PROVE  Safe'
<1> PICK top \in Calls : top = TopCall(t)
  BY TopIsCall DEF Safe, At
<1> PICK w : w = Top(t).worker
  OBVIOUS
<1> DEFINE f == [Top(t) EXCEPT !.pc = "discard", !.worker = NoWorker, !.then = then]
<1>1. stack[t] # << >> /\ Top(t).pc = "called" /\ Top(t) \in CallFrame /\ Frame(top) = Top(t)
  BY TopIsCall DEF At, Safe
<1>2. w \in Workers /\ proc[w] \in Process
  BY <1>1, TopHolds DEF Using
<1>3. f \in CallFrame /\ f.pc = "discard" /\ f.worker = NoWorker /\ stack' = WithTop(t, f)
      /\ UNCHANGED << idle, live, phase >> /\ proc' = [proc EXCEPT ![w] = Off]
  BY <1>1 DEF CallFrame, PCs, Lost
<1>4. Changes(t, f) /\ Calls' = Calls /\ Frame(top)' = f
  BY <1>1, <1>3, TopChanges DEF Safe, Changes
<1>5. Top(t).pc \in Using /\ f.pc \notin Using
  BY <1>1, <1>3 DEF Using
<1>6. top \in Holding /\ \A c \in Holding : c # top => Frame(c).worker # w
  <2>1. top \in Holding
    BY <1>1, <1>5 DEF Holding, Safe, Ownership, UsersHold
  <2> QED
    BY <1>1, <2>1 DEF Safe, Ownership, Apart
<1>7. \A i \in DOMAIN idle : idle[i] # w /\ idle[i] \in Workers
  BY <1>1, <1>6 DEF Safe, Typed, Ownership, Apart
<1>8. Cardinality(Counted)' = Cardinality(Counted)
  BY <1>1, <1>3, CountChanges DEF Slots
<1>9. Off \in Process /\ Off.state = "off"
  BY DEF Off, Process, States
<1>10. /\ proc' \in [Workers -> Process] /\ proc'[w].state = "off"
       /\ \A v \in Workers : v # w => proc'[v] = proc[v]
  BY <1>2, <1>3, <1>9 DEF Safe, Typed
<1>11. Pipe(top)'
  BY <1>3, <1>4 DEF Pipe
<1> HIDE DEF f
<1>12. Ownership'
  <2>1. \A i, j \in DOMAIN idle' : idle'[i] = idle'[j] => i = j
    BY <1>3 DEF Safe, Ownership, Apart
  <2> QED
    BY <1>2, <1>3, <1>4, <1>5, <1>10, <2>1, LossIsOwned
<1>13. Pipes'
  <2>1. \A c \in Calls : c # top => Pipe(c)'
    BY <1>4, <1>6, <1>10, OthersKeepPipes
  <2>2. (\A i \in DOMAIN idle : Clean(idle[i]))'
    BY <1>3, <1>7, <1>10 DEF Safe, Pipes, Clean
  <2> QED
    BY <1>4, <1>11, <2>1, <2>2 DEF Pipes
<1>14. Count'
  BY <1>3, <1>8 DEF Safe, Count
<1>15. Typed' /\ Nesting' /\ Unloaded'
  BY <1>1, <1>3, <1>4, <1>10 DEF Safe, Typed, Changes, Unloaded
<1> QED
  BY <1>12, <1>13, <1>14, <1>15 DEF Safe

(* What a thread's calls a may become, b, when a call ends: a waiting call *)
(* looks at the pool again, the call that ended goes, or it is tried once  *)
(* more.                                                                   *)
Woken(a, b) ==
  /\ Len(b) = Len(a)
  /\ \A d \in 1 .. Len(a) :
       \/ b[d] = a[d]
       \/ a[d].pc = "waiting" /\ b[d].pc = "acquire" /\ b[d].worker = a[d].worker
Shortened(a, b) ==
  /\ Len(b) = Len(a) - 1
  /\ \A d \in 1 .. Len(a) - 1 :
       IF d = Len(a) - 1 THEN b[d].pc = "reply" /\ b[d].worker = a[d].worker ELSE b[d] = a[d]
Restarted(a, b) ==
  /\ Len(b) = Len(a)
  /\ \A d \in 1 .. Len(a) :
       IF d = Len(a) THEN b[d].pc = "acquire" /\ b[d].worker = NoWorker ELSE b[d] = a[d]

LEMMA LeavingIsSafe ==
  ASSUME Safe, NEW t \in Threads, stack[t] # << >>, Top(t).pc \in {"waiting", "notify"},
         UNCHANGED << idle, live, proc, phase >>, left' \in Budget,
         stack' \in [Threads -> Seq(CallFrame)],
         \A v \in Threads : v # t => Woken(stack[v], stack'[v]),
         Shortened(stack[t], stack'[t]) \/ Restarted(stack[t], stack'[t])
  PROVE  Safe'
<1> DEFINE n == Len(stack[t])
<1>1. n \in 1 .. MaxDepth /\ TopCall(t) \in Calls /\ Frame(TopCall(t)) = Top(t)
  BY TopIsCall DEF Safe
<1>2. \A v \in Threads : Len(stack[v]) \in Nat /\ Len(stack'[v]) \in Nat /\ Len(stack[v]) <= MaxDepth
  BY DEF Safe, Typed, Nesting
<1>3. \A v \in Threads : Len(stack'[v]) <= Len(stack[v])
  BY <1>1, <1>2 DEF Woken, Shortened, Restarted
<1>4. \A c \in Calls' : c \in Calls /\ c[1] \in Threads /\ c[2] \in 1 .. Len(stack[c[1]])
                        /\ c[2] \in 1 .. Len(stack'[c[1]])
  BY <1>2, <1>3, PoolAssumption DEF Calls
<1>5. phase # "load"
  BY DEF Safe, Unloaded
<1>6. \A v \in Threads : \A d \in 1 .. Len(stack[v]) : stack[v][d].pc = "lookup" <=> d < Len(stack[v])
  BY DEF Safe, Nesting
<1>7. stack[t][n].pc \in {"waiting", "notify"}
  BY DEF Top
<1>8. Nesting'
  <2> SUFFICES ASSUME NEW v \in Threads, NEW d \in 1 .. Len(stack'[v])
               PROVE  stack'[v][d].pc = "lookup" <=> d < Len(stack'[v])
    BY <1>2, <1>3, PoolAssumption DEF Nesting
  <2>1. d \in 1 .. Len(stack[v])
    BY <1>2, <1>3
  <2>2. CASE v # t
    BY <1>2, <1>6, <2>1, <2>2 DEF Woken
  <2>3. CASE v = t
    <3>1. stack[t][d].pc = "lookup" <=> d < n
      BY <1>6, <2>1, <2>3
    <3>2. n \in Nat /\ d \in 1 .. n
      BY <1>1, <2>1, <2>3
    <3>3. CASE Shortened(stack[t], stack'[t])
      <4>1. d \in 1 .. n - 1 /\ d < n /\ Len(stack'[t]) = n - 1
        BY <2>3, <3>2, <3>3 DEF Shortened
      <4>2. d = n - 1 => stack'[t][d].pc = "reply"
        BY <3>3, <4>1 DEF Shortened
      <4>3. d # n - 1 => stack'[t][d] = stack[t][d]
        BY <3>3, <4>1 DEF Shortened
      <4> HIDE DEF n
      <4> QED
        BY <2>3, <3>1, <3>2, <4>1, <4>2, <4>3
    <3>4. CASE Restarted(stack[t], stack'[t])
      <4>1. Len(stack'[t]) = n /\ d = n => stack'[t][d].pc = "acquire"
        BY <3>2, <3>4 DEF Restarted
      <4>2. Len(stack'[t]) = n /\ (d # n => stack'[t][d] = stack[t][d])
        BY <3>2, <3>4 DEF Restarted
      <4> HIDE DEF n
      <4> QED
        BY <2>3, <3>1, <3>2, <4>1, <4>2
    <3> QED
      BY <3>3, <3>4
  <2> QED
    BY <2>2, <2>3
<1>9. ASSUME NEW c \in Calls'
      PROVE  \/ Frame(c)' = Frame(c)
             \/ /\ Frame(c).pc = "lookup" /\ Frame(c)'.pc = "reply"
                /\ Frame(c)'.worker = Frame(c).worker
             \/ /\ Frame(c).pc \in {"waiting", "notify"} /\ Frame(c)'.pc = "acquire"
                /\ Frame(c)'.worker = NoWorker
  <2> PICK v \in Threads, d \in Nat : v = c[1] /\ d = c[2] /\ d \in 1 .. Len(stack[v]) /\ d \in 1 .. Len(stack'[v])
    BY <1>4
  <2>1. Frame(c) = stack[v][d] /\ Frame(c)' = stack'[v][d] /\ c \in Calls
    BY <1>4 DEF Frame
  <2>2. stack[v][d].pc = "waiting" => stack[v][d].worker = NoWorker
    BY <2>1 DEF Safe, Ownership, UsersHold, Using
  <2>3. CASE v # t
    <3>1. \/ stack'[v][d] = stack[v][d]
          \/ /\ stack[v][d].pc = "waiting" /\ stack'[v][d].pc = "acquire"
             /\ stack'[v][d].worker = stack[v][d].worker
      BY <2>3 DEF Woken
    <3> QED
      BY <2>1, <2>2, <3>1
  <2>4. CASE v = t
    <3>1. CASE d = n
      <4>1. stack'[t][d].pc = "acquire" /\ stack'[t][d].worker = NoWorker
        BY <1>1, <1>2, <2>4, <3>1 DEF Shortened, Restarted
      <4> QED
        BY <1>7, <2>1, <2>4, <3>1, <4>1
    <3>2. CASE d # n
      <4>1. stack[t][d].pc = "lookup"
        BY <1>1, <1>6, <2>4, <3>2
      <4>2. \/ stack'[t][d] = stack[t][d]
            \/ stack'[t][d].pc = "reply" /\ stack'[t][d].worker = stack[t][d].worker
        <5>1. d \in 1 .. n - 1 /\ d \in 1 .. n
          BY <1>1, <2>4, <3>2
        <5>2. CASE Shortened(stack[t], stack'[t])
          BY <5>1, <5>2 DEF Shortened
        <5>3. CASE Restarted(stack[t], stack'[t])
          BY <3>2, <5>1, <5>3 DEF Restarted
        <5> QED
          BY <5>2, <5>3
      <4> QED
        BY <2>1, <2>4, <4>1, <4>2
    <3> QED
      BY <3>1, <3>2
  <2> QED
    BY <2>3, <2>4
<1>10. ASSUME NEW c \in Calls, c \notin Calls' PROVE Frame(c).pc \in {"waiting", "notify"}
  <2>1. c[1] \in Threads /\ c[2] \in 1 .. Len(stack[c[1]]) /\ c[2] > Len(stack'[c[1]])
    BY <1>2, <1>10 DEF Calls
  <2>2. c[1] = t /\ c[2] = n
    BY <1>1, <1>2, <2>1 DEF Woken, Shortened, Restarted
  <2> QED
    BY <1>7, <2>2 DEF Frame
<1>11. Count'
  <2>1. Counted' = Counted
    <3>1. \A c \in Calls' : Frame(c)'.pc \in Slots <=> Frame(c).pc \in Slots
      BY <1>9 DEF Slots
    <3>2. \A c \in Calls : c \notin Calls' => Frame(c).pc \notin Slots
      BY <1>10 DEF Slots
    <3> QED
      BY <1>4, <3>1, <3>2 DEF Counted
  <2> QED
    BY <2>1 DEF Safe, Count
<1>12. live' \in Int
  BY DEF Safe, Typed
<1>13. \A c \in Calls' :
           \/ /\ Frame(c)'.pc \notin Using /\ Frame(c)'.worker = NoWorker
              /\ c \in Calls => Frame(c).pc \notin Using
           \/ c \in Calls /\ Frame(c)' = Frame(c)
           \/ /\ c \in Calls /\ Frame(c).pc = "lookup" /\ Frame(c)'.pc = "reply"
              /\ Frame(c)'.worker = Frame(c).worker
  BY <1>4, <1>9 DEF Using
<1>14. \A c \in Calls : c \notin Calls' => Frame(c).pc \notin Using
  BY <1>10 DEF Using
<1> QED
  BY <1>5, <1>8, <1>11, <1>12, <1>13, <1>14, QuietIsSafe

LEMMA EndedIs ==
  ASSUME NEW s \in [Threads -> Seq(CallFrame)], NEW t \in Threads, s[t] # << >>, NEW result,
         NEW e, e = Ended(s, t, result)
  PROVE  /\ e \in [Threads -> Seq(CallFrame)]
         /\ \A v \in Threads : v # t => e[v] = s[v]
         /\ Shortened(s[t], e[t])
<1> DEFINE n == Len(s[t])
           d == n - 1
           q == SubSeq(s[t], 1, d - 1)
           g == [s[t][d] EXCEPT !.pc = "reply", !.inner = s[t][d].inner \/ result # "ok"]
<1>1. s[t] \in Seq(CallFrame) /\ n \in Nat \ {0} /\ d \in Nat /\ d = n - 1
  BY EmptySeq
<1>2. e = [s EXCEPT ![t] = IF d = 0 THEN << >> ELSE Append(q, g)]
  BY DEF Ended
<1>3. CASE d = 0
  <2>1. << >> \in Seq(CallFrame) /\ Len(<< >>) = 0
    OBVIOUS
  <2>2. e \in [Threads -> Seq(CallFrame)] /\ e[t] = << >> /\ \A v \in Threads : v # t => e[v] = s[v]
    BY <1>2, <1>3, <2>1
  <2> HIDE DEF d
  <2>3. Len(e[t]) = d
    BY <1>3, <2>1, <2>2
  <2>4. ~ \E i \in 1 .. d : TRUE
    BY <1>3
  <2> QED
    BY <2>2, <2>3, <2>4 DEF d, Shortened
<1>4. CASE d # 0
  <2>1. q \in Seq(CallFrame) /\ Len(q) = d - 1 /\ \A i \in 1 .. d - 1 : q[i] = s[t][i]
    <3>1. \A i \in 1 .. d - 1 : s[t][i] \in CallFrame
      BY <1>1
    <3>2. /\ q \in Seq(CallFrame)
          /\ Len(q) = IF 1 <= d - 1 THEN d - 1 - 1 + 1 ELSE 0
          /\ \A i \in 1 .. d - 1 - 1 + 1 : q[i] = s[t][1 + i - 1]
      BY <1>1, <3>1, SubSeqProperties
    <3> HIDE DEF q, d
    <3>3. Len(q) = d - 1
      <4>1. CASE d = 1
        BY <3>2, <4>1
      <4>2. CASE d # 1
        <5>1. 1 <= d - 1
          BY <1>1, <1>4, <4>2
        <5> QED
          BY <1>1, <3>2, <5>1
      <4> QED
        BY <4>1, <4>2
    <3>4. \A i \in 1 .. d - 1 : i \in 1 .. d - 1 - 1 + 1 /\ 1 + i - 1 = i
      BY <1>1
    <3> QED
      BY <3>2, <3>3, <3>4
  <2> HIDE DEF q
  <2>2. s[t][d] \in CallFrame
    <3> HIDE DEF d, n
    <3>1. d \in 1 .. n
      BY <1>1, <1>4
    <3> QED
      BY <1>1, <3>1 DEF n
  <2>3. g \in CallFrame /\ g.pc = "reply" /\ g.worker = s[t][d].worker
    <3>1. (s[t][d].inner \/ result # "ok") \in BOOLEAN
      BY <2>2 DEF CallFrame
    <3> QED
      BY <2>2, <3>1 DEF CallFrame, PCs
  <2> HIDE DEF g, d
  <2>4. /\ Append(q, g) \in Seq(CallFrame) /\ Len(Append(q, g)) = d
        /\ \A i \in 1 .. d : Append(q, g)[i] = IF i = d THEN g ELSE s[t][i]
    <3>1. /\ Append(q, g) \in Seq(CallFrame) /\ Len(Append(q, g)) = Len(q) + 1
          /\ Append(q, g)[Len(q) + 1] = g
          /\ \A i \in 1 .. Len(q) : Append(q, g)[i] = q[i]
      BY <2>1, <2>3, AppendProperties
    <3>2. \A i \in 1 .. d : i = d \/ i \in 1 .. d - 1
      BY <1>1
    <3> QED
      BY <1>1, <2>1, <3>1, <3>2
  <2>5. e \in [Threads -> Seq(CallFrame)] /\ e[t] = Append(q, g) /\ \A v \in Threads : v # t => e[v] = s[v]
    BY <1>2, <1>4, <2>4
  <2>6. \A i \in 1 .. d : IF i = d THEN e[t][i].pc = "reply" /\ e[t][i].worker = s[t][i].worker
                              ELSE e[t][i] = s[t][i]
    BY <2>3, <2>4, <2>5
  <2> QED
    BY <2>4, <2>5, <2>6 DEF d, Shortened
<1> QED
  BY <1>3, <1>4

LEMMA WokenAtAll == ASSUME NEW a PROVE Woken(a, a)
BY DEF Woken

LEMMA GivesUpIsSafe == ASSUME Safe, NEW t \in Threads, GivesUp(t) PROVE Safe'
<1>1. stack[t] # << >> /\ Top(t).pc = "waiting" /\ stack' = Ended(stack, t, "busy")
      /\ UNCHANGED << idle, live, proc, phase >> /\ stack \in [Threads -> Seq(CallFrame)]
  BY DEF GivesUp, At, Safe, Typed
<1>2. left' \in Budget
  BY SpendingIsTyped DEF GivesUp, Safe
<1>3. /\ stack' \in [Threads -> Seq(CallFrame)]
      /\ \A v \in Threads : v # t => stack'[v] = stack[v]
      /\ Shortened(stack[t], stack'[t])
  BY <1>1, EndedIs
<1>4. \A v \in Threads : v # t => Woken(stack[v], stack'[v])
  BY <1>3, WokenAtAll
<1> QED
  BY <1>1, <1>2, <1>3, <1>4, LeavingIsSafe

LEMMA AfterIsSafe ==
  ASSUME Safe, NEW t \in Threads, At(t, "notify"), UNCHANGED << idle, live, proc, phase, left >>,
         NEW s \in [Threads -> Seq(CallFrame)], s[t] = stack[t], stack' = After(s, t),
         \A v \in Threads : v # t => Woken(stack[v], s[v])
  PROVE  Safe'
<1> DEFINE n == Len(stack[t])
           f == stack[t][n]
<1>1. stack[t] # << >> /\ Top(t).pc = "notify" /\ n \in 1 .. MaxDepth /\ n \in Nat \ {0}
      /\ stack[t] \in Seq(CallFrame) /\ left' \in Budget
  BY TopIsCall, PoolAssumption DEF At, Safe, Typed
<1>2. f \in CallFrame
  BY <1>1
<1>3. CASE f.then = "retry"
  <2> DEFINE g == [NewCall EXCEPT !.tries = f.tries + 1]
             q == [stack[t] EXCEPT ![n] = g]
  <2>1. g \in CallFrame /\ g.pc = "acquire" /\ g.worker = NoWorker
    <3>1. f.tries \in Nat /\ f.tries + 1 \in Nat
      BY <1>2 DEF CallFrame
    <3> HIDE DEF f
    <3> QED
      BY <3>1 DEF NewCall, CallFrame, PCs
  <2>2. stack' = [s EXCEPT ![t] = q]
    BY <1>3 DEF After
  <2> HIDE DEF g, n
  <2>3. q \in Seq(CallFrame) /\ Len(q) = n /\ \A d \in 1 .. n : q[d] = IF d = n THEN g ELSE stack[t][d]
    BY <1>1, <2>1 DEF n
  <2> HIDE DEF q
  <2>4. /\ stack' \in [Threads -> Seq(CallFrame)]
        /\ stack'[t] = q
        /\ \A v \in Threads : v # t => stack'[v] = s[v]
    BY <2>2, <2>3
  <2>5. Restarted(stack[t], stack'[t])
    BY <2>1, <2>3, <2>4 DEF Restarted, n
  <2>6. \A v \in Threads : v # t => Woken(stack[v], stack'[v])
    BY <2>4
  <2> QED
    BY <1>1, <2>4, <2>5, <2>6, LeavingIsSafe
<1>4. CASE f.then # "retry"
  <2>1. stack' = Ended(s, t, f.then)
    BY <1>4 DEF After
  <2>2. s[t] # << >>
    BY <1>1
  <2>3. /\ stack' \in [Threads -> Seq(CallFrame)]
        /\ \A v \in Threads : v # t => stack'[v] = s[v]
        /\ Shortened(stack[t], stack'[t])
    BY <2>1, <2>2, EndedIs
  <2>4. \A v \in Threads : v # t => Woken(stack[v], stack'[v])
    BY <2>3
  <2> QED
    BY <1>1, <2>3, <2>4, LeavingIsSafe
<1> QED
  BY <1>3, <1>4

LEMMA NotifyIsSafe == ASSUME Safe, NEW t \in Threads, Notify(t) PROVE Safe'
<1>1. At(t, "notify") /\ UNCHANGED << idle, live, proc, phase, left >>
      /\ stack \in [Threads -> Seq(CallFrame)]
  BY DEF Notify, Safe, Typed
<1>2. CASE stack' = After(stack, t)
  BY <1>1, <1>2, WokenAtAll, AfterIsSafe
<1>3. CASE \E u \in Waiting : stack' = After(GoTo(u, "acquire"), t)
  <2>1. PICK u \in Waiting : stack' = After(GoTo(u, "acquire"), t)
    BY <1>3
  <2> DEFINE n == Len(stack[u])
             f == [Top(u) EXCEPT !.pc = "acquire"]
             q == [stack[u] EXCEPT ![n] = f]
             s == GoTo(u, "acquire")
  <2>2. u \in Threads /\ stack[u] # << >> /\ Top(u).pc = "waiting" /\ Top(u) \in CallFrame
        /\ n \in Nat \ {0} /\ u # t
    BY <1>1, TopIsCall, PoolAssumption DEF Waiting, At, Safe
  <2>3. f \in CallFrame /\ f.pc = "acquire" /\ f.worker = Top(u).worker
    BY <2>2 DEF CallFrame, PCs
  <2>4. s = [stack EXCEPT ![u] = q]
    BY DEF GoTo, WithTop
  <2> HIDE DEF f
  <2>5. q \in Seq(CallFrame) /\ Len(q) = n /\ \A d \in 1 .. n : q[d] = IF d = n THEN f ELSE stack[u][d]
    BY <1>1, <2>2, <2>3
  <2>6. s \in [Threads -> Seq(CallFrame)] /\ s[u] = q /\ \A v \in Threads : v # u => s[v] = stack[v]
    BY <1>1, <2>2, <2>4, <2>5
  <2> HIDE DEF s, q
  <2>7. s[t] = stack[t]
    BY <2>2, <2>6
  <2>8. Woken(stack[u], s[u])
    BY <2>2, <2>3, <2>5, <2>6 DEF Top, Woken
  <2>9. \A v \in Threads : Woken(stack[v], s[v])
    BY <2>6, <2>8, WokenAtAll
  <2>10. stack' = After(s, t)
    BY <2>1 DEF s
  <2> QED
    BY <1>1, <2>6, <2>7, <2>9, <2>10, AfterIsSafe
<1> QED
  BY <1>2, <1>3 DEF Notify

LEMMA NewCallIsTyped ==
  NewCall \in CallFrame /\ NewCall.pc = "acquire" /\ NewCall.worker = NoWorker
BY DEF NewCall, CallFrame, PCs

LEMMA CallIsSafe == ASSUME Safe, NEW t \in Threads, Call(t) PROVE Safe'
<1>1. stack \in [Threads -> Seq(CallFrame)] /\ stack[t] = << >> /\ phase = "run"
      /\ stack' = [stack EXCEPT ![t] = << NewCall >>] /\ UNCHANGED << idle, live, proc, phase >>
  BY DEF Call, Safe, Typed
<1>2. left' \in Budget /\ live' \in Int
  BY SpendingIsTyped DEF Call, Safe, Typed
<1>3. << NewCall >> \in Seq(CallFrame) /\ Len(<< NewCall >>) = 1 /\ << NewCall >>[1] = NewCall
  BY NewCallIsTyped
<1>4. /\ stack' \in [Threads -> Seq(CallFrame)] /\ stack'[t] = << NewCall >>
      /\ \A v \in Threads : v # t => stack'[v] = stack[v]
  BY <1>1, <1>3
<1>5. \A c \in Calls : c[1] # t /\ c \in Calls' /\ Frame(c)' = Frame(c)
  <2> SUFFICES ASSUME NEW c \in Calls PROVE c[1] # t /\ c \in Calls' /\ Frame(c)' = Frame(c)
    OBVIOUS
  <2>1. c[1] \in Threads /\ c[2] \in 1 .. MaxDepth /\ c[2] <= Len(stack[c[1]])
    BY DEF Calls
  <2>2. c[1] # t
    BY <1>1, <2>1, PoolAssumption
  <2> QED
    BY <1>4, <2>1, <2>2 DEF Calls, Frame
<1>6. \A c \in Calls' : c \in Calls \/ (c = << t, 1 >> /\ Frame(c)' = NewCall)
  <2> SUFFICES ASSUME NEW c \in Calls' PROVE c \in Calls \/ (c = << t, 1 >> /\ Frame(c)' = NewCall)
    OBVIOUS
  <2>1. c = << c[1], c[2] >> /\ c[1] \in Threads /\ c[2] \in 1 .. MaxDepth /\ c[2] <= Len(stack'[c[1]])
    BY DEF Calls
  <2>2. CASE c[1] = t
    <3>1. c[2] = 1
      BY <1>3, <1>4, <2>1, <2>2
    <3> QED
      BY <1>3, <1>4, <2>1, <2>2, <3>1 DEF Frame
  <2>3. CASE c[1] # t
    BY <1>4, <2>1, <2>3 DEF Calls
  <2> QED
    BY <2>2, <2>3
<1>7. Nesting'
  BY <1>1, <1>3, <1>4, NewCallIsTyped, PoolAssumption DEF Safe, Nesting
<1>8. Count'
  <2>1. Counted' = Counted
    BY <1>5, <1>6, NewCallIsTyped DEF Counted, Slots
  <2> QED
    BY <1>1, <2>1 DEF Safe, Count
<1>9. \A c \in Calls' : \/ Frame(c)'.pc \notin Using /\ Frame(c)'.worker = NoWorker
                           /\ (c \in Calls => Frame(c).pc \notin Using)
                        \/ c \in Calls /\ Frame(c)' = Frame(c)
  <2>1. << t, 1 >> \notin Calls
    BY <1>5
  <2> QED
    BY <1>5, <1>6, <2>1, NewCallIsTyped DEF Using
<1> QED
  BY <1>1, <1>2, <1>4, <1>5, <1>7, <1>8, <1>9, QuietIsSafe

(* Answering a lookup takes a call of its own.                             *)
LEMMA CallAgainIsSafe == ASSUME Safe, NEW t \in Threads, CallAgain(t) PROVE Safe'
<1> PICK w : w = Top(t).worker
  OBVIOUS
<1> PICK n : n = Len(stack[t])
  OBVIOUS
<1> PICK g : g = [Top(t) EXCEPT !.pc = "lookup"]
  OBVIOUS
<1> PICK top : top = TopCall(t)
  OBVIOUS
<1> PICK new : new = << t, n + 1 >>
  OBVIOUS
<1>1. /\ stack[t] # << >> /\ Top(t).pc = "called" /\ Top(t) \in CallFrame
      /\ w \in Workers /\ proc[w] \in Process /\ Tail(proc[w].out) = << >>
      /\ proc[w].state \in {"asking", "dead"}
  BY LineIsRead DEF CallAgain
<1>2. n \in 1 .. MaxDepth /\ n \in Nat \ {0} /\ top \in Calls /\ Frame(top) = Top(t)
      /\ Top(t) = stack[t][n] /\ top = << t, n >>
  <2>1. Len(stack[t]) \in 1 .. MaxDepth /\ TopCall(t) \in Calls /\ Frame(TopCall(t)) = Top(t)
    BY <1>1, TopIsCall DEF Safe
  <2>2. n \in 1 .. MaxDepth
    BY <2>1
  <2> QED
    BY <2>1, <2>2, PoolAssumption DEF Top, TopCall
<1>3. stack \in [Threads -> Seq(CallFrame)] /\ stack[t] \in Seq(CallFrame)
  BY DEF Safe, Typed
<1>4. g \in CallFrame /\ g.pc = "lookup" /\ g.worker = w
  BY <1>1 DEF CallFrame, PCs
<1>5. n + 1 <= MaxDepth
  <2>1. n < left.depth /\ left.depth \in 1 .. MaxDepth
    BY DEF CallAgain, Safe, Typed, Budget
  <2> QED
    BY <1>2, <2>1, PoolAssumption
<1> PICK q : q = [stack[t] EXCEPT ![n] = g]
  OBVIOUS
<1>6. q \in Seq(CallFrame) /\ Len(q) = n /\ \A d \in 1 .. n : q[d] = IF d = n THEN g ELSE stack[t][d]
  BY <1>2, <1>3, <1>4
<1>7. stack' = [stack EXCEPT ![t] = Append(q, NewCall)]
  <2>1. GoTo(t, "lookup") = [stack EXCEPT ![t] = q]
    BY <1>2 DEF GoTo, WithTop
  <2> QED
    BY <1>3, <2>1 DEF CallAgain
<1>8. /\ Append(q, NewCall) \in Seq(CallFrame) /\ Len(Append(q, NewCall)) = n + 1
      /\ Append(q, NewCall)[n + 1] = NewCall
      /\ \A d \in 1 .. n : Append(q, NewCall)[d] = q[d]
  BY <1>6, NewCallIsTyped, AppendProperties
<1>9. /\ stack' \in [Threads -> Seq(CallFrame)] /\ Len(stack'[t]) = n + 1
      /\ stack'[t][n + 1] = NewCall
      /\ \A d \in 1 .. n : stack'[t][d] = IF d = n THEN g ELSE stack[t][d]
      /\ \A v \in Threads : v # t => stack'[v] = stack[v]
  BY <1>3, <1>6, <1>7, <1>8
<1>10. /\ proc' = [proc EXCEPT ![w].out = << >>] /\ UNCHANGED << idle, live, phase, left >>
  BY <1>1 DEF CallAgain, Safe, Typed
<1>11. /\ proc' \in [Workers -> Process] /\ Blocked(w)'
       /\ proc'[w].state # "off"
       /\ \A v \in Workers : v # w => proc'[v] = proc[v]
       /\ \A v \in Workers : proc'[v].state # "off" => proc[v].state # "off"
  <2>1. [proc[w] EXCEPT !.out = << >>] \in Process
    <3>1. << >> \in Seq(OutLine)
      OBVIOUS
    <3> QED
      BY <1>1, <3>1 DEF Process
  <2>2. proc' = [proc EXCEPT ![w] = [proc[w] EXCEPT !.out = << >>]]
    BY <1>10
  <2> QED
    BY <1>1, <2>1, <2>2 DEF Safe, Typed, Blocked, Process
<1>12. Calls' = Calls \cup {new} /\ new \notin Calls
  <2>1. \A v \in Threads : Len(stack'[v]) = IF v = t THEN n + 1 ELSE Len(stack[v])
    BY <1>9
  <2>2. \A c \in Threads \X (1 .. MaxDepth) : c = << c[1], c[2] >>
    OBVIOUS
  <2>3. new \in Threads \X (1 .. MaxDepth) /\ new[1] = t /\ new[2] = n + 1
    BY <1>2, <1>5, PoolAssumption
  <2>4. \A c \in Calls' : c \in Calls \/ c = new
    <3> SUFFICES ASSUME NEW c \in Calls', c \notin Calls PROVE c = new
      OBVIOUS
    <3>1. c \in Threads \X (1 .. MaxDepth) /\ c[2] <= Len(stack'[c[1]]) /\ ~(c[2] <= Len(stack[c[1]]))
      BY DEF Calls
    <3>2. c[1] = t /\ c[2] = n + 1
      BY <1>2, <2>1, <3>1, PoolAssumption
    <3> QED
      BY <2>2, <3>1, <3>2
  <2>5. \A c \in Calls : c \in Calls'
    <3> SUFFICES ASSUME NEW c \in Calls PROVE c \in Calls'
      OBVIOUS
    <3>1. c \in Threads \X (1 .. MaxDepth) /\ c[2] <= Len(stack[c[1]])
      BY DEF Calls
    <3>2. CASE c[1] = t
      <4>1. c[2] \in Int /\ c[2] <= n /\ Len(stack'[t]) = n + 1
        BY <1>2, <2>1, <3>1, <3>2
      <4> QED
        BY <1>2, <3>1, <3>2, <4>1 DEF Calls
    <3>3. CASE c[1] # t
      BY <2>1, <3>1, <3>3 DEF Calls
    <3> QED
      BY <3>2, <3>3
  <2>6. new \in Calls' /\ new \notin Calls
    BY <1>2, <2>1, <2>3 DEF Calls
  <2> QED
    BY <2>4, <2>5, <2>6
<1>13. Frame(new)' = NewCall /\ Frame(top)' = g /\ \A c \in Calls : c # top => Frame(c)' = Frame(c)
  <2>1. Frame(new)' = NewCall /\ Frame(top)' = g
    <3>1. new[1] = t /\ new[2] = n + 1 /\ top[1] = t /\ top[2] = n
      BY <1>2
    <3>2. n \in 1 .. n
      BY <1>2
    <3>3. stack'[t][n] = g
      BY <1>9, <3>2
    <3> QED
      BY <1>9, <3>1, <3>3 DEF Frame
  <2>2. ASSUME NEW c \in Calls, c # top PROVE Frame(c)' = Frame(c)
    <3>1. c = << c[1], c[2] >> /\ c[1] \in Threads /\ c[2] \in 1 .. MaxDepth /\ c[2] <= Len(stack[c[1]])
      BY DEF Calls
    <3>2. CASE c[1] = t
      <4>1. c[2] \in 1 .. n /\ c[2] # n
        BY <1>2, <2>2, <3>1, <3>2, PoolAssumption
      <4> QED
        BY <1>9, <3>2, <4>1 DEF Frame
    <3>3. CASE c[1] # t
      BY <1>9, <3>1, <3>3 DEF Frame
    <3> QED
      BY <3>2, <3>3
  <2> QED
    BY <2>1, <2>2
<1>14. UsersHold'
  <2>1. Frame(new)'.pc \notin Using /\ Frame(new)'.worker = NoWorker
    BY <1>13, NewCallIsTyped DEF Using
  <2>2. Frame(top)'.pc \in Using /\ Frame(top)'.worker # NoWorker
    BY <1>1, <1>4, <1>13, PoolAssumption DEF Using, Workers, NoWorker
  <2>3. \A c \in Calls : c # top => (Frame(c)'.worker # NoWorker <=> Frame(c)'.pc \in Using)
    BY <1>13 DEF Safe, Ownership, UsersHold
  <2> QED
    BY <1>12, <2>1, <2>2, <2>3 DEF UsersHold
<1>15. Holding' = Holding /\ \A c \in Holding : Frame(c)'.worker = Frame(c).worker
  <2>1. w # NoWorker
    BY <1>1, PoolAssumption DEF Workers, NoWorker
  <2>2. \A c \in Calls : Frame(c)'.worker = Frame(c).worker
    BY <1>2, <1>4, <1>13
  <2>3. Frame(new)'.worker = NoWorker
    BY <1>13, NewCallIsTyped
  <2> QED
    BY <1>12, <2>2, <2>3 DEF Holding
<1>16. Ownership'
  BY <1>10, <1>11, <1>14, <1>15, OwnersStay DEF Safe, Ownership
<1>17. top \in Holding /\ Frame(top).worker = w
  BY <1>1, <1>2 DEF Holding, Safe, Ownership, UsersHold, Using
<1>18. Pipes'
  <2>1. (\A i \in DOMAIN idle : Clean(idle[i]))'
    <3>1. \A i \in DOMAIN idle : idle[i] \in Workers /\ idle[i] # w
      BY <1>17 DEF Safe, Typed, Ownership, Apart
    <3> QED
      BY <1>10, <1>11, <3>1 DEF Safe, Pipes, Clean
  <2>2. Pipe(top)'
    BY <1>4, <1>11, <1>13 DEF Pipe
  <2>3. Pipe(new)'
    BY <1>13, NewCallIsTyped DEF Pipe
  <2>4. ASSUME NEW c \in Calls, c # top PROVE Pipe(c)'
    <3>1. Frame(c)' = Frame(c) /\ Frame(c) \in CallFrame /\ Pipe(c)
      BY <1>13, <2>4, FramesAreTyped DEF Safe, Pipes
    <3>2. CASE Frame(c).pc \notin Using
      BY <3>1, <3>2 DEF Pipe, Using
    <3>3. CASE Frame(c).pc \in Using
      <4>1. c \in Holding
        BY <3>3 DEF Holding, Safe, Ownership, UsersHold
      <4>2. Frame(c).worker \in Workers /\ Frame(c).worker # w
        BY <1>17, <2>4, <3>1, <4>1 DEF Safe, Ownership, Apart, Holding, CallFrame
      <4> QED
        BY <1>11, <3>1, <4>2 DEF Pipe, Clean, Blocked, Speaks
    <3> QED
      BY <3>2, <3>3
  <2> QED
    BY <1>12, <2>1, <2>2, <2>3, <2>4 DEF Pipes
<1>19. Count'
  <2>1. Counted' = Counted
    <3>1. Frame(new)'.pc \notin Slots
      BY <1>13, NewCallIsTyped DEF Slots
    <3>2. Frame(top).pc \in Slots /\ Frame(top)'.pc \in Slots
      BY <1>1, <1>2, <1>4, <1>13 DEF Slots
    <3>3. \A c \in Calls : c # top => Frame(c)'.pc = Frame(c).pc
      BY <1>13
    <3> QED
      BY <1>2, <1>12, <3>1, <3>2, <3>3 DEF Counted
  <2> QED
    BY <1>10, <2>1 DEF Safe, Count
<1>20. Nesting'
  <2> SUFFICES ASSUME NEW v \in Threads
               PROVE  /\ Len(stack'[v]) <= MaxDepth
                      /\ \A d \in 1 .. Len(stack'[v]) : stack'[v][d].pc = "lookup" <=> d < Len(stack'[v])
    BY DEF Nesting
  <2>1. CASE v # t
    <3>1. stack'[v] = stack[v]
      BY <1>9, <2>1
    <3> QED
      BY <3>1 DEF Safe, Nesting
  <2>2. CASE v = t
    <3>1. \A d \in 1 .. n : stack[t][d].pc = "lookup" <=> d < n
      BY DEF Safe, Nesting
    <3>2. \A d \in 1 .. n : stack'[t][d].pc = "lookup"
      <4> SUFFICES ASSUME NEW d \in 1 .. n PROVE stack'[t][d].pc = "lookup"
        OBVIOUS
      <4>1. CASE d = n
        BY <1>4, <1>9, <4>1
      <4>2. CASE d # n
        <5>1. d < n
          BY <1>2, <4>2
        <5> QED
          BY <1>9, <3>1, <4>2, <5>1
      <4> QED
        BY <4>1, <4>2
    <3>3. \A d \in 1 .. n + 1 : (d \in 1 .. n /\ d < n + 1) \/ (d = n + 1 /\ ~(d < n + 1))
      BY <1>2
    <3>4. Len(stack'[t]) = n + 1 /\ n + 1 <= MaxDepth /\ stack'[t][n + 1].pc # "lookup"
      BY <1>5, <1>9, NewCallIsTyped
    <3>5. \A d \in 1 .. n + 1 : stack'[t][d].pc = "lookup" <=> d < n + 1
      BY <3>2, <3>3, <3>4
    <3>6. Len(stack'[v]) <= MaxDepth
      BY <2>2, <3>4
    <3>7. \A d \in 1 .. Len(stack'[v]) : stack'[v][d].pc = "lookup" <=> d < Len(stack'[v])
      BY <2>2, <3>4, <3>5
    <3> QED
      BY <3>6, <3>7
  <2> QED
    BY <2>1, <2>2
<1>21. Typed' /\ Unloaded'
  BY <1>1, <1>9, <1>10, <1>11 DEF Safe, Typed, Unloaded
<1> QED
  BY <1>16, <1>18, <1>19, <1>20, <1>21 DEF Safe

LEMMA LoadIsSafe == ASSUME Safe, Load PROVE Safe'
<1>1. CASE UNCHANGED << idle, live, proc, stack, left >> /\ phase' # "load"
  <2>1. Calls' = Calls /\ \A c : Frame(c)' = Frame(c)
    BY <1>1 DEF Calls, Frame
  <2>2. Holding' = Holding /\ Counted' = Counted
    BY <2>1 DEF Holding, Counted
  <2>3. \A c : Pipe(c)' = Pipe(c)
    BY <1>1, <2>1, SMTT(30) DEF Pipe, Clean, Blocked, Speaks
  <2>4. \A w : Clean(w)' = Clean(w)
    BY <1>1 DEF Clean
  <2> QED
    BY <1>1, <2>1, <2>2, <2>3, <2>4 DEF Safe, Typed, Nesting, Ownership, UsersHold, Apart, Owned,
       Pipes, Count, Unloaded
<1>2. CASE LoadBySpawn
  <2>1. PICK w \in First : proc' = [proc EXCEPT ![w] = Idle] /\ idle' = Append(idle, w)
    BY <1>2 DEF LoadBySpawn
  <2>2. w \in Workers
    BY DEF First, Unused
  <2>3. idle = << >> /\ live = 0 /\ \A t \in Threads : stack[t] = << >>
    BY <1>2 DEF LoadBySpawn, Safe, Unloaded
  <2>4. live' = 1 /\ phase' = "run" /\ UNCHANGED << stack, left >>
    BY <1>2, <2>3 DEF LoadBySpawn
  <2>5. idle' \in Seq(Workers) /\ Len(idle') = 1 /\ idle'[1] = w /\ DOMAIN idle' = {1}
    BY <2>1, <2>2, <2>3
  <2>6. Calls = {} /\ Calls' = {}
    <3>1. \A c \in Threads \X (1 .. MaxDepth) : ~(c[2] <= Len(stack[c[1]]))
      BY <2>3, PoolAssumption
    <3> QED
      BY <2>4, <3>1 DEF Calls
  <2>7. Holding = {} /\ Holding' = {} /\ Counted = {} /\ Counted' = {}
    BY <2>6 DEF Holding, Counted
  <2>8. Idle \in Process /\ Idle.out = << >> /\ Idle.state = "idle"
    BY DEF Idle, Process, States
  <2>9. proc' \in [Workers -> Process] /\ proc'[w] = Idle /\ \A v \in Workers : v # w => proc'[v] = proc[v]
    BY <2>1, <2>2, <2>8 DEF Safe, Typed
  <2>10. \A v \in Workers : proc[v].state = "off"
    BY <2>3, <2>7 DEF Safe, Ownership, Owned
  <2>11. Ownership'
    BY <2>5, <2>6, <2>7, <2>9, <2>10 DEF Ownership, UsersHold, Apart, Owned
  <2>12. Pipes'
    BY <2>5, <2>6, <2>8, <2>9 DEF Pipes, Clean
  <2>13. Count'
    <3>1. Cardinality(Counted)' = 0
      BY <2>7, FS_EmptySet
    <3> QED
      BY <2>4, <2>5, <3>1, PoolAssumption DEF Count
  <2>14. Typed' /\ Nesting' /\ Unloaded'
    BY <2>4, <2>5, <2>9 DEF Safe, Typed, Nesting, Unloaded
  <2> QED
    BY <2>11, <2>12, <2>13, <2>14 DEF Safe
<1> QED
  BY <1>1, <1>2 DEF Load, LoadKnown, LoadFails

LEMMA InitIsSafe == Init => Safe
<1> SUFFICES ASSUME Init PROVE Safe
  OBVIOUS
<1>1. Calls = {}
  <2>1. \A c \in Threads \X (1 .. MaxDepth) : ~(c[2] <= Len(stack[c[1]]))
    BY PoolAssumption DEF Init
  <2> QED
    BY <2>1 DEF Calls
<1>2. Holding = {} /\ Counted = {} /\ Cardinality(Counted) = 0
  BY <1>1, FS_EmptySet DEF Holding, Counted
<1>3. Off \in Process /\ Off.state = "off"
  BY DEF Off, Process, States
<1>4. Typed
  BY <1>3, PoolAssumption DEF Init, Typed, Budget
<1>5. Nesting /\ Ownership /\ Pipes /\ Unloaded
  BY <1>1, <1>2, <1>3, PoolAssumption DEF Init, Nesting, Ownership, UsersHold, Apart, Owned, Pipes, Unloaded
<1>6. Count
  BY <1>2, PoolAssumption DEF Init, Count
<1> QED
  BY <1>4, <1>5, <1>6 DEF Safe

LEMMA TakingBackIsSafe ==
  ASSUME Safe, NEW t \in Threads, Died(t) \/ TimedOut(t)
  PROVE  Safe'
<1>1. CASE Died(t)
  <2>1. At(t, "called") /\ left' \in Budget
    BY <1>1 DEF Died, Reading, Safe, Typed
  <2>2. Lost(t, "retry") \/ Lost(t, "died")
    BY <1>1 DEF Died
  <2> QED
    BY <2>1, <2>2, LostIsSafe DEF Results
<1>2. CASE TimedOut(t)
  <2>1. At(t, "called") /\ left' \in Budget /\ Lost(t, "timeout")
    BY <1>2, SpendingIsTyped DEF TimedOut, Safe
  <2> QED
    BY <2>1, LostIsSafe DEF Results
<1> QED
  BY <1>1, <1>2

(* The pool is safe: a worker has one owner at most, what it writes is for *)
(* the call that has it, and `live` is what is idle, used and on its way.  *)
THEOREM PoolIsSafe == Spec => []Safe
<1>1. Safe /\ [Next]_vars => Safe'
  <2> SUFFICES ASSUME Safe, [Next]_vars PROVE Safe'
    OBVIOUS
  <2>1. CASE Load
    BY <2>1, LoadIsSafe
  <2>2. ASSUME NEW t \in Threads,
               \/ Call(t) \/ Proceeds(t) \/ CallAgain(t) \/ SpawnFails(t) \/ GivesUp(t)
               \/ TimedOut(t) \/ Asks(t) \/ PrintsRubbish(t)
        PROVE  Safe'
    <3>1. CASE Proceeds(t)
      <4>1. CASE Send(t) \/ Reply(t)
        BY <4>1, WriteIsSafe DEF Send, Reply
      <4> QED
        BY <3>1, <4>1, AcquireIsSafe, SpawnIsSafe, ReleaseIsSafe, DiscardIsSafe, NotifyIsSafe,
           ReadingIsSafe, TakingBackIsSafe, WorkerWritesIsSafe DEF Proceeds
    <3> QED
      BY <2>2, <3>1, CallIsSafe, CallAgainIsSafe, SpawnFailsIsSafe, GivesUpIsSafe,
         TakingBackIsSafe, WorkerWritesIsSafe
  <2>3. ASSUME NEW w \in Workers, Dies(w) PROVE Safe'
    BY <2>3, DyingIsSafe
  <2>4. CASE UNCHANGED vars
    BY <2>4, UnchangedIsSafe DEF vars
  <2> QED
    BY <2>1, <2>2, <2>3, <2>4 DEF Next, Done
<1> QED
  BY <1>1, InitIsSafe, PTL DEF Spec
-----------------------------------------------------------------------------
(* What follows from it.                                                   *)

LEMMA OwnAnswers == ASSUME Safe PROVE AnswersAreOwn
<1>1. \A i \in DOMAIN idle : proc[idle[i]].state \in {"idle", "dead"} /\ proc[idle[i]].out = << >>
  BY DEF Safe, Pipes, Clean
<1>2. ASSUME NEW c \in Holding, NEW i \in DOMAIN proc[Frame(c).worker].out
      PROVE  proc[Frame(c).worker].out[i].request = << c[1], c[2], Frame(c).tries >>
  <2>1. c \in Calls /\ Frame(c) \in CallFrame /\ Frame(c).pc \in Using /\ Pipe(c)
    BY FramesAreTyped DEF Holding, Safe, Ownership, UsersHold, Pipes
  <2>2. Frame(c).worker \in Workers
    BY <2>1 DEF Holding, CallFrame
  <2>3. proc[Frame(c).worker].out \in Seq(OutLine) /\ i \in 1 .. Len(proc[Frame(c).worker].out)
    BY <2>2 DEF Safe, Typed, Process
  <2>4. proc[Frame(c).worker].out # << >>
    BY <2>3
  <2>5. Speaks(Frame(c).worker, << c[1], c[2], Frame(c).tries >>)
    BY <2>1, <2>4 DEF Pipe, Using, Clean, Blocked
  <2> QED
    BY <2>3, <2>5 DEF Speaks
<1> QED
  BY <1>1, <1>2 DEF AnswersAreOwn

(* No call ever reads a line that answers another call, another attempt or *)
(* a call long given up.                                                   *)
THEOREM AnswersAreAlwaysOwn == Spec => []AnswersAreOwn
BY PoolIsSafe, OwnAnswers, PTL

LEMMA CountedWorkers == ASSUME Safe PROVE WorkersAreCounted
<1>1. live = Len(idle) + Cardinality(Counted) /\ Len(idle) <= 2 * MaxWorkers
  BY DEF Safe, Count
<1>2. ASSUME NEW w \in Workers
      PROVE  Cardinality({i \in DOMAIN idle : idle[i] = w}) + Cardinality(Owners(w))
               = (IF proc[w].state = "off" THEN 0 ELSE 1)
  <2> DEFINE P == {i \in DOMAIN idle : idle[i] = w}
             O == Owners(w)
  <2>1. Cardinality({}) = 0 /\ \A x : Cardinality({x}) = 1
    BY FS_EmptySet, FS_Singleton
  <2>2. CASE proc[w].state = "off"
    <3>1. P = {} /\ O = {}
      BY <2>2, UnusedIsFree DEF Unused, Owners
    <3> HIDE DEF P, O
    <3> QED
      BY <2>1, <2>2, <3>1 DEF P, O
  <2>3. CASE proc[w].state # "off" /\ \E i \in DOMAIN idle : idle[i] = w
    <3>1. PICK i \in DOMAIN idle : idle[i] = w
      BY <2>3
    <3>2. P = {i} /\ O = {}
      BY <3>1 DEF Safe, Ownership, Apart, Owners
    <3>3. Cardinality(P) = 1 /\ Cardinality(O) = 0
      BY <2>1, <3>2
    <3> HIDE DEF P, O
    <3> QED
      BY <2>3, <3>3 DEF P, O
  <2>4. CASE proc[w].state # "off" /\ \E c \in Holding : Frame(c).worker = w
    <3>1. PICK c \in Holding : Frame(c).worker = w
      BY <2>4
    <3>2. P = {} /\ O = {c}
      BY <3>1 DEF Safe, Ownership, Apart, Owners
    <3>3. Cardinality(P) = 0 /\ Cardinality(O) = 1
      BY <2>1, <3>2
    <3> HIDE DEF P, O
    <3> QED
      BY <2>4, <3>3 DEF P, O
  <2> QED
    BY <2>2, <2>3, <2>4 DEF Safe, Ownership, Owned
<1> QED
  BY <1>1, <1>2 DEF WorkersAreCounted

(* Workers are neither leaked nor used twice, and `live` is never wrong.   *)
THEOREM WorkersAreAlwaysCounted == Spec => []WorkersAreCounted
BY PoolIsSafe, CountedWorkers, PTL
-----------------------------------------------------------------------------
(* Waiting threads are woken up.                                           *)

\* The threads that are about to look at the pool or to wake up another.
Looking == {t \in Threads : At(t, "acquire") \/ At(t, "notify")}

LEMMA LookingIsFinite ==
  /\ IsFiniteSet(Looking) /\ IsFiniteSet(Looking')
  /\ Cardinality(Looking) \in Nat /\ Cardinality(Looking)' \in Nat
<1>1. Looking \subseteq Threads /\ Looking' \subseteq Threads
  BY DEF Looking
<1> QED
  BY <1>1, PoolAssumption, FS_Subset, FS_CardinalityType

LEMMA FreeIsTyped ==
  ASSUME Typed
  PROVE  Free \in Nat /\ Len(idle) \in Nat /\ live \in Int /\ MaxWorkers \in Nat
<1>1. Len(idle) \in Nat /\ live \in Int /\ MaxWorkers \in Nat
  BY PoolAssumption DEF Typed
<1>2. live < MaxWorkers => MaxWorkers - live \in Nat
  BY <1>1
<1> QED
  BY <1>1, <1>2 DEF Free

LEMMA FreeStaysTyped == ASSUME Typed' PROVE Free' \in Nat
<1>1. Len(idle)' \in Nat /\ live' \in Int /\ MaxWorkers \in Nat
  BY PoolAssumption DEF Typed
<1>2. \A l \in Int : l < MaxWorkers => MaxWorkers - l \in Nat
  BY <1>1
<1> QED
  BY <1>1, <1>2 DEF Free

(* A step that frees nothing and keeps everybody looking who did.          *)
LEMMA NothingIsFreed ==
  ASSUME NoWakeUpIsLost, Typed, Typed', Waiting' \subseteq Waiting, Looking \subseteq Looking',
         Free' <= Free
  PROVE  NoWakeUpIsLost'
<1>1. Cardinality(Looking) <= Cardinality(Looking)'
  BY LookingIsFinite, FS_Subset
<1>2. Free \in Nat /\ Free' \in Nat
  BY FreeIsTyped, FreeStaysTyped
<1>3. Waiting' # {} => Free <= Cardinality(Looking)
  BY DEF NoWakeUpIsLost, Looking
<1>4. Waiting' # {} => Free' <= Cardinality(Looking)'
  BY <1>1, <1>2, <1>3, LookingIsFinite
<1> QED
  BY <1>4 DEF NoWakeUpIsLost, Looking

(* Something is freed and a thread is about to tell.                       *)
LEMMA OneIsFreed ==
  ASSUME NoWakeUpIsLost, Typed, Typed', Waiting' \subseteq Waiting, NEW t, t \notin Looking,
         Looking' = Looking \cup {t}, Free' <= Free + 1
  PROVE  NoWakeUpIsLost'
<1>1. Cardinality(Looking)' = Cardinality(Looking) + 1
  BY LookingIsFinite, FS_AddElement
<1>2. Free \in Nat /\ Free' \in Nat
  BY FreeIsTyped, FreeStaysTyped
<1>3. Waiting' # {} => Free <= Cardinality(Looking)
  BY DEF NoWakeUpIsLost, Looking
<1>4. Waiting' # {} => Free' <= Cardinality(Looking)'
  BY <1>1, <1>2, <1>3, LookingIsFinite
<1> QED
  BY <1>4 DEF NoWakeUpIsLost, Looking

(* A thread that looked takes something, or another looks for it.          *)
LEMMA OneIsTaken ==
  ASSUME NoWakeUpIsLost, Typed, Typed', Waiting' \subseteq Waiting, NEW t \in Looking,
         Looking' = Looking \ {t}, Free' <= Free - 1
  PROVE  NoWakeUpIsLost'
<1>1. Cardinality(Looking)' = Cardinality(Looking) - 1
  BY LookingIsFinite, FS_RemoveElement
<1>2. Free \in Nat /\ Free' \in Nat
  BY FreeIsTyped, FreeStaysTyped
<1>3. Waiting' # {} => Free <= Cardinality(Looking)
  BY DEF NoWakeUpIsLost, Looking
<1>4. Waiting' # {} => Free' <= Cardinality(Looking)'
  BY <1>1, <1>2, <1>3, LookingIsFinite
<1> QED
  BY <1>4 DEF NoWakeUpIsLost, Looking

LEMMA AtChanges ==
  ASSUME Safe, NEW t \in Threads, stack[t] # << >>, NEW f \in CallFrame, stack' = WithTop(t, f)
  PROVE  \A u \in Threads : \A pc : At(u, pc)' <=> IF u = t THEN f.pc = pc ELSE At(u, pc)
<1> DEFINE n == Len(stack[t])
           q == [stack[t] EXCEPT ![n] = f]
<1>1. n \in Nat \ {0} /\ stack \in [Threads -> Seq(CallFrame)] /\ stack[t] \in Seq(CallFrame)
  BY EmptySeq DEF Safe, Typed
<1>2. q \in Seq(CallFrame) /\ Len(q) = n /\ q[n] = f /\ q # << >>
  BY <1>1
<1>3. stack' = [stack EXCEPT ![t] = q]
  BY DEF WithTop
<1>4. stack'[t] = q /\ \A u \in Threads : u # t => stack'[u] = stack[u]
  BY <1>1, <1>3
<1> QED
  BY <1>2, <1>4 DEF At, Top

(* A thread's innermost call goes on, and neither waits nor looks.         *)
LEMMA NobodyElseMoves ==
  ASSUME NoWakeUpIsLost, Safe, Safe', NEW t \in Threads, stack[t] # << >>, NEW f \in CallFrame,
         stack' = WithTop(t, f), Top(t).pc \notin {"acquire", "waiting", "notify"},
         f.pc \notin {"acquire", "waiting", "notify"}, UNCHANGED << idle, live >>
  PROVE  NoWakeUpIsLost'
<1>1. Looking' = Looking /\ Waiting' = Waiting
  <2>1. \A u \in Threads : \A pc \in {"acquire", "waiting", "notify"} : At(u, pc)' <=> At(u, pc)
    <3> SUFFICES ASSUME NEW u \in Threads, NEW pc \in {"acquire", "waiting", "notify"}
                 PROVE  At(u, pc)' <=> At(u, pc)
      OBVIOUS
    <3>1. CASE u = t
      <4>1. ~At(t, pc) /\ f.pc # pc
        BY DEF At
      <4> QED
        BY <3>1, <4>1, AtChanges
    <3>2. CASE u # t
      BY <3>2, AtChanges
    <3> QED
      BY <3>1, <3>2
  <2> QED
    BY <2>1 DEF Looking, Waiting
<1>2. Free' = Free /\ Free \in Nat
  BY FreeIsTyped DEF Free, Safe
<1> QED
  BY <1>1, <1>2, NothingIsFreed DEF Safe

LEMMA OneShorter ==
  ASSUME NEW s \in Seq(Workers), s # << >>
  PROVE  Len(SubSeq(s, 1, Len(s) - 1)) = Len(s) - 1
<1> DEFINE n == Len(s) - 1
<1>1. Len(s) \in Nat \ {0} /\ n \in Nat /\ \A i \in 1 .. n : s[i] \in Workers
  BY EmptySeq
<1>2. Len(SubSeq(s, 1, n)) = IF 1 <= n THEN n - 1 + 1 ELSE 0
  BY <1>1, SubSeqProperties
<1> HIDE DEF n
<1>3. CASE n = 0
  BY <1>2, <1>3 DEF n
<1>4. CASE n # 0
  <2>1. 1 <= n /\ n - 1 + 1 = n
    BY <1>1, <1>4
  <2> QED
    BY <1>2, <2>1 DEF n
<1> QED
  BY <1>3, <1>4

LEMMA AcquireTellsAll ==
  ASSUME NoWakeUpIsLost, Safe, Safe', NEW t \in Threads, Acquire(t) PROVE NoWakeUpIsLost'
<1>1. stack[t] # << >> /\ Top(t).pc = "acquire" /\ Top(t) \in CallFrame /\ t \in Looking
  BY TopIsCall DEF Acquire, At, Safe, Looking
<1>2. Free \in Nat /\ Len(idle) \in Nat /\ live \in Int /\ MaxWorkers \in Nat /\ idle \in Seq(Workers)
  BY FreeIsTyped DEF Safe, Typed
<1>3. CASE idle # << >>
  <2> DEFINE f == [Top(t) EXCEPT !.pc = "send", !.worker = idle[Len(idle)]]
  <2>1. idle[Len(idle)] \in Workers /\ Len(idle) >= 1
    BY <1>2, <1>3
  <2>2. f \in CallFrame /\ f.pc = "send" /\ stack' = WithTop(t, f) /\ live' = live
        /\ idle' = SubSeq(idle, 1, Len(idle) - 1)
    BY <1>1, <1>3, <2>1 DEF Acquire, CallFrame, PCs
  <2>3. Len(idle') = Len(idle) - 1
    BY <1>2, <1>3, <2>2, OneShorter
  <2>4. Free' = Free - 1
    <3> DEFINE room == IF live < MaxWorkers THEN MaxWorkers - live ELSE 0
    <3>1. room \in Nat /\ Free = Len(idle) + room
      BY <1>2 DEF Free
    <3>2. Free' = Len(idle') + room
      BY <2>2 DEF Free
    <3> HIDE DEF room
    <3> QED
      BY <1>2, <2>3, <3>1, <3>2
  <2> HIDE DEF f
  <2>5. Looking' = Looking \ {t} /\ Waiting' = Waiting
    <3>1. \A u \in Threads : /\ At(u, "acquire")' <=> u # t /\ At(u, "acquire")
                             /\ At(u, "notify")' <=> u # t /\ At(u, "notify")
                             /\ At(u, "waiting")' <=> u # t /\ At(u, "waiting")
      BY <1>1, <2>2, AtChanges
    <3> QED
      BY <1>1, <3>1 DEF Looking, Waiting, At
  <2> QED
    BY <1>1, <1>2, <2>4, <2>5, OneIsTaken DEF Safe
<1>4. CASE idle = << >> /\ MayStart(t)
  <2> DEFINE f == [Top(t) EXCEPT !.pc = "spawn"]
  <2>1. f \in CallFrame /\ f.pc = "spawn" /\ stack' = WithTop(t, f) /\ live' = live + 1 /\ idle' = idle
    BY <1>1, <1>4 DEF Acquire, CallFrame, PCs, GoTo
  <2> HIDE DEF f
  <2>2. Looking' = Looking \ {t} /\ Waiting' = Waiting
    <3>1. \A u \in Threads : /\ At(u, "acquire")' <=> u # t /\ At(u, "acquire")
                             /\ At(u, "notify")' <=> u # t /\ At(u, "notify")
                             /\ At(u, "waiting")' <=> u # t /\ At(u, "waiting")
      BY <1>1, <2>1, AtChanges
    <3> QED
      BY <1>1, <3>1 DEF Looking, Waiting, At
  <2>3. CASE live < MaxWorkers
    <3>1. Free' = Free - 1
      <4>1. CASE live + 1 < MaxWorkers
        BY <1>2, <2>1, <2>3, <4>1 DEF Free
      <4>2. CASE ~(live + 1 < MaxWorkers)
        BY <1>2, <2>1, <2>3, <4>2 DEF Free
      <4> QED
        BY <4>1, <4>2
    <3> QED
      BY <1>1, <1>2, <2>2, <3>1, OneIsTaken DEF Safe
  <2>4. CASE ~(live < MaxWorkers)
    <3>1. Len(idle) = 0 /\ ~(live + 1 < MaxWorkers)
      BY <1>2, <1>4, <2>4
    <3>2. Free' = 0
      BY <1>2, <2>1, <3>1 DEF Free
    <3> QED
      BY <3>2, LookingIsFinite DEF NoWakeUpIsLost, Looking
  <2> QED
    BY <2>3, <2>4
<1>5. CASE idle = << >> /\ ~MayStart(t)
  <2>1. live' = live /\ idle' = idle /\ Len(idle) = 0 /\ ~(live < MaxWorkers)
    BY <1>5 DEF Acquire, MayStart
  <2>2. Free' = 0
    BY <1>2, <2>1 DEF Free
  <2> QED
    BY <2>2, LookingIsFinite DEF NoWakeUpIsLost, Looking
<1> QED
  BY <1>3, <1>4, <1>5

LEMMA GivingBackTells ==
  ASSUME NoWakeUpIsLost, Safe, Safe', NEW t \in Threads, Release(t) \/ Discard(t)
  PROVE  NoWakeUpIsLost'
<1> PICK f : f = IF Top(t).pc = "release" THEN [Top(t) EXCEPT !.pc = "notify", !.worker = NoWorker]
                 ELSE [Top(t) EXCEPT !.pc = "notify"]
  OBVIOUS
<1>1. stack[t] # << >> /\ Top(t).pc \in {"release", "discard"} /\ Top(t) \in CallFrame
  BY TopIsCall DEF Release, Discard, At, Safe
<1>2. stack' = WithTop(t, f)
  BY <1>1 DEF Release, Discard, GoTo, At
<1>3. f \in CallFrame /\ f.pc = "notify"
  BY <1>1 DEF CallFrame, PCs
<1>4. /\ t \notin Looking /\ Looking' = Looking \cup {t} /\ Waiting' = Waiting
  <2>1. \A u \in Threads : /\ At(u, "acquire")' <=> u # t /\ At(u, "acquire")
                           /\ At(u, "notify")' <=> u = t \/ At(u, "notify")
                           /\ At(u, "waiting")' <=> u # t /\ At(u, "waiting")
    <3> SUFFICES ASSUME NEW u \in Threads
                 PROVE  /\ At(u, "acquire")' <=> u # t /\ At(u, "acquire")
                        /\ At(u, "notify")' <=> u = t \/ At(u, "notify")
                        /\ At(u, "waiting")' <=> u # t /\ At(u, "waiting")
      OBVIOUS
    <3>1. \A pc : At(u, pc)' <=> IF u = t THEN f.pc = pc ELSE At(u, pc)
      BY <1>1, <1>2, <1>3, AtChanges
    <3>2. CASE u = t
      BY <1>3, <3>1, <3>2
    <3>3. CASE u # t
      BY <3>1, <3>3
    <3> QED
      BY <3>2, <3>3
  <2>2. ~At(t, "acquire") /\ ~At(t, "notify") /\ ~At(t, "waiting")
    BY <1>1 DEF At
  <2> QED
    BY <2>1, <2>2 DEF Looking, Waiting
<1>5. Free \in Nat /\ Len(idle) \in Nat /\ live \in Int /\ MaxWorkers \in Nat /\ idle \in Seq(Workers)
  BY FreeIsTyped DEF Safe, Typed
<1>6. Free' <= Free + 1
  <2>1. CASE live' = live - 1 /\ idle' = idle
    <3>1. CASE live < MaxWorkers
      <4>1. live - 1 < MaxWorkers
        BY <1>5, <3>1
      <4> QED
        BY <1>5, <2>1, <3>1, <4>1 DEF Free
    <3>2. CASE ~(live < MaxWorkers)
      <4>1. live - 1 < MaxWorkers => MaxWorkers - (live - 1) <= 1
        BY <1>5, <3>2
      <4> QED
        BY <1>5, <2>1, <3>2, <4>1 DEF Free
    <3> QED
      BY <3>1, <3>2
  <2>2. CASE live' = live /\ \E w \in Workers : idle' = Append(idle, w)
    <3>1. Len(idle') = Len(idle) + 1
      BY <1>5, <2>2
    <3> QED
      BY <1>5, <2>2, <3>1 DEF Free
  <2>3. Release(t) => Top(t).worker \in Workers
    BY <1>1, TopHolds DEF Release, At, Using
  <2> QED
    BY <2>1, <2>2, <2>3 DEF Release, Discard
<1> QED
  BY <1>4, <1>6, OneIsFreed DEF Safe

(* One thread ends a call or tries it again, and may wake up another: who  *)
(* looked at the pool still does, and who waits waited.                    *)
LEMMA LeavingTells ==
  ASSUME NoWakeUpIsLost, Safe, Safe', NEW t \in Threads, stack[t] # << >>,
         Top(t).pc \in {"waiting", "notify"}, UNCHANGED << idle, live >>,
         Shortened(stack[t], stack'[t]) \/ Restarted(stack[t], stack'[t]),
         \/ Waiting = {} \/ Top(t).pc = "waiting"
         \/ \E u \in Waiting : u # t /\ At(u, "acquire")',
         \A v \in Threads : v # t => Woken(stack[v], stack'[v])
  PROVE  NoWakeUpIsLost'
<1>1. Waiting' \subseteq Waiting
  <2> SUFFICES ASSUME NEW v \in Threads, At(v, "waiting")' PROVE At(v, "waiting")
    BY DEF Waiting
  <2>1. stack'[v] # << >> /\ stack'[v][Len(stack'[v])].pc = "waiting" /\ Len(stack'[v]) \in Nat \ {0}
        /\ Len(stack[v]) \in Nat /\ stack[v] \in Seq(CallFrame)
    BY EmptySeq DEF At, Top, Safe, Typed
  <2>2. CASE v # t
    <3>1. Woken(stack[v], stack'[v])
      BY <2>2
    <3>2. Len(stack'[v]) = Len(stack[v]) /\ Len(stack[v]) \in 1 .. Len(stack[v])
      BY <2>1, <3>1 DEF Woken
    <3>3. stack[v][Len(stack[v])].pc = "waiting"
      BY <2>1, <3>1, <3>2 DEF Woken
    <3> QED
      BY <2>1, <3>2, <3>3 DEF At, Top
  <2>3. CASE v = t
    <3>1. CASE Shortened(stack[t], stack'[t])
      <4>1. Len(stack'[t]) = Len(stack[t]) - 1 /\ Len(stack'[t]) \in 1 .. Len(stack[t]) - 1
        BY <2>1, <2>3, <3>1 DEF Shortened
      <4>2. stack'[t][Len(stack'[t])].pc = "reply"
        BY <3>1, <4>1 DEF Shortened
      <4> QED
        BY <2>1, <2>3, <4>2
    <3>2. CASE Restarted(stack[t], stack'[t])
      <4>1. Len(stack'[t]) = Len(stack[t]) /\ Len(stack[t]) \in 1 .. Len(stack[t])
        BY <2>1, <2>3, <3>2 DEF Restarted
      <4>2. stack'[t][Len(stack'[t])].pc = "acquire"
        BY <3>2, <4>1 DEF Restarted
      <4> QED
        BY <2>1, <2>3, <4>2
    <3> QED
      BY <3>1, <3>2
  <2> QED
    BY <2>2, <2>3
<1>2. \A v \in Looking : v # t => v \in Looking'
  <2> SUFFICES ASSUME NEW v \in Threads, v # t, At(v, "acquire") \/ At(v, "notify")
               PROVE  At(v, "acquire")' \/ At(v, "notify")'
    BY DEF Looking
  <2>1. Woken(stack[v], stack'[v]) /\ stack[v] \in Seq(CallFrame) /\ stack'[v] \in Seq(CallFrame)
    BY DEF Safe, Typed
  <2>2. Len(stack[v]) \in 1 .. Len(stack[v]) /\ Len(stack'[v]) = Len(stack[v])
    BY <2>1, EmptySeq DEF At, Woken
  <2>3. stack[v][Len(stack[v])].pc \in {"acquire", "notify"}
    BY DEF At, Top
  <2>4. stack'[v][Len(stack[v])] = stack[v][Len(stack[v])]
    BY <2>1, <2>2, <2>3 DEF Woken
  <2>5. stack'[v] # << >>
    BY <2>1, <2>2, EmptySeq
  <2> QED
    BY <2>2, <2>3, <2>4, <2>5 DEF At, Top
<1>3. Free' = Free /\ Free \in Nat
  BY FreeIsTyped DEF Free, Safe
<1>4. CASE Waiting = {}
  BY <1>1, <1>4 DEF NoWakeUpIsLost
<1>5. CASE Top(t).pc = "waiting"
  <2>1. t \notin Looking
    BY <1>5 DEF Looking, At
  <2> QED
    BY <1>1, <1>2, <1>3, <2>1, NothingIsFreed DEF Safe
<1>6. CASE \E u \in Waiting : u # t /\ At(u, "acquire")'
  <2>1. PICK u \in Waiting : u # t /\ At(u, "acquire")'
    BY <1>6
  <2>2. u \in Threads /\ u \notin Looking /\ u \in Looking'
    BY <2>1 DEF Waiting, Looking, At
  <2>3. (Looking \ {t}) \cup {u} \subseteq Looking'
    BY <1>2, <2>2
  <2>4. /\ IsFiniteSet(Looking \ {t}) /\ IsFiniteSet((Looking \ {t}) \cup {u})
        /\ Cardinality(Looking) <= Cardinality(Looking \ {t}) + 1
        /\ Cardinality(Looking \ {t}) \in Nat
    <3>1. IsFiniteSet(Looking \ {t})
      BY LookingIsFinite, FS_Subset
    <3>2. IsFiniteSet((Looking \ {t}) \cup {u}) /\ Cardinality(Looking \ {t}) \in Nat
      BY <3>1, FS_AddElement, FS_CardinalityType
    <3>3. CASE t \in Looking
      <4>1. Cardinality(Looking \ {t}) = Cardinality(Looking) - 1
        BY <3>3, LookingIsFinite, FS_RemoveElement
      <4> QED
        BY <3>1, <3>2, <4>1, LookingIsFinite
    <3>4. CASE t \notin Looking
      <4>1. Looking \ {t} = Looking
        BY <3>4
      <4> QED
        <5>1. Cardinality(Looking) <= Cardinality(Looking) + 1
          BY LookingIsFinite
        <5> QED
          BY <3>1, <3>2, <4>1, <5>1
    <3> QED
      BY <3>3, <3>4
  <2>5. Cardinality((Looking \ {t}) \cup {u}) = Cardinality(Looking \ {t}) + 1
    BY <2>2, <2>4, FS_AddElement
  <2>6. Cardinality((Looking \ {t}) \cup {u}) <= Cardinality(Looking)'
    BY <2>3, <2>4, LookingIsFinite, FS_Subset
  <2>7. Cardinality(Looking) <= Cardinality(Looking)'
    BY <2>4, <2>5, <2>6, LookingIsFinite
  <2>8. Free <= Cardinality(Looking)
    BY <2>1 DEF NoWakeUpIsLost, Looking
  <2>9. Free' <= Cardinality(Looking)'
    BY <1>3, <2>7, <2>8, LookingIsFinite
  <2> QED
    BY <2>9 DEF NoWakeUpIsLost, Looking
<1> QED
  BY <1>4, <1>5, <1>6

LEMMA GivingUpTells ==
  ASSUME NoWakeUpIsLost, Safe, Safe', NEW t \in Threads, GivesUp(t) PROVE NoWakeUpIsLost'
<1>1. stack[t] # << >> /\ Top(t).pc = "waiting" /\ stack' = Ended(stack, t, "busy")
      /\ UNCHANGED << idle, live >> /\ stack \in [Threads -> Seq(CallFrame)]
  BY DEF GivesUp, At, Safe, Typed
<1>2. /\ \A v \in Threads : v # t => stack'[v] = stack[v]
      /\ Shortened(stack[t], stack'[t])
  BY <1>1, EndedIs
<1>3. \A v \in Threads : v # t => Woken(stack[v], stack'[v])
  BY <1>2, WokenAtAll
<1> QED
  BY <1>1, <1>2, <1>3, LeavingTells

LEMMA AfterIs ==
  ASSUME NEW s \in [Threads -> Seq(CallFrame)], NEW t \in Threads, s[t] # << >>, NEW e, e = After(s, t)
  PROVE  /\ \A v \in Threads : v # t => e[v] = s[v]
         /\ Shortened(s[t], e[t]) \/ Restarted(s[t], e[t])
<1> DEFINE n == Len(s[t])
           f == s[t][n]
<1>1. n \in Nat \ {0} /\ s[t] \in Seq(CallFrame) /\ f \in CallFrame
  BY EmptySeq
<1>2. CASE f.then = "retry"
  <2> DEFINE g == [NewCall EXCEPT !.tries = f.tries + 1]
             q == [s[t] EXCEPT ![n] = g]
  <2>1. g \in CallFrame /\ g.pc = "acquire" /\ g.worker = NoWorker
    <3>1. f.tries \in Nat /\ f.tries + 1 \in Nat
      BY <1>1 DEF CallFrame
    <3> HIDE DEF f
    <3> QED
      BY <3>1 DEF NewCall, CallFrame, PCs
  <2>2. e = [s EXCEPT ![t] = q]
    BY <1>2 DEF After
  <2> HIDE DEF g, n
  <2>3. q \in Seq(CallFrame) /\ Len(q) = n /\ \A d \in 1 .. n : q[d] = IF d = n THEN g ELSE s[t][d]
    BY <1>1, <2>1 DEF n
  <2> HIDE DEF q
  <2>4. e[t] = q /\ \A v \in Threads : v # t => e[v] = s[v]
    BY <2>2, <2>3
  <2>5. Restarted(s[t], e[t])
    BY <2>1, <2>3, <2>4 DEF Restarted, n
  <2> QED
    BY <2>4, <2>5
<1>3. CASE f.then # "retry"
  <2>1. e = Ended(s, t, f.then)
    BY <1>3 DEF After
  <2> QED
    BY <2>1, EndedIs
<1> QED
  BY <1>2, <1>3

LEMMA NotifyTells ==
  ASSUME NoWakeUpIsLost, Safe, Safe', NEW t \in Threads, Notify(t) PROVE NoWakeUpIsLost'
<1>1. stack[t] # << >> /\ Top(t).pc = "notify" /\ UNCHANGED << idle, live >>
      /\ stack \in [Threads -> Seq(CallFrame)]
  BY DEF Notify, At, Safe, Typed
<1>2. CASE Waiting = {}
  <2>1. stack' = After(stack, t)
    BY <1>2 DEF Notify
  <2>2. /\ \A v \in Threads : v # t => stack'[v] = stack[v]
        /\ Shortened(stack[t], stack'[t]) \/ Restarted(stack[t], stack'[t])
    BY <1>1, <2>1, AfterIs
  <2>3. \A v \in Threads : v # t => Woken(stack[v], stack'[v])
    BY <2>2, WokenAtAll
  <2> QED
    BY <1>1, <1>2, <2>2, <2>3, LeavingTells
<1>3. CASE Waiting # {}
  <2>1. PICK u \in Waiting : stack' = After(GoTo(u, "acquire"), t)
    BY <1>3 DEF Notify
  <2> DEFINE n == Len(stack[u])
             f == [Top(u) EXCEPT !.pc = "acquire"]
             q == [stack[u] EXCEPT ![n] = f]
             s == GoTo(u, "acquire")
  <2>2. u \in Threads /\ stack[u] # << >> /\ Top(u).pc = "waiting" /\ Top(u) \in CallFrame
        /\ n \in Nat \ {0} /\ u # t
    BY <1>1, TopIsCall, PoolAssumption DEF Waiting, At, Safe
  <2>3. f \in CallFrame /\ f.pc = "acquire" /\ f.worker = Top(u).worker
    BY <2>2 DEF CallFrame, PCs
  <2>4. s = [stack EXCEPT ![u] = q]
    BY DEF GoTo, WithTop
  <2> HIDE DEF f
  <2>5. q \in Seq(CallFrame) /\ Len(q) = n /\ \A d \in 1 .. n : q[d] = IF d = n THEN f ELSE stack[u][d]
    BY <1>1, <2>2, <2>3
  <2>6. s \in [Threads -> Seq(CallFrame)] /\ s[u] = q /\ \A v \in Threads : v # u => s[v] = stack[v]
    BY <1>1, <2>2, <2>4, <2>5
  <2>7. q # << >> /\ q[Len(q)] = f
    BY <2>2, <2>5
  <2> HIDE DEF q
  <2>8. Woken(stack[u], s[u])
    BY <2>2, <2>3, <2>5, <2>6 DEF Top, Woken
  <2>9. stack' = After(s, t)
    BY <2>1
  <2> HIDE DEF s
  <2>10. s[t] = stack[t]
    BY <2>2, <2>6
  <2>11. \A v \in Threads : Woken(stack[v], s[v])
    BY <2>6, <2>8, WokenAtAll
  <2>12. /\ \A v \in Threads : v # t => stack'[v] = s[v]
         /\ Shortened(s[t], stack'[t]) \/ Restarted(s[t], stack'[t])
    <3>1. s[t] # << >>
      BY <1>1, <2>10
    <3> QED
      BY <2>6, <2>9, <3>1, AfterIs
  <2>13. \A v \in Threads : v # t => Woken(stack[v], stack'[v])
    BY <2>11, <2>12
  <2>14. At(u, "acquire")'
    <3>1. stack'[u] = q
      BY <2>2, <2>6, <2>12
    <3> QED
      BY <2>3, <2>7, <3>1 DEF At, Top
  <2> QED
    BY <1>1, <2>2, <2>10, <2>12, <2>13, <2>14, LeavingTells
<1> QED
  BY <1>2, <1>3

(* A call that begins looks at the pool.                                   *)
LEMMA CallingTells ==
  ASSUME NoWakeUpIsLost, Safe, Safe', NEW t \in Threads, Call(t) \/ CallAgain(t)
  PROVE  NoWakeUpIsLost'
<1>1. t \notin Looking /\ t \notin Waiting /\ UNCHANGED << idle, live >>
  BY DEF Call, CallAgain, Reading, Looking, Waiting, At
<1>2. \A v \in Threads : v # t => stack'[v] = stack[v]
  BY DEF Call, CallAgain, GoTo, WithTop, Safe, Typed
<1>3. stack'[t] # << >> /\ Top(t)'.pc = "acquire"
  <2>1. CASE Call(t)
    <3>1. stack'[t] = << NewCall >>
      BY <2>1 DEF Call, Safe, Typed
    <3> QED
      BY <3>1, NewCallIsTyped DEF Top
  <2>2. CASE CallAgain(t)
    <3> DEFINE q == GoTo(t, "lookup")[t]
    <3>1. stack[t] \in Seq(CallFrame) /\ stack[t] # << >> /\ Top(t) \in CallFrame
          /\ Len(stack[t]) \in Nat \ {0}
      BY <2>2, LineIsRead, EmptySeq DEF CallAgain, Safe, Typed
    <3>2. [Top(t) EXCEPT !.pc = "lookup"] \in CallFrame
      BY <3>1 DEF CallFrame, PCs
    <3>3. q = [stack[t] EXCEPT ![Len(stack[t])] = [Top(t) EXCEPT !.pc = "lookup"]]
      BY DEF GoTo, WithTop, Safe, Typed
    <3>4. q \in Seq(CallFrame)
      BY <3>1, <3>2, <3>3
    <3>5. stack'[t] = Append(q, NewCall)
      BY <2>2 DEF CallAgain, GoTo, WithTop, Safe, Typed
    <3> HIDE DEF q
    <3>6. stack'[t] # << >> /\ stack'[t][Len(stack'[t])] = NewCall
      BY <3>4, <3>5, NewCallIsTyped
    <3> QED
      BY <3>6, NewCallIsTyped DEF Top
  <2> QED
    BY <2>1, <2>2
<1>4. Looking' = Looking \cup {t} /\ Waiting' = Waiting
  <2>1. \A v \in Threads : v # t => \A pc : At(v, pc)' <=> At(v, pc)
    BY <1>2 DEF At, Top
  <2>2. \A pc : At(t, pc)' <=> pc = "acquire"
    BY <1>3 DEF At
  <2> QED
    BY <1>1, <2>1, <2>2 DEF Looking, Waiting
<1>5. Free' = Free /\ Free \in Nat
  BY <1>1, FreeIsTyped DEF Free, Safe
<1> QED
  BY <1>1, <1>4, <1>5, OneIsFreed DEF Safe

LEMMA StillTells ==
  ASSUME NoWakeUpIsLost, Safe, Safe', UNCHANGED << idle, live, stack >>
  PROVE  NoWakeUpIsLost'
BY DEF NoWakeUpIsLost, Free, Waiting, At, Top

(* The other steps change one call, which neither waits nor looks.         *)
LEMMA WorkingTells ==
  ASSUME NoWakeUpIsLost, Safe, Safe', NEW t \in Threads,
         \/ Spawn(t) \/ SpawnFails(t) \/ Send(t) \/ Reply(t) \/ AnswerLookup(t) \/ Answered(t)
         \/ Failed(t) \/ Died(t) \/ TimedOut(t) \/ Asks(t) \/ Concludes(t) \/ PrintsRubbish(t)
  PROVE  NoWakeUpIsLost'
<1>1. stack[t] # << >> /\ Top(t).pc \in {"spawn", "send", "reply", "called"} /\ Top(t) \in CallFrame
      /\ UNCHANGED << idle, live >>
  BY TopIsCall DEF Safe, At, Spawn, SpawnFails, Send, Reply, AnswerLookup, Answered, Failed, Died,
     TimedOut, Asks, Concludes, PrintsRubbish, Reading, Prints, Consume, Lost
<1>2. CASE stack' = stack
  BY <1>1, <1>2, StillTells
<1>3. CASE \E f \in CallFrame : /\ stack' = WithTop(t, f)
                                /\ f.pc \in {"send", "called", "reply", "release", "discard"}
  BY <1>1, <1>3, NobodyElseMoves
<1>4. CASE Spawn(t)
  <2>1. PICK w \in First : stack' = WithTop(t, [Top(t) EXCEPT !.pc = "send", !.worker = w])
    BY <1>4 DEF Spawn
  <2>2. [Top(t) EXCEPT !.pc = "send", !.worker = w] \in CallFrame
    BY <1>1 DEF CallFrame, PCs, First, Unused
  <2> QED
    BY <1>1, <1>3, <2>1, <2>2 DEF CallFrame
<1>5. CASE SpawnFails(t)
  <2>1. [Top(t) EXCEPT !.pc = "discard", !.then = "unstartable"] \in CallFrame
    BY <1>1 DEF CallFrame, PCs, Results
  <2> QED
    BY <1>1, <1>3, <1>5, <2>1 DEF SpawnFails, CallFrame
<1>6. CASE Send(t) \/ Reply(t)
  <2>1. [Top(t) EXCEPT !.pc = "called"] \in CallFrame
    BY <1>1 DEF CallFrame, PCs
  <2> QED
    BY <1>1, <1>2, <1>3, <1>6, <2>1 DEF Send, Reply, Write, GoTo, CallFrame
<1>7. CASE AnswerLookup(t)
  <2>1. PICK fails \in BOOLEAN :
           stack' = WithTop(t, [Top(t) EXCEPT !.pc = "reply", !.inner = @ \/ fails])
    BY <1>7 DEF AnswerLookup, Consume
  <2>2. (Top(t).inner \/ fails) \in BOOLEAN
    BY <1>1 DEF CallFrame
  <2>3. [Top(t) EXCEPT !.pc = "reply", !.inner = @ \/ fails] \in CallFrame
    BY <1>1, <2>2 DEF CallFrame, PCs
  <2> QED
    BY <1>1, <1>3, <2>1, <2>3 DEF CallFrame
<1>8. CASE Answered(t)
  <2>1. [Top(t) EXCEPT !.pc = "release", !.then = "ok"] \in CallFrame
    BY <1>1 DEF CallFrame, PCs, Results
  <2> QED
    BY <1>1, <1>3, <1>8, <2>1 DEF Answered, Consume, CallFrame
<1>9. CASE Failed(t)
  <2>1. [Top(t) EXCEPT !.pc = "release", !.then = IF Top(t).inner THEN "inner" ELSE "failed"]
           \in CallFrame
    BY <1>1 DEF CallFrame, PCs, Results
  <2> QED
    BY <1>1, <1>3, <1>9, <2>1 DEF Failed, Consume, CallFrame
<1>10. CASE Died(t) \/ TimedOut(t)
  <2>1. PICK then \in {"retry", "died", "timeout"} : Lost(t, then)
    BY <1>10 DEF Died, TimedOut
  <2>2. [Top(t) EXCEPT !.pc = "discard", !.worker = NoWorker, !.then = then] \in CallFrame
    BY <1>1 DEF CallFrame, PCs, Results
  <2> QED
    BY <1>1, <1>3, <2>1, <2>2 DEF Lost, CallFrame
<1>11. CASE Asks(t)
  <2>1. [Top(t) EXCEPT !.asks = @ + 1] \in CallFrame /\ Top(t).pc = "called"
    BY <1>1, <1>11 DEF CallFrame, Asks, At
  <2> QED
    BY <1>1, <1>3, <1>11, <2>1 DEF Asks, CallFrame
<1>12. CASE Concludes(t) \/ PrintsRubbish(t)
  BY <1>2, <1>12 DEF Concludes, PrintsRubbish
<1> QED
  BY <1>4, <1>5, <1>6, <1>7, <1>8, <1>9, <1>10, <1>11, <1>12

(* While anybody waits, what is free in the pool is on its way to somebody. *)
THEOREM WakeUpsAreNeverLost == Spec => []NoWakeUpIsLost
<1>1. Init => NoWakeUpIsLost
  BY DEF Init, NoWakeUpIsLost, Waiting, At
<1>2. NoWakeUpIsLost /\ Safe /\ Safe' /\ [Next]_vars => NoWakeUpIsLost'
  <2> SUFFICES ASSUME NoWakeUpIsLost, Safe, Safe', [Next]_vars PROVE NoWakeUpIsLost'
    OBVIOUS
  <2>1. CASE Load
    <3>1. Waiting' = {}
      BY <2>1 DEF Load, LoadKnown, LoadBySpawn, LoadFails, Waiting, At, Safe, Unloaded
    <3> QED
      BY <3>1 DEF NoWakeUpIsLost
  <2>2. ASSUME NEW t \in Threads,
               \/ Call(t) \/ Proceeds(t) \/ CallAgain(t) \/ SpawnFails(t) \/ GivesUp(t)
               \/ TimedOut(t) \/ Asks(t) \/ PrintsRubbish(t)
        PROVE  NoWakeUpIsLost'
    <3>1. CASE Proceeds(t)
      BY <3>1, AcquireTellsAll, GivingBackTells, NotifyTells, WorkingTells DEF Proceeds
    <3> QED
      BY <2>2, <3>1, CallingTells, GivingUpTells, WorkingTells
  <2>3. ASSUME NEW w \in Workers, Dies(w) PROVE NoWakeUpIsLost'
    BY <2>3, StillTells DEF Dies
  <2>4. CASE UNCHANGED vars
    BY <2>4, StillTells DEF vars
  <2> QED
    BY <2>1, <2>2, <2>3, <2>4 DEF Next, Done
<1> QED
  BY <1>1, <1>2, PoolIsSafe, PTL DEF Spec
===============================================================================
