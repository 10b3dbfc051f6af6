------------------------------ MODULE RefsProofs ------------------------------
(***************************************************************************)
(* What compiles and `krab refs' do to ref files and to the Vault, for any *)
(* repositories, targets, threads, commands and interruptions.             *)
(***************************************************************************)
EXTENDS Refs, FiniteSetTheorems, WellFoundedInduction, TLAPS

-----------------------------------------------------------------------------
(* The records of the threads.                                             *)

Kept == {"step", "i", "settled", "moved", "last", "out"}
Asking == {"why", "path", "secret", "seen", "at"}

LEMMA BaseIs ==
  ASSUME NEW w, NEW step
  PROVE  /\ DOMAIN Base(w, step) = Kept
         /\ Base(w, step).step = step /\ Base(w, step).i = w.i
         /\ Base(w, step).settled = w.settled /\ Base(w, step).out = w.out
BY DEF Base, Kept

LEMMA LookupIs ==
  ASSUME NEW w, NEW why, NEW path
  PROVE  LET v == Lookup(w, why, path) IN
         /\ DOMAIN v = Kept \cup Asking
         /\ v.step = "get" /\ v.i = w.i /\ v.why = why /\ v.path = path
         /\ v.settled = w.settled /\ v.out = w.out /\ v.seen = Missing
BY DEF Lookup, Kept, Asking

(* A ref that was not there when the run began (or is no file at all).     *)
New(before, x) == x \in DOMAIN before => before[x] = Missing

CompileSteps == {"idle", "next", "get", "insert", "lock", "evaluate", "kv_read", "kv_write",
                 "truncate", "fill", "forget", "ok", "failed"}
CliSteps == {"idle", "load", "cli", "kv_read", "kv_write", "truncate", "fill", "forget",
             "ok", "failed"}
Making == {"lock", "evaluate", "kv_read", "kv_write", "truncate", "fill"}

(* A thread about to write has what to write.                              *)
Ready(w) ==
  /\ w.step \in {"truncate", "fill"} => "new" \in DOMAIN w /\ w.new \notin {Missing, Torn}
  /\ w.step \in {"kv_read", "kv_write"} => "place" \in DOMAIN w

Cli(w) == "step" \in DOMAIN w /\ w.step \in CliSteps /\ Ready(w)

(* A thread of a compile makes only what was missing at the start.         *)
Asks(tags, before, w) ==
  /\ w.why = "lookup" => w.path = tags[w.i].path
  /\ w.why \in {"recheck", "reveal"} => New(before, tags[w.i].path)
  /\ w.step = "insert" /\ w.seen = Missing => New(before, w.path)

Good(tags, before, w) ==
  /\ "step" \in DOMAIN w /\ w.step \in CompileSteps /\ Ready(w)
  /\ w.step # "idle" => Kept \subseteq DOMAIN w
  /\ w.step \notin {"idle", "next", "ok", "failed"} => Asking \subseteq DOMAIN w
  /\ w.step \in {"get", "insert"} => Asks(tags, before, w)
  /\ w.step \in Making => New(before, tags[w.i].path)

LEMMA FailedIs ==
  ASSUME NEW p, NEW t, NEW w
  PROVE  \E step \in {"next", "failed"} : Failed(p, t, w) = Base(w, step)
BY DEF Failed

LEMMA EndIsGood ==
  ASSUME NEW tags, NEW before, NEW w, DOMAIN w = Kept, w.step \in {"next", "ok", "failed"}
  PROVE  Good(tags, before, w)
BY DEF Good, Ready, CompileSteps, Making, Kept

LEMMA FailedIsGood ==
  ASSUME NEW p, NEW t, NEW w, NEW tags, NEW before
  PROVE  Good(tags, before, Failed(p, t, w)) /\ Failed(p, t, w).step \in {"next", "failed"}
BY FailedIs, BaseIs, EndIsGood

LEMMA FoundIsGood ==
  ASSUME NEW p, NEW t, NEW w, NEW c, NEW tags, NEW before
  PROVE  Good(tags, before, Found(p, t, w, c)) /\ Found(p, t, w, c).step \in {"next", "failed"}
<1>1. CASE Current(t, w).pin \notin {NoPin, Data(c)}
  BY <1>1, FailedIsGood DEF Found
<1>2. CASE ~(Current(t, w).pin \notin {NoPin, Data(c)})
  <2> DEFINE v == Found(p, t, w, c)
  <2>1. v = [Base(w, "next") EXCEPT !.settled = @ \cup {w.i}, !.moved = TRUE,
                                    !.out = With(@, w.i, Data(c))]
    BY <1>2 DEF Found
  <2>2. DOMAIN v = Kept /\ v.step = "next"
    BY <2>1, BaseIs DEF Kept
  <2> QED
    BY <2>2, EndIsGood
<1> QED
  BY <1>1, <1>2

LEMMA LookupIsGood ==
  ASSUME NEW tags, NEW before, NEW w, NEW why, NEW path,
         why = "lookup" => path = tags[w.i].path,
         why \in {"recheck", "reveal"} => New(before, tags[w.i].path)
  PROVE  Good(tags, before, Lookup(w, why, path))
BY LookupIs DEF Good, Asks, Ready, CompileSteps, Making, Kept, Asking

LEMMA AnswerIsGood ==
  ASSUME NEW p, NEW t, NEW w, NEW c, NEW before, Good(Entries(t), before, w),
         w.step \in {"get", "insert"}, c = Missing => New(before, w.path)
  PROVE  Good(Entries(t), before, Answer(p, t, w, c))
<1> DEFINE tags == Entries(t)
<1>1. /\ Kept \subseteq DOMAIN w /\ Asking \subseteq DOMAIN w /\ Asks(tags, before, w)
  BY DEF Good
<1>2. ASSUME NEW v, NEW step \in {"lock", "evaluate"}, v.step = step, v.i = w.i, DOMAIN v = DOMAIN w,
             New(before, tags[w.i].path)
      PROVE  Good(tags, before, v)
  BY <1>1, <1>2 DEF Good, Ready, CompileSteps, Making, Kept
<1>3. CASE w.why \in {"lookup", "recheck", "readback"} /\ IsRef(c)
  <2>1. Answer(p, t, w, c) = Found(p, t, w, c)
    BY <1>3 DEF Answer, IsRef
  <2> QED
    BY <2>1, FoundIsGood
<1>4. CASE w.why = "lookup" /\ c = Missing /\ Creates(p, Current(t, w))
  <2>1. Answer(p, t, w, c) = [w EXCEPT !.step = "lock"]
    BY <1>4 DEF Answer, IsRef
  <2> QED
    BY <1>1, <1>2, <1>4, <2>1 DEF Asks, Kept
<1>5. CASE w.why = "recheck" /\ c = Missing
  <2>1. Answer(p, t, w, c) = [w EXCEPT !.step = "evaluate"]
    BY <1>5 DEF Answer, IsRef
  <2> QED
    BY <1>1, <1>2, <1>5, <2>1 DEF Asks, Kept
<1>6. CASE w.why = "reveal" /\ IsRef(c) /\ Secret(Current(t, w).type, c) # NoSecret
  <2>1. Answer(p, t, w, c) = [w EXCEPT !.step = "evaluate", !.at = @ + 1,
                                       !.secret = Secret(Current(t, w).type, c)]
    BY <1>6 DEF Answer
  <2>2. New(before, tags[w.i].path)
    BY <1>1, <1>6 DEF Asks
  <2> QED
    BY <1>1, <1>2, <2>1, <2>2 DEF Kept
<1>7. CASE /\ ~(w.why \in {"lookup", "recheck", "readback"} /\ IsRef(c))
           /\ ~(w.why = "lookup" /\ c = Missing /\ Creates(p, Current(t, w)))
           /\ ~(w.why = "recheck" /\ c = Missing)
           /\ ~(w.why = "reveal" /\ IsRef(c) /\ Secret(Current(t, w).type, c) # NoSecret)
  <2>1. Answer(p, t, w, c) = Failed(p, t, w)
    BY <1>7 DEF Answer
  <2> QED
    BY <2>1, FailedIsGood
<1> QED
  BY <1>3, <1>4, <1>5, <1>6, <1>7
-----------------------------------------------------------------------------
(* What a compile may know.                                                *)

RunFields == {"phase", "before", "alone", "lock", "cache"}

Typed ==
  /\ DOMAIN run = Process /\ DOMAIN thread = Process
  /\ \A p \in Process :
       /\ DOMAIN run[p] = RunFields /\ DOMAIN run[p].before = DOMAIN disk
       /\ DOMAIN thread[p] = Workers(p)

Threaded ==
  \A p \in Process : \A t \in Workers(p) :
     IF Compiles(p) THEN Good(Entries(t), run[p].before, thread[p][t]) ELSE Cli(thread[p][t])

(* No ref file is ever deleted.                                            *)
StillThere ==
  \A p \in Process : \A x \in DOMAIN disk : run[p].before[x] # Missing => disk[x] # Missing

(* What the cache takes for missing was missing at the start.              *)
CacheIsTrue(before, cache) == \A x \in DOMAIN cache : cache[x] = Missing => New(before, x)
CachesAreTrue == \A p \in Process : CacheIsTrue(run[p].before, run[p].cache)

(* Before a run starts none of its threads does anything.                  *)
NotStarted ==
  \A p \in Process : run[p].phase = "idle" =>
     \A t \in Workers(p) : thread[p][t].step = "idle"

Known == Typed /\ Threaded /\ StillThere /\ CachesAreTrue /\ NotStarted

(* One thread goes on; nothing is deleted.                                 *)
Moves(p, t, w) ==
  /\ project' = project /\ thread' = [thread EXCEPT ![p][t] = w]
  /\ DOMAIN run' = DOMAIN run
  /\ \A q \in Process :
       /\ DOMAIN run'[q] = DOMAIN run[q]
       /\ run'[q].before = run[q].before /\ run'[q].phase = run[q].phase
       /\ run'[q].alone = run[q].alone
       /\ q # p => run'[q] = run[q]

LEMMA MovesKeeps ==
  ASSUME Known, NEW p \in Process, run[p].phase = "busy", NEW t \in Workers(p), NEW w, Moves(p, t, w),
         IF Compiles(p) THEN Good(Entries(t), run[p].before, w) ELSE Cli(w),
         DOMAIN disk' = DOMAIN disk,
         \A x \in DOMAIN disk : disk[x] # Missing => disk'[x] # Missing,
         CacheIsTrue(run[p].before, run'[p].cache)
  PROVE  Known'
<1>1. /\ Process' = Process
      /\ \A q \in Process : (Workers(q))' = Workers(q) /\ (Compiles(q))' = Compiles(q)
      /\ \A u : (Entries(u))' = Entries(u)
  BY DEF Moves, Process, Workers, Compiles, Command, Entries
<1>2. /\ DOMAIN thread' = DOMAIN thread
      /\ \A q \in Process : DOMAIN thread'[q] = DOMAIN thread[q]
      /\ \A q \in Process : \A u \in Workers(q) :
            thread'[q][u] = IF q = p /\ u = t THEN w ELSE thread[q][u]
  BY DEF Moves, Known, Typed
<1>3. Typed'
  BY <1>1, <1>2 DEF Known, Typed, Moves
<1>4. Threaded'
  BY <1>1, <1>2 DEF Known, Threaded, Moves
<1>5. StillThere'
  BY <1>1 DEF Known, StillThere, Moves
<1>6. CachesAreTrue'
  BY <1>1 DEF Known, CachesAreTrue, Moves
<1>7. NotStarted'
  BY <1>1, <1>2 DEF Known, NotStarted, Moves
<1> QED
  BY <1>3, <1>4, <1>5, <1>6, <1>7 DEF Known

LEMMA GoMoves ==
  ASSUME Known, NEW p \in Process, run[p].phase = "busy", NEW t \in Workers(p), NEW w, Go(p, t, w), project' = project
  PROVE  Moves(p, t, w) /\ run'[p].cache = run[p].cache
BY DEF Go, Moves, Known, Typed, RunFields

LEMMA GoKeeps ==
  ASSUME Known, NEW p \in Process, run[p].phase = "busy", NEW t \in Workers(p), NEW w, Go(p, t, w),
         IF Compiles(p) THEN Good(Entries(t), run[p].before, w) ELSE Cli(w),
         project' = project, disk' = disk
  PROVE  Known'
BY GoMoves, MovesKeeps DEF Known, CachesAreTrue
-----------------------------------------------------------------------------
(* The actions.                                                            *)

(* The steps of a compile tell its threads from those of `krab refs'.      *)
LEMMA ThreadIs ==
  ASSUME Known, NEW p \in Process, NEW t \in Workers(p)
  PROVE  /\ Compiles(p) => Good(Entries(t), run[p].before, thread[p][t])
         /\ ~Compiles(p) => Cli(thread[p][t])
         /\ thread[p][t].step \in CompileSteps \ CliSteps => Compiles(p)
         /\ thread[p][t].step \in CliSteps \ CompileSteps => ~Compiles(p)
         /\ "step" \in DOMAIN thread[p][t]
         /\ Ready(thread[p][t])
BY DEF Known, Threaded, Good, Cli

LEMMA NextValueKeeps ==
  ASSUME Known, NEW p \in Process, run[p].phase = "busy", NEW t \in Workers(p), NextValue(p, t)
  PROVE  Known'
<1> DEFINE w == thread[p][t]
           later == Unsettled(t, w)
           i == CHOOSE k \in later : \A j \in later : k <= j
           v == [w EXCEPT !.i = i]
           next == IF Settled(t, w) THEN [w EXCEPT !.step = "ok"]
                   ELSE IF later = {} THEN Pass(p, t, w)
                   ELSE IF Current(t, v).sub /\ Current(t, v).funcs # << >>
                        THEN Failed(p, t, v)
                        ELSE Lookup(v, "lookup", Current(t, v).path)
<1>1. Go(p, t, next) /\ project' = project /\ disk' = disk
  BY DEF NextValue
<1>2. w.step = "next" /\ Compiles(p) /\ Good(Entries(t), run[p].before, w)
  BY ThreadIs DEF NextValue, CompileSteps, CliSteps
<1>3. Good(Entries(t), run[p].before, next)
  <2> HIDE DEF w
  <2>1. Kept \subseteq DOMAIN w
    BY <1>2 DEF Good
  <2>2. CASE Settled(t, w)
    <3>1. next = [w EXCEPT !.step = "ok"]
      BY <2>2
    <3> HIDE DEF next
    <3> QED
      BY <1>2, <2>1, <3>1 DEF Good, Ready, CompileSteps, Making, Kept
  <2>3. CASE ~Settled(t, w) /\ later = {}
    <3>1. next = [w EXCEPT !.i = 0, !.moved = FALSE, !.last = ~w.moved]
      BY <2>3 DEF Pass
    <3> HIDE DEF next
    <3> QED
      BY <1>2, <2>1, <3>1 DEF Good, Ready, CompileSteps, Making, Kept
  <2>4. CASE ~Settled(t, w) /\ later # {}
    <3> HIDE DEF i, v
    <3>1. next = Failed(p, t, v) \/ next = Lookup(v, "lookup", Current(t, v).path)
      BY <2>4
    <3>2. Good(Entries(t), run[p].before, Failed(p, t, v))
      BY FailedIsGood
    <3>3. Good(Entries(t), run[p].before, Lookup(v, "lookup", Current(t, v).path))
      BY LookupIsGood DEF Current
    <3> QED
      BY <3>1, <3>2, <3>3
  <2> QED
    BY <2>2, <2>3, <2>4
<1> HIDE DEF next
<1> QED
  BY <1>1, <1>2, <1>3, GoKeeps

LEMMA ReadKeeps ==
  ASSUME Known, NEW p \in Process, run[p].phase = "busy", NEW t \in Workers(p), Read(p, t)
  PROVE  Known'
<1> DEFINE w == thread[p][t]
           path == w.path
           before == run[p].before
           next == IF path \in DOMAIN run[p].cache THEN Answer(p, t, w, run[p].cache[path])
                   ELSE IF disk[path] = Torn THEN Answer(p, t, w, Torn)
                   ELSE [w EXCEPT !.step = "insert", !.seen = disk[path]]
<1>1. Go(p, t, next) /\ project' = project /\ disk' = disk
  BY DEF Read
<1>2. w.step = "get" /\ Compiles(p) /\ Good(Entries(t), before, w)
  BY ThreadIs DEF Read
<1>3. Good(Entries(t), before, next)
  <2>1. CASE path \in DOMAIN run[p].cache
    <3>1. run[p].cache[path] = Missing => New(before, path)
      BY <2>1 DEF Known, CachesAreTrue, CacheIsTrue
    <3> QED
      BY <1>2, <2>1, <3>1, AnswerIsGood
  <2>2. CASE path \notin DOMAIN run[p].cache /\ disk[path] = Torn
    <3>1. Torn = Missing => New(before, path)
      BY <2>2 DEF Known, Typed, StillThere, New
    <3> QED
      BY <1>2, <2>2, <3>1, AnswerIsGood
  <2>3. CASE path \notin DOMAIN run[p].cache /\ disk[path] # Torn
    <3>1. next = [w EXCEPT !.step = "insert", !.seen = disk[path]]
      BY <2>3
    <3>2. disk[path] = Missing => New(before, path)
      BY DEF Known, Typed, StillThere, New
    <3> HIDE DEF next, w, before
    <3>3. Kept \subseteq DOMAIN w /\ Asking \subseteq DOMAIN w
      BY <1>2 DEF Good
    <3> QED
      BY <1>2, <3>1, <3>2, <3>3 DEF Good, Asks, Ready, CompileSteps, Making, Kept, Asking
  <2> QED
    BY <2>1, <2>2, <2>3
<1> HIDE DEF next
<1> QED
  BY <1>1, <1>2, <1>3, GoKeeps

LEMMA InsertKeeps ==
  ASSUME Known, NEW p \in Process, run[p].phase = "busy", NEW t \in Workers(p), Insert(p, t)
  PROVE  Known'
<1> DEFINE w == thread[p][t]
           before == run[p].before
           after == Answer(p, t, w, w.seen)
<1>1. w.step = "insert" /\ Compiles(p) /\ Good(Entries(t), before, w)
  BY ThreadIs DEF Insert, CompileSteps, CliSteps
<1>2. w.seen = Missing => New(before, w.path)
  BY <1>1 DEF Good, Asks
<1>3. Good(Entries(t), before, after)
  BY <1>1, <1>2, AnswerIsGood
<1>4. Moves(p, t, after) /\ run'[p].cache = With(run[p].cache, w.path, w.seen) /\ disk' = disk
  <2> HIDE DEF after, w
  <2> QED
    BY DEF Insert, Moves, Known, Typed, RunFields, w, after
<1>5. CacheIsTrue(before, run'[p].cache)
  <2> HIDE DEF w
  <2> QED
    BY <1>2, <1>4 DEF Known, CachesAreTrue, CacheIsTrue, With
<1> HIDE DEF after
<1> QED
  BY <1>1, <1>3, <1>4, <1>5, MovesKeeps

LEMMA LockKeeps ==
  ASSUME Known, NEW p \in Process, run[p].phase = "busy", NEW t \in Workers(p), Lock(p, t)
  PROVE  Known'
<1> DEFINE w == thread[p][t]
           before == run[p].before
           next == Lookup(w, "recheck", w.path)
<1>1. w.step = "lock" /\ Compiles(p) /\ Good(Entries(t), before, w)
  BY ThreadIs DEF Lock, CompileSteps, CliSteps
<1>2. Good(Entries(t), before, next)
  BY <1>1, LookupIsGood DEF Good, Making
<1>3. Moves(p, t, next) /\ run'[p].cache = run[p].cache /\ disk' = disk
  <2> HIDE DEF next, w
  <2> QED
    BY DEF Lock, Moves, Known, Typed, RunFields, w, next
<1> HIDE DEF next
<1> QED
  BY <1>1, <1>2, <1>3, MovesKeeps DEF Known, CachesAreTrue

LEMMA SealedIsRef ==
  ASSUME NEW type, NEW plain, NEW key
  PROVE  Sealed(type, plain, key) \notin {Missing, Torn}
BY DEF Missing, Torn, Sealed

(* A thread that makes a ref goes on making it.                            *)
LEMMA MakingIsGood ==
  ASSUME NEW tags, NEW before, NEW w, NEW v, Good(tags, before, w), w.step \in Making,
         DOMAIN w \subseteq DOMAIN v, v.i = w.i, v.step \in Making \cup {"forget"}, Ready(v)
  PROVE  Good(tags, before, v)
BY DEF Good, CompileSteps, Making, Kept

LEMMA EvaluateKeeps ==
  ASSUME Known, NEW p \in Process, run[p].phase = "busy", NEW t \in Workers(p), Evaluate(p, t)
  PROVE  Known'
<1> DEFINE w == thread[p][t]
           before == run[p].before
           tag == Current(t, w)
           f == tag.funcs[w.at]
           s == Sealed(tag.type, w.secret, Key(t, tag.type))
<1>1. w.step = "evaluate" /\ Compiles(p) /\ Good(Entries(t), before, w)
  BY ThreadIs DEF Evaluate, CompileSteps, CliSteps
<1>2. Kept \subseteq DOMAIN w /\ Asking \subseteq DOMAIN w /\ New(before, Entries(t)[w.i].path)
  BY <1>1 DEF Good, Making
<1>3. project' = project /\ disk' = disk
  BY DEF Evaluate
<1>4. \/ Go(p, t, [w EXCEPT !.at = @ + 1, !.secret = << "drawn", drawn + 1 >>])
      \/ Go(p, t, [w EXCEPT !.at = @ + 1, !.secret = << "derived", @ >>])
      \/ Go(p, t, Failed(p, t, w))
      \/ Go(p, t, Lookup(w, "reveal", f.path))
      \/ Go(p, t, With([w EXCEPT !.step = "kv_read"], "place", tag.place))
      \/ Go(p, t, With([w EXCEPT !.step = "truncate", !.path = tag.path], "new", s))
  BY DEF Evaluate
<1>5. ASSUME NEW v, Go(p, t, v), Good(Entries(t), before, v) PROVE Known'
  BY <1>1, <1>3, <1>5, GoKeeps
<1> HIDE DEF w, before, tag, f
<1>6. \A a, b : Good(Entries(t), before, [w EXCEPT !.at = a, !.secret = b])
  <2> TAKE a, b
  <2> DEFINE v == [w EXCEPT !.at = a, !.secret = b]
  <2>1. DOMAIN v = DOMAIN w /\ v.i = w.i /\ v.step = "evaluate"
    BY <1>1, <1>2 DEF Kept, Asking
  <2> HIDE DEF v
  <2>2. Good(Entries(t), before, v)
    BY <1>1, <2>1, MakingIsGood DEF Making, Ready
  <2> QED
    BY <2>2 DEF v
<1>7. CASE Go(p, t, [w EXCEPT !.at = @ + 1, !.secret = << "drawn", drawn + 1 >>])
  BY <1>5, <1>6, <1>7
<1>8. CASE Go(p, t, [w EXCEPT !.at = @ + 1, !.secret = << "derived", @ >>])
  BY <1>5, <1>6, <1>8
<1>9. CASE Go(p, t, Failed(p, t, w))
  BY <1>5, <1>9, FailedIsGood
<1>10. CASE Go(p, t, Lookup(w, "reveal", f.path))
  BY <1>2, <1>5, <1>10, LookupIsGood
<1>11. CASE Go(p, t, With([w EXCEPT !.step = "kv_read"], "place", tag.place))
  <2> DEFINE u == [w EXCEPT !.step = "kv_read"]
             v == With(u, "place", tag.place)
  <2>1. DOMAIN u = DOMAIN w /\ u.i = w.i /\ u.step = "kv_read" /\ "i" \in DOMAIN w /\ "step" \in DOMAIN w
    BY <1>2 DEF Kept
  <2> HIDE DEF u
  <2>2. DOMAIN w \subseteq DOMAIN v /\ v.i = w.i /\ v.step = "kv_read" /\ "place" \in DOMAIN v
    BY <2>1 DEF With
  <2>3. Go(p, t, v)
    BY <1>11 DEF u
  <2> HIDE DEF v
  <2>4. Good(Entries(t), before, v)
    BY <1>1, <2>2, MakingIsGood DEF Making, Ready
  <2> QED
    BY <1>5, <2>3, <2>4
<1>12. CASE Go(p, t, With([w EXCEPT !.step = "truncate", !.path = tag.path], "new", s))
  <2> DEFINE u == [w EXCEPT !.step = "truncate", !.path = tag.path]
             v == With(u, "new", s)
  <2>1. DOMAIN u = DOMAIN w /\ u.i = w.i /\ u.step = "truncate" /\ "i" \in DOMAIN w /\ "step" \in DOMAIN w
    BY <1>2 DEF Kept
  <2>2. s \notin {Missing, Torn}
    BY SealedIsRef
  <2> HIDE DEF u, s
  <2>3. /\ DOMAIN w \subseteq DOMAIN v /\ v.i = w.i /\ v.step = "truncate"
        /\ "new" \in DOMAIN v /\ v.new = s
    BY <2>1 DEF With
  <2>4. Go(p, t, v)
    BY <1>12 DEF u, s
  <2> HIDE DEF v
  <2>5. Good(Entries(t), before, v)
    BY <1>1, <2>2, <2>3, MakingIsGood DEF Making, Ready
  <2> QED
    BY <1>5, <2>4, <2>5
<1> QED
  BY <1>4, <1>7, <1>8, <1>9, <1>10, <1>11, <1>12 DEF w, tag, f

(* What a thread is about to write into the Vault or into a file.          *)
LEMMA KvKeeps ==
  ASSUME Known, NEW p \in Process, run[p].phase = "busy", NEW t \in Workers(p),
         KvRead(p, t) \/ KvWrite(p, t)
  PROVE  Known'
<1> DEFINE w == thread[p][t]
           before == run[p].before
           read == IF w.place[1] \in DOMAIN vault THEN vault[w.place[1]] ELSE << >>
           r == With([w EXCEPT !.step = "kv_write"], "kv", read)
           s == Sealed("vaultkv", w.place, NoKey)
           v == With([w EXCEPT !.step = "truncate"], "new", s)
<1>1. w.step \in {"kv_read", "kv_write"} /\ {"step", "place"} \subseteq DOMAIN w /\ project' = project /\ disk' = disk
  BY ThreadIs DEF KvRead, KvWrite, Ready
<1>2. Go(p, t, r) \/ Go(p, t, v)
  BY DEF KvRead, KvWrite
<1>3. s \notin {Missing, Torn}
  BY SealedIsRef
<1>4. Compiles(p) => Good(Entries(t), before, w) /\ "i" \in DOMAIN w
  BY <1>1, ThreadIs DEF Good, Kept
<1> HIDE DEF w, read, s
<1>5. /\ DOMAIN w \subseteq DOMAIN r /\ r.step = "kv_write" /\ ("i" \in DOMAIN w => r.i = w.i)
      /\ DOMAIN w \subseteq DOMAIN v /\ v.step = "truncate" /\ ("i" \in DOMAIN w => v.i = w.i)
      /\ "new" \in DOMAIN v /\ v.new = s
  BY <1>1 DEF With
<1> HIDE DEF r, v, before
<1>6. Compiles(p) => Good(Entries(t), before, r) /\ Good(Entries(t), before, v)
  BY <1>1, <1>3, <1>4, <1>5, MakingIsGood DEF Making, Ready
<1>7. Cli(r) /\ Cli(v)
  BY <1>1, <1>3, <1>5 DEF Cli, CliSteps, Ready
<1> QED
  BY <1>1, <1>2, <1>6, <1>7, GoKeeps DEF before

LEMMA WriteKeeps ==
  ASSUME Known, NEW p \in Process, run[p].phase = "busy", NEW t \in Workers(p),
         Truncate(p, t) \/ Fill(p, t)
  PROVE  Known'
<1> DEFINE w == thread[p][t]
           before == run[p].before
<1>1. PICK step \in {"fill", "forget"} :
        /\ Go(p, t, [w EXCEPT !.step = step]) /\ project' = project
        /\ w.step = (IF step = "fill" THEN "truncate" ELSE "fill")
        /\ disk' = [disk EXCEPT ![Target(p, t)] = IF step = "fill" THEN Torn ELSE w.new]
  BY DEF Truncate, Fill
<1> DEFINE v == [w EXCEPT !.step = step]
<1>2. "step" \in DOMAIN w /\ Ready(w) /\ w.step \in {"truncate", "fill"} /\ w.new \notin {Missing, Torn}
  BY <1>1, ThreadIs DEF Ready
<1>3. Compiles(p) => Good(Entries(t), before, w) /\ "i" \in DOMAIN w
  BY <1>2, ThreadIs DEF Good, Kept
<1>4. v.step = step /\ DOMAIN v = DOMAIN w /\ ("i" \in DOMAIN w => v.i = w.i) /\ Ready(v)
  BY <1>1, <1>2 DEF Ready
<1>5. DOMAIN disk' = DOMAIN disk /\ \A x \in DOMAIN disk : disk[x] # Missing => disk'[x] # Missing
  BY <1>1, <1>2 DEF Missing, Torn
<1>6. Moves(p, t, v) /\ run'[p].cache = run[p].cache
  BY <1>1, GoMoves
<1> HIDE DEF v, w, before
<1>7. Compiles(p) => Good(Entries(t), before, v)
  BY <1>2, <1>3, <1>4, MakingIsGood DEF Making
<1>8. Cli(v)
  BY <1>2, <1>4 DEF Cli, CliSteps
<1> QED
  BY <1>5, <1>6, <1>7, <1>8, MovesKeeps DEF before, Known, CachesAreTrue

LEMMA ForgetKeeps ==
  ASSUME Known, NEW p \in Process, run[p].phase = "busy", NEW t \in Workers(p), Forget(p, t)
  PROVE  Known'
<1> DEFINE w == thread[p][t]
           path == Target(p, t)
           v == IF Compiles(p) THEN Lookup(w, "readback", path) ELSE [w EXCEPT !.step = "cli"]
<1>1. Moves(p, t, v) /\ disk' = disk
      /\ run'[p].cache = [x \in DOMAIN run[p].cache \ {path} |-> run[p].cache[x]]
  <2> HIDE DEF v, path
  <2> QED
    BY DEF Forget, Moves, Known, Typed, RunFields, v, path
<1>2. CacheIsTrue(run[p].before, run'[p].cache)
  <2> HIDE DEF path
  <2> QED
    BY <1>1 DEF Known, CachesAreTrue, CacheIsTrue
<1>3. Compiles(p) => Good(Entries(t), run[p].before, v)
  BY LookupIsGood
<1>4. ~Compiles(p) => Cli(v)
  <2>1. "step" \in DOMAIN w
    BY ThreadIs
  <2> HIDE DEF w
  <2> QED
    BY <2>1 DEF Cli, CliSteps, Ready
<1> HIDE DEF v, path
<1> QED
  BY <1>1, <1>2, <1>3, <1>4, MovesKeeps
-----------------------------------------------------------------------------
(* krab refs. *)

LEMMA LoadKeeps ==
  ASSUME Known, NEW p \in Process, run[p].phase = "busy", "cli" \in Workers(p), Load(p)
  PROVE  Known'
<1> DEFINE w == thread[p]["cli"]
<1>1. w.step = "load" /\ ~Compiles(p) /\ "step" \in DOMAIN w
  BY ThreadIs DEF Load, CompileSteps, CliSteps
<1>2. /\ project' = project /\ disk' = disk
      /\ \/ \E step \in {"cli", "failed"} : Go(p, "cli", [w EXCEPT !.step = step])
         \/ \E known : Go(p, "cli", [w EXCEPT !.known = known])
  BY DEF Load
<1> HIDE DEF w
<1>3. \A step \in {"cli", "failed"} : Cli([w EXCEPT !.step = step])
  BY <1>1 DEF Cli, CliSteps, Ready
<1>4. \A known : Cli([w EXCEPT !.known = known])
  BY <1>1 DEF Cli, CliSteps, Ready
<1>5. ASSUME NEW v, Go(p, "cli", v), Cli(v) PROVE Known'
  BY <1>1, <1>2, <1>5, GoKeeps
<1> QED
  BY <1>2, <1>3, <1>4, <1>5

LEMMA CheckRefKeeps ==
  ASSUME Known, NEW p \in Process, run[p].phase = "busy", "cli" \in Workers(p), CheckRef(p)
  PROVE  Known'
<1> DEFINE w == thread[p]["cli"]
           Rest(path) == [w EXCEPT !.todo = @ \ {path}]
           S(path) == LET c == w.known[path]
                      IN  Sealed(c.type, Secret(c.type, c), Wanted(p, path, c.type))
<1>1. w.step = "cli" /\ ~Compiles(p) /\ "step" \in DOMAIN w
  BY ThreadIs DEF CheckRef, CompileSteps, CliSteps
<1>2. project' = project /\ disk' = disk
  BY DEF CheckRef
<1>3. \/ \E step \in {"failed", "ok"} : Go(p, "cli", [w EXCEPT !.step = step])
      \/ \E path : \/ Go(p, "cli", Rest(path))
                   \/ Go(p, "cli", [Rest(path) EXCEPT !.bad = @ + 1])
                   \/ Go(p, "cli", With([Rest(path) EXCEPT !.step = "truncate", !.path = path],
                                        "new", S(path)))
  BY DEF CheckRef
<1>4. \A path : S(path) \notin {Missing, Torn}
  BY SealedIsRef
<1>5. ASSUME NEW v, Go(p, "cli", v), Cli(v) PROVE Known'
  BY <1>1, <1>2, <1>5, GoKeeps
<1> HIDE DEF w, S
<1>6. ASSUME NEW step \in {"failed", "ok"} PROVE Cli([w EXCEPT !.step = step])
  BY <1>1 DEF Cli, CliSteps, Ready
<1>7. ASSUME NEW path PROVE Cli(Rest(path)) /\ Cli([Rest(path) EXCEPT !.bad = @ + 1])
  BY <1>1 DEF Cli, CliSteps, Ready
<1>8. ASSUME NEW path
      PROVE  Cli(With([Rest(path) EXCEPT !.step = "truncate", !.path = path], "new", S(path)))
  BY <1>1, <1>4 DEF Cli, CliSteps, Ready, With
<1> HIDE DEF Rest
<1> QED
  BY <1>3, <1>5, <1>6, <1>7, <1>8
-----------------------------------------------------------------------------
(* Runs. *)

LEMMA StartCliIsGood ==
  ASSUME NEW p
  PROVE  Cli(StartCli(p))
<1> DEFINE c == Command(p)
           w == [step |-> "truncate", path |-> c.path, todo |-> {}]
           s == Sealed(c.type, Given, c.key)
           v == WriteRef(p)
<1>1. s \notin {Missing, Torn}
  BY SealedIsRef
<1>2. \/ v = [w EXCEPT !.step = "failed"]
      \/ v = With(With([w EXCEPT !.step = "kv_read"], "place", c.place), "secret", Given)
      \/ v = With(w, "new", s)
  BY DEF WriteRef
<1>3. Cli(v)
  <2> HIDE DEF v, s, c
  <2>1. CASE v = [w EXCEPT !.step = "failed"]
    BY <2>1 DEF Cli, CliSteps, Ready
  <2>2. CASE v = With(With([w EXCEPT !.step = "kv_read"], "place", c.place), "secret", Given)
    BY <2>2 DEF Cli, CliSteps, Ready, With
  <2>3. CASE v = With(w, "new", s)
    BY <1>1, <2>3 DEF Cli, CliSteps, Ready, With
  <2> QED
    BY <1>2, <2>1, <2>2, <2>3
<1>4. CASE Command(p).kind = "write"
  BY <1>3, <1>4 DEF StartCli
<1>5. CASE Command(p).kind # "write"
  <2> DEFINE u == StartCli(p)
  <2>1. "step" \in DOMAIN u /\ u.step \in {"load", "failed"}
    <3>1. CASE Command(p).kind = "update"
      BY <3>1 DEF StartCli
    <3>2. CASE Command(p).kind # "update"
      BY <1>5, <3>2 DEF StartCli
    <3> QED
      BY <3>1, <3>2
  <2> HIDE DEF u
  <2>2. Cli(u)
    BY <2>1 DEF Cli, CliSteps, Ready
  <2> QED
    BY <2>2 DEF u
<1> QED
  BY <1>4, <1>5

LEMMA StartRunKeeps ==
  ASSUME Known, NEW p \in Process, StartRun(p)
  PROVE  Known'
<1> DEFINE fresh == [Run("busy", disk) EXCEPT !.alone = Running = {}]
<1>1. /\ project' = project /\ disk' = disk /\ run[p].phase = "idle"
      /\ run' = [q \in Process |-> IF q = p THEN fresh ELSE [run[q] EXCEPT !.alone = FALSE]]
  BY DEF StartRun
<1>2. /\ DOMAIN fresh = RunFields /\ fresh.phase = "busy" /\ fresh.before = disk /\ fresh.cache = << >>
  BY DEF Run, RunFields
<1> HIDE DEF fresh
<1>3. /\ Process' = Process
      /\ \A q \in Process : (Workers(q))' = Workers(q) /\ (Compiles(q))' = Compiles(q)
      /\ \A u : (Entries(u))' = Entries(u)
  BY <1>1 DEF Process, Workers, Compiles, Command, Entries
<1>4. /\ DOMAIN run' = Process
      /\ \A q \in Process : DOMAIN run'[q] = RunFields
      /\ \A q \in Process \ {p} :
            run'[q].before = run[q].before /\ run'[q].cache = run[q].cache /\ run'[q].phase = run[q].phase
      /\ run'[p].before = disk /\ run'[p].cache = << >> /\ run'[p].phase = "busy"
  BY <1>1, <1>2 DEF Known, Typed, RunFields
<1>5. /\ DOMAIN thread' = Process /\ \A q \in Process : DOMAIN thread'[q] = Workers(q)
      /\ \A q \in Process : \A t \in Workers(q) :
            \/ thread'[q][t] = thread[q][t]
            \/ q = p /\ ~Compiles(p) /\ thread'[q][t] = StartCli(p)
  <2>1. CASE Compiles(p)
    BY <2>1 DEF StartRun, Known, Typed
  <2>2. CASE ~Compiles(p)
    BY <2>2 DEF StartRun, Known, Typed, Workers
  <2> QED
    BY <2>1, <2>2
<1>6. Typed'
  BY <1>1, <1>3, <1>4, <1>5 DEF Known, Typed
<1>7. Threaded'
  <2> SUFFICES ASSUME NEW q \in Process, NEW t \in Workers(q)
               PROVE  IF Compiles(q) THEN Good(Entries(t), run'[q].before, thread'[q][t])
                                     ELSE Cli(thread'[q][t])
    BY <1>3 DEF Threaded
  <2>1. CASE q # p
    BY <1>4, <1>5, <2>1 DEF Known, Threaded
  <2>2. CASE q = p /\ ~Compiles(p)
    BY <1>5, <2>2, StartCliIsGood DEF Known, Threaded
  <2>3. CASE q = p /\ Compiles(p)
    <3>1. thread'[q][t] = thread[q][t] /\ thread[q][t].step = "idle" /\ "step" \in DOMAIN thread[q][t]
      BY <1>1, <1>5, <2>3, ThreadIs DEF Known, NotStarted
    <3> QED
      BY <2>3, <3>1 DEF Good, CompileSteps, Making, Ready
  <2> QED
    BY <2>1, <2>2, <2>3
<1>8. StillThere'
  BY <1>1, <1>3, <1>4 DEF Known, StillThere
<1>9. CachesAreTrue'
  BY <1>3, <1>4 DEF Known, CachesAreTrue, CacheIsTrue
<1>10. NotStarted'
  BY <1>3, <1>4, <1>5 DEF Known, NotStarted
<1> QED
  BY <1>6, <1>7, <1>8, <1>9, <1>10 DEF Known

LEMMA StartTargetKeeps ==
  ASSUME Known, NEW p \in Process, run[p].phase = "busy", NEW t \in Workers(p), StartTarget(p, t)
  PROVE  Known'
<1>1. Good(Entries(t), run[p].before, Fresh)
  BY EndIsGood DEF Fresh, Kept
<1>2. Compiles(p) /\ Go(p, t, Fresh) /\ project' = project /\ disk' = disk
  BY DEF StartTarget
<1> QED
  BY <1>1, <1>2, GoKeeps

LEMMA EndKeeps ==
  ASSUME Known, NEW p \in Process, EndRun(p) \/ Crash(p)
  PROVE  Known'
<1>1. /\ project' = project /\ disk' = disk /\ thread' = thread
      /\ \E phase \in {"done", "crashed"} : run' = [run EXCEPT ![p].phase = phase]
  BY DEF EndRun, Crash
<1>2. /\ Process' = Process
      /\ \A q \in Process : (Workers(q))' = Workers(q) /\ (Compiles(q))' = Compiles(q)
      /\ \A u : (Entries(u))' = Entries(u)
  BY <1>1 DEF Process, Workers, Compiles, Command, Entries
<1>3. /\ DOMAIN run' = Process
      /\ \A q \in Process :
            /\ DOMAIN run'[q] = RunFields
            /\ run'[q].before = run[q].before /\ run'[q].cache = run[q].cache
            /\ run'[q].phase = "idle" => run[q].phase = "idle"
  BY <1>1 DEF Known, Typed, RunFields
<1> QED
  BY <1>1, <1>2, <1>3 DEF Known, Typed, Threaded, StillThere, CachesAreTrue, NotStarted
-----------------------------------------------------------------------------
LEMMA InitKnown == Init => Known
<1> SUFFICES ASSUME Init PROVE Known
  OBVIOUS
<1>1. /\ DOMAIN run = Process /\ DOMAIN thread = Process
      /\ \A p \in Process :
           /\ DOMAIN run[p] = RunFields /\ run[p].before = disk /\ run[p].cache = << >>
           /\ DOMAIN thread[p] = Workers(p)
           /\ \A t \in Workers(p) : thread[p][t] = [step |-> "idle"]
  BY DEF Init, Run, RunFields, Idle
<1>2. Typed /\ StillThere /\ CachesAreTrue /\ NotStarted
  BY <1>1 DEF Typed, StillThere, CachesAreTrue, CacheIsTrue, NotStarted
<1>3. Threaded
  BY <1>1 DEF Threaded, Good, Cli, CompileSteps, CliSteps, Making, Ready
<1> QED
  BY <1>2, <1>3 DEF Known

LEMMA StepKeeps ==
  ASSUME Known, NEW p \in Process, NEW t \in Workers(p), Step(p, t)
  PROVE  Known'
<1>1. run[p].phase = "busy"
  BY DEF Step
<1>2. ASSUME t = "cli", Load(p) \/ CheckRef(p) PROVE Known'
  BY <1>1, <1>2, LoadKeeps, CheckRefKeeps
<1> QED
  BY <1>1, <1>2, NextValueKeeps, ReadKeeps, InsertKeeps, LockKeeps, EvaluateKeeps, KvKeeps,
     WriteKeeps, ForgetKeeps DEF Step

LEMMA NextKeeps == ASSUME Known, [Next]_vars PROVE Known'
<1>1. CASE UNCHANGED vars
  <2>1. project' = project /\ disk' = disk /\ run' = run /\ thread' = thread
    BY <1>1 DEF vars
  <2> QED
    BY <2>1 DEF Known, Typed, Threaded, StillThere, CachesAreTrue, NotStarted,
                Process, Workers, Compiles, Command, Entries
<1>2. ASSUME NEW p \in Process, StartRun(p) \/ EndRun(p) \/ Crash(p) PROVE Known'
  BY <1>2, StartRunKeeps, EndKeeps
<1>3. ASSUME NEW p \in Process, NEW t \in Workers(p), StartTarget(p, t) \/ Step(p, t) PROVE Known'
  BY <1>3, StartTargetKeeps, StepKeeps DEF StartTarget
<1> QED
  BY <1>1, <1>2, <1>3 DEF Next

(* What a compile knows stays true: the inductive invariant.               *)
THEOREM CompilesKnow == Spec => []Known
<1>1. Init => Known
  BY InitKnown
<1>2. Known /\ [Next]_vars => Known'
  BY NextKeeps
<1> QED
  BY <1>1, <1>2, PTL DEF Spec

(* Only Truncate and Fill write a file, and a compile gets there only for  *)
(* a ref that was missing.                                                 *)
LEMMA WritesWhatWasMissing ==
  ASSUME Known, NEW p \in Process, Compiles(p), NEW q \in Process, NEW t \in Workers(q),
         Truncate(q, t) \/ Fill(q, t), thread'[p] # thread[p],
         NEW x \in DOMAIN disk, run[p].before[x] # Missing
  PROVE  disk'[x] = disk[x]
<1>1. PICK w : thread' = [thread EXCEPT ![q][t] = w]
  BY DEF Truncate, Fill, Go
<1>2. p = q
  BY <1>1 DEF Known, Typed
<1>3. Good(Entries(t), run[p].before, thread[p][t]) /\ thread[p][t].step \in Making
  BY <1>2, ThreadIs DEF Truncate, Fill, Making
<1>4. New(run[p].before, Target(p, t))
  BY <1>3 DEF Good, Target, Current
<1>5. x # Target(p, t)
  BY <1>4 DEF New, Known, Typed
<1> QED
  BY <1>2, <1>5 DEF Truncate, Fill

LEMMA OthersWriteNothing ==
  ASSUME [Next]_vars, disk' # disk
  PROVE  \E q \in Process : \E t \in Workers(q) : Truncate(q, t) \/ Fill(q, t)
<1>1. PICK p \in Process : \E t \in Workers(p) : Step(p, t)
  BY DEF vars, Next, StartRun, EndRun, Crash, StartTarget
<1>2. PICK t \in Workers(p) : Step(p, t)
  BY <1>1
<1>3. disk' = disk \/ Truncate(p, t) \/ Fill(p, t)
  <2>1. CASE NextValue(p, t) \/ Read(p, t) \/ Insert(p, t) \/ Lock(p, t)
    BY <2>1 DEF NextValue, Read, Insert, Lock
  <2>2. CASE Evaluate(p, t) \/ KvRead(p, t) \/ KvWrite(p, t) \/ Forget(p, t)
    BY <2>2 DEF Evaluate, KvRead, KvWrite, Forget
  <2>3. CASE Load(p) \/ CheckRef(p)
    BY <2>3 DEF Load, CheckRef
  <2> QED
    BY <1>2, <2>1, <2>2, <2>3 DEF Step
<1> QED
  BY <1>3

(* A compile never writes a ref file that was there when it started, not   *)
(* even a broken one, whatever other compiles and `krab refs' do to the    *)
(* files meanwhile and wherever they are interrupted (REF-18).             *)
THEOREM ExistingRefsAreKept == Spec => ExistingRefsKept
<1> DEFINE Keeps == \A p \in Process : Compiles(p) /\ thread'[p] # thread[p] =>
                       \A x \in DOMAIN disk : run[p].before[x] # Missing => disk'[x] = disk[x]
<1>1. Known /\ [Next]_vars => Keeps
  BY WritesWhatWasMissing, OthersWriteNothing
<1>2. Known /\ [Next]_vars => [Keeps]_vars
  BY <1>1
<1> QED
  BY <1>2, CompilesKnow, PTL DEF Spec, ExistingRefsKept
-----------------------------------------------------------------------------
(* The creation lock: of the threads of a compile only the one that has it *)
(* makes a ref.                                                            *)

Holding(w) ==
  \/ w.step \in {"evaluate", "kv_read", "kv_write", "truncate", "fill", "forget"}
  \/ w.step \in {"get", "insert"} /\ w.why # "lookup"

Locked ==
  /\ project \in Projects
  /\ \A p \in Process : Compiles(p) =>
        \A t \in Workers(p) : Holding(thread[p][t]) => run[p].lock = t

LEMMA FreeIsNobody ==
  ASSUME Locked, NEW p, Compiles(p), NEW t \in Workers(p)
  PROVE  t # Free
BY RefsAssumption DEF Locked, Workers

LEMMA GoLocked ==
  ASSUME Known, Locked, NEW p \in Process, run[p].phase = "busy", NEW t \in Workers(p), NEW v,
         Go(p, t, v), project' = project, Compiles(p) /\ Holding(v) => Holding(thread[p][t])
  PROVE  Locked'
<1>1. /\ Process' = Process
      /\ \A q \in Process : (Workers(q))' = Workers(q) /\ (Compiles(q))' = Compiles(q)
  BY DEF Process, Workers, Compiles, Command
<1>2. \A q \in Process : \A u \in Workers(q) :
            thread'[q][u] = IF q = p /\ u = t THEN v ELSE thread[q][u]
  BY DEF Go, Known, Typed
<1>3. \A q \in Process : q # p => run'[q].lock = run[q].lock
  BY DEF Go, Known, Typed
<1>4. run'[p].lock = IF run[p].lock = t /\ v.step \in {"next", "ok", "failed"}
                     THEN Free ELSE run[p].lock
  BY DEF Go, Known, Typed, RunFields
<1>5. Holding(v) => v.step \notin {"next", "ok", "failed"}
  BY DEF Holding
<1> QED
  BY <1>1, <1>2, <1>3, <1>4, <1>5 DEF Locked

LEMMA AnswerHolds ==
  ASSUME NEW p, NEW t, NEW w, NEW c, Kept \subseteq DOMAIN w,
         w.step \in {"get", "insert"}, Holding(Answer(p, t, w, c))
  PROVE  Holding(w)
<1> DEFINE v == Answer(p, t, w, c)
<1>1. CASE w.why # "lookup"
  BY <1>1 DEF Holding
<1>2. CASE w.why = "lookup"
  <2>1. v = Found(p, t, w, c) \/ v = [w EXCEPT !.step = "lock"] \/ v = Failed(p, t, w)
    BY <1>2 DEF Answer, IsRef
  <2>2. v.step \in {"next", "failed", "lock"}
    BY <2>1, FoundIsGood, FailedIsGood DEF Kept
  <2> QED
    BY <2>2 DEF Holding
<1> QED
  BY <1>1, <1>2

(* Lock is taken by one thread when it is free, Insert may let it go.      *)
LEMMA LockOrInsertLocked ==
  ASSUME Known, Locked, NEW p \in Process, run[p].phase = "busy", NEW t \in Workers(p),
         Lock(p, t) \/ Insert(p, t)
  PROVE  Locked'
<1> DEFINE w == thread[p][t]
           next == Lookup(w, "recheck", w.path)
           after == Answer(p, t, w, w.seen)
<1>1. project' = project
  BY DEF Lock, Insert
<1>2. /\ Process' = Process
      /\ \A q \in Process : (Workers(q))' = Workers(q) /\ (Compiles(q))' = Compiles(q)
  BY <1>1 DEF Process, Workers, Compiles, Command
<1>3. PICK v : thread' = [thread EXCEPT ![p][t] = v] /\ (v = next \/ v = after)
  BY DEF Lock, Insert
<1>4. \A q \in Process : \A u \in Workers(q) :
         thread'[q][u] = IF q = p /\ u = t THEN v ELSE thread[q][u]
  BY <1>3 DEF Known, Typed
<1> HIDE DEF next, after
<1>5. \A q \in Process : q # p => run'[q].lock = run[q].lock
  BY DEF Lock, Insert, Known, Typed
<1>6. CASE Lock(p, t)
  <2>1. run[p].lock = Free /\ run'[p].lock = t
    BY <1>6 DEF Lock, Known, Typed, RunFields
  <2>2. \A u \in Workers(p) : Compiles(p) => ~Holding(thread[p][u])
    BY <2>1, FreeIsNobody DEF Locked
  <2> QED
    BY <1>1, <1>2, <1>4, <1>5, <2>1, <2>2 DEF Locked
<1>7. CASE Insert(p, t)
  <2>1. w.step = "insert" /\ Compiles(p) /\ Good(Entries(t), run[p].before, w)
    BY <1>7, ThreadIs DEF Insert, CompileSteps, CliSteps
  <2>2. v = after
    <3>1. thread' = [thread EXCEPT ![p][t] = after]
      BY <1>7 DEF Insert, after
    <3>2. thread'[p][t] = after
      BY <3>1 DEF Known, Typed
    <3> QED
      BY <1>4, <3>2
  <2>3. Holding(v) => Holding(w)
    BY <2>1, <2>2, AnswerHolds DEF Good, after
  <2>4. run'[p].lock = IF run[p].lock = t /\ after.step \in {"next", "failed"}
                       THEN Free ELSE run[p].lock
    BY <1>7 DEF Insert, Known, Typed, RunFields, after
  <2>5. Holding(v) => v.step \notin {"next", "failed"}
    BY DEF Holding
  <2> QED
    BY <1>1, <1>2, <1>4, <1>5, <2>2, <2>3, <2>4, <2>5 DEF Locked
<1> QED
  BY <1>6, <1>7

(* What starts is no maker, and who makes goes on holding.                 *)
LEMMA NextValueLocked ==
  ASSUME Known, Locked, NEW p \in Process, run[p].phase = "busy", NEW t \in Workers(p),
         NextValue(p, t)
  PROVE  Locked'
<1> DEFINE w == thread[p][t]
<1>1. w.step = "next" /\ Compiles(p) /\ Good(Entries(t), run[p].before, w)
  BY ThreadIs DEF NextValue, CompileSteps, CliSteps
<1>2. PICK next : /\ Go(p, t, next) /\ project' = project
                  /\ \/ next = [w EXCEPT !.step = "ok"] \/ next = Pass(p, t, w)
                     \/ \E i : LET v == [w EXCEPT !.i = i] IN
                           next = Failed(p, t, v) \/ next = Lookup(v, "lookup", Current(t, v).path)
  BY DEF NextValue
<1>3. "step" \in DOMAIN w
  BY <1>1 DEF Good
<1> HIDE DEF w
<1>4. CASE next = [w EXCEPT !.step = "ok"] \/ next = Pass(p, t, w)
  <2>1. next.step \in {"ok", "next"}
    BY <1>1, <1>3, <1>4 DEF Pass
  <2> QED
    BY <1>2, <2>1, GoLocked DEF Holding
<1>5. ASSUME NEW i, LET v == [w EXCEPT !.i = i] IN
                next = Failed(p, t, v) \/ next = Lookup(v, "lookup", Current(t, v).path)
      PROVE  Locked'
  <2>1. next.step \in {"next", "failed"} \/ (next.step = "get" /\ next.why = "lookup")
    BY <1>5, FailedIsGood, LookupIs
  <2> QED
    BY <1>2, <2>1, GoLocked DEF Holding
<1> QED
  BY <1>2, <1>4, <1>5

LEMMA ReadLocked ==
  ASSUME Known, Locked, NEW p \in Process, run[p].phase = "busy", NEW t \in Workers(p), Read(p, t)
  PROVE  Locked'
<1> DEFINE w == thread[p][t]
<1>1. w.step = "get" /\ Compiles(p) /\ Good(Entries(t), run[p].before, w)
  BY ThreadIs DEF Read
<1>2. PICK next : /\ Go(p, t, next) /\ project' = project
                  /\ \/ \E c : next = Answer(p, t, w, c)
                     \/ \E c : next = [w EXCEPT !.step = "insert", !.seen = c]
  BY DEF Read
<1>3. Kept \subseteq DOMAIN w /\ Asking \subseteq DOMAIN w
  BY <1>1 DEF Good
<1> HIDE DEF w
<1>4. Holding(next) => Holding(w)
  <2>1. CASE \E c : next = Answer(p, t, w, c)
    BY <1>1, <1>3, <2>1, AnswerHolds
  <2>2. ASSUME NEW c, next = [w EXCEPT !.step = "insert", !.seen = c] PROVE Holding(next) => Holding(w)
    BY <1>1, <1>3, <2>2 DEF Holding, Kept, Asking
  <2> QED
    BY <1>2, <2>1, <2>2
<1> QED
  BY <1>2, <1>4, GoLocked DEF w

LEMMA MakingLocked ==
  ASSUME Known, Locked, NEW p \in Process, run[p].phase = "busy", NEW t \in Workers(p),
         \/ Evaluate(p, t) \/ KvRead(p, t) \/ KvWrite(p, t)
         \/ Truncate(p, t) \/ Fill(p, t) \/ (t = "cli" /\ (Load(p) \/ CheckRef(p)))
  PROVE  Locked'
<1>1. PICK v : Go(p, t, v) /\ project' = project
  BY DEF Evaluate, KvRead, KvWrite, Truncate, Fill, Load, CheckRef
<1>2. Compiles(p) => Holding(thread[p][t])
  BY ThreadIs DEF Evaluate, KvRead, KvWrite, Truncate, Fill, Load, CheckRef, Holding,
                  CompileSteps, CliSteps
<1> QED
  BY <1>1, <1>2, GoLocked

LEMMA ForgetLocked ==
  ASSUME Known, Locked, NEW p \in Process, run[p].phase = "busy", NEW t \in Workers(p), Forget(p, t)
  PROVE  Locked'
<1>1. project' = project
  BY DEF Forget
<1>2. /\ Process' = Process
      /\ \A q \in Process : (Workers(q))' = Workers(q) /\ (Compiles(q))' = Compiles(q)
  BY <1>1 DEF Process, Workers, Compiles, Command
<1>3. \A q \in Process : \A u \in Workers(q) :
         ~(q = p /\ u = t) => thread'[q][u] = thread[q][u]
  BY DEF Forget, Known, Typed
<1>4. \A q \in Process : run'[q].lock = run[q].lock
  BY DEF Forget, Known, Typed, RunFields
<1>5. Holding(thread[p][t])
  BY DEF Forget, Holding
<1> QED
  BY <1>1, <1>2, <1>3, <1>4, <1>5 DEF Locked

LEMMA NextLocked == ASSUME Known, Locked, [Next]_vars PROVE Locked'
<1>1. CASE UNCHANGED vars
  BY <1>1 DEF vars, Locked, Process, Workers, Compiles, Command
<1>2. ASSUME NEW p \in Process, EndRun(p) \/ Crash(p) PROVE Locked'
  <2>1. project' = project /\ thread' = thread /\ \A q \in Process : run'[q].lock = run[q].lock
    BY <1>2 DEF EndRun, Crash, Known, Typed, RunFields
  <2> QED
    BY <2>1 DEF Locked, Process, Workers, Compiles, Command
<1>3. ASSUME NEW p \in Process, StartRun(p) PROVE Locked'
  <2>1. /\ project' = project /\ run[p].phase = "idle"
        /\ \A q \in Process : q # p => run'[q].lock = run[q].lock
        /\ \A q \in Process : Compiles(q) => thread'[q] = thread[q]
    <3>1. CASE Compiles(p)
      BY <1>3, <3>1 DEF StartRun, Known, Typed, RunFields
    <3>2. CASE ~Compiles(p)
      BY <1>3, <3>2 DEF StartRun, Known, Typed, RunFields
    <3> QED
      BY <3>1, <3>2
  <2>2. \A t \in Workers(p) : ~Holding(thread[p][t])
    BY <2>1 DEF Known, NotStarted, Holding
  <2> QED
    BY <2>1, <2>2 DEF Locked, Process, Workers, Compiles, Command
<1>4. ASSUME NEW p \in Process, NEW t \in Workers(p), StartTarget(p, t) PROVE Locked'
  <2>1. Go(p, t, Fresh) /\ project' = project /\ run[p].phase = "busy" /\ ~Holding(Fresh)
    BY <1>4 DEF StartTarget, Fresh, Holding
  <2> QED
    BY <2>1, GoLocked
<1>5. ASSUME NEW p \in Process, NEW t \in Workers(p), Step(p, t) PROVE Locked'
  <2>1. run[p].phase = "busy"
    BY <1>5 DEF Step
  <2>2. CASE NextValue(p, t) \/ Read(p, t) \/ Insert(p, t) \/ Lock(p, t) \/ Forget(p, t)
    <3>1. CASE NextValue(p, t)
      BY <2>1, <3>1, NextValueLocked
    <3>2. CASE Read(p, t)
      BY <2>1, <3>2, ReadLocked
    <3>3. CASE Insert(p, t) \/ Lock(p, t)
      BY <2>1, <3>3, LockOrInsertLocked
    <3>4. CASE Forget(p, t)
      BY <2>1, <3>4, ForgetLocked
    <3> QED
      BY <2>2, <3>1, <3>2, <3>3, <3>4
  <2>3. CASE \/ Evaluate(p, t) \/ KvRead(p, t) \/ KvWrite(p, t)
             \/ Truncate(p, t) \/ Fill(p, t) \/ (t = "cli" /\ (Load(p) \/ CheckRef(p)))
    BY <2>1, <2>3, MakingLocked
  <2> QED
    <3>1. \/ NextValue(p, t) \/ Read(p, t) \/ Insert(p, t)
          \/ Lock(p, t) \/ Evaluate(p, t) \/ KvRead(p, t) \/ KvWrite(p, t)
          \/ Truncate(p, t) \/ Fill(p, t) \/ Forget(p, t)
          \/ t = "cli" /\ (Load(p) \/ CheckRef(p))
      BY <1>5 DEF Step
    <3> QED
      BY <2>2, <2>3, <3>1
<1> QED
  BY <1>1, <1>2, <1>3, <1>4, <1>5 DEF Next
-----------------------------------------------------------------------------
(* The Vault.  A thread that will write there knows every key, and a ref   *)
(* that names a place is written after the secret.                         *)

(* Whoever overlaps with another run knows it.                             *)
Overlap ==
  \A p, q \in Process :
    p # q /\ run[p].phase = "busy" /\ run[q].phase = "busy" => ~run[p].alone /\ ~run[q].alone

Stored ==
  \A x \in DOMAIN disk : IsRef(disk[x]) /\ disk[x].type = "vaultkv" => InVault(disk[x].plain)

KnowsTheVault(w) ==
  w.step = "kv_write" /\ w.place[1] \in DOMAIN vault => DOMAIN vault[w.place[1]] \subseteq DOMAIN w.kv

NamesASecret(w) ==
  w.step \in {"truncate", "fill"} /\ w.new.type = "vaultkv" => InVault(w.new.plain)

Prepared ==
  \A p \in Process : run[p].phase = "busy" =>
     \A t \in Workers(p) : KnowsTheVault(thread[p][t]) /\ NamesASecret(thread[p][t])

Vaulted == Overlap /\ (OneAtATime => Stored /\ Prepared)

(* A step of a thread that leaves the Vault alone.                         *)
LEMMA GoVaulted ==
  ASSUME Known, Vaulted, NEW p \in Process, run[p].phase = "busy", NEW t \in Workers(p), NEW v,
         Moves(p, t, v), vault' = vault, KnowsTheVault(v),
         OneAtATime => NamesASecret(v), OneAtATime => Stored'
  PROVE  Vaulted'
<1>1. /\ Process' = Process
      /\ \A q \in Process : (Workers(q))' = Workers(q)
  BY DEF Moves, Process, Workers, Compiles, Command
<1>2. \A q \in Process : \A u \in Workers(q) :
         thread'[q][u] = IF q = p /\ u = t THEN v ELSE thread[q][u]
  BY DEF Moves, Known, Typed
<1>3. \A q \in Process : run'[q].phase = run[q].phase /\ run'[q].alone = run[q].alone
  BY DEF Moves
<1>4. (OneAtATime' <=> OneAtATime) /\ Overlap'
  BY <1>1, <1>3 DEF OneAtATime, Vaulted, Overlap
<1>5. OneAtATime => Prepared'
  <2>1. \A w : KnowsTheVault(w)' <=> KnowsTheVault(w)
    BY DEF KnowsTheVault
  <2>2. \A w : NamesASecret(w)' <=> NamesASecret(w)
    BY DEF NamesASecret, InVault
  <2>3. ASSUME OneAtATime, NEW q \in Process, run[q].phase = "busy", NEW u \in Workers(q)
        PROVE  KnowsTheVault(thread'[q][u]) /\ NamesASecret(thread'[q][u])
    BY <1>2, <2>3 DEF Vaulted, Prepared
  <2>4. ASSUME OneAtATime, NEW q \in Process, run[q].phase = "busy", NEW u \in Workers(q)
        PROVE  (KnowsTheVault(thread[q][u]) /\ NamesASecret(thread[q][u]))'
    BY <2>3, <2>4 DEF KnowsTheVault, NamesASecret, InVault
  <2> QED
    BY <1>1, <1>3, <2>4 DEF Prepared
<1> QED
  BY <1>4, <1>5 DEF Vaulted

(* A thread that reads, waits or decides says nothing of the Vault.        *)
LEMMA QuietVaulted ==
  ASSUME Known, Vaulted, NEW p \in Process, run[p].phase = "busy", NEW t \in Workers(p), NEW v,
         Moves(p, t, v), vault' = vault, disk' = disk,
         v.step \notin {"kv_write", "truncate", "fill"}
  PROVE  Vaulted'
<1>1. KnowsTheVault(v) /\ NamesASecret(v)
  BY DEF KnowsTheVault, NamesASecret
<1>2. OneAtATime => Stored'
  BY DEF Vaulted, Stored, InVault
<1> QED
  BY <1>1, <1>2, GoVaulted

LEMMA AnswerSteps ==
  ASSUME NEW p, NEW t, NEW w, NEW c, "step" \in DOMAIN w
  PROVE  Answer(p, t, w, c).step \in {"next", "failed", "lock", "evaluate"}
<1> DEFINE v == Answer(p, t, w, c)
<1>1. CASE w.why \in {"lookup", "recheck", "readback"} /\ IsRef(c)
  <2>1. v = Found(p, t, w, c)
    BY <1>1 DEF Answer, IsRef
  <2> QED
    BY <2>1, FoundIsGood
<1>2. CASE w.why = "lookup" /\ c = Missing /\ Creates(p, Current(t, w))
  <2>1. v = [w EXCEPT !.step = "lock"]
    BY <1>2 DEF Answer, IsRef
  <2> QED
    BY <2>1
<1>3. CASE w.why = "recheck" /\ c = Missing
  <2>1. v = [w EXCEPT !.step = "evaluate"]
    BY <1>3 DEF Answer, IsRef
  <2> QED
    BY <2>1
<1>4. CASE w.why = "reveal" /\ IsRef(c) /\ Secret(Current(t, w).type, c) # NoSecret
  <2>1. v = [w EXCEPT !.step = "evaluate", !.at = @ + 1, !.secret = Secret(Current(t, w).type, c)]
    BY <1>4 DEF Answer
  <2> QED
    BY <2>1
<1>5. CASE /\ ~(w.why \in {"lookup", "recheck", "readback"} /\ IsRef(c))
           /\ ~(w.why = "lookup" /\ c = Missing /\ Creates(p, Current(t, w)))
           /\ ~(w.why = "recheck" /\ c = Missing)
           /\ ~(w.why = "reveal" /\ IsRef(c) /\ Secret(Current(t, w).type, c) # NoSecret)
  <2>1. v = Failed(p, t, w)
    BY <1>5 DEF Answer
  <2> QED
    BY <2>1, FailedIsGood
<1> QED
  BY <1>1, <1>2, <1>3, <1>4, <1>5

LEMMA LookingVaulted ==
  ASSUME Known, Vaulted, NEW p \in Process, run[p].phase = "busy", NEW t \in Workers(p),
         NextValue(p, t) \/ Read(p, t) \/ Insert(p, t) \/ Lock(p, t) \/ Forget(p, t)
  PROVE  Vaulted'
<1> DEFINE w == thread[p][t]
<1>1. "step" \in DOMAIN w
  BY ThreadIs
<1>2. vault' = vault /\ disk' = disk /\ project' = project
  BY DEF NextValue, Read, Insert, Lock, Forget
<1>3. CASE NextValue(p, t)
  <2>1. PICK next : /\ Go(p, t, next)
                    /\ \/ next = [w EXCEPT !.step = "ok"] \/ next = Pass(p, t, w)
                       \/ \E i : LET v == [w EXCEPT !.i = i] IN
                             next = Failed(p, t, v) \/ next = Lookup(v, "lookup", Current(t, v).path)
    BY <1>3 DEF NextValue
  <2>2. w.step = "next"
    BY <1>3 DEF NextValue
  <2> HIDE DEF w
  <2>3. next.step \in {"ok", "next", "failed", "get"}
    <3>1. CASE next = [w EXCEPT !.step = "ok"] \/ next = Pass(p, t, w)
      BY <1>1, <2>2, <3>1 DEF Pass
    <3>2. ASSUME NEW i, LET v == [w EXCEPT !.i = i] IN
                    next = Failed(p, t, v) \/ next = Lookup(v, "lookup", Current(t, v).path)
          PROVE  next.step \in {"next", "failed", "get"}
      BY <3>2, FailedIsGood, LookupIs
    <3> QED
      BY <2>1, <3>1, <3>2
  <2> QED
    BY <1>2, <2>1, <2>3, GoMoves, QuietVaulted
<1>4. CASE Read(p, t)
  <2>1. PICK next : /\ Go(p, t, next)
                    /\ \/ \E c : next = Answer(p, t, w, c)
                       \/ \E c : next = [w EXCEPT !.step = "insert", !.seen = c]
    BY <1>4 DEF Read
  <2> HIDE DEF w
  <2>2. next.step \in {"next", "failed", "lock", "evaluate", "insert"}
    BY <1>1, <2>1, AnswerSteps
  <2> QED
    BY <1>2, <2>1, <2>2, GoMoves, QuietVaulted
<1>5. CASE Insert(p, t)
  <2> DEFINE v == Answer(p, t, w, w.seen)
  <2>1. v.step \in {"next", "failed", "lock", "evaluate"}
    BY <1>1, AnswerSteps
  <2> HIDE DEF v, w
  <2>2. Moves(p, t, v)
    BY <1>2, <1>5 DEF Insert, Moves, Known, Typed, RunFields, v, w
  <2> QED
    BY <1>2, <2>1, <2>2, QuietVaulted
<1>6. CASE Lock(p, t)
  <2> DEFINE v == Lookup(w, "recheck", w.path)
  <2>1. v.step = "get"
    BY LookupIs
  <2> HIDE DEF v, w
  <2>2. Moves(p, t, v)
    BY <1>2, <1>6 DEF Lock, Moves, Known, Typed, RunFields, v, w
  <2> QED
    BY <1>2, <2>1, <2>2, QuietVaulted
<1>7. CASE Forget(p, t)
  <2> DEFINE v == IF Compiles(p) THEN Lookup(w, "readback", Target(p, t)) ELSE [w EXCEPT !.step = "cli"]
  <2>1. v.step \in {"get", "cli"}
    BY <1>1, LookupIs
  <2> HIDE DEF v, w
  <2>2. Moves(p, t, v)
    BY <1>2, <1>7 DEF Forget, Moves, Known, Typed, RunFields, v, w
  <2> QED
    BY <1>2, <2>1, <2>2, QuietVaulted
<1> QED
  BY <1>3, <1>4, <1>5, <1>6, <1>7

(* A ref of another type than vaultkv names no place.                      *)
LEMMA SealedNames ==
  ASSUME NEW type, type # "vaultkv", NEW plain, NEW key, NEW v, v.new = Sealed(type, plain, key),
         v.step = "truncate"
  PROVE  KnowsTheVault(v) /\ NamesASecret(v)
BY DEF KnowsTheVault, NamesASecret, Sealed

LEMMA EvaluateVaulted ==
  ASSUME Known, Vaulted, NEW p \in Process, run[p].phase = "busy", NEW t \in Workers(p),
         Evaluate(p, t)
  PROVE  Vaulted'
<1> DEFINE w == thread[p][t]
           tag == Current(t, w)
           s == Sealed(tag.type, w.secret, Key(t, tag.type))
<1>1. "step" \in DOMAIN w /\ w.step = "evaluate"
  BY ThreadIs DEF Evaluate
<1>2. vault' = vault /\ disk' = disk /\ project' = project
  BY DEF Evaluate
<1>3. OneAtATime => Stored'
  BY <1>2 DEF Vaulted, Stored, InVault
<1>4. \/ \E a, b : Go(p, t, [w EXCEPT !.at = a, !.secret = b])
      \/ Go(p, t, Failed(p, t, w))
      \/ \E path : Go(p, t, Lookup(w, "reveal", path))
      \/ Go(p, t, With([w EXCEPT !.step = "kv_read"], "place", tag.place))
      \/ /\ tag.type # "vaultkv"
         /\ Go(p, t, With([w EXCEPT !.step = "truncate", !.path = tag.path], "new", s))
  BY DEF Evaluate
<1> HIDE DEF w, tag, s
<1>5. ASSUME NEW v, Go(p, t, v), v.step \notin {"kv_write", "truncate", "fill"} PROVE Vaulted'
  BY <1>2, <1>5, GoMoves, QuietVaulted
<1>6. ASSUME NEW a, NEW b, Go(p, t, [w EXCEPT !.at = a, !.secret = b]) PROVE Vaulted'
  <2> DEFINE v == [w EXCEPT !.at = a, !.secret = b]
  <2>1. v.step = "evaluate"
    BY <1>1
  <2> HIDE DEF v
  <2> QED
    BY <1>5, <1>6, <2>1 DEF v
<1>7. CASE Go(p, t, Failed(p, t, w))
  BY <1>5, <1>7, FailedIsGood
<1>8. ASSUME NEW path, Go(p, t, Lookup(w, "reveal", path)) PROVE Vaulted'
  BY <1>5, <1>8, LookupIs
<1>9. CASE Go(p, t, With([w EXCEPT !.step = "kv_read"], "place", tag.place))
  <2> DEFINE v == With([w EXCEPT !.step = "kv_read"], "place", tag.place)
  <2>1. v.step = "kv_read"
    BY <1>1 DEF With
  <2> HIDE DEF v
  <2> QED
    BY <1>5, <1>9, <2>1 DEF v
<1>10. CASE /\ tag.type # "vaultkv"
            /\ Go(p, t, With([w EXCEPT !.step = "truncate", !.path = tag.path], "new", s))
  <2> DEFINE v == With([w EXCEPT !.step = "truncate", !.path = tag.path], "new", s)
  <2>1. v.step = "truncate" /\ v.new = s
    BY <1>1 DEF With
  <2>2. Go(p, t, v) /\ tag.type # "vaultkv"
    BY <1>10
  <2> HIDE DEF v
  <2>3. KnowsTheVault(v) /\ NamesASecret(v)
    BY <2>1, <2>2, SealedNames DEF s
  <2> QED
    BY <1>2, <1>3, <2>2, <2>3, GoMoves, GoVaulted
<1> QED
  BY <1>4, <1>6, <1>7, <1>8, <1>9, <1>10

(* What is read from the Vault is what the thread will know; nobody else   *)
(* writes there before it does.                                            *)
LEMMA KvReadVaulted ==
  ASSUME Known, Vaulted, NEW p \in Process, run[p].phase = "busy", NEW t \in Workers(p),
         KvRead(p, t)
  PROVE  Vaulted'
<1> DEFINE w == thread[p][t]
           kv == IF w.place[1] \in DOMAIN vault THEN vault[w.place[1]] ELSE << >>
           v == With([w EXCEPT !.step = "kv_write"], "kv", kv)
<1>1. {"step", "place"} \subseteq DOMAIN w
  BY ThreadIs DEF KvRead, Ready
<1>2. Go(p, t, v) /\ vault' = vault /\ disk' = disk /\ project' = project
  BY DEF KvRead
<1> HIDE DEF w, kv
<1>3. v.step = "kv_write" /\ v.place = w.place /\ v.kv = kv
  BY <1>1 DEF With
<1> HIDE DEF v
<1>4. KnowsTheVault(v) /\ NamesASecret(v)
  BY <1>3 DEF KnowsTheVault, NamesASecret, kv
<1>5. OneAtATime => Stored'
  BY <1>2 DEF Vaulted, Stored, InVault
<1> QED
  BY <1>2, <1>4, <1>5, GoMoves, GoVaulted

LEMMA OneWriter ==
  ASSUME Known, Locked, Overlap, OneAtATime,
         NEW p \in Process, run[p].phase = "busy", NEW t \in Workers(p),
         thread[p][t].step = "kv_write",
         NEW q \in Process, run[q].phase = "busy", NEW u \in Workers(q),
         thread[q][u].step = "kv_write"
  PROVE  q = p /\ u = t
<1>1. q = p
  BY DEF Overlap, OneAtATime
<1>2. CASE Compiles(p)
  BY <1>1, <1>2 DEF Locked, Holding
<1>3. CASE ~Compiles(p)
  BY <1>1, <1>3 DEF Workers
<1> QED
  BY <1>1, <1>2, <1>3

LEMMA KvWriteVaulted ==
  ASSUME Known, Locked, Vaulted, NEW p \in Process, run[p].phase = "busy", NEW t \in Workers(p),
         KvWrite(p, t)
  PROVE  Vaulted'
<1> DEFINE w == thread[p][t]
           s == Sealed("vaultkv", w.place, NoKey)
           kv == With(w.kv, w.place[2], w.secret)
           v == With([w EXCEPT !.step = "truncate"], "new", s)
<1>1. "step" \in DOMAIN w /\ w.step = "kv_write"
  BY ThreadIs DEF KvWrite
<1>2. Go(p, t, v) /\ vault' = With(vault, w.place[1], kv) /\ disk' = disk /\ project' = project
  BY DEF KvWrite
<1>3. s.plain = w.place
  BY DEF Sealed
<1>4. DOMAIN kv = DOMAIN w.kv \cup {w.place[2]}
  BY DEF With
<1> HIDE DEF s, kv
<1>5. v.step = "truncate" /\ v.new = s
  <2> HIDE DEF w
  <2> QED
    BY <1>1 DEF With
<1> HIDE DEF v
<1>6. Moves(p, t, v)
  BY <1>2, GoMoves
<1>7. /\ Process' = Process
      /\ \A q \in Process : (Workers(q))' = Workers(q)
      /\ \A q \in Process : run'[q].phase = run[q].phase /\ run'[q].alone = run[q].alone
  BY <1>6 DEF Moves, Process, Workers, Compiles, Command
<1>8. (OneAtATime' <=> OneAtATime) /\ Overlap'
  BY <1>7 DEF OneAtATime, Vaulted, Overlap
<1>9. ASSUME OneAtATime PROVE Stored' /\ Prepared'
  <2>1. w.place[1] \in DOMAIN vault => DOMAIN vault[w.place[1]] \subseteq DOMAIN w.kv
    BY <1>1, <1>9 DEF Vaulted, Prepared, KnowsTheVault
  <2>2. \A place : InVault(place) => InVault(place)'
    BY <1>2, <1>4, <2>1 DEF InVault, With
  <2>3. PICK place : place = w.place
    OBVIOUS
  <2>4. InVault(place)'
    BY <1>2, <1>4, <2>3 DEF InVault, With
  <2>5. Stored'
    BY <1>2, <1>9, <2>2 DEF Vaulted, Stored
  <2>6. ASSUME NEW q \in Process, run[q].phase = "busy", NEW u \in Workers(q)
        PROVE  (KnowsTheVault(thread[q][u]) /\ NamesASecret(thread[q][u]))'
    <3>1. CASE q = p /\ u = t
      <4>1. thread'[q][u] = v
        BY <1>6, <3>1 DEF Moves, Known, Typed
      <4> QED
        BY <1>3, <1>5, <2>3, <2>4, <4>1 DEF KnowsTheVault, NamesASecret, InVault
    <3>2. CASE ~(q = p /\ u = t)
      <4>1. thread'[q][u] = thread[q][u]
        BY <1>6, <2>6, <3>2 DEF Moves, Known, Typed
      <4>2. thread[q][u].step # "kv_write"
        BY <1>1, <1>9, <2>6, <3>2, OneWriter DEF Vaulted
      <4>3. NamesASecret(thread[q][u])
        BY <1>9, <2>6 DEF Vaulted, Prepared
      <4> QED
        BY <2>2, <4>1, <4>2, <4>3 DEF KnowsTheVault, NamesASecret, InVault
    <3> QED
      BY <3>1, <3>2
  <2> QED
    BY <1>7, <2>5, <2>6 DEF Prepared
<1> QED
  BY <1>8, <1>9 DEF Vaulted

LEMMA TruncateVaulted ==
  ASSUME Known, Vaulted, NEW p \in Process, run[p].phase = "busy", NEW t \in Workers(p),
         Truncate(p, t)
  PROVE  Vaulted'
<1> DEFINE w == thread[p][t]
           v == [w EXCEPT !.step = "fill"]
<1>1. {"step", "new"} \subseteq DOMAIN w /\ w.step = "truncate"
  BY ThreadIs DEF Truncate, Ready
<1>2. /\ Go(p, t, v) /\ vault' = vault /\ project' = project
      /\ disk' = [disk EXCEPT ![Target(p, t)] = Torn]
  BY DEF Truncate
<1>3. OneAtATime => NamesASecret(w)
  BY DEF Vaulted, Prepared
<1> HIDE DEF w
<1>4. v.step = "fill" /\ v.new = w.new
  BY <1>1
<1> HIDE DEF v
<1>5. KnowsTheVault(v) /\ (OneAtATime => NamesASecret(v))
  BY <1>1, <1>3, <1>4 DEF KnowsTheVault, NamesASecret
<1>6. OneAtATime => Stored'
  BY <1>2 DEF Vaulted, Stored, InVault, IsRef
<1> QED
  BY <1>2, <1>5, <1>6, GoMoves, GoVaulted

LEMMA FillVaulted ==
  ASSUME Known, Vaulted, NEW p \in Process, run[p].phase = "busy", NEW t \in Workers(p),
         Fill(p, t)
  PROVE  Vaulted'
<1> DEFINE w == thread[p][t]
           v == [w EXCEPT !.step = "forget"]
<1>1. "step" \in DOMAIN w /\ w.step = "fill"
  BY ThreadIs DEF Fill
<1>2. /\ Go(p, t, v) /\ vault' = vault /\ project' = project
      /\ disk' = [disk EXCEPT ![Target(p, t)] = w.new]
  BY DEF Fill
<1>3. OneAtATime => NamesASecret(w)
  BY DEF Vaulted, Prepared
<1> HIDE DEF w
<1>4. v.step = "forget"
  BY <1>1
<1> HIDE DEF v
<1>5. KnowsTheVault(v) /\ NamesASecret(v)
  BY <1>4 DEF KnowsTheVault, NamesASecret
<1>6. OneAtATime => Stored'
  BY <1>1, <1>2, <1>3 DEF Vaulted, Stored, InVault, NamesASecret
<1> QED
  BY <1>2, <1>5, <1>6, GoMoves, GoVaulted

(* `krab refs' seals again only what is sealed with a key.                 *)
LEMMA CliVaulted ==
  ASSUME Known, Vaulted, NEW p \in Process, run[p].phase = "busy", "cli" \in Workers(p),
         Load(p) \/ CheckRef(p)
  PROVE  Vaulted'
<1> DEFINE w == thread[p]["cli"]
           Rest(path) == [w EXCEPT !.todo = @ \ {path}]
           S(path) == LET c == w.known[path]
                      IN  Sealed(c.type, Secret(c.type, c), Wanted(p, path, c.type))
           Again(path) == With([Rest(path) EXCEPT !.step = "truncate", !.path = path], "new", S(path))
<1>1. "step" \in DOMAIN w /\ w.step \in {"load", "cli"}
  BY ThreadIs DEF Load, CheckRef
<1>2. vault' = vault /\ disk' = disk /\ project' = project
  BY DEF Load, CheckRef
<1>3. ASSUME NEW v, Go(p, "cli", v), v.step \notin {"kv_write", "truncate", "fill"} PROVE Vaulted'
  BY <1>2, <1>3, GoMoves, QuietVaulted
<1>4. CASE Load(p)
  <2>1. \/ \E step \in {"cli", "failed"} : Go(p, "cli", [w EXCEPT !.step = step])
        \/ \E known : Go(p, "cli", [w EXCEPT !.known = known])
    BY <1>4 DEF Load
  <2> HIDE DEF w
  <2>2. ASSUME NEW step \in {"cli", "failed"}, Go(p, "cli", [w EXCEPT !.step = step])
        PROVE  Vaulted'
    <3>1. PICK v : v = [w EXCEPT !.step = step]
      OBVIOUS
    <3> QED
      BY <1>1, <1>3, <2>2, <3>1
  <2>3. ASSUME NEW known, Go(p, "cli", [w EXCEPT !.known = known]) PROVE Vaulted'
    <3>1. PICK v : v = [w EXCEPT !.known = known]
      OBVIOUS
    <3> QED
      BY <1>1, <1>3, <2>3, <3>1
  <2> QED
    BY <2>1, <2>2, <2>3
<1>5. CASE CheckRef(p)
  <2>1. \/ \E step \in {"failed", "ok"} : Go(p, "cli", [w EXCEPT !.step = step])
        \/ \E path : \/ Go(p, "cli", Rest(path))
                     \/ Go(p, "cli", [Rest(path) EXCEPT !.bad = @ + 1])
                     \/ Go(p, "cli", Again(path)) /\ w.known[path].type \in Sealing
    BY <1>5 DEF CheckRef, Mismatch
  <2> HIDE DEF w, S
  <2>2. ASSUME NEW step \in {"failed", "ok"}, Go(p, "cli", [w EXCEPT !.step = step])
        PROVE  Vaulted'
    <3>1. PICK v : v = [w EXCEPT !.step = step]
      OBVIOUS
    <3> QED
      BY <1>1, <1>3, <2>2, <3>1
  <2>3. \A path : Rest(path).step = w.step /\ [Rest(path) EXCEPT !.bad = @ + 1].step = w.step
    BY <1>1
  <2>4. \A path : Again(path).step = "truncate" /\ Again(path).new = S(path)
    BY <1>1 DEF With
  <2> HIDE DEF Rest, Again
  <2>5. ASSUME NEW path, Go(p, "cli", Rest(path)) \/ Go(p, "cli", [Rest(path) EXCEPT !.bad = @ + 1])
        PROVE  Vaulted'
    BY <1>1, <1>3, <2>3, <2>5
  <2>6. ASSUME NEW path, Go(p, "cli", Again(path)), w.known[path].type \in Sealing PROVE Vaulted'
    <3>1. KnowsTheVault(Again(path)) /\ NamesASecret(Again(path))
      BY <2>4, <2>6, SealedNames DEF S, Sealing, Keyed
    <3>2. OneAtATime => Stored'
      BY <1>2 DEF Vaulted, Stored, InVault
    <3> QED
      BY <1>2, <2>6, <3>1, <3>2, GoMoves, GoVaulted
  <2> QED
    BY <2>1, <2>2, <2>5, <2>6
<1> QED
  BY <1>4, <1>5
-----------------------------------------------------------------------------
LEMMA StartRunVaulted ==
  ASSUME Known, Vaulted, NEW p \in Process, StartRun(p)
  PROVE  Vaulted'
<1>1. /\ project' = project /\ disk' = disk /\ vault' = vault /\ run[p].phase = "idle"
      /\ \A q \in Process : /\ q # p => run'[q].phase = run[q].phase /\ run'[q].alone = FALSE
                            /\ q # p => thread'[q] = thread[q]
      /\ run'[p].phase = "busy" /\ run'[p].alone = (Running = {})
  <2>1. CASE Compiles(p)
    BY <2>1 DEF StartRun, Known, Typed, Run, RunFields
  <2>2. CASE ~Compiles(p)
    BY <2>2 DEF StartRun, Known, Typed, Run, RunFields
  <2> QED
    BY <2>1, <2>2
<1>2. \A t \in Workers(p) : thread'[p][t].step \notin {"kv_write", "truncate", "fill"}
                            \/ (~Compiles(p) /\ thread'[p][t] = StartCli(p))
  <2>1. CASE Compiles(p)
    BY <1>1, <2>1 DEF StartRun, Known, NotStarted
  <2>2. CASE ~Compiles(p)
    BY <2>2 DEF StartRun, Known, Typed, Workers
  <2> QED
    BY <2>1, <2>2
<1>3. KnowsTheVault(StartCli(p)) /\ NamesASecret(StartCli(p))
  <2> DEFINE c == Command(p)
             w == [step |-> "truncate", path |-> c.path, todo |-> {}]
             u == StartCli(p)
  <2> SUFFICES KnowsTheVault(u) /\ NamesASecret(u)
    OBVIOUS
  <2>1. CASE Command(p).kind = "write"
    <3>1. \/ u = [w EXCEPT !.step = "failed"]
          \/ u = With(With([w EXCEPT !.step = "kv_read"], "place", c.place), "secret", Given)
          \/ u = With(w, "new", Sealed(c.type, Given, c.key)) /\ c.type # "vaultkv"
      BY <2>1 DEF StartCli, WriteRef
    <3> HIDE DEF u, c
    <3>2. CASE u = [w EXCEPT !.step = "failed"]
      BY <3>2 DEF KnowsTheVault, NamesASecret
    <3>3. CASE u = With(With([w EXCEPT !.step = "kv_read"], "place", c.place), "secret", Given)
      <4>1. u.step = "kv_read"
        BY <3>3 DEF With
      <4> QED
        BY <4>1 DEF KnowsTheVault, NamesASecret
    <3>4. CASE u = With(w, "new", Sealed(c.type, Given, c.key)) /\ c.type # "vaultkv"
      <4>1. u.step = "truncate" /\ u.new = Sealed(c.type, Given, c.key)
        BY <3>4 DEF With
      <4> QED
        BY <3>4, <4>1, SealedNames
    <3> QED
      BY <3>1, <3>2, <3>3, <3>4
  <2>2. CASE Command(p).kind # "write"
    <3>1. u.step \in {"load", "failed"}
      <4>1. CASE Command(p).kind = "update"
        BY <4>1 DEF StartCli
      <4>2. CASE Command(p).kind # "update"
        BY <2>2, <4>2 DEF StartCli
      <4> QED
        BY <4>1, <4>2
    <3> QED
      BY <3>1 DEF KnowsTheVault, NamesASecret
  <2> QED
    BY <2>1, <2>2
<1>4. Process' = Process /\ \A q \in Process : (Workers(q))' = Workers(q)
  BY <1>1 DEF Process, Workers, Compiles, Command
<1>5. Overlap'
  <2>1. ASSUME NEW q \in Process, q # p, run[q].phase = "busy" PROVE ~run'[p].alone /\ ~run'[q].alone
    <3>1. q \in Running
      BY <2>1 DEF Running
    <3> QED
      BY <1>1, <2>1, <3>1
  <2>2. ASSUME NEW q \in Process, NEW r \in Process, q # r, q # p, r # p
        PROVE  ~run'[q].alone /\ ~run'[r].alone
    BY <1>1, <2>2
  <2> QED
    BY <1>1, <1>4, <2>1, <2>2 DEF Overlap
<1>6. OneAtATime' => OneAtATime
  BY <1>1, <1>4 DEF OneAtATime
<1>7. ASSUME OneAtATime PROVE Stored' /\ Prepared'
  <2>1. Stored'
    BY <1>1, <1>7 DEF Vaulted, Stored, InVault
  <2>2. ASSUME NEW q \in Process, run'[q].phase = "busy", NEW t \in Workers(q)
        PROVE  (KnowsTheVault(thread[q][t]) /\ NamesASecret(thread[q][t]))'
    <3>1. CASE q # p
      BY <1>1, <1>7, <2>2, <3>1 DEF Vaulted, Prepared, KnowsTheVault, NamesASecret, InVault
    <3>2. CASE q = p
      BY <1>1, <1>2, <1>3, <2>2, <3>2 DEF KnowsTheVault, NamesASecret, InVault
    <3> QED
      BY <3>1, <3>2
  <2> QED
    BY <1>4, <2>1, <2>2 DEF Prepared
<1> QED
  BY <1>5, <1>6, <1>7 DEF Vaulted

LEMMA NextVaulted == ASSUME Known, Locked, Vaulted, [Next]_vars PROVE Vaulted'
<1>1. CASE UNCHANGED vars
  BY <1>1 DEF vars, Vaulted, Overlap, OneAtATime, Stored, Prepared, KnowsTheVault, NamesASecret,
              InVault, Process, Workers, Compiles, Command
<1>2. ASSUME NEW p \in Process, EndRun(p) \/ Crash(p) PROVE Vaulted'
  <2>1. /\ project' = project /\ thread' = thread /\ disk' = disk /\ vault' = vault
        /\ \A q \in Process : /\ run'[q].alone = run[q].alone
                              /\ run'[q].phase = "busy" => run[q].phase = "busy"
                              /\ run'[q].phase = "idle" <=> run[q].phase = "idle"
    BY <1>2 DEF EndRun, Crash, Known, Typed, RunFields
  <2>2. OneAtATime' <=> OneAtATime
    BY <2>1 DEF OneAtATime, Process
  <2> QED
    BY <2>1, <2>2 DEF Vaulted, Overlap, Stored, Prepared, KnowsTheVault, NamesASecret, InVault,
                      Process, Workers, Compiles, Command
<1>3. ASSUME NEW p \in Process, StartRun(p) PROVE Vaulted'
  BY <1>3, StartRunVaulted
<1>4. ASSUME NEW p \in Process, NEW t \in Workers(p), StartTarget(p, t) PROVE Vaulted'
  <2>1. /\ Go(p, t, Fresh) /\ project' = project /\ disk' = disk /\ vault' = vault
        /\ run[p].phase = "busy" /\ Fresh.step = "next"
    BY <1>4 DEF StartTarget, Fresh
  <2> QED
    BY <2>1, GoMoves, QuietVaulted
<1>5. ASSUME NEW p \in Process, NEW t \in Workers(p), Step(p, t) PROVE Vaulted'
  <2>1. run[p].phase = "busy"
    BY <1>5 DEF Step
  <2>2. CASE NextValue(p, t) \/ Read(p, t) \/ Insert(p, t) \/ Lock(p, t) \/ Forget(p, t)
    BY <2>1, <2>2, LookingVaulted
  <2>3. CASE Evaluate(p, t) \/ KvRead(p, t) \/ KvWrite(p, t)
    BY <2>1, <2>3, EvaluateVaulted, KvReadVaulted, KvWriteVaulted
  <2>4. CASE Truncate(p, t) \/ Fill(p, t)
    BY <2>1, <2>4, TruncateVaulted, FillVaulted
  <2>5. CASE t = "cli" /\ (Load(p) \/ CheckRef(p))
    BY <2>1, <2>5, CliVaulted
  <2> QED
    BY <1>5, <2>2, <2>3, <2>4, <2>5 DEF Step
<1> QED
  BY <1>1, <1>2, <1>3, <1>4, <1>5 DEF Next

LEMMA InitVaulted == ASSUME Init PROVE Locked /\ Vaulted
<1>1. \A p \in Process : /\ run[p].phase = "idle"
                         /\ \A t \in Workers(p) : thread[p][t].step = "idle"
  BY DEF Init, Run, Idle
<1>2. project \in Projects /\ disk = project.files /\ vault = project.vault
  BY DEF Init
<1>3. Stored
  BY <1>2, VaultsAreWhole DEF Stored, InVault
<1> QED
  BY <1>1, <1>2, <1>3 DEF Locked, Holding, Vaulted, Overlap, Prepared

(* Of the threads of a compile only the holder of the creation lock makes  *)
(* a ref, and whoever writes into the Vault knows what is there.           *)
THEOREM CreationIsExclusive == Spec => [](Locked /\ Vaulted)
<1>1. Init => Locked /\ Vaulted
  BY InitVaulted
<1>2. Known /\ Locked /\ Vaulted /\ [Next]_vars => (Locked /\ Vaulted)'
  BY NextLocked, NextVaulted
<1> QED
  BY <1>1, <1>2, CompilesKnow, PTL DEF Spec

(* A vaultkv ref names a secret that is in the Vault: it is put there      *)
(* before the file is written, and later writes of other keys keep it, if  *)
(* no two processes write at the same time (write_vaultkv).                *)
THEOREM VaultAlwaysHasTheSecrets == Spec => []VaultHasTheSecrets
<1>1. Vaulted => VaultHasTheSecrets
  BY DEF Vaulted, Stored, VaultHasTheSecrets
<1> QED
  BY <1>1, CreationIsExclusive, PTL
-----------------------------------------------------------------------------
(* What a compile writes down.  Its targets keep to themselves, and it has *)
(* run alone.                                                              *)

Solo(p) == run[p].alone /\ run[p].phase \in {"busy", "done"}
Soloists == \A p, q \in Process : Solo(p) /\ q # p => run[q].phase # "busy"

(* A thread that has found the ref of its current value to be missing.     *)
Creating(w) ==
  w.step \in Making \/ (w.step \in {"get", "insert"} /\ w.why \in {"recheck", "reveal"})

(* The values a target is done with are what the files hold.               *)
Matched(tags, d, w) ==
  /\ w.settled \subseteq DOMAIN tags \cap DOMAIN w.out
  /\ \A i \in w.settled : IsRef(d[tags[i].path]) /\ w.out[i] = Data(d[tags[i].path])
  /\ w.step = "ok" => w.settled = DOMAIN tags

(* What it looks at is a path its tags mention, and what it read is there. *)
Looks(tags, paths, d, w) ==
  /\ w.step \notin {"next", "ok", "failed"} => w.i \in DOMAIN tags
  /\ w.step \in {"get", "insert"} =>
        w.path \in paths /\ (w.why # "reveal" => w.path = tags[w.i].path)
  /\ w.step \in {"get", "insert", "lock", "evaluate"} => w.at \in Nat \ {0}
  /\ w.step = "lock" => w.path = tags[w.i].path
  /\ w.step = "insert" => w.seen = d[w.path]

(* What it makes is missing until it is written.                           *)
Makings(tags, d, w) ==
  /\ Creating(w) \/ w.step = "forget" => tags[w.i].funcs # << >>
  /\ Creating(w) => d[tags[w.i].path] = IF w.step = "fill" THEN Torn ELSE Missing

Faithful(tags, paths, d, w) ==
  w.step # "idle" => Matched(tags, d, w) /\ Looks(tags, paths, d, w) /\ Makings(tags, d, w)

(* The cache agrees with the files but for what is being written.          *)
Writing(tags, w, x) == w.step \in {"fill", "forget"} /\ tags[w.i].path = x
CacheMatches(p) ==
  \A x \in DOMAIN run[p].cache :
     \/ run[p].cache[x] = disk[x]
     \/ \E t \in Workers(p) : Writing(Entries(t), thread[p][t], x)

Following ==
  NothingShared => \A p \in Process : Compiles(p) /\ Solo(p) =>
     /\ CacheMatches(p)
     /\ \A t \in Workers(p) : Faithful(Entries(t), Mentions(t), disk, thread[p][t])

(* A repository keeps its list of places for refs.                         *)
Placed == project \in Projects /\ DOMAIN disk = DOMAIN project.files

Outputs == Placed /\ Soloists /\ Following

LEMMA SmallestOf ==
  ASSUME NEW S, S \subseteq Nat, S # {}
  PROVE  \E k \in S : \A j \in S : k <= j
<1>1. PICK m \in S : \A k \in S : ~ (<< k, m >> \in OpToRel(<, Nat))
  BY WFMin, NatLessThanWellFounded
<1>2. ASSUME NEW k \in S PROVE m <= k
  <2>1. k < m => << k, m >> \in OpToRel(<, Nat)
    BY DEF OpToRel
  <2> QED
    BY <1>1, <2>1 DEF OpToRel
<1> QED
  BY <1>2

LEMMA TagsAre ==
  ASSUME project \in Projects, NEW t \in DOMAIN project.docs
  PROVE  /\ Entries(t) \in Seq(Range(Entries(t)))
         /\ \A i \in DOMAIN Entries(t) :
               /\ Entries(t)[i].funcs \in Seq(Range(Entries(t)[i].funcs))
               /\ Entries(t)[i].path \in Mentions(t)
               /\ \A k \in DOMAIN Entries(t)[i].funcs :
                     Entries(t)[i].funcs[k].name = "reveal" =>
                        Entries(t)[i].funcs[k].path \in Mentions(t)
         /\ Mentions(t) \subseteq DOMAIN project.files
<1> DEFINE tags == Entries(t)
<1>1. /\ tags \in Seq(Range(tags))
      /\ \A i \in DOMAIN tags : Tag(tags[i]) /\ {tags[i].path} \cup Reveals(tags[i]) \subseteq DOMAIN project.files
  BY RefsAssumption DEF Entries, IsList
<1>2. \A i \in DOMAIN tags : tags[i].funcs \in Seq(Range(tags[i].funcs))
  BY <1>1 DEF Tag, IsList
<1>3. Range(tags) = {tags[i] : i \in DOMAIN tags}
  BY DEF Range
<1>4. ASSUME NEW i \in DOMAIN tags, NEW k \in DOMAIN tags[i].funcs, tags[i].funcs[k].name = "reveal"
      PROVE  tags[i].funcs[k].path \in Reveals(tags[i])
  BY <1>4 DEF Reveals, Range
<1>5. Mentions(t) = UNION {{x.path} \cup Reveals(x) : x \in Range(tags)}
  BY DEF Mentions
<1> HIDE DEF tags
<1>6. \A i \in DOMAIN tags : tags[i].path \in Mentions(t) /\ Reveals(tags[i]) \subseteq Mentions(t)
  BY <1>3, <1>5
<1>7. Mentions(t) \subseteq DOMAIN project.files
  BY <1>1, <1>3, <1>5
<1> QED
  BY <1>1, <1>2, <1>4, <1>6, <1>7 DEF tags

(* What a target makes no other one mentions.                              *)
LEMMA PathsDiffer ==
  ASSUME project \in Projects, NothingShared,
         NEW t \in DOMAIN project.docs, NEW u \in DOMAIN project.docs, t # u,
         NEW i \in DOMAIN Entries(t), Entries(t)[i].funcs # << >>
  PROVE  Entries(t)[i].path \notin Mentions(u)
<1>1. Entries(t)[i].path \in Makes(t)
  BY DEF Makes
<1> QED
  BY <1>1 DEF NothingShared

(* Other files change.                                                     *)
LEMMA FaithfulStays ==
  ASSUME NEW tags, NEW paths, NEW d, NEW e, NEW w, Faithful(tags, paths, d, w),
         \A i \in DOMAIN tags : tags[i].path \in paths,
         \A y \in paths : e[y] = d[y]
  PROVE  Faithful(tags, paths, e, w)
<1> SUFFICES ASSUME w.step # "idle" PROVE Faithful(tags, paths, e, w)
  BY DEF Faithful
<1>1. Matched(tags, d, w) /\ Looks(tags, paths, d, w) /\ Makings(tags, d, w)
  BY DEF Faithful
<1>2. Matched(tags, e, w)
  BY <1>1 DEF Matched
<1>3. Looks(tags, paths, e, w)
  BY <1>1 DEF Looks
<1>4. Creating(w) => w.i \in DOMAIN tags
  BY <1>1 DEF Looks, Creating, Making
<1>5. Makings(tags, e, w)
  BY <1>1, <1>4 DEF Makings
<1> QED
  BY <1>2, <1>3, <1>5 DEF Faithful

(* A thread that keeps its values and neither looks nor makes.             *)
LEMMA BaseIsFaithful ==
  ASSUME NEW tags, NEW paths, NEW d, NEW w, Matched(tags, d, w), NEW v,
         v.settled = w.settled, v.out = w.out, v.step \in {"next", "failed", "ok"},
         v.step = "ok" => w.settled = DOMAIN tags
  PROVE  Faithful(tags, paths, d, v)
BY DEF Faithful, Matched, Looks, Makings, Creating, Making

LEMMA FailedIsFaithful ==
  ASSUME NEW tags, NEW paths, NEW d, NEW w, Matched(tags, d, w), NEW p, NEW t
  PROVE  Faithful(tags, paths, d, Failed(p, t, w))
<1>1. PICK step \in {"next", "failed"} : Failed(p, t, w) = Base(w, step)
  BY FailedIs
<1>2. Base(w, step).settled = w.settled /\ Base(w, step).out = w.out /\ Base(w, step).step = step
  BY BaseIs
<1> QED
  BY <1>1, <1>2, BaseIsFaithful

LEMMA FoundIsFaithful ==
  ASSUME NEW t, NEW paths, NEW d, NEW w, Matched(Entries(t), d, w), NEW p, NEW c,
         w.i \in DOMAIN Entries(t), IsRef(c), c = d[Entries(t)[w.i].path]
  PROVE  Faithful(Entries(t), paths, d, Found(p, t, w, c))
<1>1. CASE Current(t, w).pin \notin {NoPin, Data(c)}
  BY <1>1, FailedIsFaithful DEF Found
<1>2. CASE Current(t, w).pin \in {NoPin, Data(c)}
  <2> DEFINE v == Found(p, t, w, c)
  <2>1. v = [Base(w, "next") EXCEPT !.settled = @ \cup {w.i}, !.moved = TRUE,
                                    !.out = With(@, w.i, Data(c))]
    BY <1>2 DEF Found
  <2>2. v.step = "next" /\ v.settled = w.settled \cup {w.i} /\ v.out = With(w.out, w.i, Data(c))
    BY <2>1, BaseIs DEF Kept
  <2> HIDE DEF v
  <2>3. Matched(Entries(t), d, v)
    BY <2>2 DEF Matched, With
  <2>4. Faithful(Entries(t), paths, d, v)
    BY <2>2, <2>3, BaseIsFaithful
  <2> QED
    BY <2>4 DEF v
<1> QED
  BY <1>1, <1>2

(* What a thread was told is what the file holds.                          *)
LEMMA AnswerIsFaithful ==
  ASSUME NEW p, NEW t, NEW paths, NEW d, NEW w, NEW before, Good(Entries(t), before, w),
         w.step \in {"get", "insert"}, Faithful(Entries(t), paths, d, w)
  PROVE  Faithful(Entries(t), paths, d, Answer(p, t, w, d[w.path]))
<1> DEFINE tags == Entries(t)
           c == d[w.path]
<1>1. Kept \subseteq DOMAIN w /\ Asking \subseteq DOMAIN w
  BY DEF Good
<1>2. /\ Matched(tags, d, w) /\ w.i \in DOMAIN tags /\ w.at \in Nat \ {0} /\ w.path \in paths
      /\ w.why # "reveal" => w.path = tags[w.i].path
      /\ w.why \in {"recheck", "reveal"} => tags[w.i].funcs # << >> /\ d[tags[w.i].path] = Missing
  BY DEF Faithful, Looks, Makings, Creating
<1>3. CASE w.why \in {"lookup", "recheck", "readback"} /\ IsRef(c)
  <2>1. Answer(p, t, w, c) = Found(p, t, w, c) /\ c = d[tags[w.i].path]
    BY <1>2, <1>3 DEF Answer, IsRef
  <2> QED
    BY <1>2, <1>3, <2>1, FoundIsFaithful
<1>4. ASSUME NEW v, v.step \in {"lock", "evaluate"}, v.i = w.i, v.settled = w.settled, v.out = w.out,
             v.at \in Nat \ {0}, v.step = "lock" => v.path = tags[w.i].path,
             tags[w.i].funcs # << >>, d[tags[w.i].path] = Missing
      PROVE  Faithful(tags, paths, d, v)
  BY <1>2, <1>4 DEF Faithful, Matched, Looks, Makings, Creating, Making
<1>5. CASE w.why = "lookup" /\ c = Missing /\ Creates(p, Current(t, w))
  <2> DEFINE v == [w EXCEPT !.step = "lock"]
  <2>1. Answer(p, t, w, c) = v
    BY <1>5 DEF Answer, IsRef
  <2>2. /\ v.step = "lock" /\ v.i = w.i /\ v.settled = w.settled /\ v.out = w.out
        /\ v.at = w.at /\ v.path = w.path
    BY <1>1 DEF Kept, Asking
  <2>3. tags[w.i].funcs # << >>
    BY <1>5 DEF Creates, Current
  <2> HIDE DEF v
  <2> QED
    BY <1>2, <1>4, <1>5, <2>1, <2>2, <2>3
<1>6. CASE w.why = "recheck" /\ c = Missing
  <2> DEFINE v == [w EXCEPT !.step = "evaluate"]
  <2>1. Answer(p, t, w, c) = v
    BY <1>6 DEF Answer, IsRef
  <2>2. v.step = "evaluate" /\ v.i = w.i /\ v.settled = w.settled /\ v.out = w.out /\ v.at = w.at
    BY <1>1 DEF Kept, Asking
  <2> HIDE DEF v
  <2> QED
    BY <1>2, <1>4, <1>6, <2>1, <2>2
<1>7. CASE w.why = "reveal" /\ IsRef(c) /\ Secret(Current(t, w).type, c) # NoSecret
  <2> DEFINE v == [w EXCEPT !.step = "evaluate", !.at = @ + 1, !.secret = Secret(Current(t, w).type, c)]
  <2>1. Answer(p, t, w, c) = v
    BY <1>7 DEF Answer
  <2>2. v.step = "evaluate" /\ v.i = w.i /\ v.settled = w.settled /\ v.out = w.out /\ v.at = w.at + 1
    BY <1>1 DEF Kept, Asking
  <2>3. v.at \in Nat \ {0}
    BY <1>2, <2>2
  <2> HIDE DEF v
  <2> QED
    BY <1>2, <1>4, <1>7, <2>1, <2>2, <2>3
<1>8. CASE /\ ~(w.why \in {"lookup", "recheck", "readback"} /\ IsRef(c))
           /\ ~(w.why = "lookup" /\ c = Missing /\ Creates(p, Current(t, w)))
           /\ ~(w.why = "recheck" /\ c = Missing)
           /\ ~(w.why = "reveal" /\ IsRef(c) /\ Secret(Current(t, w).type, c) # NoSecret)
  <2>1. Answer(p, t, w, c) = Failed(p, t, w)
    BY <1>8 DEF Answer
  <2> QED
    BY <1>2, <2>1, FailedIsFaithful
<1> QED
  BY <1>3, <1>5, <1>6, <1>7, <1>8

(* A thread moves; its cache agrees with the files, and so does it.        *)
LEMMA OthersAreNotSolo ==
  ASSUME Soloists, NEW p \in Process, run[p].phase = "busy", NEW q \in Process \ {p}
  PROVE  ~Solo(q)
BY DEF Soloists

LEMMA MovesFollows ==
  ASSUME Known, Outputs, NEW p \in Process, run[p].phase = "busy", NEW t \in Workers(p), NEW w,
         Moves(p, t, w), DOMAIN disk' = DOMAIN disk,
         Compiles(p) /\ Solo(p) /\ NothingShared =>
            /\ Faithful(Entries(t), Mentions(t), disk', w)
            /\ \A u \in Workers(p) \ {t} :
                  Faithful(Entries(u), Mentions(u), disk', thread[p][u])
            /\ \A x \in DOMAIN run'[p].cache :
                 \/ run'[p].cache[x] = disk'[x]
                 \/ Writing(Entries(t), w, x)
                 \/ \E u \in Workers(p) \ {t} : Writing(Entries(u), thread[p][u], x)
  PROVE  Outputs'
<1>1. /\ Process' = Process
      /\ \A q \in Process : (Workers(q))' = Workers(q) /\ (Compiles(q))' = Compiles(q)
      /\ \A u : Entries(u)' = Entries(u) /\ Mentions(u)' = Mentions(u)
      /\ NothingShared' = NothingShared
  BY DEF Moves, Process, Workers, Compiles, Command, Entries, Mentions, NothingShared, Makes
<1>2. \A q \in Process : /\ Solo(q)' = Solo(q)
                         /\ run'[q].phase = run[q].phase
  BY DEF Moves, Solo
<1>3. Soloists'
  BY <1>1, <1>2 DEF Outputs, Soloists
<1>4. \A u \in Workers(p) : thread'[p][u] = IF u = t THEN w ELSE thread[p][u]
  BY DEF Moves, Known, Typed
<1>5. ASSUME NothingShared, NEW q \in Process, Compiles(q), Solo(q)
      PROVE  CacheMatches(q)' /\ \A u \in Workers(q) : Faithful(Entries(u), Mentions(u), disk', thread'[q][u])
  <2>1. q = p
    BY <1>5, OthersAreNotSolo DEF Outputs
  <2>2. \A u \in Workers(p) : Faithful(Entries(u), Mentions(u), disk', thread'[p][u])
    BY <1>4, <1>5, <2>1
  <2>3. CacheMatches(p)'
    BY <1>1, <1>4, <1>5, <2>1 DEF CacheMatches
  <2> QED
    BY <2>1, <2>2, <2>3
<1>6. Following'
  BY <1>1, <1>2, <1>5 DEF Following
<1>7. Placed'
  BY DEF Moves, Outputs, Placed
<1> QED
  BY <1>3, <1>6, <1>7 DEF Outputs

(* The same of a step that writes no file, when the thread has not just    *)
(* written one and the cache stays.                                        *)
LEMMA GoFollows ==
  ASSUME Known, Outputs, NEW p \in Process, run[p].phase = "busy", NEW t \in Workers(p), NEW w,
         Moves(p, t, w), run'[p].cache = run[p].cache, disk' = disk,
         Compiles(p) => thread[p][t].step \notin {"fill", "forget"},
         Compiles(p) /\ Solo(p) /\ NothingShared => Faithful(Entries(t), Mentions(t), disk, w)
  PROVE  Outputs'
<1>1. ASSUME Compiles(p), Solo(p), NothingShared
      PROVE  /\ CacheMatches(p)
             /\ \A u \in Workers(p) : Faithful(Entries(u), Mentions(u), disk, thread[p][u])
  BY <1>1 DEF Outputs, Following
<1>2. ASSUME Compiles(p), Solo(p), NothingShared, NEW x \in DOMAIN run[p].cache
      PROVE  \/ run[p].cache[x] = disk[x]
             \/ \E u \in Workers(p) \ {t} : Writing(Entries(u), thread[p][u], x)
  BY <1>1, <1>2 DEF CacheMatches, Writing
<1> QED
  BY <1>1, <1>2, MovesFollows

(* What a thread of a lone compile is like.                                *)
LEMMA ThreadFollows ==
  ASSUME Known, Outputs, NEW p \in Process, Compiles(p), Solo(p), NothingShared,
         NEW t \in Workers(p)
  PROVE  /\ t \in DOMAIN project.docs
         /\ Good(Entries(t), run[p].before, thread[p][t])
         /\ Faithful(Entries(t), Mentions(t), disk, thread[p][t])
         /\ CacheMatches(p)
BY ThreadIs DEF Outputs, Following, Workers

LEMMA NextValueFollows ==
  ASSUME Known, Outputs, NEW p \in Process, run[p].phase = "busy", NEW t \in Workers(p), NextValue(p, t)
  PROVE  Outputs'
<1> DEFINE w == thread[p][t]
           later == Unsettled(t, w)
           i == CHOOSE k \in later : \A j \in later : k <= j
           v == [w EXCEPT !.i = i]
           next == IF Settled(t, w) THEN [w EXCEPT !.step = "ok"]
                   ELSE IF later = {} THEN Pass(p, t, w)
                   ELSE IF Current(t, v).sub /\ Current(t, v).funcs # << >>
                        THEN Failed(p, t, v)
                        ELSE Lookup(v, "lookup", Current(t, v).path)
           tags == Entries(t)
           paths == Mentions(t)
<1>1. Go(p, t, next) /\ project' = project /\ disk' = disk
  BY DEF NextValue
<1>2. w.step = "next" /\ Moves(p, t, next) /\ run'[p].cache = run[p].cache
  BY <1>1, GoMoves DEF NextValue
<1>3. ASSUME Compiles(p), Solo(p), NothingShared PROVE Faithful(tags, paths, disk, next)
  <2>1. Good(tags, run[p].before, w) /\ Faithful(tags, paths, disk, w) /\ t \in DOMAIN project.docs
    BY <1>3, ThreadFollows
  <2>2. Kept \subseteq DOMAIN w /\ Matched(tags, disk, w)
    BY <1>2, <2>1 DEF Good, Faithful
  <2> HIDE DEF w
  <2>3. CASE Settled(t, w)
    <3>1. next = [w EXCEPT !.step = "ok"]
      BY <2>3
    <3>2. next.settled = w.settled /\ next.out = w.out /\ next.step = "ok"
      BY <2>2, <3>1 DEF Kept
    <3> HIDE DEF next
    <3> QED
      BY <2>2, <2>3, <3>2, BaseIsFaithful DEF Settled
  <2>4. CASE ~Settled(t, w) /\ later = {}
    <3>1. next = [w EXCEPT !.i = 0, !.moved = FALSE, !.last = ~w.moved]
      BY <2>4 DEF Pass
    <3> HIDE DEF next
    <3>2. next.settled = w.settled /\ next.out = w.out /\ next.step = "next"
      BY <1>2, <2>2, <3>1 DEF Kept
    <3> QED
      BY <2>2, <3>2, BaseIsFaithful
  <2>5. CASE ~Settled(t, w) /\ later # {}
    <3>1. tags \in Seq(Range(tags)) /\ \A k \in DOMAIN tags : tags[k].path \in paths
      BY <2>1, TagsAre DEF Outputs, Placed
    <3>2. later \subseteq DOMAIN tags /\ later \subseteq Nat
      <4> HIDE DEF tags
      <4>1. DOMAIN tags \subseteq Nat
        BY <3>1
      <4> QED
        BY <4>1 DEF Unsettled, tags
    <3>3. \E k \in later : \A j \in later : k <= j
      <4> HIDE DEF later
      <4> QED
        BY <2>5, <3>2, SmallestOf
    <3>4. i \in DOMAIN tags
      <4> HIDE DEF later, tags
      <4> QED
        BY <3>2, <3>3
    <3>5. v.i = i /\ v.settled = w.settled /\ v.out = w.out /\ v.step = "next"
      <4> HIDE DEF i
      <4> QED
        BY <1>2, <2>2 DEF Kept
    <3> HIDE DEF i, v, tags, paths
    <3>6. Matched(tags, disk, v)
      BY <1>2, <2>2, <3>5 DEF Matched
    <3>7. CASE next = Failed(p, t, v)
      BY <3>6, <3>7, FailedIsFaithful
    <3>8. CASE next = Lookup(v, "lookup", Current(t, v).path)
      <4> DEFINE l == Lookup(v, "lookup", Current(t, v).path)
      <4>1. /\ l.step = "get" /\ l.i = i /\ l.why = "lookup" /\ l.path = tags[i].path
            /\ l.settled = v.settled /\ l.out = v.out /\ l.at = 1
        BY <3>5 DEF Lookup, Current, tags
      <4> HIDE DEF l
      <4>2. Faithful(tags, paths, disk, l)
        BY <3>1, <3>4, <3>6, <4>1 DEF Faithful, Matched, Looks, Makings, Creating, Making
      <4> QED
        BY <3>8, <4>2 DEF l
    <3>9. next = Failed(p, t, v) \/ next = Lookup(v, "lookup", Current(t, v).path)
      BY <2>5
    <3> HIDE DEF next
    <3> QED
      BY <3>7, <3>8, <3>9
  <2> QED
    BY <2>3, <2>4, <2>5
<1> HIDE DEF next
<1> QED
  BY <1>1, <1>2, <1>3, GoFollows

LEMMA ReadFollows ==
  ASSUME Known, Outputs, NEW p \in Process, run[p].phase = "busy", NEW t \in Workers(p), Read(p, t)
  PROVE  Outputs'
<1> DEFINE w == thread[p][t]
           path == w.path
           next == IF path \in DOMAIN run[p].cache THEN Answer(p, t, w, run[p].cache[path])
                   ELSE IF disk[path] = Torn THEN Answer(p, t, w, Torn)
                   ELSE [w EXCEPT !.step = "insert", !.seen = disk[path]]
           tags == Entries(t)
           paths == Mentions(t)
<1>1. Go(p, t, next) /\ project' = project /\ disk' = disk /\ w.step = "get"
  BY DEF Read
<1>2. Moves(p, t, next) /\ run'[p].cache = run[p].cache
  BY <1>1, GoMoves
<1>3. ASSUME Compiles(p), Solo(p), NothingShared PROVE Faithful(tags, paths, disk, next)
  <2>1. /\ Good(tags, run[p].before, w) /\ Faithful(tags, paths, disk, w)
        /\ CacheMatches(p) /\ t \in DOMAIN project.docs
    BY <1>3, ThreadFollows
  <2>2. path \in paths
    BY <1>1, <2>1 DEF Faithful, Looks
  <2>3. ASSUME path \in DOMAIN run[p].cache PROVE run[p].cache[path] = disk[path]
    <3>1. ASSUME NEW u \in Workers(p), Writing(Entries(u), thread[p][u], path) PROVE FALSE
      <4>1. u # t
        BY <1>1, <3>1 DEF Writing
      <4>2. u \in DOMAIN project.docs /\ Faithful(Entries(u), Mentions(u), disk, thread[p][u])
        BY <1>3, ThreadFollows
      <4>3. /\ thread[p][u].i \in DOMAIN Entries(u) /\ Entries(u)[thread[p][u].i].funcs # << >>
            /\ Entries(u)[thread[p][u].i].path = path
        BY <3>1, <4>2 DEF Writing, Faithful, Looks, Makings, Creating, Making
      <4> QED
        BY <1>3, <2>1, <2>2, <4>1, <4>2, <4>3, PathsDiffer DEF Outputs, Placed
    <3> QED
      BY <2>1, <2>3, <3>1 DEF CacheMatches
  <2>4. Faithful(tags, paths, disk, Answer(p, t, w, disk[path]))
    BY <1>1, <2>1, AnswerIsFaithful
  <2>5. CASE next = Answer(p, t, w, disk[path])
    BY <2>4, <2>5
  <2>6. CASE next = [w EXCEPT !.step = "insert", !.seen = disk[path]]
    <3>1. Kept \subseteq DOMAIN w /\ Asking \subseteq DOMAIN w
      BY <1>1, <2>1 DEF Good
    <3>2. /\ next.step = "insert" /\ next.seen = disk[next.path] /\ next.path = w.path /\ next.i = w.i
          /\ next.why = w.why /\ next.at = w.at /\ next.settled = w.settled /\ next.out = w.out
      <4> HIDE DEF w
      <4> QED
        BY <2>6, <3>1 DEF Kept, Asking
    <3> HIDE DEF next
    <3> QED
      BY <1>1, <2>1, <3>2 DEF Faithful, Matched, Looks, Makings, Creating, Making
  <2>7. next = Answer(p, t, w, disk[path]) \/ next = [w EXCEPT !.step = "insert", !.seen = disk[path]]
    BY <2>3
  <2> HIDE DEF next
  <2> QED
    BY <2>5, <2>6, <2>7
<1> HIDE DEF next
<1> QED
  BY <1>1, <1>2, <1>3, GoFollows

LEMMA InsertFollows ==
  ASSUME Known, Outputs, NEW p \in Process, run[p].phase = "busy", NEW t \in Workers(p), Insert(p, t)
  PROVE  Outputs'
<1> DEFINE w == thread[p][t]
           after == Answer(p, t, w, w.seen)
<1>1. w.step = "insert"
  BY DEF Insert
<1>2. Moves(p, t, after) /\ run'[p].cache = With(run[p].cache, w.path, w.seen) /\ disk' = disk
  <2> HIDE DEF after, w
  <2> QED
    BY DEF Insert, Moves, Known, Typed, RunFields, w, after
<1>3. ASSUME Compiles(p), Solo(p), NothingShared
      PROVE  /\ Faithful(Entries(t), Mentions(t), disk, after)
             /\ w.seen = disk[w.path] /\ CacheMatches(p)
             /\ \A u \in Workers(p) : Faithful(Entries(u), Mentions(u), disk, thread[p][u])
  <2>1. \A u \in Workers(p) : /\ Good(Entries(u), run[p].before, thread[p][u])
                              /\ Faithful(Entries(u), Mentions(u), disk, thread[p][u])
                              /\ CacheMatches(p)
    BY <1>3, ThreadFollows
  <2>2. w.seen = disk[w.path]
    BY <1>1, <2>1 DEF Faithful, Looks
  <2>3. Faithful(Entries(t), Mentions(t), disk, Answer(p, t, w, disk[w.path]))
    BY <1>1, <2>1, AnswerIsFaithful
  <2> QED
    BY <2>1, <2>2, <2>3
<1> HIDE DEF after
<1>4. ASSUME Compiles(p), Solo(p), NothingShared, NEW x \in DOMAIN run'[p].cache
      PROVE  \/ run'[p].cache[x] = disk[x]
             \/ \E u \in Workers(p) \ {t} : Writing(Entries(u), thread[p][u], x)
  <2>1. CASE x = w.path
    BY <1>2, <1>3, <1>4, <2>1 DEF With
  <2>2. CASE x # w.path
    <3>1. x \in DOMAIN run[p].cache /\ run'[p].cache[x] = run[p].cache[x]
      BY <1>2, <1>4, <2>2 DEF With
    <3> QED
      BY <1>1, <1>3, <1>4, <3>1 DEF CacheMatches, Writing
  <2> QED
    BY <2>1, <2>2
<1> QED
  BY <1>2, <1>3, <1>4, MovesFollows

LEMMA LockFollows ==
  ASSUME Known, Outputs, NEW p \in Process, run[p].phase = "busy", NEW t \in Workers(p), Lock(p, t)
  PROVE  Outputs'
<1> DEFINE w == thread[p][t]
           next == Lookup(w, "recheck", w.path)
           tags == Entries(t)
           paths == Mentions(t)
<1>1. w.step = "lock"
  BY DEF Lock
<1>2. Moves(p, t, next) /\ run'[p].cache = run[p].cache /\ disk' = disk
  <2> HIDE DEF next, w
  <2> QED
    BY DEF Lock, Moves, Known, Typed, RunFields, w, next
<1>3. ASSUME Compiles(p), Solo(p), NothingShared PROVE Faithful(tags, paths, disk, next)
  <2>1. Faithful(tags, paths, disk, w) /\ t \in DOMAIN project.docs
    BY <1>3, ThreadFollows
  <2>2. \A k \in DOMAIN tags : tags[k].path \in paths
    BY <2>1, TagsAre DEF Outputs, Placed
  <2>3. /\ next.step = "get" /\ next.i = w.i /\ next.why = "recheck" /\ next.path = w.path
        /\ next.settled = w.settled /\ next.out = w.out /\ next.at = 1
    BY DEF Lookup
  <2> HIDE DEF next
  <2> QED
    BY <1>1, <2>1, <2>2, <2>3 DEF Faithful, Matched, Looks, Makings, Creating, Making
<1> HIDE DEF next
<1> QED
  BY <1>1, <1>2, <1>3, GoFollows

(* A thread that makes a ref goes on making it.                            *)
LEMMA MakingIsFaithful ==
  ASSUME NEW tags, NEW paths, NEW d, NEW w, Faithful(tags, paths, d, w),
         w.step \in Making \ {"fill"}, NEW v, v.i = w.i, v.settled = w.settled, v.out = w.out,
         v.step \in {"evaluate", "kv_read", "kv_write", "truncate"},
         v.step = "evaluate" => v.at \in Nat \ {0}
  PROVE  Faithful(tags, paths, d, v)
BY DEF Faithful, Matched, Looks, Makings, Creating, Making

LEMMA EvaluateFollows ==
  ASSUME Known, Outputs, NEW p \in Process, run[p].phase = "busy", NEW t \in Workers(p), Evaluate(p, t)
  PROVE  Outputs'
<1> DEFINE w == thread[p][t]
           tag == Current(t, w)
           f == tag.funcs[w.at]
           s == Sealed(tag.type, w.secret, Key(t, tag.type))
           tags == Entries(t)
           paths == Mentions(t)
<1>1. w.step = "evaluate" /\ Compiles(p) /\ Good(tags, run[p].before, w)
  BY ThreadIs DEF Evaluate, CompileSteps, CliSteps
<1>2. Kept \subseteq DOMAIN w /\ Asking \subseteq DOMAIN w
  BY <1>1 DEF Good
<1>3. project' = project /\ disk' = disk
  BY DEF Evaluate
<1>4. \/ Go(p, t, [w EXCEPT !.at = @ + 1, !.secret = << "drawn", drawn + 1 >>])
      \/ Go(p, t, [w EXCEPT !.at = @ + 1, !.secret = << "derived", @ >>])
      \/ Go(p, t, Failed(p, t, w))
      \/ ~(w.at > Len(tag.funcs)) /\ f.name = "reveal" /\ Go(p, t, Lookup(w, "reveal", f.path))
      \/ Go(p, t, With([w EXCEPT !.step = "kv_read"], "place", tag.place))
      \/ Go(p, t, With([w EXCEPT !.step = "truncate", !.path = tag.path], "new", s))
  BY DEF Evaluate
<1>5. ASSUME NEW v, Go(p, t, v),
             Solo(p) /\ NothingShared => Faithful(tags, paths, disk, v)
      PROVE  Outputs'
  <2>1. Moves(p, t, v) /\ run'[p].cache = run[p].cache
    BY <1>3, <1>5, GoMoves
  <2> QED
    BY <1>1, <1>3, <1>5, <2>1, GoFollows
<1>6. ASSUME Solo(p), NothingShared
      PROVE  /\ Faithful(tags, paths, disk, w) /\ Matched(tags, disk, w) /\ t \in DOMAIN project.docs
             /\ w.i \in DOMAIN tags /\ w.at \in Nat \ {0} /\ tag = tags[w.i]
  BY <1>1, <1>6, ThreadFollows DEF Faithful, Looks, Current
<1>7. ASSUME NEW v, DOMAIN w \subseteq DOMAIN v, v.i = w.i, v.settled = w.settled, v.out = w.out,
             v.step \in {"evaluate", "kv_read", "truncate"},
             v.step = "evaluate" => v.at = w.at \/ v.at = w.at + 1,
             Solo(p), NothingShared
      PROVE  Faithful(tags, paths, disk, v)
  <2>1. v.step = "evaluate" => v.at \in Nat \ {0}
    BY <1>6, <1>7
  <2> QED
    BY <1>1, <1>6, <1>7, <2>1, MakingIsFaithful DEF Making
<1> HIDE DEF w, tag, f, s
<1>8. ASSUME NEW a, NEW b, a = w.at + 1, Go(p, t, [w EXCEPT !.at = a, !.secret = b]) PROVE Outputs'
  <2> DEFINE v == [w EXCEPT !.at = a, !.secret = b]
  <2>1. /\ DOMAIN v = DOMAIN w /\ v.i = w.i /\ v.step = "evaluate" /\ v.at = w.at + 1
        /\ v.settled = w.settled /\ v.out = w.out
    BY <1>1, <1>2, <1>8 DEF Kept, Asking
  <2>2. Go(p, t, v)
    BY <1>8
  <2> HIDE DEF v
  <2> QED
    BY <1>5, <1>7, <2>1, <2>2
<1>9. CASE Go(p, t, [w EXCEPT !.at = @ + 1, !.secret = << "drawn", drawn + 1 >>])
  BY <1>8, <1>9
<1>10. CASE Go(p, t, [w EXCEPT !.at = @ + 1, !.secret = << "derived", @ >>])
  BY <1>8, <1>10
<1>11. CASE Go(p, t, Failed(p, t, w))
  BY <1>5, <1>6, <1>11, FailedIsFaithful
<1>12. CASE ~(w.at > Len(tag.funcs)) /\ f.name = "reveal" /\ Go(p, t, Lookup(w, "reveal", f.path))
  <2> DEFINE l == Lookup(w, "reveal", f.path)
  <2>1. ASSUME Solo(p), NothingShared PROVE f.path \in paths
    <3>1. tag.funcs \in Seq(Range(tag.funcs))
      BY <1>6, <2>1, TagsAre DEF Outputs, Placed
    <3>2. w.at \in DOMAIN tag.funcs
      BY <1>6, <1>12, <2>1, <3>1
    <3> QED
      BY <1>6, <1>12, <2>1, <3>2, TagsAre DEF Outputs, Placed, f
  <2>2. /\ l.step = "get" /\ l.i = w.i /\ l.why = "reveal" /\ l.path = f.path
        /\ l.settled = w.settled /\ l.out = w.out /\ l.at = w.at
    BY DEF Lookup
  <2>3. Go(p, t, l)
    BY <1>12
  <2> HIDE DEF l
  <2>4. ASSUME Solo(p), NothingShared PROVE Faithful(tags, paths, disk, l)
    BY <1>1, <1>6, <2>1, <2>2, <2>4 DEF Faithful, Matched, Looks, Makings, Creating, Making
  <2> QED
    BY <1>5, <2>3, <2>4
<1>13. CASE Go(p, t, With([w EXCEPT !.step = "kv_read"], "place", tag.place))
  <2> DEFINE u == [w EXCEPT !.step = "kv_read"]
             v == With(u, "place", tag.place)
  <2>1. /\ DOMAIN u = DOMAIN w /\ u.i = w.i /\ u.step = "kv_read" /\ u.settled = w.settled
        /\ u.out = w.out /\ {"i", "step", "settled", "out"} \subseteq DOMAIN w
    BY <1>2 DEF Kept
  <2> HIDE DEF u
  <2>2. /\ DOMAIN w \subseteq DOMAIN v /\ v.i = w.i /\ v.step = "kv_read"
        /\ v.settled = w.settled /\ v.out = w.out
    BY <2>1 DEF With
  <2>3. Go(p, t, v)
    BY <1>13 DEF u
  <2> HIDE DEF v
  <2> QED
    BY <1>5, <1>7, <2>2, <2>3
<1>14. CASE Go(p, t, With([w EXCEPT !.step = "truncate", !.path = tag.path], "new", s))
  <2> DEFINE u == [w EXCEPT !.step = "truncate", !.path = tag.path]
             v == With(u, "new", s)
  <2>1. /\ DOMAIN u = DOMAIN w /\ u.i = w.i /\ u.step = "truncate" /\ u.settled = w.settled
        /\ u.out = w.out /\ {"i", "step", "settled", "out"} \subseteq DOMAIN w
    BY <1>2 DEF Kept
  <2> HIDE DEF u
  <2>2. /\ DOMAIN w \subseteq DOMAIN v /\ v.i = w.i /\ v.step = "truncate"
        /\ v.settled = w.settled /\ v.out = w.out
    BY <2>1 DEF With
  <2>3. Go(p, t, v)
    BY <1>14 DEF u
  <2> HIDE DEF v
  <2> QED
    BY <1>5, <1>7, <2>2, <2>3
<1> QED
  BY <1>4, <1>9, <1>10, <1>11, <1>12, <1>13, <1>14 DEF w, tag, f, s

LEMMA KvFollows ==
  ASSUME Known, Outputs, NEW p \in Process, run[p].phase = "busy", NEW t \in Workers(p),
         KvRead(p, t) \/ KvWrite(p, t)
  PROVE  Outputs'
<1> DEFINE w == thread[p][t]
           read == IF w.place[1] \in DOMAIN vault THEN vault[w.place[1]] ELSE << >>
           r == With([w EXCEPT !.step = "kv_write"], "kv", read)
           s == Sealed("vaultkv", w.place, NoKey)
           v == With([w EXCEPT !.step = "truncate"], "new", s)
<1>1. w.step \in {"kv_read", "kv_write"} /\ project' = project /\ disk' = disk
  BY DEF KvRead, KvWrite
<1>2. Go(p, t, r) \/ Go(p, t, v)
  BY DEF KvRead, KvWrite
<1>3. ASSUME Compiles(p), Solo(p), NothingShared
      PROVE  /\ Faithful(Entries(t), Mentions(t), disk, w)
             /\ Good(Entries(t), run[p].before, w)
  BY <1>3, ThreadFollows
<1> HIDE DEF w, read, s
<1>4. ASSUME Compiles(p), Solo(p), NothingShared
      PROVE  /\ r.step = "kv_write" /\ r.i = w.i /\ r.settled = w.settled /\ r.out = w.out
             /\ v.step = "truncate" /\ v.i = w.i /\ v.settled = w.settled /\ v.out = w.out
  <2>1. {"i", "step", "settled", "out"} \subseteq DOMAIN w
    BY <1>1, <1>3, <1>4 DEF Good, Kept
  <2> QED
    BY <2>1 DEF With
<1> HIDE DEF r, v
<1>5. ASSUME Compiles(p), Solo(p), NothingShared
      PROVE  Faithful(Entries(t), Mentions(t), disk, r) /\ Faithful(Entries(t), Mentions(t), disk, v)
  BY <1>1, <1>3, <1>4, <1>5, MakingIsFaithful DEF Making
<1>6. ASSUME NEW x, Go(p, t, x), x \in {r, v} PROVE Outputs'
  <2>1. Moves(p, t, x) /\ run'[p].cache = run[p].cache
    BY <1>1, <1>6, GoMoves
  <2> QED
    BY <1>1, <1>5, <1>6, <2>1, GoFollows DEF w
<1> QED
  BY <1>2, <1>6

(* A file that is written was missing or torn, so nothing that anybody     *)
(* relies on changes.                                                      *)
LEMMA WriteFollows ==
  ASSUME Known, Outputs, NEW p \in Process, run[p].phase = "busy", NEW t \in Workers(p),
         Truncate(p, t) \/ Fill(p, t)
  PROVE  Outputs'
<1> DEFINE w == thread[p][t]
           tags == Entries(t)
           paths == Mentions(t)
           x == tags[w.i].path
<1>1. PICK step \in {"fill", "forget"} :
        /\ Go(p, t, [w EXCEPT !.step = step]) /\ project' = project
        /\ w.step = (IF step = "fill" THEN "truncate" ELSE "fill")
        /\ disk' = [disk EXCEPT ![Target(p, t)] = IF step = "fill" THEN Torn ELSE w.new]
  BY DEF Truncate, Fill
<1> DEFINE v == [w EXCEPT !.step = step]
<1>2. Moves(p, t, v) /\ run'[p].cache = run[p].cache
  BY <1>1, GoMoves
<1>3. DOMAIN disk' = DOMAIN disk
  BY <1>1
<1>4. ASSUME Compiles(p), Solo(p), NothingShared
      PROVE  /\ Faithful(tags, paths, disk', v)
             /\ \A u \in Workers(p) \ {t} : Faithful(Entries(u), Mentions(u), disk', thread[p][u])
             /\ \A y \in DOMAIN run'[p].cache :
                  \/ run'[p].cache[y] = disk'[y]
                  \/ Writing(tags, v, y)
                  \/ \E u \in Workers(p) \ {t} : Writing(Entries(u), thread[p][u], y)
  <2>1. /\ Good(tags, run[p].before, w) /\ Faithful(tags, paths, disk, w)
        /\ CacheMatches(p) /\ t \in DOMAIN project.docs
    BY <1>4, ThreadFollows
  <2>2. Target(p, t) = x
    BY <1>4 DEF Target, Current
  <2>3. /\ Kept \subseteq DOMAIN w /\ Ready(w)
        /\ Matched(tags, disk, w) /\ w.i \in DOMAIN tags /\ tags[w.i].funcs # << >>
        /\ disk[x] \in {Missing, Torn}
    BY <1>1, <2>1 DEF Good, Faithful, Looks, Makings, Creating, Making
  <2>4. \A y : y # x /\ y \in DOMAIN disk => disk'[y] = disk[y]
    BY <1>1, <2>2
  <2>5. /\ \A k \in DOMAIN tags : tags[k].path \in DOMAIN disk
        /\ \A u \in Workers(p) : /\ Mentions(u) \subseteq DOMAIN disk
                                 /\ \A k \in DOMAIN Entries(u) : Entries(u)[k].path \in Mentions(u)
    BY <1>4, <2>1, TagsAre, ThreadFollows DEF Outputs, Placed
  <2>6. x \in DOMAIN disk /\ (step = "fill" => disk'[x] = Torn)
    BY <1>1, <2>2, <2>3, <2>5
  <2>7. v.step = step /\ v.i = w.i /\ v.settled = w.settled /\ v.out = w.out
    <3> HIDE DEF w
    <3> QED
      BY <2>3 DEF Kept
  <2> HIDE DEF v
  <2>8. Matched(tags, disk', v)
    <3>1. \A k \in w.settled : tags[k].path # x
      BY <2>3 DEF Matched, IsRef
    <3> QED
      BY <2>3, <2>4, <2>5, <2>7, <3>1 DEF Matched
  <2>9. Faithful(tags, paths, disk', v)
    BY <2>3, <2>6, <2>7, <2>8 DEF Faithful, Looks, Makings, Creating, Making
  <2>10. ASSUME NEW u \in Workers(p) \ {t}
         PROVE  Faithful(Entries(u), Mentions(u), disk', thread[p][u])
    <3>1. u \in DOMAIN project.docs /\ Faithful(Entries(u), Mentions(u), disk, thread[p][u])
      BY <1>4, ThreadFollows
    <3>2. x \notin Mentions(u)
      BY <1>4, <2>1, <2>3, <3>1, PathsDiffer DEF Outputs, Placed
    <3>3. \A y \in Mentions(u) : disk'[y] = disk[y]
      BY <2>4, <2>5, <3>2
    <3> QED
      BY <2>5, <3>1, <3>3, FaithfulStays
  <2>11. ASSUME NEW y \in DOMAIN run'[p].cache
         PROVE  \/ run'[p].cache[y] = disk'[y]
                \/ Writing(tags, v, y)
                \/ \E u \in Workers(p) \ {t} : Writing(Entries(u), thread[p][u], y)
    <3>1. CASE y = x
      BY <2>7, <3>1 DEF Writing
    <3>2. CASE y # x
      <4>1. \/ run[p].cache[y] = disk[y]
            \/ \E u \in Workers(p) : Writing(Entries(u), thread[p][u], y)
        BY <1>2, <2>1, <2>11 DEF CacheMatches
      <4>2. ~Writing(tags, w, y)
        BY <3>2 DEF Writing
      <4>3. disk'[y] = disk[y]
        BY <1>1, <2>2, <3>2
      <4> QED
        BY <1>2, <4>1, <4>2, <4>3
    <3> QED
      BY <3>1, <3>2
  <2> QED
    BY <2>9, <2>10, <2>11
<1> HIDE DEF v
<1> QED
  BY <1>2, <1>3, <1>4, MovesFollows

LEMMA ForgetFollows ==
  ASSUME Known, Outputs, NEW p \in Process, run[p].phase = "busy", NEW t \in Workers(p), Forget(p, t)
  PROVE  Outputs'
<1> DEFINE w == thread[p][t]
           path == Target(p, t)
           v == IF Compiles(p) THEN Lookup(w, "readback", path) ELSE [w EXCEPT !.step = "cli"]
<1>1. /\ Moves(p, t, v) /\ disk' = disk /\ w.step = "forget"
      /\ run'[p].cache = [x \in DOMAIN run[p].cache \ {path} |-> run[p].cache[x]]
  <2> HIDE DEF v, path
  <2> QED
    BY DEF Forget, Moves, Known, Typed, RunFields, v, path
<1>2. ASSUME Compiles(p), Solo(p), NothingShared
      PROVE  /\ Faithful(Entries(t), Mentions(t), disk, v)
             /\ \A u \in Workers(p) : Faithful(Entries(u), Mentions(u), disk, thread[p][u])
             /\ CacheMatches(p) /\ path = Entries(t)[w.i].path
  <2>1. \A u \in Workers(p) : /\ Faithful(Entries(u), Mentions(u), disk, thread[p][u])
                              /\ CacheMatches(p) /\ u \in DOMAIN project.docs
    BY <1>2, ThreadFollows
  <2>2. path = Entries(t)[w.i].path
    BY <1>2 DEF Target, Current
  <2>3. Matched(Entries(t), disk, w) /\ w.i \in DOMAIN Entries(t)
    BY <1>1, <2>1 DEF Faithful, Looks
  <2>4. path \in Mentions(t)
    BY <2>1, <2>2, <2>3, TagsAre DEF Outputs, Placed
  <2>5. /\ v.step = "get" /\ v.i = w.i /\ v.why = "readback" /\ v.path = path
        /\ v.settled = w.settled /\ v.out = w.out /\ v.at = 1
    BY <1>2 DEF Lookup
  <2> HIDE DEF v, w, path
  <2>6. Faithful(Entries(t), Mentions(t), disk, v)
    BY <2>2, <2>3, <2>4, <2>5 DEF Faithful, Matched, Looks, Makings, Creating, Making
  <2> QED
    BY <2>1, <2>2, <2>6 DEF w
<1>3. ASSUME Compiles(p), Solo(p), NothingShared, NEW y \in DOMAIN run'[p].cache
      PROVE  \/ run'[p].cache[y] = disk[y]
             \/ \E u \in Workers(p) \ {t} : Writing(Entries(u), thread[p][u], y)
  <2> HIDE DEF path
  <2>1. y \in DOMAIN run[p].cache /\ y # path /\ run'[p].cache[y] = run[p].cache[y]
    BY <1>1, <1>3
  <2> QED
    BY <1>2, <1>3, <2>1 DEF CacheMatches, Writing
<1> HIDE DEF v
<1> QED
  BY <1>1, <1>2, <1>3, MovesFollows

LEMMA CliFollows ==
  ASSUME Known, Outputs, NEW p \in Process, run[p].phase = "busy", "cli" \in Workers(p),
         Load(p) \/ CheckRef(p)
  PROVE  Outputs'
<1>1. thread[p]["cli"].step \in {"load", "cli"}
  BY DEF Load, CheckRef
<1>2. ~Compiles(p)
  BY <1>1, ThreadIs DEF CompileSteps, CliSteps
<1>3. project' = project /\ disk' = disk /\ \E v : Go(p, "cli", v)
  BY DEF Load, CheckRef
<1>4. PICK v : Go(p, "cli", v)
  BY <1>3
<1>5. Moves(p, "cli", v) /\ run'[p].cache = run[p].cache
  BY <1>3, <1>4, GoMoves
<1> QED
  BY <1>2, <1>3, <1>5, GoFollows

LEMMA StartTargetFollows ==
  ASSUME Known, Outputs, NEW p \in Process, NEW t \in Workers(p), StartTarget(p, t)
  PROVE  Outputs'
<1>1. run[p].phase = "busy" /\ thread[p][t] = Idle /\ Go(p, t, Fresh) /\ project' = project /\ disk' = disk
  BY DEF StartTarget
<1>2. thread[p][t].step = "idle"
  BY <1>1 DEF Idle
<1>3. Fresh.settled = {} /\ Fresh.step = "next"
  BY DEF Fresh
<1>4. Faithful(Entries(t), Mentions(t), disk, Fresh)
  <2> DEFINE v == Fresh
  <2>1. v.settled = {} /\ v.step = "next"
    BY <1>3
  <2> HIDE DEF v
  <2>2. Faithful(Entries(t), Mentions(t), disk, v)
    BY <2>1 DEF Faithful, Matched, Looks, Makings, Creating, Making
  <2> QED
    BY <2>2 DEF v
<1>5. Moves(p, t, Fresh) /\ run'[p].cache = run[p].cache
  BY <1>1, GoMoves
<1> QED
  BY <1>1, <1>2, <1>4, <1>5, GoFollows
-----------------------------------------------------------------------------
(* Runs. *)

LEMMA StartRunFollows ==
  ASSUME Known, Outputs, NEW p \in Process, StartRun(p)
  PROVE  Outputs'
<1> DEFINE fresh == [Run("busy", disk) EXCEPT !.alone = Running = {}]
<1>1. /\ project' = project /\ disk' = disk /\ run[p].phase = "idle"
      /\ run' = [q \in Process |-> IF q = p THEN fresh ELSE [run[q] EXCEPT !.alone = FALSE]]
  BY DEF StartRun
<1>2. fresh.alone = (Running = {}) /\ fresh.phase = "busy" /\ fresh.cache = << >>
  BY DEF Run
<1> HIDE DEF fresh
<1>3. /\ Process' = Process
      /\ \A q \in Process : (Workers(q))' = Workers(q) /\ (Compiles(q))' = Compiles(q)
      /\ \A u : Entries(u)' = Entries(u) /\ Mentions(u)' = Mentions(u)
      /\ NothingShared' = NothingShared
  BY <1>1 DEF Process, Workers, Compiles, Command, Entries, Mentions, NothingShared, Makes
<1>4. \A q \in Process : q # p => ~run'[q].alone /\ run'[q].phase = run[q].phase
  BY <1>1 DEF Known, Typed, RunFields
<1>5. run'[p].alone = (Running = {}) /\ run'[p].phase = "busy" /\ run'[p].cache = << >>
  BY <1>1, <1>2
<1>6. Soloists'
  <2> SUFFICES ASSUME NEW q \in Process, NEW r \in Process, Solo(q)', r # q PROVE run'[r].phase # "busy"
    BY <1>3 DEF Soloists
  <2>1. q = p /\ Running = {}
    BY <1>4, <1>5 DEF Solo
  <2>2. run[r].phase # "busy"
    BY <2>1 DEF Running
  <2> QED
    BY <1>4, <2>1, <2>2
<1>7. Following'
  <2> SUFFICES ASSUME NEW q \in Process, Compiles(q), Solo(q)'
               PROVE  /\ CacheMatches(q)'
                      /\ \A t \in Workers(q) : Faithful(Entries(t), Mentions(t), disk', thread'[q][t])
    BY <1>3 DEF Following
  <2>1. q = p
    BY <1>4 DEF Solo
  <2>2. CacheMatches(q)'
    BY <1>5, <2>1 DEF CacheMatches
  <2>3. thread' = thread /\ \A t \in Workers(q) : thread[q][t].step = "idle"
    BY <1>1, <2>1 DEF StartRun, Known, NotStarted
  <2> QED
    BY <2>2, <2>3 DEF Faithful
<1>8. Placed'
  BY <1>1 DEF Outputs, Placed
<1> QED
  BY <1>6, <1>7, <1>8 DEF Outputs

LEMMA EndFollows ==
  ASSUME Known, Outputs, NEW p \in Process, EndRun(p) \/ Crash(p)
  PROVE  Outputs'
<1>1. /\ project' = project /\ disk' = disk /\ thread' = thread /\ run[p].phase = "busy"
      /\ \E phase \in {"done", "crashed"} : run' = [run EXCEPT ![p].phase = phase]
  BY DEF EndRun, Crash
<1>2. /\ Process' = Process
      /\ \A q \in Process : (Workers(q))' = Workers(q) /\ (Compiles(q))' = Compiles(q)
      /\ \A u : Entries(u)' = Entries(u) /\ Mentions(u)' = Mentions(u)
      /\ NothingShared' = NothingShared
  BY <1>1 DEF Process, Workers, Compiles, Command, Entries, Mentions, NothingShared, Makes
<1>3. \A q \in Process :
         /\ run'[q].alone = run[q].alone /\ run'[q].cache = run[q].cache
         /\ run'[q].phase = "busy" => run[q].phase = "busy"
         /\ run'[q].phase = "done" => run[q].phase \in {"busy", "done"}
  BY <1>1 DEF Known, Typed, RunFields
<1>4. \A q \in Process : Solo(q)' => Solo(q)
  BY <1>3 DEF Solo
<1>5. Soloists'
  BY <1>2, <1>3, <1>4 DEF Outputs, Soloists
<1>6. \A q \in Process : CacheMatches(q) => CacheMatches(q)'
  BY <1>1, <1>2, <1>3 DEF CacheMatches
<1>7. Following'
  BY <1>1, <1>2, <1>4, <1>6 DEF Outputs, Following
<1> QED
  BY <1>1, <1>5, <1>7 DEF Outputs, Placed

LEMMA InitOutputs == Init => Outputs
<1> SUFFICES ASSUME Init PROVE Outputs
  OBVIOUS
<1>1. \A p \in Process : run[p].phase = "idle"
  BY DEF Init, Run
<1> QED
  BY <1>1 DEF Init, Outputs, Placed, Soloists, Following, Solo

LEMMA NextOutputs == ASSUME Known, Outputs, [Next]_vars PROVE Outputs'
<1>1. CASE UNCHANGED vars
  <2>1. project' = project /\ disk' = disk /\ run' = run /\ thread' = thread
    BY <1>1 DEF vars
  <2>2. /\ Process' = Process
        /\ \A q \in Process : (Workers(q))' = Workers(q) /\ (Compiles(q))' = Compiles(q)
        /\ \A u : Entries(u)' = Entries(u) /\ Mentions(u)' = Mentions(u)
        /\ NothingShared' = NothingShared
    BY <2>1 DEF Process, Workers, Compiles, Command, Entries, Mentions, NothingShared, Makes
  <2>3. \A q \in Process : Solo(q)' = Solo(q) /\ CacheMatches(q)' = CacheMatches(q)
    BY <2>1, <2>2 DEF Solo, CacheMatches
  <2> QED
    BY <2>1, <2>2, <2>3 DEF Outputs, Placed, Soloists, Following
<1>2. ASSUME NEW p \in Process, StartRun(p) \/ EndRun(p) \/ Crash(p) PROVE Outputs'
  BY <1>2, StartRunFollows, EndFollows
<1>3. ASSUME NEW p \in Process, NEW t \in Workers(p), StartTarget(p, t) PROVE Outputs'
  BY <1>3, StartTargetFollows
<1>4. ASSUME NEW p \in Process, NEW t \in Workers(p), Step(p, t) PROVE Outputs'
  <2>1. run[p].phase = "busy"
    BY <1>4 DEF Step
  <2>2. ASSUME t = "cli", Load(p) \/ CheckRef(p) PROVE Outputs'
    BY <2>1, <2>2, CliFollows
  <2> QED
    BY <1>4, <2>1, <2>2, NextValueFollows, ReadFollows, InsertFollows, LockFollows, EvaluateFollows,
       KvFollows, WriteFollows, ForgetFollows DEF Step
<1> QED
  BY <1>1, <1>2, <1>3, <1>4 DEF Next

(* When a compile that ran alone is over, every ref its targets pin is on  *)
(* disk and is the one the output names, if no target makes refs that      *)
(* another one mentions.                                                   *)
THEOREM OutputsAlwaysMatch == Spec => []OutputsMatchFiles
<1>1. Init => Outputs
  BY InitOutputs
<1>2. Known /\ Outputs /\ [Next]_vars => Outputs'
  BY NextOutputs
<1>3. Outputs => OutputsMatchFiles
  <2> SUFFICES ASSUME Outputs, NothingShared, NEW p \in Process, Compiles(p), DoneAlone(p),
                      NEW t \in Workers(p), Succeeded(p, t), NEW i \in DOMAIN Entries(t)
               PROVE  /\ IsRef(disk[Entries(t)[i].path])
                      /\ thread[p][t].out[i] = Data(disk[Entries(t)[i].path])
    BY DEF OutputsMatchFiles
  <2>1. Faithful(Entries(t), Mentions(t), disk, thread[p][t])
    BY DEF Outputs, Following, Solo, DoneAlone
  <2> QED
    BY <2>1 DEF Faithful, Matched, Succeeded
<1> QED
  BY <1>1, <1>2, <1>3, CompilesKnow, PTL DEF Spec
-----------------------------------------------------------------------------
(* Keys.  What --update-targets and --validate-targets know of the refs    *)
(* they go through when no other process runs.                             *)

ByTarget(p) == Command(p).kind \in {"rotate", "validate"}

(* A ref that was sealed again is the same secret.                         *)
Same(c, d) ==
  IsRef(c) /\ c.type = d.type /\ (c = d \/ (d.type \in Sealing /\ c.plain = d.plain))

Section(type) == IF type = "vaulttransit" THEN "transit_key" ELSE type
WrongKey(x, c) ==
  /\ project.owner[x] \in DOMAIN project.docs /\ c.type \in Sealing
  /\ LET secrets == project.secrets[project.owner[x]]
     IN  Section(c.type) \in DOMAIN secrets /\ secrets[Section(c.type)] # c.key

(* The refs it has loaded are those of the start; those it has not come to *)
(* are still that; those it is through with hold the same secret, with the *)
(* right key or counted.                                                   *)
Loaded(before, d, w) ==
  /\ w.todo \subseteq DOMAIN d
  /\ \A x \in DOMAIN w.known : IsRef(before[x]) /\ w.known[x] = before[x]
  /\ w.step = "load" => d = before
  /\ w.step \notin {"load", "failed"} => w.todo \subseteq DOMAIN w.known
  /\ \A x \in w.todo : d[x] = before[x]

SealsAgain(before, w) ==
  w.step \in {"truncate", "fill"} =>
     /\ w.path \notin w.todo /\ IsRef(before[w.path])
     /\ Same(w.new, before[w.path]) /\ ~WrongKey(w.path, w.new)

Through(kind, before, d, w) ==
  \A x \in DOMAIN d : IsRef(before[x]) =>
     /\ Same(d[x], before[x]) \/ (w.step = "fill" /\ x = w.path)
     /\ \/ x \in w.todo
        \/ ~WrongKey(x, d[x])
        \/ w.step = "truncate" /\ x = w.path
        \/ kind = "validate" /\ w.bad > 0

CliFields == {"step", "path", "todo", "known", "bad"}
Rotates(kind, before, d, w) ==
  /\ CliFields \subseteq DOMAIN w /\ w.bad \in Nat
  /\ w.step \in {"load", "cli", "truncate", "fill", "forget", "ok", "failed"}
  /\ w.step = "ok" => w.todo = {} /\ ~(kind = "validate" /\ w.bad > 0)
  /\ Loaded(before, d, w) /\ SealsAgain(before, w) /\ Through(kind, before, d, w)

Rotations ==
  \A p \in Process : ByTarget(p) /\ Solo(p) =>
     /\ Rotates(Command(p).kind, run[p].before, disk, thread[p]["cli"])
     /\ run[p].phase = "done" => thread[p]["cli"].step \in {"ok", "failed"}

(* A ref that is not foreign to its target has the key CheckRef wants.     *)
LEMMA WrongKeyIsMismatch ==
  ASSUME NEW p, ByTarget(p), project \in Projects, NEW x, NEW c, WrongKey(x, c)
  PROVE  Mismatch(p, x, c)
<1> DEFINE t == project.owner[x]
           secrets == project.secrets[t]
<1>1. t \in DOMAIN project.docs /\ c.type \in Sealing /\ Section(c.type) \in DOMAIN secrets
      /\ secrets[Section(c.type)] # c.key
  BY DEF WrongKey
<1>2. NoKey \notin Range(secrets)
  BY <1>1, RefsAssumption
<1>3. secrets[Section(c.type)] # NoKey
  BY <1>1, <1>2 DEF Range
<1>4. Wanted(p, x, c.type) = secrets[Section(c.type)]
  BY <1>1 DEF ByTarget, Wanted, Key, Section
<1> QED
  BY <1>1, <1>3, <1>4 DEF Mismatch

(* Sealing again keeps the secret and uses the right key.                  *)
LEMMA SealedAgain ==
  ASSUME NEW p, ByTarget(p), project \in Projects, NEW x, NEW c, IsRef(c), Mismatch(p, x, c)
  PROVE  LET s == Sealed(c.type, Secret(c.type, c), Wanted(p, x, c.type))
         IN  Same(s, c) /\ ~WrongKey(x, s)
<1> DEFINE s == Sealed(c.type, Secret(c.type, c), Wanted(p, x, c.type))
<1>1. c.type \in Sealing /\ c.type # "vaultkv"
  BY DEF Mismatch, Sealing, Keyed
<1>2. s.type = c.type /\ s.plain = c.plain /\ s.key = Wanted(p, x, c.type)
  BY <1>1 DEF Sealed, Secret
<1>3. IsRef(s)
  BY SealedIsRef DEF IsRef
<1> HIDE DEF s
<1>4. Same(s, c)
  BY <1>1, <1>2, <1>3 DEF Same
<1>5. ~WrongKey(x, s)
  BY <1>2 DEF WrongKey, ByTarget, Wanted, Key, Section
<1> QED
  BY <1>4, <1>5 DEF s

LEMMA StartRotates ==
  ASSUME NEW p, ByTarget(p)
  PROVE  Rotates(Command(p).kind, disk, disk, StartCli(p))
<1> DEFINE w == StartCli(p)
<1>1. /\ DOMAIN w = CliFields /\ w.step = "load" /\ w.todo = Owned /\ w.known = << >> /\ w.bad = 0
  BY DEF ByTarget, StartCli, CliFields
<1> HIDE DEF w
<1>2. DOMAIN w.known = {}
  BY <1>1
<1>3. Loaded(disk, disk, w)
  BY <1>1, <1>2 DEF Loaded, Owned
<1>4. \A x \in DOMAIN disk : IsRef(disk[x]) => Same(disk[x], disk[x]) /\ (x \in Owned \/ ~WrongKey(x, disk[x]))
  BY DEF Same, Owned, WrongKey, IsRef
<1> QED
  BY <1>1, <1>3, <1>4 DEF Rotates, SealsAgain, Through, w

LEMMA LoadRotates ==
  ASSUME Known, NEW p \in Process, ByTarget(p), "cli" \in Workers(p), NEW kind, NEW before,
         Rotates(kind, before, disk, thread[p]["cli"]), Load(p)
  PROVE  Rotates(kind, before, disk', thread'[p]["cli"])
<1> DEFINE w == thread[p]["cli"]
           rest == w.todo \ DOMAIN w.known
           Taken(x) == [w EXCEPT !.known = With(@, x, Named(p, disk[x]))]
<1>1. w.step = "load" /\ disk' = disk
      /\ \/ rest = {} /\ Go(p, "cli", [w EXCEPT !.step = "cli"])
         \/ Go(p, "cli", [w EXCEPT !.step = "failed"])
         \/ \E x \in rest : IsRef(disk[x]) /\ Go(p, "cli", Taken(x))
  BY DEF Load
<1>2. \A v : Go(p, "cli", v) => thread'[p]["cli"] = v
  BY DEF Go, Known, Typed
<1> HIDE DEF w
<1>3. /\ CliFields \subseteq DOMAIN w /\ w.bad \in Nat
      /\ Loaded(before, disk, w) /\ disk = before /\ Through(kind, before, disk, w)
  BY <1>1 DEF Rotates, Loaded, w
<1>4. CASE rest = {} /\ thread'[p]["cli"] = [w EXCEPT !.step = "cli"]
  <2>1. PICK v : v = [w EXCEPT !.step = "cli"]
    OBVIOUS
  <2>2. /\ DOMAIN v = DOMAIN w /\ v.step = "cli" /\ v.bad = w.bad /\ v.todo = w.todo
        /\ v.known = w.known /\ v.path = w.path
    BY <1>3, <2>1 DEF CliFields
  <2> QED
    BY <1>1, <1>3, <1>4, <2>1, <2>2 DEF Rotates, Loaded, SealsAgain, Through
<1>5. CASE thread'[p]["cli"] = [w EXCEPT !.step = "failed"]
  <2>1. PICK v : v = [w EXCEPT !.step = "failed"]
    OBVIOUS
  <2>2. /\ DOMAIN v = DOMAIN w /\ v.step = "failed" /\ v.bad = w.bad /\ v.todo = w.todo
        /\ v.known = w.known /\ v.path = w.path
    BY <1>3, <2>1 DEF CliFields
  <2> QED
    BY <1>1, <1>3, <1>5, <2>1, <2>2 DEF Rotates, Loaded, SealsAgain, Through
<1>6. ASSUME NEW x \in rest, IsRef(disk[x]), thread'[p]["cli"] = Taken(x)
      PROVE  Rotates(kind, before, disk', thread'[p]["cli"])
  <2>1. PICK v : v = Taken(x)
    OBVIOUS
  <2>2. Named(p, disk[x]) = disk[x]
    BY DEF Named, ByTarget
  <2>3. /\ DOMAIN v = DOMAIN w /\ v.step = "load" /\ v.bad = w.bad /\ v.todo = w.todo
        /\ v.known = With(w.known, x, disk[x]) /\ v.path = w.path
    BY <1>1, <1>3, <2>1, <2>2 DEF CliFields
  <2>4. \A y \in DOMAIN v.known : IsRef(before[y]) /\ v.known[y] = before[y]
    BY <1>3, <1>6, <2>3 DEF Loaded, With
  <2> QED
    BY <1>1, <1>3, <1>6, <2>1, <2>3, <2>4 DEF Rotates, Loaded, SealsAgain, Through
<1> QED
  BY <1>1, <1>2, <1>4, <1>5, <1>6

LEMMA CheckRotates ==
  ASSUME Known, NEW p \in Process, ByTarget(p), "cli" \in Workers(p), project \in Projects,
         NEW before, Rotates(Command(p).kind, before, disk, thread[p]["cli"]), CheckRef(p)
  PROVE  Rotates(Command(p).kind, before, disk', thread'[p]["cli"])
<1> DEFINE w == thread[p]["cli"]
           kind == Command(p).kind
           S(x) == LET c == w.known[x]
                   IN  Sealed(c.type, Secret(c.type, c), Wanted(p, x, c.type))
           Rest(x) == [w EXCEPT !.todo = @ \ {x}]
           Again(x) == With([Rest(x) EXCEPT !.step = "truncate", !.path = x], "new", S(x))
           next == thread'[p]["cli"]
<1>1. \A v : Go(p, "cli", v) => next = v
  BY DEF Go, Known, Typed
<1>2. w.step = "cli" /\ disk' = disk
  BY DEF CheckRef
<1>3. \/ /\ w.todo = {}
         /\ Go(p, "cli", [w EXCEPT !.step = IF kind = "validate" /\ w.bad > 0
                                              THEN "failed" ELSE "ok"])
      \/ Go(p, "cli", [w EXCEPT !.step = "failed"])
      \/ \E x \in w.todo : ~Mismatch(p, x, w.known[x]) /\ Go(p, "cli", Rest(x))
      \/ \E x \in w.todo :
            /\ Mismatch(p, x, w.known[x])
            /\ \/ kind = "validate" /\ Go(p, "cli", [Rest(x) EXCEPT !.bad = @ + 1])
               \/ Go(p, "cli", Again(x))
  BY DEF CheckRef
<1>4. \/ \E step \in {"ok", "failed"} :
            /\ next = [w EXCEPT !.step = step]
            /\ step = "ok" => w.todo = {} /\ ~(kind = "validate" /\ w.bad > 0)
      \/ \E x \in w.todo : ~Mismatch(p, x, w.known[x]) /\ next = Rest(x)
      \/ \E x \in w.todo : kind = "validate" /\ next = [Rest(x) EXCEPT !.bad = @ + 1]
      \/ \E x \in w.todo : Mismatch(p, x, w.known[x]) /\ next = Again(x)
  <2> HIDE DEF w, next, kind, Rest, Again
  <2> QED
    BY <1>1, <1>3
<1> HIDE DEF w, next, S
<1>5. /\ CliFields \subseteq DOMAIN w /\ w.bad \in Nat
      /\ Loaded(before, disk, w) /\ Through(kind, before, disk, w)
  BY DEF Rotates, w
<1>6. \A x \in w.todo : x \in DOMAIN disk /\ IsRef(before[x]) /\ w.known[x] = before[x] /\ disk[x] = before[x]
  BY <1>2, <1>5 DEF Loaded
<1>7. ASSUME NEW step \in {"ok", "failed"}, next = [w EXCEPT !.step = step],
             step = "ok" => w.todo = {} /\ ~(kind = "validate" /\ w.bad > 0)
      PROVE  Rotates(kind, before, disk, next)
  <2>1. /\ DOMAIN next = DOMAIN w /\ next.step = step /\ next.bad = w.bad /\ next.todo = w.todo
        /\ next.known = w.known /\ next.path = w.path
    BY <1>5, <1>7 DEF CliFields
  <2> QED
    BY <1>2, <1>5, <1>7, <2>1 DEF Rotates, Loaded, SealsAgain, Through
<1>8. ASSUME NEW x \in w.todo, ~Mismatch(p, x, w.known[x]), next = Rest(x)
      PROVE  Rotates(kind, before, disk, next)
  <2>1. /\ DOMAIN next = DOMAIN w /\ next.step = "cli" /\ next.bad = w.bad
        /\ next.todo = w.todo \ {x} /\ next.known = w.known /\ next.path = w.path
    BY <1>2, <1>5, <1>8 DEF CliFields
  <2>2. ~WrongKey(x, disk[x])
    BY <1>6, <1>8, WrongKeyIsMismatch
  <2>3. Loaded(before, disk, next)
    BY <1>2, <1>5, <2>1 DEF Loaded
  <2>4. Through(kind, before, disk, next)
    BY <1>2, <1>5, <2>1, <2>2 DEF Through
  <2> QED
    BY <1>2, <1>5, <2>1, <2>3, <2>4 DEF Rotates, SealsAgain
<1>9. ASSUME NEW x \in w.todo, kind = "validate", next = [Rest(x) EXCEPT !.bad = @ + 1]
      PROVE  Rotates(kind, before, disk, next)
  <2>1. /\ DOMAIN next = DOMAIN w /\ next.step = "cli" /\ next.bad = w.bad + 1
        /\ next.todo = w.todo \ {x} /\ next.known = w.known /\ next.path = w.path
    BY <1>2, <1>5, <1>9 DEF CliFields
  <2>2. next.bad \in Nat /\ next.bad > 0
    BY <1>5, <2>1
  <2>3. Loaded(before, disk, next)
    BY <1>2, <1>5, <2>1 DEF Loaded
  <2>4. Through(kind, before, disk, next)
    BY <1>2, <1>5, <1>9, <2>1, <2>2 DEF Through
  <2> QED
    BY <1>5, <2>1, <2>2, <2>3, <2>4 DEF Rotates, SealsAgain
<1>10. ASSUME NEW x \in w.todo, Mismatch(p, x, w.known[x]), next = Again(x)
      PROVE  Rotates(kind, before, disk, next)
  <2>1. /\ DOMAIN w \subseteq DOMAIN next /\ next.step = "truncate" /\ next.bad = w.bad
        /\ next.todo = w.todo \ {x} /\ next.known = w.known /\ next.path = x /\ next.new = S(x)
    BY <1>2, <1>5, <1>10 DEF CliFields, With
  <2>2. Same(next.new, before[x]) /\ ~WrongKey(x, next.new)
    BY <1>6, <1>10, <2>1, SealedAgain DEF S
  <2>3. Loaded(before, disk, next)
    BY <1>2, <1>5, <2>1 DEF Loaded
  <2>4. Through(kind, before, disk, next)
    BY <1>2, <1>5, <2>1 DEF Through
  <2>5. SealsAgain(before, next)
    BY <1>6, <2>1, <2>2 DEF SealsAgain
  <2> QED
    BY <1>5, <2>1, <2>3, <2>4, <2>5 DEF Rotates
<1> HIDE DEF Rest, Again, kind
<1>11. Rotates(kind, before, disk, next)
  BY <1>4, <1>7, <1>8, <1>9, <1>10
<1> QED
  BY <1>2, <1>11 DEF next, kind

LEMMA WriteRotates ==
  ASSUME Known, NEW p \in Process, ByTarget(p), "cli" \in Workers(p), NEW before,
         Rotates(Command(p).kind, before, disk, thread[p]["cli"]), DOMAIN before = DOMAIN disk,
         Truncate(p, "cli") \/ Fill(p, "cli") \/ Forget(p, "cli")
  PROVE  Rotates(Command(p).kind, before, disk', thread'[p]["cli"])
<1> DEFINE w == thread[p]["cli"]
           kind == Command(p).kind
           next == thread'[p]["cli"]
<1>1. ~Compiles(p)
  BY DEF ByTarget, Compiles
<1>2. /\ Target(p, "cli") = w.path
      /\ \/ /\ w.step = "truncate" /\ next = [w EXCEPT !.step = "fill"]
            /\ disk' = [disk EXCEPT ![w.path] = Torn]
         \/ /\ w.step = "fill" /\ next = [w EXCEPT !.step = "forget"]
            /\ disk' = [disk EXCEPT ![w.path] = w.new]
         \/ w.step = "forget" /\ next = [w EXCEPT !.step = "cli"] /\ disk' = disk
  BY <1>1 DEF Target, Truncate, Fill, Forget, Go, Known, Typed
<1> HIDE DEF w, next
<1>3. /\ CliFields \subseteq DOMAIN w /\ w.bad \in Nat
      /\ Loaded(before, disk, w) /\ SealsAgain(before, w) /\ Through(kind, before, disk, w)
  BY DEF Rotates, w
<1>4. PICK step \in {"fill", "forget", "cli"} : next = [w EXCEPT !.step = step]
  BY <1>2
<1>5. /\ DOMAIN next = DOMAIN w /\ next.step = step /\ next.bad = w.bad /\ next.todo = w.todo
      /\ next.known = w.known /\ next.path = w.path /\ next.new = w.new
  BY <1>3, <1>4 DEF CliFields
<1>6. /\ w.step = (CASE step = "fill" -> "truncate" [] step = "forget" -> "fill" [] OTHER -> "forget")
      /\ DOMAIN disk' = DOMAIN disk
      /\ \A x \in DOMAIN disk : disk'[x] = IF x = w.path /\ step = "fill" THEN Torn
                                           ELSE IF x = w.path /\ step = "forget" THEN w.new
                                           ELSE disk[x]
  BY <1>2, <1>3, <1>4, <1>5 DEF CliFields
<1>7. Loaded(before, disk', next)
  BY <1>3, <1>5, <1>6 DEF Loaded, SealsAgain
<1>8. SealsAgain(before, next)
  BY <1>3, <1>5, <1>6 DEF SealsAgain
<1>9. ~WrongKey(w.path, Torn)
  BY DEF WrongKey, Torn, Sealing, Keyed
<1>10. Through(kind, before, disk', next)
  BY <1>3, <1>5, <1>6, <1>9 DEF Through, SealsAgain
<1> QED
  BY <1>3, <1>5, <1>6, <1>7, <1>8, <1>10 DEF Rotates, next

(* A step of a run changes no command and does not end a run.              *)
LEMMA StepStays ==
  ASSUME Known, NEW p \in Process, NEW t \in Workers(p), Step(p, t)
  PROVE  /\ run[p].phase = "busy" /\ run'[p].phase = "busy" /\ run'[p].alone = run[p].alone
         /\ run'[p].before = run[p].before /\ project' = project
<1>1. run[p].phase = "busy"
  BY DEF Step
<1>2. CASE \E v : Go(p, t, v) /\ project' = project
  BY <1>1, <1>2, GoMoves DEF Moves
<1>3. ASSUME t = "cli", Load(p) \/ CheckRef(p) PROVE \E v : Go(p, t, v) /\ project' = project
  BY <1>3 DEF Load, CheckRef
<1>4. NextValue(p, t) \/ Read(p, t) => \E v : Go(p, t, v) /\ project' = project
  BY DEF NextValue, Read
<1>5. Evaluate(p, t) \/ KvRead(p, t) \/ KvWrite(p, t) => \E v : Go(p, t, v) /\ project' = project
  BY DEF Evaluate, KvRead, KvWrite
<1>6. Truncate(p, t) \/ Fill(p, t) => \E v : Go(p, t, v) /\ project' = project
  BY DEF Truncate, Fill
<1>7. CASE Insert(p, t) \/ Lock(p, t) \/ Forget(p, t)
  BY <1>1, <1>7 DEF Insert, Lock, Forget, Known, Typed, RunFields
<1> QED
  BY <1>2, <1>3, <1>4, <1>5, <1>6, <1>7 DEF Step

(* Only the process that goes on can be alone.                             *)
LEMMA OwnRotates ==
  ASSUME Outputs', project' = project, NEW p \in Process, run'[p].phase = "busy",
         ByTarget(p) /\ Solo(p)' =>
            Rotates(Command(p).kind, run'[p].before, disk', thread'[p]["cli"])
  PROVE  Rotations'
<1>1. Process' = Process /\ \A q : (Command(q))' = Command(q) /\ ByTarget(q)' = ByTarget(q)
  BY DEF Process, Command, ByTarget
<1>2. \A q \in Process : Solo(q)' => q = p
  BY <1>1 DEF Outputs, Soloists
<1>3. ASSUME Rotates(Command(p).kind, run'[p].before, disk', thread'[p]["cli"])
      PROVE  Rotates(Command(p).kind, run[p].before, disk, thread[p]["cli"])'
  BY <1>1, <1>3 DEF Rotates, SealsAgain, Through, WrongKey
<1> QED
  BY <1>1, <1>2, <1>3 DEF Rotations

LEMMA StepRotates ==
  ASSUME Known, Outputs, Rotations, Outputs', NEW p \in Process, NEW t \in Workers(p), Step(p, t)
  PROVE  Rotations'
<1> DEFINE w == thread[p]["cli"]
           kind == Command(p).kind
           before == run[p].before
<1>1. /\ run[p].phase = "busy" /\ run'[p].phase = "busy" /\ run'[p].alone = run[p].alone
      /\ run'[p].before = before /\ project' = project
  BY StepStays
<1>2. SUFFICES ASSUME ByTarget(p), Solo(p) PROVE Rotates(kind, before, disk', thread'[p]["cli"])
  BY <1>1, OwnRotates DEF Solo
<1>3. Rotates(kind, before, disk, w)
  BY <1>2 DEF Rotations
<1>4. t = "cli" /\ "cli" \in Workers(p) /\ ~Compiles(p)
  BY <1>2 DEF Workers, ByTarget, Compiles
<1>5. /\ DOMAIN before = DOMAIN disk /\ project \in Projects
  BY DEF Known, Typed, Outputs, Placed
<1>6. w.step \notin {"next", "get", "insert", "lock", "evaluate", "kv_read", "kv_write"}
  BY <1>3 DEF Rotates
<1>7. \/ Truncate(p, "cli") \/ Fill(p, "cli") \/ Forget(p, "cli")
      \/ Load(p) \/ CheckRef(p)
  BY <1>4, <1>6 DEF Step, NextValue, Read, Insert, Lock, Evaluate, KvRead, KvWrite
<1> QED
  BY <1>2, <1>3, <1>4, <1>5, <1>7, LoadRotates, CheckRotates, WriteRotates

LEMMA NextRotations == ASSUME Known, Outputs, Rotations, [Next]_vars, Outputs' PROVE Rotations'
<1>1. ASSUME project' = project, disk' = disk, thread' = thread,
             \A q \in Process : Solo(q)' =>
                /\ Solo(q) /\ run'[q].before = run[q].before
                /\ \/ run'[q].phase = "done" => run[q].phase = "done"
                   \/ ByTarget(q) => thread[q]["cli"].step \in {"ok", "failed"}
      PROVE  Rotations'
  <2>1. Process' = Process /\ \A q : (Command(q))' = Command(q) /\ ByTarget(q)' = ByTarget(q)
    BY <1>1 DEF Process, Command, ByTarget
  <2>2. ASSUME NEW q \in Process, Rotates(Command(q).kind, run[q].before, disk, thread[q]["cli"]),
               run'[q].before = run[q].before
        PROVE  Rotates(Command(q).kind, run[q].before, disk, thread[q]["cli"])'
    BY <1>1, <2>1, <2>2 DEF Rotates, SealsAgain, Through, WrongKey
  <2> QED
    BY <1>1, <2>1, <2>2 DEF Rotations
<1>2. CASE UNCHANGED vars
  BY <1>1, <1>2 DEF vars, Solo, Process
<1>3. ASSUME NEW p \in Process, EndRun(p) \/ Crash(p) PROVE Rotations'
  <2>1. /\ project' = project /\ disk' = disk /\ thread' = thread /\ run[p].phase = "busy"
        /\ \E phase \in {"done", "crashed"} : run' = [run EXCEPT ![p].phase = phase]
    BY <1>3 DEF EndRun, Crash
  <2>2. \A q \in Process : /\ run'[q].alone = run[q].alone /\ run'[q].before = run[q].before
                           /\ run'[q].phase = "busy" => run[q].phase = "busy"
                           /\ run'[q].phase = "done" => run[q].phase \in {"busy", "done"}
                           /\ q # p => run'[q].phase = run[q].phase
    BY <2>1 DEF Known, Typed, RunFields
  <2>3. run'[p].phase = "done" => \A t \in Workers(p) : thread[p][t].step \in {"ok", "failed"}
    BY <1>3 DEF EndRun, Crash, Known, Typed, RunFields
  <2>4. ByTarget(p) => "cli" \in Workers(p)
    BY DEF ByTarget, Workers, Compiles
  <2> QED
    BY <1>1, <2>1, <2>2, <2>3, <2>4 DEF Solo
<1>4. ASSUME NEW p \in Process, StartRun(p) PROVE Rotations'
  <2>1. project' = project /\ disk' = disk
    BY <1>4 DEF StartRun
  <2>2. run'[p].phase = "busy" /\ run'[p].before = disk
    BY <1>4 DEF StartRun, Run
  <2>3. ASSUME ByTarget(p) PROVE thread'[p]["cli"] = StartCli(p)
    BY <1>4, <2>3 DEF StartRun, ByTarget, Compiles, Known, Typed, Workers
  <2> QED
    BY <2>1, <2>2, <2>3, StartRotates, OwnRotates
<1>5. ASSUME NEW p \in Process, NEW t \in Workers(p), StartTarget(p, t) PROVE Rotations'
  <2>1. run[p].phase = "busy" /\ Go(p, t, Fresh) /\ project' = project /\ ~ByTarget(p)
    BY <1>5 DEF StartTarget, ByTarget, Compiles
  <2>2. run'[p].phase = "busy"
    BY <2>1, GoMoves DEF Moves
  <2> QED
    BY <2>1, <2>2, OwnRotates
<1> QED
  BY <1>2, <1>3, <1>4, <1>5, StepRotates DEF Next

(* When --update-targets or --validate-targets ran alone and is over, no   *)
(* ref has lost or changed its secret; if it succeeded, no ref of a target *)
(* is sealed with another key than its target's.                           *)
THEOREM RotationsAreComplete == Spec => []RotationIsComplete
<1>1. Init => Outputs /\ Rotations
  <2>1. Init => \A p \in Process : run[p].phase = "idle"
    BY DEF Init, Run
  <2> QED
    BY <2>1, InitOutputs DEF Rotations, Solo
<1>2. Known /\ Outputs /\ Rotations /\ [Next]_vars => Outputs' /\ Rotations'
  BY NextOutputs, NextRotations
<1>3. Known /\ Outputs /\ Rotations => RotationIsComplete
  <2> SUFFICES ASSUME Rotations, NEW p \in Process, DoneAlone(p), ByTarget(p)
               PROVE  /\ \A x \in DOMAIN disk : IsRef(run[p].before[x]) =>
                            IsRef(disk[x]) /\ Secret(disk[x].type, disk[x])
                                              = Secret(disk[x].type, run[p].before[x])
                      /\ Succeeded(p, "cli") => Foreign(p) = {}
    BY DEF RotationIsComplete, ByTarget
  <2> DEFINE w == thread[p]["cli"]
             before == run[p].before
  <2>1. Rotates(Command(p).kind, before, disk, w)
    BY DEF Rotations, Solo, DoneAlone
  <2>2. w.step \in {"ok", "failed"}
    BY DEF Rotations, Solo, DoneAlone
  <2>3. ASSUME NEW x \in DOMAIN disk, IsRef(before[x])
        PROVE  IsRef(disk[x]) /\ Secret(disk[x].type, disk[x]) = Secret(disk[x].type, before[x])
    <3>1. Same(disk[x], before[x])
      BY <2>1, <2>2, <2>3 DEF Rotates, Through
    <3> QED
      BY <3>1 DEF Same, Secret, Sealing, Keyed
  <2>4. ASSUME Succeeded(p, "cli"), NEW x \in Foreign(p) PROVE FALSE
    <3>1. x \in DOMAIN disk /\ IsRef(before[x]) /\ WrongKey(x, disk[x])
      BY <2>4 DEF Foreign, WrongKey, Section
    <3>2. w.step = "ok"
      BY <2>4 DEF Succeeded
    <3> QED
      BY <2>1, <3>1, <3>2 DEF Rotates, Through
  <2> QED
    BY <2>3, <2>4
<1> QED
  BY <1>1, <1>2, <1>3, CompilesKnow, PTL DEF Spec

-----------------------------------------------------------------------------
(* Which values can be resolved.  What it depends on does not change while *)
(* a run lasts.                                                            *)

(* What the values of a target depend on.                                  *)
View(p, t) ==
  [doc |-> project.docs[t], user |-> Command(p), before |-> run[p].before,
   keys |-> {type \in Types : HasKey(p, t, type)}]

(* The first function of a tag can be evaluated with these files.          *)
First(tag, there) ==
  /\ tag.funcs[1].name # "derive"
  /\ tag.funcs[1].name = "reveal" => tag.funcs[1].path \in there

(* A compile that does not reveal makes the ref of the tag.                *)
Makable(c, tag) == tag.funcs # << >> /\ tag.pin = NoPin /\ ~c.user.reveal

(* Resolves, in a view.                                                    *)
Works(c, i, there) ==
  LET tag == c.doc.tags[i] IN
  /\ tag.sub => tag.funcs = << >>
  /\ IF tag.path \in there
     THEN \/ tag.pin = NoPin
          \/ IsRef(c.before[tag.path]) /\ tag.pin = Data(c.before[tag.path])
     ELSE /\ c.before[tag.path] = Missing /\ Makable(c, tag)
          /\ tag.type \in c.keys /\ First(tag, there)

(* The files that grow from those at the start, pass by pass or, in a      *)
(* list, value by value (ThereAfter, in a view).                           *)
Start(c) == {x \in DOMAIN c.before : IsRef(c.before[x])}
Adds(c, there, n) ==
  {c.doc.tags[i].path : i \in {j \in DOMAIN c.doc.tags :
                                 (c.doc.shape = "list" => j = n) /\ Works(c, j, there)}}
Grows(c, made, n) ==
  made = [k \in 0 .. n |-> IF k = 0 THEN Start(c) ELSE made[k - 1] \cup Adds(c, made[k - 1], k)]

(* A value that reveals another ref of a mapping is tried again.           *)
Again(c, i) ==
  /\ ~c.user.reveal /\ c.doc.shape = "map"
  /\ c.doc.tags[i].funcs # << >> /\ c.doc.tags[i].funcs[1].name = "reveal"

(* The files a value of a list needs come from the values before it.       *)
Level(c, i) == IF c.doc.shape = "list" THEN i - 1 ELSE Len(c.doc.tags)

(* The refs that are there after the values a thread is done with.         *)
Done(w) == IF w.step = "idle" THEN {} ELSE w.settled
There(c, w) == Start(c) \cup {c.doc.tags[i].path : i \in Done(w)}

Active(w) == w.step \notin {"idle", "next", "ok", "failed"}
Written(w) == w.step = "forget" \/ (w.step \in {"get", "insert"} /\ w.why = "readback")
Filling(w) == w.step = "fill" \/ Written(w)

(* The thread changes no file that was there and makes only its own.       *)
Held(c, paths, d, w) ==
  \A x \in paths :
     IF c.before[x] # Missing THEN d[x] = c.before[x]
     ELSE d[x] = Missing \/ x \in There(c, w) \/ (Filling(w) /\ c.doc.tags[w.i].path = x)

(* How far a thread has come with a value.                                 *)
Tried(c, d, w) ==
  Active(w) =>
    LET tag == c.doc.tags[w.i] IN
    /\ w.i \in DOMAIN c.doc.tags \ w.settled
    /\ tag.sub => tag.funcs = << >>
    /\ w.step \in {"get", "insert"} => w.why \in {"lookup", "recheck", "readback", "reveal"}
    /\ Creating(w) \/ Written(w) =>
         tag.path \notin There(c, w) /\ c.before[tag.path] = Missing /\ Makable(c, tag)
    /\ w.step = "evaluate" =>
         \/ w.at = 1 /\ w.secret = NoSecret
         \/ w.at > 1 /\ w.secret # NoSecret /\ First(tag, There(c, w))
    /\ w.step \in {"get", "insert"} /\ w.why = "recheck" => w.at = 1 /\ w.secret = NoSecret
    /\ w.step \in {"get", "insert"} /\ w.why = "reveal" =>
         w.at = 1 /\ tag.funcs[1].name = "reveal" /\ w.path = tag.funcs[1].path
    /\ w.step \in {"kv_read", "kv_write", "truncate", "fill"} \/ Written(w) =>
         Works(c, w.i, There(c, w))
    /\ Written(w) => IsRef(d[tag.path])

(* How far it has come with all of them.                                   *)
Over(w, i) == IF w.step = "next" THEN i <= w.i ELSE i < w.i

Passed(c, made, w) ==
  w.step # "idle" =>
    /\ w.i \in Nat /\ w.settled \subseteq DOMAIN c.doc.tags
    /\ There(c, w) \subseteq made[Cardinality(w.settled)]
    /\ \A i \in w.settled : Works(c, i, made[Level(c, i)])
    /\ c.doc.shape = "map" => \A i \in DOMAIN c.doc.tags \ w.settled :
          /\ Works(c, i, There(c, w)) => ~w.last /\ (Over(w, i) => w.moved)
          /\ Over(w, i) => Again(c, i)
    /\ c.doc.shape = "list" /\ w.step # "ok" =>
          w.settled = 1 .. (IF w.step = "next" THEN w.i ELSE w.i - 1)
    /\ w.step = "ok" => w.settled = DOMAIN c.doc.tags
    /\ w.step = "failed" =>
          w.i \in DOMAIN c.doc.tags /\ ~Works(c, w.i, made[Level(c, w.i)])

Tries(c, paths, d, w) ==
  /\ Held(c, paths, d, w) /\ Tried(c, d, w)
  /\ \A made : Grows(c, made, Len(c.doc.tags)) => Passed(c, made, w)

(* A repository in which the order of the values of a mapping does not     *)
(* matter: of those that name a new ref the first makes it on its own, or  *)
(* they all say the same.  A hash is of a ref that is there or that no     *)
(* value makes; a ref in the Vault is not made from another one.           *)
OnItsOwn(tag) ==
  ~tag.sub /\ tag.pin = NoPin /\ tag.funcs # << >> /\ tag.funcs[1].name = "random"

Unambiguous ==
  \A t \in DOMAIN project.docs : \A i \in DOMAIN Entries(t) :
    LET tag == Entries(t)[i]
        same == {j \in DOMAIN Entries(t) : Entries(t)[j].path = tag.path}
    IN  /\ tag.type = "vaultkv" /\ tag.funcs # << >> => tag.funcs[1].name # "reveal"
        /\ project.files[tag.path] = Missing /\ tag.path \in Makes(t) =>
             /\ tag.pin = NoPin
             /\ project.docs[t].shape = "map" =>
                  \/ \A j \in same : Entries(t)[j].type = tag.type /\ Entries(t)[j].funcs = tag.funcs
                  \/ \E j \in same : /\ \A k \in same : j <= k
                                     /\ OnItsOwn(Entries(t)[j])
                                     /\ \/ Entries(t)[j].type \notin Sealing
                                        \/ Entries(t)[j].type \in DOMAIN project.secrets[t]

(* NoSecret is no secret and no place of one.                              *)
SecretsAreReal ==
  /\ \A a, b : NoSecret # << a, b >>
  /\ \A x \in DOMAIN project.files :
       IsRef(project.files[x]) => /\ "plain" \in DOMAIN project.files[x]
                                  /\ project.files[x].plain # NoSecret
  /\ \A t \in DOMAIN project.docs : \A i \in DOMAIN Entries(t) :
       Entries(t)[i].type = "vaultkv" => Entries(t)[i].place # NoSecret
  /\ \A p \in Process :
       Command(p).kind = "write" /\ Command(p).type = "vaultkv" => Command(p).place # NoSecret

(* The same, as far as a run depends on it.                                *)
Clear(c) ==
  \A i \in DOMAIN c.doc.tags :
    LET tag == c.doc.tags[i]
        same == {j \in DOMAIN c.doc.tags : c.doc.tags[j].path = tag.path}
    IN  /\ tag.type = "vaultkv" /\ tag.funcs # << >> => tag.funcs[1].name # "reveal"
        /\ c.before[tag.path] = Missing /\ (\E j \in same : c.doc.tags[j].funcs # << >>) =>
             /\ tag.pin = NoPin
             /\ c.doc.shape = "map" =>
                  \/ \A j \in same : c.doc.tags[j].type = tag.type /\ c.doc.tags[j].funcs = tag.funcs
                  \/ \E j \in same : /\ \A k \in same : j <= k
                                     /\ OnItsOwn(c.doc.tags[j])
                                     /\ c.doc.tags[j].type \in c.keys

Sane(c, paths) ==
  /\ c.doc.tags \in Seq(Range(c.doc.tags)) /\ c.doc.shape \in {"map", "list"}
  /\ paths \subseteq DOMAIN c.before
  /\ \A i \in DOMAIN c.doc.tags :
       LET tag == c.doc.tags[i] IN
       /\ tag.path \in paths /\ tag.funcs \in Seq(Range(tag.funcs))
       /\ \A k \in DOMAIN tag.funcs :
            /\ tag.funcs[k].name \in {"random", "derive", "reveal"}
            /\ tag.funcs[k].name = "reveal" => k = 1 /\ tag.funcs[k].path \in paths

LEMMA UpTo ==
  ASSUME NEW n \in Nat, NEW m \in Nat, NEW S, m \in S, \A k \in m .. n - 1 : k \in S => k + 1 \in S
  PROVE  m .. n \subseteq S
<1> DEFINE Out == {k \in m .. n : k \notin S}
<1>1. ASSUME Out # {} PROVE FALSE
  <2>1. Out \subseteq Nat
    OBVIOUS
  <2>2. PICK k \in Out : \A j \in Out : k <= j
    BY <1>1, <2>1, SmallestOf
  <2>3. k \in Nat /\ k # m /\ m <= k /\ k <= n /\ k \notin S
    BY <2>2
  <2>4. k - 1 \in m .. n - 1 /\ k - 1 \notin Out /\ (k - 1) + 1 = k
    BY <2>2, <2>3
  <2>5. k - 1 \in S
    BY <2>4
  <2> QED
    BY <2>3, <2>4, <2>5
<1> QED
  BY <1>1

(* More files never hurt.                                                  *)
LEMMA WorksGrows ==
  ASSUME NEW c, NEW i, NEW S, NEW T, S \subseteq T, Works(c, i, S)
  PROVE  Works(c, i, T)
BY DEF Works, First, Makable

LEMMA GrowsIs ==
  ASSUME NEW c, NEW n \in Nat, NEW made, Grows(c, made, n)
  PROVE  /\ made[0] = Start(c)
         /\ \A k \in 0 .. n - 1 : made[k + 1] = made[k] \cup Adds(c, made[k], k + 1)
<1>1. \A k \in 0 .. n : made[k] = IF k = 0 THEN Start(c) ELSE made[k - 1] \cup Adds(c, made[k - 1], k)
  BY DEF Grows
<1>2. 0 \in 0 .. n
  OBVIOUS
<1>3. ASSUME NEW k \in 0 .. n - 1 PROVE made[k + 1] = made[k] \cup Adds(c, made[k], k + 1)
  <2>1. k + 1 \in 0 .. n /\ k + 1 # 0 /\ (k + 1) - 1 = k
    OBVIOUS
  <2> QED
    BY <1>1, <2>1
<1> QED
  BY <1>1, <1>2, <1>3

LEMMA MadeGrows ==
  ASSUME NEW c, NEW n \in Nat, NEW made, Grows(c, made, n), NEW j \in Nat, NEW k \in Nat, j <= k, k <= n
  PROVE  made[j] \subseteq made[k]
<1> DEFINE S == {m \in Nat : made[j] \subseteq made[m]}
<1>1. j \in S
  OBVIOUS
<1>2. \A m \in 0 .. n - 1 : made[m + 1] = made[m] \cup Adds(c, made[m], m + 1)
  BY GrowsIs
<1>3. ASSUME NEW m \in j .. k - 1, m \in S PROVE m + 1 \in S
  <2>1. m \in 0 .. n - 1
    OBVIOUS
  <2>2. made[m + 1] = made[m] \cup Adds(c, made[m], m + 1)
    BY <1>2, <2>1
  <2> QED
    BY <1>3, <2>2
<1> HIDE DEF S
<1>4. j .. k \subseteq S
  BY <1>1, <1>3, UpTo
<1> QED
  BY <1>4 DEF S

(* Who made a file first.                                                  *)
LEMMA MadeBySomeone ==
  ASSUME NEW c, NEW n \in Nat, NEW made, Grows(c, made, n), NEW k \in 0 .. n, NEW x \in made[k],
         x \notin Start(c)
  PROVE  \E m \in 0 .. k - 1 : \E i \in DOMAIN c.doc.tags :
            c.doc.tags[i].path = x /\ x \notin made[m] /\ Works(c, i, made[m])
<1> DEFINE P(m) == \E i \in DOMAIN c.doc.tags :
                     c.doc.tags[i].path = x /\ x \notin made[m] /\ Works(c, i, made[m])
           S == {m \in Nat : x \in made[m] => \E l \in 0 .. m - 1 : P(l)}
<1>1. 0 \in S
  <2>1. made[0] = Start(c)
    BY GrowsIs
  <2> QED
    BY <2>1
<1>2. ASSUME NEW m \in 0 .. k - 1, m \in S PROVE m + 1 \in S
  <2>1. m \in 0 .. n - 1 /\ m \in Nat
    OBVIOUS
  <2>2. made[m + 1] = made[m] \cup Adds(c, made[m], m + 1)
    BY <2>1, GrowsIs
  <2>3. CASE x \in made[m]
    <3>1. PICK l \in 0 .. m - 1 : P(l)
      BY <1>2, <2>3
    <3>2. l \in 0 .. (m + 1) - 1
      BY <2>1
    <3> HIDE DEF P
    <3> QED
      BY <2>1, <3>1, <3>2
  <2>4. CASE x \in made[m + 1] /\ x \notin made[m]
    <3>1. x \in Adds(c, made[m], m + 1)
      BY <2>2, <2>4
    <3>2. P(m)
      BY <2>4, <3>1 DEF Adds
    <3>3. m \in 0 .. (m + 1) - 1
      BY <2>1
    <3> HIDE DEF P
    <3> QED
      BY <2>1, <3>2, <3>3
  <2> QED
    BY <2>1, <2>3, <2>4
<1> HIDE DEF S
<1>3. 0 .. k \subseteq S
  BY <1>1, <1>2, UpTo
<1>4. k \in S
  BY <1>3
<1> QED
  BY <1>4 DEF S

(* Everything there at the end was there at the start or is made by a      *)
(* value that needs no file of its own.                                    *)
LEMMA MadeIs ==
  ASSUME NEW c, NEW n \in Nat, NEW made, Grows(c, made, n), NEW k \in 0 .. n, NEW x \in made[k]
  PROVE  \/ IsRef(c.before[x])
         \/ \E i \in DOMAIN c.doc.tags :
               /\ c.doc.tags[i].path = x /\ c.before[x] = Missing
               /\ Makable(c, c.doc.tags[i]) /\ c.doc.tags[i].type \in c.keys
               /\ c.doc.tags[i].funcs[1].name # "derive"
               /\ c.doc.tags[i].sub => c.doc.tags[i].funcs = << >>
<1>1. CASE x \in Start(c)
  BY <1>1 DEF Start
<1>2. CASE x \notin Start(c)
  <2>1. PICK m \in 0 .. k - 1 : \E i \in DOMAIN c.doc.tags :
            c.doc.tags[i].path = x /\ x \notin made[m] /\ Works(c, i, made[m])
    BY <1>2, MadeBySomeone
  <2>2. PICK i \in DOMAIN c.doc.tags : c.doc.tags[i].path = x /\ x \notin made[m] /\ Works(c, i, made[m])
    BY <2>1
  <2> QED
    BY <2>2 DEF Works, First
<1> QED
  BY <1>1, <1>2

(* The files that are there when no value that is left can be resolved are *)
(* all there will ever be.                                                 *)
LEMMA NothingLeft ==
  ASSUME NEW c, NEW n \in Nat, NEW made, Grows(c, made, n), NEW S, Start(c) \subseteq S,
         \A i \in DOMAIN c.doc.tags : Works(c, i, S) => c.doc.tags[i].path \in S
  PROVE  \A k \in 0 .. n : made[k] \subseteq S
<1> DEFINE A == {k \in Nat : made[k] \subseteq S}
<1>1. made[0] = Start(c) /\ \A k \in 0 .. n - 1 : made[k + 1] = made[k] \cup Adds(c, made[k], k + 1)
  BY GrowsIs
<1>2. 0 \in A
  BY <1>1
<1>3. ASSUME NEW m \in 0 .. n - 1, m \in A PROVE m + 1 \in A
  <2>1. made[m + 1] = made[m] \cup Adds(c, made[m], m + 1) /\ made[m] \subseteq S
    BY <1>1, <1>3
  <2>2. ASSUME NEW x \in Adds(c, made[m], m + 1) PROVE x \in S
    <3>1. PICK i \in DOMAIN c.doc.tags : x = c.doc.tags[i].path /\ Works(c, i, made[m])
      BY DEF Adds
    <3>2. Works(c, i, S)
      BY <2>1, <3>1, WorksGrows
    <3> QED
      BY <3>1, <3>2
  <2>3. made[m + 1] \subseteq S
    BY <2>1, <2>2
  <2> QED
    BY <2>3
<1> HIDE DEF A
<1>4. 0 .. n \subseteq A
  BY <1>2, <1>3, UpTo
<1> QED
  BY <1>4 DEF A

(* A value that cannot be resolved and is not tried again never can.       *)
LEMMA NeverWorks ==
  ASSUME NEW c, Clear(c), NEW n \in Nat, NEW made, Grows(c, made, n), NEW S, Start(c) \subseteq S, S \subseteq made[n],
         NEW e \in DOMAIN c.doc.tags, ~Works(c, e, S), c.doc.shape = "map", ~Again(c, e),
         DOMAIN c.doc.tags \subseteq Nat,
         \A i \in DOMAIN c.doc.tags : i < e /\ ~Again(c, i) => c.doc.tags[i].path \in S
  PROVE  ~Works(c, e, made[n])
<1> DEFINE tag == c.doc.tags[e]
<1>1. CASE tag.path \in S
  <2>1. tag.path \in made[n]
    BY <1>1
  <2> HIDE DEF tag
  <2> QED
    BY <1>1, <2>1 DEF Works, tag
<1>2. CASE tag.path \notin S /\ tag.path \notin made[n]
  <2>1. CASE c.user.reveal
    BY <1>2, <2>1 DEF Works, Makable
  <2>2. CASE tag.funcs = << >>
    BY <1>2, <2>2 DEF Works, Makable
  <2>3. CASE tag.funcs # << >> /\ tag.funcs[1].name # "reveal"
    BY <1>2, <2>3 DEF Works, First
  <2> QED
    BY <2>1, <2>2, <2>3 DEF Again
<1>3. CASE tag.path \notin S /\ tag.path \in made[n]
  <2>1. n \in 0 .. n
    OBVIOUS
  <2>2. tag.path \notin Start(c)
    BY <1>3
  <2>3. PICK m \in 0 .. n - 1 : \E i \in DOMAIN c.doc.tags :
            c.doc.tags[i].path = tag.path /\ tag.path \notin made[m] /\ Works(c, i, made[m])
    BY <1>3, <2>1, <2>2, MadeBySomeone
  <2>4. PICK i \in DOMAIN c.doc.tags :
            c.doc.tags[i].path = tag.path /\ tag.path \notin made[m] /\ Works(c, i, made[m])
    BY <2>3
  <2>5. /\ c.before[tag.path] = Missing /\ Makable(c, c.doc.tags[i]) /\ c.doc.tags[i].type \in c.keys
        /\ c.doc.tags[i].funcs[1].name # "derive" /\ c.doc.tags[i].funcs # << >>
    BY <2>4 DEF Works, First, Makable
  <2> DEFINE same == {j \in DOMAIN c.doc.tags : c.doc.tags[j].path = tag.path}
  <2>6. i \in same /\ e \in same
    BY <2>4
  <2>7. /\ tag.pin = NoPin
        /\ \/ \A j \in same : c.doc.tags[j].type = tag.type /\ c.doc.tags[j].funcs = tag.funcs
           \/ \E j \in same : /\ \A k \in same : j <= k
                              /\ OnItsOwn(c.doc.tags[j]) /\ c.doc.tags[j].type \in c.keys
    BY <2>5, <2>6 DEF Clear
  <2>8. CASE tag.sub /\ tag.funcs # << >>
    BY <2>8 DEF Works
  <2>9. CASE /\ tag.sub => tag.funcs = << >>
             /\ \A j \in same : c.doc.tags[j].type = tag.type /\ c.doc.tags[j].funcs = tag.funcs
    <3>1. tag.type = c.doc.tags[i].type /\ tag.funcs = c.doc.tags[i].funcs
      BY <2>6, <2>9
    <3>2. Makable(c, tag) /\ tag.type \in c.keys /\ tag.funcs[1].name # "derive" /\ tag.funcs # << >>
      BY <2>5, <2>7, <3>1 DEF Makable
    <3>3. tag.funcs[1].name # "reveal"
      BY <3>2 DEF Again, Makable
    <3>4. First(tag, S)
      BY <3>2, <3>3 DEF First
    <3>5. Works(c, e, S)
      BY <1>3, <2>5, <2>9, <3>2, <3>4 DEF Works
    <3> QED
      BY <3>5
  <2>10. CASE /\ tag.sub => tag.funcs = << >>
              /\ \E j \in same : /\ \A k \in same : j <= k
                                 /\ OnItsOwn(c.doc.tags[j]) /\ c.doc.tags[j].type \in c.keys
    <3>1. PICK j \in same : /\ \A k \in same : j <= k
                            /\ OnItsOwn(c.doc.tags[j]) /\ c.doc.tags[j].type \in c.keys
      BY <2>10
    <3>2. ~Again(c, j) /\ j <= e /\ j \in DOMAIN c.doc.tags /\ c.doc.tags[j].path = tag.path
      BY <2>6, <3>1 DEF Again, OnItsOwn
    <3>3. CASE j = e
      <4>1. Works(c, e, S)
        BY <1>3, <2>5, <3>1, <3>3 DEF Works, First, Makable, OnItsOwn
      <4> QED
        BY <4>1
    <3>4. CASE j # e
      <4>1. j < e
        BY <3>2, <3>4
      <4> QED
        BY <1>3, <3>2, <4>1
    <3> QED
      BY <3>3, <3>4
  <2> QED
    BY <2>7, <2>8, <2>9, <2>10
<1> QED
  BY <1>1, <1>2, <1>3
-----------------------------------------------------------------------------
(* How the values of a target are settled one by one.                      *)

LEMMA SettledCounts ==
  ASSUME NEW c, NEW paths, Sane(c, paths), NEW S, S \subseteq DOMAIN c.doc.tags
  PROVE  /\ DOMAIN c.doc.tags = 1 .. Len(c.doc.tags) /\ Len(c.doc.tags) \in Nat
         /\ DOMAIN c.doc.tags \subseteq Nat
         /\ Cardinality(S) \in Nat /\ Cardinality(S) <= Len(c.doc.tags)
         /\ \A i \in DOMAIN c.doc.tags \ S :
               /\ Cardinality(S \cup {i}) = Cardinality(S) + 1
               /\ Cardinality(S) + 1 <= Len(c.doc.tags)
         /\ \A i \in Nat : S = 1 .. i => Cardinality(S) = i
<1> DEFINE n == Len(c.doc.tags)
<1>1. DOMAIN c.doc.tags = 1 .. n /\ n \in Nat
  BY DEF Sane
<1> HIDE DEF n
<1>2. IsFiniteSet(1 .. n) /\ Cardinality(1 .. n) = n
  BY <1>1, FS_Interval
<1>3. \A T : T \subseteq 1 .. n => IsFiniteSet(T) /\ Cardinality(T) \in Nat /\ Cardinality(T) <= n
  BY <1>1, <1>2, FS_Subset, FS_CardinalityType
<1>4. ASSUME NEW i \in DOMAIN c.doc.tags \ S
      PROVE  Cardinality(S \cup {i}) = Cardinality(S) + 1 /\ Cardinality(S) + 1 <= n
  <2>1. Cardinality(S \cup {i}) = Cardinality(S) + 1
    BY <1>1, <1>3, FS_AddElement
  <2>2. S \cup {i} \subseteq 1 .. n
    BY <1>1
  <2> QED
    BY <1>3, <2>1, <2>2
<1>5. ASSUME NEW i \in Nat, S = 1 .. i PROVE Cardinality(S) = i
  <2>1. Cardinality(1 .. i) = IF 1 > i THEN 0 ELSE i - 1 + 1
    BY FS_Interval
  <2> QED
    BY <1>5, <2>1
<1>6. DOMAIN c.doc.tags \subseteq Nat /\ Cardinality(S) \in Nat /\ Cardinality(S) <= n
  BY <1>1, <1>3
<1> QED
  BY <1>1, <1>4, <1>5, <1>6 DEF n

LEMMA ThereStays ==
  ASSUME NEW c, NEW w, NEW v, w.step # "idle", v.step # "idle", v.settled = w.settled
  PROVE  There(c, v) = There(c, w)
BY DEF There, Done

(* The same values are settled; the thread works on the next one.          *)
LEMMA GoesOnPassed ==
  ASSUME NEW c, NEW made, NEW w, Passed(c, made, w), Active(w), NEW v, Active(v),
         v.i = w.i, v.settled = w.settled, v.moved = w.moved, v.last = w.last
  PROVE  Passed(c, made, v)
<1>1. There(c, v) = There(c, w)
  BY ThereStays DEF Active
<1> QED
  BY <1>1 DEF Passed, Active, Over

LEMMA FoundPassed ==
  ASSUME NEW c, NEW paths, Sane(c, paths), NEW made, Grows(c, made, Len(c.doc.tags)),
         NEW w, Passed(c, made, w), Active(w), w.i \in DOMAIN c.doc.tags \ w.settled,
         Works(c, w.i, There(c, w)),
         NEW v, v.step = "next", v.i = w.i, v.settled = w.settled \cup {w.i}, v.moved,
         v.last = w.last
  PROVE  Passed(c, made, v)
<1> DEFINE n == Len(c.doc.tags)
           i == w.i
           k == Cardinality(w.settled)
           S == There(c, w)
           T == There(c, v)
<1>1. /\ w.step # "idle" /\ w.step # "next" /\ w.step # "ok" /\ w.step # "failed"
      /\ w.settled \subseteq DOMAIN c.doc.tags /\ S \subseteq made[k]
  BY DEF Passed, Active
<1>2. /\ DOMAIN c.doc.tags = 1 .. n /\ n \in Nat /\ k \in Nat /\ k + 1 <= n
      /\ Cardinality(v.settled) = k + 1 /\ i \in Nat
      /\ \A l \in Nat : w.settled = 1 .. l => k = l
  BY <1>1, SettledCounts
<1>3. T = S \cup {c.doc.tags[i].path}
  BY <1>1 DEF There, Done
<1>4. Grows(c, made, n)
  OBVIOUS
<1> HIDE DEF n, k, S, T, i
<1>5. Works(c, i, made[k])
  BY <1>1, WorksGrows DEF S, i
<1>6. n \in Nat
  BY <1>2
<1>7. \A l \in 0 .. n - 1 : made[l + 1] = made[l] \cup Adds(c, made[l], l + 1)
  BY <1>4, <1>6, GrowsIs
<1>8. k \in Nat /\ k <= n /\ n <= n
  BY <1>2
<1>9. made[k] \subseteq made[n]
  BY <1>4, <1>6, <1>8, MadeGrows
<1>10. made[k + 1] = made[k] \cup Adds(c, made[k], k + 1)
  <2>1. k \in 0 .. n - 1
    BY <1>2
  <2> QED
    BY <1>7, <2>1
<1>11. c.doc.shape = "list" => i = k + 1
  <2>1. c.doc.shape = "list" => w.settled = 1 .. (i - 1) /\ i - 1 \in Nat
    BY <1>1, <1>2 DEF Passed, i
  <2> QED
    BY <1>2, <2>1
<1>12. c.doc.tags[i].path \in Adds(c, made[k], k + 1)
  BY <1>5, <1>11 DEF Adds, i
<1>13. T \subseteq made[Cardinality(v.settled)]
  BY <1>1, <1>2, <1>3, <1>10, <1>12
<1>14. Works(c, i, made[Level(c, i)])
  <2>1. CASE c.doc.shape = "list"
    <3>1. Level(c, i) = k
      BY <1>2, <1>11, <2>1 DEF Level
    <3> QED
      BY <1>5, <3>1
  <2>2. CASE c.doc.shape # "list"
    <3> QED
      BY <1>5, <1>9, <2>2, WorksGrows DEF Level, n
  <2> QED
    BY <2>1, <2>2
<1>15. ASSUME NEW j \in v.settled PROVE Works(c, j, made[Level(c, j)])
  BY <1>1, <1>14 DEF Passed, i
<1>16. ASSUME c.doc.shape = "map", NEW j \in DOMAIN c.doc.tags \ v.settled
       PROVE  /\ Works(c, j, T) => ~v.last /\ (Over(v, j) => v.moved)
              /\ Over(v, j) => Again(c, j)
  <2>1. ~w.last
    BY <1>1, <1>16 DEF Passed, S
  <2>2. Over(v, j) => Over(w, j)
    BY <1>1, <1>2, <1>16 DEF Over, i
  <2> QED
    BY <1>1, <1>16, <2>1, <2>2 DEF Passed
<1>17. ASSUME c.doc.shape = "list" PROVE v.settled = 1 .. v.i
  <2>1. w.settled = 1 .. (i - 1)
    BY <1>1, <1>17 DEF Passed, i
  <2>2. i \in Nat /\ i >= 1
    BY <1>2, <1>11, <1>17
  <2> QED
    BY <2>1, <2>2 DEF i
<1>18. v.settled \subseteq DOMAIN c.doc.tags /\ v.i \in Nat
  BY <1>1, <1>2 DEF i
<1> QED
  BY <1>13, <1>15, <1>16, <1>17, <1>18 DEF Passed, T

LEMMA FailedPassed ==
  ASSUME NEW c, NEW paths, Sane(c, paths), Clear(c), NEW made, Grows(c, made, Len(c.doc.tags)),
         NEW w, Passed(c, made, w), Active(w), w.i \in DOMAIN c.doc.tags \ w.settled,
         ~Works(c, w.i, There(c, w)),
         NEW v, v.step = IF Again(c, w.i) /\ ~w.last THEN "next" ELSE "failed",
         v.i = w.i, v.settled = w.settled, v.moved = w.moved, v.last = w.last
  PROVE  Passed(c, made, v)
<1> DEFINE n == Len(c.doc.tags)
           i == w.i
           k == Cardinality(w.settled)
           S == There(c, w)
<1>1. /\ w.step # "idle" /\ w.step # "next" /\ w.step # "ok" /\ w.step # "failed"
      /\ w.settled \subseteq DOMAIN c.doc.tags /\ S \subseteq made[k]
      /\ c.doc.shape \in {"map", "list"}
  BY DEF Passed, Active, Sane
<1>2. /\ DOMAIN c.doc.tags = 1 .. n /\ n \in Nat /\ k \in Nat /\ k <= n /\ i \in Nat /\ i <= n
      /\ \A l \in Nat : w.settled = 1 .. l => k = l
  BY <1>1, SettledCounts
<1>3. There(c, v) = S
  BY <1>1, ThereStays
<1>4. Start(c) \subseteq S /\ \A j \in w.settled : c.doc.tags[j].path \in S
  BY <1>1 DEF There, Done
<1>5. Grows(c, made, n)
  OBVIOUS
<1> HIDE DEF n, k, S, i
<1>6. made[k] \subseteq made[n]
  BY <1>5, <1>2, MadeGrows
<1>7. S \subseteq made[n]
  BY <1>1, <1>6
<1>8. CASE v.step = "next"
  <2>1. Again(c, i) /\ ~w.last
    BY <1>8 DEF i
  <2>2. c.doc.shape = "map"
    BY <2>1 DEF Again
  <2>3. ASSUME NEW j \in DOMAIN c.doc.tags \ v.settled
        PROVE  /\ Works(c, j, S) => ~v.last /\ (Over(v, j) => v.moved)
               /\ Over(v, j) => Again(c, j)
    <3>1. CASE j = i
      BY <2>1, <3>1 DEF S, i
    <3>2. CASE j # i
      <4>1. Over(v, j) => Over(w, j)
        BY <1>1, <1>2, <1>8, <3>2 DEF Over, i
      <4> QED
        BY <1>1, <2>2, <4>1 DEF Passed, S
    <3> QED
      BY <3>1, <3>2
  <2> QED
    BY <1>1, <1>2, <1>3, <1>8, <2>2, <2>3 DEF Passed, S, i, k
<1>9. CASE v.step = "failed"
  <2>1. ~Again(c, i) \/ w.last
    BY <1>9 DEF i
  <2>2. ~Works(c, i, made[Level(c, i)])
    <3>1. CASE c.doc.shape = "list"
      <4>1. w.settled = 1 .. (i - 1)
        BY <1>1, <3>1 DEF Passed, i
      <4>2. \A l \in 0 .. i - 1 : made[l] \subseteq S
        <5> DEFINE A == {l \in Nat : made[l] \subseteq S}
        <5>1. /\ made[0] = Start(c)
              /\ \A l \in 0 .. n - 1 : made[l + 1] = made[l] \cup Adds(c, made[l], l + 1)
          BY <1>5, <1>2, GrowsIs
        <5>2. 0 \in A
          BY <1>4, <5>1
        <5>3. ASSUME NEW l \in 0 .. (i - 1) - 1, l \in A PROVE l + 1 \in A
          <6>1. l \in 0 .. n - 1 /\ l + 1 \in 1 .. i - 1
            BY <1>2
          <6>2. Adds(c, made[l], l + 1) \subseteq {c.doc.tags[l + 1].path}
            BY <3>1 DEF Adds
          <6>3. c.doc.tags[l + 1].path \in S
            BY <1>4, <4>1, <6>1
          <6> QED
            BY <5>1, <5>3, <6>1, <6>2, <6>3
        <5>4. i - 1 \in Nat
          BY <1>2 DEF i
        <5> HIDE DEF A
        <5>5. 0 .. i - 1 \subseteq A
          BY <5>2, <5>3, <5>4, UpTo
        <5> QED
          BY <5>5 DEF A
      <4>3. i - 1 \in 0 .. i - 1 /\ Level(c, i) = i - 1
        BY <1>2, <3>1 DEF i, Level
      <4>4. made[Level(c, i)] \subseteq S
        BY <4>2, <4>3
      <4> QED
        BY <4>4, WorksGrows DEF i, S
    <3>2. CASE c.doc.shape = "map" /\ w.last
      <4>1. ASSUME NEW j \in DOMAIN c.doc.tags, Works(c, j, S) PROVE c.doc.tags[j].path \in S
        BY <1>1, <1>4, <3>2, <4>1 DEF Passed, S
      <4>2. \A l \in 0 .. n : made[l] \subseteq S
        BY <1>5, <1>2, <1>4, <4>1, NothingLeft
      <4>3. n \in 0 .. n /\ Level(c, i) = n
        BY <1>2, <3>2 DEF Level, n
      <4>4. made[Level(c, i)] \subseteq S
        BY <4>2, <4>3
      <4> QED
        BY <4>4, WorksGrows DEF i, S
    <3>3. CASE c.doc.shape = "map" /\ ~Again(c, i)
      <4>1. ASSUME NEW j \in DOMAIN c.doc.tags, j < i, ~Again(c, j) PROVE c.doc.tags[j].path \in S
        <5>1. Over(w, j)
          BY <1>1, <4>1 DEF Over, i
        <5>2. j \in w.settled
          BY <1>1, <3>3, <4>1, <5>1 DEF Passed
        <5> QED
          BY <1>4, <5>2
      <4>2. ~Works(c, i, made[n])
        BY <1>2, <1>4, <1>7, <3>3, <4>1, NeverWorks DEF n, i, S
      <4> QED
        BY <3>3, <4>2 DEF Level, n
    <3> QED
      BY <1>1, <2>1, <3>1, <3>2, <3>3
  <2>3. ASSUME c.doc.shape = "map", NEW j \in DOMAIN c.doc.tags \ v.settled
        PROVE  /\ Works(c, j, S) => ~v.last /\ (Over(v, j) => v.moved)
               /\ Over(v, j) => Again(c, j)
    <3>1. Over(v, j) => Over(w, j)
      BY <1>1, <1>9 DEF Over
    <3> QED
      BY <1>1, <2>3, <3>1 DEF Passed, S
  <2> QED
    BY <1>1, <1>2, <1>3, <1>9, <2>2, <2>3 DEF Passed, S, i, k
<1> QED
  BY <1>8, <1>9

LEMMA FreshPassed ==
  ASSUME NEW c, NEW paths, Sane(c, paths), NEW made, Grows(c, made, Len(c.doc.tags)),
         NEW v, v.step = "next", v.i = 0, v.settled = {}, v.last = FALSE
  PROVE  Passed(c, made, v)
<1>1. DOMAIN c.doc.tags = 1 .. Len(c.doc.tags) /\ Len(c.doc.tags) \in Nat
  BY DEF Sane
<1>2. There(c, v) = Start(c)
  BY DEF There, Done
<1>3. made[0] = Start(c)
  BY <1>1, GrowsIs
<1>4. Cardinality({}) = 0
  BY FS_EmptySet
<1>5. There(c, v) \subseteq made[Cardinality(v.settled)]
  BY <1>2, <1>3, <1>4
<1>6. \A j \in DOMAIN c.doc.tags : ~Over(v, j)
  BY <1>1 DEF Over
<1>7. v.settled = 1 .. v.i
  OBVIOUS
<1> QED
  BY <1>5, <1>6, <1>7 DEF Passed

LEMMA OkPassed ==
  ASSUME NEW c, NEW made, NEW w, Passed(c, made, w), w.step = "next", w.settled = DOMAIN c.doc.tags,
         NEW v, v.step = "ok", v.i = w.i, v.settled = w.settled
  PROVE  Passed(c, made, v)
<1>1. There(c, v) = There(c, w)
  BY ThereStays
<1> QED
  BY <1>1 DEF Passed

LEMMA PassPassed ==
  ASSUME NEW c, NEW paths, Sane(c, paths), NEW made, NEW w, Passed(c, made, w), w.step = "next",
         w.settled # DOMAIN c.doc.tags, \A i \in DOMAIN c.doc.tags : i > w.i => i \in w.settled,
         NEW v, v.step = "next", v.i = 0, v.settled = w.settled, v.moved = FALSE, v.last = ~w.moved
  PROVE  Passed(c, made, v)
<1>1. There(c, v) = There(c, w)
  BY ThereStays
<1>2. DOMAIN c.doc.tags = 1 .. Len(c.doc.tags) /\ Len(c.doc.tags) \in Nat /\ w.i \in Nat
      /\ w.settled \subseteq DOMAIN c.doc.tags
  BY DEF Sane, Passed
<1>3. c.doc.shape = "map"
  <2>1. ASSUME c.doc.shape = "list" PROVE FALSE
    <3>1. w.settled = 1 .. w.i
      BY <2>1 DEF Passed
    <3> QED
      BY <1>2, <3>1
  <2> QED
    BY <2>1 DEF Sane
<1>4. ASSUME NEW j \in DOMAIN c.doc.tags \ w.settled
      PROVE  (Works(c, j, There(c, w)) => ~v.last) /\ ~Over(v, j)
  <2>1. Over(w, j)
    BY <1>2 DEF Over
  <2>2. Works(c, j, There(c, w)) => w.moved
    BY <1>3, <2>1 DEF Passed
  <2>3. ~Over(v, j)
    BY <1>2 DEF Over
  <2> QED
    BY <2>2, <2>3
<1> QED
  BY <1>1, <1>2, <1>3, <1>4 DEF Passed

LEMMA NextPassed ==
  ASSUME NEW c, NEW paths, Sane(c, paths), NEW made, NEW w, Passed(c, made, w), w.step = "next",
         NEW v, v.i \in DOMAIN c.doc.tags \ w.settled, v.i > w.i,
         \A j \in DOMAIN c.doc.tags \ w.settled : j > w.i => v.i <= j,
         Active(v), v.settled = w.settled, v.moved = w.moved, v.last = w.last
  PROVE  Passed(c, made, v)
<1>1. There(c, v) = There(c, w)
  BY ThereStays DEF Active
<1>2. DOMAIN c.doc.tags = 1 .. Len(c.doc.tags) /\ Len(c.doc.tags) \in Nat /\ w.i \in Nat
      /\ w.settled \subseteq DOMAIN c.doc.tags
  BY DEF Sane, Passed
<1>3. \A j \in DOMAIN c.doc.tags \ w.settled : Over(v, j) => Over(w, j)
  BY <1>2 DEF Over, Active
<1>4. ASSUME c.doc.shape = "list" PROVE v.settled = 1 .. (v.i - 1)
  <2>1. w.settled = 1 .. w.i
    BY <1>4 DEF Passed
  <2>2. w.i + 1 \in DOMAIN c.doc.tags \ w.settled
    BY <1>2, <2>1
  <2>3. v.i = w.i + 1
    BY <1>2, <2>2
  <2> QED
    BY <1>2, <2>1, <2>3
<1> QED
  BY <1>1, <1>2, <1>3, <1>4 DEF Passed, Active
-----------------------------------------------------------------------------
(* A value is settled or fails.                                            *)

LEMMA FailedTries ==
  ASSUME NEW c, NEW paths, Sane(c, paths), Clear(c), NEW d, NEW w, Tries(c, paths, d, w),
         Active(w), ~Filling(w), ~Works(c, w.i, There(c, w)),
         NEW v, v.step = IF Again(c, w.i) /\ ~w.last THEN "next" ELSE "failed",
         v.i = w.i, v.settled = w.settled, v.moved = w.moved, v.last = w.last
  PROVE  Tries(c, paths, d, v)
<1>1. w.i \in DOMAIN c.doc.tags \ w.settled
  BY DEF Tries, Tried
<1>2. There(c, v) = There(c, w)
  BY ThereStays DEF Active
<1>3. Held(c, paths, d, v)
  BY <1>2 DEF Tries, Held
<1>4. Tried(c, d, v)
  BY DEF Tried, Active
<1>5. ASSUME NEW made, Grows(c, made, Len(c.doc.tags)) PROVE Passed(c, made, v)
  <2>1. Passed(c, made, w)
    BY <1>5 DEF Tries
  <2> QED
    BY <1>1, <1>5, <2>1, FailedPassed
<1> QED
  BY <1>3, <1>4, <1>5 DEF Tries

LEMMA FoundTries ==
  ASSUME NEW c, NEW paths, Sane(c, paths), NEW d, NEW w, Tries(c, paths, d, w),
         Active(w), Works(c, w.i, There(c, w)),
         NEW v, v.step = "next", v.i = w.i, v.settled = w.settled \cup {w.i}, v.moved,
         v.last = w.last
  PROVE  Tries(c, paths, d, v)
<1>1. w.i \in DOMAIN c.doc.tags \ w.settled
  BY DEF Tries, Tried
<1>2. There(c, v) = There(c, w) \cup {c.doc.tags[w.i].path}
  BY DEF There, Done, Active
<1>3. Held(c, paths, d, v)
  BY <1>2 DEF Tries, Held
<1>4. Tried(c, d, v)
  BY DEF Tried, Active
<1>5. ASSUME NEW made, Grows(c, made, Len(c.doc.tags)) PROVE Passed(c, made, v)
  <2>1. Passed(c, made, w)
    BY <1>5 DEF Tries
  <2> QED
    BY <1>1, <1>5, <2>1, FoundPassed
<1> QED
  BY <1>3, <1>4, <1>5 DEF Tries

(* It goes on with the same value and writes nothing.                      *)
LEMMA GoesOnTries ==
  ASSUME NEW c, NEW paths, NEW d, NEW w, Tries(c, paths, d, w), Active(w),
         NEW v, Active(v), v.i = w.i, v.settled = w.settled, v.moved = w.moved, v.last = w.last,
         Filling(w) => Filling(v), Tried(c, d, v)
  PROVE  Tries(c, paths, d, v)
<1>1. There(c, v) = There(c, w)
  BY ThereStays DEF Active
<1>2. Held(c, paths, d, v)
  BY <1>1 DEF Tries, Held
<1>3. ASSUME NEW made, Grows(c, made, Len(c.doc.tags)) PROVE Passed(c, made, v)
  <2>1. Passed(c, made, w)
    BY <1>3 DEF Tries
  <2> QED
    BY <2>1, GoesOnPassed
<1> QED
  BY <1>2, <1>3 DEF Tries

(* What is on disk is there, and nothing else.                             *)
LEMMA HeldIs ==
  ASSUME NEW c, NEW paths, Sane(c, paths), NEW d, NEW w, Held(c, paths, d, w), w.step # "idle",
         Matched(c.doc.tags, d, w), ~Filling(w), NEW x \in paths
  PROVE  /\ IsRef(d[x]) <=> x \in There(c, w)
         /\ d[x] = Missing => c.before[x] = Missing /\ x \notin There(c, w)
         /\ d[x] = Torn => c.before[x] = Torn
<1>1. \A i \in Done(w) : i \in DOMAIN c.doc.tags /\ IsRef(d[c.doc.tags[i].path])
  BY DEF Matched, Done
<1>2. x \in There(c, w) => IsRef(c.before[x]) \/ IsRef(d[x])
  BY <1>1 DEF There, Start
<1>3. IsRef(c.before[x]) => x \in There(c, w)
  BY DEF There, Start, Sane
<1>4. CASE c.before[x] # Missing
  <2>1. d[x] = c.before[x]
    BY <1>4 DEF Held
  <2> QED
    BY <1>2, <1>3, <1>4, <2>1 DEF IsRef
<1>5. CASE c.before[x] = Missing
  <2>1. d[x] = Missing \/ x \in There(c, w)
    BY <1>5 DEF Held
  <2>2. Missing # Torn
    BY DEF Missing, Torn
  <2> QED
    BY <1>2, <1>5, <2>1, <2>2 DEF IsRef
<1> QED
  BY <1>4, <1>5

(* The steps of a compile in the terms above.                              *)
Viewed(p, t, c) == c.doc = project.docs[t] /\ c.user = Command(p) /\ Compiles(p)

LEMMA FailedIsTried ==
  ASSUME NEW p, NEW t, NEW c, Viewed(p, t, c), NEW w
  PROVE  LET v == Failed(p, t, w) IN
         /\ v.step = IF Again(c, w.i) /\ ~w.last THEN "next" ELSE "failed"
         /\ v.i = w.i /\ v.settled = w.settled /\ v.moved = w.moved /\ v.last = w.last
<1>1. Retried(p, t, w) <=> Again(c, w.i) /\ ~w.last
  BY DEF Retried, Again, Current, Entries, Viewed
<1> QED
  BY <1>1 DEF Failed, Base

LEMMA FoundIsTried ==
  ASSUME NEW p, NEW t, NEW w, NEW c, Current(t, w).pin \in {NoPin, Data(c)},
         NEW v, v = Found(p, t, w, c)
  PROVE  /\ v.step = "next" /\ v.i = w.i /\ v.settled = w.settled \cup {w.i}
         /\ v.moved /\ v.last = w.last
BY DEF Found, Base

LEMMA AnswerTries ==
  ASSUME NEW p, NEW t, NEW c, Viewed(p, t, c), NEW paths, Sane(c, paths), Clear(c), NEW d, NEW w,
         Kept \subseteq DOMAIN w, Asking \subseteq DOMAIN w, w.step \in {"get", "insert"},
         Faithful(c.doc.tags, paths, d, w), Tries(c, paths, d, w),
         NEW made, Grows(c, made, Len(c.doc.tags)),
         \A x \in paths : IsRef(d[x]) => d[x].plain # NoSecret
  PROVE  Tries(c, paths, d, Answer(p, t, w, d[w.path]))
<1> DEFINE tag == c.doc.tags[w.i]
           a == d[w.path]
           S == There(c, w)
<1> SUFFICES Tries(c, paths, d, Answer(p, t, w, a))
  OBVIOUS
<1>1. /\ Active(w) /\ w.step # "idle" /\ Current(t, w) = tag
      /\ Creates(p, tag) <=> Makable(c, tag)
  BY DEF Active, Current, Entries, Viewed, Creates, Makable
<1>2. /\ w.i \in DOMAIN c.doc.tags \ w.settled
      /\ tag.sub => tag.funcs = << >>
      /\ w.why \in {"lookup", "recheck", "readback", "reveal"}
      /\ w.why \in {"recheck", "readback", "reveal"} =>
           tag.path \notin S /\ c.before[tag.path] = Missing /\ Makable(c, tag)
      /\ w.why = "recheck" => w.at = 1 /\ w.secret = NoSecret
      /\ w.why = "reveal" => w.at = 1 /\ tag.funcs[1].name = "reveal" /\ w.path = tag.funcs[1].path
      /\ w.why = "readback" => Works(c, w.i, S) /\ IsRef(d[tag.path])
  BY <1>1 DEF Tries, Tried, Creating, Written
<1>3. /\ Matched(c.doc.tags, d, w) /\ w.path \in paths /\ tag.path \in paths
      /\ w.why # "reveal" => w.path = tag.path
      /\ w.why = "recheck" => d[tag.path] = Missing
  BY <1>1, <1>2 DEF Faithful, Looks, Makings, Creating, Sane
<1>4. ASSUME w.why # "readback"
      PROVE  /\ ~Filling(w)
             /\ IsRef(a) <=> w.path \in S
             /\ a = Missing => c.before[w.path] = Missing /\ w.path \notin S
             /\ a = Torn => c.before[w.path] = Torn
  <2>1. ~Filling(w)
    BY <1>4 DEF Filling, Written
  <2> QED
    BY <1>1, <1>3, <2>1, HeldIs DEF Tries
<1> HIDE DEF tag, a, S
<1>5. ASSUME w.why # "readback", ~Works(c, w.i, S) PROVE Tries(c, paths, d, Failed(p, t, w))
  BY <1>1, <1>4, <1>5, FailedIsTried, FailedTries DEF S
<1>6. ASSUME tag.pin \in {NoPin, Data(a)}, Works(c, w.i, S) PROVE Tries(c, paths, d, Found(p, t, w, a))
  <2> DEFINE v == Found(p, t, w, a)
  <2>1. Current(t, w).pin \in {NoPin, Data(a)}
    BY <1>1, <1>6
  <2>2. /\ v.step = "next" /\ v.i = w.i /\ v.settled = w.settled \cup {w.i}
        /\ v.moved /\ v.last = w.last
    <3>1. v = Found(p, t, w, a)
      OBVIOUS
    <3> HIDE DEF v
    <3> QED
      BY <2>1, <3>1, FoundIsTried
  <2> HIDE DEF v
  <2>3. Tries(c, paths, d, v)
    BY <1>1, <1>6, <2>2, FoundTries DEF S
  <2> QED
    BY <2>3 DEF v
<1>7. ASSUME NEW v, v.step \in {"lock", "evaluate"}, v.i = w.i, v.settled = w.settled,
             v.moved = w.moved, v.last = w.last, w.why # "readback",
             tag.path \notin S, c.before[tag.path] = Missing, Makable(c, tag),
             v.step = "evaluate" => \/ v.at = 1 /\ v.secret = NoSecret
                                    \/ v.at > 1 /\ v.secret # NoSecret /\ First(tag, S)
      PROVE  Tries(c, paths, d, v)
  <2>1. There(c, v) = S /\ Active(v)
    BY <1>1, <1>7, ThereStays DEF Active, S
  <2>2. Tried(c, d, v)
    BY <1>2, <1>7, <2>1 DEF Tried, tag, Creating, Making, Written, Filling
  <2> QED
    BY <1>1, <1>4, <1>7, <2>1, <2>2, GoesOnTries
<1>8. CASE w.why = "lookup" /\ IsRef(a)
  <2>1. Answer(p, t, w, a) = Found(p, t, w, a)
    BY <1>8 DEF Answer, IsRef
  <2>2. tag.path \in S /\ a = d[tag.path] /\ w.path = tag.path
    BY <1>3, <1>4, <1>8 DEF a
  <2>3. c.before[tag.path] # Missing => a = c.before[tag.path]
    BY <1>3, <2>2 DEF Tries, Held
  <2>4. CASE tag.pin \in {NoPin, Data(a)}
    <3>1. ASSUME tag.pin # NoPin PROVE IsRef(c.before[tag.path])
      <4>1. S \subseteq made[Cardinality(w.settled)] /\ w.settled \subseteq DOMAIN c.doc.tags
        BY <1>1 DEF Tries, Passed, S
      <4>2. Len(c.doc.tags) \in Nat /\ Cardinality(w.settled) \in 0 .. Len(c.doc.tags)
        BY <4>1, SettledCounts
      <4>3. \/ IsRef(c.before[tag.path])
            \/ \E i \in DOMAIN c.doc.tags :
                 /\ c.doc.tags[i].path = tag.path /\ c.before[tag.path] = Missing
                 /\ Makable(c, c.doc.tags[i])
        <5> DEFINE k == Cardinality(w.settled)
                   n == Len(c.doc.tags)
                   x == tag.path
        <5>1. n \in Nat /\ k \in 0 .. n /\ x \in made[k] /\ Grows(c, made, n)
          BY <2>2, <4>1, <4>2
        <5> HIDE DEF k, n, x
        <5>2. \/ IsRef(c.before[x])
              \/ \E i \in DOMAIN c.doc.tags :
                   /\ c.doc.tags[i].path = x /\ c.before[x] = Missing
                   /\ Makable(c, c.doc.tags[i])
          BY <5>1, MadeIs
        <5> QED
          BY <5>2 DEF x
      <4>4. ASSUME NEW i \in DOMAIN c.doc.tags, c.doc.tags[i].path = tag.path,
                   c.before[tag.path] = Missing, Makable(c, c.doc.tags[i])
            PROVE  FALSE
        BY <1>2, <3>1, <4>4 DEF Clear, tag, Makable
      <4> QED
        BY <4>3, <4>4
    <3>2. Works(c, w.i, S)
      <4>1. tag.pin # NoPin => a = c.before[tag.path]
        BY <2>3, <3>1 DEF IsRef
      <4> QED
        BY <1>2, <2>2, <2>4, <3>1, <4>1 DEF Works, tag
    <3> QED
      BY <1>6, <2>1, <2>4, <3>2
  <2>5. CASE tag.pin \notin {NoPin, Data(a)}
    <3>1. Answer(p, t, w, a) = Failed(p, t, w)
      BY <1>1, <2>1, <2>5 DEF Found
    <3>2. ~Works(c, w.i, S)
      BY <2>2, <2>3, <2>5 DEF Works, tag, IsRef
    <3> QED
      BY <1>5, <1>8, <3>1, <3>2
  <2> QED
    BY <2>4, <2>5
<1>9. CASE w.why = "lookup" /\ ~IsRef(a)
  <2>1. w.path = tag.path /\ tag.path \notin S /\ a \in {Missing, Torn}
    BY <1>3, <1>4, <1>9 DEF IsRef
  <2>2. CASE a = Missing /\ Creates(p, tag)
    <3> DEFINE v == [w EXCEPT !.step = "lock"]
    <3>1. Answer(p, t, w, a) = v
      BY <1>1, <1>9, <2>2 DEF Answer, IsRef
    <3>2. v.step = "lock" /\ v.i = w.i /\ v.settled = w.settled /\ v.moved = w.moved /\ v.last = w.last
      BY DEF Kept
    <3>3. c.before[tag.path] = Missing
      BY <1>4, <1>9, <2>1, <2>2
    <3> HIDE DEF v
    <3> QED
      BY <1>1, <1>7, <1>9, <2>1, <2>2, <3>1, <3>2, <3>3
  <2>3. CASE ~(a = Missing /\ Creates(p, tag))
    <3>1. Answer(p, t, w, a) = Failed(p, t, w)
      BY <1>1, <1>9, <2>3 DEF Answer, IsRef
    <3>2. ~Works(c, w.i, S)
      <4>1. CASE a = Missing
        BY <1>1, <2>1, <2>3, <4>1 DEF Works, tag
      <4>2. CASE a = Torn
        <5>1. c.before[tag.path] # Missing
          BY <1>4, <1>9, <2>1, <4>2 DEF Missing, Torn
        <5> QED
          BY <2>1, <5>1 DEF Works, tag
      <4> QED
        BY <2>1, <4>1, <4>2
    <3> QED
      BY <1>5, <1>9, <3>1, <3>2
  <2> QED
    BY <2>2, <2>3
<1>10. CASE w.why = "recheck"
  <2>1. a = Missing
    BY <1>3, <1>10 DEF a
  <2> DEFINE v == [w EXCEPT !.step = "evaluate"]
  <2>2. Answer(p, t, w, a) = v
    BY <1>10, <2>1 DEF Answer, IsRef
  <2>3. /\ v.step = "evaluate" /\ v.i = w.i /\ v.settled = w.settled /\ v.moved = w.moved
        /\ v.last = w.last /\ v.at = w.at /\ v.secret = w.secret
    BY DEF Kept, Asking
  <2> HIDE DEF v
  <2> QED
    BY <1>2, <1>7, <1>10, <2>2, <2>3
<1>11. CASE w.why = "readback"
  <2>1. IsRef(a) /\ tag.pin = NoPin /\ Works(c, w.i, S)
    BY <1>2, <1>3, <1>11 DEF a, Makable
  <2>2. Answer(p, t, w, a) = Found(p, t, w, a)
    BY <1>11, <2>1 DEF Answer, IsRef
  <2> QED
    BY <1>6, <2>1, <2>2
<1>12. CASE w.why = "reveal"
  <2>1. tag.type # "vaultkv"
    BY <1>2, <1>12 DEF Clear, tag, Makable
  <2>2. Secret(tag.type, a) = a.plain
    BY <2>1 DEF Secret
  <2>3. CASE IsRef(a)
    <3> DEFINE v == [w EXCEPT !.step = "evaluate", !.at = @ + 1, !.secret = Secret(tag.type, a)]
    <3>1. a.plain # NoSecret
      BY <1>3, <2>3 DEF a
    <3>2. Answer(p, t, w, a) = v
      BY <1>1, <1>12, <2>2, <2>3, <3>1 DEF Answer
    <3>3. /\ v.step = "evaluate" /\ v.i = w.i /\ v.settled = w.settled /\ v.moved = w.moved
          /\ v.last = w.last /\ v.at = w.at + 1 /\ v.secret = a.plain
      BY <2>2 DEF Kept, Asking
    <3> HIDE DEF v
    <3>4. First(tag, S)
      BY <1>2, <1>4, <1>12, <2>3 DEF First
    <3>5. v.at > 1
      BY <1>2, <1>12, <3>3
    <3> QED
      BY <1>2, <1>7, <1>12, <3>1, <3>2, <3>3, <3>4, <3>5
  <2>4. CASE ~IsRef(a)
    <3>1. Answer(p, t, w, a) = Failed(p, t, w)
      BY <1>12, <2>4 DEF Answer
    <3>2. ~Works(c, w.i, S)
      BY <1>2, <1>4, <1>12, <2>4 DEF Works, First, tag
    <3> QED
      BY <1>5, <1>12, <3>1, <3>2
  <2> QED
    BY <2>3, <2>4
<1> QED
  BY <1>2, <1>8, <1>9, <1>10, <1>11, <1>12

(* Other files change.                                                     *)
LEMMA TriesStays ==
  ASSUME NEW c, NEW paths, Sane(c, paths), NEW d, NEW e, NEW w, Tries(c, paths, d, w),
         \A x \in paths : e[x] = d[x]
  PROVE  Tries(c, paths, e, w)
<1>1. Held(c, paths, e, w)
  BY DEF Tries, Held
<1>2. Active(w) => c.doc.tags[w.i].path \in paths
  BY DEF Tries, Tried, Sane
<1>3. Written(w) => Active(w)
  BY DEF Written, Active
<1>4. Tried(c, e, w)
  BY <1>2, <1>3 DEF Tries, Tried
<1> QED
  BY <1>1, <1>4 DEF Tries

LEMMA FreshTries ==
  ASSUME NEW c, NEW paths, Sane(c, paths), NEW d, NEW w, Tries(c, paths, d, w), w.step = "idle"
  PROVE  Tries(c, paths, d, Fresh)
<1> DEFINE v == Fresh
<1>1. v.step = "next" /\ v.i = 0 /\ v.settled = {} /\ v.last = FALSE
  BY DEF Fresh
<1> HIDE DEF v
<1>2. There(c, v) = There(c, w)
  BY <1>1 DEF There, Done
<1>3. ~Filling(w)
  BY DEF Filling, Written
<1>4. Held(c, paths, d, v)
  BY <1>2, <1>3 DEF Tries, Held
<1>5. Tried(c, d, v)
  BY <1>1 DEF Tried, Active
<1>6. ASSUME NEW made, Grows(c, made, Len(c.doc.tags)) PROVE Passed(c, made, v)
  BY <1>1, <1>6, FreshPassed
<1>7. Tries(c, paths, d, v)
  BY <1>4, <1>5, <1>6 DEF Tries
<1> QED
  BY <1>7 DEF v

(* Between two values.                                                     *)
LEMMA OkTries ==
  ASSUME NEW c, NEW paths, NEW d, NEW w, Tries(c, paths, d, w), w.step = "next",
         w.settled = DOMAIN c.doc.tags, NEW v, v.step = "ok", v.settled = w.settled, v.i = w.i
  PROVE  Tries(c, paths, d, v)
<1>1. There(c, v) = There(c, w)
  BY ThereStays
<1>2. ~Filling(w)
  BY DEF Filling, Written
<1>3. Held(c, paths, d, v)
  BY <1>1, <1>2 DEF Tries, Held
<1>4. Tried(c, d, v)
  BY DEF Tried, Active
<1>5. ASSUME NEW made, Grows(c, made, Len(c.doc.tags)) PROVE Passed(c, made, v)
  <2>1. Passed(c, made, w)
    BY <1>5 DEF Tries
  <2> QED
    BY <2>1, OkPassed
<1> QED
  BY <1>3, <1>4, <1>5 DEF Tries

LEMMA PassTries ==
  ASSUME NEW c, NEW paths, Sane(c, paths), NEW d, NEW w, Tries(c, paths, d, w), w.step = "next",
         w.settled # DOMAIN c.doc.tags, \A i \in DOMAIN c.doc.tags : i > w.i => i \in w.settled,
         NEW v, v = [w EXCEPT !.i = 0, !.moved = FALSE, !.last = ~w.moved], Kept \subseteq DOMAIN w
  PROVE  Tries(c, paths, d, v)
<1>1. /\ v.step = "next" /\ v.i = 0 /\ v.settled = w.settled /\ v.moved = FALSE
      /\ v.last = ~w.moved
  BY DEF Kept
<1>2. There(c, v) = There(c, w)
  BY <1>1, ThereStays
<1>3. ~Filling(w)
  BY DEF Filling, Written
<1>4. Held(c, paths, d, v)
  BY <1>2, <1>3 DEF Tries, Held
<1>5. Tried(c, d, v)
  BY <1>1 DEF Tried, Active
<1>6. ASSUME NEW made, Grows(c, made, Len(c.doc.tags)) PROVE Passed(c, made, v)
  <2>1. Passed(c, made, w)
    BY <1>6 DEF Tries
  <2> QED
    BY <1>1, <2>1, PassPassed
<1> QED
  BY <1>4, <1>5, <1>6 DEF Tries

LEMMA LookupTries ==
  ASSUME NEW c, NEW paths, Sane(c, paths), NEW d, NEW w, Tries(c, paths, d, w), w.step = "next",
         NEW v, v.i \in DOMAIN c.doc.tags \ w.settled, v.i > w.i,
         \A j \in DOMAIN c.doc.tags \ w.settled : j > w.i => v.i <= j,
         v.step = "get", v.why = "lookup", v.settled = w.settled, v.moved = w.moved, v.last = w.last,
         c.doc.tags[v.i].sub => c.doc.tags[v.i].funcs = << >>
  PROVE  Tries(c, paths, d, v)
<1>1. There(c, v) = There(c, w) /\ Active(v)
  BY ThereStays DEF Active
<1>2. ~Filling(w)
  BY DEF Filling, Written
<1>3. Held(c, paths, d, v)
  BY <1>1, <1>2 DEF Tries, Held
<1>4. Tried(c, d, v)
  BY DEF Tried, Creating, Making, Written
<1>5. ASSUME NEW made, Grows(c, made, Len(c.doc.tags)) PROVE Passed(c, made, v)
  <2>1. Passed(c, made, w)
    BY <1>5 DEF Tries
  <2> QED
    BY <1>1, <2>1, NextPassed
<1> QED
  BY <1>3, <1>4, <1>5 DEF Tries

(* A value with a sub-variable and functions fails at once.                *)
LEMMA SubTries ==
  ASSUME NEW c, NEW paths, Sane(c, paths), Clear(c), NEW d, NEW w, Tries(c, paths, d, w), w.step = "next",
         NEW v, v.i \in DOMAIN c.doc.tags \ w.settled, v.i > w.i,
         \A j \in DOMAIN c.doc.tags \ w.settled : j > w.i => v.i <= j,
         v.step = IF Again(c, v.i) /\ ~v.last THEN "next" ELSE "failed",
         v.settled = w.settled, v.moved = w.moved, v.last = w.last,
         c.doc.tags[v.i].sub, c.doc.tags[v.i].funcs # << >>
  PROVE  Tries(c, paths, d, v)
<1>1. There(c, v) = There(c, w)
  BY ThereStays
<1>2. ~Filling(w)
  BY DEF Filling, Written
<1>3. Held(c, paths, d, v)
  BY <1>1, <1>2 DEF Tries, Held
<1>4. Tried(c, d, v)
  BY DEF Tried, Active
<1>5. ASSUME NEW made, Grows(c, made, Len(c.doc.tags)) PROVE Passed(c, made, v)
  <2> DEFINE u == [step |-> "get", i |-> v.i, settled |-> w.settled, moved |-> w.moved, last |-> w.last]
  <2>1. Passed(c, made, w)
    BY <1>5 DEF Tries
  <2>2. /\ u.step = "get" /\ u.i = v.i /\ u.settled = w.settled /\ u.moved = w.moved
        /\ u.last = w.last
    OBVIOUS
  <2> HIDE DEF u
  <2>3. Active(u)
    BY <2>2 DEF Active
  <2>4. Passed(c, made, u)
    BY <2>1, <2>2, <2>3, NextPassed
  <2>5. ~Works(c, u.i, There(c, u))
    BY <2>2 DEF Works
  <2> QED
    BY <1>5, <2>2, <2>3, <2>4, <2>5, FailedPassed
<1> QED
  BY <1>3, <1>4, <1>5 DEF Tries

(* A ref is looked up again, made, written and read back.                  *)
LEMMA AsksTries ==
  ASSUME NEW c, NEW paths, NEW d, NEW w, Tries(c, paths, d, w),
         NEW v, v.step = "get", v.i = w.i, v.settled = w.settled, v.moved = w.moved, v.last = w.last,
         \/ w.step = "lock" /\ v.why = "recheck" /\ v.at = 1 /\ v.secret = NoSecret
         \/ w.step = "forget" /\ v.why = "readback"
  PROVE  Tries(c, paths, d, v)
<1>1. Active(w) /\ Active(v) /\ There(c, v) = There(c, w)
  BY ThereStays DEF Active
<1>2. Filling(w) => Filling(v)
  BY DEF Filling, Written
<1>3. Tried(c, d, v)
  <2>1. CASE w.step = "lock"
    BY <1>1, <2>1 DEF Tries, Tried, Creating, Making, Written
  <2>2. CASE w.step = "forget"
    BY <1>1, <2>2 DEF Tries, Tried, Creating, Making, Written
  <2> QED
    BY <2>1, <2>2
<1> QED
  BY <1>1, <1>2, <1>3, GoesOnTries

LEMMA MakesTries ==
  ASSUME NEW c, NEW paths, NEW d, NEW w, Tries(c, paths, d, w),
         w.step \in {"evaluate", "kv_read", "kv_write"},
         NEW v, v.i = w.i, v.settled = w.settled, v.moved = w.moved, v.last = w.last,
         v.step \in {"evaluate", "kv_read", "kv_write", "truncate"},
         v.step = "evaluate" =>
            v.at > 1 /\ v.secret # NoSecret /\ First(c.doc.tags[w.i], There(c, w)),
         v.step # "evaluate" => Works(c, w.i, There(c, w))
  PROVE  Tries(c, paths, d, v)
<1>1. Active(w) /\ Active(v) /\ There(c, v) = There(c, w)
  BY ThereStays DEF Active
<1>2. ~Filling(w)
  BY DEF Filling, Written
<1>3. Tried(c, d, v)
  BY <1>1 DEF Tries, Tried, Creating, Making, Written, Filling
<1> QED
  BY <1>1, <1>2, <1>3, GoesOnTries

LEMMA RevealTries ==
  ASSUME NEW c, NEW paths, NEW d, NEW w, Tries(c, paths, d, w), w.step = "evaluate",
         NEW v, v.i = w.i, v.settled = w.settled, v.moved = w.moved, v.last = w.last,
         v.step = "get", v.why = "reveal", v.at = 1, c.doc.tags[w.i].funcs[1].name = "reveal",
         v.path = c.doc.tags[w.i].funcs[1].path
  PROVE  Tries(c, paths, d, v)
<1>1. Active(w) /\ Active(v) /\ There(c, v) = There(c, w)
  BY ThereStays DEF Active
<1>2. ~Filling(w)
  BY DEF Filling, Written
<1>3. Tried(c, d, v)
  BY <1>1 DEF Tries, Tried, Creating, Making, Written, Filling
<1> QED
  BY <1>1, <1>2, <1>3, GoesOnTries

LEMMA WriteTries ==
  ASSUME NEW c, NEW paths, Sane(c, paths), NEW d, NEW w, Tries(c, paths, d, w), paths \subseteq DOMAIN d,
         NEW e, NEW new, e = [d EXCEPT ![c.doc.tags[w.i].path] = new],
         NEW v, v.i = w.i, v.settled = w.settled, v.moved = w.moved, v.last = w.last,
         \/ w.step = "truncate" /\ v.step = "fill"
         \/ w.step = "fill" /\ v.step = "forget" /\ IsRef(new)
  PROVE  Tries(c, paths, e, v)
<1> DEFINE x == c.doc.tags[w.i].path
<1>1. Active(w) /\ Active(v) /\ There(c, v) = There(c, w) /\ Filling(v)
  BY ThereStays DEF Active, Filling, Written
<1>2. w.i \in DOMAIN c.doc.tags /\ x \in paths /\ c.before[x] = Missing
  BY <1>1 DEF Tries, Tried, Sane, Creating, Making
<1>3. /\ e[x] = new /\ \A y \in paths : y # x => e[y] = d[y]
  BY <1>2
<1> HIDE DEF x
<1>4. Held(c, paths, e, v)
  <2> SUFFICES ASSUME NEW y \in paths
               PROVE  IF c.before[y] # Missing THEN e[y] = c.before[y]
                      ELSE e[y] = Missing \/ y \in There(c, v)
                           \/ (Filling(v) /\ c.doc.tags[v.i].path = y)
    BY DEF Held
  <2>1. CASE y = x
    BY <1>1, <1>2, <2>1 DEF x
  <2>2. CASE y # x
    BY <1>1, <1>3, <2>2 DEF Tries, Held, x
  <2> QED
    BY <2>1, <2>2
<1>5. Tried(c, e, v)
  <2>1. CASE w.step = "truncate"
    BY <1>1, <1>3, <2>1 DEF Tries, Tried, Creating, Making, Written, Filling, x
  <2>2. CASE w.step = "fill"
    BY <1>1, <1>3, <2>2 DEF Tries, Tried, Creating, Making, Written, Filling, x
  <2> QED
    BY <2>1, <2>2
<1>6. ASSUME NEW made, Grows(c, made, Len(c.doc.tags)) PROVE Passed(c, made, v)
  <2>1. Passed(c, made, w)
    BY <1>6 DEF Tries
  <2> QED
    BY <1>1, <2>1, GoesOnPassed
<1> QED
  BY <1>4, <1>5, <1>6 DEF Tries
-----------------------------------------------------------------------------
(* What the refs hold and how runs end.                                    *)

(* A ref that the repository came with is always there.                    *)
NeverGone ==
  \A x \in DOMAIN disk : project.files[x] # Missing =>
     disk[x] # Missing /\ \A p \in Process : run[p].before[x] # Missing

(* A run that has ended is done with all its targets.                      *)
EndedWell ==
  \A p \in Process : run[p].phase = "done" =>
     \A t \in Workers(p) : thread[p][t].step \in {"ok", "failed"}

(* A ref that holds a secret or the place of one.                          *)
Holds(c) == "plain" \in DOMAIN c /\ c.plain # NoSecret

(* What a thread is about to write holds a secret or the place of one.     *)
Bears(w) ==
  /\ w.step \in {"truncate", "fill"} => Holds(w.new)
  /\ w.step \in {"kv_read", "kv_write"} => w.place # NoSecret

(* `krab refs' has loaded the refs it works on.                            *)
Lists(w) ==
  /\ w.step # "idle" => "todo" \in DOMAIN w
  /\ w.step = "load" => "known" \in DOMAIN w
  /\ "known" \in DOMAIN w => \A x \in DOMAIN w.known : Holds(w.known[x])
  /\ w.step \notin {"idle", "load", "ok", "failed"} =>
       IF "known" \in DOMAIN w THEN w.todo \subseteq DOMAIN w.known ELSE w.todo = {}

(* A thread at work is at one of the values of its target.                 *)
Aims(t, w) == Active(w) => w.i \in DOMAIN Entries(t)
Provided(p, t, w) == Bears(w) /\ IF Compiles(p) THEN Aims(t, w) ELSE Lists(w)

(* Every ref holds a secret, and so does what will be written next.        *)
Secretive ==
  SecretsAreReal =>
     /\ \A x \in DOMAIN disk : IsRef(disk[x]) => Holds(disk[x])
     /\ \A p \in Process : \A t \in Workers(p) : Provided(p, t, thread[p][t])

Backed == NeverGone /\ EndedWell /\ Secretive

LEMMA InitBacked == ASSUME Init PROVE Backed
<1>1. \A p \in Process : run[p].phase = "idle" /\ run[p].before = disk
  BY DEF Init, Run
<1>2. \A p \in Process : \A t \in Workers(p) : thread[p][t] = [step |-> "idle"]
  BY DEF Init, Idle
<1>3. NeverGone
  BY <1>1 DEF NeverGone, Init
<1>4. EndedWell
  BY <1>1 DEF EndedWell
<1>5. \A p \in Process : \A t \in Workers(p) : Provided(p, t, thread[p][t])
  <2> DEFINE w == [step |-> "idle"]
  <2>1. w.step = "idle" /\ "known" \notin DOMAIN w
    OBVIOUS
  <2> HIDE DEF w
  <2>2. Bears(w) /\ Lists(w) /\ \A t : Aims(t, w)
    BY <2>1 DEF Bears, Lists, Aims, Active
  <2> QED
    BY <1>2, <2>2 DEF Provided, w
<1>6. Secretive
  BY <1>5 DEF Secretive, SecretsAreReal, Holds, Init
<1> QED
  BY <1>3, <1>4, <1>6 DEF Backed

LEMMA BackedMoves ==
  ASSUME Known, Backed, NEW p \in Process, run[p].phase = "busy", NEW t \in Workers(p), NEW w,
         Moves(p, t, w), DOMAIN disk' = DOMAIN disk,
         \A x \in DOMAIN disk : disk[x] # Missing => disk'[x] # Missing,
         SecretsAreReal =>
            /\ \A x \in DOMAIN disk : disk'[x] = disk[x] \/ (IsRef(disk'[x]) => Holds(disk'[x]))
            /\ Provided(p, t, w)
  PROVE  Backed'
<1>1. /\ Process' = Process
      /\ \A q \in Process : (Workers(q))' = Workers(q) /\ (Compiles(q))' = Compiles(q)
      /\ \A q : Command(q)' = Command(q)
      /\ \A u : (Entries(u))' = Entries(u)
  BY DEF Moves, Process, Workers, Compiles, Command, Entries
<1>2. \A q \in Process : \A u \in Workers(q) :
         thread'[q][u] = IF q = p /\ u = t THEN w ELSE thread[q][u]
  BY DEF Moves, Known, Typed
<1>3. NeverGone'
  BY <1>1 DEF Backed, NeverGone, Moves
<1>4. EndedWell'
  <2> SUFFICES ASSUME NEW q \in Process, run'[q].phase = "done", NEW u \in Workers(q)
               PROVE  thread'[q][u].step \in {"ok", "failed"}
    BY <1>1 DEF EndedWell
  <2>1. run[q].phase = "done" /\ q # p
    BY DEF Moves
  <2> QED
    BY <1>2, <2>1 DEF Backed, EndedWell
<1>5. SecretsAreReal' => SecretsAreReal
  BY <1>1 DEF SecretsAreReal, Moves
<1>6. Secretive'
  BY <1>1, <1>2, <1>5 DEF Backed, Secretive, Provided, Aims
<1> QED
  BY <1>3, <1>4, <1>6 DEF Backed

LEMMA GoBacked ==
  ASSUME Known, Backed, NEW p \in Process, run[p].phase = "busy", NEW t \in Workers(p), NEW w,
         Go(p, t, w), project' = project, disk' = disk, SecretsAreReal => Provided(p, t, w)
  PROVE  Backed'
BY GoMoves, BackedMoves

(* The steps of a compile that write nothing.                              *)
Quietly == {"ok", "next", "failed", "get", "insert", "lock", "evaluate"}

LEMMA AnswerAims ==
  ASSUME NEW p, NEW t, NEW w, NEW c, Kept \subseteq DOMAIN w, Asking \subseteq DOMAIN w
  PROVE  Answer(p, t, w, c).i = w.i
<1> DEFINE v == Answer(p, t, w, c)
<1>1. CASE w.why \in {"lookup", "recheck", "readback"} /\ IsRef(c)
  <2>1. v = Found(p, t, w, c)
    BY <1>1 DEF Answer, IsRef
  <2> QED
    BY <2>1 DEF Found, Failed, Base
<1>2. CASE w.why = "lookup" /\ c = Missing /\ Creates(p, Current(t, w))
  <2>1. v = [w EXCEPT !.step = "lock"]
    BY <1>2 DEF Answer, IsRef
  <2> QED
    BY <2>1 DEF Kept
<1>3. CASE w.why = "recheck" /\ c = Missing
  <2>1. v = [w EXCEPT !.step = "evaluate"]
    BY <1>3 DEF Answer, IsRef
  <2> QED
    BY <2>1 DEF Kept
<1>4. CASE w.why = "reveal" /\ IsRef(c) /\ Secret(Current(t, w).type, c) # NoSecret
  <2>1. v = [w EXCEPT !.step = "evaluate", !.at = @ + 1, !.secret = Secret(Current(t, w).type, c)]
    BY <1>4 DEF Answer
  <2> QED
    BY <2>1 DEF Kept
<1>5. CASE /\ ~(w.why \in {"lookup", "recheck", "readback"} /\ IsRef(c))
           /\ ~(w.why = "lookup" /\ c = Missing /\ Creates(p, Current(t, w)))
           /\ ~(w.why = "recheck" /\ c = Missing)
           /\ ~(w.why = "reveal" /\ IsRef(c) /\ Secret(Current(t, w).type, c) # NoSecret)
  <2>1. v = Failed(p, t, w)
    BY <1>5 DEF Answer
  <2> QED
    BY <2>1 DEF Failed, Base
<1> QED
  BY <1>1, <1>2, <1>3, <1>4, <1>5

LEMMA QuietBacked ==
  ASSUME Known, Outputs, Backed, NEW p \in Process, run[p].phase = "busy", NEW t \in Workers(p),
         NextValue(p, t) \/ Read(p, t) \/ Insert(p, t) \/ Lock(p, t)
  PROVE  Backed'
<1> DEFINE w == thread[p][t]
<1>1. "step" \in DOMAIN w /\ Compiles(p) /\ t \in DOMAIN project.docs
      /\ w.step \in {"next", "get", "insert", "lock"} /\ Kept \subseteq DOMAIN w
      /\ (w.step # "next" => Asking \subseteq DOMAIN w)
  BY ThreadIs DEF NextValue, Read, Insert, Lock, CompileSteps, CliSteps, Good, Workers
<1>2. disk' = disk /\ project' = project
  BY DEF NextValue, Read, Insert, Lock
<1>3. ASSUME NEW v, Moves(p, t, v), v.step \in Quietly, SecretsAreReal => Aims(t, v) PROVE Backed'
  <2>1. SecretsAreReal => Provided(p, t, v)
    BY <1>1, <1>3 DEF Provided, Bears, Quietly
  <2> QED
    BY <1>2, <1>3, <2>1, BackedMoves
<1>4. SecretsAreReal => Aims(t, w)
  BY <1>1 DEF Backed, Secretive, Provided
<1>5. CASE NextValue(p, t)
  <2> DEFINE later == Unsettled(t, w)
             i == CHOOSE k \in later : \A j \in later : k <= j
             v == [w EXCEPT !.i = i]
             next == IF Settled(t, w) THEN [w EXCEPT !.step = "ok"]
                     ELSE IF later = {} THEN Pass(p, t, w)
                     ELSE IF Current(t, v).sub /\ Current(t, v).funcs # << >>
                          THEN Failed(p, t, v)
                          ELSE Lookup(v, "lookup", Current(t, v).path)
  <2>1. Go(p, t, next) /\ w.step = "next"
    BY <1>5 DEF NextValue
  <2>2. Moves(p, t, next)
    BY <1>2, <2>1, GoMoves
  <2>3. CASE Settled(t, w) \/ later = {}
    <3>1. next = [w EXCEPT !.step = "ok"] \/ next = Pass(p, t, w)
      BY <2>3
    <3> HIDE DEF next, w
    <3>2. next.step \in {"ok", "next"}
      BY <1>1, <2>1, <3>1 DEF Pass, Kept
    <3> QED
      BY <1>3, <2>2, <3>2 DEF Quietly, Aims, Active
  <2>4. CASE ~Settled(t, w) /\ later # {}
    <3>1. Entries(t) \in Seq(Range(Entries(t)))
      BY <1>1, TagsAre DEF Outputs, Placed
    <3>2. later \subseteq DOMAIN Entries(t) /\ later \subseteq Nat
      BY <3>1 DEF Unsettled
    <3>3. \E k \in later : \A j \in later : k <= j
      <4> HIDE DEF later
      <4> QED
        BY <2>4, <3>2, SmallestOf
    <3>4. i \in DOMAIN Entries(t)
      <4> HIDE DEF later
      <4> QED
        BY <3>2, <3>3
    <3>5. v.i = i
      <4> HIDE DEF w, i
      <4> QED
        BY <1>1 DEF Kept
    <3>6. next = Failed(p, t, v) \/ next = Lookup(v, "lookup", Current(t, v).path)
      BY <2>4
    <3> HIDE DEF next, v, i
    <3>7. next.step \in Quietly /\ next.i = i
      <4>1. Failed(p, t, v).i = v.i /\ Failed(p, t, v).step \in {"next", "failed"}
        BY FailedIsGood DEF Failed, Base
      <4> QED
        BY <3>5, <3>6, <4>1, LookupIs DEF Quietly
    <3> QED
      BY <1>3, <2>2, <3>4, <3>7 DEF Aims
  <2> QED
    BY <2>3, <2>4
<1>6. CASE Read(p, t)
  <2>1. PICK next : /\ Go(p, t, next)
                    /\ \/ \E c : next = Answer(p, t, w, c)
                       \/ \E c : next = [w EXCEPT !.step = "insert", !.seen = c]
    BY <1>6 DEF Read
  <2>2. w.step = "get"
    BY <1>6 DEF Read
  <2> HIDE DEF w
  <2>3. ASSUME NEW c, next = Answer(p, t, w, c) PROVE next.step \in Quietly /\ next.i = w.i
    BY <1>1, <2>2, <2>3, AnswerSteps, AnswerAims DEF Quietly
  <2>4. ASSUME NEW c, next = [w EXCEPT !.step = "insert", !.seen = c]
        PROVE  next.step \in Quietly /\ next.i = w.i
    BY <1>1, <2>4 DEF Quietly, Kept
  <2>5. next.step \in Quietly /\ next.i = w.i
    BY <2>1, <2>3, <2>4
  <2>6. SecretsAreReal => Aims(t, next)
    BY <1>4, <2>2, <2>5 DEF Aims, Active
  <2> QED
    BY <1>2, <1>3, <2>1, <2>6, <2>5, GoMoves
<1>7. CASE Insert(p, t)
  <2> DEFINE v == Answer(p, t, w, w.seen)
  <2>1. w.step = "insert"
    BY <1>7 DEF Insert
  <2>2. v.step \in Quietly
    BY <1>1, AnswerSteps DEF Quietly
  <2>3. v.i = w.i
    BY <1>1, <2>1, AnswerAims
  <2> HIDE DEF v, w
  <2>4. Moves(p, t, v)
    BY <1>2, <1>7 DEF Insert, Moves, Known, Typed, RunFields, v, w
  <2>5. SecretsAreReal => Aims(t, v)
    BY <1>4, <2>1, <2>3 DEF Aims, Active
  <2> QED
    BY <1>3, <2>2, <2>4, <2>5
<1>8. CASE Lock(p, t)
  <2> DEFINE v == Lookup(w, "recheck", w.path)
  <2>1. w.step = "lock"
    BY <1>8 DEF Lock
  <2>2. v.step \in Quietly /\ v.i = w.i
    BY LookupIs DEF Quietly
  <2> HIDE DEF v, w
  <2>3. Moves(p, t, v)
    BY <1>2, <1>8 DEF Lock, Moves, Known, Typed, RunFields, v, w
  <2>4. SecretsAreReal => Aims(t, v)
    BY <1>4, <2>1, <2>2 DEF Aims, Active
  <2> QED
    BY <1>3, <2>2, <2>3, <2>4
<1> QED
  BY <1>5, <1>6, <1>7, <1>8

LEMMA SealedHolds ==
  ASSUME NEW type, NEW plain, NEW key, plain # NoSecret
  PROVE  Holds(Sealed(type, plain, key))
BY DEF Sealed, Holds

LEMMA EvaluateBacked ==
  ASSUME Known, Outputs, Backed, NEW p \in Process, run[p].phase = "busy", NEW t \in Workers(p),
         Evaluate(p, t)
  PROVE  Backed'
<1> DEFINE w == thread[p][t]
           tag == Current(t, w)
           f == tag.funcs[w.at]
           s == Sealed(tag.type, w.secret, Key(t, tag.type))
<1>1. w.step = "evaluate" /\ Compiles(p) /\ Kept \subseteq DOMAIN w /\ Asking \subseteq DOMAIN w
      /\ t \in DOMAIN project.docs
  BY ThreadIs DEF Evaluate, CompileSteps, CliSteps, Good, Workers
<1>2. project' = project /\ disk' = disk
  BY DEF Evaluate
<1>3. \/ Go(p, t, [w EXCEPT !.at = @ + 1, !.secret = << "drawn", drawn + 1 >>])
      \/ Go(p, t, [w EXCEPT !.at = @ + 1, !.secret = << "derived", @ >>])
      \/ Go(p, t, Failed(p, t, w))
      \/ Go(p, t, Lookup(w, "reveal", f.path))
      \/ tag.type = "vaultkv" /\ Go(p, t, With([w EXCEPT !.step = "kv_read"], "place", tag.place))
      \/ w.secret # NoSecret
         /\ Go(p, t, With([w EXCEPT !.step = "truncate", !.path = tag.path], "new", s))
  BY DEF Evaluate
<1>4. SecretsAreReal => w.i \in DOMAIN Entries(t)
  BY <1>1 DEF Backed, Secretive, Provided, Aims, Active
<1>5. ASSUME NEW v, Go(p, t, v), v.i = w.i, SecretsAreReal => Bears(v) PROVE Backed'
  BY <1>1, <1>2, <1>4, <1>5, GoBacked DEF Provided, Aims
<1>6. SecretsAreReal /\ tag.type = "vaultkv" => tag.place # NoSecret
  BY <1>1, <1>4 DEF SecretsAreReal, Current
<1>7. w.secret # NoSecret => Holds(s)
  BY SealedHolds
<1> HIDE DEF w, tag, f, s
<1>8. ASSUME NEW a, NEW b, Go(p, t, [w EXCEPT !.at = a, !.secret = b]) PROVE Backed'
  <2> DEFINE v == [w EXCEPT !.at = a, !.secret = b]
  <2>1. v.i = w.i /\ v.step = "evaluate"
    BY <1>1 DEF Kept
  <2>2. Go(p, t, v)
    BY <1>8
  <2> HIDE DEF v
  <2> QED
    BY <1>5, <2>1, <2>2 DEF Bears
<1>9. CASE Go(p, t, [w EXCEPT !.at = @ + 1, !.secret = << "drawn", drawn + 1 >>])
  BY <1>8, <1>9
<1>10. CASE Go(p, t, [w EXCEPT !.at = @ + 1, !.secret = << "derived", @ >>])
  BY <1>8, <1>10
<1>11. CASE Go(p, t, Failed(p, t, w))
  <2>1. Failed(p, t, w).i = w.i /\ Failed(p, t, w).step \in {"next", "failed"}
    BY FailedIsGood DEF Failed, Base
  <2> QED
    BY <1>5, <1>11, <2>1 DEF Bears
<1>12. CASE Go(p, t, Lookup(w, "reveal", f.path))
  BY <1>5, <1>12, LookupIs DEF Bears
<1>13. CASE tag.type = "vaultkv" /\ Go(p, t, With([w EXCEPT !.step = "kv_read"], "place", tag.place))
  <2> DEFINE u == [w EXCEPT !.step = "kv_read"]
             v == With(u, "place", tag.place)
  <2>1. DOMAIN u = DOMAIN w /\ u.i = w.i /\ u.step = "kv_read" /\ {"i", "step"} \subseteq DOMAIN w
    BY <1>1 DEF Kept
  <2> HIDE DEF u
  <2>2. v.i = w.i /\ v.step = "kv_read" /\ v.place = tag.place
    BY <2>1 DEF With
  <2>3. Go(p, t, v)
    BY <1>13 DEF u
  <2> HIDE DEF v
  <2> QED
    BY <1>5, <1>6, <1>13, <2>2, <2>3 DEF Bears
<1>14. CASE w.secret # NoSecret
            /\ Go(p, t, With([w EXCEPT !.step = "truncate", !.path = tag.path], "new", s))
  <2> DEFINE u == [w EXCEPT !.step = "truncate", !.path = tag.path]
             v == With(u, "new", s)
  <2>1. DOMAIN u = DOMAIN w /\ u.i = w.i /\ u.step = "truncate" /\ {"i", "step"} \subseteq DOMAIN w
    BY <1>1 DEF Kept
  <2> HIDE DEF u
  <2>2. v.i = w.i /\ v.step = "truncate" /\ v.new = s
    BY <2>1 DEF With
  <2>3. Go(p, t, v)
    BY <1>14 DEF u
  <2> HIDE DEF v
  <2> QED
    BY <1>5, <1>7, <1>14, <2>2, <2>3 DEF Bears
<1> QED
  BY <1>3, <1>9, <1>10, <1>11, <1>12, <1>13, <1>14 DEF w, tag, f, s

LEMMA KvBacked ==
  ASSUME Known, Backed, NEW p \in Process, run[p].phase = "busy", NEW t \in Workers(p),
         KvRead(p, t) \/ KvWrite(p, t)
  PROVE  Backed'
<1> DEFINE w == thread[p][t]
           read == IF w.place[1] \in DOMAIN vault THEN vault[w.place[1]] ELSE << >>
           r == With([w EXCEPT !.step = "kv_write"], "kv", read)
           s == Sealed("vaultkv", w.place, NoKey)
           v == With([w EXCEPT !.step = "truncate"], "new", s)
<1>1. /\ w.step \in {"kv_read", "kv_write"} /\ {"step", "place"} \subseteq DOMAIN w
      /\ project' = project /\ disk' = disk
  BY ThreadIs DEF KvRead, KvWrite, Ready
<1>2. Go(p, t, r) \/ Go(p, t, v)
  BY DEF KvRead, KvWrite
<1>3. Compiles(p) => "i" \in DOMAIN w
  BY <1>1, ThreadIs DEF Good, Kept
<1>4. SecretsAreReal => Provided(p, t, w)
  BY DEF Backed, Secretive
<1>5. w.place # NoSecret => Holds(s)
  BY SealedHolds
<1> HIDE DEF w, read, s
<1>6. /\ DOMAIN r = DOMAIN w \cup {"kv"} /\ r.step = "kv_write"
      /\ \A x \in {"i", "todo", "known", "place"} \cap DOMAIN w : r[x] = w[x]
      /\ DOMAIN v = DOMAIN w \cup {"new"} /\ v.step = "truncate" /\ v.new = s
      /\ \A x \in {"i", "todo", "known"} \cap DOMAIN w : v[x] = w[x]
  BY <1>1 DEF With
<1> HIDE DEF r, v
<1>7. SecretsAreReal => Provided(p, t, r) /\ Provided(p, t, v)
  <2> SUFFICES ASSUME SecretsAreReal PROVE Provided(p, t, r) /\ Provided(p, t, v)
    OBVIOUS
  <2>1. Bears(w) /\ w.place # NoSecret
    BY <1>1, <1>4 DEF Provided, Bears
  <2>2. r.place = w.place
    BY <1>1, <1>6
  <2>3. Bears(r) /\ Bears(v)
    BY <1>5, <1>6, <2>1, <2>2 DEF Bears
  <2>4. CASE Compiles(p)
    <3>1. w.i \in DOMAIN Entries(t) /\ r.i = w.i /\ v.i = w.i
      BY <1>1, <1>3, <1>4, <1>6, <2>4 DEF Provided, Aims, Active
    <3> QED
      BY <2>3, <2>4, <3>1 DEF Provided, Aims
  <2>5. CASE ~Compiles(p)
    <3>1. Lists(w)
      BY <1>4, <2>5 DEF Provided
    <3>2. "todo" \in DOMAIN w
      BY <1>1, <3>1 DEF Lists
    <3>3. /\ r.todo = w.todo /\ v.todo = w.todo
          /\ "known" \in DOMAIN r <=> "known" \in DOMAIN w
          /\ "known" \in DOMAIN v <=> "known" \in DOMAIN w
          /\ "known" \in DOMAIN w => r.known = w.known /\ v.known = w.known
      BY <1>6, <3>2
    <3>4. Lists(r) /\ Lists(v)
      BY <1>1, <1>6, <3>1, <3>2, <3>3 DEF Lists
    <3> QED
      BY <2>3, <2>5, <3>4 DEF Provided
  <2> QED
    BY <2>4, <2>5
<1> QED
  BY <1>1, <1>2, <1>7, GoBacked

LEMMA WriteBacked ==
  ASSUME Known, Outputs, Backed, NEW p \in Process, run[p].phase = "busy", NEW t \in Workers(p),
         Truncate(p, t) \/ Fill(p, t)
  PROVE  Backed'
<1> DEFINE w == thread[p][t]
           y == Target(p, t)
<1>1. PICK step \in {"fill", "forget"} :
        /\ Go(p, t, [w EXCEPT !.step = step]) /\ project' = project
        /\ w.step = (IF step = "fill" THEN "truncate" ELSE "fill")
        /\ disk' = [disk EXCEPT ![y] = IF step = "fill" THEN Torn ELSE w.new]
  BY DEF Truncate, Fill
<1> DEFINE v == [w EXCEPT !.step = step]
<1>2. "step" \in DOMAIN w /\ w.new \notin {Missing, Torn} /\ "new" \in DOMAIN w
  BY <1>1, ThreadIs DEF Ready
<1>3. Compiles(p) => "i" \in DOMAIN w
  BY <1>1, ThreadIs DEF Good, Kept
<1>4. SecretsAreReal => Provided(p, t, w)
  BY DEF Backed, Secretive
<1>5. /\ DOMAIN disk' = DOMAIN disk
      /\ \A x \in DOMAIN disk : disk'[x] = disk[x] \/ disk'[x] \in {Torn, w.new}
      /\ step = "fill" => \A x \in DOMAIN disk : disk'[x] = disk[x] \/ disk'[x] = Torn
  BY <1>1
<1>6. \A x \in DOMAIN disk : disk[x] # Missing => disk'[x] # Missing
  BY <1>2, <1>5 DEF Missing, Torn
<1>7. Moves(p, t, v)
  BY <1>1, GoMoves
<1>8. ASSUME SecretsAreReal
      PROVE  /\ \A x \in DOMAIN disk : disk'[x] = disk[x] \/ (IsRef(disk'[x]) => Holds(disk'[x]))
             /\ Provided(p, t, v)
  <2>1. Holds(w.new)
    BY <1>1, <1>4, <1>8 DEF Provided, Bears
  <2>2. \A x \in DOMAIN disk : disk'[x] = disk[x] \/ (IsRef(disk'[x]) => Holds(disk'[x]))
    BY <1>5, <2>1 DEF IsRef
  <2>3. v.step = step /\ DOMAIN v = DOMAIN w /\ \A x \in DOMAIN w \ {"step"} : v[x] = w[x]
    <3> HIDE DEF w
    <3> QED
      BY <1>2
  <2> HIDE DEF v, w
  <2>4. v.new = w.new
    BY <1>2, <2>3
  <2>5. Bears(v)
    BY <1>1, <2>1, <2>3, <2>4 DEF Bears
  <2>6. CASE Compiles(p)
    <3>1. w.i \in DOMAIN Entries(t) /\ v.i = w.i
      BY <1>1, <1>3, <1>4, <1>8, <2>3, <2>6 DEF Provided, Aims, Active
    <3> QED
      BY <2>2, <2>5, <2>6, <3>1 DEF Provided, Aims
  <2>7. CASE ~Compiles(p)
    <3>1. Lists(w)
      BY <1>4, <1>8, <2>7 DEF Provided
    <3>2. "todo" \in DOMAIN w
      BY <1>1, <3>1 DEF Lists
    <3>3. v.todo = w.todo /\ ("known" \in DOMAIN w => v.known = w.known)
      BY <2>3, <3>2
    <3>4. Lists(v)
      BY <1>1, <2>3, <3>1, <3>2, <3>3 DEF Lists
    <3> QED
      BY <2>2, <2>5, <2>7, <3>4 DEF Provided
  <2> QED
    BY <2>2, <2>6, <2>7
<1> HIDE DEF v
<1> QED
  BY <1>5, <1>6, <1>7, <1>8, BackedMoves

LEMMA ForgetBacked ==
  ASSUME Known, Backed, NEW p \in Process, run[p].phase = "busy", NEW t \in Workers(p), Forget(p, t)
  PROVE  Backed'
<1> DEFINE w == thread[p][t]
           path == Target(p, t)
           v == IF Compiles(p) THEN Lookup(w, "readback", path) ELSE [w EXCEPT !.step = "cli"]
<1>1. Moves(p, t, v) /\ disk' = disk /\ w.step = "forget" /\ "step" \in DOMAIN w
  <2> HIDE DEF v, path
  <2> QED
    BY ThreadIs DEF Forget, Moves, Known, Typed, RunFields, v, path
<1>2. ASSUME SecretsAreReal PROVE Provided(p, t, v)
  <2>1. Provided(p, t, w)
    BY <1>2 DEF Backed, Secretive
  <2>2. CASE Compiles(p)
    <3>1. v = Lookup(w, "readback", path)
      BY <2>2
    <3> HIDE DEF v, w
    <3>2. v.step = "get" /\ v.i = w.i
      BY <3>1, LookupIs
    <3> QED
      BY <1>1, <2>1, <2>2, <3>2 DEF Provided, Aims, Active, Bears
  <2>3. CASE ~Compiles(p)
    <3>1. v = [w EXCEPT !.step = "cli"]
      BY <2>3
    <3> HIDE DEF v, w
    <3>2. v.step = "cli" /\ DOMAIN v = DOMAIN w /\ \A x \in DOMAIN w \ {"step"} : v[x] = w[x]
      BY <1>1, <3>1
    <3>3. Lists(w)
      BY <2>1, <2>3 DEF Provided
    <3>4. "todo" \in DOMAIN w
      BY <1>1, <3>3 DEF Lists
    <3>5. v.todo = w.todo /\ ("known" \in DOMAIN w => v.known = w.known)
      BY <3>2, <3>4
    <3>6. Lists(v)
      BY <1>1, <3>2, <3>3, <3>4, <3>5 DEF Lists
    <3> QED
      BY <2>3, <3>2, <3>6 DEF Provided, Bears
  <2> QED
    BY <2>2, <2>3
<1> HIDE DEF v
<1> QED
  BY <1>1, <1>2, BackedMoves

(* `krab refs' knows its files by their place in the refs directory.       *)
LEMMA FirstIsPlaced ==
  ASSUME Placed, NEW x, NEW paths, IsFirst(x, paths)
  PROVE  x \in DOMAIN disk
<1>1. x \in Range(project.order)
  BY DEF IsFirst, Range
<1> QED
  BY <1>1, RefsAssumption DEF Placed

LEMMA LoadBacked ==
  ASSUME Known, Outputs, Backed, NEW p \in Process, run[p].phase = "busy", "cli" \in Workers(p), Load(p)
  PROVE  Backed'
<1> DEFINE w == thread[p]["cli"]
           rest == w.todo \ DOMAIN w.known
           Taken(x) == [w EXCEPT !.known = With(@, x, Named(p, disk[x]))]
<1>1. w.step = "load" /\ ~Compiles(p) /\ "step" \in DOMAIN w
  BY ThreadIs DEF Load, CompileSteps, CliSteps
<1>2. /\ project' = project /\ disk' = disk
      /\ \/ rest = {} /\ Go(p, "cli", [w EXCEPT !.step = "cli"])
         \/ Go(p, "cli", [w EXCEPT !.step = "failed"])
         \/ \E x \in rest : IsFirst(x, rest) /\ IsRef(disk[x]) /\ Go(p, "cli", Taken(x))
  BY DEF Load
<1>3. SecretsAreReal => Lists(w) /\ \A x \in DOMAIN disk : IsRef(disk[x]) => Holds(disk[x])
  BY <1>1 DEF Backed, Secretive, Provided
<1>4. ASSUME NEW v, Go(p, "cli", v), v.step \in {"load", "cli", "failed"}, SecretsAreReal => Lists(v)
      PROVE  Backed'
  BY <1>1, <1>2, <1>4, GoBacked DEF Provided, Bears
<1> HIDE DEF w
<1>5. ASSUME rest = {}, Go(p, "cli", [w EXCEPT !.step = "cli"]) PROVE Backed'
  <2> DEFINE v == [w EXCEPT !.step = "cli"]
  <2>1. v.step = "cli" /\ DOMAIN v = DOMAIN w /\ \A x \in DOMAIN w \ {"step"} : v[x] = w[x]
    BY <1>1
  <2>2. Go(p, "cli", v)
    BY <1>5
  <2> HIDE DEF v
  <2>3. ASSUME SecretsAreReal PROVE Lists(v)
    <3>1. Lists(w) /\ {"todo", "known"} \subseteq DOMAIN w
      BY <1>1, <1>3, <2>3 DEF Lists
    <3>2. v.todo = w.todo /\ v.known = w.known /\ {"todo", "known"} \subseteq DOMAIN v
      BY <2>1, <3>1
    <3>3. w.todo \subseteq DOMAIN w.known
      BY <1>5
    <3> QED
      BY <2>1, <3>1, <3>2, <3>3 DEF Lists
  <2> QED
    BY <1>4, <2>1, <2>2, <2>3
<1>6. ASSUME Go(p, "cli", [w EXCEPT !.step = "failed"]) PROVE Backed'
  <2> DEFINE v == [w EXCEPT !.step = "failed"]
  <2>1. v.step = "failed" /\ DOMAIN v = DOMAIN w /\ \A x \in DOMAIN w \ {"step"} : v[x] = w[x]
    BY <1>1
  <2>2. Go(p, "cli", v)
    BY <1>6
  <2> HIDE DEF v
  <2>3. ASSUME SecretsAreReal PROVE Lists(v)
    <3>1. Lists(w) /\ {"todo", "known"} \subseteq DOMAIN w
      BY <1>1, <1>3, <2>3 DEF Lists
    <3>2. v.todo = w.todo /\ v.known = w.known /\ {"todo", "known"} \subseteq DOMAIN v
      BY <2>1, <3>1
    <3> QED
      BY <2>1, <3>1, <3>2 DEF Lists
  <2> QED
    BY <1>4, <2>1, <2>2, <2>3
<1>7. ASSUME NEW x, IsFirst(x, rest), IsRef(disk[x]), Go(p, "cli", Taken(x)) PROVE Backed'
  <2> DEFINE v == Taken(x)
             c == Named(p, disk[x])
  <2>1. Go(p, "cli", v)
    BY <1>7
  <2>2. v.step = "load" /\ DOMAIN v = DOMAIN w /\ \A y \in DOMAIN w \ {"known"} : v[y] = w[y]
    BY <1>1
  <2>3. "known" \in DOMAIN w => v.known = With(w.known, x, c)
    OBVIOUS
  <2> HIDE DEF v
  <2>4. ASSUME SecretsAreReal PROVE Lists(v)
    <3>1. Lists(w) /\ {"todo", "known"} \subseteq DOMAIN w /\ \A y \in DOMAIN w.known : Holds(w.known[y])
      BY <1>1, <1>3, <2>4 DEF Lists
    <3>2. Holds(disk[x])
      BY <1>3, <1>7, <2>4, FirstIsPlaced DEF Outputs
    <3>3. Holds(c)
      BY <3>2 DEF Holds, Named
    <3> HIDE DEF c
    <3>4. \A y \in DOMAIN v.known : Holds(v.known[y])
      BY <2>3, <3>1, <3>3 DEF With
    <3> QED
      BY <2>2, <3>1, <3>4 DEF Lists
  <2> QED
    BY <1>4, <2>1, <2>2, <2>4
<1> HIDE DEF rest, Taken
<1> QED
  BY <1>2, <1>5, <1>6, <1>7 DEF rest, Taken

LEMMA CheckRefBacked ==
  ASSUME Known, Backed, NEW p \in Process, run[p].phase = "busy", "cli" \in Workers(p), CheckRef(p)
  PROVE  Backed'
<1> DEFINE w == thread[p]["cli"]
           Rest(path) == [w EXCEPT !.todo = @ \ {path}]
           S(path) == LET c == w.known[path]
                      IN  Sealed(c.type, Secret(c.type, c), Wanted(p, path, c.type))
           Resealed(path) == With([Rest(path) EXCEPT !.step = "truncate", !.path = path], "new", S(path))
<1>1. w.step = "cli" /\ ~Compiles(p) /\ "step" \in DOMAIN w
  BY ThreadIs DEF CheckRef, CompileSteps, CliSteps
<1>2. project' = project /\ disk' = disk
  BY DEF CheckRef
<1>3. \/ \E step \in {"failed", "ok"} : Go(p, "cli", [w EXCEPT !.step = step])
      \/ \E path \in w.todo :
            \/ Go(p, "cli", Rest(path))
            \/ Go(p, "cli", [Rest(path) EXCEPT !.bad = @ + 1])
            \/ Mismatch(p, path, w.known[path]) /\ Go(p, "cli", Resealed(path))
  BY DEF CheckRef
<1>4. SecretsAreReal => Lists(w)
  BY <1>1 DEF Backed, Secretive, Provided
<1>5. ASSUME NEW v, Go(p, "cli", v), SecretsAreReal => Bears(v) /\ Lists(v) PROVE Backed'
  BY <1>1, <1>2, <1>5, GoBacked DEF Provided
<1>6. ASSUME NEW path \in w.todo, SecretsAreReal, Mismatch(p, path, w.known[path]) PROVE Holds(S(path))
  <2>1. Lists(w)
    BY <1>4, <1>6
  <2> HIDE DEF w
  <2>2. path \in DOMAIN w.known
    BY <1>1, <1>6, <2>1 DEF Lists
  <2>3. "known" \in DOMAIN w
    BY <1>1, <1>6, <2>1 DEF Lists
  <2>4. Holds(w.known[path])
    BY <2>1, <2>2, <2>3 DEF Lists
  <2>5. w.known[path].type # "vaultkv"
    BY <1>6 DEF Mismatch, Sealing, Keyed
  <2> QED
    BY <2>4, <2>5, SealedHolds DEF Secret, Holds
<1> HIDE DEF w, S
<1>7. ASSUME NEW v, DOMAIN w \subseteq DOMAIN v, \A x \in DOMAIN w \ {"step", "todo", "bad", "path"} : v[x] = w[x],
             "known" \in DOMAIN v => "known" \in DOMAIN w,
             v.step \in {"ok", "failed", "cli", "truncate"}, "todo" \in DOMAIN w => v.todo \subseteq w.todo,
             SecretsAreReal
      PROVE  Lists(v)
  <2>1. Lists(w) /\ "todo" \in DOMAIN w
    BY <1>1, <1>4, <1>7 DEF Lists
  <2>2. "known" \in DOMAIN w => v.known = w.known
    BY <1>7
  <2>3. "known" \notin DOMAIN w => v.todo = {}
    BY <1>1, <1>7, <2>1 DEF Lists
  <2>4. "known" \in DOMAIN w => v.todo \subseteq DOMAIN v.known
    BY <1>1, <1>7, <2>1, <2>2 DEF Lists
  <2> QED
    BY <1>7, <2>1, <2>2, <2>3, <2>4 DEF Lists
<1>8. ASSUME NEW step \in {"failed", "ok"}, Go(p, "cli", [w EXCEPT !.step = step]) PROVE Backed'
  <2> DEFINE v == [w EXCEPT !.step = step]
  <2>1. v.step = step /\ DOMAIN v = DOMAIN w /\ \A x \in DOMAIN w \ {"step"} : v[x] = w[x]
    BY <1>1
  <2>2. Go(p, "cli", v)
    BY <1>8
  <2> HIDE DEF v
  <2>3. SecretsAreReal => Lists(v)
    BY <1>7, <2>1
  <2> QED
    BY <1>5, <2>1, <2>2, <2>3 DEF Bears
<1>9. ASSUME NEW path, Go(p, "cli", Rest(path)) PROVE Backed'
  <2> DEFINE v == Rest(path)
  <2>1. v.step = "cli" /\ DOMAIN v = DOMAIN w /\ (\A x \in DOMAIN w \ {"todo"} : v[x] = w[x])
        /\ ("todo" \in DOMAIN w => v.todo = w.todo \ {path})
    BY <1>1
  <2>2. Go(p, "cli", v)
    BY <1>9
  <2> HIDE DEF v
  <2>3. SecretsAreReal => Lists(v)
    BY <1>7, <2>1
  <2> QED
    BY <1>5, <2>1, <2>2, <2>3 DEF Bears
<1>10. ASSUME NEW path, Go(p, "cli", [Rest(path) EXCEPT !.bad = @ + 1]) PROVE Backed'
  <2> DEFINE v == [Rest(path) EXCEPT !.bad = @ + 1]
  <2>1. v.step = "cli" /\ DOMAIN v = DOMAIN w /\ (\A x \in DOMAIN w \ {"todo", "bad"} : v[x] = w[x])
        /\ ("todo" \in DOMAIN w => v.todo = w.todo \ {path})
    BY <1>1
  <2>2. Go(p, "cli", v)
    BY <1>10
  <2> HIDE DEF v
  <2>3. SecretsAreReal => Lists(v)
    BY <1>7, <2>1
  <2> QED
    BY <1>5, <2>1, <2>2, <2>3 DEF Bears
<1>11. ASSUME NEW path \in w.todo, Mismatch(p, path, w.known[path]), Go(p, "cli", Resealed(path)) PROVE Backed'
  <2> DEFINE u == [Rest(path) EXCEPT !.step = "truncate", !.path = path]
             v == With(u, "new", S(path))
  <2>1. u.step = "truncate" /\ DOMAIN u = DOMAIN w /\ (\A x \in DOMAIN w \ {"step", "todo", "path"} : u[x] = w[x])
        /\ ("todo" \in DOMAIN w => u.todo = w.todo \ {path})
    BY <1>1
  <2>2. Go(p, "cli", v)
    BY <1>11
  <2> HIDE DEF u
  <2>3. /\ v.step = "truncate" /\ DOMAIN v = DOMAIN w \cup {"new"} /\ v.new = S(path)
        /\ ("todo" \in DOMAIN w => v.todo = w.todo \ {path})
        /\ ("known" \in DOMAIN w => v.known = w.known)
    BY <1>1, <2>1 DEF With
  <2> HIDE DEF v
  <2>4. ASSUME SecretsAreReal PROVE Lists(v)
    <3>1. Lists(w) /\ "todo" \in DOMAIN w
      BY <1>1, <1>4, <2>4 DEF Lists
    <3>2. "known" \in DOMAIN v <=> "known" \in DOMAIN w
      BY <2>3
    <3>3. "known" \in DOMAIN w /\ v.todo \subseteq DOMAIN w.known
      BY <1>1, <1>11, <2>3, <3>1 DEF Lists
    <3> QED
      BY <2>3, <3>1, <3>2, <3>3 DEF Lists
  <2>5. SecretsAreReal => Bears(v)
    BY <1>6, <1>11, <2>3 DEF Bears
  <2> QED
    BY <1>5, <2>2, <2>4, <2>5
<1> HIDE DEF Rest, Resealed
<1> QED
  BY <1>3, <1>8, <1>9, <1>10, <1>11

LEMMA StartCliBacked ==
  ASSUME SecretsAreReal, NEW p \in Process, ~Compiles(p)
  PROVE  Bears(StartCli(p)) /\ Lists(StartCli(p))
<1> DEFINE c == Command(p)
           w == [step |-> "truncate", path |-> c.path, todo |-> {}]
           s == Sealed(c.type, Given, c.key)
           v == StartCli(p)
<1> SUFFICES Bears(v) /\ Lists(v)
  OBVIOUS
<1>1. Holds(s)
  BY SealedHolds DEF Given, SecretsAreReal
<1>2. CASE c.kind = "write"
  <2>1. \/ v = [w EXCEPT !.step = "failed"]
        \/ c.type = "vaultkv"
           /\ v = With(With([w EXCEPT !.step = "kv_read"], "place", c.place), "secret", Given)
        \/ v = With(w, "new", s)
    BY <1>2 DEF StartCli, WriteRef
  <2>2. c.type = "vaultkv" => c.place # NoSecret
    BY <1>2 DEF SecretsAreReal
  <2> HIDE DEF v, s, c
  <2>3. CASE v = [w EXCEPT !.step = "failed"]
    <3>1. v.step = "failed" /\ "todo" \in DOMAIN v /\ "known" \notin DOMAIN v
      BY <2>3
    <3> QED
      BY <3>1 DEF Bears, Lists
  <2>4. CASE c.type = "vaultkv"
             /\ v = With(With([w EXCEPT !.step = "kv_read"], "place", c.place), "secret", Given)
    <3>1. /\ v.step = "kv_read" /\ "todo" \in DOMAIN v /\ "known" \notin DOMAIN v
          /\ v.todo = {} /\ v.place = c.place
      BY <2>4 DEF With
    <3> QED
      BY <2>2, <2>4, <3>1 DEF Bears, Lists
  <2>5. CASE v = With(w, "new", s)
    <3>1. /\ v.step = "truncate" /\ "todo" \in DOMAIN v /\ "known" \notin DOMAIN v
          /\ v.todo = {} /\ v.new = s
      BY <2>5 DEF With
    <3> QED
      BY <1>1, <3>1 DEF Bears, Lists
  <2> QED
    BY <2>1, <2>3, <2>4, <2>5
<1>3. CASE c.kind # "write"
  <2>1. v.step \in {"load", "failed"} /\ {"todo", "known"} \subseteq DOMAIN v /\ v.known = << >>
    <3>1. CASE c.kind = "update"
      BY <3>1 DEF StartCli
    <3>2. CASE c.kind # "update"
      BY <1>3, <3>2 DEF StartCli
    <3> QED
      BY <3>1, <3>2
  <2> HIDE DEF v
  <2>2. DOMAIN v.known = {}
    BY <2>1
  <2> QED
    BY <2>1, <2>2 DEF Bears, Lists
<1> QED
  BY <1>2, <1>3

LEMMA StartRunBacked ==
  ASSUME Known, Outputs, Backed, NEW p \in Process, StartRun(p)
  PROVE  Backed'
<1> DEFINE fresh == [Run("busy", disk) EXCEPT !.alone = Running = {}]
<1>1. /\ project' = project /\ disk' = disk /\ run[p].phase = "idle"
      /\ run' = [q \in Process |-> IF q = p THEN fresh ELSE [run[q] EXCEPT !.alone = FALSE]]
  BY DEF StartRun
<1>2. fresh.phase = "busy" /\ fresh.before = disk
  BY DEF Run
<1> HIDE DEF fresh
<1>3. /\ Process' = Process
      /\ \A q \in Process : (Workers(q))' = Workers(q) /\ (Compiles(q))' = Compiles(q)
      /\ \A q : Command(q)' = Command(q)
      /\ \A u : (Entries(u))' = Entries(u)
  BY <1>1 DEF Process, Workers, Compiles, Command, Entries
<1>4. /\ \A q \in Process \ {p} : run'[q].before = run[q].before /\ run'[q].phase = run[q].phase
      /\ run'[p].before = disk /\ run'[p].phase = "busy"
  BY <1>1, <1>2 DEF Known, Typed, RunFields
<1>5. \A q \in Process : \A t \in Workers(q) :
         \/ thread'[q][t] = thread[q][t]
         \/ q = p /\ ~Compiles(p) /\ thread'[q][t] = StartCli(p)
  <2>1. CASE Compiles(p)
    BY <2>1 DEF StartRun
  <2>2. CASE ~Compiles(p)
    BY <2>2 DEF StartRun, Known, Typed, Workers
  <2> QED
    BY <2>1, <2>2
<1>6. NeverGone'
  BY <1>1, <1>3, <1>4 DEF Backed, NeverGone
<1>7. EndedWell'
  <2> SUFFICES ASSUME NEW q \in Process, run'[q].phase = "done", NEW u \in Workers(q)
               PROVE  thread'[q][u].step \in {"ok", "failed"}
    BY <1>3 DEF EndedWell
  <2>1. run[q].phase = "done" /\ q # p
    BY <1>4
  <2> QED
    BY <1>5, <2>1 DEF Backed, EndedWell
<1>8. SecretsAreReal' => SecretsAreReal
  BY <1>1, <1>3 DEF SecretsAreReal
<1>9. SecretsAreReal /\ ~Compiles(p) => Bears(StartCli(p)) /\ Lists(StartCli(p))
  BY StartCliBacked
<1>10. Secretive'
  <2> SUFFICES ASSUME SecretsAreReal, NEW q \in Process, NEW u \in Workers(q)
               PROVE  Provided(q, u, thread'[q][u])
    BY <1>1, <1>3, <1>8 DEF Backed, Secretive, Provided, Aims
  <2>1. CASE thread'[q][u] = thread[q][u]
    BY <2>1 DEF Backed, Secretive
  <2>2. CASE q = p /\ ~Compiles(p) /\ thread'[q][u] = StartCli(p)
    BY <1>9, <2>2 DEF Provided
  <2> QED
    BY <1>5, <2>1, <2>2
<1> QED
  BY <1>6, <1>7, <1>10 DEF Backed

LEMMA EndBacked ==
  ASSUME Known, Backed, NEW p \in Process, EndRun(p) \/ Crash(p)
  PROVE  Backed'
<1>1. /\ project' = project /\ disk' = disk /\ thread' = thread /\ run[p].phase = "busy"
      /\ \E phase \in {"done", "crashed"} :
            /\ run' = [run EXCEPT ![p].phase = phase]
            /\ phase = "done" => \A t \in Workers(p) : thread[p][t].step \in {"ok", "failed"}
  BY DEF EndRun, Crash
<1>2. /\ Process' = Process
      /\ \A q \in Process : (Workers(q))' = Workers(q) /\ (Compiles(q))' = Compiles(q)
      /\ \A q : Command(q)' = Command(q)
      /\ \A u : (Entries(u))' = Entries(u)
  BY <1>1 DEF Process, Workers, Compiles, Command, Entries
<1>3. \A q \in Process :
         /\ run'[q].before = run[q].before
         /\ run'[q].phase = "done" =>
               run[q].phase = "done" \/ \A t \in Workers(q) : thread[q][t].step \in {"ok", "failed"}
  BY <1>1 DEF Known, Typed, RunFields
<1>4. NeverGone'
  BY <1>1, <1>2, <1>3 DEF Backed, NeverGone
<1>5. EndedWell'
  BY <1>1, <1>2, <1>3 DEF Backed, EndedWell
<1>6. SecretsAreReal' => SecretsAreReal
  BY <1>1, <1>2 DEF SecretsAreReal
<1>7. Secretive'
  BY <1>1, <1>2, <1>6 DEF Backed, Secretive, Provided, Aims
<1> QED
  BY <1>4, <1>5, <1>7 DEF Backed

LEMMA NextBacked == ASSUME Known, Outputs, Backed, [Next]_vars PROVE Backed'
<1>1. CASE UNCHANGED vars
  <2>1. project' = project /\ disk' = disk /\ run' = run /\ thread' = thread
    BY <1>1 DEF vars
  <2>2. /\ Process' = Process
        /\ \A q \in Process : (Workers(q))' = Workers(q) /\ (Compiles(q))' = Compiles(q)
        /\ \A q : Command(q)' = Command(q)
        /\ \A u : (Entries(u))' = Entries(u)
    BY <2>1 DEF Process, Workers, Compiles, Command, Entries
  <2>3. SecretsAreReal' => SecretsAreReal
    BY <2>1, <2>2 DEF SecretsAreReal
  <2> QED
    BY <2>1, <2>2, <2>3 DEF Backed, NeverGone, EndedWell, Secretive, Provided, Aims
<1>2. ASSUME NEW p \in Process, StartRun(p) \/ EndRun(p) \/ Crash(p) PROVE Backed'
  BY <1>2, StartRunBacked, EndBacked
<1>3. ASSUME NEW p \in Process, NEW t \in Workers(p), StartTarget(p, t) PROVE Backed'
  <2>1. run[p].phase = "busy" /\ Compiles(p) /\ Go(p, t, Fresh) /\ project' = project /\ disk' = disk
    BY <1>3 DEF StartTarget
  <2>2. Fresh.step = "next"
    BY DEF Fresh
  <2>3. Provided(p, t, Fresh)
    BY <2>1, <2>2 DEF Provided, Bears, Aims, Active
  <2> QED
    BY <2>1, <2>3, GoBacked
<1>4. ASSUME NEW p \in Process, NEW t \in Workers(p), Step(p, t) PROVE Backed'
  <2>1. run[p].phase = "busy"
    BY <1>4 DEF Step
  <2>2. ASSUME t = "cli", Load(p) \/ CheckRef(p) PROVE Backed'
    BY <2>1, <2>2, LoadBacked, CheckRefBacked
  <2> QED
    BY <1>4, <2>1, <2>2, QuietBacked, EvaluateBacked, KvBacked, WriteBacked, ForgetBacked DEF Step
<1> QED
  BY <1>1, <1>2, <1>3, <1>4 DEF Next

-----------------------------------------------------------------------------
(* How a target of a compile that runs alone is resolved.                  *)

(* A view of a repository is one the lemmas are about.                     *)
LEMMA ViewIsSane ==
  ASSUME Known, Placed, NEW p \in Process, NEW t \in DOMAIN project.docs
  PROVE  Sane(View(p, t), Mentions(t))
<1> DEFINE c == View(p, t)
<1>1. /\ c.doc = project.docs[t] /\ c.doc.tags = Entries(t) /\ c.before = run[p].before
  BY DEF View, Entries
<1>2. c.doc.shape \in {"map", "list"}
  BY <1>1, RefsAssumption DEF Placed
<1>3. \A i \in DOMAIN Entries(t) : Tag(Entries(t)[i])
  BY RefsAssumption DEF Placed, Entries
<1>4. Mentions(t) \subseteq DOMAIN c.before
  BY <1>1, TagsAre DEF Known, Typed, Placed
<1> HIDE DEF c
<1>5. \A i \in DOMAIN Entries(t) : \A k \in DOMAIN Entries(t)[i].funcs :
         /\ Entries(t)[i].funcs[k].name \in {"random", "derive", "reveal"}
         /\ Entries(t)[i].funcs[k].name = "reveal" => k = 1
  BY <1>3 DEF Tag
<1>6. Sane(c, Mentions(t))
  BY <1>1, <1>2, <1>4, <1>5, TagsAre DEF Sane, Placed
<1> QED
  BY <1>6 DEF c

LEMMA ViewIsClear ==
  ASSUME Known, Placed, NeverGone, Unambiguous, NEW p \in Process, NEW t \in DOMAIN project.docs
  PROVE  Clear(View(p, t))
<1> DEFINE c == View(p, t)
<1>1. /\ c.doc = project.docs[t] /\ c.doc.tags = Entries(t) /\ c.before = run[p].before
      /\ c.keys = {type \in Types : HasKey(p, t, type)}
  BY DEF View, Entries
<1> HIDE DEF c
<1> SUFFICES ASSUME NEW i \in DOMAIN Entries(t)
             PROVE  LET tag == Entries(t)[i]
                        same == {j \in DOMAIN Entries(t) : Entries(t)[j].path = tag.path}
                    IN  /\ tag.type = "vaultkv" /\ tag.funcs # << >> => tag.funcs[1].name # "reveal"
                        /\ run[p].before[tag.path] = Missing /\ (\E j \in same : Entries(t)[j].funcs # << >>) =>
                             /\ tag.pin = NoPin
                             /\ c.doc.shape = "map" =>
                                  \/ \A j \in same : Entries(t)[j].type = tag.type /\ Entries(t)[j].funcs = tag.funcs
                                  \/ \E j \in same : /\ \A k \in same : j <= k
                                                     /\ OnItsOwn(Entries(t)[j])
                                                     /\ Entries(t)[j].type \in c.keys
  BY <1>1 DEF Clear, c
<1> DEFINE tag == Entries(t)[i]
           same == {j \in DOMAIN Entries(t) : Entries(t)[j].path = tag.path}
<1>2. tag.path \in DOMAIN disk
  BY TagsAre DEF Placed
<1>3. run[p].before[tag.path] = Missing => project.files[tag.path] = Missing
  BY <1>2 DEF NeverGone
<1>4. (\E j \in same : Entries(t)[j].funcs # << >>) => tag.path \in Makes(t)
  BY DEF Makes
<1>5. \A j \in DOMAIN Entries(t) : Entries(t)[j].type \in Types
  BY RefsAssumption DEF Placed, Entries, Tag
<1>6. ASSUME NEW j \in same,
             Entries(t)[j].type \notin Sealing \/ Entries(t)[j].type \in DOMAIN project.secrets[t]
      PROVE  Entries(t)[j].type \in c.keys
  BY <1>1, <1>5, <1>6 DEF HasKey
<1>7. /\ tag.type = "vaultkv" /\ tag.funcs # << >> => tag.funcs[1].name # "reveal"
      /\ project.files[tag.path] = Missing /\ tag.path \in Makes(t) =>
           /\ tag.pin = NoPin
           /\ project.docs[t].shape = "map" =>
                \/ \A j \in same : Entries(t)[j].type = tag.type /\ Entries(t)[j].funcs = tag.funcs
                \/ \E j \in same : /\ \A k \in same : j <= k
                                   /\ OnItsOwn(Entries(t)[j])
                                   /\ \/ Entries(t)[j].type \notin Sealing
                                      \/ Entries(t)[j].type \in DOMAIN project.secrets[t]
  BY DEF Unambiguous
<1> HIDE DEF tag, same
<1>8. /\ tag.type = "vaultkv" /\ tag.funcs # << >> => tag.funcs[1].name # "reveal"
      /\ run[p].before[tag.path] = Missing /\ (\E j \in same : Entries(t)[j].funcs # << >>) =>
           /\ tag.pin = NoPin
           /\ c.doc.shape = "map" =>
                \/ \A j \in same : Entries(t)[j].type = tag.type /\ Entries(t)[j].funcs = tag.funcs
                \/ \E j \in same : /\ \A k \in same : j <= k
                                   /\ OnItsOwn(Entries(t)[j])
                                   /\ Entries(t)[j].type \in c.keys
  BY <1>1, <1>3, <1>4, <1>6, <1>7
<1> QED
  BY <1>8 DEF tag, same

LEMMA ViewWorks ==
  ASSUME Placed, NEW p \in Process, NEW t \in DOMAIN project.docs, NEW i \in DOMAIN Entries(t), NEW S
  PROVE  Resolves(p, t, i, S) <=> Works(View(p, t), i, S)
<1> DEFINE c == View(p, t)
<1>1. /\ c.doc.tags = Entries(t) /\ c.before = run[p].before /\ c.user = Command(p)
      /\ c.keys = {type \in Types : HasKey(p, t, type)}
  BY DEF View, Entries
<1>2. Entries(t)[i].type \in Types
  BY RefsAssumption DEF Placed, Entries, Tag
<1> HIDE DEF c
<1>3. Entries(t)[i].type \in c.keys <=> HasKey(p, t, Entries(t)[i].type)
  BY <1>1, <1>2
<1>4. Resolves(p, t, i, S) <=> Works(c, i, S)
  BY <1>1, <1>3 DEF Resolves, Works, Makable, First, Creates
<1> QED
  BY <1>4 DEF c

(* The files that grow from those at the start.                            *)
LEMMA GrowthExists ==
  ASSUME NEW c, NEW n \in Nat
  PROVE  \E made : Grows(c, made, n)
<1> DEFINE S == {m \in Nat : \E made : Grows(c, made, m)}
<1>1. 0 \in S
  <2> DEFINE f == [k \in 0 .. 0 |-> Start(c)]
  <2>1. Grows(c, f, 0)
    BY DEF Grows
  <2> QED
    BY <2>1
<1>2. ASSUME NEW m \in 0 .. n - 1, m \in S PROVE m + 1 \in S
  <2>1. PICK f : Grows(c, f, m)
    BY <1>2
  <2>2. /\ f[0] = Start(c) /\ m \in Nat
        /\ \A k \in 0 .. m - 1 : f[k + 1] = f[k] \cup Adds(c, f[k], k + 1)
    BY <2>1, GrowsIs
  <2> DEFINE g == [k \in 0 .. m + 1 |-> IF k = m + 1 THEN f[m] \cup Adds(c, f[m], m + 1) ELSE f[k]]
  <2>3. ASSUME NEW k \in 0 .. m + 1
        PROVE  g[k] = IF k = 0 THEN Start(c) ELSE g[k - 1] \cup Adds(c, g[k - 1], k)
    <3>1. CASE k = 0
      BY <2>2, <3>1
    <3>2. CASE k = m + 1
      <4>1. k - 1 = m /\ m \in 0 .. m + 1 /\ m # m + 1 /\ k # 0
        BY <2>2, <3>2
      <4>2. g[k - 1] = f[m]
        BY <4>1
      <4> QED
        BY <3>2, <4>1, <4>2
    <3>3. CASE k # 0 /\ k # m + 1
      <4>1. k - 1 \in 0 .. m - 1 /\ k - 1 \in 0 .. m + 1 /\ k - 1 # m + 1 /\ (k - 1) + 1 = k
        BY <2>2, <3>3
      <4>2. g[k] = f[k] /\ g[k - 1] = f[k - 1]
        BY <3>3, <4>1
      <4>3. f[k] = f[k - 1] \cup Adds(c, f[k - 1], k)
        BY <2>2, <4>1
      <4> HIDE DEF g
      <4> QED
        BY <3>3, <4>2, <4>3
    <3> QED
      BY <3>1, <3>2, <3>3
  <2>4. Grows(c, g, m + 1)
    <3>1. g = [k \in 0 .. m + 1 |-> g[k]]
      OBVIOUS
    <3> HIDE DEF g
    <3> QED
      BY <2>3, <3>1 DEF Grows
  <2> QED
    BY <2>2, <2>4
<1> HIDE DEF S
<1>3. 0 .. n \subseteq S
  BY <1>1, <1>2, UpTo
<1>4. n \in S
  BY <1>3
<1> QED
  BY <1>4 DEF S

LEMMA ViewGrows ==
  ASSUME Known, Placed, NEW p \in Process, NEW t \in DOMAIN project.docs
  PROVE  Grows(View(p, t), ThereAfter(p, t), Len(Entries(t))) /\ Len(Entries(t)) \in Nat
<1> DEFINE c == View(p, t)
           n == Len(Entries(t))
           AtStart == {x \in DOMAIN disk : IsRef(run[p].before[x])}
           More(S, k) == {Entries(t)[i].path : i \in {j \in DOMAIN Entries(t) :
                                  /\ project.docs[t].shape = "list" => j = k
                                  /\ Resolves(p, t, j, S)}}
           Body(f) == [k \in 0 .. n |-> IF k = 0 THEN AtStart ELSE f[k - 1] \cup More(f[k - 1], k)]
<1>1. /\ c.doc = project.docs[t] /\ c.doc.tags = Entries(t) /\ c.before = run[p].before
  BY DEF View, Entries
<1>2. n \in Nat
  BY TagsAre DEF Placed
<1>3. ThereAfter(p, t) = CHOOSE f : f = Body(f)
  BY DEF ThereAfter
<1>4. AtStart = Start(c)
  BY <1>1 DEF Start, Known, Typed
<1>5. \A i \in DOMAIN Entries(t) : \A S : Resolves(p, t, i, S) <=> Works(c, i, S)
  BY ViewWorks
<1> HIDE DEF c
<1>6. \A S, k : More(S, k) = Adds(c, S, k)
  BY <1>1, <1>5 DEF Adds
<1> HIDE DEF n, AtStart, More
<1>7. \A f : Grows(c, f, n) <=> f = Body(f)
  BY <1>4, <1>6 DEF Grows
<1>8. \E f : Grows(c, f, n)
  BY <1>2, GrowthExists
<1>9. \E f : f = Body(f)
  BY <1>7, <1>8
<1> DEFINE made == CHOOSE f : f = Body(f)
<1>10. made = Body(made)
  <2> HIDE DEF Body
  <2> QED
    BY <1>9
<1> HIDE DEF made, Body
<1>11. Grows(c, made, n)
  BY <1>7, <1>10
<1> QED
  BY <1>2, <1>3, <1>11 DEF c, n, made

(* A compile that runs alone in a repository where it does not matter in   *)
(* which order things happen.                                              *)
Tame(p) == Compiles(p) /\ Solo(p) /\ NothingShared /\ Unambiguous /\ SecretsAreReal

(* Every thread of such a compile follows the fixed point.                 *)
Attempts ==
  \A p \in Process : Tame(p) =>
     \A t \in Workers(p) : Tries(View(p, t), Mentions(t), disk, thread[p][t])

LEMMA ProjectStays ==
  ASSUME project' = project
  PROVE  /\ Process' = Process
         /\ \A q \in Process : (Workers(q))' = Workers(q) /\ (Compiles(q))' = Compiles(q)
         /\ \A u : (Entries(u))' = Entries(u) /\ (Mentions(u))' = Mentions(u)
         /\ NothingShared' = NothingShared /\ Unambiguous' = Unambiguous
         /\ SecretsAreReal' = SecretsAreReal
         /\ \A q : \A u : run'[q].before = run[q].before => (View(q, u))' = View(q, u)
<1>1. /\ Process' = Process
      /\ \A q : (Workers(q))' = Workers(q) /\ (Compiles(q))' = Compiles(q) /\ (Command(q))' = Command(q)
      /\ \A u : (Entries(u))' = Entries(u) /\ (Mentions(u))' = Mentions(u) /\ (Makes(u))' = Makes(u)
      /\ \A q, u, type : (HasKey(q, u, type))' = HasKey(q, u, type)
  BY DEF Process, Workers, Compiles, Command, Entries, Mentions, Makes, HasKey
<1>2. NothingShared' = NothingShared
  BY <1>1 DEF NothingShared
<1>3. Unambiguous' = Unambiguous
  BY <1>1 DEF Unambiguous
<1>4. SecretsAreReal' = SecretsAreReal
  BY <1>1 DEF SecretsAreReal
<1>5. ASSUME NEW q, NEW u, run'[q].before = run[q].before PROVE (View(q, u))' = View(q, u)
  BY <1>1, <1>5 DEF View
<1> QED
  BY <1>1, <1>2, <1>3, <1>4, <1>5

LEMMA MovesAttempts ==
  ASSUME Known, Outputs, Attempts, NEW p \in Process, run[p].phase = "busy", NEW t \in Workers(p), NEW w,
         Moves(p, t, w),
         Tame(p) =>
            /\ Tries(View(p, t), Mentions(t), disk', w)
            /\ \A u \in Workers(p) \ {t} : Tries(View(p, u), Mentions(u), disk', thread[p][u])
  PROVE  Attempts'
<1>1. project' = project /\ \A q \in Process : run'[q].before = run[q].before
  BY DEF Moves
<1>2. \A q \in Process : Solo(q)' = Solo(q)
  BY DEF Moves, Solo
<1>3. \A u \in Workers(p) : thread'[p][u] = IF u = t THEN w ELSE thread[p][u]
  BY DEF Moves, Known, Typed
<1>4. ASSUME NEW q \in Process, Tame(q), NEW u \in Workers(q)
      PROVE  Tries(View(q, u), Mentions(u), disk', thread'[q][u])
  <2>1. q = p
    BY <1>4, OthersAreNotSolo DEF Outputs, Tame
  <2> QED
    BY <1>3, <1>4, <2>1
<1>5. \A q \in Process : Tame(q)' = Tame(q)
  BY <1>1, <1>2, ProjectStays DEF Tame
<1> QED
  BY <1>1, <1>4, <1>5, ProjectStays DEF Attempts

LEMMA GoAttempts ==
  ASSUME Known, Outputs, Attempts, NEW p \in Process, run[p].phase = "busy", NEW t \in Workers(p), NEW w,
         Moves(p, t, w), disk' = disk,
         Tame(p) => Tries(View(p, t), Mentions(t), disk, w)
  PROVE  Attempts'
BY MovesAttempts DEF Attempts

LEMMA ThreadTries ==
  ASSUME Known, Outputs, Backed, Attempts, NEW p \in Process, Tame(p), NEW t \in Workers(p)
  PROVE  LET c == View(p, t)
             w == thread[p][t]
         IN  /\ t \in DOMAIN project.docs /\ Viewed(p, t, c) /\ Sane(c, Mentions(t)) /\ Clear(c)
             /\ c.doc = project.docs[t] /\ c.doc.tags = Entries(t) /\ c.before = run[p].before
             /\ c.user = Command(p)
             /\ \A i \in DOMAIN Entries(t) :
                   Entries(t)[i].type \in c.keys <=> HasKey(p, t, Entries(t)[i].type)
             /\ Tries(c, Mentions(t), disk, w) /\ Good(Entries(t), run[p].before, w)
             /\ Faithful(Entries(t), Mentions(t), disk, w) /\ CacheMatches(p)
             /\ Mentions(t) \subseteq DOMAIN disk
             /\ \A x \in Mentions(t) : IsRef(disk[x]) => disk[x].plain # NoSecret
             /\ \E made : Grows(c, made, Len(c.doc.tags))
<1> DEFINE c == View(p, t)
<1>1. Compiles(p) /\ Solo(p) /\ NothingShared /\ Unambiguous /\ SecretsAreReal /\ Placed /\ NeverGone
  BY DEF Tame, Outputs, Backed
<1>2. /\ t \in DOMAIN project.docs /\ Good(Entries(t), run[p].before, thread[p][t])
      /\ Faithful(Entries(t), Mentions(t), disk, thread[p][t]) /\ CacheMatches(p)
  BY <1>1, ThreadFollows
<1>3. Sane(c, Mentions(t)) /\ Clear(c)
  BY <1>1, <1>2, ViewIsSane, ViewIsClear
<1>4. Tries(c, Mentions(t), disk, thread[p][t])
  BY DEF Attempts
<1>5. Mentions(t) \subseteq DOMAIN disk
  BY <1>1, <1>2, TagsAre DEF Placed
<1>6. \A x \in Mentions(t) : IsRef(disk[x]) => disk[x].plain # NoSecret
  BY <1>1, <1>5 DEF Backed, Secretive, Holds
<1>7. /\ c.doc = project.docs[t] /\ c.doc.tags = Entries(t) /\ c.before = run[p].before
      /\ c.user = Command(p) /\ c.keys = {type \in Types : HasKey(p, t, type)}
  BY DEF View, Entries
<1>8. \A i \in DOMAIN Entries(t) : Entries(t)[i].type \in Types
  BY <1>1, <1>2, RefsAssumption DEF Placed, Entries, Tag
<1>9. \E made : Grows(c, made, Len(c.doc.tags))
  BY <1>1, <1>2, <1>7, ViewGrows
<1> HIDE DEF c
<1>10. Viewed(p, t, c)
  BY <1>1, <1>7 DEF Viewed
<1>11. \A i \in DOMAIN Entries(t) :
          Entries(t)[i].type \in c.keys <=> HasKey(p, t, Entries(t)[i].type)
  BY <1>7, <1>8
<1> QED
  BY <1>2, <1>3, <1>4, <1>5, <1>6, <1>7, <1>9, <1>10, <1>11 DEF c

LEMMA NextValueAttempts ==
  ASSUME Known, Outputs, Backed, Attempts, NEW p \in Process, run[p].phase = "busy", NEW t \in Workers(p),
         NextValue(p, t)
  PROVE  Attempts'
<1> DEFINE w == thread[p][t]
           later == Unsettled(t, w)
           i == CHOOSE k \in later : \A j \in later : k <= j
           v == [w EXCEPT !.i = i]
           next == IF Settled(t, w) THEN [w EXCEPT !.step = "ok"]
                   ELSE IF later = {} THEN Pass(p, t, w)
                   ELSE IF Current(t, v).sub /\ Current(t, v).funcs # << >>
                        THEN Failed(p, t, v)
                        ELSE Lookup(v, "lookup", Current(t, v).path)
           c == View(p, t)
           tags == Entries(t)
           paths == Mentions(t)
<1>1. Go(p, t, next) /\ project' = project /\ disk' = disk /\ w.step = "next"
  BY DEF NextValue
<1>2. Moves(p, t, next)
  BY <1>1, GoMoves
<1>3. ASSUME Tame(p) PROVE Tries(c, paths, disk, next)
  <2>1. /\ Viewed(p, t, c) /\ Sane(c, paths) /\ Clear(c) /\ Tries(c, paths, disk, w)
        /\ c.doc.tags = tags /\ Good(tags, run[p].before, w) /\ t \in DOMAIN project.docs
    BY <1>3, ThreadTries
  <2>2. Kept \subseteq DOMAIN w
    BY <1>1, <2>1 DEF Good
  <2> HIDE DEF w, c, paths
  <2>3. CASE Settled(t, w)
    <3>1. next = [w EXCEPT !.step = "ok"]
      BY <2>3
    <3>2. next.settled = w.settled /\ next.i = w.i /\ next.step = "ok"
      BY <2>2, <3>1 DEF Kept
    <3>3. w.settled = DOMAIN c.doc.tags
      BY <2>1, <2>3 DEF Settled
    <3> HIDE DEF next
    <3> QED
      BY <1>1, <2>1, <3>2, <3>3, OkTries
  <2>4. CASE ~Settled(t, w) /\ later = {}
    <3>1. next = [w EXCEPT !.i = 0, !.moved = FALSE, !.last = ~w.moved]
      BY <2>4 DEF Pass
    <3> HIDE DEF next
    <3>2. w.settled # DOMAIN c.doc.tags /\ \A k \in DOMAIN c.doc.tags : k > w.i => k \in w.settled
      BY <2>1, <2>4 DEF Settled, Unsettled
    <3> QED
      BY <1>1, <2>1, <2>2, <3>1, <3>2, PassTries
  <2>5. CASE ~Settled(t, w) /\ later # {}
    <3>1. tags \in Seq(Range(tags))
      BY <2>1, TagsAre DEF Outputs, Placed
    <3>2. later \subseteq DOMAIN tags /\ later \subseteq Nat
      <4> HIDE DEF tags
      <4>1. DOMAIN tags \subseteq Nat
        BY <3>1
      <4> QED
        BY <4>1 DEF Unsettled, tags
    <3>3. \E k \in later : \A j \in later : k <= j
      <4> HIDE DEF later
      <4> QED
        BY <2>5, <3>2, SmallestOf
    <3>4. i \in later /\ \A j \in later : i <= j
      <4> HIDE DEF later
      <4> QED
        BY <3>3
    <3>5. v.i = i /\ v.settled = w.settled /\ v.moved = w.moved /\ v.last = w.last
      <4> HIDE DEF i
      <4> QED
        BY <2>2 DEF Kept
    <3> HIDE DEF i, v
    <3>6. /\ i \in DOMAIN c.doc.tags \ w.settled /\ i > w.i
          /\ \A j \in DOMAIN c.doc.tags \ w.settled : j > w.i => i <= j
      BY <2>1, <3>4 DEF Unsettled
    <3>7. Current(t, v) = c.doc.tags[i]
      BY <2>1, <3>5 DEF Current
    <3>8. CASE Current(t, v).sub /\ Current(t, v).funcs # << >>
      <4> DEFINE l == Failed(p, t, v)
      <4>1. next = l
        BY <2>5, <3>8
      <4>2. /\ l.step = IF Again(c, i) /\ ~v.last THEN "next" ELSE "failed"
            /\ l.i = i /\ l.settled = v.settled /\ l.moved = v.moved /\ l.last = v.last
        BY <2>1, <3>5, FailedIsTried
      <4> HIDE DEF next, l
      <4>3. c.doc.tags[i].sub /\ c.doc.tags[i].funcs # << >>
        BY <3>7, <3>8
      <4>4. Tries(c, paths, disk, l)
        BY <1>1, <2>1, <3>5, <3>6, <4>2, <4>3, SubTries
      <4> QED
        BY <4>1, <4>4
    <3>9. CASE ~(Current(t, v).sub /\ Current(t, v).funcs # << >>)
      <4> DEFINE l == Lookup(v, "lookup", Current(t, v).path)
      <4>1. next = l
        BY <2>5, <3>9
      <4>2. /\ l.step = "get" /\ l.i = i /\ l.why = "lookup"
            /\ l.settled = v.settled /\ l.moved = v.moved /\ l.last = v.last
        BY <3>5 DEF Lookup
      <4> HIDE DEF next, l
      <4>3. c.doc.tags[i].sub => c.doc.tags[i].funcs = << >>
        BY <3>7, <3>9
      <4>4. Tries(c, paths, disk, l)
        BY <1>1, <2>1, <3>5, <3>6, <4>2, <4>3, LookupTries
      <4> QED
        BY <4>1, <4>4
    <3> QED
      BY <3>8, <3>9
  <2> QED
    BY <2>3, <2>4, <2>5
<1> HIDE DEF next
<1> QED
  BY <1>1, <1>2, <1>3, GoAttempts

LEMMA CacheIsRight ==
  ASSUME Known, Outputs, NEW p \in Process, Compiles(p), Solo(p), NothingShared, NEW t \in Workers(p),
         thread[p][t].step = "get", thread[p][t].path \in DOMAIN run[p].cache
  PROVE  run[p].cache[thread[p][t].path] = disk[thread[p][t].path]
<1> DEFINE w == thread[p][t]
<1>1. Faithful(Entries(t), Mentions(t), disk, w) /\ CacheMatches(p) /\ t \in DOMAIN project.docs
  BY ThreadFollows
<1>2. w.path \in Mentions(t)
  BY <1>1 DEF Faithful, Looks
<1>3. ASSUME NEW u \in Workers(p), Writing(Entries(u), thread[p][u], w.path) PROVE FALSE
  <2>1. u # t
    BY <1>3 DEF Writing
  <2>2. u \in DOMAIN project.docs /\ Faithful(Entries(u), Mentions(u), disk, thread[p][u])
    BY ThreadFollows
  <2>3. /\ thread[p][u].i \in DOMAIN Entries(u) /\ Entries(u)[thread[p][u].i].funcs # << >>
        /\ Entries(u)[thread[p][u].i].path = w.path
    BY <1>3, <2>2 DEF Writing, Faithful, Looks, Makings, Creating, Making
  <2> QED
    BY <1>1, <1>2, <2>1, <2>2, <2>3, PathsDiffer DEF Outputs, Placed
<1> QED
  BY <1>1, <1>3 DEF CacheMatches

LEMMA ReadAttempts ==
  ASSUME Known, Outputs, Backed, Attempts, NEW p \in Process, run[p].phase = "busy", NEW t \in Workers(p),
         Read(p, t)
  PROVE  Attempts'
<1> DEFINE w == thread[p][t]
           path == w.path
           next == IF path \in DOMAIN run[p].cache THEN Answer(p, t, w, run[p].cache[path])
                   ELSE IF disk[path] = Torn THEN Answer(p, t, w, Torn)
                   ELSE [w EXCEPT !.step = "insert", !.seen = disk[path]]
           c == View(p, t)
           paths == Mentions(t)
<1>1. Go(p, t, next) /\ project' = project /\ disk' = disk /\ w.step = "get"
  BY DEF Read
<1>2. Moves(p, t, next)
  BY <1>1, GoMoves
<1>3. ASSUME Tame(p) PROVE Tries(c, paths, disk, next)
  <2>1. /\ Viewed(p, t, c) /\ Sane(c, paths) /\ Clear(c) /\ Tries(c, paths, disk, w)
        /\ c.doc.tags = Entries(t) /\ Good(Entries(t), run[p].before, w)
        /\ Faithful(Entries(t), paths, disk, w)
        /\ \A x \in paths : IsRef(disk[x]) => disk[x].plain # NoSecret
        /\ \E made : Grows(c, made, Len(c.doc.tags))
    BY <1>3, ThreadTries
  <2>2. Kept \subseteq DOMAIN w /\ Asking \subseteq DOMAIN w
    BY <1>1, <2>1 DEF Good
  <2>3. path \in DOMAIN run[p].cache => run[p].cache[path] = disk[path]
    BY <1>1, <1>3, CacheIsRight DEF Tame
  <2>4. next = Answer(p, t, w, disk[path]) \/ next = [w EXCEPT !.step = "insert", !.seen = disk[path]]
    BY <2>3
  <2> HIDE DEF next, c, paths, w
  <2>5. Tries(c, paths, disk, Answer(p, t, w, disk[w.path]))
    BY <1>1, <2>1, <2>2, AnswerTries
  <2>6. CASE next = [w EXCEPT !.step = "insert", !.seen = disk[path]]
    <3>1. /\ next.step = "insert" /\ next.i = w.i /\ next.settled = w.settled /\ next.moved = w.moved
          /\ next.last = w.last /\ next.why = w.why /\ next.at = w.at /\ next.secret = w.secret
          /\ next.path = w.path
      BY <2>2, <2>6 DEF Kept, Asking
    <3>2. Active(w) /\ Active(next) /\ There(c, next) = There(c, w)
      BY <1>1, <3>1, ThereStays DEF Active
    <3>3. Filling(w) => Filling(next)
      BY <1>1, <3>1 DEF Filling, Written
    <3>4. Tried(c, disk, next)
      BY <1>1, <2>1, <3>1, <3>2 DEF Tries, Tried, Creating, Making, Written
    <3> QED
      BY <2>1, <3>1, <3>2, <3>3, <3>4, GoesOnTries
  <2> QED
    BY <2>4, <2>5, <2>6
<1> HIDE DEF next
<1> QED
  BY <1>1, <1>2, <1>3, GoAttempts

LEMMA InsertAttempts ==
  ASSUME Known, Outputs, Backed, Attempts, NEW p \in Process, run[p].phase = "busy", NEW t \in Workers(p),
         Insert(p, t)
  PROVE  Attempts'
<1> DEFINE w == thread[p][t]
           after == Answer(p, t, w, w.seen)
           c == View(p, t)
           paths == Mentions(t)
<1>1. w.step = "insert"
  BY DEF Insert
<1>2. Moves(p, t, after) /\ disk' = disk
  <2> HIDE DEF after, w
  <2> QED
    BY DEF Insert, Moves, Known, Typed, RunFields, w, after
<1>3. ASSUME Tame(p) PROVE Tries(c, paths, disk, after)
  <2>1. /\ Viewed(p, t, c) /\ Sane(c, paths) /\ Clear(c) /\ Tries(c, paths, disk, w)
        /\ c.doc.tags = Entries(t) /\ Good(Entries(t), run[p].before, w)
        /\ Faithful(Entries(t), paths, disk, w)
        /\ \A x \in paths : IsRef(disk[x]) => disk[x].plain # NoSecret
        /\ \E made : Grows(c, made, Len(c.doc.tags))
    BY <1>3, ThreadTries
  <2>2. Kept \subseteq DOMAIN w /\ Asking \subseteq DOMAIN w
    BY <1>1, <2>1 DEF Good
  <2>3. w.seen = disk[w.path]
    BY <1>1, <2>1 DEF Faithful, Looks
  <2> HIDE DEF c, paths, w
  <2>4. Tries(c, paths, disk, Answer(p, t, w, disk[w.path]))
    BY <1>1, <2>1, <2>2, AnswerTries
  <2> QED
    BY <2>3, <2>4
<1> HIDE DEF after
<1> QED
  BY <1>2, <1>3, GoAttempts

LEMMA LockAttempts ==
  ASSUME Known, Outputs, Backed, Attempts, NEW p \in Process, run[p].phase = "busy", NEW t \in Workers(p),
         Lock(p, t)
  PROVE  Attempts'
<1> DEFINE w == thread[p][t]
           next == Lookup(w, "recheck", w.path)
           c == View(p, t)
           paths == Mentions(t)
<1>1. w.step = "lock"
  BY DEF Lock
<1>2. Moves(p, t, next) /\ disk' = disk
  <2> HIDE DEF next, w
  <2> QED
    BY DEF Lock, Moves, Known, Typed, RunFields, w, next
<1>3. ASSUME Tame(p) PROVE Tries(c, paths, disk, next)
  <2>1. Tries(c, paths, disk, w)
    BY <1>3, ThreadTries
  <2>2. /\ next.step = "get" /\ next.i = w.i /\ next.why = "recheck" /\ next.settled = w.settled
        /\ next.moved = w.moved /\ next.last = w.last /\ next.at = 1 /\ next.secret = NoSecret
    BY DEF Lookup
  <2> HIDE DEF next, c, paths, w
  <2> QED
    BY <1>1, <2>1, <2>2, AsksTries
<1> HIDE DEF next
<1> QED
  BY <1>2, <1>3, GoAttempts

LEMMA ForgetAttempts ==
  ASSUME Known, Outputs, Backed, Attempts, NEW p \in Process, run[p].phase = "busy", NEW t \in Workers(p),
         Forget(p, t)
  PROVE  Attempts'
<1> DEFINE w == thread[p][t]
           path == Target(p, t)
           v == IF Compiles(p) THEN Lookup(w, "readback", path) ELSE [w EXCEPT !.step = "cli"]
           c == View(p, t)
           paths == Mentions(t)
<1>1. Moves(p, t, v) /\ disk' = disk /\ w.step = "forget"
  <2> HIDE DEF v, path
  <2> QED
    BY DEF Forget, Moves, Known, Typed, RunFields, v, path
<1>2. ASSUME Tame(p) PROVE Tries(c, paths, disk, v)
  <2>1. Tries(c, paths, disk, w)
    BY <1>2, ThreadTries
  <2>2. /\ v.step = "get" /\ v.i = w.i /\ v.why = "readback" /\ v.settled = w.settled
        /\ v.moved = w.moved /\ v.last = w.last
    BY <1>2 DEF Lookup, Tame
  <2> HIDE DEF v, c, paths, w
  <2> QED
    BY <1>1, <2>1, <2>2, AsksTries
<1> HIDE DEF v
<1> QED
  BY <1>1, <1>2, GoAttempts

LEMMA EvaluateAttempts ==
  ASSUME Known, Outputs, Backed, Attempts, NEW p \in Process, run[p].phase = "busy", NEW t \in Workers(p),
         Evaluate(p, t)
  PROVE  Attempts'
<1> DEFINE w == thread[p][t]
           tag == Current(t, w)
           f == tag.funcs[w.at]
           s == Sealed(tag.type, w.secret, Key(t, tag.type))
           done == w.at > Len(tag.funcs)
           c == View(p, t)
           paths == Mentions(t)
           S == There(c, w)
<1>1. w.step = "evaluate" /\ project' = project /\ disk' = disk
  BY DEF Evaluate
<1>2. \/ ~done /\ f.name = "random"
         /\ Go(p, t, [w EXCEPT !.at = @ + 1, !.secret = << "drawn", drawn + 1 >>])
      \/ ~done /\ f.name = "derive" /\ w.secret = NoSecret /\ Go(p, t, Failed(p, t, w))
      \/ ~done /\ f.name = "derive" /\ w.secret # NoSecret
         /\ Go(p, t, [w EXCEPT !.at = @ + 1, !.secret = << "derived", @ >>])
      \/ ~done /\ f.name = "reveal" /\ Go(p, t, Lookup(w, "reveal", f.path))
      \/ done /\ (w.secret = NoSecret \/ ~HasKey(p, t, tag.type)) /\ Go(p, t, Failed(p, t, w))
      \/ done /\ w.secret # NoSecret /\ HasKey(p, t, tag.type)
         /\ Go(p, t, With([w EXCEPT !.step = "kv_read"], "place", tag.place))
      \/ done /\ w.secret # NoSecret /\ HasKey(p, t, tag.type)
         /\ Go(p, t, With([w EXCEPT !.step = "truncate", !.path = tag.path], "new", s))
  BY DEF Evaluate
<1>3. ASSUME NEW v, Go(p, t, v), Tame(p) => Tries(c, paths, disk, v) PROVE Attempts'
  <2>1. Moves(p, t, v)
    BY <1>1, <1>3, GoMoves
  <2> QED
    BY <1>1, <1>3, <2>1, GoAttempts
<1>4. ASSUME Tame(p)
      PROVE  /\ Viewed(p, t, c) /\ Sane(c, paths) /\ Clear(c) /\ Tries(c, paths, disk, w)
             /\ c.doc.tags = Entries(t) /\ tag = c.doc.tags[w.i] /\ w.i \in DOMAIN c.doc.tags
             /\ Kept \subseteq DOMAIN w /\ Asking \subseteq DOMAIN w
             /\ tag.type \in c.keys <=> HasKey(p, t, tag.type)
             /\ w.at \in Nat \ {0} /\ tag.funcs \in Seq(Range(tag.funcs))
             /\ \A k \in DOMAIN tag.funcs : tag.funcs[k].name = "reveal" => k = 1
             /\ tag.path \notin S /\ c.before[tag.path] = Missing /\ Makable(c, tag)
             /\ tag.sub => tag.funcs = << >>
             /\ \/ w.at = 1 /\ w.secret = NoSecret
                \/ w.at > 1 /\ w.secret # NoSecret /\ First(tag, S)
             /\ SecretsAreReal
  <2>1. /\ Viewed(p, t, c) /\ Sane(c, paths) /\ Clear(c) /\ Tries(c, paths, disk, w)
        /\ c.doc.tags = Entries(t) /\ Good(Entries(t), run[p].before, w)
        /\ Faithful(Entries(t), paths, disk, w)
        /\ \A i \in DOMAIN Entries(t) :
              Entries(t)[i].type \in c.keys <=> HasKey(p, t, Entries(t)[i].type)
    BY <1>4, ThreadTries
  <2>2. tag = c.doc.tags[w.i]
    BY <2>1 DEF Current
  <2> HIDE DEF c, paths, w, tag, S
  <2>3. Kept \subseteq DOMAIN w /\ Asking \subseteq DOMAIN w
    BY <1>1, <2>1 DEF Good
  <2>4. w.i \in DOMAIN c.doc.tags /\ w.at \in Nat \ {0}
    BY <1>1, <2>1 DEF Faithful, Looks
  <2>5. tag.type \in c.keys <=> HasKey(p, t, tag.type)
    BY <2>1, <2>2, <2>4
  <2>6. tag.funcs \in Seq(Range(tag.funcs)) /\ \A k \in DOMAIN tag.funcs : tag.funcs[k].name = "reveal" => k = 1
    BY <2>1, <2>2, <2>4 DEF Sane
  <2>7. /\ tag.path \notin S /\ c.before[tag.path] = Missing /\ Makable(c, tag)
        /\ tag.sub => tag.funcs = << >>
        /\ \/ w.at = 1 /\ w.secret = NoSecret
           \/ w.at > 1 /\ w.secret # NoSecret /\ First(tag, S)
    BY <1>1, <2>1, <2>2 DEF Tries, Tried, Active, Creating, Making, S
  <2> QED
    BY <1>4, <2>1, <2>2, <2>3, <2>4, <2>5, <2>6, <2>7 DEF Tame
<1>5. ASSUME Tame(p), ~Works(c, w.i, S) PROVE Tries(c, paths, disk, Failed(p, t, w))
  <2> DEFINE v == Failed(p, t, w)
  <2>1. /\ v.step = IF Again(c, w.i) /\ ~w.last THEN "next" ELSE "failed"
        /\ v.i = w.i /\ v.settled = w.settled /\ v.moved = w.moved /\ v.last = w.last
    BY <1>4, <1>5, FailedIsTried
  <2>2. Active(w) /\ ~Filling(w)
    BY <1>1 DEF Active, Filling, Written
  <2>3. Sane(c, paths) /\ Clear(c) /\ Tries(c, paths, disk, w) /\ ~Works(c, w.i, There(c, w))
    BY <1>4, <1>5
  <2> HIDE DEF v, c, paths, w
  <2>4. Tries(c, paths, disk, v)
    BY <2>1, <2>2, <2>3, FailedTries
  <2> QED
    BY <2>4 DEF v
<1>6. ASSUME Tame(p), done, w.secret # NoSecret, HasKey(p, t, tag.type) PROVE Works(c, w.i, S)
  BY <1>4, <1>6 DEF Works
<1>7. ASSUME Tame(p), done, w.secret = NoSecret \/ ~HasKey(p, t, tag.type) PROVE ~Works(c, w.i, S)
  <2>1. w.at = 1 => tag.funcs = << >>
    BY <1>4, <1>7
  <2> HIDE DEF done, S
  <2> QED
    BY <1>4, <1>7, <2>1 DEF Works, Makable
<1> HIDE DEF w, tag, f, s, c, paths, S, done
<1>8. ASSUME NEW b, ~done, f.name \in {"random", "derive"}, Go(p, t, [w EXCEPT !.at = @ + 1, !.secret = b]),
             f.name = "derive" => w.secret # NoSecret,
             Tame(p) => b # NoSecret
      PROVE  Attempts'
  <2> DEFINE v == [w EXCEPT !.at = @ + 1, !.secret = b]
  <2>1. ASSUME Tame(p) PROVE Tries(c, paths, disk, v)
    <3>1. /\ v.step = "evaluate" /\ v.i = w.i /\ v.settled = w.settled /\ v.moved = w.moved
          /\ v.last = w.last /\ v.at = w.at + 1 /\ v.secret = b
      BY <1>1, <1>4, <2>1 DEF Kept, Asking
    <3> HIDE DEF v
    <3>2. v.at > 1 /\ v.secret # NoSecret
      BY <1>4, <1>8, <2>1, <3>1
    <3>3. First(tag, S)
      BY <1>4, <1>8, <2>1 DEF First, f
    <3> QED
      BY <1>1, <1>4, <2>1, <3>1, <3>2, <3>3, MakesTries DEF S
  <2>2. Go(p, t, v)
    BY <1>8
  <2> HIDE DEF v
  <2> QED
    BY <1>3, <2>1, <2>2
<1>9. CASE ~done /\ f.name = "random"
           /\ Go(p, t, [w EXCEPT !.at = @ + 1, !.secret = << "drawn", drawn + 1 >>])
  <2>1. Tame(p) => << "drawn", drawn + 1 >> # NoSecret
    BY <1>4 DEF SecretsAreReal
  <2> QED
    BY <1>8, <1>9, <2>1
<1>10. CASE ~done /\ f.name = "derive" /\ w.secret # NoSecret
            /\ Go(p, t, [w EXCEPT !.at = @ + 1, !.secret = << "derived", @ >>])
  <2>1. Tame(p) => << "derived", w.secret >> # NoSecret
    BY <1>4 DEF SecretsAreReal
  <2>2. Go(p, t, [w EXCEPT !.at = @ + 1, !.secret = << "derived", w.secret >>])
    BY <1>10
  <2> QED
    BY <1>8, <1>10, <2>1, <2>2
<1>11. CASE ~done /\ f.name = "derive" /\ w.secret = NoSecret /\ Go(p, t, Failed(p, t, w))
  <2>1. ASSUME Tame(p) PROVE ~Works(c, w.i, S)
    <3>1. w.at = 1
      BY <1>4, <1>11, <2>1
    <3> QED
      BY <1>4, <1>11, <2>1, <3>1 DEF Works, First, f
  <2> QED
    BY <1>3, <1>5, <1>11, <2>1
<1>12. CASE ~done /\ f.name = "reveal" /\ Go(p, t, Lookup(w, "reveal", f.path))
  <2> DEFINE v == Lookup(w, "reveal", f.path)
  <2>1. ASSUME Tame(p) PROVE Tries(c, paths, disk, v)
    <3>1. /\ v.step = "get" /\ v.why = "reveal" /\ v.i = w.i /\ v.settled = w.settled /\ v.moved = w.moved
          /\ v.last = w.last /\ v.at = w.at /\ v.path = f.path
      BY DEF Lookup
    <3> HIDE DEF v
    <3>2. w.at \in DOMAIN tag.funcs
      BY <1>4, <1>12, <2>1 DEF done
    <3>3. w.at = 1
      BY <1>4, <1>12, <2>1, <3>2 DEF f
    <3> QED
      BY <1>1, <1>4, <1>12, <2>1, <3>1, <3>3, RevealTries DEF f
  <2> HIDE DEF v
  <2>2. Tame(p) => Tries(c, paths, disk, v)
    BY <2>1
  <2> QED
    BY <1>3, <1>12, <2>2 DEF v
<1>13. CASE done /\ (w.secret = NoSecret \/ ~HasKey(p, t, tag.type)) /\ Go(p, t, Failed(p, t, w))
  BY <1>3, <1>5, <1>7, <1>13
<1>14. ASSUME NEW v, Go(p, t, v), v.step \in {"kv_read", "truncate"},
              Tame(p) => /\ v.i = w.i /\ v.settled = w.settled /\ v.moved = w.moved /\ v.last = w.last
                         /\ Works(c, w.i, S)
       PROVE  Attempts'
  <2>1. ASSUME Tame(p) PROVE Tries(c, paths, disk, v)
    BY <1>1, <1>4, <1>14, <2>1, MakesTries DEF S
  <2> QED
    BY <1>3, <1>14, <2>1
<1>15. CASE done /\ w.secret # NoSecret /\ HasKey(p, t, tag.type)
            /\ Go(p, t, With([w EXCEPT !.step = "kv_read"], "place", tag.place))
  <2> DEFINE u == [w EXCEPT !.step = "kv_read"]
             v == With(u, "place", tag.place)
  <2>1. "step" \in DOMAIN w
    BY ThreadIs DEF w
  <2>2. /\ DOMAIN u = DOMAIN w /\ u.step = "kv_read" /\ \A x \in DOMAIN w \ {"step"} : u[x] = w[x]
    BY <2>1
  <2>3. Go(p, t, v)
    BY <1>15
  <2> HIDE DEF u
  <2>4. /\ v.step = "kv_read"
        /\ \A x \in DOMAIN w \ {"step", "place"} : v[x] = w[x]
    BY <2>1, <2>2 DEF With
  <2> HIDE DEF v
  <2>5. Tame(p) => /\ v.i = w.i /\ v.settled = w.settled /\ v.moved = w.moved /\ v.last = w.last
    BY <1>4, <2>4 DEF Kept
  <2> QED
    BY <1>6, <1>14, <1>15, <2>3, <2>4, <2>5
<1>16. CASE done /\ w.secret # NoSecret /\ HasKey(p, t, tag.type)
            /\ Go(p, t, With([w EXCEPT !.step = "truncate", !.path = tag.path], "new", s))
  <2> DEFINE u == [w EXCEPT !.step = "truncate", !.path = tag.path]
             v == With(u, "new", s)
  <2>1. "step" \in DOMAIN w
    BY ThreadIs DEF w
  <2>2. /\ DOMAIN u = DOMAIN w /\ u.step = "truncate" /\ \A x \in DOMAIN w \ {"step", "path"} : u[x] = w[x]
    BY <2>1
  <2>3. Go(p, t, v)
    BY <1>16
  <2> HIDE DEF u
  <2>4. /\ v.step = "truncate"
        /\ \A x \in DOMAIN w \ {"step", "path", "new"} : v[x] = w[x]
    BY <2>1, <2>2 DEF With
  <2> HIDE DEF v
  <2>5. Tame(p) => /\ v.i = w.i /\ v.settled = w.settled /\ v.moved = w.moved /\ v.last = w.last
    BY <1>4, <2>4 DEF Kept
  <2> QED
    BY <1>6, <1>14, <1>16, <2>3, <2>4, <2>5
<1> QED
  BY <1>2, <1>9, <1>10, <1>11, <1>12, <1>13, <1>15, <1>16 DEF w, tag, f, s, done

LEMMA KvAttempts ==
  ASSUME Known, Outputs, Backed, Attempts, NEW p \in Process, run[p].phase = "busy", NEW t \in Workers(p),
         KvRead(p, t) \/ KvWrite(p, t)
  PROVE  Attempts'
<1> DEFINE w == thread[p][t]
           read == IF w.place[1] \in DOMAIN vault THEN vault[w.place[1]] ELSE << >>
           r == With([w EXCEPT !.step = "kv_write"], "kv", read)
           s == Sealed("vaultkv", w.place, NoKey)
           v == With([w EXCEPT !.step = "truncate"], "new", s)
           c == View(p, t)
           paths == Mentions(t)
<1>1. w.step \in {"kv_read", "kv_write"} /\ "step" \in DOMAIN w /\ project' = project /\ disk' = disk
  BY ThreadIs DEF KvRead, KvWrite
<1>2. Go(p, t, r) \/ Go(p, t, v)
  BY DEF KvRead, KvWrite
<1>3. ASSUME Tame(p)
      PROVE  /\ Tries(c, paths, disk, w) /\ Kept \subseteq DOMAIN w
             /\ Works(c, w.i, There(c, w))
  <2>1. Tries(c, paths, disk, w) /\ Good(Entries(t), run[p].before, w)
    BY <1>3, ThreadTries
  <2> HIDE DEF c, w, paths
  <2>2. Kept \subseteq DOMAIN w
    BY <1>1, <2>1 DEF Good
  <2>3. Works(c, w.i, There(c, w))
    BY <1>1, <2>1 DEF Tries, Tried, Active
  <2> QED
    BY <2>1, <2>2, <2>3
<1> HIDE DEF w, read, s, c, paths
<1>4. /\ r.step = "kv_write" /\ v.step = "truncate"
      /\ \A x \in DOMAIN w \ {"step", "kv", "new"} : r[x] = w[x] /\ v[x] = w[x]
  BY <1>1 DEF With
<1> HIDE DEF r, v
<1>5. ASSUME Tame(p)
      PROVE  /\ r.i = w.i /\ r.settled = w.settled /\ r.moved = w.moved /\ r.last = w.last
             /\ v.i = w.i /\ v.settled = w.settled /\ v.moved = w.moved /\ v.last = w.last
  BY <1>3, <1>4, <1>5 DEF Kept
<1>6. ASSUME Tame(p) PROVE Tries(c, paths, disk, r) /\ Tries(c, paths, disk, v)
  BY <1>1, <1>3, <1>4, <1>5, <1>6, MakesTries
<1>7. ASSUME NEW x, Go(p, t, x), x \in {r, v} PROVE Attempts'
  <2>1. Moves(p, t, x)
    BY <1>1, <1>7, GoMoves
  <2> QED
    BY <1>1, <1>6, <1>7, <2>1, GoAttempts DEF c, paths
<1> QED
  BY <1>2, <1>7

LEMMA TruncateTries ==
  ASSUME NEW c, NEW paths, Sane(c, paths), NEW d, NEW w, Tries(c, paths, d, w), paths \subseteq DOMAIN d,
         NEW e, NEW put, e = [d EXCEPT ![c.doc.tags[w.i].path] = put],
         NEW v, v.i = w.i, v.settled = w.settled, v.moved = w.moved, v.last = w.last,
         w.step = "truncate", v.step = "fill"
  PROVE  Tries(c, paths, e, v)
BY WriteTries

LEMMA FillTries ==
  ASSUME NEW c, NEW paths, Sane(c, paths), NEW d, NEW w, Tries(c, paths, d, w), paths \subseteq DOMAIN d,
         NEW e, NEW put, e = [d EXCEPT ![c.doc.tags[w.i].path] = put],
         NEW v, v.i = w.i, v.settled = w.settled, v.moved = w.moved, v.last = w.last,
         w.step = "fill", v.step = "forget", IsRef(put)
  PROVE  Tries(c, paths, e, v)
BY WriteTries

LEMMA WriteAttempts ==
  ASSUME Known, Outputs, Backed, Attempts, NEW p \in Process, run[p].phase = "busy", NEW t \in Workers(p),
         Truncate(p, t) \/ Fill(p, t)
  PROVE  Attempts'
<1> DEFINE w == thread[p][t]
           c == View(p, t)
           paths == Mentions(t)
           x == Entries(t)[w.i].path
<1>1. PICK step \in {"fill", "forget"} :
        /\ Go(p, t, [w EXCEPT !.step = step]) /\ project' = project
        /\ w.step = (IF step = "fill" THEN "truncate" ELSE "fill")
        /\ disk' = [disk EXCEPT ![Target(p, t)] = IF step = "fill" THEN Torn ELSE w.new]
  BY DEF Truncate, Fill
<1> DEFINE v == [w EXCEPT !.step = step]
           new == IF step = "fill" THEN Torn ELSE w.new
<1>2. Moves(p, t, v)
  BY <1>1, GoMoves
<1>3. ASSUME Tame(p)
      PROVE  /\ Tries(c, paths, disk', v)
             /\ \A u \in Workers(p) \ {t} : Tries(View(p, u), Mentions(u), disk', thread[p][u])
  <2>1. /\ Sane(c, paths) /\ Tries(c, paths, disk, w) /\ t \in DOMAIN project.docs
        /\ c.doc.tags = Entries(t) /\ Good(Entries(t), run[p].before, w)
        /\ Faithful(Entries(t), paths, disk, w) /\ paths \subseteq DOMAIN disk
    BY <1>3, ThreadTries
  <2>2. Target(p, t) = x
    BY <1>3 DEF Target, Current, Tame
  <2>3. disk' = [disk EXCEPT ![x] = new]
    BY <1>1, <2>2
  <2>4. /\ Kept \subseteq DOMAIN w /\ w.i \in DOMAIN Entries(t) /\ Entries(t)[w.i].funcs # << >>
        /\ step = "forget" => IsRef(new)
    BY <1>1, <2>1 DEF Good, Ready, Faithful, Looks, Makings, Creating, Making, IsRef
  <2>5. v.step = step /\ v.i = w.i /\ v.settled = w.settled /\ v.moved = w.moved /\ v.last = w.last
    <3> HIDE DEF w
    <3> QED
      BY <2>4 DEF Kept
  <2> HIDE DEF v, w, c, new
  <2>6. Tries(c, paths, disk', v)
    <3>1. disk' = [disk EXCEPT ![c.doc.tags[w.i].path] = new]
      BY <2>1, <2>3
    <3>2. v.i = w.i /\ v.settled = w.settled /\ v.moved = w.moved /\ v.last = w.last
      BY <2>5
    <3>3. Sane(c, paths) /\ Tries(c, paths, disk, w) /\ paths \subseteq DOMAIN disk
      BY <2>1
    <3>4. CASE step = "fill"
      <4>1. w.step = "truncate" /\ v.step = "fill"
        BY <1>1, <2>5, <3>4
      <4> HIDE DEF paths, x
      <4> QED
        BY <3>1, <3>2, <3>3, <4>1, TruncateTries
    <3>5. CASE step = "forget"
      <4>1. w.step = "fill" /\ v.step = "forget" /\ IsRef(new)
        BY <1>1, <2>4, <2>5, <3>5
      <4> HIDE DEF paths, x
      <4> QED
        BY <3>1, <3>2, <3>3, <4>1, FillTries
    <3> QED
      BY <3>4, <3>5
  <2>7. ASSUME NEW u \in Workers(p) \ {t} PROVE Tries(View(p, u), Mentions(u), disk', thread[p][u])
    <3>1. /\ Sane(View(p, u), Mentions(u)) /\ Tries(View(p, u), Mentions(u), disk, thread[p][u])
          /\ u \in DOMAIN project.docs
      BY <1>3, ThreadTries
    <3>2. x \notin Mentions(u)
      BY <1>3, <2>1, <2>4, <3>1, PathsDiffer DEF Outputs, Placed, Tame
    <3>3. \A y \in Mentions(u) : disk'[y] = disk[y]
      <4>1. Mentions(u) \subseteq DOMAIN disk
        BY <3>1, TagsAre DEF Outputs, Placed
      <4> QED
        BY <2>3, <3>2, <4>1
    <3> QED
      BY <3>1, <3>3, TriesStays
  <2> QED
    BY <2>6, <2>7
<1> HIDE DEF v
<1> QED
  BY <1>2, <1>3, MovesAttempts

LEMMA CliAttempts ==
  ASSUME Known, Outputs, Attempts, NEW p \in Process, run[p].phase = "busy", "cli" \in Workers(p),
         Load(p) \/ CheckRef(p)
  PROVE  Attempts'
<1>1. thread[p]["cli"].step \in {"load", "cli"}
  BY DEF Load, CheckRef
<1>2. ~Tame(p)
  BY <1>1, ThreadIs DEF CompileSteps, CliSteps, Tame
<1>3. project' = project /\ disk' = disk /\ \E v : Go(p, "cli", v)
  BY DEF Load, CheckRef
<1>4. PICK v : Go(p, "cli", v)
  BY <1>3
<1>5. Moves(p, "cli", v)
  BY <1>3, <1>4, GoMoves
<1> QED
  BY <1>2, <1>3, <1>5, GoAttempts

LEMMA StartTargetAttempts ==
  ASSUME Known, Outputs, Backed, Attempts, NEW p \in Process, NEW t \in Workers(p), StartTarget(p, t)
  PROVE  Attempts'
<1>1. run[p].phase = "busy" /\ thread[p][t] = Idle /\ Go(p, t, Fresh) /\ project' = project /\ disk' = disk
  BY DEF StartTarget
<1>2. thread[p][t].step = "idle"
  BY <1>1 DEF Idle
<1>3. Moves(p, t, Fresh)
  BY <1>1, GoMoves
<1>4. ASSUME Tame(p) PROVE Tries(View(p, t), Mentions(t), disk, Fresh)
  <2>1. Sane(View(p, t), Mentions(t)) /\ Tries(View(p, t), Mentions(t), disk, thread[p][t])
    BY <1>4, ThreadTries
  <2> QED
    BY <1>2, <2>1, FreshTries
<1> QED
  BY <1>1, <1>3, <1>4, GoAttempts

LEMMA StartRunAttempts ==
  ASSUME Known, Outputs, Attempts, NEW p \in Process, StartRun(p)
  PROVE  Attempts'
<1> DEFINE fresh == [Run("busy", disk) EXCEPT !.alone = Running = {}]
<1>1. /\ project' = project /\ disk' = disk /\ run[p].phase = "idle"
      /\ run' = [q \in Process |-> IF q = p THEN fresh ELSE [run[q] EXCEPT !.alone = FALSE]]
  BY DEF StartRun
<1>2. fresh.before = disk
  BY DEF Run
<1> HIDE DEF fresh
<1>3. ASSUME NEW q \in Process, Solo(q)' PROVE q = p
  BY <1>1, <1>3 DEF Known, Typed, RunFields, Solo
<1>4. ASSUME Tame(p)', NEW t \in Workers(p)
      PROVE  Tries((View(p, t))', Mentions(t), disk, thread'[p][t])
  <2> DEFINE c == (View(p, t))'
             w == thread'[p][t]
  <2>1. Compiles(p)
    BY <1>1, <1>4, ProjectStays DEF Tame
  <2>2. w.step = "idle"
    BY <1>1, <2>1 DEF StartRun, Known, NotStarted
  <2>3. c.before = disk
    <3>1. run'[p].before = disk
      BY <1>1, <1>2
    <3> QED
      BY <3>1 DEF View
  <2> HIDE DEF c, w
  <2>4. Held(c, Mentions(t), disk, w)
    BY <2>3 DEF Held
  <2>5. Tried(c, disk, w) /\ \A made : Passed(c, made, w)
    BY <2>2 DEF Tried, Active, Passed
  <2>6. Tries(c, Mentions(t), disk, w)
    BY <2>4, <2>5 DEF Tries
  <2> QED
    BY <2>6 DEF c, w
<1>5. \A q \in Process : Tame(q)' => q = p
  BY <1>3 DEF Tame
<1> QED
  BY <1>1, <1>4, <1>5, ProjectStays DEF Attempts

LEMMA EndAttempts ==
  ASSUME Known, Attempts, NEW p \in Process, EndRun(p) \/ Crash(p)
  PROVE  Attempts'
<1>1. /\ project' = project /\ disk' = disk /\ thread' = thread /\ run[p].phase = "busy"
      /\ \E phase \in {"done", "crashed"} : run' = [run EXCEPT ![p].phase = phase]
  BY DEF EndRun, Crash
<1>2. \A q \in Process :
         /\ run'[q].alone = run[q].alone /\ run'[q].before = run[q].before
         /\ run'[q].phase \in {"busy", "done"} => run[q].phase \in {"busy", "done"}
  BY <1>1 DEF Known, Typed, RunFields
<1>3. \A q \in Process : Tame(q)' => Tame(q)
  BY <1>1, <1>2, ProjectStays DEF Tame, Solo
<1> QED
  BY <1>1, <1>2, <1>3, ProjectStays DEF Attempts

LEMMA NextAttempts == ASSUME Known, Outputs, Backed, Attempts, [Next]_vars PROVE Attempts'
<1>1. CASE UNCHANGED vars
  <2>1. project' = project /\ disk' = disk /\ run' = run /\ thread' = thread
    BY <1>1 DEF vars
  <2>2. \A q \in Process : Tame(q)' = Tame(q)
    BY <2>1, ProjectStays DEF Tame, Solo
  <2> QED
    BY <2>1, <2>2, ProjectStays DEF Attempts
<1>2. ASSUME NEW p \in Process, StartRun(p) \/ EndRun(p) \/ Crash(p) PROVE Attempts'
  BY <1>2, StartRunAttempts, EndAttempts
<1>3. ASSUME NEW p \in Process, NEW t \in Workers(p), StartTarget(p, t) PROVE Attempts'
  BY <1>3, StartTargetAttempts
<1>4. ASSUME NEW p \in Process, NEW t \in Workers(p), Step(p, t) PROVE Attempts'
  <2>1. run[p].phase = "busy"
    BY <1>4 DEF Step
  <2>2. ASSUME t = "cli", Load(p) \/ CheckRef(p) PROVE Attempts'
    BY <2>1, <2>2, CliAttempts
  <2> QED
    BY <1>4, <2>1, <2>2, NextValueAttempts, ReadAttempts, InsertAttempts, LockAttempts,
       EvaluateAttempts, KvAttempts, WriteAttempts, ForgetAttempts DEF Step
<1> QED
  BY <1>1, <1>2, <1>3, <1>4 DEF Next

(* A compile that ran alone has succeeded for exactly the targets whose    *)
(* refs all exist or can be made, in whatever order their keys are written *)
(* (compile_value, REF-17, REF-21), in a repository that is unambiguous    *)
(* and whose secrets are real.                                             *)
THEOREM TargetsAlwaysResolve == Spec => [](Unambiguous /\ SecretsAreReal => TargetsResolve)
<1>1. Init => Known /\ Outputs /\ Backed /\ Attempts
  <2>1. Init => Attempts
    <3>1. Init => \A p \in Process : ~Solo(p)
      BY DEF Init, Run, Solo
    <3> QED
      BY <3>1 DEF Attempts, Tame
  <2> QED
    BY <2>1, InitKnown, InitOutputs, InitBacked
<1>2. Known /\ Outputs /\ Backed /\ Attempts /\ [Next]_vars => (Known /\ Outputs /\ Backed /\ Attempts)'
  BY NextKeeps, NextOutputs, NextBacked, NextAttempts
<1>3. Known /\ Outputs /\ Backed /\ Attempts => (Unambiguous /\ SecretsAreReal => TargetsResolve)
  <2> SUFFICES ASSUME Known, Outputs, Backed, Attempts, Unambiguous, SecretsAreReal, NothingShared,
                      NEW p \in Process, Compiles(p), DoneAlone(p), NEW t \in Workers(p)
               PROVE  Succeeded(p, t) <=>
                        \A i \in DOMAIN Entries(t) :
                           Resolves(p, t, i, ThereAfter(p, t)[IF project.docs[t].shape = "list"
                                                              THEN i - 1 ELSE Len(Entries(t))])
    BY DEF TargetsResolve
  <2> DEFINE c == View(p, t)
             w == thread[p][t]
             made == ThereAfter(p, t)
  <2>1. Tame(p) /\ Placed
    BY DEF Tame, Solo, DoneAlone, Outputs
  <2>2. /\ t \in DOMAIN project.docs /\ Tries(c, Mentions(t), disk, w) /\ c.doc = project.docs[t]
        /\ c.doc.tags = Entries(t)
    BY <2>1, ThreadTries
  <2>3. Grows(c, made, Len(c.doc.tags))
    BY <2>1, <2>2, ViewGrows
  <2>4. \A i \in DOMAIN Entries(t) : \A S : Resolves(p, t, i, S) <=> Works(c, i, S)
    BY <2>1, <2>2, ViewWorks
  <2>5. w.step \in {"ok", "failed"}
    BY DEF Backed, EndedWell, DoneAlone
  <2> HIDE DEF c, w, made
  <2>6. Passed(c, made, w)
    BY <2>2, <2>3 DEF Tries
  <2>7. \A i \in DOMAIN Entries(t) :
           Resolves(p, t, i, made[IF project.docs[t].shape = "list" THEN i - 1 ELSE Len(Entries(t))])
           <=> Works(c, i, made[Level(c, i)])
    BY <2>2, <2>4 DEF Level
  <2>8. CASE w.step = "ok"
    BY <2>2, <2>6, <2>7, <2>8 DEF Passed, Succeeded, w, made
  <2>9. CASE w.step = "failed"
    BY <2>2, <2>6, <2>7, <2>9 DEF Passed, Succeeded, w, made
  <2> QED
    BY <2>5, <2>8, <2>9
<1> QED
  BY <1>1, <1>2, <1>3, PTL DEF Spec
=============================================================================
