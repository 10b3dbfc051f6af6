---------------------------- MODULE LongPollProofs ----------------------------
(***************************************************************************)
(* The safety of LongPoll, for any number of clients, passes and restarts  *)
(* and any length of the history.                                          *)
(***************************************************************************)
EXTENDS LongPoll, FiniteSetTheorems, SequenceTheorems, TLAPS

(* ------------------------------ The invariant. ------------------------- *)

Reply == [generation : Nat, timed_out : BOOLEAN, changes : Seq(Nat)]

Typed ==
  /\ epoch \in Nat /\ generation \in Nat /\ history \in Seq(Nat)
  /\ pc \in [Clients -> Stages]
  /\ conn \in [Clients -> Nat] /\ since \in [Clients -> Nat]
  /\ reply \in [Clients -> Reply]
  /\ shown \in [Clients -> Nat \X Nat]
  /\ first \in [Clients -> Nat] /\ printed \in [Clients -> Seq(Nat)]
  /\ skipped \in [Clients -> BOOLEAN]

(* The history is the last generations, as many as there are or as fit.    *)
Recent ==
  /\ Len(history) <= generation /\ Len(history) <= HistoryLimit
  /\ Len(history) = generation \/ Len(history) = HistoryLimit
  /\ \A i \in 1 .. Len(history) : history[i] = generation - Len(history) + i

(* Connections go to this daemon or to one that is gone; who has not been  *)
(* connected has printed nothing.                                          *)
Connections ==
  /\ \A c \in Clients : conn[c] <= epoch
  /\ \A c \in Watchers : pc[c] = "off" => printed[c] = << >>

Connected(c) == Serving(c) /\ pc[c] \notin {"off", "ended"}

(* Everything up to the generation the client asks from is on its screen.  *)
Covered(c) ==
  /\ c \in editors /\ since[c] > 0 => shown[c][1] = epoch /\ shown[c][2] >= since[c]
  /\ c \in Watchers => first[c] <= since[c] /\ ToSet(printed[c]) = first[c] + 1 .. since[c]

(* An answer is of the client's daemon; one that is late and skips nothing *)
(* brings the client no further; one to a watcher that skips nothing lacks *)
(* nothing.                                                                *)
Answered(c) ==
  LET r == reply[c] IN
  /\ r.generation <= generation
  /\ r.timed_out => r.changes = << >>
  /\ r.timed_out /\ ~skipped[c] => r.generation = since[c]
  /\ c \in Watchers /\ ~r.timed_out /\ ~skipped[c] => r.generation - since[c] <= HistoryLimit

Following ==
  \A c \in Clients :
    Connected(c) => /\ since[c] <= generation
                    /\ ~skipped[c] => Covered(c)
                    /\ pc[c] = "answered" => Answered(c)

Safe == Typed /\ Recent /\ Connections /\ AnswersComplete /\ Following
-----------------------------------------------------------------------------
(* The filter of wait_for, on a history of consecutive generations.        *)

LEMMA UnseenIs ==
  ASSUME Typed, Recent, NEW from \in Nat, from < generation
  PROVE  LET base == IF from > generation - Len(history) THEN from ELSE generation - Len(history) IN
         Unseen(from) = [m \in 1 .. generation - base |-> base + m]
<1> DEFINE n == Len(history)
           base == IF from > generation - n THEN from ELSE generation - n
           k == base - (generation - n)
           later == {i \in DOMAIN history : history[i] > from}
           Nth(m) == CHOOSE i \in later : Cardinality({j \in later : j <= i}) = m
<1>1. /\ generation \in Nat /\ n \in Nat /\ n <= generation /\ DOMAIN history = 1 .. n
      /\ \A i \in 1 .. n : history[i] = generation - n + i
  BY DEF Typed, Recent
<1> HIDE DEF n
<1>2. base \in Nat /\ k \in Nat /\ n - k = generation - base /\ from <= base /\ k <= n
  <2>1. CASE from > generation - n
    BY <1>1, <2>1
  <2>2. CASE ~(from > generation - n)
    BY <1>1, <2>2
  <2> QED
    BY <2>1, <2>2
<1>3. \A i \in 1 .. n : history[i] > from <=> i > k
  BY <1>1
<1> HIDE DEF base, k
<1>4. later = k + 1 .. n
  BY <1>1, <1>2, <1>3
<1> DEFINE Rank(i) == Cardinality({j \in later : j <= i})
<1> HIDE DEF later
<1>5. Cardinality(later) = n - k
  <2>1. Cardinality(k + 1 .. n) = IF k + 1 > n THEN 0 ELSE n - (k + 1) + 1
    BY <1>1, <1>2, FS_Interval
  <2> QED
    BY <1>1, <1>2, <1>4, <2>1
<1>6. ASSUME NEW i \in later PROVE Rank(i) = i - k
  <2>1. {j \in later : j <= i} = k + 1 .. i
    BY <1>1, <1>2, <1>4, <1>6
  <2>2. Cardinality(k + 1 .. i) = IF k + 1 > i THEN 0 ELSE i - (k + 1) + 1
    BY <1>1, <1>2, <1>4, <1>6, FS_Interval
  <2>3. Rank(i) = Cardinality(k + 1 .. i)
    BY <2>1
  <2> HIDE DEF Rank
  <2> QED
    BY <1>1, <1>2, <1>4, <1>6, <2>2, <2>3
<1>7. ASSUME NEW m \in 1 .. n - k PROVE Nth(m) = k + m
  <2>1. k + m \in later
    BY <1>1, <1>2, <1>4, <1>7
  <2>2. Nth(m) = CHOOSE i \in later : Rank(i) = m
    OBVIOUS
  <2> HIDE DEF Rank, Nth
  <2>3. Rank(k + m) = m
    BY <1>1, <1>2, <1>6, <1>7, <2>1
  <2>4. \A i \in later : Rank(i) = m => i = k + m
    BY <1>1, <1>2, <1>4, <1>6, <1>7
  <2> QED
    BY <2>1, <2>2, <2>3, <2>4
<1>8. \A m \in 1 .. n - k : history[Nth(m)] = base + m
  <2> TAKE m \in 1 .. n - k
  <2>1. Nth(m) = k + m
    BY <1>7
  <2> HIDE DEF Nth
  <2>2. k + m \in 1 .. n
    BY <1>1, <1>2
  <2>3. history[k + m] = generation - n + (k + m)
    BY <1>1, <2>2
  <2> QED
    BY <1>1, <1>2, <2>1, <2>3
<1>9. Unseen(from) = [m \in 1 .. n - k |-> history[Nth(m)]]
  BY <1>5 DEF Unseen, later
<1> HIDE DEF Nth
<1> QED
  BY <1>2, <1>8, <1>9 DEF base, n
-----------------------------------------------------------------------------
(* The answer of wait_for: typed, complete, and nobody else's.             *)
LEMMA AnswerIsComplete ==
  ASSUME Typed, Recent, NEW from \in Nat, from < generation,
         NEW r, r = [generation |-> generation, timed_out |-> FALSE, changes |-> Unseen(from)]
  PROVE  r \in Reply /\ Complete(r, from)
<1> DEFINE base == IF from > generation - Len(history) THEN from ELSE generation - Len(history)
<1>1. Unseen(from) = [m \in 1 .. generation - base |-> base + m]
  BY UnseenIs
<1>2. /\ generation \in Nat /\ base \in Nat /\ from <= base /\ base <= generation
      /\ \A g \in from + 1 .. generation : g > generation - HistoryLimit <=> g > base
  BY LongPollAssumption DEF Typed, Recent
<1> HIDE DEF base
<1>3. generation - base \in Nat /\ \A m \in 1 .. generation - base : base + m \in Nat
  BY <1>2
<1>4. Unseen(from) \in Seq(Nat) /\ DOMAIN Unseen(from) = 1 .. generation - base
  BY <1>1, <1>3
<1>5. ToSet(Unseen(from)) = base + 1 .. generation
  <2>1. ToSet(Unseen(from)) = {base + m : m \in 1 .. generation - base}
    BY <1>1, <1>4 DEF ToSet
  <2>2. ASSUME NEW g \in base + 1 .. generation PROVE g \in {base + m : m \in 1 .. generation - base}
    <3>1. g - base \in 1 .. generation - base /\ g = base + (g - base)
      BY <1>2, <2>2
    <3> QED
      BY <3>1
  <2>3. ASSUME NEW m \in 1 .. generation - base PROVE base + m \in base + 1 .. generation
    BY <1>2, <2>3
  <2> QED
    BY <2>1, <2>2, <2>3
<1>6. base + 1 .. generation = {g \in from + 1 .. generation : g > generation - HistoryLimit}
  BY <1>2
<1>7. \A i, j \in 1 .. generation - base : i < j => Unseen(from)[i] < Unseen(from)[j]
  BY <1>1, <1>2
<1> QED
  BY <1>2, <1>4, <1>5, <1>6, <1>7 DEF Reply, Complete
-----------------------------------------------------------------------------
LEMMA InitIsSafe == Init => Safe
<1> SUFFICES ASSUME Init PROVE Safe
  OBVIOUS
<1>1. << >> \in Seq(Nat)
  OBVIOUS
<1>2. Typed
  BY <1>1 DEF Init, Typed, Reply, Nothing, Stages
<1> QED
  BY <1>2, LongPollAssumption
  DEF Init, Safe, Recent, Connections, AnswersComplete, Following, Connected, Watchers

(* The actions of the daemon.  A new one has no clients.                   *)
LEMMA BootKeeps == ASSUME Safe, Boot PROVE Safe'
<1> USE DEF Boot, callVars, screenVars
<1>1. << >> \in Seq(Nat)
  OBVIOUS
<1>2. Typed' /\ Recent'
  BY <1>1, LongPollAssumption DEF Safe, Typed, Recent
<1>3. Connections' /\ AnswersComplete'
  BY DEF Safe, Typed, Connections, Watchers, AnswersComplete
<1>4. \A c \in Clients : ~Connected(c)'
  BY DEF Safe, Typed, Connections, Connected, Serving
<1> QED
  BY <1>2, <1>3, <1>4 DEF Safe, Following

(* Trimmed keeps the last HistoryLimit generations.                        *)
LEMMA TrimmedIs ==
  ASSUME NEW h \in Seq(Nat)
  PROVE  /\ Trimmed(h) \in Seq(Nat) /\ Len(Trimmed(h)) <= Len(h) /\ Len(Trimmed(h)) <= HistoryLimit
         /\ Len(Trimmed(h)) = Len(h) \/ Len(Trimmed(h)) = HistoryLimit
         /\ \A i \in 1 .. Len(Trimmed(h)) : Trimmed(h)[i] = h[Len(h) - Len(Trimmed(h)) + i]
<1>1. Len(h) \in Nat /\ HistoryLimit \in Nat \ {0}
  BY LongPollAssumption
<1>2. CASE Len(h) <= HistoryLimit
  BY <1>1, <1>2 DEF Trimmed
<1>3. CASE ~(Len(h) <= HistoryLimit)
  <2> DEFINE m == Len(h) - HistoryLimit + 1
             s == SubSeq(h, m, Len(h))
  <2>1. Trimmed(h) = s
    BY <1>3 DEF Trimmed
  <2>2. m \in Int /\ Len(h) \in Int /\ m <= Len(h) /\ Len(h) - m + 1 = HistoryLimit /\ 1 <= m
    BY <1>1, <1>3
  <2>3. \A i \in m .. Len(h) : h[i] \in Nat
    BY <2>2
  <2> HIDE DEF m
  <2>4. /\ s \in Seq(Nat) /\ Len(s) = IF m <= Len(h) THEN Len(h) - m + 1 ELSE 0
        /\ \A i \in 1 .. Len(h) - m + 1 : s[i] = h[m + i - 1]
    BY <2>2, <2>3, SubSeqProperties
  <2> HIDE DEF s
  <2>5. Len(s) = HistoryLimit
    BY <2>2, <2>4
  <2>6. \A i \in 1 .. HistoryLimit : m + i - 1 = Len(h) - HistoryLimit + i
    BY <1>1 DEF m
  <2>7. \A i \in 1 .. Len(s) : s[i] = h[Len(h) - Len(s) + i]
    BY <2>2, <2>4, <2>5, <2>6
  <2>8. HistoryLimit <= Len(h)
    BY <1>1, <1>3
  <2> QED
    BY <1>1, <2>1, <2>4, <2>5, <2>7, <2>8
<1> QED
  BY <1>2, <1>3

LEMMA BumpKeeps == ASSUME Safe, Bump PROVE Safe'
<1> DEFINE h == Append(history, generation + 1)
<1>1. /\ generation \in Nat /\ history \in Seq(Nat) /\ HistoryLimit \in Nat \ {0}
      /\ h \in Seq(Nat) /\ Len(h) = Len(history) + 1 /\ history' = Trimmed(h)
      /\ \A i \in 1 .. Len(h) : h[i] = generation + 1 - Len(h) + i
  BY LongPollAssumption DEF Bump, Safe, Typed, Recent
<1> HIDE DEF h
<1>2. history' \in Seq(Nat) /\ Recent'
  <2>1. /\ history' \in Seq(Nat) /\ Len(history') <= Len(h) /\ Len(history') <= HistoryLimit
        /\ Len(history') = Len(h) \/ Len(history') = HistoryLimit
        /\ \A i \in 1 .. Len(history') : history'[i] = h[Len(h) - Len(history') + i]
    BY <1>1, TrimmedIs
  <2>2. generation' = generation + 1 /\ Len(h) <= generation + 1 /\ Len(h) \in Nat
    BY <1>1 DEF Bump, Safe, Recent
  <2>3. Len(h) = generation + 1 \/ Len(history') = HistoryLimit
    BY <1>1, <2>1 DEF Safe, Recent
  <2>4. ASSUME NEW i \in 1 .. Len(history') PROVE history'[i] = generation' - Len(history') + i
    <3>1. Len(h) - Len(history') + i \in 1 .. Len(h) /\ Len(history') \in Nat
      BY <2>1, <2>2, <2>4
    <3>2. PICK j \in 1 .. Len(h) : j = Len(h) - Len(history') + i
      BY <3>1
    <3>3. history'[i] = h[j] /\ h[j] = generation + 1 - Len(h) + j
      BY <1>1, <2>1, <2>4, <3>2
    <3> QED
      BY <1>1, <2>2, <3>1, <3>2, <3>3
  <2>5. Len(history') <= generation' /\ (Len(history') = generation' \/ Len(history') = HistoryLimit)
    BY <1>1, <2>1, <2>2, <2>3
  <2> QED
    BY <2>1, <2>4, <2>5 DEF Recent
<1> USE DEF Bump, callVars, screenVars
<1>3. Typed'
  BY <1>1, <1>2 DEF Safe, Typed
<1>4. Connections' /\ AnswersComplete'
  BY DEF Safe, Connections, Watchers, AnswersComplete
<1>5. Following'
  BY DEF Safe, Typed, Following, Connected, Serving, Covered, Answered, Reply, Watchers
<1> QED
  BY <1>2, <1>3, <1>4, <1>5 DEF Safe

LEMMA NotifyKeeps == ASSUME Safe, Notify PROVE Safe'
<1> USE DEF Notify, screenVars
<1>1. \A c \in Clients : pc'[c] = pc[c] \/ (pc[c] = "asleep" /\ pc'[c] = "check")
  BY DEF Woken
<1>2. Typed' /\ Recent'
  BY <1>1 DEF Safe, Typed, Recent, Woken, Stages
<1>3. Connections' /\ AnswersComplete'
  BY <1>1 DEF Safe, Typed, Connections, Watchers, AnswersComplete
<1>4. Following'
  BY <1>1 DEF Safe, Typed, Following, Connected, Serving, Covered, Answered, Watchers
<1> QED
  BY <1>2, <1>3, <1>4 DEF Safe

LEMMA SetReadyOrStopKeeps == ASSUME Safe, SetReady \/ Stop PROVE Safe'
<1> USE DEF SetReady, Stop, callVars, screenVars
<1>1. Typed' /\ Recent' /\ Connections' /\ AnswersComplete'
  BY DEF Safe, Typed, Recent, Connections, Watchers, AnswersComplete
<1>2. Following'
  BY DEF Safe, Following, Connected, Serving, Covered, Answered, Watchers
<1> QED
  BY <1>1, <1>2 DEF Safe
-----------------------------------------------------------------------------
(* The actions of one client, or of the thread that serves it.             *)

(* What the other clients have is what they had.                           *)
Others(c) ==
  /\ editors' = editors /\ up' = up /\ epoch' = epoch
  /\ generation' = generation /\ history' = history
  /\ \A d \in Clients \ {c} :
       /\ pc'[d] = pc[d] /\ conn'[d] = conn[d] /\ since'[d] = since[d]
       /\ reply'[d] = reply[d] /\ shown'[d] = shown[d] /\ first'[d] = first[d]
       /\ printed'[d] = printed[d] /\ skipped'[d] = skipped[d]

LEMMA OneClient ==
  ASSUME Safe, Typed', NEW c \in Clients, Others(c),
         conn'[c] <= epoch,
         c \in Watchers /\ pc'[c] = "off" => printed'[c] = << >>,
         pc'[c] = "answered" /\ ~reply'[c].timed_out => Complete(reply'[c], since'[c]),
         Connected(c)' => /\ since'[c] <= generation
                          /\ ~skipped'[c] => Covered(c)'
                          /\ pc'[c] = "answered" => Answered(c)'
  PROVE  Safe'
<1> USE DEF Others
<1>1. Recent'
  BY DEF Safe, Recent
<1>2. Connections'
  BY DEF Safe, Connections, Watchers
<1>3. AnswersComplete'
  BY DEF Safe, AnswersComplete
<1>4. Following'
  <2>1. ASSUME NEW d \in Clients, d # c
        PROVE  Connected(d)' => /\ since'[d] <= generation'
                                /\ ~skipped'[d] => Covered(d)'
                                /\ pc'[d] = "answered" => Answered(d)'
    BY <2>1 DEF Safe, Following, Connected, Serving, Covered, Answered, Watchers
  <2> QED
    BY <2>1 DEF Following
<1> QED
  BY <1>1, <1>2, <1>3, <1>4 DEF Safe

LEMMA WaitingKeeps ==
  ASSUME Safe, NEW c \in Clients, Dispatch(c) \/ Sleep(c) \/ Expire(c) \/ Call(c) \/ Disconnect(c)
  PROVE  Safe'
<1> USE DEF Dispatch, Sleep, Expire, Call, Disconnect, Goto, daemonVars, screenVars
<1>1. Typed' /\ Others(c)
  BY DEF Safe, Typed, Others, Stages
<1>2. pc'[c] \in Stages \ {"answered"} /\ (Connected(c)' => Connected(c))
  BY DEF Safe, Typed, Stages, Connected, Serving
<1>3. pc'[c] = "off" => c \in editors
  BY DEF Safe, Typed
<1>4. Covered(c) => Covered(c)'
  BY DEF Covered, Watchers
<1>5. conn' = conn /\ since' = since /\ reply' = reply /\ skipped' = skipped
  OBVIOUS
<1> HIDE DEF Dispatch, Sleep, Expire, Call, Disconnect
<1> QED
  BY <1>1, <1>2, <1>3, <1>4, <1>5, OneClient DEF Safe, Connections, Following, Watchers

(* An answer lacks nothing that is kept; all is kept unless it skips.      *)
LEMMA CheckKeeps == ASSUME Safe, NEW c \in Clients, Check(c) PROVE Safe'
<1> USE DEF Check, Goto, Answer, Skip, daemonVars
<1> DEFINE r == [generation |-> generation, timed_out |-> FALSE, changes |-> Unseen(since[c])]
<1>1. Connected(c)
  BY DEF Connected
<1>2. CASE generation > since[c]
  <2>1. r \in Reply /\ Complete(r, since[c])
    BY <1>2, AnswerIsComplete DEF Safe, Typed
  <2>2. reply' = [reply EXCEPT ![c] = r] /\ r.generation = generation /\ ~r.timed_out
    BY <1>2
  <2> HIDE DEF r
  <2>3. Typed' /\ Others(c) /\ pc'[c] = "answered" /\ reply'[c] = r
    BY <1>2, <2>1, <2>2 DEF Safe, Typed, Others, Stages
  <2>4. Answered(c)'
    BY <1>2, <2>2, <2>3, LongPollAssumption DEF Safe, Typed, Answered, Watchers
  <2>5. ~skipped'[c] => Covered(c)'
    BY <1>1, <1>2 DEF Safe, Typed, Following, Covered, Watchers
  <2> QED
    BY <1>1, <1>2, <2>1, <2>3, <2>4, <2>5, OneClient DEF Safe, Connections, Following
<1>3. CASE ~(generation > since[c])
  <2>1. Typed' /\ Others(c) /\ pc'[c] = "deciding"
    BY <1>3 DEF Safe, Typed, Others, Stages
  <2>2. ~skipped'[c] => Covered(c)'
    BY <1>1, <1>3 DEF Safe, Following, Covered, Watchers
  <2> QED
    BY <1>1, <1>3, <2>1, <2>2, OneClient DEF Safe, Connections, Following
<1> QED
  BY <1>2, <1>3

(* A late answer brings the client to a generation it knows, or skips.     *)
LEMMA GiveUpKeeps == ASSUME Safe, NEW c \in Clients, GiveUp(c) PROVE Safe'
<1> USE DEF GiveUp, Goto, Answer, Skip, daemonVars
<1>1. Connected(c)
  BY DEF Connected
<1>2. << >> \in Seq(Nat)
  OBVIOUS
<1>3. Typed' /\ Others(c) /\ pc'[c] = "answered"
  BY <1>2 DEF Safe, Typed, Others, Stages, Reply
<1>4. reply'[c] = [generation |-> generation, timed_out |-> TRUE, changes |-> << >>]
  BY DEF Safe, Typed
<1>5. Answered(c)'
  <2>1. skipped'[c] <=> skipped[c] \/ generation > since[c]
    BY DEF Safe, Typed
  <2>2. since[c] <= generation /\ since'[c] = since[c] /\ generation' = generation
    BY <1>1 DEF Safe, Following
  <2>3. since[c] \in Nat /\ generation \in Nat
    BY DEF Safe, Typed
  <2> QED
    BY <1>4, <2>1, <2>2, <2>3 DEF Answered
<1>6. ~skipped'[c] => Covered(c)'
  BY <1>1 DEF Safe, Typed, Following, Covered, Watchers
<1> QED
  BY <1>1, <1>3, <1>4, <1>5, <1>6, OneClient DEF Safe, Connections, Following

(* A client begins at what it has seen: an editor at zero, a watcher at    *)
(* the generation it counts from.                                          *)
LEMMA ConnectKeeps == ASSUME Safe, NEW c \in Clients, Connect(c) PROVE Safe'
<1> USE DEF Connect, EditorSince, Goto, daemonVars
<1>1. Typed' /\ Others(c) /\ pc'[c] = "idle" /\ conn'[c] = epoch
  <2>1. since' \in [Clients -> Nat] /\ first' \in [Clients -> Nat]
    <3>1. CASE c \in editors
      <4>1. since' = [since EXCEPT ![c] = 0] /\ first' = first
        BY <3>1
      <4> HIDE DEF Connect
      <4> QED
        BY <4>1 DEF Safe, Typed
    <3>2. CASE c \notin editors
      BY <3>2 DEF Safe, Typed
    <3> QED
      BY <3>1, <3>2
  <2>2. pc' \in [Clients -> Stages] /\ pc'[c] = "idle" /\ conn' \in [Clients -> Nat]
        /\ conn'[c] = epoch /\ skipped' \in [Clients -> BOOLEAN]
    BY DEF Safe, Typed, Stages
  <2>3. \A d \in Clients \ {c} : since'[d] = since[d] /\ first'[d] = first[d]
    BY DEF Safe, Typed
  <2> QED
    BY <2>1, <2>2, <2>3 DEF Safe, Typed, Others
<1>2. since'[c] <= generation /\ Covered(c)'
  <2>1. CASE c \in editors
    BY <2>1 DEF Safe, Typed, Covered, Watchers
  <2>2. CASE c \notin editors
    <3>1. printed'[c] = << >> /\ first'[c] = generation /\ since'[c] = generation
      BY <2>2 DEF Safe, Typed, Connections, Watchers
    <3>2. ToSet(<< >>) = {} /\ generation \in Nat /\ generation + 1 .. generation = {}
      BY DEF ToSet, Safe, Typed
    <3>3. editors' = editors /\ ToSet(printed'[c]) = first'[c] + 1 .. since'[c]
      BY <3>1, <3>2
    <3> HIDE DEF Connect
    <3> QED
      BY <2>2, <3>1, <3>2, <3>3 DEF Covered, Watchers
  <2> QED
    BY <2>1, <2>2
<1>3. conn'[c] <= epoch /\ pc'[c] # "off" /\ pc'[c] # "answered"
  BY <1>1 DEF Safe, Typed
<1> HIDE DEF Connect
<1> QED
  BY <1>1, <1>2, <1>3, OneClient

LEMMA ToSetOfBoth ==
  ASSUME NEW s \in Seq(Nat), NEW t \in Seq(Nat)
  PROVE  ToSet(s \o t) = ToSet(s) \cup ToSet(t)
<1> DEFINE u == s \o t
<1>1. /\ u \in Seq(Nat) /\ Len(u) = Len(s) + Len(t) /\ Len(s) \in Nat /\ Len(t) \in Nat
      /\ \A i \in 1 .. Len(s) + Len(t) : u[i] = IF i <= Len(s) THEN s[i] ELSE t[i - Len(s)]
  BY ConcatProperties
<1> HIDE DEF u
<1>2. DOMAIN u = 1 .. Len(s) + Len(t) /\ DOMAIN s = 1 .. Len(s) /\ DOMAIN t = 1 .. Len(t)
  BY <1>1
<1>3. ASSUME NEW i \in DOMAIN u PROVE u[i] \in ToSet(s) \cup ToSet(t)
  <2>1. CASE i <= Len(s)
    <3>1. i \in DOMAIN s /\ u[i] = s[i]
      BY <1>1, <1>2, <1>3, <2>1
    <3> QED
      BY <3>1 DEF ToSet
  <2>2. CASE ~(i <= Len(s))
    <3>1. i - Len(s) \in DOMAIN t /\ u[i] = t[i - Len(s)]
      BY <1>1, <1>2, <1>3, <2>2
    <3> QED
      BY <3>1 DEF ToSet
  <2> QED
    BY <2>1, <2>2
<1>4. ASSUME NEW i \in DOMAIN s PROVE s[i] \in ToSet(u)
  <2>1. i \in DOMAIN u /\ u[i] = s[i]
    BY <1>1, <1>2, <1>4
  <2> QED
    BY <2>1 DEF ToSet
<1>5. ASSUME NEW i \in DOMAIN t PROVE t[i] \in ToSet(u)
  <2>1. PICK j \in 1 .. Len(s) + Len(t) : j = i + Len(s)
    <3>1. i \in 1 .. Len(t)
      BY <1>2, <1>5
    <3>2. i + Len(s) \in 1 .. Len(s) + Len(t)
      BY <1>1, <3>1
    <3> QED
      BY <3>2
  <2>2. j \in DOMAIN u /\ u[j] = t[j - Len(s)] /\ j - Len(s) = i
    BY <1>1, <1>2, <1>5, <2>1
  <2> QED
    BY <2>2 DEF ToSet
<1>6. ToSet(u) = ToSet(s) \cup ToSet(t)
  BY <1>3, <1>4, <1>5 DEF ToSet
<1> QED
  BY <1>6 DEF u

(* What the client does with an answer.                                    *)
LEMMA PrintChangesKeeps == ASSUME Safe, NEW c \in Clients, PrintChanges(c) PROVE Safe'
<1> USE DEF PrintChanges, Proceed, Goto, daemonVars
<1> DEFINE r == reply[c]
<1>1. /\ r.generation \in Nat /\ r.timed_out \in BOOLEAN /\ r.changes \in Seq(Nat)
      /\ since[c] \in Nat /\ first[c] \in Nat /\ printed[c] \in Seq(Nat)
      /\ generation \in Nat
  BY DEF Safe, Typed, Reply
<1>2. printed[c] \o r.changes \in Seq(Nat)
  BY <1>1, ConcatProperties
<1>3. /\ Typed' /\ Others(c) /\ pc'[c] = "idle" /\ conn' = conn /\ skipped' = skipped
      /\ since'[c] = r.generation /\ first'[c] = first[c]
      /\ printed'[c] = printed[c] \o r.changes
  BY <1>1, <1>2 DEF Safe, Typed, Others, Stages
<1>4. Connected(c)' => Connected(c)
  BY DEF Connected, Serving
<1>5. ASSUME Connected(c), ~skipped[c] PROVE Covered(c)'
  <2>1. Covered(c) /\ Answered(c) /\ c \in Watchers
    BY <1>5 DEF Safe, Following
  <2>2. ToSet(printed[c]) = first[c] + 1 .. since[c] /\ first[c] <= since[c]
    BY <2>1 DEF Covered
  <2>3. ToSet(printed[c] \o r.changes) = ToSet(printed[c]) \cup ToSet(r.changes)
    BY <1>1, ToSetOfBoth
  <2>4. since[c] <= r.generation /\ ToSet(r.changes) = since[c] + 1 .. r.generation
    <3>1. CASE r.timed_out
      <4>1. r.changes = << >> /\ r.generation = since[c]
        BY <1>5, <2>1, <3>1 DEF Answered
      <4>2. ToSet(<< >>) = {}
        BY DEF ToSet
      <4> HIDE DEF r, PrintChanges
      <4>3. since[c] + 1 .. r.generation = {}
        BY <1>1, <4>1
      <4>4. ToSet(r.changes) = {}
        BY <4>1, <4>2
      <4>5. since[c] <= r.generation
        BY <1>1, <4>1
      <4> QED
        BY <4>3, <4>4, <4>5
    <3>2. CASE ~r.timed_out
      <4>1. Complete(r, since[c]) /\ r.generation - since[c] <= HistoryLimit
        BY <1>5, <2>1, <3>2 DEF Safe, AnswersComplete, Answered
      <4> HIDE DEF r
      <4>2. \A g \in since[c] + 1 .. r.generation : g > r.generation - HistoryLimit
        BY <1>1, <4>1, LongPollAssumption
      <4> QED
        BY <1>1, <4>1, <4>2 DEF Complete
    <3> QED
      BY <3>1, <3>2
  <2> HIDE DEF r, PrintChanges
  <2>5. ToSet(printed'[c]) = first[c] + 1 .. r.generation /\ first[c] <= r.generation
    BY <1>1, <1>3, <2>2, <2>3, <2>4
  <2>6. c \in Watchers' /\ c \notin editors'
    BY <1>3, <2>1 DEF Others, Watchers
  <2> QED
    BY <1>3, <2>5, <2>6 DEF Covered
<1>6. Connected(c) => since'[c] <= generation
  BY <1>3 DEF Safe, Following, Answered
<1>7. conn'[c] <= epoch
  BY <1>3 DEF Safe, Connections
<1> HIDE DEF PrintChanges
<1> QED
  BY <1>3, <1>4, <1>5, <1>6, <1>7, OneClient

LEMMA IgnoreKeeps == ASSUME Safe, NEW c \in Clients, Ignore(c) PROVE Safe'
<1> USE DEF Ignore, Proceed, Goto, daemonVars, screenVars
<1>1. /\ Typed' /\ Others(c) /\ pc'[c] = "idle" /\ conn' = conn /\ skipped' = skipped
      /\ since'[c] = reply[c].generation
  BY DEF Safe, Typed, Others, Stages, Reply
<1>2. Connected(c)' => Connected(c)
  BY DEF Connected, Serving
<1>3. Connected(c) => /\ since'[c] <= generation
                      /\ ~skipped[c] => Covered(c)'
  BY <1>1 DEF Safe, Following, Answered, Covered, Watchers
<1>4. conn'[c] <= epoch
  BY <1>1 DEF Safe, Connections
<1> HIDE DEF Ignore
<1> QED
  BY <1>1, <1>2, <1>3, <1>4, OneClient

(* What is published is of this daemon and at least as new as the answer.  *)
LEMMA PublishKeeps == ASSUME Safe, NEW c \in Clients, Publish(c) PROVE Safe'
<1> USE DEF Publish, Proceed, Goto, Diagnostics, daemonVars
<1>1. since'[c] = reply[c].generation /\ generation \in Nat /\ epoch \in Nat
  BY DEF Safe, Typed
<1>2. shown' \in [Clients -> Nat \X Nat] /\ \A d \in Clients \ {c} : shown'[d] = shown[d]
  <2>1. CASE up
    <3>1. PICK now \in Nat \X Nat : now = << epoch, generation >>
      BY <1>1
    <3>2. shown' = [shown EXCEPT ![c] = now] \/ shown' = shown
      BY <2>1, <3>1
    <3> HIDE DEF Publish
    <3> QED
      BY <3>2 DEF Safe, Typed
  <2>2. CASE ~up
    BY <2>2 DEF Safe, Typed
  <2> QED
    BY <2>1, <2>2
<1>3. /\ Typed' /\ Others(c) /\ pc'[c] = "idle" /\ conn' = conn /\ skipped' = skipped
  BY <1>2 DEF Safe, Typed, Others, Stages, Reply
<1>4. Connected(c)' => Connected(c)
  BY DEF Connected, Serving
<1>5. Connected(c) => since'[c] <= generation
  BY <1>1 DEF Safe, Following, Answered
<1>6. ASSUME Connected(c) PROVE Covered(c)'
  <2>1. shown'[c] = << epoch, generation >> /\ c \in editors /\ editors' = editors /\ epoch' = epoch
    BY <1>6 DEF Connected, Serving, Safe, Typed
  <2> HIDE DEF Publish
  <2> QED
    BY <1>1, <1>5, <1>6, <2>1 DEF Covered, Watchers
<1>7. conn'[c] <= epoch
  BY <1>3 DEF Safe, Connections
<1> HIDE DEF Publish
<1> QED
  BY <1>3, <1>4, <1>5, <1>6, <1>7, OneClient
-----------------------------------------------------------------------------
LEMMA StepKeeps == Safe /\ [Next]_vars => Safe'
<1> SUFFICES ASSUME Safe, [Next]_vars PROVE Safe'
  OBVIOUS
<1>1. CASE Daemon
  BY <1>1, BootKeeps, BumpKeeps, NotifyKeeps, SetReadyOrStopKeeps DEF Daemon
<1>2. ASSUME NEW c \in Clients, Serve(c) PROVE Safe'
  BY <1>2, WaitingKeeps, CheckKeeps, GiveUpKeeps DEF Serve
<1>3. ASSUME NEW c \in Clients, Client(c) PROVE Safe'
  BY <1>3, WaitingKeeps, ConnectKeeps, PrintChangesKeeps, IgnoreKeeps, PublishKeeps DEF Client
<1>4. CASE UNCHANGED vars
  BY <1>4 DEF vars, Safe, Typed, Recent, Connections, AnswersComplete, Following, Connected,
              Serving, Covered, Answered, Watchers
<1> QED
  BY <1>1, <1>2, <1>3, <1>4 DEF Next

(* The history, the answers and the screens agree at every moment: the     *)
(* inductive invariant.                                                    *)
THEOREM LongPollIsSafe == Spec => []Safe
<1> QED
  BY InitIsSafe, StepKeeps, PTL DEF Spec

(* An answer of wait_for that is not late carries every kept change the    *)
(* client has not seen, in order, whatever passes and restarts happened    *)
(* between its call and the answer.                                        *)
THEOREM AnswersAreComplete == Spec => []AnswersComplete
<1>1. Safe => AnswersComplete
  BY DEF Safe
<1> QED
  BY <1>1, LongPollIsSafe, PTL

(* What a client that asks again shows covers all it asks after: no pass   *)
(* slips between two calls, however the deadline races the passes.         *)
THEOREM NothingIsMissed == Spec => []NothingMissed
<1>1. Safe => NothingMissed
  BY DEF Safe, Following, Connected, Covered, NothingMissed
<1> QED
  BY <1>1, LongPollIsSafe, PTL
===============================================================================
