------------------------------- MODULE LongPoll -------------------------------
(***************************************************************************)
(* The long poll `inventory.wait': how a client of the daemon learns that  *)
(* a pass has changed the inventory.  The rendering thread bumps the       *)
(* generation under the write lock of `Inner' and notifies afterwards      *)
(* under another lock (State::rerender); a connection thread checks the    *)
(* generation, looks at the clock and sleeps (State::wait_for); the        *)
(* language server republishes diagnostics after an answer, `krab          *)
(* inventory watch' prints the changes in it.  A daemon may stop at any    *)
(* time, and its successor counts generations from zero.                   *)
(*                                                                         *)
(* The clock is abstract: a deadline may pass at any moment.  `skipped' is *)
(* a history variable that no action reads.                                *)
(***************************************************************************)
EXTENDS Naturals, Sequences, FiniteSets, SequencesExt

CONSTANTS
    Clients,       \* language servers and `krab inventory watch' processes
    HistoryLimit,  \* change summaries the daemon keeps (200 in the code)
    MaxPasses,     \* bound on the passes of one daemon
    MaxEpochs      \* bound on the daemons that are started

ASSUME LongPollAssumption ==
    HistoryLimit \in Nat \ {0} /\ MaxPasses \in Nat /\ MaxEpochs \in Nat

VARIABLES
    editors,       \* the clients that are language servers
    up, epoch,     \* is a daemon running, and which one?
    ready,         \* State.ready
    generation,    \* Inner.generation
    history,       \* Inner.history: the generations of the kept summaries
    notifying,     \* the rendering thread is between bump and notify
    pc,            \* where the client, or the thread that serves it, is
    conn,          \* the daemon the client's connection goes to
    since,         \* the client's `generation'
    expired,       \* has the deadline of the client's call passed?
    reply,         \* the answer on its way to the client
    shown,         \* editors: the daemon and generation of what is published
    first,         \* watchers: the generation they began with
    printed,       \* watchers: the generations printed
    skipped        \* has an answer taken the client past changes it left out?

daemonVars == << editors, up, epoch, ready, generation, history, notifying >>
callVars   == << pc, conn, since, expired, reply >>
screenVars == << shown, first, printed, skipped >>
vars == << editors, up, epoch, ready, generation, history, notifying, pc, conn,
           since, expired, reply, shown, first, printed, skipped >>

Watchers == Clients \ editors

Nothing == [generation |-> 0, timed_out |-> FALSE, changes |-> << >>]

Init ==
    /\ editors \in SUBSET Clients
    /\ up = FALSE /\ epoch = 0 /\ ready = FALSE
    /\ generation = 0 /\ history = << >> /\ notifying = FALSE
    /\ pc = [c \in Clients |-> "off"]
    /\ conn = [c \in Clients |-> 0]
    /\ since = [c \in Clients |-> 0]
    /\ expired = [c \in Clients |-> FALSE]
    /\ reply = [c \in Clients |-> Nothing]
    /\ shown = [c \in Clients |-> << 0, 0 >>]
    /\ first = [c \in Clients |-> 0]
    /\ printed = [c \in Clients |-> << >>]
    /\ skipped = [c \in Clients |-> FALSE]

-----------------------------------------------------------------------------
(* The daemon. *)

Boot ==
    /\ ~up /\ epoch < MaxEpochs
    /\ up' = TRUE /\ epoch' = epoch + 1
    /\ ready' = FALSE /\ generation' = 0 /\ history' = << >> /\ notifying' = FALSE
    /\ UNCHANGED << editors, callVars, screenVars >>

(* The last HistoryLimit entries.                                          *)
Trimmed(h) ==
    IF Len(h) <= HistoryLimit THEN h ELSE SubSeq(h, Len(h) - HistoryLimit + 1, Len(h))

(* rerender installs a pass under the write lock ...                       *)
Bump ==
    /\ up /\ ~notifying /\ generation < MaxPasses
    /\ generation = 0 \/ ready
    /\ generation' = generation + 1
    /\ history' = Trimmed(Append(history, generation'))
    /\ notifying' = TRUE
    /\ UNCHANGED << editors, up, epoch, ready, callVars, screenVars >>

(* ... and wakes the sleepers once it has let the lock go. *)
Woken(c) == pc[c] = "asleep" /\ conn[c] = epoch

Notify ==
    /\ up /\ notifying
    /\ notifying' = FALSE
    /\ pc' = [c \in Clients |-> IF Woken(c) THEN "check" ELSE pc[c]]
    /\ UNCHANGED << editors, up, epoch, ready, generation, history, conn, since,
                    expired, reply, screenVars >>

SetReady ==
    /\ up /\ ~ready /\ generation > 0 /\ ~notifying
    /\ ready' = TRUE
    /\ UNCHANGED << editors, up, epoch, generation, history, notifying, callVars, screenVars >>

(* Idle, asked to, or because its configuration changed. *)
Stop ==
    /\ up /\ epoch < MaxEpochs
    /\ up' = FALSE
    /\ UNCHANGED << editors, epoch, ready, generation, history, notifying, callVars,
                    screenVars >>

-----------------------------------------------------------------------------
(* A connection thread of the daemon in wait_for. *)

Serving(c) == up /\ conn[c] = epoch
Goto(c, label) == pc' = [pc EXCEPT ![c] = label]

(* The request is dispatched once the initial render is done. *)
Dispatch(c) ==
    /\ pc[c] = "called" /\ Serving(c) /\ ready
    /\ Goto(c, "check")
    /\ expired' = [expired EXCEPT ![c] = FALSE]
    /\ UNCHANGED << daemonVars, conn, since, reply, screenVars >>

Answer(c, gen, late, changes) ==
    reply' = [reply EXCEPT ![c] =
                 [generation |-> gen, timed_out |-> late, changes |-> changes]]

(* The summaries a client has not seen; a slip would add the last one   *)
(* it has seen.                                                            *)
UnseenAndLast(from) == SelectSeq(history, LAMBDA g : g >= from)

Unseen(from) ==
    LET later  == {i \in DOMAIN history : history[i] > from}
        Nth(n) == CHOOSE i \in later : Cardinality({j \in later : j <= i}) = n
    IN  [n \in 1 .. Cardinality(later) |-> history[Nth(n)]]

Skip(c, changesLost) == skipped' = [skipped EXCEPT ![c] = @ \/ changesLost]

(* The summaries of the oldest passes may be gone from the history. *)
Check(c) ==
    /\ pc[c] = "check" /\ Serving(c)
    /\ IF generation > since[c]
       THEN /\ Answer(c, generation, FALSE, Unseen(since[c]))
            /\ Skip(c, c \in Watchers /\ generation - since[c] > HistoryLimit)
            /\ Goto(c, "answered")
       ELSE Goto(c, "deciding") /\ UNCHANGED << reply, skipped >>
    /\ UNCHANGED << daemonVars, conn, since, expired, shown, first, printed >>

(* The deadline has passed: the generation is read a second time. *)
GiveUp(c) ==
    /\ pc[c] = "deciding" /\ Serving(c)
    /\ Answer(c, generation, TRUE, << >>)
    /\ Skip(c, generation > since[c])
    /\ Goto(c, "answered")
    /\ UNCHANGED << daemonVars, conn, since, expired, shown, first, printed >>

Sleep(c) ==
    /\ pc[c] = "deciding" /\ Serving(c) /\ ~expired[c]
    /\ Goto(c, "asleep")
    /\ UNCHANGED << daemonVars, conn, since, expired, reply, screenVars >>

(* The sleep ends at the deadline; a slip would sleep until notified.      *)
ExpireNever(c) == FALSE

Expire(c) ==
    /\ pc[c] = "asleep" /\ Serving(c)
    /\ Goto(c, "check")
    /\ expired' = [expired EXCEPT ![c] = TRUE]
    /\ UNCHANGED << daemonVars, conn, since, reply, screenVars >>

-----------------------------------------------------------------------------
(* The clients. *)

(* An editor begins at zero with every daemon; a slip would go on counting.*)
EditorKeepsCounting(c) == since[c]

EditorSince(c) == 0

(* `watch' begins at the generation of server.info. *)
Connect(c) ==
    /\ pc[c] = "off" /\ up
    /\ conn' = [conn EXCEPT ![c] = epoch]
    /\ IF c \in editors
       THEN since' = [since EXCEPT ![c] = EditorSince(c)] /\ UNCHANGED first
       ELSE /\ since' = [since EXCEPT ![c] = generation]
            /\ first' = [first EXCEPT ![c] = generation]
    /\ skipped' = [skipped EXCEPT ![c] = FALSE]
    /\ Goto(c, "idle")
    /\ UNCHANGED << daemonVars, expired, reply, shown, printed >>

Call(c) ==
    /\ pc[c] = "idle" /\ Serving(c)
    /\ Goto(c, "called")
    /\ UNCHANGED << daemonVars, conn, since, expired, reply, screenVars >>

(* The daemon of the connection is gone: an editor reconnects, `watch'     *)
(* ends with an error.                                                     *)
Disconnect(c) ==
    /\ pc[c] \in {"idle", "called", "check", "deciding", "asleep"} /\ ~Serving(c)
    /\ Goto(c, IF c \in editors THEN "off" ELSE "ended")
    /\ UNCHANGED << daemonVars, conn, since, expired, reply, screenVars >>

Proceed(c) ==
    /\ since' = [since EXCEPT ![c] = reply[c].generation]
    /\ Goto(c, "idle")

(* `watch' prints the changes of every answer. *)
PrintChanges(c) ==
    /\ c \in Watchers /\ pc[c] = "answered"
    /\ printed' = [printed EXCEPT ![c] = @ \o reply[c].changes]
    /\ Proceed(c)
    /\ UNCHANGED << daemonVars, conn, expired, reply, shown, first, skipped >>

(* An editor publishes only when the answer brings a change. *)
Ignore(c) ==
    /\ c \in editors /\ pc[c] = "answered" /\ reply[c].timed_out
    /\ Proceed(c)
    /\ UNCHANGED << daemonVars, conn, expired, reply, screenVars >>

(* What inventory.diagnostics answers; a slip would show those of the time *)
(* of the answer's call instead of the current ones.                       *)
DiagnosticsOfCall(c) == << conn[c], since[c] >>

Diagnostics(c) == << epoch, generation >>

(* publish_diagnostics asks over another connection, which may reach a     *)
(* newer daemon; without one nothing is published.                         *)
Publish(c) ==
    /\ c \in editors /\ pc[c] = "answered" /\ ~reply[c].timed_out
    /\ \/ up /\ ready /\ shown' = [shown EXCEPT ![c] = Diagnostics(c)]
       \/ ~up /\ UNCHANGED shown
    /\ Proceed(c)
    /\ UNCHANGED << daemonVars, conn, expired, reply, first, printed, skipped >>

-----------------------------------------------------------------------------
Daemon == Boot \/ Bump \/ Notify \/ SetReady \/ Stop

Serve(c) == Dispatch(c) \/ Check(c) \/ GiveUp(c) \/ Sleep(c) \/ Expire(c)

Client(c) ==
    Connect(c) \/ Call(c) \/ Disconnect(c) \/ PrintChanges(c) \/ Ignore(c) \/ Publish(c)

Next == Daemon \/ \E c \in Clients : Serve(c) \/ Client(c)

Spec == Init /\ [][Next]_vars

(* Threads run and the clock goes on; nobody has to edit or to stop.       *)
Fairness ==
    /\ WF_vars(Boot \/ Notify \/ SetReady)
    /\ WF_vars(Bump /\ generation = 0)
    /\ \A c \in Clients : WF_vars(Serve(c)) /\ WF_vars(Client(c))

FairSpec == Spec /\ Fairness

-----------------------------------------------------------------------------
(* Properties. *)

Stages == {"off", "idle", "called", "check", "deciding", "asleep", "answered", "ended"}

(* Every variable has its type; the kept summaries are consecutive and end *)
(* with the current generation.                                            *)
TypeOK ==
    /\ up \in BOOLEAN /\ ready \in BOOLEAN /\ notifying \in BOOLEAN
    /\ epoch \in 0 .. MaxEpochs /\ generation \in 0 .. MaxPasses
    /\ Len(history) <= HistoryLimit
    /\ \A i \in DOMAIN history : history[i] = generation - Len(history) + i
    /\ pc \in [Clients -> Stages]
    /\ editors \subseteq Clients
    /\ conn \in [Clients -> 0 .. MaxEpochs]
    /\ since \in [Clients -> 0 .. MaxPasses]
    /\ expired \in [Clients -> BOOLEAN]

(* The answer r has every kept change after `from', oldest first.          *)
Complete(r, from) ==
    LET Kept(g) == g > r.generation - HistoryLimit
    IN  /\ r.generation > from
        /\ ToSet(r.changes) = {g \in from + 1 .. r.generation : Kept(g)}
        /\ \A i, j \in DOMAIN r.changes : i < j => r.changes[i] < r.changes[j]

(* WaitResult.changes (protocol.rs): an answer that is not a timeout       *)
(* carries the change it was woken for and every one since the generation  *)
(* asked for, oldest first, as far as the daemon still keeps them.         *)
AnswersComplete ==
    \A c \in Clients :
        pc[c] = "answered" /\ ~reply[c].timed_out => Complete(reply[c], since[c])

(* SRV-26: what a client that asks again has on screen covers every pass   *)
(* up to the generation it asks from, unless an answer skipped changes     *)
(* (the deadline raced a pass, or the history was too short).              *)
NothingMissed ==
    \A c \in Clients : pc[c] = "called" /\ Serving(c) /\ ~skipped[c] =>
        /\ c \in editors /\ since[c] > 0 =>
              shown[c][1] = epoch /\ shown[c][2] >= since[c]
        /\ c \in Watchers => ToSet(printed[c]) = first[c] + 1 .. since[c]

(* "publish now and after every change the daemon renders" (server.rs:58   *)
(* of krab-lsp): an editor never asks for what comes after a change that   *)
(* it has not shown.                                                       *)
EveryChangeShown ==
    \A c \in editors : pc[c] = "called" /\ Serving(c) /\ since[c] > 0 =>
        shown[c][1] = epoch /\ shown[c][2] >= since[c]

(* Whatever wakeups are lost, a client that stays connected learns of      *)
(* every generation (the deadline brings it back).                         *)
EveryPassReachesClients ==
    \A c \in Clients, g \in 1 .. MaxPasses :
        Serving(c) /\ generation = g ~> since[c] >= g \/ ~Serving(c)

(* A daemon that stays is the one whose diagnostics every editor shows in  *)
(* the end: a restart, which counts from zero again, leaves none behind.   *)
EditorsFollowRestarts ==
    \A c \in Clients :
        <>[](c \in editors /\ epoch = MaxEpochs /\ up) => <>[](shown[c][1] = MaxEpochs)
=============================================================================
