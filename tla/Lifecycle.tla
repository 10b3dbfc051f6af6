------------------------------- MODULE Lifecycle -------------------------------
(***************************************************************************)
(* How daemons of one inventory start, are found and end: the socket file  *)
(* of each build, Server::bind, the accept loop (crates/krab-server/src/   *)
(* rpc.rs) and the clients that connect or start a daemon (client.rs).     *)
(*                                                                         *)
(* A socket file belongs to the daemon that bound it, or to one that died  *)
(* and left it.  Connecting succeeds while the owner listens, whether or   *)
(* not it will ever accept.  A daemon whose file was taken away still      *)
(* runs, but nobody can reach it.  `raced' is a history variable that no   *)
(* action reads.                                                           *)
(***************************************************************************)
EXTENDS Naturals, FiniteSets

CONSTANTS
    Build,             \* builds of krab used on this inventory
    Daemons,           \* processes that can be alive at once
    Clients,           \* processes that want a daemon
    Installed,         \* the ways builds are spread over the clients
    None,              \* no socket file, no process
    Dead,              \* a socket file nobody listens on
    MaxCrashes         \* bound on the daemons that die without cleaning up

ASSUME LifecycleAssumption ==
    /\ Clients # {} /\ Installed \subseteq [Clients -> Build]
    /\ None \notin Daemons /\ Dead \notin Daemons /\ None # Dead
    /\ MaxCrashes \in Nat

VARIABLES
    file,      \* build -> the owner of its socket file, Dead or None
    pc,        \* daemon -> where it is
    build,     \* daemon -> its build
    doomed,    \* daemon -> the socket files it found dead
    stopping,  \* the daemons asked to stop (Server.shutdown, State.stop)
    crashes,   \* number of crashes so far
    BuildOf,   \* client -> its build
    at,        \* client -> where it is
    child,     \* client -> the daemon it started
    conn,      \* client -> the daemon it is connected to
    raced      \* has a daemon been started while another one was starting?

daemonVars == << file, pc, build, doomed, stopping, crashes >>
clientVars == << BuildOf, at, child, conn >>
lifeVars == << file, pc, build, doomed, stopping, crashes, BuildOf, at,
           child, conn, raced >>

InitLife ==
    /\ file \in [Build -> {None, Dead}]
    /\ pc = [d \in Daemons |-> "exited"]
    /\ BuildOf \in Installed
    /\ build = [d \in Daemons |-> BuildOf[CHOOSE c \in Clients : TRUE]]
    /\ doomed = [d \in Daemons |-> {}]
    /\ stopping = {} /\ crashes = 0
    /\ at = [c \in Clients |-> "away"]
    /\ child = [c \in Clients |-> None]
    /\ conn = [c \in Clients |-> None]
    /\ raced = FALSE

Goto(d, label) == pc' = [pc EXCEPT ![d] = label]
ClientGoto(c, label) == at' = [at EXCEPT ![c] = label]

(* socket_alive: the listener lives until serve_on returns.                *)
Listening(d) == pc[d] \in {"serving", "closing"}
Alive(b) == file[b] \in Daemons /\ Listening(file[b])

Unlink(b) == file' = [file EXCEPT ![b] = None]

(* A process ends: its connections break and a file it leaves is dead.     *)
Exit(d) ==
    /\ Goto(d, "exited")
    /\ conn' = [c \in Clients |-> IF conn[c] = d THEN None ELSE conn[c]]
    /\ child' = [c \in Clients |-> IF child[c] = d THEN None ELSE child[c]]
    /\ file' = [b \in Build |-> IF file[b] = d THEN Dead ELSE file[b]]
    /\ doomed' = [doomed EXCEPT ![d] = {}]
    /\ stopping' = stopping \ {d}
    /\ UNCHANGED << build, crashes, BuildOf, at, raced >>

-----------------------------------------------------------------------------
(* Server::bind. *)

Probe(d) ==
    /\ pc[d] = "probe"
    /\ IF Alive(build[d])
       THEN Exit(d)
       ELSE /\ Goto(d, IF file[build[d]] = None THEN "list" ELSE "replace")
            /\ UNCHANGED << file, build, doomed, stopping, crashes, clientVars, raced >>

(* remove_file fails the start when the file has gone meanwhile. *)
Replace(d) ==
    /\ pc[d] = "replace"
    /\ IF file[build[d]] = None
       THEN Exit(d)
       ELSE /\ Unlink(build[d])
            /\ Goto(d, "list")
            /\ UNCHANGED << build, doomed, stopping, crashes, clientVars, raced >>

(* paths::sockets: the files that do not answer; a slip would take all of  *)
(* them.                                                                   *)
EverySocket == {b \in Build : file[b] # None}

DeadSockets == {b \in EverySocket : ~Alive(b)}

ListDead(d) ==
    /\ pc[d] = "list"
    /\ doomed' = [doomed EXCEPT ![d] = DeadSockets]
    /\ Goto(d, "sweep")
    /\ UNCHANGED << file, build, stopping, crashes, clientVars, raced >>

Sweep(d) ==
    /\ pc[d] = "sweep"
    /\ \/ \E b \in doomed[d] :
            /\ Unlink(b)
            /\ doomed' = [doomed EXCEPT ![d] = @ \ {b}]
            /\ UNCHANGED pc
       \/ doomed[d] = {} /\ Goto(d, "bind") /\ UNCHANGED << file, doomed >>
    /\ UNCHANGED << build, stopping, crashes, clientVars, raced >>

(* bind(2) never replaces a file; until listen(2) connecting is refused.   *)
Bind(d) ==
    /\ pc[d] = "bind"
    /\ IF file[build[d]] # None
       THEN Exit(d)
       ELSE /\ file' = [file EXCEPT ![build[d]] = d]
            /\ Goto(d, "bound")
            /\ UNCHANGED << build, doomed, stopping, crashes, clientVars, raced >>

Listen(d) ==
    /\ pc[d] = "bound"
    /\ Goto(d, "serving")
    /\ UNCHANGED << file, build, doomed, stopping, crashes, clientVars, raced >>

Starting(d) == Probe(d) \/ Replace(d) \/ ListDead(d) \/ Sweep(d) \/ Bind(d) \/ Listen(d)

-----------------------------------------------------------------------------
(* The accept loop. *)

Idle(d) == \A c \in Clients : conn[c] # d

(* A slip would never let an idle daemon end.                              *)
MustStopOnlyIfAsked(d) == d \in stopping

MustStop(d) == d \in stopping \/ Idle(d)

Break(d) ==
    /\ pc[d] = "serving" /\ MustStop(d)
    /\ Goto(d, "closing")
    /\ UNCHANGED << file, build, doomed, stopping, crashes, clientVars, raced >>

(* serve_on removes the file at its path, then its listener is closed. *)
Close(d) ==
    /\ pc[d] = "closing"
    /\ Unlink(build[d])
    /\ Goto(d, "joining")
    /\ UNCHANGED << build, doomed, stopping, crashes, clientVars, raced >>

End(d) == pc[d] = "joining" /\ Exit(d)

(* server.shutdown on the socket of a build, or a configuration source     *)
(* changed.                                                                *)
Shutdown(b) ==
    /\ Alive(b) /\ pc[file[b]] = "serving" /\ file[b] \notin stopping
    /\ stopping' = stopping \cup {file[b]}
    /\ UNCHANGED << file, pc, build, doomed, crashes, clientVars, raced >>

ConfigChange(d) ==
    /\ pc[d] = "serving" /\ d \notin stopping
    /\ stopping' = stopping \cup {d}
    /\ UNCHANGED << file, pc, build, doomed, crashes, clientVars, raced >>

Crash(d) ==
    /\ pc[d] # "exited" /\ crashes < MaxCrashes
    /\ crashes' = crashes + 1
    /\ Goto(d, "exited")
    /\ conn' = [c \in Clients |-> IF conn[c] = d THEN None ELSE conn[c]]
    /\ child' = [c \in Clients |-> IF child[c] = d THEN None ELSE child[c]]
    /\ file' = [b \in Build |-> IF file[b] = d THEN Dead ELSE file[b]]
    /\ doomed' = [doomed EXCEPT ![d] = {}]
    /\ stopping' = stopping \ {d}
    /\ UNCHANGED << build, BuildOf, at, raced >>

-----------------------------------------------------------------------------
(* Connector::connect_or_spawn. *)

(* One socket per build.                                                  *)
Socket(c) == BuildOf[c]

(* connect, then server.info: answered by a daemon that still accepts; one *)
(* that is closing never does.                                             *)
Accepts(b) == Alive(b) /\ pc[file[b]] = "serving"

TryExisting(c) ==
    /\ at[c] = "away"
    /\ IF Accepts(Socket(c))
       THEN conn' = [conn EXCEPT ![c] = file[Socket(c)]] /\ ClientGoto(c, "using")
       ELSE ClientGoto(c, "spawn") /\ UNCHANGED conn
    /\ UNCHANGED << daemonVars, BuildOf, child, raced >>

InStart(d) == pc[d] \in {"probe", "replace", "list", "sweep", "bind", "bound"}

Spawn(c) ==
    /\ at[c] = "spawn"
    /\ raced' = (raced \/ \E e \in Daemons : InStart(e))
    /\ \E d \in Daemons :
          /\ pc[d] = "exited"
          /\ Goto(d, "probe")
          /\ build' = [build EXCEPT ![d] = BuildOf[c]]
          /\ child' = [child EXCEPT ![c] = d]
    /\ ClientGoto(c, "await")
    /\ UNCHANGED << file, doomed, stopping, crashes, BuildOf, conn >>

(* wait_until: the socket answers, the child has exited, or ten seconds    *)
(* have passed; a slip would wait without a limit.                         *)
WaitOver(c) == Alive(Socket(c)) \/ child[c] = None

Await(c) ==
    /\ at[c] = "await" /\ WaitOver(c)
    /\ ClientGoto(c, "connect")
    /\ UNCHANGED << daemonVars, BuildOf, child, conn, raced >>

GiveUpNever(c) == FALSE

GiveUpWaiting(c) ==
    /\ at[c] = "await" /\ ~WaitOver(c)
    /\ ClientGoto(c, "connect")
    /\ UNCHANGED << daemonVars, BuildOf, child, conn, raced >>

(* A client that fails renders locally, or tries again later. *)
Connect(c) ==
    /\ at[c] = "connect"
    /\ IF Accepts(Socket(c))
       THEN conn' = [conn EXCEPT ![c] = file[Socket(c)]] /\ ClientGoto(c, "using")
       ELSE ClientGoto(c, "away") /\ UNCHANGED conn
    /\ child' = [child EXCEPT ![c] = None]
    /\ UNCHANGED << daemonVars, BuildOf, raced >>

Leave(c) ==
    /\ at[c] = "using"
    /\ ClientGoto(c, "away")
    /\ conn' = [conn EXCEPT ![c] = None]
    /\ UNCHANGED << daemonVars, BuildOf, child, raced >>

-----------------------------------------------------------------------------
Serving(d) == Break(d) \/ Close(d) \/ End(d)

Attempt(c) == Spawn(c) \/ Await(c) \/ GiveUpWaiting(c) \/ Connect(c)

NextLife ==
    \/ \E d \in Daemons : Starting(d) \/ Serving(d) \/ ConfigChange(d) \/ Crash(d)
    \/ \E b \in Build : Shutdown(b)
    \/ \E c \in Clients : TryExisting(c) \/ Attempt(c) \/ Leave(c)

LifeSpec == InitLife /\ [][NextLife]_lifeVars

(* Processes run, the ten seconds of wait_until pass, and an idle daemon   *)
(* notices that it is.  Nothing makes a client come or go or a daemon      *)
(* crash.  Spawn is fair whenever it is enabled again and again: only the  *)
(* bound on the processes ever disables it.                                *)
LifeFairness ==
    /\ \A d \in Daemons : WF_lifeVars(Starting(d)) /\ WF_lifeVars(Serving(d))
    /\ \A c \in Clients : WF_lifeVars(Attempt(c)) /\ SF_lifeVars(Spawn(c))

FairLife == LifeSpec /\ LifeFairness

-----------------------------------------------------------------------------
(* Properties. *)

(* Every variable has its type; a connection leads to a daemon of the      *)
(* client's own build that has not ended.                                  *)
LifeTypeOK ==
    /\ file \in [Build -> Daemons \cup {None, Dead}]
    /\ build \in [Daemons -> Build]
    /\ crashes \in 0 .. MaxCrashes
    /\ stopping \subseteq Daemons
    /\ \A c \in Clients : conn[c] # None =>
          build[conn[c]] = BuildOf[c] /\ pc[conn[c]] \in {"serving", "closing", "joining"}

Running(d) == pc[d] = "serving" /\ d \notin stopping

(* SRV-AC-2: "exactly one daemon survives" several starts.                 *)
ExactlyOneSurvives ==
    \A d, e \in Daemons : Running(d) /\ Running(e) /\ build[d] = build[e] => d = e

(* SRV-16: daemons that do not start at the same moment never serve the    *)
(* same build, however others of it or of other builds crash, stop, close  *)
(* or sweep the directory meanwhile.                                       *)
OneDaemonPerBuild == ~raced => ExactlyOneSurvives

(* A daemon that serves can be found: its file is not taken from it, by    *)
(* another daemon of its build or of any other that did not start together *)
(* with it.                                                                *)
ServersReachable == ~raced => \A d \in Daemons : pc[d] = "serving" => file[build[d]] = d

(* SRV-7: an attempt to reach a daemon ends, whatever becomes of the       *)
(* daemon it started and of the socket it waits for.                       *)
AttemptsEnd == \A c \in Clients : at[c] = "spawn" ~> at[c] \in {"using", "away"}

(* A daemon that no client can find any more does not stay for ever.       *)
Lost(d) == pc[d] = "serving" /\ file[build[d]] # d /\ Idle(d)

LostDaemonsEnd == \A d \in Daemons : Lost(d) ~> pc[d] = "exited"
=============================================================================
