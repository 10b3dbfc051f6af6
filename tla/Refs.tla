---------------------------------- MODULE Refs ----------------------------------
(***************************************************************************)
(* References to secrets (crates/krab-compile/src/refs): the targets of a  *)
(* compile look up the refs their output names, create those that are      *)
(* missing and carry functions, and pin what they found; `krab refs'       *)
(* writes and re-encrypts ref files (crates/krab/src/cmd_refs.rs).         *)
(*                                                                         *)
(* A secret is a value nobody can guess, given by the user or drawn, or    *)
(* one derived from another.  What a ref file holds is the secret sealed   *)
(* with a key; sealing twice gives different data (`salt').  A ref of type *)
(* vaultkv holds where in the Vault its secret is.                         *)
(***************************************************************************)
EXTENDS Naturals, FiniteSets, Sequences, SequencesExt, Functions

CONSTANTS
    Projects,               \* repositories and the commands run there
    NoKey, NoSecret, NoPin, Free

VARIABLES
    project,                \* the member of Projects this behaviour is about
    disk,                   \* path -> Missing, Torn or a ref
    vault,                  \* path in the Vault -> key -> secret
    run,                    \* process -> its run
    thread,                 \* process -> target (or "cli") -> what a thread does
    drawn                   \* secrets and salts drawn so far

vars == << project, disk, vault, run, thread, drawn >>

Missing == [type |-> "missing"]     \* no ref file
Torn == [type |-> "torn"]           \* a file that was truncated, not yet filled

Keyed == {"gpg", "gkms", "awskms", "azkms"}    \* recipients are a key
Sealing == Keyed \cup {"vaulttransit"}
Types == Sealing \cup {"vaultkv", "base64", "plain", "env"}
Sections == Types \cup {"transit_key"}        \* vaulttransit's `key', not its `crypto_key'

IsList(s) == s \in Seq(Range(s))

(* ?{type:path[@sub][:hash][||function|function]}; a vaultkv tag names its *)
(* place in the Vault.                                                     *)
Tag(x) ==
    /\ x.type \in Types /\ x.sub \in BOOLEAN /\ IsList(x.funcs)
    /\ \A k \in DOMAIN x.funcs :
          /\ x.funcs[k].name \in {"random", "derive", "reveal"}
          /\ x.funcs[k].name = "reveal" => k = 1
    /\ x.type = "vaultkv" => Len(x.place) = 2

(* What a tag names and what its functions reveal.                         *)
Reveals(x) == {f.path : f \in {g \in Range(x.funcs) : g.name = "reveal"}}

(* A document is a mapping or a list of strings with one tag each; a file  *)
(* that is not there is Missing.  `secrets' is parameters.kapitan.secrets  *)
(* of a target, `order' the order of the files of the refs directory,      *)
(* whose first component names their `owner'.  A command is a compile of   *)
(* the targets with that many threads, or a `krab refs' command.           *)
ASSUME RefsAssumption ==
    \A x \in Projects :
       /\ \A t \in DOMAIN x.docs :
             /\ x.docs[t].shape \in {"map", "list"}
             /\ IsList(x.docs[t].tags)
             /\ \A i \in DOMAIN x.docs[t].tags :
                   LET tag == x.docs[t].tags[i]
                   IN  Tag(tag) /\ {tag.path} \cup Reveals(tag) \subseteq DOMAIN x.files
             /\ DOMAIN x.secrets[t] \subseteq Sections /\ NoKey \notin Range(x.secrets[t])
             /\ t # Free
       /\ \A p \in DOMAIN x.users :
             /\ x.users[p].kind \in {"compile", "write", "update", "rotate", "validate"}
             /\ x.users[p].kind = "compile" => x.users[p].threads \in Nat \ {0}
       /\ Range(x.order) = DOMAIN x.files /\ x.crashes \in Nat

Process == DOMAIN project.users
Command(p) == project.users[p]
Compiles(p) == Command(p).kind = "compile"
Workers(p) == IF Compiles(p) THEN DOMAIN project.docs ELSE {"cli"}
Entries(t) == project.docs[t].tags
Threads(p) == IF Compiles(p) THEN Command(p).threads ELSE 1

Idle == [step |-> "idle"]
Fresh == [step |-> "next", i |-> 0, settled |-> {}, moved |-> FALSE, last |-> FALSE,
          out |-> << >>]
Run(phase, before) ==
    [phase |-> phase, before |-> before, alone |-> TRUE, lock |-> Free, cache |-> << >>]

Init ==
    /\ project \in Projects
    /\ disk = project.files
    /\ vault = project.vault
    /\ run = [p \in Process |-> Run("idle", disk)]
    /\ thread = [p \in Process |-> [t \in Workers(p) |-> Idle]]
    /\ drawn = 0

-----------------------------------------------------------------------------
(* Refs. *)

IsRef(c) == c \notin {Missing, Torn}
Data(c) == << c.plain, c.key, c.salt >>        \* what the hash of a ref is of
Sealed(type, plain, key) ==
    [type |-> type, plain |-> plain, key |-> IF type \in Sealing THEN key ELSE NoKey,
     salt |-> IF type \in Sealing THEN drawn + 1 ELSE 0]

InVault(place) == place[1] \in DOMAIN vault /\ place[2] \in DOMAIN vault[place[1]]
Secret(type, c) ==
    CASE type # "vaultkv" -> c.plain
      [] type = "vaultkv" /\ InVault(c.plain) -> vault[c.plain[1]][c.plain[2]]
      [] OTHER -> NoSecret
With(f, x, v) == [y \in DOMAIN f \cup {x} |-> IF y = x THEN v ELSE f[y]]

(* The vaultkv refs a repository comes with were made by krab or kapitan:  *)
(* the secrets they name are in the Vault.                                 *)
ASSUME VaultsAreWhole ==
    \A x \in Projects : \A y \in DOMAIN x.files :
       IsRef(x.files[y]) /\ x.files[y].type = "vaultkv" =>
          LET place == x.files[y].plain
          IN  place[1] \in DOMAIN x.vault /\ place[2] \in DOMAIN x.vault[place[1]]

-----------------------------------------------------------------------------

(* A thread goes on; the guard of the creation lock is dropped when the    *)
(* function that took it returns, whatever it returns.                     *)
Go(p, t, w) ==
    /\ thread' = [thread EXCEPT ![p][t] = w]
    /\ run' = [run EXCEPT ![p].lock = IF @ = t /\ w.step \in {"next", "ok", "failed"}
                                      THEN Free ELSE @]

Current(t, w) == Entries(t)[w.i]
Retried(p, t, w) ==
    /\ Compiles(p) /\ ~Command(p).reveal /\ project.docs[t].shape = "map" /\ ~w.last
    /\ Current(t, w).funcs # << >> /\ Current(t, w).funcs[1].name = "reveal"

(* What is kept from one value to the next.                                *)
Base(w, step) == [step |-> step, i |-> w.i, settled |-> w.settled, moved |-> w.moved,
                  last |-> w.last, out |-> w.out]

(* A value that failed: one that reveals another ref is tried again after  *)
(* its siblings, any other one fails the target.                           *)
Failed(p, t, w) == Base(w, IF Retried(p, t, w) THEN "next" ELSE "failed")

(* The compiled form of a value; a tag with a hash insists on it.  A slip  *)
(* would leave such a tag as it is.                                        *)
FoundTrusts(p, t, w, c) ==
    [Base(w, "next") EXCEPT !.settled = @ \cup {w.i}, !.moved = TRUE,
        !.out = With(@, w.i, IF Current(t, w).pin # NoPin THEN Current(t, w).pin ELSE Data(c))]

Found(p, t, w, c) ==
    IF Current(t, w).pin \notin {NoPin, Data(c)} THEN Failed(p, t, w)
    ELSE [Base(w, "next") EXCEPT !.settled = @ \cup {w.i}, !.moved = TRUE,
                                  !.out = With(@, w.i, Data(c))]

Lookup(w, why, path) ==
    [step |-> "get", i |-> w.i, settled |-> w.settled, moved |-> w.moved, last |-> w.last,
     out |-> w.out, why |-> why, path |-> path, secret |-> NoSecret, seen |-> Missing,
     at |-> IF why = "reveal" THEN w.at ELSE 1]

Creates(p, tag) == tag.funcs # << >> /\ tag.pin = NoPin /\ ~Command(p).reveal

(* What a thread does with the answer of a lookup (get_from_token).        *)
Answer(p, t, w, c) ==
    CASE w.why \in {"lookup", "recheck", "readback"} /\ IsRef(c) -> Found(p, t, w, c)
      [] w.why = "lookup" /\ c = Missing /\ Creates(p, Current(t, w)) ->
            [w EXCEPT !.step = "lock"]
      [] w.why = "recheck" /\ c = Missing -> [w EXCEPT !.step = "evaluate"]
      [] w.why = "reveal" /\ IsRef(c) /\ Secret(Current(t, w).type, c) # NoSecret ->
            [w EXCEPT !.step = "evaluate", !.at = @ + 1,
                      !.secret = Secret(Current(t, w).type, c)]
      [] OTHER -> Failed(p, t, w)

-----------------------------------------------------------------------------
(* The values of a target's output, one by one (compile_value). *)

Unsettled(t, w) == {i \in DOMAIN Entries(t) : i > w.i /\ i \notin w.settled}
Settled(t, w) == w.settled = DOMAIN Entries(t)

(* At the end of a pass another one starts while there is progress; then   *)
(* the values left are tried a last time.  A slip would make one pass.     *)
PassOnce(p, t, w) == [w EXCEPT !.i = 0, !.moved = FALSE, !.last = TRUE]
Pass(p, t, w) == [w EXCEPT !.i = 0, !.moved = FALSE, !.last = ~w.moved]

NextValue(p, t) ==
    /\ thread[p][t].step = "next"
    /\ LET w == thread[p][t]
           later == Unsettled(t, w)
           i == CHOOSE k \in later : \A j \in later : k <= j
       IN  Go(p, t, IF Settled(t, w) THEN [w EXCEPT !.step = "ok"]
                    ELSE IF later = {} THEN Pass(p, t, w)
                    ELSE LET v == [w EXCEPT !.i = i] IN
                         IF Current(t, v).sub /\ Current(t, v).funcs # << >>
                         THEN Failed(p, t, v)
                         ELSE Lookup(v, "lookup", Current(t, v).path))
    /\ UNCHANGED << project, disk, vault, drawn >>

(* The cache of the controller; the file when the path is not in it.  A    *)
(* file that cannot be parsed is an error and not cached.  A slip would    *)
(* take it for a missing one.                                              *)
ReadAsMissing(p, t) ==
    /\ thread[p][t].step = "get" /\ Compiles(p)
    /\ LET w == thread[p][t]
           path == w.path
       IN  Go(p, t, IF path \in DOMAIN run[p].cache THEN Answer(p, t, w, run[p].cache[path])
                    ELSE [w EXCEPT !.step = "insert",
                                   !.seen = IF IsRef(disk[path]) THEN disk[path] ELSE Missing])
    /\ UNCHANGED << project, disk, vault, drawn >>

Read(p, t) ==
    /\ thread[p][t].step = "get" /\ Compiles(p)
    /\ LET w == thread[p][t]
           path == w.path
       IN  Go(p, t, IF path \in DOMAIN run[p].cache THEN Answer(p, t, w, run[p].cache[path])
                    ELSE IF disk[path] = Torn THEN Answer(p, t, w, Torn)
                    ELSE [w EXCEPT !.step = "insert", !.seen = disk[path]])
    /\ UNCHANGED << project, disk, vault, drawn >>

(* What was read is put into the cache, whatever is there by now.          *)
Insert(p, t) ==
    /\ thread[p][t].step = "insert"
    /\ LET w == thread[p][t]
           after == Answer(p, t, w, w.seen)
       IN  /\ thread' = [thread EXCEPT ![p][t] = after]
           /\ run' = [run EXCEPT ![p].cache = With(@, w.path, w.seen),
                                 ![p].lock = IF @ = t /\ after.step \in {"next", "failed"}
                                             THEN Free ELSE @]
    /\ UNCHANGED << project, disk, vault, drawn >>

-----------------------------------------------------------------------------
(* Creating a ref from functions (create). *)

(* One ref at a time; whether another target made it meanwhile is looked   *)
(* up again.                                                               *)
Lock(p, t) ==
    /\ thread[p][t].step = "lock" /\ run[p].lock = Free
    /\ thread' = [thread EXCEPT ![p][t] =
                     Lookup(thread[p][t], "recheck", thread[p][t].path)]
    /\ run' = [run EXCEPT ![p].lock = t]
    /\ UNCHANGED << project, disk, vault, drawn >>

HasKey(p, t, type) ==
    \/ type \notin Sealing
    \/ type \in DOMAIN project.secrets[t]
Key(t, type) == IF type \in DOMAIN project.secrets[t] THEN project.secrets[t][type] ELSE NoKey

(* The functions of the tag in order, then the new ref (from_params).      *)
Evaluate(p, t) ==
    /\ thread[p][t].step = "evaluate"
    /\ LET w == thread[p][t]
           tag == Current(t, w)
           done == w.at > Len(tag.funcs)
           f == tag.funcs[w.at]
       IN  \/ /\ ~done /\ f.name = "random"
              /\ Go(p, t, [w EXCEPT !.at = @ + 1, !.secret = << "drawn", drawn + 1 >>])
              /\ drawn' = drawn + 1
           \/ /\ ~done /\ f.name = "derive" /\ UNCHANGED drawn
              /\ Go(p, t, IF w.secret = NoSecret THEN Failed(p, t, w)
                          ELSE [w EXCEPT !.at = @ + 1, !.secret = << "derived", @ >>])
           \/ /\ ~done /\ f.name = "reveal" /\ UNCHANGED drawn
              /\ Go(p, t, Lookup(w, "reveal", f.path))
           \/ /\ done /\ (w.secret = NoSecret \/ ~HasKey(p, t, tag.type)) /\ UNCHANGED drawn
              /\ Go(p, t, Failed(p, t, w))
           \/ /\ done /\ w.secret # NoSecret /\ HasKey(p, t, tag.type)
              /\ IF tag.type = "vaultkv"
                 THEN /\ UNCHANGED drawn
                      /\ Go(p, t, With([w EXCEPT !.step = "kv_read"], "place", tag.place))
                 ELSE /\ drawn' = drawn + 1
                      /\ Go(p, t, With([w EXCEPT !.step = "truncate", !.path = tag.path], "new",
                                       Sealed(tag.type, w.secret, Key(t, tag.type))))
    /\ UNCHANGED << project, disk, vault >>

(* The secrets at the path in the Vault are read, one is added, all are    *)
(* written (write_vaultkv).  A slip would write that one alone.            *)
KvRead(p, t) ==
    /\ thread[p][t].step = "kv_read"
    /\ LET w == thread[p][t] IN
       Go(p, t, With([w EXCEPT !.step = "kv_write"], "kv",
                     IF w.place[1] \in DOMAIN vault THEN vault[w.place[1]] ELSE << >>))
    /\ UNCHANGED << project, disk, vault, drawn >>

KvWriteOne(p, t) ==
    /\ thread[p][t].step = "kv_write"
    /\ LET w == thread[p][t] IN
       /\ vault' = With(vault, w.place[1], With(<< >>, w.place[2], w.secret))
       /\ Go(p, t, With([w EXCEPT !.step = "truncate"], "new",
                        Sealed("vaultkv", w.place, NoKey)))
    /\ UNCHANGED << project, disk, drawn >>

KvWrite(p, t) ==
    /\ thread[p][t].step = "kv_write"
    /\ LET w == thread[p][t] IN
       /\ vault' = With(vault, w.place[1], With(w.kv, w.place[2], w.secret))
       /\ Go(p, t, With([w EXCEPT !.step = "truncate"], "new",
                        Sealed("vaultkv", w.place, NoKey)))
    /\ UNCHANGED << project, disk, drawn >>

(* fs::write empties the file and then fills it; then the path is dropped  *)
(* from the cache.                                                         *)
Target(p, t) == IF Compiles(p) THEN Current(t, thread[p][t]).path ELSE thread[p][t].path

Truncate(p, t) ==
    /\ thread[p][t].step = "truncate"
    /\ disk' = [disk EXCEPT ![Target(p, t)] = Torn]
    /\ Go(p, t, [thread[p][t] EXCEPT !.step = "fill"])
    /\ UNCHANGED << project, vault, drawn >>

Fill(p, t) ==
    /\ thread[p][t].step = "fill"
    /\ disk' = [disk EXCEPT ![Target(p, t)] = thread[p][t].new]
    /\ Go(p, t, [thread[p][t] EXCEPT !.step = "forget"])
    /\ UNCHANGED << project, vault, drawn >>

(* `krab refs' goes on to its next file instead of reading this one back.  *)
Forget(p, t) ==
    /\ thread[p][t].step = "forget"
    /\ LET w == thread[p][t]
           path == Target(p, t)
       IN  /\ thread' = [thread EXCEPT ![p][t] =
                            IF Compiles(p) THEN Lookup(w, "readback", path)
                            ELSE [w EXCEPT !.step = "cli"]]
           /\ run' = [run EXCEPT ![p].cache =
                         [x \in DOMAIN @ \ {path} |-> @[x]]]
    /\ UNCHANGED << project, disk, vault, drawn >>

-----------------------------------------------------------------------------
(* krab refs. *)

Given == << "given", drawn + 1 >>      \* the content of the file the user passes

(* --write type:path refuses to replace a ref without --force, when it     *)
(* starts.                                                                 *)
WriteRef(p) ==
    LET c == Command(p)
        w == [step |-> "truncate", path |-> c.path, todo |-> {}]
    IN  IF disk[c.path] # Missing /\ ~c.force THEN [w EXCEPT !.step = "failed"]
        ELSE IF c.type = "vaultkv"
             THEN With(With([w EXCEPT !.step = "kv_read"], "place", c.place), "secret", Given)
             ELSE With(w, "new", Sealed(c.type, Given, c.key))

Owned == {x \in DOMAIN disk : disk[x] # Missing /\ project.owner[x] \in DOMAIN project.docs}
IsFirst(x, paths) ==
    \E k \in DOMAIN project.order :
       project.order[k] = x /\ \A j \in 1 .. (k - 1) : project.order[j] \notin paths

(* --update works on one ref, --update-targets and --validate-targets on   *)
(* those whose directory is named for a target.                            *)
StartCli(p) ==
    CASE Command(p).kind = "write" -> WriteRef(p)
      [] Command(p).kind = "update" ->
            [step |-> IF Command(p).type \in Keyed THEN "load" ELSE "failed", path |-> Command(p).path, todo |-> {Command(p).path},
             known |-> << >>, bad |-> 0]
      [] OTHER -> [step |-> "load", path |-> Head(project.order), todo |-> Owned,
                   known |-> << >>, bad |-> 0]

(* The refs are read one by one; the type of a ref is the one its file     *)
(* says, but for --update the one of the tag.                              *)
Named(p, c) == IF Command(p).kind = "update" THEN [c EXCEPT !.type = Command(p).type] ELSE c

Load(p) ==
    /\ thread[p]["cli"].step = "load"
    /\ LET w == thread[p]["cli"]
           rest == w.todo \ DOMAIN w.known
       IN  \/ rest = {} /\ Go(p, "cli", [w EXCEPT !.step = "cli"])
           \/ \E x \in rest :
                 /\ IsFirst(x, rest)
                 /\ Go(p, "cli", IF IsRef(disk[x])
                                 THEN [w EXCEPT !.known = With(@, x, Named(p, disk[x]))]
                                 ELSE [w EXCEPT !.step = "failed"])
    /\ UNCHANGED << project, disk, vault, drawn >>

(* The key a ref should be sealed with: of --target-name or --key, or of   *)
(* the target its directory is named for.                                  *)
Wanted(p, path, type) ==
    IF Command(p).kind = "update" THEN Command(p).key
    ELSE Key(project.owner[path], IF type = "vaulttransit" THEN "transit_key" ELSE type)
NoSecrets(p, path) ==
    Command(p).kind # "update" /\ project.secrets[project.owner[path]] = << >>

(* A slip would not look at the refs of Vault transit.                     *)
MismatchKeyed(p, path, c) ==
    c.type \in Keyed /\ Wanted(p, path, c.type) \notin {NoKey, c.key}
Mismatch(p, path, c) ==
    c.type \in Sealing /\ Wanted(p, path, c.type) \notin {NoKey, c.key}

(* One ref after the other is compared and, except for                     *)
(* --validate-targets, sealed again from what was read.                    *)
CheckRef(p) ==
    /\ thread[p]["cli"].step = "cli"
    /\ LET w == thread[p]["cli"] IN
       \/ /\ w.todo = {} /\ UNCHANGED drawn
          /\ Go(p, "cli", [w EXCEPT !.step = IF Command(p).kind = "validate" /\ w.bad > 0
                                              THEN "failed" ELSE "ok"])
       \/ \E path \in w.todo :
             LET c == w.known[path]
                 rest == [w EXCEPT !.todo = @ \ {path}]
             IN  /\ IsFirst(path, w.todo)
                 /\ \/ /\ NoSecrets(p, path) /\ UNCHANGED drawn
                       /\ Go(p, "cli", [w EXCEPT !.step = "failed"])
                    \/ /\ ~NoSecrets(p, path) /\ ~Mismatch(p, path, c) /\ UNCHANGED drawn
                       /\ Go(p, "cli", rest)
                    \/ /\ ~NoSecrets(p, path) /\ Mismatch(p, path, c)
                       /\ IF Command(p).kind = "validate"
                          THEN UNCHANGED drawn /\ Go(p, "cli", [rest EXCEPT !.bad = @ + 1])
                          ELSE /\ drawn' = drawn + 1
                               /\ Go(p, "cli", With([rest EXCEPT !.step = "truncate",
                                                                 !.path = path], "new",
                                        Sealed(c.type, Secret(c.type, c),
                                               Wanted(p, path, c.type))))
    /\ UNCHANGED << project, disk, vault >>

-----------------------------------------------------------------------------
(* Runs. *)

Busy(p) == {t \in Workers(p) : thread[p][t].step \notin {"idle", "ok", "failed"}}
Running == {p \in Process : run[p].phase = "busy"}

StartRun(p) ==
    /\ run[p].phase = "idle"
    /\ run' = [q \in Process |->
                 IF q = p THEN [Run("busy", disk) EXCEPT !.alone = Running = {}]
                 ELSE [run[q] EXCEPT !.alone = FALSE]]
    /\ IF Compiles(p) THEN UNCHANGED << thread, drawn >>
       ELSE /\ thread' = [thread EXCEPT ![p]["cli"] = StartCli(p)]
            /\ drawn' = drawn + 1
    /\ UNCHANGED << project, disk, vault >>

StartTarget(p, t) ==
    /\ run[p].phase = "busy" /\ Compiles(p) /\ thread[p][t] = Idle
    /\ Cardinality(Busy(p)) < Threads(p)
    /\ Go(p, t, Fresh)
    /\ UNCHANGED << project, disk, vault, drawn >>

EndRun(p) ==
    /\ run[p].phase = "busy"
    /\ \A t \in Workers(p) : thread[p][t].step \in {"ok", "failed"}
    /\ run' = [run EXCEPT ![p].phase = "done"]
    /\ UNCHANGED << project, disk, vault, thread, drawn >>

(* The process is interrupted.                                             *)
Crash(p) ==
    /\ run[p].phase = "busy"
    /\ Cardinality({q \in Process : run[q].phase = "crashed"}) < project.crashes
    /\ run' = [run EXCEPT ![p].phase = "crashed"]
    /\ UNCHANGED << project, disk, vault, thread, drawn >>

Step(p, t) ==
    /\ run[p].phase = "busy"
    /\ \/ NextValue(p, t) \/ Read(p, t) \/ Insert(p, t)
       \/ Lock(p, t) \/ Evaluate(p, t) \/ KvRead(p, t) \/ KvWrite(p, t)
       \/ Truncate(p, t) \/ Fill(p, t) \/ Forget(p, t)
       \/ t = "cli" /\ (Load(p) \/ CheckRef(p))

Next ==
    \E p \in Process :
       \/ StartRun(p) \/ EndRun(p) \/ Crash(p)
       \/ \E t \in Workers(p) : StartTarget(p, t) \/ Step(p, t)

Spec == Init /\ [][Next]_vars

-----------------------------------------------------------------------------
(* Properties. *)

TypeOK ==
    /\ \A x \in DOMAIN disk : IsRef(disk[x]) => disk[x].type \in Types
    /\ \A p \in Process :
          /\ run[p].phase \in {"idle", "busy", "done", "crashed"}
          /\ run[p].lock \in Workers(p) \cup {Free}
          /\ DOMAIN run[p].cache \subseteq DOMAIN disk /\ Torn \notin Range(run[p].cache)
          /\ run[p].lock # Free =>
                /\ thread[p][run[p].lock].step \notin {"idle", "next", "lock", "ok", "failed"}
                /\ thread[p][run[p].lock].why # "lookup"

(* A target mentions a path when a tag names or reveals it; a target that  *)
(* keeps to itself creates no ref another one mentions.                    *)
Mentions(t) == UNION {{x.path} \cup Reveals(x) : x \in Range(Entries(t))}
Makes(t) == {Entries(t)[i].path : i \in {j \in DOMAIN Entries(t) : Entries(t)[j].funcs # << >>}}
NothingShared ==
    \A t, u \in DOMAIN project.docs : t # u => Makes(t) \cap Mentions(u) = {}

DoneAlone(p) == run[p].phase = "done" /\ run[p].alone
Succeeded(p, t) == thread[p][t].step = "ok"

(* What a target pins is what the ref files hold when the compile is over, *)
(* so that its output can be revealed.  (RefController::create, load: the  *)
(* cache and the file must agree when the created ref is read back.)       *)
OutputsMatchFiles ==
    \A p \in Process : Compiles(p) /\ DoneAlone(p) /\ NothingShared =>
        \A t \in Workers(p) : Succeeded(p, t) =>
            \A i \in DOMAIN Entries(t) :
                /\ IsRef(disk[Entries(t)[i].path])
                /\ thread[p][t].out[i] = Data(disk[Entries(t)[i].path])

(* The same of targets that share refs: REF-20 has a ref another target    *)
(* created used instead of created again.                                  *)
SharedRefsMatchFiles ==
    \A p \in Process : Compiles(p) /\ DoneAlone(p) =>
        \A t \in Workers(p) : Succeeded(p, t) =>
            \A i \in DOMAIN Entries(t) :
                thread[p][t].out[i] = Data(disk[Entries(t)[i].path])

(* Which tags of a document can be resolved, from the files at the start:  *)
(* those whose file is there, those that draw their secret, and those that *)
(* reveal a ref that can; in a list only an earlier one helps.             *)
Resolves(p, t, i, there) ==
    LET tag == Entries(t)[i]
        before == run[p].before
    IN  /\ tag.sub => tag.funcs = << >>
        /\ IF tag.path \in there
           THEN \/ tag.pin = NoPin
                \/ IsRef(before[tag.path]) /\ tag.pin = Data(before[tag.path])
           ELSE /\ before[tag.path] = Missing /\ Creates(p, tag) /\ HasKey(p, t, tag.type)
                /\ tag.funcs[1].name # "derive"
                /\ tag.funcs[1].name = "reveal" => tag.funcs[1].path \in there

ThereAfter(p, t) ==
    LET made[n \in 0 .. Len(Entries(t))] ==
            IF n = 0 THEN {x \in DOMAIN disk : IsRef(run[p].before[x])}
            ELSE made[n - 1] \cup
                 {Entries(t)[i].path :
                     i \in {j \in DOMAIN Entries(t) :
                               /\ project.docs[t].shape = "list" => j = n
                               /\ Resolves(p, t, j, made[n - 1])}}
    IN  made

(* A target compiles exactly if each of its refs exists or can be made, in *)
(* whatever order its keys are written (compile_value; REF-17, REF-21).    *)
TargetsResolve ==
    \A p \in Process : Compiles(p) /\ DoneAlone(p) /\ NothingShared =>
        \A t \in Workers(p) :
            Succeeded(p, t) <=>
                \A i \in DOMAIN Entries(t) :
                    Resolves(p, t, i, ThereAfter(p, t)[IF project.docs[t].shape = "list"
                                                       THEN i - 1 ELSE Len(Entries(t))])

(* Of any two processes that ran, one started when no other was running    *)
(* and none has started since.                                             *)
OneAtATime ==
    \A p, q \in Process :
        p # q /\ run[p].phase # "idle" /\ run[q].phase # "idle" => run[p].alone \/ run[q].alone

(* The value of a vaultkv ref is in the Vault before its file is written,  *)
(* and no later write of another key there drops it, unless two processes  *)
(* wrote at the same time (write_vaultkv).                                 *)
VaultHasTheSecrets ==
    OneAtATime => \A x \in DOMAIN disk :
        IsRef(disk[x]) /\ disk[x].type = "vaultkv" => InVault(disk[x].plain)

(* After --update-targets no ref of a target is sealed with another key    *)
(* than its target's, and none has lost its secret; --validate-targets     *)
(* finds a mismatch exactly if there is one (update_validate).             *)
Foreign(p) ==
    {x \in DOMAIN disk :
        /\ project.owner[x] \in DOMAIN project.docs /\ IsRef(run[p].before[x])
        /\ disk[x].type \in Sealing
        /\ LET section == IF disk[x].type = "vaulttransit" THEN "transit_key" ELSE disk[x].type
               secrets == project.secrets[project.owner[x]]
           IN  section \in DOMAIN secrets /\ secrets[section] # disk[x].key}

RotationIsComplete ==
    \A p \in Process : DoneAlone(p) /\ Command(p).kind \in {"rotate", "validate"} =>
        /\ \A x \in DOMAIN disk : IsRef(run[p].before[x]) =>
              IsRef(disk[x]) /\ Secret(disk[x].type, disk[x])
                                = Secret(disk[x].type, run[p].before[x])
        /\ Succeeded(p, "cli") => Foreign(p) = {}

(* A compile never writes a ref file that was there when it started, not   *)
(* even a broken one (REF-18).                                             *)
ExistingRefsKept ==
    [][\A p \in Process : Compiles(p) /\ thread'[p] # thread[p] =>
          \A x \in DOMAIN disk : run[p].before[x] # Missing => disk'[x] = disk[x]]_vars

=============================================================================
