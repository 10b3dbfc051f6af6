--------------------------------- MODULE MCRefs ---------------------------------
(***************************************************************************)
(* Small repositories with refs, and the commands users run there.         *)
(***************************************************************************)
EXTENDS Refs, TLC

CONSTANTS noKey, noSecret, noPin, free

Random == [name |-> "random"]
Derive == [name |-> "derive"]
Reveal(path) == [name |-> "reveal", path |-> path]

Ref(type, path, funcs) ==
    [type |-> type, path |-> path, sub |-> FALSE, pin |-> noPin, funcs |-> funcs]
Kv(path, place, funcs) == Ref("vaultkv", path, funcs) @@ ("place" :> place)
Pinned(tag, pin) == [tag EXCEPT !.pin = pin]
Sub(tag) == [tag EXCEPT !.sub = TRUE]

Held(type, plain, key, salt) == [type |-> type, plain |-> plain, key |-> key, salt |-> salt]
Secret1 == << "given", 0 >>

Doc(shape, tags) == [shape |-> shape, tags |-> tags]
Compiling(threads, reveal) == [kind |-> "compile", threads |-> threads, reveal |-> reveal]
Writing(type, path, key, force) ==
    [kind |-> "write", type |-> type, path |-> path, key |-> key, force |-> force]
Updating(type, path, key) == [kind |-> "update", type |-> type, path |-> path, key |-> key]
Rotating == [kind |-> "rotate"]
Validating == [kind |-> "validate"]

Keys == "gkms" :> "new" @@ "gpg" :> "new" @@ "vaulttransit" :> "new" @@ "transit_key" :> "new"

Project(order, files, docs, users, crashes) ==
    [order |-> order, files |-> files, vault |-> << >>, docs |-> docs,
     owner |-> [x \in DOMAIN files |-> IF x \in {"u/1", "u/2"} THEN "u"
                                       ELSE IF x = "other" THEN "other" ELSE "t"],
     secrets |-> [t \in DOMAIN docs |-> Keys], users |-> users, crashes |-> crashes]
Files(held, paths) ==
    [x \in DOMAIN held \cup paths |-> IF x \in DOMAIN held THEN held[x] ELSE Missing]

(* A mapping whose keys depend on each other against their order, with a   *)
(* ref that is pinned and one that is there although its tag has functions.*)
Siblings ==
    LET old == Held("gkms", Secret1, "old", 0) IN
    Project(<< "t/1", "t/2", "t/3", "other" >>,
        Files("other" :> old, {"t/1", "t/2", "t/3"}),
        "t" :> Doc("map", << Ref("gkms", "t/3", << Reveal("t/2"), Derive >>),
                             Ref("gkms", "t/2", << Reveal("t/1") >>),
                             Pinned(Ref("gkms", "other", << >>), Data(old)),
                             Ref("gkms", "t/1", << Random, Derive >>),
                             Ref("gkms", "other", << Random >>) >>),
        "p" :> Compiling(1, FALSE), 1)

(* Two compiles, one after the other, at once or after an interruption.    *)
Again ==
    Project(<< "t/1", "t/2" >>, Files(<< >>, {"t/1", "t/2"}),
        "t" :> Doc("map", << Ref("gkms", "t/2", << Reveal("t/1") >>),
                             Ref("gkms", "t/1", << Random >>) >>),
        "p" :> Compiling(1, FALSE) @@ "q" :> Compiling(1, FALSE), 1)

(* Dependences in a list, where only what comes earlier helps; then revealed. *)
Listed ==
    Project(<< "t/1", "t/2", "u/1", "u/2" >>, Files(<< >>, {"t/1", "t/2", "u/1", "u/2"}),
        "t" :> Doc("list", << Ref("base64", "t/1", << Random >>),
                              Ref("base64", "t/2", << Reveal("t/1") >>) >>)
        @@ "u" :> Doc("list", << Ref("plain", "u/2", << Reveal("u/1") >>),
                                 Ref("plain", "u/1", << Random >>) >>),
        "p" :> Compiling(2, FALSE) @@ "q" :> Compiling(1, TRUE), 0)

(* What cannot be compiled: no file, a broken one, a sub-variable with     *)
(* functions, a hash that is not the file's, no key, nothing to derive     *)
(* from; and a target that keeps the creation lock until it has failed.    *)
Broken(tag) ==
    [Project(<< "t/1", "t/2", "u/1", "u/2" >>,
        Files("t/1" :> Torn, {"t/2", "u/1", "u/2"}),
        "t" :> Doc("map", << Ref("gkms", "t/2", << Random >>), tag >>)
        @@ "u" :> Doc("map", << Ref("awskms", "u/2", << Reveal("u/1") >>),
                                Ref("base64", "u/1", << Random >>) >>),
        "p" :> Compiling(2, FALSE), 0) EXCEPT !.secrets["t"] = "gkms" :> "new"]
Unusable ==
    {Broken(tag) : tag \in {Ref("gkms", "t/1", << Random >>), Ref("gkms", "u/1", << >>),
                            Sub(Ref("gkms", "t/2", << Random >>)),
                            Pinned(Ref("gkms", "t/2", << >>), << Secret1, "new", 0 >>),
                            Ref("gpg", "t/2", << Random >>), Ref("env", "t/2", << Derive >>)}}

(* Two targets want one ref.                                               *)
Shared ==
    Project(<< "t/1" >>, Files(<< >>, {"t/1"}),
        [t \in {"t", "u"} |-> Doc("map", << Ref("base64", "t/1", << Random >>) >>)],
        "p" :> Compiling(2, FALSE), 0)

(* Two targets put secrets at one path in the Vault, and so does the user. *)
Vaults ==
    Project(<< "t/1", "u/1", "other" >>, Files(<< >>, {"t/1", "u/1", "other"}),
        "t" :> Doc("map", << Kv("t/1", << "v", "a" >>, << Random >>) >>)
        @@ "u" :> Doc("map", << Kv("u/1", << "v", "c" >>, << Random >>) >>),
        "p" :> Compiling(2, FALSE)
        @@ "q" :> (Writing("vaultkv", "other", noKey, FALSE) @@ ("place" :> << "v", "d" >>)), 1)

(* Refs that are sealed with the wrong keys, read while they are written.  *)
Rotation(user) ==
    Project(<< "other", "t/1", "t/2", "t/3", "u/1" >>,
        Files("t/1" :> Held("gkms", Secret1, "old", 0)
              @@ "t/2" :> Held("vaulttransit", Secret1, "old", 0)
              @@ "t/3" :> Held("base64", Secret1, noKey, 0)
              @@ "other" :> Held("gpg", Secret1, "old", 0)
              @@ "u/1" :> Held("gpg", Secret1, "new", 0), {}),
        "t" :> Doc("map", << Ref("gkms", "t/1", << >>) >>)
        @@ "u" :> Doc("map", << Ref("gpg", "u/1", << Random >>) >>),
        "p" :> Rotating @@ "q" :> user, IF user.kind = "validate" THEN 1 ELSE 0)

(* A target without parameters.kapitan.secrets stops the command.          *)
Unconfigured == [Rotation(Validating) EXCEPT !.secrets["u"] = << >>]

MCProjects ==
    {Siblings, Again, Listed, Vaults, Shared, Unconfigured} \cup Unusable
    \cup {Rotation(u) : u \in {Validating, Compiling(1, FALSE), Writing("gkms", "t/1", "new", TRUE),
                               Writing("gpg", "u/1", "new", FALSE),
                               Updating("gkms", "t/1", "new"), Updating("base64", "t/3", "new")}}
OnlyShared == {Shared}
=============================================================================
