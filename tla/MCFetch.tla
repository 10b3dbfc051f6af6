-------------------------------- MODULE MCFetch --------------------------------
(***************************************************************************)
(* Repositories with dependencies of each kind.                            *)
(***************************************************************************)
EXTENDS Fetch, TLC

CONSTANTS noRef, anyType

F == <<"f">>
SubF == <<"sub", "f">>
ModF == <<"mod", "f">>

AllFiles == "repo" :> {F, SubF} @@ "bare" :> {F} @@ "file" :> {F}
    @@ "zip" :> {F, SubF} @@ "page" :> {F} @@ "charts" :> {F, SubF} @@ "image" :> {F, SubF}
AllModules == [s \in DOMAIN AllFiles |-> IF s = "repo" THEN {ModF} ELSE {}]
AllLayers == "image" :> ("text" :> {F} @@ "tar" :> {SubF})
AllRefs == "repo" :> {"main", "v1"} @@ "bare" :> {"v1"}
AllDefaults == "repo" :> "main" @@ "bare" :> noRef

(* Items of each kind for a target and a destination. *)
Basic(target, kind, source, dest) ==
    [target |-> target, kind |-> kind, source |-> source, dest |-> dest, force |-> FALSE,
     ref |-> noRef, sub |-> << >>, modules |-> FALSE, unpack |-> FALSE,
     chart |-> [name |-> "", version |-> noRef], binary |-> "helm",
     type |-> anyType, link |-> "https"]
Git(t, dest, ref, sub) == [Basic(t, "git", "repo", dest) EXCEPT !.ref = ref, !.sub = sub]
Http(t, source, dest, unpack) == [Basic(t, "http", source, dest) EXCEPT !.unpack = unpack]
Helm(t, dest, version, binary) ==
    [Basic(t, "helm", "charts", dest) EXCEPT !.binary = binary,
        !.chart = [name |-> "c", version |-> version]]
Oci(t, dest, type, link) == [Basic(t, "oci", "image", dest) EXCEPT !.type = type, !.link = link]
Forcing(d) == [d EXCEPT !.force = TRUE]
Modules(d) == [d EXCEPT !.modules = TRUE]

D(n) == << "deps", n >>

(* The combinations of the flags. *)
Quiet == [all |-> FALSE, force |-> FALSE]
Fetching == [all |-> TRUE, force |-> FALSE]
Forcing2 == [all |-> TRUE, force |-> TRUE]

User(items, flags, selections, threads) ==
    [items |-> items, flags |-> flags, selections |-> selections, threads |-> threads]
Bounds(r, p, f, c) == [runs |-> r, publish |-> p, faults |-> f, crashes |-> c]
One(user, oneDisk, max) == [users |-> ("p" :> user), oneDisk |-> oneDisk, max |-> max]
Two(user, other, oneDisk, max) ==
    [users |-> ("p" :> user @@ "q" :> other), oneDisk |-> oneDisk, max |-> max]

(* One clone, several refs, a subdirectory, submodules, a missing ref.     *)
Clones ==
    One(User(<< Git("a", D("1"), "v1", << >>), Git("a", D("2"), noRef, <<"sub">>),
                Modules(Git("b", D("3"), "v1", <<"mod">>)), Git("b", D("4"), "missing", << >>) >>,
             {Quiet, Fetching, Forcing2}, {{}, {"a"}}, 1), TRUE, Bounds(3, 1, 1, 1))

(* A remote without a default branch, and two items for one destination.   *)
Detached ==
    One(User(<< [Basic("a", "git", "bare", D("1")) EXCEPT !.ref = "v1"],
                Basic("a", "git", "bare", D("2")),
                Forcing([Basic("b", "git", "bare", D("1")) EXCEPT !.ref = "v1"]) >>,
             {Quiet, Fetching}, {{}, {"b"}}, 1), TRUE, Bounds(3, 1, 1, 1))

(* Downloads, some of them into the directory of another one.              *)
Downloads ==
    One(User(<< Http("a", "file", D("1") \o F, FALSE), Http("a", "zip", D("1"), TRUE),
                Forcing(Http("a", "file", D("2"), FALSE)), Http("b", "page", D("3"), TRUE),
                Http("b", "page", D("1") \o <<"sub">>, FALSE) >>,
             {Quiet, Fetching}, {{}, {"b"}}, 2), TRUE, Bounds(2, 1, 1, 1))

(* Layers of an image, and connection settings that may disagree.          *)
Layers ==
    One(User(<< Oci("a", D("1"), "text", "https"), Oci("a", D("2"), anyType, "https"),
                [Oci("b", D("3"), "tar", "http") EXCEPT !.sub = <<"sub">>] >>,
             {Fetching}, {{}, {"a"}, {"b"}}, 1), TRUE, Bounds(3, 1, 1, 1))

(* Two repositories that share a chart.                                    *)
Shared(oneDisk) ==
    Two(User(<< Helm("a", D("1"), "v1", "helm"), Forcing(Helm("b", D("2"), "v1", "helm")) >>,
             {Fetching}, {{}, {"a"}}, 1),
        User(<< Helm("a", <<"other", "1">>, "v1", "helm") >>, {Fetching}, {{}}, 1),
        oneDisk, Bounds(1, 0, 0, 1))

(* One repository that pulls a chart with two binaries, and one without a  *)
(* version.                                                                *)
Binaries(oneDisk) ==
    One(User(<< Helm("a", D("1"), "v1", "helm"), Helm("a", D("2"), "v1", "helm3"),
                Helm("b", D("3"), noRef, "helm") >>,
             {Fetching, Forcing2}, {{"a"}, {"b"}}, 2), oneDisk, Bounds(2, 0, IF oneDisk THEN 0 ELSE 1, 1))

(* Two processes that overwrite the same files, one of them forced.        *)
Rivals ==
    Two(User(<< Git("a", D("1"), "v1", << >>), Forcing(Git("a", D("2"), noRef, <<"sub">>)) >>,
             {Fetching, Forcing2}, {{}}, 2),
        User(<< Git("b", D("1"), "v1", << >>) >>, {Forcing2}, {{}}, 1), TRUE, Bounds(1, 1, 1, 1))

MCProjects == {Clones, Detached, Downloads, Layers, Rivals} \cup {Shared(b) : b \in BOOLEAN}
              \cup {Binaries(b) : b \in BOOLEAN}

(* Two targets name one source and destination, the second one forced and  *)
(* at another ref.                                                         *)
Duplicates ==
    { One(User(<< Git("a", D("1"), "main", << >>), Forcing(Git("b", D("1"), "v1", << >>)) >>,
               {Quiet, Fetching}, {{}}, 1), TRUE, Bounds(2, 0, 0, 0)) }
=============================================================================
