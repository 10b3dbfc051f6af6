------------------------------ MODULE MCDaemon ------------------------------
(***************************************************************************)
(* Small inventories for the daemon.  A world is a set of files with the   *)
(* contents each may have; unless it says otherwise every combination is   *)
(* an initial disk.  A path of another world is absent.                    *)
(***************************************************************************)
EXTENDS Daemon

CONSTANTS absent, nopath

Doc(body, classes) == [body |-> body, classes |-> classes, kind |-> "plain"]
Bad(kind, classes) == [body |-> 0, classes |-> classes, kind |-> kind]

T1 == File(<<"targets", "t1">>, "yml")
T2 == File(<<"targets", "t2">>, "yml")
SubT2 == File(<<"targets", "sub", "t2">>, "yml")
A == File(<<"classes", "a">>, "yml")
AInit == File(<<"classes", "a", "init">>, "yml")
AB == File(<<"classes", "a", "b">>, "yml")
AC == File(<<"classes", "a", "c">>, "yml")
B == File(<<"classes", "b">>, "yml")
C == File(<<"classes", "c">>, "yml")
D == File(<<"classes", "d">>, "yml")
E == File(<<"classes", "e">>, "yml")
OutD == File(<<"..", "shared", "d">>, "yml")
StoreE == File(<<"store", "e">>, "yml")
Note == File(<<"classes", "note">>, "md")
Kapitan == File(<<"..", ".kapitan">>, "conf")

MCPath == {T1, T2, SubT2, A, AInit, AB, AC, B, C, D, E, OutD, StoreE, Note,
           Kapitan}

(* Symlinked class files: d is kept outside the inventory, e inside it.    *)
Links == D :> OutD @@ E :> StoreE
MCReal == [p \in MCPath |-> IF p \in DOMAIN Links THEN Links[p] ELSE p]
MCOutside == {OutD}
MCConfigSource == {Kapitan}

(* Shadowing, relative names, and a class directory that comes and goes:   *)
(* t1 includes a, t2 includes b which includes a; a/init.yml shadows a.yml *)
(* and includes .b, which is a/b.yml.                                      *)
AInitDoc == Doc(3, << <<"", "b">> >>)
ABDoc == Doc(4, << >>)
ShadowVersions ==
    T1    :> {Doc(0, << <<"a">> >>)} @@
    T2    :> {Doc(0, << <<"b">> >>), absent} @@
    A     :> {Doc(1, << >>)} @@
    AInit :> {absent, AInitDoc} @@
    AB    :> {ABDoc} @@
    B     :> {Doc(5, << <<"a">> >>)}
ShadowTrees ==
    {[dir |-> Dir(<<"classes", "a">>),
      content |-> AInit :> AInitDoc @@ AB :> ABDoc @@ AC :> absent]}

(* Wildcards, class cycles, files that do not parse or do not evaluate,    *)
(* and two target files of one name.  t1 includes b, which includes a.* .  *)
MCNameOrder == << <<"a", "b">>, <<"a", "c">>, <<"b">> >>
WildVersions ==
    T1    :> {Doc(0, << <<"b">> >>)} @@
    T2    :> {Doc(0, << <<"a", "c">> >>)} @@
    SubT2 :> {absent, Doc(0, << <<"a", "c">> >>)} @@
    AB    :> {absent, Doc(1, << <<"a", "c">> >>)} @@
    B     :> {Doc(6, << <<"a", "*">>, <<"a", "c">> >>)} @@
    AC    :> {Doc(2, << >>), Doc(2, << <<"a", "b">> >>),
              Bad("malformed", << >>), Bad("unresolvable", << >>)}

(* The symlinks.  In `links' every file renders at first; in `linkfail'    *)
(* the first render of t2, the only target that includes e, fails because  *)
(* of c.                                                                   *)
LinkVersions ==
    OutD   :> {Doc(1, << >>), Doc(2, << >>)} @@
    StoreE :> {Doc(3, << >>), Doc(4, << >>), Bad("malformed", << >>)} @@
    C      :> {Doc(5, << >>), Bad("unresolvable", << >>)}
LinkDisk(c, t1) ==
    T1 :> t1 @@ T2 :> Doc(0, << <<"e">>, <<"c">> >>) @@ C :> c @@
    OutD :> Doc(1, << >>) @@ StoreE :> Doc(3, << >>)
LinksDisk == LinkDisk(Doc(5, << >>), Doc(0, << <<"d">>, <<"e">> >>))
LinkFailDisk == LinkDisk(Bad("unresolvable", << >>), Doc(0, << <<"d">> >>))

(* Shadowing by a/init.yml next to a change of the configuration and to a  *)
(* file no class can be in.                                                *)
ConfigVersions ==
    T1      :> {Doc(0, << <<"a">> >>)} @@
    A       :> {Doc(1, << >>)} @@
    AInit   :> {absent, Doc(3, << >>), Bad("malformed", << >>)} @@
    Note    :> {absent, Doc(9, << >>)} @@
    Kapitan :> {Doc(7, << >>), Doc(8, << >>)}

MCVersions ==
    [shadow |-> ShadowVersions, wild |-> WildVersions, lossy |-> WildVersions,
     links |-> LinkVersions, linkfail |-> LinkVersions, config |-> ConfigVersions]
AllWorlds == DOMAIN MCVersions
MCTrees == [w \in AllWorlds |-> IF w = "shadow" THEN ShadowTrees ELSE {}]
MCLossy == [w \in AllWorlds |-> w = "lossy"]
MCMaxEdits ==
    [shadow |-> 3, wild |-> 3, lossy |-> 2, links |-> 3, linkfail |-> 2, config |-> 2]

Contents(versions) == UNION {versions[p] : p \in DOMAIN versions}
AllDisks(versions) ==
    {d \in [DOMAIN versions -> Contents(versions)] :
        \A p \in DOMAIN versions : d[p] \in versions[p]}
Everywhere(d) == d @@ [p \in MCPath |-> absent]
MCInitialDisks ==
    [w \in AllWorlds |->
        {Everywhere(d) : d \in CASE w = "links" -> {LinksDisk}
                                 [] w = "linkfail" -> {LinkFailDisk}
                                 [] OTHER -> AllDisks(MCVersions[w])}]
MCDocument ==
    UNION {Contents(MCVersions[w]) \cup {d[p] : d \in MCInitialDisks[w], p \in MCPath}
             : w \in AllWorlds} \ {absent}

Passing == AllWorlds \ {"linkfail"}
Live == {"config"}
LinkFail == {"linkfail"}
=============================================================================
