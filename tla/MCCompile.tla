------------------------------ MODULE MCCompile ------------------------------
(***************************************************************************)
(* Small projects for the compiler.  A target a project does not have is   *)
(* one that never renders to anything but `gone'.                          *)
(***************************************************************************)
EXTENDS Compile

CONSTANTS gone, unrendered, norun, junk

A == <<"a">>
AB == <<"a", "b">>
ABC == <<"a", "b", "c">>
D == <<"d">>
E == <<"e">>
AllNames == << A, AB, ABC, D, E >>

(* A document that reads no other target, every one, or those in `names'.  *)
Doc(version, reads) == [version |-> version, reads |-> reads,
    globals |-> {}, all |-> FALSE, spills |-> {}]
Spilling(d, places) == [d EXCEPT !.spills = places]
Asking(d, names) == [d EXCEPT !.globals = names]
AskingAll(d) == [d EXCEPT !.all = TRUE]
With(docs) == docs @@ [t \in ToSet(AllNames) |-> {gone}]

OneFile == "f" :> {"v1", "v2", "bad"}

SpillDocs == With(
    A  :> {Spilling(Doc(1, {"f"}), {Append(AB, "extra")}), Doc(2, {})} @@
    AB :> {Doc(3, {"f"})})

Docs ==
    (* a and a.b read f, d reads a; a.b may stop rendering or go away, as d may. *)
    "nested" :> With(
        A  :> {Doc(1, {"f"})} @@
        AB :> {Doc(3, {"f"}), gone, unrendered} @@
        D  :> {Asking(Doc(4, {}), {A}), gone}) @@
    (* Targets that read other targets, and a compiler that is upgraded: d *)
    (* iterates the whole inventory, e reads a, which may stop rendering.  *)
    "flat" :> With(
        A :> {Doc(1, {"f"}), unrendered} @@
        D :> {AskingAll(Doc(4, {}))} @@
        E :> {Asking(Doc(5, {"f"}), {A}), gone}) @@
    (* Sources that change while a run is going on. *)
    "busy" :> With(
        A :> {Doc(1, {"f"}), Doc(2, {}), unrendered} @@
        D :> {Asking(Doc(5, {"f"}), {A})}) @@
    (* a also writes into the directory of its nested target; with one worker *)
    (* in `spill', with two in `race'.                                        *)
    "spill" :> SpillDocs @@
    "race" :> SpillDocs @@
    (* A target that looks for another one that need not exist. *)
    "missing" :> With(A :> {Doc(1, {}), gone} @@ D :> {Asking(Doc(4, {}), {A})}) @@
    (* A target that reads them all, and one that fails from its first render. *)
    "growing" :> With(A :> {gone, unrendered} @@ D :> {AskingAll(Doc(4, {}))}) @@
    (* A chain of nested targets whose middle one goes away. *)
    "chain" :> With(A :> {Doc(1, {})} @@ AB :> {Doc(3, {}), gone} @@ ABC :> {Doc(6, {})})

Order == SelectSeq(AllNames, LAMBDA t : \E p \in Projects : Docs[p][t] # {gone})

Passing == {"nested", "flat", "busy", "spill"}
Missing == {"missing"}
Growing == {"growing"}
Chain == {"chain"}
Race == {"race"}

AllDocument ==
    (UNION {Docs[p][t] : p \in DOMAIN Docs, t \in ToSet(AllNames)}) \ {gone, unrendered}
AllSettings == [p \in DOMAIN Docs |-> IF p = "flat" THEN {1, 2} ELSE {1}]
AllSelections == ("nested" :> {{}, {A}, {AB, D}}) @@ ("flat" :> {{}, {D}, {D, E}})
    @@ ("busy" :> {{}, {D}}) @@ ("spill" :> {{}, {A}}) @@ ("growing" :> {{}, {D}})
    @@ [p \in DOMAIN Docs |-> {{}}]
AllWorkers == [p \in DOMAIN Docs |-> IF p \in {"flat", "spill"} THEN 1 ELSE 2]
CrashBounds == [p \in DOMAIN Docs |-> IF p = "nested" THEN 1 ELSE 0]
EditBounds == [p \in DOMAIN Docs |-> 2]
Busy == {"busy"} \cap Projects
=============================================================================
