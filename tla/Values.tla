-------------------------------- MODULE Values --------------------------------
(***************************************************************************)
(* The values of an inventory (value.rs) and the paths into them (path.rs, *)
(* merge.rs).  A mapping and a list are both ordered: `keys' is the order  *)
(* of the entries, `of' gives each entry, and the keys of a list are its   *)
(* indices as strings.  A string that contains "${" is kept in its parsed  *)
(* form, a sequence of parts (interp/ast.rs):                              *)
(*   - a literal piece, a value without interpolation,                     *)
(*   - [dots, keys], a node interpolation; its keys are elements,          *)
(*   - [name, args], a call of a resolver with its argument elements,      *)
(*   - [quoted], an escaped interpolation, written with a backslash.       *)
(* An element is a value whose texts are still to be evaluated.            *)
(***************************************************************************)
EXTENDS Integers, Sequences, SequencesExt, TLC

Null == [t |-> "null"]
Str(s) == [t |-> "str", s |-> s]
Num(n) == [t |-> "int", n |-> n]
Bool(b) == [t |-> "bool", n |-> IF b THEN 1 ELSE 0]
Text(parts) == [t |-> "text", parts |-> parts]
\* A dotted string that resolvers split into keys ("a.b", ".a").
Dotted(dots, keys) == [t |-> "dotted", dots |-> dots, keys |-> keys]
\* What `escape' returns, and what process_literals makes of it.
Marked(s) == [t |-> "marked", s |-> s]
Literal(s) == [t |-> "literal", s |-> s]

Map(entries) ==
  [t |-> "map", keys |-> [i \in DOMAIN entries |-> entries[i][1]],
   of |-> [k \in {entries[i][1] : i \in DOMAIN entries} |->
            entries[CHOOSE i \in DOMAIN entries : entries[i][1] = k][2]]]
EmptyMap == Map(<<>>)
List(items) ==
  LET Entries == [i \in DOMAIN items |-> <<ToString(i - 1), items[i]>>]
  IN [Map(Entries) EXCEPT !.t = "list"]

IsContainer(v) == v.t \in {"map", "list"}
HasText(v) == v.t = "text"
Missing == Str("???")
Entries(v) == IF IsContainer(v) THEN v.keys ELSE <<>>
Items(v) == [i \in DOMAIN v.keys |-> v.of[v.keys[i]]]
With(v, k, w) ==
  IF k \in DOMAIN v.of THEN [v EXCEPT !.of[k] = w]
  ELSE [v EXCEPT !.keys = Append(@, k), !.of = (k :> w) @@ @]

(* Python's bool(v) *)
Truthy(v) ==
  CASE v.t = "null" -> FALSE
    [] v.t \in {"int", "bool"} -> v.n # 0
    [] v.t = "str" -> v.s # ""
    [] IsContainer(v) -> v.keys # <<>>
    [] OTHER -> TRUE

(* Python's == : numbers and booleans by value, containers by content. *)
RECURSIVE PyEq(_, _)
PyEq(v, w) ==
  \/ v = w
  \/ v.t \in {"int", "bool"} /\ w.t \in {"int", "bool"} /\ v.n = w.n
  \/ /\ IsContainer(v) /\ v.t = w.t
     /\ DOMAIN v.of = DOMAIN w.of
     /\ \A k \in DOMAIN v.of : PyEq(v.of[k], w.of[k])

PyStr(v) ==
  CASE v.t \in {"str", "literal", "marked"} -> v.s
    [] v.t = "int" -> ToString(v.n)
    [] v.t = "bool" -> IF v.n = 1 THEN "True" ELSE "False"
    [] v.t = "null" -> "None"
    [] OTHER -> v.t   \* a container or a path: its wording is left out

(* The node at a path; a path is a sequence of keys. *)
RECURSIVE Exists(_, _), At(_, _), Put(_, _, _)
Exists(root, path) ==
  \/ path = <<>>
  \/ /\ IsContainer(root) /\ Head(path) \in DOMAIN root.of
     /\ Exists(root.of[Head(path)], Tail(path))
At(root, path) == IF path = <<>> THEN root ELSE At(root.of[Head(path)], Tail(path))
Put(root, path, v) ==
  IF path = <<>> THEN v
  ELSE [root EXCEPT !.of[Head(path)] = Put(@, Tail(path), v)]

(* Every path of a tree, and the order-free content of it. *)
RECURSIVE Paths(_), Content(_)
Paths(v) ==
  {<<>>} \cup (IF IsContainer(v)
               THEN UNION {{<<k>> \o p : p \in Paths(v.of[k])} : k \in DOMAIN v.of}
               ELSE {})
Content(v) ==
  IF IsContainer(v) THEN [t |-> v.t, of |-> [k \in DOMAIN v.of |-> Content(v.of[k])]]
  ELSE v
=============================================================================
