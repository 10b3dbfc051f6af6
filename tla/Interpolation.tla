---------------------------- MODULE Interpolation -----------------------------
(***************************************************************************)
(* The evaluator of interpolations (interp/eval.rs) and the resolvers that *)
(* see more than their arguments (resolvers/builtin.rs, oc.rs, mod.rs).    *)
(*                                                                         *)
(* An evaluator is a record:                                               *)
(*   tree     the parameters, rewritten in place                           *)
(*   cache    what the texts evaluated in this pass stand for, by path     *)
(*   anchors  for a container copied from elsewhere: where it came from    *)
(*   source   the first container seen while a node is evaluated           *)
(*   stack    the paths being dereferenced                                 *)
(*   depth    how many copies are being resolved inside one another        *)
(*   err      why the evaluation failed, "" while it has not               *)
(* A result is a node of the tree, [at], or a computed value, [own].  Each *)
(* operator takes an evaluator and gives an outcome, [e, r].               *)
(***************************************************************************)
EXTENDS Values

CONSTANTS
  StackLimit,    \* calls nested in one another that the stack of a thread holds
  AnchorDepth    \* how many copies of copies are followed (eight in the code)

ASSUME BoundsAssumption == StackLimit \in Nat /\ AnchorDepth \in Nat

NoDeref(root, path) == [t |-> "unresolved"]
Plain == INSTANCE Merge WITH Deref <- NoDeref

None == [none |-> TRUE]
Evaluator(tree) ==
  [tree |-> tree, cache |-> <<>>, anchors |-> <<>>, source |-> None,
   stack |-> <<>>, depth |-> 0, err |-> ""]

Ok(e, r) == [e |-> e, r |-> r]
Fail(e, code) == Ok([e EXCEPT !.err = code], None)
Bind(o, Then(_, _)) == IF o.e.err # "" THEN Ok(o.e, None) ELSE Then(o.e, o.r)

IsAt(r) == "at" \in DOMAIN r
IsOwn(r) == "own" \in DOMAIN r
(* to_value *)
ValueOf(e, r) ==
  IF IsOwn(r) THEN r.own ELSE IF Exists(e.tree, r.at) THEN At(e.tree, r.at) ELSE Null

HoldsAnything(e, path, expr) == Exists(e.tree, path)   \* (mutant: not looked at again)
Holds(e, path, expr) == Exists(e.tree, path) /\ At(e.tree, path) = expr
Without(f, k) == [x \in DOMAIN f \ {k} |-> f[x]]
ToMissingDirect == {"to_missing"}   \* (mutant: not through another text)
ToMissing == {"to_missing", "to_missing_via"}

(* anchored: where the value at path was written *)
RECURSIVE AnchoredIn(_, _, _)
AnchoredIn(anchors, path, depth) ==
  LET over == {d \in DOMAIN anchors : IsPrefix(d, path)}
      dest == CHOOSE d \in over : \A c \in over : Len(c) <= Len(d)
      next == anchors[dest] \o SubSeq(path, Len(dest) + 1, Len(path))
  IN IF depth = 0 \/ over = {} \/ next = path THEN path
     ELSE AnchoredIn(anchors, next, depth - 1)
Anchored(e, path) == AnchoredIn(e.anchors, path, AnchorDepth)

(* A list index written as k, in a list of n items; negative from the end. *)
IsIndex(k) == \E i \in -9..9 : ToString(i) = k
IndexIn(k, n) == {ToString(i) : i \in {j \in 0..(n - 1) : k \in {ToString(j), ToString(j - n)}}}

-----------------------------------------------------------------------------
(* Text made of values: a string, or a text again when a piece holds an   *)
(* interpolation (one inside a container included).                        *)
RECURSIVE Pieces(_)
Pieces(v) ==
  IF HasText(v) THEN v.parts
  ELSE IF IsContainer(v)
  THEN FoldLeft(LAMBDA acc, k : acc \o <<Str(k)>> \o Pieces(v.of[k]), <<>>, v.keys)
  ELSE <<Str(PyStr(v))>>
Joined(vs) ==
  LET pieces == FoldLeft(LAMBDA acc, v : acc \o Pieces(v), <<>>, vs)
  IN IF \E i \in DOMAIN pieces : "t" \notin DOMAIN pieces[i] THEN Text(pieces)
     ELSE Str(FoldLeft(LAMBDA acc, v : acc \o v.s, "", pieces))

Node(dots, keys) == [dots |-> dots, keys |-> keys]
Call(name, args) == [name |-> name, args |-> args]
Ref(dots, keys) == Text(<<Node(dots, [i \in DOMAIN keys |-> Str(keys[i])])>>)
Keys(v) == IF v.t = "dotted" THEN v.keys ELSE <<PyStr(v)>>
IsName(v) == v.t \in {"str", "dotted"}

(* relpath: an absolute path as an interpolation seen from the node at p *)
RelPath(keys, p) ==
  LET n == IF Len(keys) < Len(p) THEN Len(keys) ELSE Len(p)
      differ == {i \in 1..n : keys[i] # p[i]}
      i == CHOOSE d \in differ : \A c \in differ : d <= c
  IN IF differ = {} THEN Str("SELF REFERENCE DETECTED")
     ELSE Ref(IF i = 1 THEN 0 ELSE Len(p) - (i - 1), SubSeq(keys, i, Len(keys)))

(* default: nested oc.select calls, evaluated by the next read *)
RECURSIVE Default(_)
Default(args) ==
  IF Len(args) = 1 THEN Head(args)
  ELSE Text(<<Call("oc.select", <<Head(args), Default(Tail(args))>>)>>)

(* write: the node at path, made a mapping on the way where it is not a    *)
(* container, merged with v.                                               *)
RECURSIVE Written(_, _, _)
Written(node, path, v) ==
  LET dest == IF IsContainer(node) THEN node ELSE EmptyMap
      k == Head(path)
      sub == Written(IF k \in DOMAIN dest.of THEN dest.of[k] ELSE EmptyMap, Tail(path), v)
  IN IF path = <<>> THEN Plain!MergeInto(node, v)
     ELSE IF sub = Plain!Mismatch \/ (dest.t = "list" /\ k \notin DOMAIN dest.of)
     THEN Plain!Mismatch
     ELSE With(dest, k, sub)

(* Resolvers that are functions of their arguments.                        *)
Pure(name, args, literal) ==
  CASE name = "merge" ->
         IF \A i \in DOMAIN args : IsContainer(args[i])
         THEN FoldLeft(LAMBDA acc, v : Plain!Merged(acc, v, "extend"), Head(args), Tail(args))
         ELSE None
    [] name = "dict" ->
         IF literal /\ args[1].t = "list" /\ \A i \in DOMAIN Items(args[1]) : IsContainer(Items(args[1])[i])
         THEN LET Into(acc, m) ==
                    IF m.t = "map" THEN FoldLeft(LAMBDA a, k : With(a, k, m.of[k]), acc, m.keys) ELSE acc
              IN FoldLeft(Into, EmptyMap, Items(args[1]))
         ELSE args[1]
    [] name = "list" ->
         IF args[1].t = "map"
         THEN List([i \in DOMAIN args[1].keys |-> Map(<<<<args[1].keys[i], Items(args[1])[i]>>>>)])
         ELSE IF args[1].t = "list" THEN args[1] ELSE None
    [] name = "add" ->
         IF \A i \in 1..2 : args[i].t = "int" THEN Num(args[1].n + args[2].n)
         ELSE IF \A i \in 1..2 : args[i].t = "list" THEN List(Items(args[1]) \o Items(args[2]))
         ELSE IF \A i \in 1..2 : args[i].t = "str" THEN Str(args[1].s \o args[2].s)
         ELSE None
    [] name = "default" -> Default(args)
    [] name = "escape" -> Marked(PyStr(args[1]))
    [] name = "oc.create" -> args[1]
    [] name = "if" -> IF Truthy(args[1]) THEN args[2] ELSE EmptyMap
    [] name = "ifelse" -> IF Truthy(args[1]) THEN args[2] ELSE args[3]
    [] name = "and" -> Bool(\A i \in DOMAIN args : Truthy(args[i]))
    [] name = "or" -> Bool(\E i \in DOMAIN args : Truthy(args[i]))
    [] name = "not" -> Bool(~Truthy(args[1]))
    [] name = "equal" -> Bool(\A i \in DOMAIN args : PyEq(args[i], Head(args)))
PureNames == {"merge", "dict", "list", "add", "default", "escape", "oc.create", "if", "ifelse",
              "and", "or", "not", "equal"}
Selecting == {"oc.select", "oc.deprecated", "oc.dict.keys", "oc.dict.values"}
IsLiteral(el) == ~HasText(el)

-----------------------------------------------------------------------------
RECURSIVE EvalElement(_, _, _), EvalText(_, _, _), EvalInterp(_, _, _),
          SelectPath(_, _, _, _), DerefAt(_, _), DeepValue(_, _), DeepAt(_, _, _)

EvalAll(e, els, at) ==
  LET Add(acc, el) ==
        Bind(acc, LAMBDA e1, vs : Bind(EvalElement(e1, el, at), LAMBDA e2, v : Ok(e2, Append(vs, v))))
  IN FoldLeft(Add, Ok(e, <<>>), els)

EvalElement(e, el, at) ==
  IF HasText(el)
  THEN Bind(EvalText(e, el.parts, at), LAMBDA e1, r : Ok(e1, ValueOf(e1, r)))
  ELSE IF IsContainer(el)
  THEN Bind(EvalAll(e, Items(el), at), LAMBDA e1, vs :
         Ok(e1, [el EXCEPT !.of = [k \in DOMAIN el.of |-> vs[CHOOSE i \in DOMAIN vs : el.keys[i] = k]]]))
  ELSE Ok(e, el)

IsInterp(part) == "t" \notin DOMAIN part /\ "quoted" \notin DOMAIN part
PieceOf(part) ==
  IF IsInterp(part) THEN Text(<<part>>)
  ELSE IF "quoted" \in DOMAIN part THEN [t |-> "quoted", part |-> part.quoted]
  ELSE part
Unquoted(v) == IF v.t = "quoted" THEN Text(<<v.part>>) ELSE v

EvalText(e, parts, at) ==
  IF Len(parts) = 1 /\ IsInterp(Head(parts)) THEN EvalInterp(e, Head(parts), at)
  ELSE Bind(EvalAll(e, [i \in DOMAIN parts |-> PieceOf(parts[i])], at), LAMBDA e1, vs :
         Ok(e1, [own |-> Joined([i \in DOMAIN vs |-> Unquoted(vs[i])])]))

(* Ctx::select of a dotted string: relative ones start at the container of *)
(* the node; what is absent, "???" or below a scalar is None.              *)
Lenient(o) ==
  IF o.e.err \in {"not_a_container", "to_missing"} THEN Ok([o.e EXCEPT !.err = ""], None) ELSE o
SelectKey(e, v, at) ==
  LET dots == IF v.t = "dotted" THEN v.dots ELSE 0
      base == IF dots = 0 THEN <<>> ELSE SubSeq(at, 1, Len(at) - dots)
  IN IF dots > Len(at) THEN Fail(e, "bad_relative")
     ELSE Bind(Lenient(SelectPath(e, [at |-> base], Keys(v), 1)),
               LAMBDA e1, r : IF r = None THEN Ok(e1, None) ELSE DeepValue(e1, r))

Selected(e, name, args, at) ==
  Bind(SelectKey(e, args[1], at), LAMBDA e1, v :
    CASE name = "oc.select" ->
           Ok(e1, IF v # None THEN v ELSE IF Len(args) = 2 THEN args[2] ELSE Null)
      [] name = "oc.deprecated" -> IF v = None THEN Fail(e1, "resolver_failed") ELSE Ok(e1, v)
      [] OTHER ->
           IF v = None \/ (v # None /\ v.t # "map") THEN Fail(e1, "resolver_failed")
           ELSE LET dots == IF args[1].t = "dotted" THEN args[1].dots ELSE 0
                    Value(k) == Ref(IF dots > 0 THEN dots + 1 ELSE 0, Append(Keys(args[1]), k))
                IN Ok(e1, List([i \in DOMAIN v.keys |->
                     IF name = "oc.dict.keys" THEN Str(v.keys[i]) ELSE Value(v.keys[i])])))

Strict(o) == IF o.e.err = "to_missing" THEN Fail(o.e, "resolver_failed") ELSE o
Access(e, args) ==
  Bind(Strict(SelectPath(e, [at |-> <<>>], [i \in DOMAIN args |-> PyStr(args[i])], 1)),
       LAMBDA e1, r : IF r = None THEN Fail(e1, "resolver_failed") ELSE DeepValue(e1, r))

(* write: memoised results are forgotten once the tree has changed.        *)
WriteToKeepingMemo(path, o) ==   \* (mutant: what was read before is not forgotten)
  LET tree == Written(o.e.tree, path, o.r)
  IN IF o.e.err # "" THEN Ok([o.e EXCEPT !.err = ""], Str("ERROR WHILE RESOLVING"))
     ELSE IF o.r = None \/ (o.r # None /\ ~Truthy(o.r)) THEN Ok(o.e, Str("NOT FOUND"))
     ELSE IF ~IsContainer(o.r) THEN Ok(o.e, Str("ERROR WHILE RESOLVING"))
     ELSE IF tree = Plain!Mismatch THEN Fail(o.e, "resolver_failed")
     ELSE Ok([o.e EXCEPT !.tree = tree], Str("DONE"))
WriteTo(path, o) ==
  LET tree == Written(o.e.tree, path, o.r)
  IN IF o.e.err # "" THEN Ok([o.e EXCEPT !.err = ""], Str("ERROR WHILE RESOLVING"))
     ELSE IF o.r = None \/ (o.r # None /\ ~Truthy(o.r)) THEN Ok(o.e, Str("NOT FOUND"))
     ELSE IF ~IsContainer(o.r) THEN Ok(o.e, Str("ERROR WHILE RESOLVING"))
     ELSE IF tree = Plain!Mismatch THEN Fail(o.e, "resolver_failed")
     ELSE Ok([o.e EXCEPT !.tree = tree, !.cache = <<>>], Str("DONE"))
Write(e, args, at) == WriteTo(Keys(args[1]), SelectKey(e, args[2], at))

WhereWritten(name, path) ==
  CASE name = "fullkey" -> Dotted(0, path)
    [] name = "key" -> IF path = <<>> THEN Null ELSE Str(Last(path))
    [] name = "parentkey" -> IF Len(path) < 2 THEN Null ELSE Str(path[Len(path) - 1])

Resolve(e, name, args, literal, at) ==
  CASE name \in PureNames ->
         LET v == Pure(name, args, literal)
         IN IF v = None THEN Fail(e, "resolver_failed") ELSE Ok(e, v)
    [] name \in Selecting -> IF IsName(args[1]) THEN Selected(e, name, args, at) ELSE Fail(e, "resolver_failed")
    [] name = "access" -> Access(e, args)
    [] name = "write" ->
         IF IsName(args[1]) /\ IsName(args[2]) THEN Write(e, args, at) ELSE Fail(e, "resolver_failed")
    [] name = "relpath" -> IF IsName(args[1]) THEN Ok(e, RelPath(Keys(args[1]), at)) ELSE Fail(e, "resolver_failed")
    [] name \in {"key", "parentkey", "fullkey"} -> Ok(e, WhereWritten(name, Anchored(e, at)))
    [] OTHER -> Fail(e, "unknown_resolver")

(* A node interpolation: the first container it meets is kept as the       *)
(* source of a copy, and one that encloses the node is refused.            *)
EvalNode(e, dots, keys, at) ==
  LET base == SubSeq(at, 1, Len(at) - dots)
  IN IF \E i \in DOMAIN keys : keys[i].t \notin {"str", "int"} THEN Fail(e, "bad_key")
     ELSE IF dots > Len(at) THEN Fail(e, "bad_relative")
     ELSE Bind(SelectPath(e, [at |-> IF dots = 0 THEN <<>> ELSE base],
                          [i \in DOMAIN keys |-> PyStr(keys[i])], 1),
       LAMBDA e1, r :
         IF r = None THEN Fail(e1, "key_not_found")
         ELSE IF ~IsAt(r) THEN Ok(e1, r)
         ELSE LET seen == e1.source = None /\ IsContainer(ValueOf(e1, r))
                  e2 == [e1 EXCEPT !.source = IF seen THEN r ELSE @]
              IN IF at # <<>> /\ IsPrefix(r.at, Front(at)) THEN Fail(e2, "parent_reference")
                 ELSE Ok(e2, r))

EvalInterp(e, i, at) ==
  IF "dots" \in DOMAIN i
  THEN Bind(EvalAll(e, i.keys, at), LAMBDA e1, keys : EvalNode(e1, i.dots, keys, at))
  ELSE Bind(EvalAll(e, i.args, at), LAMBDA e1, args :
         Bind(Resolve(e1, i.name, args, \A a \in DOMAIN i.args : IsLiteral(i.args[a]), at),
              LAMBDA e2, v : Ok(e2, [own |-> v])))

(* select_path, from the i-th key on: texts on the way are dereferenced.   *)
ChildOf(v, k) ==
  IF ~IsContainer(v) THEN {}
  ELSE IF v.t = "list" THEN IndexIn(k, Len(v.keys)) ELSE {k} \cap DOMAIN v.of
Via(o) == IF o.e.err \in ToMissing THEN Fail(o.e, "to_missing_via") ELSE o
SelectPath(e, cur, keys, i) ==
  LET v == ValueOf(e, cur)
      k == CHOOSE c \in ChildOf(v, keys[i]) : TRUE
      path == Append(cur.at, k)
      Go(e1, r) == IF ValueOf(e1, r) = Missing THEN Fail(e1, "to_missing")
                   ELSE SelectPath(e1, r, keys, i + 1)
  IN IF i > Len(keys) THEN Ok(e, cur)
     ELSE IF IsAt(cur) /\ v.t = "list" /\ ~IsIndex(keys[i]) THEN Fail(e, "bad_index")
     ELSE IF IsAt(cur) /\ ~IsContainer(v) /\ ~(v = Null /\ i > 1) THEN Fail(e, "not_a_container")
     ELSE IF ChildOf(v, keys[i]) = {} THEN Ok(e, None)
     ELSE IF IsOwn(cur) THEN Go(e, [own |-> v.of[k]])
     ELSE IF HasText(v.of[k]) THEN Bind(Via(DerefAt(e, path)), Go)
     ELSE Go(e, [at |-> path])

(* deref_at: what the text at path stands for, once per pass.              *)
Memoised(e, path, o) ==
  LET e1 == [o.e EXCEPT !.stack = e.stack]
  IN IF e1.err # "" THEN Ok(e1, None) ELSE Ok([e1 EXCEPT !.cache = (path :> o.r) @@ @], o.r)
DerefAt(e, path) ==
  IF path \in DOMAIN e.cache THEN Ok(e, e.cache[path])
  ELSE IF \E i \in DOMAIN e.stack : e.stack[i] = path THEN Fail(e, "recursive")
  ELSE Memoised(e, path, EvalText([e EXCEPT !.stack = Append(@, path)], At(e.tree, path).parts, path))

(* deep_value: everything inside resolved, without writing it back.        *)
DeepValue(e, r) == IF IsOwn(r) THEN Ok(e, r.own) ELSE DeepAt(e, At(e.tree, r.at), r.at)
Deeper(e, o) ==
  IF o.e.err \in ToMissing THEN Ok([o.e EXCEPT !.err = ""], Missing)
  ELSE Bind(o, LAMBDA e1, r :
         Bind(DeepValue([e1 EXCEPT !.depth = @ + 1], r), LAMBDA e2, x :
           Ok([e2 EXCEPT !.depth = e.depth], x)))
DeepAt(e, v, at) ==
  LET Entry(acc, k) ==
        Bind(acc, LAMBDA e1, w :
          Bind(DeepAt(e1, v.of[k], Append(at, k)), LAMBDA e2, x : Ok(e2, [w EXCEPT !.of[k] = x])))
  IN IF HasText(v)
     THEN IF e.depth >= StackLimit THEN Fail(e, "stack_overflow") ELSE Deeper(e, DerefAt(e, at))
     ELSE IF IsContainer(v) THEN FoldLeft(Entry, Ok(e, v), v.keys)
     ELSE Ok(e, v)

-----------------------------------------------------------------------------
RECURSIVE ResolveSubtree(_, _)

(* The result goes where the text still is; a text that was put there is   *)
(* not answered from the memo; a copied container remembers its source.    *)
Finished(e, path, expr, v, outer) ==
  LET tree == IF Holds(e, path, expr) THEN Put(e.tree, path, v) ELSE e.tree
      there == Exists(tree, path)
  IN [e EXCEPT !.tree = tree,
        !.cache = IF there /\ HasText(At(tree, path)) THEN Without(@, path) ELSE @,
        !.anchors = IF e.source # None /\ there /\ IsContainer(At(tree, path))
                    THEN (path :> e.source.at) @@ Without(@, path) ELSE @,
        !.source = outer]

CopyOf(e, expr, q) == IF Exists(e.tree, q) THEN At(e.tree, q) ELSE expr
CopiedFrom(e, path, expr, q, inner) ==
  IF inner.err # "" THEN inner ELSE Finished(inner, path, expr, CopyOf(inner, expr, q), e.source)
PutResult(e, path, expr, o) ==
  IF o.e.err \in ToMissing
  THEN [o.e EXCEPT !.err = "", !.source = e.source,
          !.tree = IF Holds(o.e, path, expr) THEN Put(@, path, Missing) ELSE @]
  ELSE IF o.e.err # "" THEN o.e
  ELSE IF IsOwn(o.r) THEN Finished(o.e, path, expr, o.r.own, e.source)
  ELSE CopiedFrom(e, path, expr, o.r.at, ResolveSubtree(o.e, o.r.at))
ResolveNode(e, path) == PutResult(e, path, At(e.tree, path), DerefAt([e EXCEPT !.source = None], path))

(* resolve_subtree: every text below path, in order.                       *)
Back(e, end) == [end EXCEPT !.depth = e.depth]
ResolveSubtree(e, path) ==
  LET Child(acc, k) ==
        IF acc.err = "" /\ Exists(acc.tree, Append(path, k))
        THEN ResolveSubtree(acc, Append(path, k)) ELSE acc
      e1 == [e EXCEPT !.depth = @ + 1]
  IN IF ~Exists(e.tree, path) THEN e
     ELSE IF e.depth >= StackLimit THEN [e EXCEPT !.err = "stack_overflow"]
     ELSE Back(e, IF HasText(At(e.tree, path)) THEN ResolveNode(e1, path)
                  ELSE FoldLeft(Child, e1, Entries(At(e.tree, path))))

(* deref of a text while classes are merged (EvalDeref): evaluated in a    *)
(* copy of the tree merged so far.                                         *)
ValueOrNot(root, path, o) == IF o.e.err # "" THEN NoDeref(root, path) ELSE o.r
MergeDeref(root, path) ==
  ValueOrNot(root, path, Bind(DerefAt(Evaluator(root), path), DeepValue))
=============================================================================
