-------------------------------- MODULE Params --------------------------------
(***************************************************************************)
(* How the parameters of one target come about: the closures of its        *)
(* classes are merged in order, then its own parameters (inventory.rs),    *)
(* and three passes evaluate what is left of the interpolations            *)
(* (interp/eval.rs).  A step merges one file or resolves one top-level     *)
(* key.                                                                    *)
(***************************************************************************)
EXTENDS Interpolation, FiniteSets

CONSTANTS
  Documents,   \* small inventories: [files, target]; files[f] = [classes, params]
  Passes       \* how many passes are made (three in the code)

ASSUME PassesAssumption == Passes \in Nat

Layer == INSTANCE Merge WITH Deref <- MergeDeref

VARIABLES
  doc,     \* the inventory
  phase,   \* "merge", "resolve", "end" or "failed"
  merged,  \* files of the target's class list merged so far
  pass,    \* passes begun
  todo,    \* top-level keys this pass has not visited yet
  ev,      \* the evaluator; ev.tree are the parameters
  start    \* (for the properties) the parameters before the first pass
vars == <<doc, phase, merged, pass, todo, ev, start>>

(* build_closure_inner: the classes of a file in order, then its own       *)
(* parameters.  Memoised by file in the code, and the same for every user. *)
RECURSIVE Closure(_, _)
Closure(files, f) ==
  LET Add(acc, c) == Layer!Merged(acc, Closure(files, c), "unique")
  IN Layer!Merged(FoldLeft(Add, EmptyMap, files[f].classes), files[f].params, "unique")

Init ==
  /\ doc \in Documents
  /\ phase = "merge" /\ merged = 0 /\ pass = 0 /\ todo = <<>>
  /\ ev = Evaluator(EmptyMap) /\ start = EmptyMap

MergeFile ==
  LET file == doc.files[doc.target]
      own == merged = Len(file.classes)
  IN /\ phase = "merge"
     /\ ev' = [ev EXCEPT !.tree =
                 Layer!Merged(@, IF own THEN file.params ELSE Closure(doc.files, file.classes[merged + 1]),
                              "unique")]
     /\ start' = ev'.tree
     /\ merged' = merged + 1
     /\ phase' = IF own THEN "resolve" ELSE phase
     /\ UNCHANGED <<doc, pass, todo>>

(* resolve_all: every pass starts with an empty memo.                      *)
StartPass ==
  /\ phase = "resolve" /\ todo = <<>> /\ pass < Passes
  /\ pass' = pass + 1
  /\ todo' = Entries(ev.tree)
  /\ ev' = [ev EXCEPT !.cache = <<>>]
  /\ UNCHANGED <<doc, phase, merged, start>>

Visited(e, k) == IF Exists(e.tree, <<k>>) THEN ResolveSubtree(e, <<k>>) ELSE e
ResolveKey ==
  /\ phase = "resolve" /\ todo # <<>>
  /\ ev' = Visited(ev, Head(todo))
  /\ todo' = Tail(todo)
  /\ phase' = IF ev'.err = "" THEN phase ELSE "failed"
  /\ UNCHANGED <<doc, merged, pass, start>>

(* process_literals *)
RECURSIVE Unmarked(_)
Unmarked(v) ==
  IF v.t = "marked" THEN Literal(v.s)
  ELSE IF IsContainer(v) THEN [v EXCEPT !.of = [k \in DOMAIN v.of |-> Unmarked(v.of[k])]]
  ELSE v

Finish ==
  /\ phase = "resolve" /\ todo = <<>> /\ pass = Passes
  /\ phase' = "end"
  /\ ev' = [ev EXCEPT !.tree = Unmarked(@)]
  /\ UNCHANGED <<doc, merged, pass, todo, start>>

Next == MergeFile \/ StartPass \/ ResolveKey \/ Finish
Spec == Init /\ [][Next]_vars

-----------------------------------------------------------------------------
(* What layers mean, said of all of them at once: a key is where it first  *)
(* came, the last scalar stands, lists keep the first of equal items.      *)
RECURSIVE Flat(_, _), Together(_), SameKind(_)
Flat(files, f) ==   \* every parameter tree below f, in the order of the merge
  FoldLeft(LAMBDA acc, c : acc \o Flat(files, c), <<>>, files[f].classes) \o <<files[f].params>>
Given(vs) == SelectSeq(vs, LAMBDA v : v # Missing)
KeysOf(vs) == FoldLeft(LAMBDA acc, v : acc \o SelectSeq(v.keys, LAMBDA k : ~Contains(acc, k)), <<>>, vs)
Having(vs, k) ==
  LET with == SelectSeq(vs, LAMBDA v : k \in DOMAIN v.of)
  IN [i \in DOMAIN with |-> with[i].of[k]]
Together(vs) ==
  LET given == Given(vs)
      Add(acc, x) == IF \E i \in DOMAIN acc : PyEq(acc[i], x) THEN acc ELSE Append(acc, x)
      AddAll(acc, v) == FoldLeft(Add, acc, Items(v))
  IN IF given = <<>> THEN Missing
     ELSE IF Head(given).t = "map"
     THEN LET ks == KeysOf(given) IN Map([i \in DOMAIN ks |-> <<ks[i], Together(Having(given, ks[i]))>>])
     ELSE IF Head(given).t = "list" THEN List(FoldLeft(AddAll, Items(Head(given)), Tail(given)))
     ELSE Last(given)
\* No two layers give one key a container and something else, or a mapping and a list.
SameKind(vs) ==
  LET given == Given(vs)
  IN /\ \A i, j \in DOMAIN given : IsContainer(given[i]) => given[j].t = given[i].t
     /\ given # <<>> /\ Head(given).t = "map" =>
          \A i \in DOMAIN KeysOf(given) : SameKind(Having(given, KeysOf(given)[i]))

-----------------------------------------------------------------------------
(* What an interpolation means, without memo, in-place rewriting or order: *)
(* the value at a path of a tree, with everything in it evaluated where it *)
(* is written.  `seen' are the texts on the way; Gone is a text that       *)
(* reached "???", Wrong one that has no value, and Vague one that takes a  *)
(* container as it is, with texts in it that are still to be resolved, or  *)
(* selects through a text that becomes "???" (RES-22): what these give     *)
(* depends on the order of the keys.                                       *)
Gone == [t |-> "gone"]
Wrong == [t |-> "wrong"]
Vague == [t |-> "vague"]
Odd(v) == v \in {Gone, Wrong, Vague}
FirstOdd(vs) == vs[CHOOSE i \in DOMAIN vs : Odd(vs[i]) /\ \A j \in 1..(i - 1) : ~Odd(vs[j])]
AnyOdd(vs) == \E i \in DOMAIN vs : Odd(vs[i])

Texts(tree) == {p \in Paths(tree) : HasText(At(tree, p))}
RECURSIVE Deep(_, _, _, _), ElementMeaning(_, _, _, _), InterpMeaning(_, _, _, _),
          Walk(_, _, _, _, _), Designates(_, _, _)

(* the value of the tree at path p *)
Meaning(root, p, seen) == Deep(root, At(root, p), p, seen)
InOne(v, of) ==
  IF \E k \in DOMAIN of : of[k] = Vague THEN Vague
  ELSE IF \E k \in DOMAIN of : of[k] = Wrong THEN Wrong ELSE [v EXCEPT !.of = of]
Unset(m) == IF m = Gone THEN Missing ELSE m

AsText(vs) ==
  IF AnyOdd(vs) THEN FirstOdd(vs)
  ELSE IF \E i \in DOMAIN vs : IsContainer(vs[i]) THEN Vague
  ELSE Joined([i \in DOMAIN vs |-> Unquoted(vs[i])])
Later(root, v, p, seen) == IF Odd(v) THEN v ELSE Deep(root, v, p, seen \ {p})
TextMeaning(root, parts, p, seen) ==
  IF Len(parts) = 1 /\ IsInterp(Head(parts)) THEN InterpMeaning(root, Head(parts), p, seen)
  ELSE Later(root, AsText([i \in DOMAIN parts |-> ElementMeaning(root, PieceOf(parts[i]), p, seen)]), p, seen)
Deep(root, v, p, seen) ==
  IF HasText(v)
  THEN IF p \in seen THEN Wrong ELSE Unset(TextMeaning(root, v.parts, p, seen \cup {p}))
  ELSE IF ~IsContainer(v) THEN v
  ELSE InOne(v, [k \in DOMAIN v.of |-> Deep(root, v.of[k], Append(p, k), seen)])

AsItems(el, vs) ==
  IF AnyOdd(vs) THEN FirstOdd(vs) ELSE [Map([i \in DOMAIN vs |-> <<el.keys[i], vs[i]>>]) EXCEPT !.t = el.t]
ElementMeaning(root, el, p, seen) ==
  IF HasText(el) THEN TextMeaning(root, el.parts, p, seen)
  ELSE IF ~IsContainer(el) THEN el
  ELSE AsItems(el, [i \in DOMAIN el.keys |-> ElementMeaning(root, Items(el)[i], p, seen)])
Elements(root, els, p, seen) == [n \in DOMAIN els |-> ElementMeaning(root, els[n], p, seen)]

(* where keys lead from a place: a place, a value, Gone, Wrong or nothing  *)
Place(p) == [t |-> "place", at |-> p]
Nothing == [t |-> "nothing"]
Onward(root, to, keys, i, seen) ==
  IF to = Missing \/ (to.t = "place" /\ At(root, to.at) = Missing) THEN [t |-> "unset"]
  ELSE IF Odd(to) THEN to
  ELSE Walk(root, to, keys, i, seen)
Walk(root, cur, keys, i, seen) ==
  LET v == IF cur.t = "place" THEN At(root, cur.at) ELSE cur
      k == CHOOSE c \in ChildOf(v, keys[i]) : TRUE
      child == v.of[k]
  IN IF i > Len(keys) THEN cur
     ELSE IF ~IsContainer(v) /\ cur.t = "place" /\ ~(v = Null /\ i > 1) THEN [t |-> "scalar"]
     ELSE IF ChildOf(v, keys[i]) = {} THEN IF v.t = "list" /\ ~IsIndex(keys[i]) THEN Wrong ELSE Nothing
     ELSE Onward(root, IF HasText(child) THEN Designates(root, Append(cur.at, k), seen)
                       ELSE IF cur.t = "place" THEN Place(Append(cur.at, k)) ELSE child,
                 keys, i + 1, seen)
(* what the text at p stands for: the place it names, or its value         *)
Led(w) == IF w.t \in {"scalar", "nothing"} THEN Wrong ELSE IF w.t = "unset" THEN Gone ELSE w
Along(root, dots, keys, p, seen) ==
  IF AnyOdd(keys) THEN FirstOdd(keys)
  ELSE IF dots > Len(p) \/ \E n \in DOMAIN keys : keys[n].t \notin {"str", "int"} THEN Wrong
  ELSE Led(Walk(root, Place(IF dots = 0 THEN <<>> ELSE SubSeq(p, 1, Len(p) - dots)),
                [n \in DOMAIN keys |-> PyStr(keys[n])], 1, seen))
Named(root, i, p, seen) == Along(root, i.dots, Elements(root, i.keys, p, seen), p, seen)
Designates(root, p, seen) ==
  LET parts == At(root, p).parts
      on == seen \cup {p}
  IN IF p \in seen THEN Wrong
     ELSE IF Len(parts) > 1 \/ ~IsInterp(Head(parts)) \/ "name" \in DOMAIN Head(parts)
     THEN TextMeaning(root, parts, p, on)
     ELSE Named(root, Head(parts), p, on)

Picked(root, w, seen) ==
  IF w.t \in {"scalar", "nothing", "unset"} THEN Nothing
  ELSE IF w = Gone THEN Vague
  ELSE IF w.t = "place" THEN Meaning(root, w.at, seen) ELSE w
Select(root, v, p, seen) ==
  LET dots == IF v.t = "dotted" THEN v.dots ELSE 0
  IN Picked(root, Walk(root, Place(IF dots = 0 THEN <<>> ELSE SubSeq(p, 1, Len(p) - dots)), Keys(v), 1, seen), seen)

\* Arguments that name a container with texts in it; `merge' keeps the texts.
Relative(v) == \E p \in Texts(v) : \E i \in DOMAIN At(v, p).parts :
                 "dots" \in DOMAIN At(v, p).parts[i] /\ At(v, p).parts[i].dots > 0
StillTexts(root, kept, d) ==
  d.t = "place" /\ Texts(At(root, d.at)) # {} /\ (~kept \/ Relative(At(root, d.at)))
Unsettled(root, kept, args, p, seen) ==
  \E n \in DOMAIN args :
    HasText(args[n]) /\ StillTexts(root, kept, Designates(Put(root, p, args[n]), p, seen \ {p}))

OfSelected(name, args, s) ==
  CASE Odd(s) -> s
    [] name = "oc.select" -> IF s # Nothing THEN s ELSE IF Len(args) = 2 THEN args[2] ELSE Null
    [] s = Nothing -> Wrong
    [] name \in {"oc.deprecated", "access"} -> s
    [] s.t # "map" -> Wrong
    [] OTHER -> List([i \in DOMAIN s.keys |-> IF name = "oc.dict.keys" THEN Str(s.keys[i]) ELSE Items(s)[i]])
OrWrong(v) == IF v = None THEN Wrong ELSE v
CallMeaning(root, name, args, literal, p, seen) ==
  CASE name \in PureNames -> Later(root, OrWrong(Pure(name, args, literal)), p, seen)
    [] name = "relpath" -> Later(root, RelPath(Keys(args[1]), p), p, seen)
    [] name \in Selecting \cup {"access"} ->
         OfSelected(name, args,
           Select(root, IF name = "access" THEN Dotted(0, [i \in DOMAIN args |-> PyStr(args[i])]) ELSE args[1],
                  p, seen))
    [] OTHER -> Wrong

CallOf(root, i, args, p, seen) ==
  IF Unsettled(root, i.name = "merge" /\ ~AnyOdd(args), i.args, p, seen) THEN Vague
  ELSE IF AnyOdd(args) THEN FirstOdd(args)
  ELSE CallMeaning(root, i.name, args, \A a \in DOMAIN i.args : IsLiteral(i.args[a]), p, seen)
AtPlace(root, place, p, seen) ==
  IF place.t # "place" THEN place
  ELSE IF p # <<>> /\ IsPrefix(place.at, Front(p)) THEN Wrong ELSE Meaning(root, place.at, seen)
InterpMeaning(root, i, p, seen) ==
  IF "name" \in DOMAIN i THEN CallOf(root, i, Elements(root, i.args, p, seen), p, seen)
  ELSE AtPlace(root, Designates(Put(root, p, Text(<<i>>)), p, seen \ {p}), p, seen)

-----------------------------------------------------------------------------
(* The interpolations of a tree, by path.                                  *)
RECURSIVE Called(_)
Called(el) ==   \* the names of the resolvers an element calls, however deep
  IF HasText(el)
  THEN UNION {LET q == el.parts[i]
                  part == IF "quoted" \in DOMAIN q THEN q.quoted ELSE q
              IN IF "name" \in DOMAIN part
                 THEN {part.name} \cup UNION {Called(part.args[n]) : n \in DOMAIN part.args}
                 ELSE IF "dots" \in DOMAIN part THEN UNION {Called(part.keys[n]) : n \in DOMAIN part.keys}
                 ELSE {} : i \in DOMAIN el.parts}
  ELSE IF IsContainer(el) THEN UNION {Called(el.of[k]) : k \in DOMAIN el.of}
  ELSE {}
Calling(tree, name) == {p \in Texts(tree) : name \in Called(At(tree, p))}
WhereKeys == {"key", "parentkey", "fullkey"}

-----------------------------------------------------------------------------
(* Between two steps nothing is being dereferenced, and the memo only      *)
(* holds results of texts (eval.rs, deref_at).                             *)
TypeOK ==
  /\ phase \in {"merge", "resolve", "end", "failed"}
  /\ pass \in 0..Passes
  /\ ev.err = "" => ev.stack = <<>> /\ ev.depth = 0 /\ ev.source = None
  /\ phase = "failed" <=> ev.err # ""

(* Where no key changes its kind from file to file, the closures merged    *)
(* file by file give what all files say together: the last scalar, the     *)
(* first of equal items, keys in the order they first come (INV-20 to      *)
(* INV-27).  This is what makes a closure shared by many targets sound.    *)
LayersAddUp ==
  LET layers == Flat(doc.files, doc.target)
  IN phase = "resolve" /\ pass = 0 /\ SameKind(layers) => ev.tree = Together(layers)

(* A target that renders has the value its texts stand for, whatever order *)
(* the keys are in and however often one is read, and one that fails has   *)
(* no such value (RES-6 to RES-9, RES-14 to RES-16, RES-21, RES-22).       *)
Renders(m) ==
  \/ m = Vague
  \/ phase = "end" /\ Content(ev.tree) = Content(Unmarked(m))
  \/ phase = "failed" /\ m = Wrong
ResultIsMeaning ==
  phase \in {"end", "failed"} /\ Called(start) \cap (WhereKeys \cup {"write"}) = {} =>
    Renders(Meaning(start, <<>>, {}))

(* What a pass makes of a key is what the tree it is in says: results of   *)
(* before a `write' are not given again (RES-6, RES-49).                   *)
MemoIsInvisible ==
  [][ /\ ResolveKey /\ ev'.err = "" /\ <<Head(todo)>> \in Paths(ev'.tree)
      /\ Called(start) \cap WhereKeys = {}
      /\ Calling(ev'.tree, "write") = Calling(ev.tree, "write")
      /\ Texts(At(ev'.tree, <<Head(todo)>>)) = {}
      => LET m == Meaning(ev.tree, <<Head(todo)>>, {})
         IN m \in {Wrong, Vague} \/ Content(At(ev'.tree, <<Head(todo)>>)) = Content(m) ]_vars

(* A write leaves every value of its origin at its destination, also when  *)
(* it is written onto its own caller or a container of it (RES-46, RES-49). *)
Stays(v) == {q \in Paths(v) : ~IsContainer(At(v, q)) /\ At(v, q) # Missing}
WritesTakeEffect ==
  [][ /\ ResolveKey /\ ev'.err = ""
      /\ Cardinality(Calling(ev.tree, "write")) = 1
      => \A p \in Calling(ev.tree, "write") \ Calling(ev'.tree, "write") :
           LET call == Head(At(ev.tree, p).parts)
               m == Select(ev.tree, call.args[2], p, {p})
           IN IsInterp(call) /\ ~Odd(m) /\ IsContainer(m) =>
                \A q \in Stays(m) :
                  /\ Exists(ev'.tree, Keys(call.args[1]) \o q)
                  /\ At(ev'.tree, Keys(call.args[1]) \o q) = At(m, q) ]_vars

(* A key that was written in one place and copied to others, by an alias   *)
(* or as the first argument of `merge', keeps naming that place (RES-18).  *)
KeysNameTheirPlace ==
  phase = "end" =>
    \A p \in Paths(ev.tree) :
      At(ev.tree, p).t = "dotted" => At(ev.tree, p).keys \in Calling(start, "fullkey")

(* Said of the code by inventory.rs:112 and DESIGN.md:69: merging closures *)
(* is associative, so it does not matter how the files are grouped.        *)
MergingIsAssociative ==
  phase = "resolve" /\ pass = 0 =>
    ev.tree = FoldLeft(LAMBDA acc, v : Layer!Merged(acc, v, "unique"), EmptyMap,
                       Flat(doc.files, doc.target))

(* Said of the code by RES-15: what refers back to itself through a chain  *)
(* is reported as such.                                                    *)
CyclesAreReported == ev.err # "stack_overflow"
=============================================================================
