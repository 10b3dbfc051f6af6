------------------------------- MODULE MCParams -------------------------------
EXTENDS Params

Only(tree) == [files |-> ("t" :> [classes |-> <<>>, params |-> tree]), target |-> "t"]
File(classes, v) ==
  [classes |-> classes,
   params |-> IF v = None THEN EmptyMap ELSE Map(<<<<"r", Map(<<<<"z", Num(3)>>>>)>>, <<"a", v>>>>)]

(* A target with classes A and B, where B includes C: every way to give    *)
(* the key `a' in four of the files.                                       *)
Given1 == {None, Null, Str("s"), Missing, List(<<Num(1)>>), List(<<Bool(TRUE), Num(2)>>),
           Map(<<<<"x", Num(1)>>>>), Map(<<<<"y", Num(2)>>, <<"x", Missing>>>>), Ref(0, <<"r">>)}
Layers ==
  {[files |-> ("t" :> File(<<"A", "B">>, own)) @@ ("A" :> File(<<>>, a))
              @@ ("B" :> File(<<"C">>, b)) @@ ("C" :> File(<<>>, c)),
    target |-> "t"] : own \in {None, Str("s"), Map(<<<<"w", Num(0)>>>>)}, a, b, c \in Given1}

(* Every way to give three keys that refer to one another.                 *)
R(k) == Ref(0, <<k>>)
C(name, args) == Text(<<Call(name, args)>>)
Expressions(one, other) ==
  {Num(1), Missing, Null, Map(<<<<"x", R(other)>>>>), Map(<<<<"x", Ref(1, <<"y">>)>>, <<"y", Num(2)>>>>),
   R(one), Ref(0, <<one, "x">>), Text(<<Str("p"), Node(0, <<Str(other)>>)>>),
   C("oc.select", <<Dotted(0, <<one, "x">>), Num(7)>>), C("merge", <<R(one), R(other)>>),
   List(<<R(other), Str("s")>>)}
Links ==
  {Only(Map(<<<<"a", a>>, <<"b", b>>, <<"c", c>>>>)) :
     a \in Expressions("b", "c"), b \in Expressions("c", "a"), c \in Expressions("a", "b")}

(* Keys in any order.                                                      *)
Orders(entries) ==
  {Only(Map([i \in DOMAIN entries |-> entries[f[i]]])) : f \in Permutations(DOMAIN entries)}

(* Resolvers that read a mapping of which one value is an interpolation.   *)
Dot(ks) == Dotted(0, ks)
Calls ==
  {C("oc.dict.keys", <<Str("m")>>), C("oc.dict.values", <<Str("m")>>), C("list", <<R("m")>>),
   C("default", <<Dot(<<"m", "none">>), Dot(<<"m", "q">>), Num(9)>>),
   C("ifelse", <<C("equal", <<R("c"), Ref(0, <<"m", "p">>)>>), R("c"), C("not", <<R("c")>>)>>),
   C("access", <<Str("m"), Str("q")>>), C("oc.deprecated", <<Str("gone")>>),
   Map(<<<<"in", C("relpath", <<Dot(<<"e", "up">>)>>)>>, <<"up", R("c")>>>>),
   C("add", <<R("c"), Num(1)>>), C("escape", <<Str("x")>>),
   Map(<<<<"in", C("oc.select", <<Dotted(1, <<"up">>)>>)>>, <<"up", R("m")>>>>),
   C("dict", <<List(<<R("m"), R("m")>>)>>), C("if", <<Ref(0, <<"m", "p">>), R("m")>>),
   Text(<<[quoted |-> Node(0, <<Str("m")>>)]>>), Text(<<Node(0, <<R("k"), Str("p")>>)>>),
   Text(<<Node(1, <<Str("m"), Str("p")>>)>>), C("merge", <<R("m"), Map(<<<<"p", R("c")>>>>)>>)}
Reading ==
  UNION {Orders(<<<<"m", Map(<<<<"p", Num(4)>>, <<"q", R("c")>>>>)>>, <<"c", Num(5)>>,
                  <<"e", e>>, <<"k", Str("m")>>>>) : e \in Calls}

(* One write and keys that read what it changes, directly and through     *)
(* another, in any order; also onto its own container.                     *)
Origin == Map(<<<<"n", R("five")>>, <<"l", List(<<Num(1)>>)>>, <<"u", Missing>>>>)
Target == Map(<<<<"n", Num(2)>>, <<"u", Str("kept")>>>>)
Write2(dest) == C("write", <<Dot(dest), Str("from")>>)
Writing ==
  UNION {Orders(<<<<"from", Origin>>, <<"to", Target>>, <<"five", Num(5)>>, <<"w", Write2(dest)>>,
                  <<"see", R("via")>>, <<"via", Text(<<Str("p"), Node(0, <<Str("to"), Str("n")>>)>>)>>>>)
         : dest \in {<<"to">>, <<"to", "n">>}}
  \cup Orders(<<<<"from", Origin>>, <<"five", Num(5)>>,
                <<"to", Map(<<<<"n", Num(2)>>, <<"w", Text(<<[quoted |-> Call("write", <<Str("to"), Str("from")>>)]>>)>>>>)>>,
                <<"see", Ref(0, <<"to", "n">>)>>>>)
  \cup Orders(<<<<"from", Map(<<<<"w", Num(1)>>>>)>>, <<"to", Map(<<<<"w", Write2(<<"to">>)>>>>)>>,
                <<"see", R("to")>>>>)

MCDocuments == Layers \cup Links \cup Reading \cup Writing

(* Keys that ask where they were written, copied by aliases and merges.    *)
Full == Text(<<[quoted |-> Call("fullkey", <<>>)]>>)
Copies ==
  Orders(<<<<"tmpl", Map(<<<<"name", Full>>, <<"sub", Map(<<<<"k", Full>>>>)>>>>)>>,
           <<"one", R("tmpl")>>, <<"two", C("merge", <<R("tmpl"), Map(<<<<"x", Num(1)>>>>)>>)>>,
           <<"three", R("two")>>, <<"four", Map(<<<<"in", C("merge", <<R("three"), R("one")>>)>>>>)>>>>)

(* Two mappings that hold one another.                                     *)
Rings ==
  {Only(Map(<<<<"a", Map(<<<<"x", x>>>>)>>, <<"b", Map(<<<<"y", y>>>>)>>>>)) :
     x \in {R("b"), Ref(0, <<"b", "y">>), Num(1)}, y \in {R("a"), Ref(0, <<"a", "x">>)}}
=============================================================================
