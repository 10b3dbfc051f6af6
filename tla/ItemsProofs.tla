------------------------------- MODULE ItemsProofs -------------------------------
(***************************************************************************)
(* Proofs about Items: reusing items and skipping targets cannot be told   *)
(* from compiling everything again.                                        *)
(***************************************************************************)
EXTENDS Items, TLAPS, WellFoundedInduction, NaturalsInduction

Created == UNION {Program[f].creates : f \in File}

(* Where what is observed is all that an output depends on.  A ref is read *)
(* by those who create it only; a component has one file; what an external *)
(* command reads is not observed, nor a file that would come before the    *)
(* one that a template includes; and an item that removes what only the    *)
(* previous output has does not miss it.                                   *)
TidyProgram(c) ==
    /\ (Program[c].reads \cup Program[c].imports \cup ToSet(Program[c].includes)) \cap Created = {}
    /\ \A m \in Program[c].imports : Program[m].creates = {}

TidyInput(item, c) ==
    /\ c \notin Created
    /\ Len(Program[c].includes) <= (IF item.type = "jinja2" THEN 1 ELSE 0)
    /\ item.type = "external" => Program[c].reads \cup Program[c].creates \cup Program[c].imports = {}

TidyItem(item) ==
    /\ item.type = "kadet" => \A c, d \in ToSet(item.inputs) : c = d
    /\ item.type = "external" => ~item.glob
    /\ IF item.type = "remove" THEN item.ignoreMissing
       ELSE \A c \in ToSet(item.inputs) : TidyInput(item, c)

Tidy ==
    /\ \A f \in File : TidyProgram(f)
    /\ \A p \in Projects : \A d \in p.documents : \A i \in DOMAIN d : TidyItem(d[i])

-----------------------------------------------------------------------------
(* The least number of a set. *)
LEMMA LeastOf ==
  ASSUME NEW S, S \subseteq Nat, S # {}
  PROVE  \E k \in S : \A j \in S : k <= j
<1>1. PICK m \in S : \A k \in S : ~ (<< k, m >> \in OpToRel(<, Nat))
  BY WFMin, NatLessThanWellFounded
<1>2. ASSUME NEW k \in S PROVE m <= k
  <2>1. k < m => << k, m >> \in OpToRel(<, Nat)
    BY DEF OpToRel
  <2>. QED
    BY <1>1, <2>1 DEF OpToRel
<1>. QED
  BY <1>2

(* A set of numbers that has the first one and with each the next, has all *)
(* up to n.                                                                *)
LEMMA UpTo ==
  ASSUME NEW n \in Nat, NEW S, 0 \in S, \A k \in 0 .. n - 1 : k \in S => k + 1 \in S
  PROVE  0 .. n \subseteq S
<1>. DEFINE Out == {k \in 0 .. n : k \notin S}
<1>1. ASSUME Out # {} PROVE FALSE
  <2>1. Out \subseteq Nat
    OBVIOUS
  <2>2. PICK m \in Out : \A j \in Out : m <= j
    BY <1>1, <2>1, LeastOf
  <2>3. m \in Nat /\ m # 0 /\ m <= n /\ m \notin S
    BY <2>2
  <2>4. m - 1 \in 0 .. n - 1 /\ m - 1 \notin Out
    BY <2>2, <2>3
  <2>5. m - 1 \in S
    BY <2>4
  <2>. QED
    BY <2>3, <2>4, <2>5
<1>. QED
  BY <1>1

-----------------------------------------------------------------------------
(* Sources. *)

IsSource(src) == src = [n \in Name |-> src[n]]

(* b is a with some of the refs that were missing created.                 *)
Grown(a, b) ==
    /\ IsSource(a) /\ IsSource(b)
    /\ \A n \in Name : b[n] = a[n] \/ (n \in Created /\ a[n] = Absent /\ b[n] = Made)

LEMMA PartIs ==
  ASSUME NEW f, NEW S
  PROVE  /\ DOMAIN Part(f, S) = S \cap DOMAIN f
         /\ \A x \in S \cap DOMAIN f : Part(f, S)[x] = f[x]
         /\ Part(f, DOMAIN f) = [x \in DOMAIN f |-> f[x]]
BY DEF Part

LEMMA PartsAgree ==
  ASSUME NEW f, NEW g, NEW S, DOMAIN f = DOMAIN g, \A x \in S \cap DOMAIN f : f[x] = g[x]
  PROVE  Part(f, S) = Part(g, S)
BY DEF Part

LEMMA GrownRefl == ASSUME NEW a, IsSource(a) PROVE Grown(a, a)
BY DEF Grown

LEMMA GrownTrans ==
  ASSUME NEW a, NEW b, NEW c, Grown(a, b), Grown(b, c)
  PROVE  Grown(a, c)
BY ItemsAssumption DEF Grown

LEMMA RefsGrow ==
  ASSUME NEW a, IsSource(a), NEW c \in File
  PROVE  /\ IsSource(WithRefs(c, a)) /\ Grown(a, WithRefs(c, a))
         /\ \A n \in Name : WithRefs(c, a)[n] =
               IF n \in Program[c].creates /\ a[n] = Absent THEN Made ELSE a[n]
         /\ \A n \in Program[c].creates : n \in Name /\ WithRefs(c, a)[n] # Absent
<1>1. DOMAIN a = Name
  BY DEF IsSource
<1>2. Program[c].creates \subseteq File /\ Program[c].creates \subseteq Created
  BY ItemsAssumption DEF Created
<1>3. WithRefs(c, a) = [n \in Name |-> IF n \in Program[c].creates /\ a[n] = Absent THEN Made ELSE a[n]]
  BY <1>1 DEF WithRefs
<1>. QED
  BY <1>1, <1>2, <1>3, ItemsAssumption DEF IsSource, Grown, Name

-----------------------------------------------------------------------------
(* What an input sees. *)

Sound(item) ==
    IsItem(item) /\ TidyItem(item) /\ \A f \in File : TidyProgram(f)

(* The candidates of an item other than `remove' are files that nobody     *)
(* creates, and of what they see they create every ref.                    *)
LEMMA SeesIs ==
  ASSUME NEW item, Sound(item), item.type # "remove", NEW c \in ToSet(item.inputs),
         NEW src, IsSource(src)
  PROVE  /\ c \in File /\ c \notin Created /\ c \in Name
         /\ c \in Sees(c, src) /\ Sees(c, src) \subseteq Name
         /\ Sees(c, src) \cap Created = Program[c].creates
         /\ Included(c, src) \subseteq File \ Created
<1>1. c \in File /\ TidyInput(item, c) /\ TidyProgram(c)
  BY DEF Sound, IsItem, TidyItem
<1>2. /\ Program[c].reads \subseteq Name /\ Program[c].imports \subseteq File
      /\ Program[c].creates \subseteq File /\ Program[c].creates \subseteq Created
      /\ Program[c].includes \in Seq(File)
  BY <1>1, ItemsAssumption DEF Created
<1>3. Included(c, src) \subseteq ToSet(Program[c].includes)
  BY <1>2 DEF Included, ToSet
<1>4. ToSet(Program[c].includes) \subseteq File /\ ToSet(Program[c].includes) \cap Created = {}
  BY <1>1, <1>2 DEF ToSet, TidyProgram
<1>5. ASSUME NEW m \in Program[c].imports
      PROVE  Own(m) \subseteq Name /\ Own(m) \cap Created = {}
  <2>1. m \in File /\ m \notin Created /\ TidyProgram(m) /\ Program[m].creates = {}
    BY <1>1, <1>2, <1>5 DEF TidyProgram, Sound
  <2>. QED
    BY <2>1, ItemsAssumption DEF Own, TidyProgram, Name
<1>6. Loads(Program[c].imports) \subseteq Name /\ Loads(Program[c].imports) \cap Created = {}
  BY <1>5 DEF Loads
<1>7. c \notin Created /\ Own(c) \subseteq Name /\ Own(c) \cap Created = Program[c].creates /\ c \in Own(c)
  BY <1>1, <1>2 DEF Own, TidyProgram, TidyInput, Name
<1>. QED
  BY <1>1, <1>3, <1>4, <1>6, <1>7 DEF Sees, Name

(* The template loader, where it has one candidate at most.                *)
LEMMA IncludedIs ==
  ASSUME NEW item, Sound(item), item.type # "remove", NEW c \in ToSet(item.inputs), NEW src
  PROVE  \/ Program[c].includes = << >> /\ Included(c, src) = {}
         \/ /\ Program[c].includes # << >> /\ item.type = "jinja2"
            /\ \E f \in File : /\ Included(c, src) = IF src[f] = Absent THEN {} ELSE {f}
                               /\ \A other : Included(c, other) = IF other[f] = Absent THEN {} ELSE {f}
<1>1. c \in File /\ TidyInput(item, c)
  BY DEF Sound, IsItem, TidyItem
<1>2. Program[c].includes \in Seq(File)
  BY <1>1, ItemsAssumption
<1>. DEFINE files == Program[c].includes
<1>3. CASE item.type # "jinja2"
  <2>1. Len(files) <= 0 /\ Len(files) \in Nat
    BY <1>1, <1>2, <1>3 DEF TidyInput
  <2>2. files = << >>
    BY <1>2, <2>1
  <2>. QED
    BY <2>2 DEF Included
<1>4. CASE item.type = "jinja2"
  <2>1. Len(files) <= 1 /\ Len(files) \in Nat
    BY <1>1, <1>2, <1>4 DEF TidyInput
  <2>2. CASE Len(files) = 0
    <3>1. files = << >>
      BY <1>2, <2>2
    <3>. QED
      BY <3>1 DEF Included
  <2>3. CASE Len(files) = 1
    <3>1. DOMAIN files = {1} /\ files # << >> /\ files[1] \in File
      BY <1>2, <2>3
    <3>2. \A other : Included(c, other) = IF other[files[1]] = Absent THEN {} ELSE {files[1]}
      BY <3>1 DEF Included
    <3>. QED
      BY <1>4, <3>1, <3>2
  <2>4. Len(files) = 0 \/ Len(files) = 1
    <3>1. \A n \in Nat : n <= 1 => n = 0 \/ n = 1
      OBVIOUS
    <3>. QED
      BY <2>1, <3>1
  <2>. QED
    BY <2>2, <2>3, <2>4
<1>. QED
  BY <1>3, <1>4

(* What an input sees after it has created its refs decides whether it     *)
(* fails and what it writes.                                               *)
LEMMA SightDecides ==
  ASSUME NEW item, Sound(item), item.type # "remove", NEW c \in ToSet(item.inputs),
         NEW a, NEW b, IsSource(a), IsSource(b), ~Fails(item, c, a),
         \A n \in Sees(c, a) : WithRefs(c, a)[n] = WithRefs(c, b)[n]
  PROVE  /\ ~Fails(item, c, b) /\ Sees(c, b) = Sees(c, a)
         /\ \A tree : /\ Written(item, c, WithRefs(c, b), tree) = Written(item, c, WithRefs(c, a), tree)
                      /\ Compiled(item, c, b, tree) = Compiled(item, c, a, tree)
<1>. DEFINE A == WithRefs(c, a)
            B == WithRefs(c, b)
<1>1. /\ c \in File /\ c \notin Created /\ c \in Sees(c, a) /\ Sees(c, a) \subseteq Name
      /\ Program[c].creates \subseteq Created
  BY SeesIs DEF Created
<1>2. /\ IsSource(A) /\ IsSource(B)
      /\ \A n \in Name : n \notin Created => A[n] = a[n] /\ B[n] = b[n]
  BY <1>1, RefsGrow
<1>3. a[c] = b[c] /\ A[c] = a[c] /\ B[c] = a[c]
  BY <1>1, <1>2
<1>4. Included(c, b) = Included(c, a) /\ Included(c, A) = Included(c, a) /\ Included(c, B) = Included(c, a)
  <2>1. CASE Program[c].includes = << >>
    BY <2>1 DEF Included
  <2>2. CASE Program[c].includes # << >>
    <3>1. PICK f \in File : \A other : Included(c, other) = IF other[f] = Absent THEN {} ELSE {f}
      BY <2>2, IncludedIs
    <3>2. item.type = "jinja2"
      BY <2>2, IncludedIs
    <3>3. Included(c, a) # {}
      BY <2>2, <3>2 DEF Fails
    <3>4. a[f] # Absent /\ Included(c, a) = {f}
      BY <3>1, <3>3
    <3>5. f \in Sees(c, a) /\ f \in Name /\ f \notin Created
      BY <3>4, SeesIs DEF Sees, Name
    <3>6. A[f] = a[f] /\ B[f] = b[f] /\ A[f] = B[f]
      BY <1>2, <3>5
    <3>. QED
      BY <3>1, <3>4, <3>6
  <2>. QED
    BY <2>1, <2>2
<1>5. Sees(c, b) = Sees(c, a) /\ Sees(c, A) = Sees(c, a) /\ Sees(c, B) = Sees(c, a)
  BY <1>4 DEF Sees
<1>6. ~Fails(item, c, b)
  BY <1>3, <1>4 DEF Fails
<1>7. Names(c, A) = Names(c, B)
  BY <1>3 DEF Names
<1>8. Part(A, Sees(c, a)) = Part(B, Sees(c, a))
  <2>1. DOMAIN A = Name /\ DOMAIN B = Name
    BY <1>2 DEF IsSource
  <2>. QED
    BY <2>1, PartsAgree
<1>9. \A n : Chunk(c, n, A) = Chunk(c, n, B)
  BY <1>5, <1>8 DEF Chunk
<1>10. ASSUME NEW tree PROVE Written(item, c, B, tree) = Written(item, c, A, tree)
  <2>. HIDE DEF A, B
  <2>. QED
    BY <1>7, <1>9 DEF Written
<1>11. ASSUME NEW tree PROVE Compiled(item, c, b, tree) = Compiled(item, c, a, tree)
  BY <1>10 DEF Compiled
<1>. QED
  BY <1>5, <1>6, <1>10, <1>11

-----------------------------------------------------------------------------
(* Sources that agree as far as a compile has looked. *)

(* Nothing a compile looked at when it planned the target is different.    *)
SameProbes(its, a, b) ==
    \A i \in DOMAIN its : \A c \in Candidates(its[i]) : ProbeOf(its[i], c, a) = ProbeOf(its[i], c, b)

(* src reads like `now' to a target with these items that has read rd.     *)
Agrees(src, its, now, rd) ==
    /\ IsSource(src) /\ SameProbes(its, src, now)
    /\ \A n \in (rd \cup Key) \cap Name : src[n] = now[n]

RefsThere(now, rd) == \A n \in rd \cap Created : now[n] # Absent

(* Candidates exist in both or in neither. *)
LEMMA SameThere ==
  ASSUME NEW its, NEW i \in DOMAIN its, Sound(its[i]), its[i].type # "remove",
         NEW a, NEW b, SameProbes(its, a, b)
  PROVE  \A c \in ToSet(its[i].inputs) :
            /\ a[c] = Absent <=> b[c] = Absent
            /\ its[i].type = "external" => a[c] = b[c]
<1>1. Candidates(its[i]) = ToSet(its[i].inputs)
  BY DEF Candidates
<1>2. \A c \in ToSet(its[i].inputs) : a[c] = Absent <=> b[c] = Absent
  BY <1>1, ItemsAssumption DEF SameProbes, ProbeOf
<1>. QED
  BY <1>1, <1>2 DEF SameProbes, ProbeOf, Sound, TidyItem

SoundItems(its) == its \in Seq(ToSet(its)) /\ \A i \in DOMAIN its : Sound(its[i])

LEMMA ProbesGrow ==
  ASSUME NEW its, SoundItems(its), NEW a, NEW b, Grown(a, b)
  PROVE  SameProbes(its, a, b) /\ SameProbes(its, b, a)
<1>1. ASSUME NEW i \in DOMAIN its, NEW c \in Candidates(its[i])
      PROVE  a[c] = b[c]
  <2>1. its[i].type # "remove" /\ c \in ToSet(its[i].inputs) /\ Sound(its[i])
    BY <1>1 DEF Candidates, SoundItems
  <2>2. c \in Name /\ c \notin Created
    BY <2>1, SeesIs DEF Grown
  <2>. QED
    BY <2>2 DEF Grown
<1>. QED
  BY <1>1 DEF SameProbes, ProbeOf

LEMMA ProbesChain ==
  ASSUME NEW its, NEW a, NEW b, NEW c, SameProbes(its, a, b), SameProbes(its, b, c)
  PROVE  SameProbes(its, a, c)
BY DEF SameProbes

(* A target with these items that has read rd compiles file c of item i,   *)
(* and has read `after' then.                                              *)
Compiles(its, i, c, now, rd, after) ==
    /\ SoundItems(its) /\ i \in DOMAIN its /\ its[i].type # "remove"
    /\ c \in ToSet(its[i].inputs) /\ IsSource(now) /\ RefsThere(now, rd)
    /\ ~Fails(its[i], c, now) /\ rd \cup (Observed(its[i], c, now) \ Key) \subseteq after

(* Who reads like the sources after an input was compiled reads like those *)
(* before, and compiles the input the same, whatever refs were created.    *)
LEMMA InputAgrees ==
  ASSUME NEW its, NEW i, NEW c, NEW now, NEW rd, NEW after, Compiles(its, i, c, now, rd, after),
         NEW src, Agrees(src, its, WithRefs(c, now), after), NEW s, Grown(src, s)
  PROVE  /\ Agrees(src, its, now, rd)
         /\ ~Fails(its[i], c, s) /\ Grown(src, WithRefs(c, s))
         /\ \A tree : Compiled(its[i], c, s, tree) = Compiled(its[i], c, now, tree)
<1>. DEFINE item == its[i]
            later == WithRefs(c, now)
<1>0. /\ SoundItems(its) /\ i \in DOMAIN its /\ item.type # "remove"
      /\ c \in ToSet(item.inputs) /\ IsSource(now) /\ RefsThere(now, rd)
      /\ ~Fails(item, c, now) /\ rd \cup (Observed(item, c, now) \ Key) \subseteq after
  BY DEF Compiles
<1>1. Sound(item)
  BY <1>0 DEF SoundItems
<1>2. /\ c \in File /\ c \notin Created /\ c \in Name /\ c \in Sees(c, now)
      /\ Sees(c, now) \subseteq Name /\ Sees(c, now) \cap Created = Program[c].creates
  BY <1>0, <1>1, SeesIs
<1>3. /\ IsSource(later) /\ Grown(now, later)
      /\ \A n \in Name : later[n] = IF n \in Program[c].creates /\ now[n] = Absent THEN Made ELSE now[n]
      /\ \A n \in Program[c].creates : n \in Name /\ later[n] # Absent
  BY <1>0, <1>2, RefsGrow
<1>4. IsSource(s) /\ IsSource(src) /\ Grown(s, WithRefs(c, s))
  BY <1>2, RefsGrow DEF Grown
<1>5. Grown(src, WithRefs(c, s))
  BY <1>4, GrownTrans
<1>6. SameProbes(its, src, now) /\ SameProbes(its, src, later)
  <2>1. SameProbes(its, later, now)
    BY <1>0, <1>3, ProbesGrow
  <2>. QED
    BY <2>1, ProbesChain DEF Agrees
<1>7. ASSUME NEW n \in (rd \cup Key) \cap Name PROVE src[n] = now[n]
  <2>1. src[n] = later[n]
    BY <1>0, <1>7 DEF Agrees
  <2>2. n \in Key => n \notin Created
    BY ItemsAssumption DEF Created
  <2>3. n \in Created => now[n] # Absent
    BY <1>0, <1>7, <2>2 DEF RefsThere
  <2>4. n \in Program[c].creates => n \in Created
    BY <1>2
  <2>. QED
    BY <1>3, <2>1, <2>3, <2>4
<1>8. ASSUME NEW n \in Sees(c, now) PROVE later[n] = WithRefs(c, s)[n]
  <2>1. n \in Name /\ (n \in Created <=> n \in Program[c].creates)
    BY <1>2
  <2>2. src[n] = later[n]
    <3>1. CASE item.type = "external"
      <4>1. Sees(c, now) = {c}
        <5>1. TidyInput(item, c)
          BY <1>0, <1>1, <3>1 DEF Sound, TidyItem
        <5>2. Program[c].reads = {} /\ Program[c].creates = {} /\ Program[c].imports = {}
          BY <3>1, <5>1 DEF TidyInput
        <5>3. Included(c, now) = {}
          BY <1>0, <1>1, <3>1, IncludedIs
        <5>. QED
          BY <5>2, <5>3 DEF Sees, Own, Loads
      <4>. QED
        BY <1>0, <1>1, <1>6, <3>1, <4>1, SameThere
    <3>2. CASE item.type # "external"
      <4>1. Observed(item, c, now) = Sees(c, now)
        BY <1>0, <3>2 DEF Observed
      <4>. QED
        BY <1>0, <2>1, <4>1 DEF Agrees
    <3>. QED
      BY <3>1, <3>2
  <2>3. n \in Program[c].creates => s[n] = src[n] /\ src[n] # Absent
    BY <1>3, <2>1, <2>2 DEF Grown
  <2>4. n \notin Program[c].creates => s[n] = src[n]
    BY <2>1 DEF Grown
  <2>5. WithRefs(c, s)[n] = IF n \in Program[c].creates /\ s[n] = Absent THEN Made ELSE s[n]
    BY <1>2, <1>4, <2>1, RefsGrow
  <2>. QED
    BY <2>2, <2>3, <2>4, <2>5
<1>9. ~Fails(item, c, s) /\ \A tree : Compiled(item, c, s, tree) = Compiled(item, c, now, tree)
  BY <1>0, <1>1, <1>4, <1>8, SightDecides
<1>. QED
  BY <1>4, <1>5, <1>6, <1>7, <1>9 DEF Agrees

(* The refs that were read are there afterwards.                           *)
LEMMA RefsStayThere ==
  ASSUME NEW item, Sound(item), item.type # "remove", NEW c \in ToSet(item.inputs),
         NEW now, IsSource(now), NEW rd, RefsThere(now, rd)
  PROVE  RefsThere(WithRefs(c, now), rd \cup Sees(c, now))
<1>1. /\ c \in File /\ Sees(c, now) \cap Created = Program[c].creates
  BY SeesIs
<1>2. /\ \A n \in Name : WithRefs(c, now)[n] =
               IF n \in Program[c].creates /\ now[n] = Absent THEN Made ELSE now[n]
      /\ \A n \in Program[c].creates : n \in Name /\ WithRefs(c, now)[n] # Absent
  BY <1>1, RefsGrow
<1>3. Created \subseteq Name
  BY ItemsAssumption DEF Created, Name
<1>. QED
  BY <1>1, <1>2, <1>3 DEF RefsThere

-----------------------------------------------------------------------------
(* Trees. *)

(* A tree of files, each of which something was written to.                *)
IsTree(t) ==
    /\ t = [x \in DOMAIN t |-> t[x]]
    /\ \A x \in DOMAIN t : t[x] # << >> /\ \E T : t[x] \in Seq(T)

LEMMA PartIsTree ==
  ASSUME NEW tree, IsTree(tree), NEW S
  PROVE  IsTree(Part(tree, S))
BY DEF IsTree, Part

LEMMA OverIsTree ==
  ASSUME NEW t, IsTree(t), NEW u, IsTree(u)
  PROVE  IsTree(Over(t, u))
BY DEF IsTree, Over

LEMMA WrittenIsTree ==
  ASSUME NEW item, NEW c, NEW src, NEW tree, item.type # "external" \/ IsTree(tree)
  PROVE  IsTree(Written(item, c, src, tree))
<1>. DEFINE w == Written(item, c, src, tree)
            Old(x) == IF item.type = "external" /\ x \in DOMAIN tree THEN tree[x] ELSE << >>
<1>1. w = [x \in DOMAIN w |-> w[x]] /\ \A x \in DOMAIN w : w[x] = Append(Old(x), Chunk(c, x[2], src))
  BY DEF Written
<1>2. ASSUME NEW x \in DOMAIN w PROVE w[x] # << >> /\ \E T : w[x] \in Seq(T)
  <2>. DEFINE chunk == Chunk(c, x[2], src)
  <2>1. PICK T : Old(x) \in Seq(T)
    <3>1. << >> \in Seq({})
      OBVIOUS
    <3>. QED
      BY <3>1 DEF IsTree
  <2>2. w[x] = Append(Old(x), chunk)
    BY <1>1
  <2>. HIDE DEF w, Old, chunk
  <2>3. Old(x) \in Seq(T \cup {chunk})
    BY <2>1
  <2>4. Append(Old(x), chunk) \in Seq(T \cup {chunk}) /\ Len(Append(Old(x), chunk)) = Len(Old(x)) + 1
        /\ Len(Old(x)) \in Nat
    BY <2>3
  <2>5. Append(Old(x), chunk) # << >>
    BY <2>4
  <2>. QED
    BY <2>2, <2>4, <2>5
<1>. HIDE DEF w
<1>3. IsTree(w)
  BY <1>1, <1>2 DEF IsTree
<1>. QED
  BY <1>3 DEF w

LEMMA CompiledIsTree ==
  ASSUME NEW item, NEW c, NEW src, NEW tree, IsTree(tree)
  PROVE  IsTree(Compiled(item, c, src, tree))
BY PartIsTree, OverIsTree, WrittenIsTree DEF Compiled

-----------------------------------------------------------------------------
(* The records of kadet items. *)

(* What such a record says of its item's file: it has read all that the    *)
(* output depends on, of refs only those it creates, which were there      *)
(* afterwards, and sources that read the same give the same output.        *)
EntryOf(e, c) ==
    /\ Own(c) \cup Loads(Program[c].imports) \subseteq DOMAIN e.seen
    /\ DOMAIN e.seen \cap Created \subseteq Program[c].creates
    /\ \A n \in Program[c].creates : e.seen[n] # Absent
    /\ e.seen[c] \notin {Bad, Late}
    /\ \A src : IsSource(src) /\ Part(src, DOMAIN e.seen) = e.seen =>
          \A tree : Written(e.item, c, WithRefs(c, src), tree) = e.outputs

Entry(e) ==
    /\ e.item.type = "kadet" /\ Sound(e.item) /\ DOMAIN e.seen \subseteq Name /\ IsTree(e.outputs)
    /\ \A c \in ToSet(e.item.inputs) : EntryOf(e, c)

LEMMA KadetSees ==
  ASSUME NEW item, Sound(item), item.type = "kadet", NEW c \in ToSet(item.inputs), NEW src
  PROVE  Sees(c, src) = Own(c) \cup Loads(Program[c].imports) /\ Included(c, src) = {} /\ Program[c].includes = << >>
BY IncludedIs DEF Sees

LEMMA EntryMade ==
  ASSUME NEW item, Sound(item), item.type = "kadet", NEW c \in ToSet(item.inputs),
         NEW now, IsSource(now), ~Fails(item, c, now), NEW tree,
         NEW D, Sees(c, now) \subseteq D, D \subseteq Name, D \cap Created \subseteq Program[c].creates
  PROVE  Entry([item |-> item, seen |-> Part(WithRefs(c, now), D),
                outputs |-> Written(item, c, WithRefs(c, now), tree)])
<1>. DEFINE later == WithRefs(c, now)
            e == [item |-> item, seen |-> Part(later, D), outputs |-> Written(item, c, later, tree)]
<1>1. /\ c \in File /\ c \notin Created /\ c \in Sees(c, now) /\ c \in Name
      /\ Sees(c, now) \cap Created = Program[c].creates
  BY SeesIs
<1>2. /\ IsSource(later)
      /\ \A n \in Name : later[n] = IF n \in Program[c].creates /\ now[n] = Absent THEN Made ELSE now[n]
      /\ \A n \in Program[c].creates : n \in Name /\ later[n] # Absent
  BY <1>1, RefsGrow
<1>3. DOMAIN e.seen = D /\ \A n \in D : e.seen[n] = later[n]
  <2>1. DOMAIN later = Name
    BY <1>2 DEF IsSource
  <2>2. DOMAIN Part(later, D) = D \cap Name /\ \A n \in D \cap Name : Part(later, D)[n] = later[n]
    BY <2>1 DEF Part
  <2>. QED
    BY <2>2
<1>4. ASSUME NEW src, IsSource(src), Part(src, DOMAIN e.seen) = e.seen, NEW t
      PROVE  Written(item, c, WithRefs(c, src), t) = e.outputs
  <2>1. \A n \in D : src[n] = later[n]
    <3>1. DOMAIN src = Name
      BY <1>4 DEF IsSource
    <3>2. \A n \in D : n \in D \cap DOMAIN src
      BY <3>1
    <3>3. \A n \in D : Part(src, D)[n] = src[n]
      BY <3>2 DEF Part
    <3>. QED
      BY <1>3, <1>4, <3>3
  <2>2. \A n \in Sees(c, now) : WithRefs(c, src)[n] = later[n]
    <3>. TAKE n \in Sees(c, now)
    <3>1. n \in Name /\ n \in D
      OBVIOUS
    <3>2. WithRefs(c, src)[n] = IF n \in Program[c].creates /\ src[n] = Absent THEN Made ELSE src[n]
      BY <1>1, <1>4, <3>1, RefsGrow
    <3>. QED
      BY <1>2, <2>1, <3>1, <3>2
  <2>3. \A u : Written(item, c, WithRefs(c, src), u) = Written(item, c, later, u)
    BY <1>4, <2>2, SightDecides
  <2>4. Written(item, c, later, t) = Written(item, c, later, tree)
    BY DEF Written
  <2>. QED
    BY <2>3, <2>4
<1>5. e.seen[c] \notin {Bad, Late}
  <2>1. c \in D /\ c \notin Program[c].creates
    BY <1>1
  <2>. QED
    BY <1>1, <1>2, <1>3, <2>1 DEF Fails
<1>6. \A n \in Program[c].creates : e.seen[n] # Absent
  BY <1>1, <1>2, <1>3
<1>7. Own(c) \cup Loads(Program[c].imports) \subseteq DOMAIN e.seen
  BY <1>3, KadetSees
<1>8. e.item = item
  OBVIOUS
<1>9. EntryOf(e, c)
  <2>. HIDE DEF e
  <2>. QED
    BY <1>3, <1>4, <1>5, <1>6, <1>7, <1>8 DEF EntryOf
<1>10. \A d \in ToSet(e.item.inputs) : d = c
  BY <1>8 DEF Sound, TidyItem
<1>11. IsTree(e.outputs)
  BY WrittenIsTree
<1>. HIDE DEF e
<1>12. Entry(e)
  BY <1>3, <1>8, <1>9, <1>10, <1>11 DEF Entry
<1>. QED
  BY <1>12 DEF e

(* A record that was usable when the run began still is.                   *)
LEMMA EntryGrows ==
  ASSUME NEW e, Entry(e), NEW c \in ToSet(e.item.inputs), NEW a, NEW b, Grown(a, b),
         Part(a, DOMAIN e.seen) = e.seen
  PROVE  Part(b, DOMAIN e.seen) = e.seen
<1>. DEFINE D == DOMAIN e.seen
<1>1. D \subseteq Name /\ EntryOf(e, c)
  BY DEF Entry
<1>2. DOMAIN a = Name /\ DOMAIN b = Name
  BY DEF Grown, IsSource
<1>3. \A n \in D : Part(a, D)[n] = a[n]
  BY <1>1, <1>2 DEF Part
<1>4. \A n \in D : b[n] = a[n]
  BY <1>1, <1>3 DEF EntryOf, Grown
<1>5. Part(a, D) = Part(b, D)
  BY <1>1, <1>2, <1>4, PartsAgree
<1>. QED
  BY <1>5

(* Restoring what it lists is what compiling the file does.                *)
LEMMA EntryDoes ==
  ASSUME NEW e, Entry(e), NEW c \in ToSet(e.item.inputs), NEW now, IsSource(now),
         Part(now, DOMAIN e.seen) = e.seen
  PROVE  /\ ~Fails(e.item, c, now) /\ WithRefs(c, now) = now
         /\ Sees(c, now) \subseteq DOMAIN e.seen
         /\ \A rd : RefsThere(now, rd) => RefsThere(now, rd \cup DOMAIN e.seen)
         /\ \A tree : Compiled(e.item, c, now, tree) = Over(tree, e.outputs)
<1>. DEFINE D == DOMAIN e.seen
<1>1. D \subseteq Name /\ EntryOf(e, c) /\ Sound(e.item) /\ e.item.type = "kadet"
  BY DEF Entry
<1>2. \A n \in D : e.seen[n] = now[n]
  <2>1. DOMAIN now = Name
    BY DEF IsSource
  <2>2. \A n \in D : Part(now, D)[n] = now[n]
    BY <1>1, <2>1 DEF Part
  <2>. QED
    BY <2>2
<1>3. /\ Included(c, now) = {} /\ Program[c].includes = << >> /\ Sees(c, now) \subseteq D
  BY <1>1, KadetSees DEF EntryOf
<1>4. c \in File /\ c \in Sees(c, now) /\ Sees(c, now) \cap Created = Program[c].creates
  BY <1>1, SeesIs
<1>5. ~Fails(e.item, c, now)
  BY <1>1, <1>2, <1>3, <1>4 DEF Fails, EntryOf
<1>6. \A n \in D \cap Created : now[n] # Absent
  BY <1>1, <1>2 DEF EntryOf
<1>7. WithRefs(c, now) = now
  <2>1. \A n \in Program[c].creates : now[n] # Absent
    BY <1>3, <1>4, <1>6
  <2>2. WithRefs(c, now) = [n \in DOMAIN now |-> now[n]]
    BY <2>1 DEF WithRefs
  <2>. QED
    BY <2>2 DEF IsSource
<1>8. ASSUME NEW tree PROVE Compiled(e.item, c, now, tree) = Over(tree, e.outputs)
  BY <1>1 DEF Compiled, EntryOf
<1>9. \A rd : RefsThere(now, rd) => RefsThere(now, rd \cup D)
  BY <1>6 DEF RefsThere
<1>. QED
  BY <1>3, <1>5, <1>7, <1>8, <1>9

-----------------------------------------------------------------------------
(* Progress and Stages satisfy the equations that define them. *)

Todo(item, s) ==
    IF Missing(item, s.src, DOMAIN s.tree) THEN {} ELSE Resolved(item, s.src, DOMAIN s.tree)
Begun(item, s) == [s EXCEPT !.going = ~Missing(item, s.src, DOMAIN s.tree)]
NextInput(item, todo, k, s) ==
    IF k \in todo /\ s.going THEN InputDone(item, item.inputs[k], s) ELSE s

LEMMA ProgressIs ==
  ASSUME NEW item, item.inputs \in Seq(ToSet(item.inputs)), NEW s
  PROVE  /\ Progress(item, s)[0] = Begun(item, s)
         /\ \A k \in 1 .. Len(item.inputs) :
               Progress(item, s)[k] = NextInput(item, Todo(item, s), k, Progress(item, s)[k - 1])
<1>. DEFINE todo == Todo(item, s)
            Body(f, m) == [k \in 0 .. m |-> IF k = 0 THEN Begun(item, s)
                                            ELSE NextInput(item, todo, k, f[k - 1])]
            S == {m \in Nat : \E f : f = Body(f, m)}
            n == Len(item.inputs)
<1>1. n \in Nat
  OBVIOUS
<1>2. 0 \in S
  <2>1. [k \in 0 .. 0 |-> Begun(item, s)] = Body([k \in 0 .. 0 |-> Begun(item, s)], 0)
    OBVIOUS
  <2>. QED
    BY <2>1
<1>3. ASSUME NEW m \in 0 .. n - 1, m \in S PROVE m + 1 \in S
  <2>1. PICK f : f = Body(f, m)
    BY <1>3
  <2>. DEFINE g == [k \in 0 .. m + 1 |-> IF k = m + 1 THEN NextInput(item, todo, m + 1, f[m]) ELSE f[k]]
  <2>2. m \in Nat
    BY <1>1
  <2>3. ASSUME NEW k \in 0 .. m + 1
        PROVE  g[k] = IF k = 0 THEN Begun(item, s) ELSE NextInput(item, todo, k, g[k - 1])
    <3>1. CASE k = m + 1
      <4>1. k - 1 = m /\ m \in 0 .. m + 1 /\ m # m + 1 /\ k # 0
        BY <2>2, <3>1
      <4>2. g[k - 1] = f[m]
        BY <4>1
      <4>. QED
        BY <3>1, <4>1, <4>2
    <3>2. CASE k # m + 1
      <4>1. k \in 0 .. m /\ g[k] = f[k]
        BY <2>2, <3>2
      <4>2. f[k] = IF k = 0 THEN Begun(item, s) ELSE NextInput(item, todo, k, f[k - 1])
        BY <2>1, <4>1
      <4>3. k # 0 => g[k - 1] = f[k - 1]
        BY <2>2, <4>1
      <4>. QED
        BY <4>1, <4>2, <4>3
    <3>. QED
      BY <3>1, <3>2
  <2>4. g = Body(g, m + 1)
    BY <2>3
  <2>5. \E f2 : f2 = Body(f2, m + 1)
    <3>. HIDE DEF g, Body
    <3>. QED
      BY <2>4
  <2>. HIDE DEF Body
  <2>. QED
    BY <2>2, <2>5
<1>4. n \in S
  <2>. HIDE DEF S
  <2>1. 0 .. n \subseteq S
    BY <1>1, <1>2, <1>3, UpTo
  <2>. QED
    BY <1>1, <2>1
<1>5. Progress(item, s) = CHOOSE f : f = Body(f, n)
  BY DEF Progress, Begun, NextInput, Todo
<1>6. Progress(item, s) = Body(Progress(item, s), n)
  <2>1. PICK f : f = Body(f, n)
    BY <1>4
  <2>. HIDE DEF Body
  <2>. QED
    BY <1>5, <2>1
<1>7. 0 \in 0 .. n /\ \A k \in 1 .. n : k \in 0 .. n /\ k # 0
  BY <1>1
<1>. HIDE DEF todo, n
<1>8. \A k \in 0 .. n : Progress(item, s)[k] = IF k = 0 THEN Begun(item, s)
                                               ELSE NextInput(item, todo, k, Progress(item, s)[k - 1])
  BY <1>6
<1>. QED
  BY <1>7, <1>8 DEF todo, n

LEMMA StagesIs ==
  ASSUME NEW its, its \in Seq(ToSet(its)), NEW src
  PROVE  LET after == Stages([items |-> its, source |-> src])
         IN  /\ after[0] = Nothing(src)
             /\ \A n \in 1 .. Len(its) : after[n] = ItemDone(its[n], after[n - 1])
             /\ FromNothing([items |-> its, source |-> src]) = after[Len(its)].tree
<1>. DEFINE d == [items |-> its, source |-> src]
            Body(f, m) == [k \in 0 .. m |-> IF k = 0 THEN Nothing(src) ELSE ItemDone(its[k], f[k - 1])]
            S == {m \in Nat : \E f : f = Body(f, m)}
            n == Len(its)
            after == Stages(d)
<1>1. n \in Nat
  OBVIOUS
<1>2. 0 \in S
  <2>1. [k \in 0 .. 0 |-> Nothing(src)] = Body([k \in 0 .. 0 |-> Nothing(src)], 0)
    OBVIOUS
  <2>. QED
    BY <2>1
<1>3. ASSUME NEW m \in 0 .. n - 1, m \in S PROVE m + 1 \in S
  <2>1. PICK f : f = Body(f, m)
    BY <1>3
  <2>. DEFINE g == [k \in 0 .. m + 1 |-> IF k = m + 1 THEN ItemDone(its[m + 1], f[m]) ELSE f[k]]
  <2>2. m \in Nat
    BY <1>1
  <2>3. ASSUME NEW k \in 0 .. m + 1
        PROVE  g[k] = IF k = 0 THEN Nothing(src) ELSE ItemDone(its[k], g[k - 1])
    <3>1. CASE k = m + 1
      <4>1. k - 1 = m /\ m \in 0 .. m + 1 /\ m # m + 1 /\ k # 0
        BY <2>2, <3>1
      <4>2. g[k - 1] = f[m]
        BY <4>1
      <4>. QED
        BY <3>1, <4>1, <4>2
    <3>2. CASE k # m + 1
      <4>1. k \in 0 .. m /\ g[k] = f[k]
        BY <2>2, <3>2
      <4>2. f[k] = IF k = 0 THEN Nothing(src) ELSE ItemDone(its[k], f[k - 1])
        BY <2>1, <4>1
      <4>3. k # 0 => g[k - 1] = f[k - 1]
        BY <2>2, <4>1
      <4>. QED
        BY <4>1, <4>2, <4>3
    <3>. QED
      BY <3>1, <3>2
  <2>4. g = Body(g, m + 1)
    BY <2>3
  <2>5. \E f2 : f2 = Body(f2, m + 1)
    <3>. HIDE DEF g, Body
    <3>. QED
      BY <2>4
  <2>. HIDE DEF Body
  <2>. QED
    BY <2>2, <2>5
<1>4. n \in S
  <2>. HIDE DEF S
  <2>1. 0 .. n \subseteq S
    BY <1>1, <1>2, <1>3, UpTo
  <2>. QED
    BY <1>1, <2>1
<1>5. d.items = its /\ d.source = src
  OBVIOUS
<1>6. after = CHOOSE f : f = Body(f, n)
  BY <1>5 DEF Stages
<1>7. after = Body(after, n)
  <2>1. PICK f : f = Body(f, n)
    BY <1>4
  <2>. HIDE DEF Body, after
  <2>. QED
    BY <1>6, <2>1
<1>8. FromNothing(d) = after[n].tree
  BY <1>5 DEF FromNothing
<1>9. 0 \in 0 .. n /\ \A k \in 1 .. n : k \in 0 .. n /\ k # 0
  BY <1>1
<1>10. \A k \in 0 .. n : after[k] = IF k = 0 THEN Nothing(src) ELSE ItemDone(its[k], after[k - 1])
  <2>. HIDE DEF after, n
  <2>. QED
    BY <1>7
<1>. HIDE DEF after, n, d
<1>11. /\ after[0] = Nothing(src)
       /\ \A k \in 1 .. n : after[k] = ItemDone(its[k], after[k - 1])
       /\ FromNothing(d) = after[n].tree
  BY <1>8, <1>9, <1>10
<1>. QED
  BY <1>11 DEF after, n, d

-----------------------------------------------------------------------------
(* A compile from nothing beside one that is under way. *)

IsStage(s) ==
    IsTree(s.tree) /\ s = [going |-> s.going, src |-> s.src, tree |-> s.tree, reads |-> s.reads]

(* A compile of src that has come to s, without a failure, with this tree. *)
Good(src, s, tree) == IsStage(s) /\ s.going /\ s.tree = tree /\ Grown(src, s.src)

LEMMA SameTodo ==
  ASSUME NEW its, SoundItems(its), NEW i \in DOMAIN its, its[i].type # "remove",
         NEW a, NEW b, SameProbes(its, a, b), NEW o, NEW u
  PROVE  /\ Missing(its[i], a, o) <=> Missing(its[i], b, u)
         /\ Resolved(its[i], a, o) = Resolved(its[i], b, u)
<1>. DEFINE item == its[i]
<1>1. Sound(item) /\ IsItem(item)
  BY DEF SoundItems, Sound
<1>2. \A c \in ToSet(item.inputs) : a[c] = Absent <=> b[c] = Absent
  BY <1>1, SameThere
<1>3. \A k \in DOMAIN item.inputs : item.inputs[k] \in ToSet(item.inputs)
  BY DEF ToSet
<1>4. ToSet(item.inputs) \subseteq File
  BY <1>1 DEF IsItem
<1>5. Resolved(item, a, o) = Resolved(item, b, u)
  BY <1>2, <1>3, <1>4 DEF Resolved, There
<1>6. \A p \in item.paths : p \cap There(item, a, o) = p \cap There(item, b, u)
  BY <1>1, <1>2, <1>4 DEF There, IsItem
<1>7. Missing(item, a, o) <=> Missing(item, b, u)
  BY <1>6 DEF Missing
<1>. QED
  BY <1>5, <1>7

LEMMA BegunIs ==
  ASSUME NEW item, NEW s, IsStage(s)
  PROVE  /\ IsStage(Begun(item, s)) /\ Begun(item, s).src = s.src /\ Begun(item, s).tree = s.tree
         /\ Begun(item, s).reads = s.reads
         /\ Begun(item, s).going = ~Missing(item, s.src, DOMAIN s.tree)
<1>. DEFINE m == ~Missing(item, s.src, DOMAIN s.tree)
<1>1. Begun(item, s) = [going |-> m, src |-> s.src, tree |-> s.tree, reads |-> s.reads]
  <2>. HIDE DEF m
  <2>1. [s EXCEPT !.going = m] = [going |-> m, src |-> s.src, tree |-> s.tree, reads |-> s.reads]
    BY DEF IsStage
  <2>. QED
    BY <2>1 DEF Begun, m
<1>. HIDE DEF m
<1>2. /\ IsStage(Begun(item, s)) /\ Begun(item, s).src = s.src /\ Begun(item, s).tree = s.tree
      /\ Begun(item, s).reads = s.reads /\ Begun(item, s).going = m
  BY <1>1 DEF IsStage
<1>. QED
  BY <1>2 DEF m

(* Where nothing is to do nothing happens. *)
LEMMA Idle ==
  ASSUME NEW item, item.inputs \in Seq(ToSet(item.inputs)), NEW s,
         NEW m \in 0 .. Len(item.inputs), NEW n \in m .. Len(item.inputs),
         \A k \in m + 1 .. n : k \notin Todo(item, s)
  PROVE  Progress(item, s)[n] = Progress(item, s)[m]
<1>. DEFINE S == {d \in Nat : d <= n - m => Progress(item, s)[m + d] = Progress(item, s)[m]}
<1>0. Len(item.inputs) \in Nat /\ m \in Nat /\ n \in Nat /\ n - m \in Nat
  OBVIOUS
<1>1. 0 \in S
  BY <1>0
<1>2. ASSUME NEW d \in 0 .. (n - m) - 1, d \in S PROVE d + 1 \in S
  <2>1. /\ m + (d + 1) \in 1 .. Len(item.inputs) /\ m + (d + 1) \in m + 1 .. n
        /\ (m + (d + 1)) - 1 = m + d /\ d + 1 \in Nat /\ d <= n - m
    BY <1>0
  <2>2. Progress(item, s)[m + (d + 1)]
           = NextInput(item, Todo(item, s), m + (d + 1), Progress(item, s)[m + d])
    BY <2>1, ProgressIs
  <2>3. Progress(item, s)[m + (d + 1)] = Progress(item, s)[m + d]
    BY <2>1, <2>2 DEF NextInput
  <2>. QED
    BY <1>2, <2>1, <2>3
<1>3. n - m \in S
  <2>. HIDE DEF S
  <2>1. 0 .. n - m \subseteq S
    BY <1>0, <1>1, <1>2, UpTo
  <2>. QED
    BY <1>0, <2>1
<1>4. m + (n - m) = n
  BY <1>0
<1>. QED
  BY <1>0, <1>3, <1>4

(* Removing takes away what is there of its inputs. *)
LEMMA RemoveAll ==
  ASSUME NEW item, Sound(item), item.type = "remove", NEW s, IsStage(s), s.going
  PROVE  LET done == AllInputs(item, s)
         IN  /\ IsStage(done) /\ done.going /\ done.src = s.src /\ done.reads = s.reads
             /\ done.tree = Part(s.tree, DOMAIN s.tree \ ToSet(item.inputs))
<1>. DEFINE P == Progress(item, s)
            n == Len(item.inputs)
            Before(k) == {item.inputs[j] : j \in 1 .. k}
            Gone(k) == /\ IsStage(P[k]) /\ P[k].going /\ P[k].src = s.src /\ P[k].reads = s.reads
                       /\ P[k].tree = Part(s.tree, DOMAIN s.tree \ Before(k))
            S == {k \in Nat : k <= n => Gone(k)}
<1>1. /\ item.inputs \in Seq(ToSet(item.inputs)) /\ n \in Nat /\ item.ignoreMissing
  BY DEF Sound, IsItem, TidyItem
<1>2. Todo(item, s) = {k \in 1 .. n : item.inputs[k] \in DOMAIN s.tree}
  BY <1>1 DEF Todo, Missing, Resolved, There
<1>3. 0 \in S
  <2>1. P[0] = Begun(item, s)
    BY <1>1, ProgressIs
  <2>2. ~Missing(item, s.src, DOMAIN s.tree)
    BY <1>1 DEF Missing
  <2>3. Before(0) = {}
    OBVIOUS
  <2>4. s.tree = Part(s.tree, DOMAIN s.tree)
    BY DEF IsStage, IsTree, Part
  <2>5. DOMAIN s.tree \ {} = DOMAIN s.tree
    OBVIOUS
  <2>6. Gone(0)
    <3>1. /\ IsStage(P[0]) /\ P[0].going /\ P[0].src = s.src /\ P[0].reads = s.reads
          /\ P[0].tree = s.tree
      <4>. DEFINE b == Begun(item, s)
      <4>1. IsStage(b) /\ b.src = s.src /\ b.tree = s.tree /\ b.reads = s.reads
            /\ b.going = ~Missing(item, s.src, DOMAIN s.tree)
        BY BegunIs
      <4>2. P[0] = b
        BY <2>1
      <4>. HIDE DEF P, b, S, Gone, Before
      <4>3. b.going
        BY <2>2, <4>1
      <4>. QED
        BY <4>1, <4>2, <4>3
    <3>2. P[0].tree = Part(s.tree, DOMAIN s.tree \ Before(0))
      <4>. HIDE DEF P, Before
      <4>. QED
        BY <2>3, <2>4, <2>5, <3>1
    <3>. QED
      BY <3>1, <3>2
  <2>. HIDE DEF Gone
  <2>. QED
    BY <2>6
<1>2a. ASSUME NEW k \in 1 .. n
       PROVE  /\ item.inputs[k] \in ToSet(item.inputs)
              /\ Before(k) = Before(k - 1) \cup {item.inputs[k]}
  <2>1. k \in DOMAIN item.inputs
    BY <1>1
  <2>2. 1 .. k = (1 .. k - 1) \cup {k}
    BY <1>1
  <2>. QED
    BY <2>1, <2>2 DEF ToSet
<1>4. ASSUME NEW k \in 0 .. n - 1, k \in S PROVE k + 1 \in S
  <2>. DEFINE c == item.inputs[k + 1]
  <2>1. k \in Nat /\ k + 1 \in 1 .. n /\ (k + 1) - 1 = k /\ k <= n
    BY <1>1
  <2>2. Gone(k)
    BY <1>4, <2>1
  <2>3. P[k + 1] = NextInput(item, Todo(item, s), k + 1, P[k])
    <3>1. P[k + 1] = NextInput(item, Todo(item, s), k + 1, P[(k + 1) - 1])
      BY <1>1, <2>1, ProgressIs
    <3>. QED
      BY <2>1, <3>1
  <2>4. Before(k + 1) = Before(k) \cup {c}
    BY <1>2a, <2>1
  <2>5. ASSUME k + 1 \in Todo(item, s) PROVE Gone(k + 1)
    <3>1. P[k + 1] = InputDone(item, c, P[k])
      BY <2>2, <2>3, <2>5 DEF NextInput
    <3>a. /\ ~Fails(item, c, P[k].src) /\ Leaves(item, c, P[k].src) = P[k].src
          /\ Observed(item, c, P[k].src) = {}
          /\ Compiled(item, c, P[k].src, P[k].tree) = Part(P[k].tree, DOMAIN P[k].tree \ {c})
      <4>. HIDE DEF P, c
      <4>. QED
        BY DEF Fails, Leaves, Compiled, Observed
    <3>b. /\ P[k + 1].going = TRUE /\ P[k + 1].src = P[k].src
          /\ P[k + 1].tree = Part(P[k].tree, DOMAIN P[k].tree \ {c}) /\ P[k + 1].reads = P[k].reads
          /\ P[k + 1] = [going |-> P[k + 1].going, src |-> P[k + 1].src,
                         tree |-> P[k + 1].tree, reads |-> P[k + 1].reads]
      <4>1. P[k + 1] = [going |-> TRUE, src |-> P[k].src,
                        tree |-> Part(P[k].tree, DOMAIN P[k].tree \ {c}), reads |-> P[k].reads]
        <5>. HIDE DEF P, c
        <5>. QED
          BY <3>1, <3>a DEF InputDone
      <4>. HIDE DEF P, c
      <4>. QED
        BY <4>1
    <3>2. /\ P[k + 1].going /\ P[k + 1].src = s.src
          /\ P[k + 1].tree = Part(P[k].tree, DOMAIN P[k].tree \ {c}) /\ P[k + 1].reads = s.reads
          /\ P[k + 1] = [going |-> P[k + 1].going, src |-> P[k + 1].src,
                         tree |-> P[k + 1].tree, reads |-> P[k + 1].reads]
      <4>. HIDE DEF P, c
      <4>. QED
        BY <2>2, <3>b
    <3>3. IsTree(P[k + 1].tree)
      <4>. HIDE DEF P, c
      <4>. QED
        BY <2>2, <3>2, PartIsTree DEF IsStage
    <3>4. P[k + 1].tree = Part(s.tree, DOMAIN s.tree \ Before(k + 1))
      <4>. HIDE DEF P, Before, c
      <4>. QED
        BY <2>2, <2>4, <3>2 DEF Part
    <3>. HIDE DEF P, Before
    <3>. QED
      BY <3>2, <3>3, <3>4 DEF IsStage
  <2>6. ASSUME k + 1 \notin Todo(item, s) PROVE Gone(k + 1)
    <3>1. P[k + 1] = P[k]
      BY <2>3, <2>6 DEF NextInput
    <3>2. c \notin DOMAIN s.tree
      BY <1>2, <2>1, <2>6
    <3>3. DOMAIN s.tree \ Before(k) = DOMAIN s.tree \ Before(k + 1)
      BY <2>4, <3>2
    <3>. QED
      <4>. HIDE DEF P, Before, c
      <4>. QED
        BY <2>2, <3>1, <3>3
  <2>. HIDE DEF Gone
  <2>. QED
    BY <2>1, <2>5, <2>6
<1>5. Gone(n)
  <2>1. 0 .. n \subseteq S
    <3>. HIDE DEF S
    <3>. QED
      BY <1>1, <1>3, <1>4, UpTo
  <2>2. n \in 0 .. n /\ n <= n
    BY <1>1
  <2>3. n \in S
    <3>. HIDE DEF S
    <3>. QED
      BY <2>1, <2>2
  <2>. HIDE DEF Gone
  <2>. QED
    BY <2>2, <2>3
<1>6. Before(n) = ToSet(item.inputs)
  BY <1>1 DEF ToSet
<1>. QED
  BY <1>5, <1>6 DEF AllInputs

(* One input, in both compiles.                                            *)
LEMMA InputGood ==
  ASSUME NEW its, NEW i, NEW c, NEW now, NEW rd, NEW after, Compiles(its, i, c, now, rd, after),
         NEW src, Agrees(src, its, WithRefs(c, now), after), NEW s, NEW tree, Good(src, s, tree)
  PROVE  Good(src, InputDone(its[i], c, s), Compiled(its[i], c, now, tree))
<1>. DEFINE item == its[i]
            done == InputDone(item, c, s)
<1>1. Grown(src, s.src)
  BY DEF Good
<1>2. /\ ~Fails(item, c, s.src) /\ Grown(src, WithRefs(c, s.src))
      /\ Compiled(item, c, s.src, tree) = Compiled(item, c, now, tree)
  <2>. DEFINE o == s.src
  <2>1. Grown(src, o)
    BY <1>1
  <2>. HIDE DEF o
  <2>2. /\ ~Fails(its[i], c, o) /\ Grown(src, WithRefs(c, o))
        /\ \A t : Compiled(its[i], c, o, t) = Compiled(its[i], c, now, t)
    BY <2>1, InputAgrees
  <2>. QED
    BY <2>2 DEF o
<1>3. Leaves(item, c, s.src) = WithRefs(c, s.src)
  BY <1>2 DEF Leaves, Compiles
<1>4. /\ done.going = TRUE /\ done.src = WithRefs(c, s.src)
      /\ done.tree = Compiled(item, c, now, tree)
      /\ done = [going |-> done.going, src |-> done.src, tree |-> done.tree, reads |-> done.reads]
  BY <1>2, <1>3 DEF InputDone, Good
<1>5. IsTree(done.tree)
  BY <1>4, CompiledIsTree DEF Good, IsStage
<1>. HIDE DEF done
<1>6. Good(src, done, Compiled(item, c, now, tree))
  BY <1>2, <1>4, <1>5 DEF Good, IsStage
<1>. QED
  BY <1>6 DEF done

LEMMA ItemGood ==
  ASSUME NEW item, NEW src, NEW s, NEW tree, s.going, Good(src, AllInputs(item, s), tree)
  PROVE  Good(src, ItemDone(item, s), tree)
<1>. DEFINE d == AllInputs(item, s)
            g == d.going \/ item.tolerant
<1>1. ItemDone(item, s) = [d EXCEPT !.going = g]
  BY DEF ItemDone
<1>2. g
  BY DEF Good
<1>. HIDE DEF g, d
<1>3. [d EXCEPT !.going = g] = [going |-> g, src |-> d.src, tree |-> d.tree, reads |-> d.reads]
  BY DEF Good, IsStage, d
<1>4. IsTree(d.tree) /\ d.tree = tree /\ Grown(src, d.src)
  BY DEF Good, IsStage, d
<1>. QED
  BY <1>1, <1>2, <1>3, <1>4 DEF Good, IsStage

(* What is to do is the same for both.                                     *)
LEMMA GoodTodo ==
  ASSUME NEW its, SoundItems(its), NEW i \in DOMAIN its, its[i].type # "remove",
         NEW now, NEW rd, NEW src, Agrees(src, its, now, rd), NEW s, NEW tree, Good(src, s, tree), NEW o
  PROVE  /\ Missing(its[i], s.src, DOMAIN s.tree) <=> Missing(its[i], now, o)
         /\ Resolved(its[i], s.src, DOMAIN s.tree) = Resolved(its[i], now, o)
<1>1. SameProbes(its, s.src, src) /\ SameProbes(its, src, now)
  BY ProbesGrow DEF Good, Agrees
<1>2. SameProbes(its, s.src, now)
  BY <1>1, ProbesChain
<1>. QED
  BY <1>2, SameTodo

LEMMA StartsGood ==
  ASSUME NEW its, SoundItems(its), NEW i \in DOMAIN its, its[i].type # "remove",
         NEW now, NEW rd, NEW src, Agrees(src, its, now, rd), NEW s, NEW tree, Good(src, s, tree),
         NEW o, ~Missing(its[i], now, o)
  PROVE  /\ Good(src, Progress(its[i], s)[0], tree)
         /\ Todo(its[i], s) = Resolved(its[i], now, o)
<1>. DEFINE item == its[i]
<1>1. /\ Sound(item) /\ item.inputs \in Seq(ToSet(item.inputs))
  BY DEF SoundItems, Sound, IsItem
<1>2. ~Missing(item, s.src, DOMAIN s.tree) /\ Resolved(item, s.src, DOMAIN s.tree) = Resolved(item, now, o)
  BY GoodTodo
<1>3. Progress(item, s)[0] = Begun(item, s)
  BY <1>1, ProgressIs
<1>4. IsStage(s) /\ s.tree = tree /\ Grown(src, s.src)
  BY DEF Good
<1>5. Good(src, Begun(item, s), tree)
  BY <1>2, <1>4, BegunIs DEF Good
<1>. QED
  BY <1>2, <1>3, <1>5 DEF Todo

(* From one input to the next, where the first of the two is done.         *)
LEMMA NextGood ==
  ASSUME NEW its, NEW i, NEW k \in DOMAIN its[i].inputs, NEW now, NEW rd, NEW after,
         Compiles(its, i, its[i].inputs[k], now, rd, after),
         NEW src, Agrees(src, its, WithRefs(its[i].inputs[k], now), after), NEW s, NEW tree,
         k \in Todo(its[i], s), Good(src, Progress(its[i], s)[k - 1], tree)
  PROVE  Good(src, Progress(its[i], s)[k], Compiled(its[i], its[i].inputs[k], now, tree))
<1>. DEFINE item == its[i]
            c == item.inputs[k]
<1>1. /\ Sound(item) /\ item.inputs \in Seq(ToSet(item.inputs)) /\ k \in 1 .. Len(item.inputs)
      /\ c \in ToSet(item.inputs)
  <2>1. Sound(item) /\ item.inputs \in Seq(ToSet(item.inputs))
    BY DEF Compiles, SoundItems, Sound, IsItem
  <2>. QED
    BY <2>1 DEF ToSet
<1>2. Progress(item, s)[k] = NextInput(item, Todo(item, s), k, Progress(item, s)[k - 1])
  BY <1>1, ProgressIs
<1>3. Progress(item, s)[k] = InputDone(item, c, Progress(item, s)[k - 1])
  BY <1>2 DEF NextInput, Good
<1>4. Good(src, InputDone(item, c, Progress(item, s)[k - 1]), Compiled(item, c, now, tree))
  BY <1>1, InputGood
<1>. QED
  BY <1>3, <1>4

-----------------------------------------------------------------------------
(* A Python worker compiles an item in one step. *)

LEMMA InputTyped ==
  ASSUME NEW item, Sound(item), NEW c \in ToSet(item.inputs), NEW src, IsSource(src)
  PROVE  /\ Grown(src, Leaves(item, c, src)) /\ Observed(item, c, src) \subseteq Name
<1>1. CASE item.type = "remove"
  BY <1>1, GrownRefl DEF Leaves, Observed
<1>2. CASE item.type # "remove"
  <2>1. c \in File /\ c \in Name /\ Sees(c, src) \subseteq Name
    BY <1>2, SeesIs
  <2>2. Grown(src, WithRefs(c, src)) /\ Grown(src, src)
    BY <2>1, RefsGrow, GrownRefl
  <2>. QED
    BY <2>1, <2>2 DEF Leaves, Observed
<1>. QED
  BY <1>1, <1>2

Came(now, tree, rd) == [going |-> TRUE, src |-> now, tree |-> tree, reads |-> rd]

(* What holds of its progress whether inputs fail or not. *)
LEMMA WorkerTyped ==
  ASSUME NEW item, Sound(item), NEW now, IsSource(now), NEW rd, rd \subseteq Name, NEW tree, IsTree(tree),
         NEW k \in 0 .. Len(item.inputs)
  PROVE  LET r == Progress(item, Came(now, tree, rd))[k]
         IN  IsStage(r) /\ Grown(now, r.src) /\ r.reads \subseteq Name
<1>. DEFINE s == Came(now, tree, rd)
            P == Progress(item, s)
            n == Len(item.inputs)
            Fine(j) == IsStage(P[j]) /\ Grown(now, P[j].src) /\ P[j].reads \subseteq Name
            S == {j \in Nat : j <= n => Fine(j)}
<1>1. item.inputs \in Seq(ToSet(item.inputs)) /\ n \in Nat
  BY DEF Sound, IsItem
<1>2. Fine(0)
  <2>1. IsStage(s) /\ s.src = now /\ s.reads = rd
    BY DEF Came, IsStage
  <2>2. P[0] = Begun(item, s)
    BY <1>1, ProgressIs
  <2>3. Grown(now, now)
    BY GrownRefl
  <2>. HIDE DEF s, P
  <2>. QED
    BY <2>1, <2>2, <2>3, BegunIs
<1>3. ASSUME NEW j \in 0 .. n - 1, Fine(j) PROVE Fine(j + 1)
  <2>. DEFINE c == item.inputs[j + 1]
  <2>1. j + 1 \in 1 .. n /\ (j + 1) - 1 = j
    BY <1>1
  <2>2. P[j + 1] = NextInput(item, Todo(item, s), j + 1, P[j])
    <3>1. P[j + 1] = NextInput(item, Todo(item, s), j + 1, P[(j + 1) - 1])
      BY <1>1, <2>1, ProgressIs
    <3>. QED
      BY <2>1, <3>1
  <2>3. c \in ToSet(item.inputs)
    BY <1>1, <2>1 DEF ToSet
  <2>4. P[j + 1] = P[j] \/ P[j + 1] = InputDone(item, c, P[j])
    BY <2>2 DEF NextInput
  <2>5. IsStage(InputDone(item, c, P[j])) /\ Grown(now, InputDone(item, c, P[j]).src)
        /\ InputDone(item, c, P[j]).reads \subseteq Name
    <3>. HIDE DEF P, c
    <3>1. IsSource(P[j].src)
      BY <1>3 DEF Grown
    <3>2. Grown(P[j].src, Leaves(item, c, P[j].src)) /\ Observed(item, c, P[j].src) \subseteq Name
      BY <2>3, <3>1, InputTyped
    <3>3. Grown(now, Leaves(item, c, P[j].src))
      BY <1>3, <3>2, GrownTrans
    <3>4. IsTree(Compiled(item, c, P[j].src, P[j].tree))
      BY <1>3, CompiledIsTree DEF IsStage
    <3>. QED
      BY <1>3, <3>2, <3>3, <3>4 DEF InputDone, IsStage
  <2>. HIDE DEF P
  <2>. QED
    BY <1>3, <2>4, <2>5
<1>4. 0 \in S /\ \A j \in 0 .. n - 1 : j \in S => j + 1 \in S
  <2>. HIDE DEF Fine
  <2>. QED
    BY <1>1, <1>2, <1>3
<1>5. k \in S
  <2>. HIDE DEF S
  <2>1. 0 .. n \subseteq S
    BY <1>1, <1>4, UpTo
  <2>. QED
    BY <2>1
<1>6. Fine(k)
  <2>. HIDE DEF Fine
  <2>. QED
    BY <1>1, <1>5
<1>. QED
  BY <1>6

(* Who reads like it does afterwards compiles the item the same.           *)
LEMMA WorkerGoes ==
  ASSUME NEW its, SoundItems(its), NEW i \in DOMAIN its, NEW now, IsSource(now),
         NEW rd, rd \subseteq Name, RefsThere(now, rd), NEW tree, IsTree(tree),
         AllInputs(its[i], Came(now, tree, rd)).going
  PROVE  LET r == AllInputs(its[i], Came(now, tree, rd))
         IN  /\ RefsThere(r.src, r.reads)
             /\ \A src : Agrees(src, its, r.src, r.reads) =>
                   /\ Agrees(src, its, now, rd)
                   /\ \A s : Good(src, s, tree) => Good(src, ItemDone(its[i], s), r.tree)
<1>. DEFINE item == its[i]
            cur == Came(now, tree, rd)
            r == AllInputs(item, cur)
            n == Len(item.inputs)
            P == Progress(item, cur)
<1>1. /\ Sound(item) /\ item.inputs \in Seq(ToSet(item.inputs)) /\ n \in Nat
      /\ DOMAIN item.inputs = 1 .. n
  BY DEF SoundItems, Sound, IsItem
<1>2. /\ IsStage(cur) /\ cur.src = now /\ cur.reads = rd /\ cur.tree = tree /\ cur.going
  BY DEF Came, IsStage
<1>3. CASE item.type = "remove"
  <2>1. /\ r.src = now /\ r.reads = rd /\ r.tree = Part(tree, DOMAIN tree \ ToSet(item.inputs))
    <3>. HIDE DEF cur
    <3>. QED
      BY <1>1, <1>2, <1>3, RemoveAll
  <2>2. ASSUME NEW src, NEW s, Good(src, s, tree) PROVE Good(src, ItemDone(item, s), r.tree)
    <3>1. IsStage(s) /\ s.going /\ s.tree = tree /\ Grown(src, s.src)
      BY <2>2 DEF Good
    <3>2. Good(src, AllInputs(item, s), r.tree)
      <4>. HIDE DEF r
      <4>. QED
        BY <1>1, <1>3, <2>1, <3>1, RemoveAll DEF Good
    <3>. QED
      BY <3>1, <3>2, ItemGood
  <2>. QED
    BY <2>1, <2>2
<1>4. CASE item.type # "remove"
  <2>. DEFINE Fine(k) ==
                 P[k].going =>
                    /\ ~Missing(item, now, DOMAIN tree) /\ RefsThere(P[k].src, P[k].reads)
                    /\ \A src : Agrees(src, its, P[k].src, P[k].reads) =>
                          /\ Agrees(src, its, now, rd)
                          /\ \A s : Good(src, s, tree) => Good(src, Progress(item, s)[k], P[k].tree)
              S == {k \in Nat : k <= n => Fine(k)}
  <2>1. P[n].going /\ r = P[n]
    BY DEF AllInputs
  <2>2. \A k \in 0 .. n : IsStage(P[k]) /\ Grown(now, P[k].src) /\ P[k].reads \subseteq Name
    BY <1>1, WorkerTyped
  <2>3. Fine(0)
    <3>1. P[0] = Begun(item, cur)
      BY <1>1, ProgressIs
    <3>2. /\ P[0].src = now /\ P[0].reads = rd /\ P[0].tree = tree
          /\ P[0].going = ~Missing(item, now, DOMAIN tree)
      <4>. HIDE DEF P, cur
      <4>. QED
        BY <1>2, <3>1, BegunIs
    <3>3. ASSUME P[0].going, NEW src, Agrees(src, its, now, rd), NEW s, Good(src, s, tree)
          PROVE  Good(src, Progress(item, s)[0], tree)
      <4>1. ~Missing(item, now, DOMAIN tree)
        BY <3>2, <3>3
      <4>. QED
        BY <1>4, <3>3, <4>1, StartsGood
    <3>. HIDE DEF P
    <3>. QED
      BY <3>2, <3>3
  <2>4. ASSUME NEW k \in 0 .. n - 1, Fine(k) PROVE Fine(k + 1)
    <3>. DEFINE c == item.inputs[k + 1]
    <3>1. k + 1 \in 1 .. n /\ (k + 1) - 1 = k /\ k \in 0 .. n
      BY <1>1
    <3>2. \A s : Progress(item, s)[k + 1] = NextInput(item, Todo(item, s), k + 1, Progress(item, s)[k])
      <4>. TAKE s
      <4>1. Progress(item, s)[k + 1]
               = NextInput(item, Todo(item, s), k + 1, Progress(item, s)[(k + 1) - 1])
        BY <1>1, <3>1, ProgressIs
      <4>. QED
        BY <3>1, <4>1
    <3>3. c \in ToSet(item.inputs) /\ k + 1 \in DOMAIN item.inputs
      BY <1>1, <3>1 DEF ToSet
    <3>. SUFFICES ASSUME P[k + 1].going PROVE Fine(k + 1)
      OBVIOUS
    <3>4. P[k + 1] = NextInput(item, Todo(item, cur), k + 1, P[k])
      BY <3>2
    <3>5. P[k].going
      BY <3>4 DEF NextInput
    <3>6. /\ ~Missing(item, now, DOMAIN tree) /\ RefsThere(P[k].src, P[k].reads)
          /\ \A src : Agrees(src, its, P[k].src, P[k].reads) =>
                /\ Agrees(src, its, now, rd)
                /\ \A s : Good(src, s, tree) => Good(src, Progress(item, s)[k], P[k].tree)
      BY <2>4, <3>5
    <3>7. Todo(item, cur) = Resolved(item, now, DOMAIN tree)
      <4>. HIDE DEF P, cur
      <4>. QED
        BY <1>2, <3>6 DEF Todo
    <3>8. ASSUME NEW src, Agrees(src, its, now, rd), NEW s, Good(src, s, tree)
          PROVE  Todo(item, s) = Resolved(item, now, DOMAIN tree)
      BY <1>4, <3>6, <3>8, StartsGood
    <3>9. CASE k + 1 \notin Resolved(item, now, DOMAIN tree)
      <4>1. P[k + 1] = P[k]
        BY <3>4, <3>7, <3>9 DEF NextInput
      <4>2. ASSUME NEW src, Agrees(src, its, now, rd), NEW s, Good(src, s, tree)
            PROVE  Progress(item, s)[k + 1] = Progress(item, s)[k]
        BY <3>2, <3>8, <3>9, <4>2 DEF NextInput
      <4>. HIDE DEF P
      <4>. QED
        BY <3>6, <4>1, <4>2
    <3>10. CASE k + 1 \in Resolved(item, now, DOMAIN tree)
      <4>1. P[k + 1] = InputDone(item, c, P[k])
        BY <3>4, <3>5, <3>7, <3>10 DEF NextInput
      <4>2. ~Fails(item, c, P[k].src)
        <5>. HIDE DEF P, c
        <5>1. InputDone(item, c, P[k]).going = ~Fails(item, c, P[k].src)
          BY DEF InputDone
        <5>. QED
          BY <4>1, <5>1
      <4>3. /\ P[k + 1].src = WithRefs(c, P[k].src)
            /\ P[k + 1].reads = P[k].reads \cup Observed(item, c, P[k].src)
            /\ P[k + 1].tree = Compiled(item, c, P[k].src, P[k].tree)
        <5>. HIDE DEF P, c
        <5>. QED
          BY <1>4, <4>1, <4>2 DEF InputDone, Leaves
      <4>4. IsSource(P[k].src)
        BY <2>2, <3>1 DEF Grown
      <4>5. Compiles(its, i, c, P[k].src, P[k].reads, P[k + 1].reads)
        <5>. HIDE DEF P, c
        <5>. QED
          BY <1>4, <3>3, <3>6, <4>2, <4>3, <4>4 DEF Compiles
      <4>6. RefsThere(P[k + 1].src, P[k + 1].reads)
        <5>. HIDE DEF P, c
        <5>1. RefsThere(WithRefs(c, P[k].src), P[k].reads \cup Sees(c, P[k].src))
          BY <1>1, <1>4, <3>3, <3>6, <4>4, RefsStayThere
        <5>2. Observed(item, c, P[k].src) \subseteq Sees(c, P[k].src)
          BY <1>4, <4>2 DEF Observed
        <5>. QED
          BY <4>3, <5>1, <5>2 DEF RefsThere
      <4>7. ASSUME NEW src, Agrees(src, its, P[k + 1].src, P[k + 1].reads)
            PROVE  /\ Agrees(src, its, now, rd)
                   /\ \A s : Good(src, s, tree) => Good(src, Progress(item, s)[k + 1], P[k + 1].tree)
        <5>1. Agrees(src, its, WithRefs(c, P[k].src), P[k + 1].reads)
          BY <4>3, <4>7
        <5>2. Grown(src, src)
          BY <4>7, GrownRefl DEF Agrees
        <5>3. Agrees(src, its, P[k].src, P[k].reads)
          <6>. HIDE DEF P, c
          <6>1. \A now2, rd2, after : Compiles(its, i, c, now2, rd2, after)
                                        /\ Agrees(src, its, WithRefs(c, now2), after)
                                        => Agrees(src, its, now2, rd2)
            BY <5>2, InputAgrees
          <6>. QED
            BY <4>5, <5>1, <6>1
        <5>4. Agrees(src, its, now, rd)
          BY <3>6, <5>3
        <5>5. ASSUME NEW s, Good(src, s, tree)
              PROVE  Good(src, Progress(item, s)[k + 1], P[k + 1].tree)
          <6>1. Good(src, Progress(item, s)[(k + 1) - 1], P[k].tree) /\ k + 1 \in Todo(item, s)
            BY <3>1, <3>6, <3>8, <3>10, <5>3, <5>4, <5>5
          <6>2. Good(src, Progress(item, s)[k + 1], Compiled(item, c, P[k].src, P[k].tree))
            <7>. HIDE DEF P
            <7>. QED
              BY <3>3, <4>5, <5>1, <6>1, NextGood
          <6>. QED
            BY <4>3, <6>2
        <5>. QED
          BY <5>4, <5>5
      <4>. HIDE DEF P
      <4>. QED
        BY <3>6, <4>6, <4>7
    <3>. QED
      BY <3>9, <3>10
  <2>5. 0 \in S /\ \A k \in 0 .. n - 1 : k \in S => k + 1 \in S
    <3>. HIDE DEF Fine
    <3>. QED
      BY <1>1, <2>3, <2>4
  <2>6. n \in S
    <3>. HIDE DEF S
    <3>1. 0 .. n \subseteq S
      BY <1>1, <2>5, UpTo
    <3>. QED
      BY <1>1, <3>1
  <2>7. Fine(n)
    <3>. HIDE DEF Fine
    <3>. QED
      BY <1>1, <2>6
  <2>8. /\ RefsThere(r.src, r.reads)
        /\ \A src : Agrees(src, its, r.src, r.reads) =>
              /\ Agrees(src, its, now, rd)
              /\ \A s : Good(src, s, tree) => Good(src, AllInputs(item, s), r.tree)
    <3>. HIDE DEF P, r
    <3>. QED
      BY <2>1, <2>7 DEF AllInputs
  <2>9. ASSUME NEW src, NEW s, Good(src, s, tree), Good(src, AllInputs(item, s), r.tree)
        PROVE  Good(src, ItemDone(item, s), r.tree)
    <3>. HIDE DEF r
    <3>. QED
      BY <2>9, ItemGood DEF Good
  <2>10. ASSUME NEW src, Agrees(src, its, r.src, r.reads)
         PROVE  /\ Agrees(src, its, now, rd)
                /\ \A s : Good(src, s, tree) => Good(src, ItemDone(item, s), r.tree)
    <3>. HIDE DEF r
    <3>. QED
      BY <2>8, <2>9, <2>10
  <2>11. /\ RefsThere(r.src, r.reads)
         /\ \A src : Agrees(src, its, r.src, r.reads) =>
               /\ Agrees(src, its, now, rd)
               /\ \A s : Good(src, s, tree) => Good(src, ItemDone(item, s), r.tree)
    <3>. HIDE DEF r
    <3>. QED
      BY <2>8, <2>10
  <2>. QED
    BY <2>11
<1>. QED
  BY <1>3, <1>4

-----------------------------------------------------------------------------
(* The compile against one from nothing of whatever reads like the sources *)
(* as they are now.                                                        *)

Stage(its, src, n) == Stages([items |-> its, source |-> src])[n]

(* Before item n of these the other compile has come as far, with the same *)
(* tree.                                                                   *)
AtItem(its, now, rd, n, tree) ==
    \A src : Agrees(src, its, now, rd) => Good(src, Stage(its, src, n - 1), tree)

(* In the middle of an item: its inputs before the first one in the queue  *)
(* are done.                                                               *)
InItem(its, now, rd, n, q, tree) ==
    /\ ~Missing(its[n], now, {})
    /\ q = {k \in Resolved(its[n], now, {}) : Min(q) <= k}
    /\ \A src : Agrees(src, its, now, rd) =>
          /\ Good(src, Stage(its, src, n - 1), Stage(its, src, n - 1).tree)
          /\ Good(src, Progress(its[n], Stage(its, src, n - 1))[Min(q) - 1], tree)

(* What is to be removed may be there or not. *)
InRemoval(its, now, rd, n, q, tree) ==
    /\ \A k \in DOMAIN its[n].inputs : its[n].inputs[k] \in DOMAIN tree => k \in q
    /\ \A src : Agrees(src, its, now, rd) =>
          \E old : /\ Good(src, Stage(its, src, n - 1), old)
                   /\ tree = Part(old, DOMAIN tree) /\ DOMAIN tree \subseteq DOMAIN old
                   /\ DOMAIN old \ DOMAIN tree \subseteq ToSet(its[n].inputs)

Going(its, now, rd, n, q, tree) ==
    IF q = {} THEN AtItem(its, now, rd, n, tree)
    ELSE IF its[n].type = "remove" THEN InRemoval(its, now, rd, n, q, tree)
    ELSE InItem(its, now, rd, n, q, tree)


(* Nothing has been read when a compile begins. *)
LEMMA NothingGood ==
  ASSUME NEW its, SoundItems(its), NEW now, IsSource(now)
  PROVE  AtItem(its, now, {}, 1, EmptyTree)
<1>1. IsTree(EmptyTree)
  <2>1. EmptyTree = [x \in DOMAIN EmptyTree |-> EmptyTree[x]] /\ DOMAIN EmptyTree = {}
    BY DEF EmptyTree
  <2>. QED
    BY <2>1 DEF IsTree
<1>2. ASSUME NEW src, Agrees(src, its, now, {})
      PROVE  Good(src, Stage(its, src, 0), EmptyTree)
  <2>1. IsSource(src) /\ Grown(src, src)
    BY <1>2, GrownRefl DEF Agrees
  <2>2. Stage(its, src, 0) = Nothing(src)
    BY StagesIs DEF Stage, SoundItems
  <2>3. Good(src, Nothing(src), EmptyTree)
    BY <1>1, <2>1 DEF Good, IsStage, Nothing
  <2>. QED
    BY <2>2, <2>3
<1>. QED
  BY <1>2 DEF AtItem

(* The item that is done leads to the next. *)
LEMMA ItemLeads ==
  ASSUME NEW its, SoundItems(its), NEW n \in 1 .. Len(its), NEW src, NEW tree,
         Stage(its, src, n - 1).going,
         Good(src, AllInputs(its[n], Stage(its, src, n - 1)), tree)
  PROVE  Good(src, Stage(its, src, n + 1 - 1), tree)
<1>1. Stage(its, src, n) = ItemDone(its[n], Stage(its, src, n - 1))
  BY StagesIs DEF Stage, SoundItems
<1>2. Good(src, ItemDone(its[n], Stage(its, src, n - 1)), tree)
  BY ItemGood
<1>3. n + 1 - 1 = n
  OBVIOUS
<1>. QED
  BY <1>1, <1>2, <1>3

(* The inputs of an item are found. *)
LEMMA ResolveGoes ==
  ASSUME NEW its, SoundItems(its), NEW n \in 1 .. Len(its), its[n].type # "remove",
         NEW now, NEW rd, NEW tree, AtItem(its, now, rd, n, tree),
         NEW o, ~Missing(its[n], now, o)
  PROVE  /\ Resolved(its[n], now, o) = {} => AtItem(its, now, rd, n + 1, tree)
         /\ Resolved(its[n], now, o) # {} => InItem(its, now, rd, n, Resolved(its[n], now, o), tree)
<1>. DEFINE item == its[n]
            q == Resolved(item, now, o)
            st(src) == Stage(its, src, n - 1)
<1>1. n \in DOMAIN its /\ Sound(item) /\ item.inputs \in Seq(ToSet(item.inputs)) /\ Len(item.inputs) \in Nat
  BY DEF SoundItems, Sound, IsItem
<1>2. ~Missing(item, now, {}) /\ q = Resolved(item, now, {})
  <2>1. SameProbes(its, now, now)
    BY DEF SameProbes
  <2>. QED
    BY <1>1, <2>1, SameTodo
<1>3. q \subseteq 1 .. Len(item.inputs)
  BY <1>1 DEF Resolved
<1>4. ASSUME NEW src, Agrees(src, its, now, rd)
      PROVE  /\ Good(src, st(src), tree)
             /\ Good(src, Progress(item, st(src))[0], tree) /\ Todo(item, st(src)) = q
  <2>1. Good(src, st(src), tree)
    BY <1>4 DEF AtItem
  <2>. HIDE DEF st
  <2>. QED
    BY <1>1, <1>4, <2>1, StartsGood
<1>5. ASSUME q = {} PROVE AtItem(its, now, rd, n + 1, tree)
  <2>1. ASSUME NEW src, Agrees(src, its, now, rd)
        PROVE  Good(src, Stage(its, src, n + 1 - 1), tree)
    <3>1. Progress(item, st(src))[Len(item.inputs)] = Progress(item, st(src))[0]
      <4>. HIDE DEF st, q, item
      <4>. QED
        BY <1>1, <1>4, <1>5, <2>1, Idle
    <3>2. Good(src, AllInputs(item, st(src)), tree) /\ st(src).going
      BY <1>4, <2>1, <3>1 DEF AllInputs, Good
    <3>. QED
      BY <3>2, ItemLeads
  <2>. QED
    BY <2>1 DEF AtItem
<1>6. ASSUME q # {} PROVE InItem(its, now, rd, n, q, tree)
  <2>. DEFINE m == Min(q)
  <2>1. m \in q /\ \A k \in q : m <= k
    BY <1>1, <1>3, <1>6, LeastOf DEF Min
  <2>. HIDE DEF m
  <2>2. m \in 1 .. Len(item.inputs) /\ q = {k \in q : m <= k}
    BY <1>3, <2>1
  <2>3. ASSUME NEW src, Agrees(src, its, now, rd)
        PROVE  /\ Good(src, st(src), st(src).tree) /\ Good(src, Progress(item, st(src))[m - 1], tree)
    <3>1. Progress(item, st(src))[m - 1] = Progress(item, st(src))[0]
      <4>1. m - 1 \in 0 .. Len(item.inputs) /\ 0 \in 0 .. Len(item.inputs)
            /\ \A k \in 0 + 1 .. m - 1 : k \notin q
        BY <1>1, <1>3, <2>1, <2>2
      <4>2. Todo(item, st(src)) = q
        BY <1>4, <2>3
      <4>. HIDE DEF st, q, item
      <4>. QED
        BY <1>1, <4>1, <4>2, Idle
    <3>. QED
      BY <1>4, <2>3, <3>1 DEF Good
  <2>4. InItem(its, now, rd, n, q, tree)
    BY <1>2, <2>2, <2>3 DEF InItem, m
  <2>. QED
    BY <2>4
<1>. QED
  BY <1>5, <1>6

(* An input is compiled, and there is another one or not. *)
LEMMA InputGoes ==
  ASSUME NEW its, NEW n \in 1 .. Len(its), NEW q, q # {}, q \subseteq DOMAIN its[n].inputs,
         NEW now, NEW rd, NEW tree, InItem(its, now, rd, n, q, tree),
         NEW c, c = its[n].inputs[Min(q)], NEW after, Compiles(its, n, c, now, rd, after)
  PROVE  LET next == Compiled(its[n], c, now, tree)
         IN  /\ q = {Min(q)} => AtItem(its, WithRefs(c, now), after, n + 1, next)
             /\ q # {Min(q)} => InItem(its, WithRefs(c, now), after, n, q \ {Min(q)}, next)
<1>. DEFINE item == its[n]
            m == Min(q)
            later == WithRefs(c, now)
            next == Compiled(item, c, now, tree)
            st(src) == Stage(its, src, n - 1)
            todo == Resolved(item, now, {})
<1>1. /\ SoundItems(its) /\ n \in DOMAIN its /\ item.type # "remove" /\ IsSource(now)
      /\ c \in ToSet(item.inputs)
  BY DEF Compiles
<1>2. Sound(item) /\ item.inputs \in Seq(ToSet(item.inputs)) /\ Len(item.inputs) \in Nat
  BY <1>1 DEF SoundItems, Sound, IsItem
<1>3. q \subseteq 1 .. Len(item.inputs)
  BY <1>2
<1>4. m \in q /\ \A k \in q : m <= k
  BY <1>2, <1>3, LeastOf DEF Min
<1>5. ~Missing(item, now, {}) /\ q = {k \in todo : m <= k}
  BY DEF InItem
<1>6. SameProbes(its, now, later)
  <2>1. c \in File
    BY <1>1, <1>2, SeesIs
  <2>. QED
    BY <1>1, <2>1, RefsGrow, ProbesGrow
<1>7. ~Missing(item, later, {}) /\ Resolved(item, later, {}) = todo
  BY <1>1, <1>5, <1>6, SameTodo
<1>8. todo \subseteq 1 .. Len(item.inputs)
  BY <1>2 DEF Resolved
<1>9. ASSUME NEW src, Agrees(src, its, later, after)
      PROVE  /\ Good(src, st(src), st(src).tree) /\ Todo(item, st(src)) = todo
             /\ Good(src, Progress(item, st(src))[m], next)
  <2>1. Grown(src, src)
    BY <1>9, GrownRefl DEF Agrees
  <2>2. Agrees(src, its, now, rd)
    BY <1>9, <2>1, InputAgrees
  <2>3. /\ Good(src, st(src), st(src).tree)
        /\ Good(src, Progress(item, st(src))[m - 1], tree)
    BY <2>2 DEF InItem
  <2>. HIDE DEF st
  <2>4. Todo(item, st(src)) = todo
    BY <1>1, <1>5, <2>2, <2>3, StartsGood
  <2>5. m \in Todo(item, st(src)) /\ m \in DOMAIN item.inputs
    BY <1>3, <1>4, <1>5, <2>4
  <2>. HIDE DEF m
  <2>6. c = item.inputs[m]
    BY DEF m
  <2>7. Good(src, Progress(item, st(src))[m], next)
    BY <1>9, <2>3, <2>5, <2>6, NextGood
  <2>. QED
    BY <2>3, <2>4, <2>7
<1>. HIDE DEF st, m, later, next, todo, item
<1>10. ASSUME q = {m} PROVE AtItem(its, later, after, n + 1, next)
  <2>1. ASSUME NEW src, Agrees(src, its, later, after)
        PROVE  Good(src, Stage(its, src, n + 1 - 1), next)
    <3>1. m \in 0 .. Len(item.inputs) /\ Len(item.inputs) \in m .. Len(item.inputs)
          /\ \A k \in m + 1 .. Len(item.inputs) : k \notin todo
      BY <1>2, <1>3, <1>4, <1>5, <1>10
    <3>2. Todo(item, st(src)) = todo /\ st(src).going /\ Good(src, Progress(item, st(src))[m], next)
      BY <1>9, <2>1 DEF Good
    <3>3. Progress(item, st(src))[Len(item.inputs)] = Progress(item, st(src))[m]
      BY <1>2, <3>1, <3>2, Idle
    <3>4. Good(src, AllInputs(item, st(src)), next)
      BY <3>2, <3>3 DEF AllInputs
    <3>. QED
      BY <1>1, <3>2, <3>4, ItemLeads DEF st, item
  <2>. QED
    BY <2>1 DEF AtItem
<1>11. ASSUME q # {m} PROVE InItem(its, later, after, n, q \ {m}, next)
  <2>. DEFINE r == q \ {m}
              p == Min(r)
  <2>1. r # {} /\ r \subseteq 1 .. Len(item.inputs)
    BY <1>3, <1>4, <1>11
  <2>2. p \in r /\ \A k \in r : p <= k
    <3>. HIDE DEF r
    <3>1. r \subseteq Nat /\ r # {}
      BY <1>2, <2>1
    <3>2. \E k \in r : \A j \in r : k <= j
      BY <3>1, LeastOf
    <3>. QED
      BY <3>2 DEF Min
  <2>. HIDE DEF p
  <2>3. p \in 1 .. Len(item.inputs) /\ m \in 1 .. Len(item.inputs) /\ m < p
    BY <1>2, <1>3, <1>4, <2>1, <2>2
  <2>4. r = {k \in todo : p <= k}
    BY <1>3, <1>5, <1>8, <2>2, <2>3
  <2>5. ASSUME NEW src, Agrees(src, its, later, after)
        PROVE  /\ Good(src, st(src), st(src).tree)
               /\ Good(src, Progress(item, st(src))[p - 1], next)
    <3>1. m \in 0 .. Len(item.inputs) /\ p - 1 \in m .. Len(item.inputs)
      BY <1>2, <2>3
    <3>2. \A k \in m + 1 .. p - 1 : k \notin todo
      BY <1>2, <1>3, <1>5, <1>8, <2>2, <2>3
    <3>3. Todo(item, st(src)) = todo /\ Good(src, Progress(item, st(src))[m], next)
      BY <1>9, <2>5
    <3>4. Progress(item, st(src))[p - 1] = Progress(item, st(src))[m]
      BY <1>2, <3>1, <3>2, <3>3, Idle
    <3>. QED
      BY <1>9, <2>5, <3>3, <3>4
  <2>. HIDE DEF r
  <2>6. InItem(its, later, after, n, r, next)
    BY <1>7, <2>4, <2>5 DEF InItem, p, item, st
  <2>. QED
    BY <2>6 DEF r
<1>. QED
  BY <1>10, <1>11 DEF m, later, next, item

(* What is to be removed is there or not. *)
LEMMA RemovalGoes ==
  ASSUME NEW its, SoundItems(its), NEW n \in 1 .. Len(its), its[n].type = "remove",
         NEW now, NEW rd, NEW tree, IsTree(tree), AtItem(its, now, rd, n, tree),
         NEW o, DOMAIN tree \subseteq o
  PROVE  LET q == Resolved(its[n], now, o)
         IN  /\ q = {} => AtItem(its, now, rd, n + 1, tree)
             /\ q # {} => InRemoval(its, now, rd, n, q, tree)
<1>. DEFINE item == its[n]
            q == Resolved(item, now, o)
            st(src) == Stage(its, src, n - 1)
<1>1. n \in DOMAIN its /\ Sound(item) /\ item.inputs \in Seq(ToSet(item.inputs))
  BY DEF SoundItems, Sound, IsItem
<1>2. \A k \in DOMAIN item.inputs : item.inputs[k] \in DOMAIN tree => k \in q
  BY DEF Resolved, There
<1>3. tree = Part(tree, DOMAIN tree)
  BY DEF IsTree, Part
<1>4. ASSUME q = {} PROVE AtItem(its, now, rd, n + 1, tree)
  <2>1. DOMAIN tree \ ToSet(item.inputs) = DOMAIN tree
    BY <1>2, <1>4 DEF ToSet
  <2>2. ASSUME NEW src, Agrees(src, its, now, rd)
        PROVE  Good(src, Stage(its, src, n + 1 - 1), tree)
    <3>1. Good(src, st(src), tree)
      BY <2>2 DEF AtItem
    <3>2. IsStage(st(src)) /\ st(src).going /\ st(src).tree = tree /\ Grown(src, st(src).src)
      BY <3>1 DEF Good
    <3>. HIDE DEF st
    <3>3. LET done == AllInputs(item, st(src))
          IN  /\ IsStage(done) /\ done.going /\ done.src = st(src).src
              /\ done.tree = Part(st(src).tree, DOMAIN st(src).tree \ ToSet(item.inputs))
      BY <1>1, <3>2, RemoveAll
    <3>4. Good(src, AllInputs(item, st(src)), tree)
      BY <1>3, <2>1, <3>2, <3>3 DEF Good
    <3>. QED
      BY <3>2, <3>4, ItemLeads DEF st
  <2>. QED
    BY <2>2 DEF AtItem
<1>5. InRemoval(its, now, rd, n, q, tree)
  BY <1>2, <1>3 DEF InRemoval, AtItem
<1>. QED
  BY <1>4, <1>5

(* One of its inputs is removed. *)
LEMMA RemovedGoes ==
  ASSUME NEW its, SoundItems(its), NEW n \in 1 .. Len(its), its[n].type = "remove",
         NEW q, q # {}, q \subseteq DOMAIN its[n].inputs,
         NEW now, NEW rd, NEW tree, IsTree(tree), InRemoval(its, now, rd, n, q, tree),
         NEW c, c = its[n].inputs[Min(q)]
  PROVE  LET next == Part(tree, DOMAIN tree \ {c})
         IN  /\ q = {Min(q)} => AtItem(its, now, rd, n + 1, next)
             /\ q # {Min(q)} => InRemoval(its, now, rd, n, q \ {Min(q)}, next)
<1>. DEFINE item == its[n]
            m == Min(q)
            next == Part(tree, DOMAIN tree \ {c})
            st(src) == Stage(its, src, n - 1)
<1>1. n \in DOMAIN its /\ Sound(item) /\ item.inputs \in Seq(ToSet(item.inputs))
  BY DEF SoundItems, Sound, IsItem
<1>2. m \in q /\ m \in DOMAIN item.inputs
  <2>1. q \subseteq Nat
    BY <1>1
  <2>. QED
    BY <2>1, LeastOf DEF Min
<1>3. c = item.inputs[m] /\ c \in ToSet(item.inputs)
  BY <1>2 DEF ToSet
<1>4. DOMAIN next = DOMAIN tree \ {c}
  BY DEF Part
<1>5. \A k \in DOMAIN item.inputs : item.inputs[k] \in DOMAIN next => k \in q \ {m}
  BY <1>2, <1>3, <1>4 DEF InRemoval
<1>6. ASSUME NEW src, Agrees(src, its, now, rd)
      PROVE  \E old : /\ Good(src, st(src), old)
                      /\ next = Part(old, DOMAIN next) /\ DOMAIN next \subseteq DOMAIN old
                      /\ DOMAIN old \ DOMAIN next \subseteq ToSet(item.inputs)
  <2>1. PICK old : /\ Good(src, st(src), old)
                   /\ tree = Part(old, DOMAIN tree) /\ DOMAIN tree \subseteq DOMAIN old
                   /\ DOMAIN old \ DOMAIN tree \subseteq ToSet(item.inputs)
    BY <1>6 DEF InRemoval
  <2>2. \A x \in DOMAIN tree : tree[x] = old[x]
    BY <2>1 DEF Part
  <2>3. next = Part(old, DOMAIN next)
    BY <2>1, <2>2 DEF Part
  <2>4. DOMAIN next \subseteq DOMAIN old /\ DOMAIN old \ DOMAIN next \subseteq ToSet(item.inputs)
    BY <1>3, <1>4, <2>1
  <2>. QED
    BY <2>1, <2>3, <2>4
<1>. HIDE DEF st, m, next
<1>7. ASSUME q = {m} PROVE AtItem(its, now, rd, n + 1, next)
  <2>1. ASSUME NEW src, Agrees(src, its, now, rd)
        PROVE  Good(src, Stage(its, src, n + 1 - 1), next)
    <3>1. PICK old : /\ Good(src, st(src), old)
                     /\ next = Part(old, DOMAIN next) /\ DOMAIN next \subseteq DOMAIN old
                     /\ DOMAIN old \ DOMAIN next \subseteq ToSet(item.inputs)
      BY <1>6, <2>1
    <3>2. \A x \in ToSet(item.inputs) : x \notin DOMAIN next
      BY <1>5, <1>7 DEF ToSet
    <3>3. DOMAIN next = DOMAIN old \ ToSet(item.inputs)
      BY <3>1, <3>2
    <3>4. IsStage(st(src)) /\ st(src).going /\ st(src).tree = old /\ Grown(src, st(src).src)
      BY <3>1 DEF Good
    <3>5. LET done == AllInputs(item, st(src))
          IN  /\ IsStage(done) /\ done.going /\ done.src = st(src).src
              /\ done.tree = Part(st(src).tree, DOMAIN st(src).tree \ ToSet(item.inputs))
      BY <1>1, <3>4, RemoveAll
    <3>6. Good(src, AllInputs(item, st(src)), next)
      BY <3>1, <3>3, <3>4, <3>5 DEF Good
    <3>. QED
      BY <3>4, <3>6, ItemLeads DEF st
  <2>. QED
    BY <2>1 DEF AtItem
<1>8. InRemoval(its, now, rd, n, q \ {m}, next)
  BY <1>5, <1>6 DEF InRemoval, st
<1>. QED
  BY <1>7, <1>8 DEF m, next

(* A worker has compiled an item. *)
LEMMA WorkerLeads ==
  ASSUME NEW its, SoundItems(its), NEW n \in 1 .. Len(its), NEW now, IsSource(now),
         NEW rd, rd \subseteq Name, RefsThere(now, rd), NEW tree, IsTree(tree),
         AtItem(its, now, rd, n, tree), AllInputs(its[n], Came(now, tree, rd)).going
  PROVE  LET r == AllInputs(its[n], Came(now, tree, rd))
         IN  RefsThere(r.src, r.reads) /\ AtItem(its, r.src, r.reads, n + 1, r.tree)
<1>. DEFINE r == AllInputs(its[n], Came(now, tree, rd))
<1>1. n \in DOMAIN its
  BY DEF SoundItems
<1>2. /\ RefsThere(r.src, r.reads)
      /\ \A src : Agrees(src, its, r.src, r.reads) =>
            /\ Agrees(src, its, now, rd)
            /\ \A s : Good(src, s, tree) => Good(src, ItemDone(its[n], s), r.tree)
  BY <1>1, WorkerGoes
<1>. HIDE DEF r
<1>3. ASSUME NEW src, Agrees(src, its, r.src, r.reads)
      PROVE  Good(src, Stage(its, src, n + 1 - 1), r.tree)
  <2>1. Good(src, Stage(its, src, n - 1), tree)
    BY <1>2, <1>3 DEF AtItem
  <2>2. Stage(its, src, n) = ItemDone(its[n], Stage(its, src, n - 1))
    BY StagesIs DEF Stage, SoundItems
  <2>3. n + 1 - 1 = n
    OBVIOUS
  <2>. QED
    BY <1>2, <1>3, <2>1, <2>2, <2>3
<1>4. RefsThere(r.src, r.reads) /\ AtItem(its, r.src, r.reads, n + 1, r.tree)
  BY <1>2, <1>3 DEF AtItem
<1>. QED
  BY <1>4 DEF r

(* After the last item, whatever reads like the record compiles to what    *)
(* was made.                                                               *)
LEMMA RecordTells ==
  ASSUME NEW its, SoundItems(its), NEW now, IsSource(now), NEW rd, rd \subseteq Name, NEW tree,
         AtItem(its, now, rd, Len(its) + 1, tree),
         NEW src, IsSource(src), Part(src, Key) = Part(now, Key),
         NEW deps, deps = Part(now, rd \ Key), Part(src, DOMAIN deps) = deps,
         Probes(its, src) = Probes(its, now)
  PROVE  FromNothing([items |-> its, source |-> src]) = tree
<1>1. DOMAIN src = Name /\ DOMAIN now = Name /\ Key \subseteq Name
  BY DEF IsSource, Name
<1>2. ASSUME NEW x \in Key PROVE src[x] = now[x]
  <2>1. Part(src, Key)[x] = src[x] /\ Part(now, Key)[x] = now[x]
    BY <1>1 DEF Part
  <2>. QED
    BY <2>1
<1>3. DOMAIN deps = rd \ Key
  BY <1>1 DEF Part
<1>4. ASSUME NEW x \in rd \ Key PROVE src[x] = now[x]
  <2>1. Part(src, DOMAIN deps)[x] = src[x] /\ deps[x] = now[x]
    BY <1>1, <1>3 DEF Part
  <2>. QED
    BY <2>1
<1>5. ASSUME NEW i \in DOMAIN its, NEW c \in Candidates(its[i])
      PROVE  ProbeOf(its[i], c, src) = ProbeOf(its[i], c, now)
  <2>1. Probes(its, src)[i][c] = ProbeOf(its[i], c, src) /\ Probes(its, now)[i][c] = ProbeOf(its[i], c, now)
    BY DEF Probes
  <2>. QED
    BY <2>1
<1>6. Agrees(src, its, now, rd)
  BY <1>2, <1>4, <1>5 DEF Agrees, SameProbes
<1>7. Good(src, Stage(its, src, Len(its) + 1 - 1), tree) /\ Len(its) + 1 - 1 = Len(its)
  BY <1>6 DEF AtItem, SoundItems
<1>8. FromNothing([items |-> its, source |-> src]) = Stage(its, src, Len(its)).tree
  BY StagesIs DEF Stage, SoundItems
<1>. QED
  BY <1>7, <1>8 DEF Good

-----------------------------------------------------------------------------
(* The invariant. *)

Entries(s) == \E T : s \in Seq(T) /\ \A e \in T : Entry(e)

Kinds ==
    /\ project \in Projects /\ settings \in Settings /\ items \in project.documents
    /\ IsSource(source) /\ reads \subseteq Name /\ IsTree(temp)
    /\ phase \in {"off", "items", "attempt", "worker"} /\ at \in Nat
    /\ Entries(made) /\ Entries(record.made)
    /\ evaluator.recorded \subseteq Name \ Created
    /\ Loads(evaluator.loaded) \subseteq evaluator.recorded

Places ==
    /\ phase = "off" => temp = EmptyTree /\ reads = {}
    /\ phase \in {"items", "worker"} => at \in 1 .. Len(items) + 1
    /\ queue # {} => phase = "items" /\ at <= Len(items) /\ queue \subseteq DOMAIN items[at].inputs
    /\ phase # "off" =>
          /\ run = [force |-> run.force, source |-> run.source, tolerated |-> run.tolerated]
          /\ Grown(run.source, source)
    /\ phase # "off" /\ ~run.tolerated => RefsThere(source, reads)

Goes ==
    phase \in {"items", "worker"} /\ ~run.tolerated => Going(items, source, reads, at, queue, temp)

(* Sources that read like the record give what it was made with.           *)
ReadsLike(src) ==
    /\ IsSource(src)
    /\ Part(src, Key) = record.keys /\ Part(src, DOMAIN record.deps) = record.deps
    /\ Probes(record.items, src) = record.probes
Certified ==
    record.settings \in Settings =>
        /\ ~partial => \A src : ReadsLike(src) =>
              FromNothing([items |-> record.items, source |-> src]) = record.output
        /\ IsTree(record.output) /\ DOMAIN compiled \subseteq DOMAIN record.output

Settles == settled => phase = "off" /\ IsFresh

Inv == Kinds /\ Places /\ Goes /\ Certified /\ Settles

LEMMA ExactWhenFresh ==
  ASSUME Inv', IsFresh', ~partial'
  PROVE  compiled' = FromNothing([items |-> items', source |-> source'])
<1>1. record'.settings = settings' /\ settings' \in Settings /\ record'.items = items'
      /\ compiled' = record'.output
  BY DEF Inv, Kinds, IsFresh
<1>2. ReadsLike(source)'
  BY DEF ReadsLike, Inv, Kinds, IsFresh
<1>. QED
  BY <1>1, <1>2 DEF Inv, Certified

LEMMA DocumentsSound ==
  ASSUME Tidy, Kinds
  PROVE  SoundItems(items) /\ Len(items) \in Nat
<1>1. project \in Projects /\ items \in project.documents
  BY DEF Kinds
<1>2. /\ \A i \in DOMAIN items : IsItem(items[i]) /\ TidyItem(items[i])
      /\ items \in Seq(ToSet(items)) /\ \A f \in File : TidyProgram(f)
  BY <1>1, ItemsAssumption DEF Tidy
<1>3. SoundItems(items)
  BY <1>2 DEF SoundItems, Sound
<1>. QED
  BY <1>2, <1>3

LEMMA NothingFine == IsTree(EmptyTree) /\ Entries(<< >>) /\ Loads({}) = {}
<1>1. EmptyTree = [x \in DOMAIN EmptyTree |-> EmptyTree[x]] /\ DOMAIN EmptyTree = {}
  BY DEF EmptyTree
<1>2. << >> \in Seq({}) /\ \A e \in {} : Entry(e)
  OBVIOUS
<1>. QED
  BY <1>1, <1>2 DEF IsTree, Entries, Loads

LEMMA CertifiedStays ==
  ASSUME Certified, UNCHANGED << record, partial >>, DOMAIN compiled' \subseteq DOMAIN compiled
  PROVE  Certified'
BY DEF Certified, ReadsLike

(* A compile that ends without success leaves what is certified alone.     *)
LEMMA EndKeeps ==
  ASSUME Inv, phase # "off", End, IsSource(source'),
         UNCHANGED << project, settings, items, result, history >>
  PROVE  Inv'
<1>. USE DEF Inv
<1>1. Kinds'
  BY NothingFine DEF Kinds, End, result, NoEvaluator
<1>2. Places' /\ Goes'
  BY DEF Places, Goes, End
<1>3. Certified'
  BY CertifiedStays DEF result, history
<1>4. Settles'
  BY DEF Settles, history
<1>. QED
  BY <1>1, <1>2, <1>3, <1>4

LEMMA InitInv == Init => Inv
<1>. SUFFICES ASSUME Init PROVE Inv
  OBVIOUS
<1>1. IsSource(source)
  BY DEF Init, IsSource
<1>2. Kinds
  BY <1>1, NothingFine DEF Kinds, Init, NoRecord, NoEvaluator
<1>3. Places /\ Goes /\ Settles
  BY DEF Places, Goes, Settles, Init
<1>4. Certified
  BY ItemsAssumption DEF Certified, Init, NoRecord
<1>. QED
  BY <1>2, <1>3, <1>4 DEF Inv

LEMMA EditKeeps ==
  ASSUME Inv, Edit
  PROVE  Inv'
<1>. USE DEF Inv
<1>1. phase = "off" /\ phase' = "off" /\ queue = {} /\ queue' = {} /\ settled' = FALSE
  BY DEF Edit, place, Places
<1>2. project \in Projects
  BY DEF Kinds
<1>3. IsSource(source')
  <2>1. CASE source' = source
    BY <2>1 DEF Kinds
  <2>2. CASE \E n \in DOMAIN project.values : \E v \in project.values[n] \ {source[n]} :
               source' = [source EXCEPT ![n] = v]
    <3>1. PICK n \in DOMAIN project.values : \E v : source' = [source EXCEPT ![n] = v]
      BY <2>2
    <3>2. DOMAIN source = Name /\ IsSource(source)
      BY DEF Kinds, IsSource
    <3>. QED
      BY <3>1, <3>2 DEF IsSource
  <2>. QED
    BY <2>1, <2>2 DEF Edit
<1>4. Kinds'
  BY <1>2, <1>3 DEF Kinds, Edit, result, target, place
<1>5. Places' /\ Goes'
  BY <1>1 DEF Places, Goes, Edit, target
<1>6. Certified'
  BY CertifiedStays DEF Edit, result
<1>7. Settles'
  BY <1>1 DEF Settles
<1>. QED
  BY <1>4, <1>5, <1>6, <1>7

LEMMA TamperKeeps ==
  ASSUME Inv, Tamper
  PROVE  Inv'
<1>. USE DEF Inv
<1>1. phase = "off" /\ phase' = "off" /\ queue = {} /\ queue' = {} /\ settled' = FALSE
  BY DEF Tamper, place, Places
<1>2. Entries(record'.made)
  <2>1. CASE record' = record
    BY <2>1 DEF Kinds
  <2>2. CASE record' = NoRecord
    <3>1. NoRecord.made = << >>
      BY DEF NoRecord
    <3>. QED
      BY <2>2, <3>1, NothingFine
  <2>. QED
    BY <2>1, <2>2 DEF Tamper
<1>3. Kinds'
  BY <1>2 DEF Kinds, Tamper, sources, target, place
<1>4. Places' /\ Goes'
  BY <1>1 DEF Places, Goes, Tamper, target
<1>5. Certified'
  <2>1. CASE record' = record
    <3>1. DOMAIN compiled' \subseteq DOMAIN compiled
      BY <2>1 DEF Tamper, Part
    <3>. QED
      BY <2>1, <3>1, CertifiedStays DEF Tamper
  <2>2. CASE record' = NoRecord
    BY <2>2, ItemsAssumption DEF Certified, NoRecord
  <2>. QED
    BY <2>1, <2>2 DEF Tamper
<1>6. Settles'
  BY <1>1 DEF Settles
<1>. QED
  BY <1>3, <1>4, <1>5, <1>6

LEMMA StartKeeps ==
  ASSUME Tidy, Inv, Start
  PROVE  Inv'
<1>. USE DEF Inv
<1>1. SoundItems(items) /\ Len(items) \in Nat /\ IsSource(source) /\ items' = items /\ source' = source
  BY DocumentsSound DEF Kinds, Start, sources
<1>2. phase = "off" /\ temp = EmptyTree /\ reads = {} /\ queue = {} /\ temp' = temp /\ reads' = reads
      /\ queue' = queue /\ settled' = FALSE /\ at' = 1
  BY DEF Start, Places, target
<1>3. PICK force \in BOOLEAN : run' = [force |-> force, source |-> source, tolerated |-> FALSE]
  BY DEF Start
<1>4. phase' \in {"items", "attempt"}
  BY DEF Start
<1>5. Kinds'
  BY <1>1, <1>2, <1>4 DEF Kinds, Start, sources, result, target
<1>6. Places'
  <2>1. Grown(source, source) /\ RefsThere(source, {})
    BY <1>1, GrownRefl DEF RefsThere
  <2>. QED
    BY <1>1, <1>2, <1>3, <1>4, <2>1 DEF Places
<1>7. Goes'
  <2>1. AtItem(items, source, {}, 1, EmptyTree)
    BY <1>1, NothingGood
  <2>. QED
    BY <1>1, <1>2, <2>1 DEF Goes, Going
<1>8. Certified'
  BY CertifiedStays DEF Start, result
<1>9. Settles'
  BY <1>2 DEF Settles
<1>. QED
  BY <1>5, <1>6, <1>7, <1>8, <1>9

LEMMA AttemptKeeps ==
  ASSUME Tidy, Inv, Attempt
  PROVE  Inv'
<1>. USE DEF Inv
<1>1. SoundItems(items) /\ Len(items) \in Nat /\ IsSource(source) /\ items' = items /\ source' = source
  BY DocumentsSound DEF Kinds, Attempt, sources
<1>2. phase = "attempt" /\ phase' = "worker" /\ temp' = EmptyTree /\ reads' = {} /\ at' = 1
      /\ queue = {} /\ queue' = {} /\ run' = run
  BY DEF Attempt, Places
<1>3. Kinds'
  BY <1>1, <1>2, NothingFine DEF Kinds, Attempt, sources, result
<1>4. Places'
  BY <1>1, <1>2 DEF Places, RefsThere
<1>5. Goes'
  <2>1. AtItem(items, source, {}, 1, EmptyTree)
    BY <1>1, NothingGood
  <2>. QED
    BY <1>1, <1>2, <2>1 DEF Goes, Going
<1>6. Certified'
  BY CertifiedStays DEF Attempt, result, history
<1>7. Settles'
  BY <1>2 DEF Settles, Attempt, history
<1>. QED
  BY <1>3, <1>4, <1>5, <1>6, <1>7

LEMMA WorkerDiesKeeps ==
  ASSUME Inv, WorkerDies
  PROVE  Inv'
<1>. USE DEF Inv
<1>1. phase = "worker" /\ UNCHANGED << sources, result, history >> /\ IsSource(source')
  BY DEF WorkerDies, Working, Kinds, sources
<1>2. CASE MayRetry
  <2>1. phase' = "attempt" /\ UNCHANGED << run, at, queue, attempts, target, matched, evaluator >>
    BY <1>2 DEF WorkerDies
  <2>2. Kinds'
    BY <1>1, <2>1 DEF Kinds, sources, result, target
  <2>3. Places' /\ Goes'
    BY <1>1, <2>1 DEF Places, Goes, sources, target
  <2>4. Certified'
    BY <1>1, CertifiedStays DEF result, history
  <2>5. Settles'
    BY <1>1 DEF Settles, history
  <2>. QED
    BY <2>2, <2>3, <2>4, <2>5
<1>3. CASE ~MayRetry
  BY <1>1, <1>3, EndKeeps DEF WorkerDies, sources
<1>. QED
  BY <1>2, <1>3

LEMMA StopsKeep ==
  ASSUME Inv, WorkerTimesOut \/ Interrupt
  PROVE  Inv'
<1>1. phase # "off" /\ End /\ UNCHANGED << sources, result, history >> /\ IsSource(source')
  BY DEF WorkerTimesOut, Interrupt, Working, Inv, Kinds, sources
<1>. QED
  BY <1>1, EndKeeps DEF sources

(* An item that fails, whatever it has written or read. *)
LEMMA FailKeeps ==
  ASSUME Tidy, Inv, Compiling, NEW tree, NEW seen, NEW tried, NEW ev,
         FailItem(tree, seen, tried, ev), IsTree(tree), seen \subseteq Name,
         ev.recorded \subseteq Name \ Created, Loads(ev.loaded) \subseteq ev.recorded,
         Grown(source, source'), UNCHANGED << project, settings, items, result, history >>
  PROVE  Inv'
<1>. USE DEF Inv
<1>1. phase = "items" /\ at \in 1 .. Len(items) /\ Len(items) \in Nat /\ IsSource(source')
  BY DocumentsSound DEF Compiling, Places, Grown
<1>2. CASE Item.tolerant
  <2>1. /\ at' = at + 1 /\ queue' = {} /\ run' = [run EXCEPT !.tolerated = TRUE]
        /\ temp' = tree /\ reads' = reads \cup seen /\ evaluator' = ev /\ UNCHANGED << phase, made >>
    BY <1>2 DEF FailItem, NextItem
  <2>2. run' = [force |-> run.force, source |-> run.source, tolerated |-> TRUE] /\ Grown(run.source, source')
    BY <1>1, <2>1, GrownTrans DEF Places
  <2>3. Kinds'
    BY <1>1, <2>1 DEF Kinds, result
  <2>4. Places' /\ Goes'
    <3>1. run'.tolerated /\ run' = [force |-> run'.force, source |-> run'.source, tolerated |-> run'.tolerated]
          /\ Grown(run'.source, source')
      BY <2>2
    <3>2. phase' = "items" /\ at' \in 1 .. Len(items') + 1 /\ queue' = {}
      BY <1>1, <2>1
    <3>. QED
      BY <3>1, <3>2 DEF Places, Goes
  <2>5. Certified'
    BY CertifiedStays DEF result, history
  <2>6. Settles'
    BY <1>1 DEF Settles, history
  <2>. QED
    BY <2>3, <2>4, <2>5, <2>6
<1>3. CASE ~Item.tolerant
  BY <1>1, <1>3, EndKeeps DEF FailItem
<1>. QED
  BY <1>2, <1>3

LEMMA ResolveKeeps ==
  ASSUME Tidy, Inv, Resolve
  PROVE  Inv'
<1>. USE DEF Inv
<1>1. /\ Compiling /\ queue = {} /\ phase = "items" /\ at \in 1 .. Len(items) /\ Len(items) \in Nat
      /\ SoundItems(items) /\ IsSource(source) /\ IsTree(temp)
      /\ UNCHANGED << project, settings, items, source, record, compiled >>
      /\ UNCHANGED result /\ UNCHANGED history /\ Item = items[at]
  BY DocumentsSound DEF Resolve, Compiling, Places, Kinds, sources, result, Item
<1>2. CASE Missing(Item, source, Reachable)
  <2>1. FailItem(temp, {}, matched, evaluator) /\ Grown(source, source')
    BY <1>1, <1>2, GrownRefl DEF Resolve
  <2>2. /\ evaluator.recorded \subseteq Name \ Created
        /\ Loads(evaluator.loaded) \subseteq evaluator.recorded
    BY DEF Kinds
  <2>. QED
    BY <1>1, <2>1, <2>2, FailKeeps
<1>3. CASE ~Missing(Item, source, Reachable)
  <2>. DEFINE q == Resolved(Item, source, Reachable)
  <2>1. /\ IF q = {} THEN at' = at + 1 /\ queue' = {} ELSE queue' = q /\ at' = at
        /\ UNCHANGED << phase, run, target, evaluator >>
    BY <1>3 DEF Resolve, NextItem
  <2>2. q \subseteq DOMAIN items[at].inputs
    BY <1>1 DEF Resolved
  <2>3. ASSUME ~run.tolerated
        PROVE  /\ q = {} => AtItem(items, source, reads, at + 1, temp)
               /\ q # {} => Going(items, source, reads, at, q, temp)
    <3>1. AtItem(items, source, reads, at, temp)
      BY <1>1, <2>3 DEF Goes, Going
    <3>2. CASE Item.type = "remove"
      <4>1. DOMAIN temp \subseteq Reachable
        BY DEF Reachable
      <4>2. /\ q = {} => AtItem(items, source, reads, at + 1, temp)
            /\ q # {} => InRemoval(items, source, reads, at, q, temp)
        BY <1>1, <3>1, <3>2, <4>1, RemovalGoes
      <4>. QED
        BY <1>1, <3>2, <4>2 DEF Going
    <3>3. CASE Item.type # "remove"
      <4>1. /\ q = {} => AtItem(items, source, reads, at + 1, temp)
            /\ q # {} => InItem(items, source, reads, at, q, temp)
        BY <1>1, <1>3, <3>1, <3>3, ResolveGoes
      <4>. QED
        BY <1>1, <3>3, <4>1 DEF Going
    <3>. QED
      BY <3>2, <3>3
  <2>. HIDE DEF q
  <2>4. Kinds'
    BY <1>1, <2>1 DEF Kinds, target
  <2>5. Places'
    BY <1>1, <2>1, <2>2 DEF Places, target
  <2>6. Goes'
    BY <1>1, <2>1, <2>3 DEF Goes, Going, target
  <2>7. Certified'
    BY <1>1, CertifiedStays DEF history
  <2>8. Settles'
    BY <1>1 DEF Settles, history
  <2>. QED
    BY <2>4, <2>5, <2>6, <2>7, <2>8
<1>. QED
  BY <1>2, <1>3

(* An input is done that the compile from nothing does as well. *)
LEMMA TakenKeeps ==
  ASSUME Tidy, Inv, Compiling, queue # {}, Taken,
         IsSource(source') /\ Grown(source, source'), IsTree(temp'), reads' \subseteq Name, Entries(made'),
         evaluator'.recorded \subseteq Name \ Created, Loads(evaluator'.loaded) \subseteq evaluator'.recorded,
         RefsThere(source, reads) => RefsThere(source', reads'),
         RefsThere(source, reads) /\ Going(items, source, reads, at, queue, temp) =>
            /\ queue = {Min(queue)} => AtItem(items, source', reads', at + 1, temp')
            /\ queue # {Min(queue)} => Going(items, source', reads', at, queue \ {Min(queue)}, temp'),
         UNCHANGED << project, settings, items, record >>, UNCHANGED history,
         DOMAIN compiled' \subseteq DOMAIN compiled
  PROVE  Inv'
<1>. USE DEF Inv
<1>1. phase = "items" /\ at \in 1 .. Len(items) /\ Len(items) \in Nat
  BY DocumentsSound DEF Compiling, Places
<1>2. /\ UNCHANGED << phase, run >>
      /\ IF queue = {Min(queue)} THEN at' = at + 1 /\ queue' = {}
         ELSE at' = at /\ queue' = queue \ {Min(queue)} /\ queue' # {}
  BY DEF Taken, NextItem
<1>3. Kinds'
  BY <1>1, <1>2 DEF Kinds
<1>4. Places'
  <2>1. Grown(run.source, source')
    BY <1>1, GrownTrans DEF Places
  <2>. QED
    BY <1>1, <1>2, <2>1 DEF Places
<1>5. Goes'
  <2>1. ~run.tolerated => RefsThere(source, reads) /\ Going(items, source, reads, at, queue, temp)
    BY <1>1 DEF Goes, Places
  <2>2. ~run.tolerated => Going(items', source', reads', at', queue', temp')
    BY <1>2, <2>1 DEF Going
  <2>. QED
    BY <1>2, <2>2 DEF Goes
<1>6. Certified'
  BY CertifiedStays DEF history
<1>7. Settles'
  BY <1>1 DEF Settles, history
<1>. QED
  BY <1>3, <1>4, <1>5, <1>6, <1>7

(* The input that is next. *)
AtInput ==
    /\ Compiling /\ queue # {} /\ phase = "items" /\ at \in 1 .. Len(items) /\ Len(items) \in Nat
    /\ SoundItems(items) /\ IsSource(source) /\ IsTree(temp) /\ reads \subseteq Name
    /\ Item = items[at] /\ at \in DOMAIN items /\ queue \subseteq DOMAIN Item.inputs
    /\ Sound(Item) /\ Input = Item.inputs[Min(queue)] /\ Input \in ToSet(Item.inputs)
    /\ Entries(made) /\ evaluator.recorded \subseteq Name \ Created
    /\ Loads(evaluator.loaded) \subseteq evaluator.recorded

LEMMA TakingIs ==
  ASSUME Tidy, Inv, NEW types, Taking(types)
  PROVE  AtInput
<1>1. /\ Compiling /\ queue # {} /\ phase = "items" /\ at \in 1 .. Len(items) /\ Len(items) \in Nat
      /\ SoundItems(items) /\ Item = items[at] /\ at \in DOMAIN items /\ queue \subseteq DOMAIN Item.inputs
  BY DocumentsSound DEF Inv, Taking, Compiling, Places, Item, SoundItems
<1>2. Sound(Item) /\ Item.inputs \in Seq(ToSet(Item.inputs))
  BY <1>1 DEF SoundItems, Sound, IsItem
<1>3. Input = Item.inputs[Min(queue)] /\ Input \in ToSet(Item.inputs)
  <2>1. queue \subseteq Nat /\ queue # {}
    BY <1>1, <1>2
  <2>2. Min(queue) \in queue
    BY <2>1, LeastOf DEF Min
  <2>. QED
    BY <1>1, <2>2 DEF Input, ToSet
<1>. QED
  BY <1>1, <1>2, <1>3 DEF AtInput, Inv, Kinds

(* An input that is there and does not fail, compiled or restored. *)
LEMMA DoneKeeps ==
  ASSUME Tidy, Inv, AtInput, Item.type # "remove", ~Fails(Item, Input, source), Taken,
         source' = WithRefs(Input, source), temp' = Compiled(Item, Input, source, temp),
         reads \cup (Observed(Item, Input, source) \ Key) \subseteq reads', reads' \subseteq Name,
         RefsThere(source, reads) => RefsThere(source', reads'), Entries(made'),
         evaluator'.recorded \subseteq Name \ Created, Loads(evaluator'.loaded) \subseteq evaluator'.recorded,
         UNCHANGED << project, settings, items, result, history >>
  PROVE  Inv'
<1>. DEFINE c == Input
<1>1. /\ Compiling /\ queue # {} /\ at \in 1 .. Len(items) /\ SoundItems(items) /\ IsSource(source)
      /\ IsTree(temp) /\ Item = items[at] /\ at \in DOMAIN items /\ queue \subseteq DOMAIN Item.inputs
      /\ Sound(Item) /\ c = Item.inputs[Min(queue)] /\ c \in ToSet(Item.inputs)
  BY DEF AtInput
<1>. HIDE DEF c
<1>2. IsSource(source') /\ Grown(source, source') /\ IsTree(temp')
  <2>1. c \in File
    BY <1>1, SeesIs
  <2>. QED
    BY <1>1, <2>1, RefsGrow, CompiledIsTree DEF c
<1>3. ASSUME RefsThere(source, reads), Going(items, source, reads, at, queue, temp)
      PROVE  /\ queue = {Min(queue)} => AtItem(items, source', reads', at + 1, temp')
             /\ queue # {Min(queue)} => Going(items, source', reads', at, queue \ {Min(queue)}, temp')
  <2>1. InItem(items, source, reads, at, queue, temp)
    BY <1>1, <1>3 DEF Going
  <2>2. Compiles(items, at, c, source, reads, reads')
    BY <1>1, <1>3 DEF Compiles, c
  <2>3. /\ queue = {Min(queue)} => AtItem(items, source', reads', at + 1, temp')
        /\ queue # {Min(queue)} => InItem(items, source', reads', at, queue \ {Min(queue)}, temp')
    BY <1>1, <2>1, <2>2, InputGoes DEF c
  <2>4. queue # {Min(queue)} => queue \ {Min(queue)} # {}
    BY <1>1
  <2>. QED
    BY <1>1, <2>3, <2>4 DEF Going
<1>4. UNCHANGED << project, settings, items, record >> /\ UNCHANGED history /\ DOMAIN compiled' \subseteq DOMAIN compiled
  BY DEF result
<1>. QED
  BY <1>1, <1>2, <1>3, <1>4, TakenKeeps

LEMMA CompileInputKeeps ==
  ASSUME Tidy, Inv, CompileInput
  PROVE  Inv'
<1>. DEFINE c == Input
            tree == Compiled(Item, c, source, temp)
            seen == Observed(Item, c, source)
<1>1. AtInput
  BY TakingIs DEF CompileInput
<1>2. /\ SoundItems(items) /\ IsSource(source) /\ IsTree(temp) /\ reads \subseteq Name
      /\ Item = items[at] /\ at \in 1 .. Len(items) /\ queue # {} /\ queue \subseteq DOMAIN Item.inputs
      /\ Sound(Item) /\ c = Item.inputs[Min(queue)] /\ c \in ToSet(Item.inputs) /\ Compiling
      /\ UNCHANGED << project, settings, items, record >> /\ UNCHANGED history
  BY <1>1 DEF AtInput, CompileInput
<1>4. IsTree(tree) /\ Grown(source, Leaves(Item, c, source)) /\ seen \subseteq Name
  BY <1>2, CompiledIsTree, InputTyped
<1>5. /\ Entries(made) /\ evaluator.recorded \subseteq Name \ Created
      /\ Loads(evaluator.loaded) \subseteq evaluator.recorded
  BY <1>1 DEF AtInput
<1>6. /\ source' = Leaves(Item, c, source)
      /\ compiled' = IF Item.type = "remove" THEN Part(compiled, DOMAIN compiled \ {c}) ELSE compiled
      /\ IF Fails(Item, c, source) THEN FailItem(tree, seen, matched, evaluator)
         ELSE /\ temp' = tree /\ reads' = reads \cup seen
              /\ Taken /\ UNCHANGED << made, matched, evaluator >>
  BY DEF CompileInput
<1>7. IsSource(source') /\ Grown(source, source')
  BY <1>4, <1>6 DEF Grown
<1>. HIDE DEF c, tree, seen
<1>8. CASE Fails(Item, c, source)
  <2>1. Item.type # "remove"
    BY <1>8 DEF Fails
  <2>2. UNCHANGED result
    BY <1>2, <1>6, <2>1 DEF result
  <2>. QED
    BY <1>2, <1>4, <1>5, <1>6, <1>7, <1>8, <2>2, FailKeeps
<1>9. CASE ~Fails(Item, c, source) /\ Item.type = "remove"
  <2>1. source' = source /\ temp' = Part(temp, DOMAIN temp \ {c}) /\ reads' = reads
    BY <1>6, <1>9 DEF tree, seen, Observed, Compiled, Leaves
  <2>2. DOMAIN compiled' \subseteq DOMAIN compiled
    BY <1>6, <1>9 DEF Part
  <2>3. ASSUME Going(items, source, reads, at, queue, temp)
        PROVE  /\ queue = {Min(queue)} => AtItem(items, source', reads', at + 1, temp')
               /\ queue # {Min(queue)} => Going(items, source', reads', at, queue \ {Min(queue)}, temp')
    <3>1. InRemoval(items, source, reads, at, queue, temp)
      BY <1>2, <1>9, <2>3 DEF Going
    <3>2. /\ queue = {Min(queue)} => AtItem(items, source, reads, at + 1, temp')
          /\ queue # {Min(queue)} => InRemoval(items, source, reads, at, queue \ {Min(queue)}, temp')
      BY <1>2, <1>9, <2>1, <3>1, RemovedGoes
    <3>3. queue # {Min(queue)} => queue \ {Min(queue)} # {}
      BY <1>2
    <3>. QED
      BY <1>2, <1>9, <2>1, <3>2, <3>3 DEF Going
  <2>4. /\ Taken /\ IsTree(temp') /\ reads' \subseteq Name /\ Entries(made')
        /\ evaluator'.recorded \subseteq Name \ Created /\ Loads(evaluator'.loaded) \subseteq evaluator'.recorded
    BY <1>2, <1>4, <1>5, <1>6, <1>9, <2>1
  <2>5. RefsThere(source, reads) => RefsThere(source', reads')
    BY <2>1
  <2>. QED
    BY <1>2, <1>7, <2>2, <2>3, <2>4, <2>5, TakenKeeps
<1>10. CASE ~Fails(Item, c, source) /\ Item.type # "remove"
  <2>1. source' = WithRefs(c, source) /\ temp' = tree /\ reads' = reads \cup seen /\ compiled' = compiled
        /\ Taken /\ UNCHANGED << made, evaluator >>
    BY <1>6, <1>10 DEF Leaves
  <2>2. RefsThere(source, reads) => RefsThere(source', reads')
    <3>1. RefsThere(source, reads) => RefsThere(source', reads \cup Sees(c, source))
      BY <1>2, <1>10, <2>1, RefsStayThere
    <3>2. seen \subseteq Sees(c, source)
      BY <1>2, <1>10, SeesIs DEF seen, Observed
    <3>. QED
      BY <2>1, <3>1, <3>2 DEF RefsThere
  <2>3. UNCHANGED << project, settings, items, result, history >>
    BY <1>2, <2>1 DEF result
  <2>4. ~Fails(Item, Input, source) /\ source' = WithRefs(Input, source)
        /\ temp' = Compiled(Item, Input, source, temp)
        /\ reads \cup (Observed(Item, Input, source) \ Key) \subseteq reads'
    BY <1>10, <2>1 DEF c, tree, seen
  <2>5. reads' \subseteq Name /\ Entries(made')
        /\ evaluator'.recorded \subseteq Name \ Created /\ Loads(evaluator'.loaded) \subseteq evaluator'.recorded
    BY <1>2, <1>4, <1>5, <2>1
  <2>. QED
    BY <1>1, <1>10, <2>1, <2>2, <2>3, <2>4, <2>5, DoneKeeps
<1>. QED
  BY <1>8, <1>9, <1>10

LEMMA EntriesGrow ==
  ASSUME NEW s, Entries(s), NEW e, Entry(e)
  PROVE  Entries(Append(s, e))
<1>1. PICK T : s \in Seq(T) /\ \A x \in T : Entry(x)
  BY DEF Entries
<1>2. Append(s, e) \in Seq(T \cup {e}) /\ \A x \in T \cup {e} : Entry(x)
  BY <1>1
<1>. QED
  BY <1>2 DEF Entries

LEMMA ReuseKeeps ==
  ASSUME Tidy, Inv, Reuse
  PROVE  Inv'
<1>1. AtInput /\ Item.type = "kadet"
  BY TakingIs DEF Reuse, Taking
<1>2. PICK seen \in {run.source, source} : \E i \in Reusable(seen) :
         /\ temp' = Over(temp, Previous[i].outputs)
         /\ reads' = reads \cup (DOMAIN Previous[i].seen \ Key)
         /\ made' = Append(made, Previous[i])
  BY DEF Reuse
<1>3. PICK i \in Reusable(seen) :
         /\ temp' = Over(temp, Previous[i].outputs)
         /\ reads' = reads \cup (DOMAIN Previous[i].seen \ Key)
         /\ made' = Append(made, Previous[i])
  BY <1>2
<1>. DEFINE e == Previous[i]
<1>4. /\ Taken /\ source' = source /\ evaluator' = evaluator
      /\ UNCHANGED << project, settings, items, result, history >>
  BY DEF Reuse, sources
<1>5. i \in DOMAIN Previous /\ e.item = Item /\ e.seen = Part(seen, DOMAIN e.seen)
  BY <1>3 DEF Reusable, Match, Matches, Usable
<1>6. Previous = record.made
  BY <1>5 DEF Previous
<1>7. Entry(e)
  <2>1. Entries(record.made)
    BY DEF Inv, Kinds
  <2>2. PICK T : record.made \in Seq(T) /\ \A x \in T : Entry(x)
    BY <2>1 DEF Entries
  <2>. QED
    BY <1>5, <1>6, <2>2
<1>. HIDE DEF e
<1>8. Input \in ToSet(e.item.inputs) /\ IsSource(source) /\ reads \subseteq Name
  BY <1>1, <1>5 DEF AtInput
<1>9. Part(source, DOMAIN e.seen) = e.seen
  <2>1. Grown(run.source, source) /\ Grown(source, source)
    BY <1>1, <1>8, GrownRefl DEF Inv, Places, AtInput
  <2>2. Grown(seen, source) /\ Part(seen, DOMAIN e.seen) = e.seen
    BY <1>5, <2>1
  <2>. QED
    BY <1>7, <1>8, <2>2, EntryGrows
<1>10. /\ ~Fails(Item, Input, source) /\ WithRefs(Input, source) = source
       /\ Sees(Input, source) \subseteq DOMAIN e.seen
       /\ \A rd : RefsThere(source, rd) => RefsThere(source, rd \cup DOMAIN e.seen)
       /\ \A tree : Compiled(Item, Input, source, tree) = Over(tree, e.outputs)
  BY <1>5, <1>7, <1>8, <1>9, EntryDoes
<1>11. DOMAIN e.seen \subseteq Name
  BY <1>7 DEF Entry
<1>12. temp' = Compiled(Item, Input, source, temp) /\ reads' = reads \cup (DOMAIN e.seen \ Key)
       /\ Entries(made')
  <2>1. Entries(made)
    BY DEF Inv, Kinds
  <2>. QED
    BY <1>3, <1>7, <1>10, <2>1, EntriesGrow DEF e
<1>13. Observed(Item, Input, source) = Sees(Input, source)
  BY <1>1 DEF Observed
<1>14. /\ reads \cup (Observed(Item, Input, source) \ Key) \subseteq reads' /\ reads' \subseteq Name
       /\ RefsThere(source, reads) => RefsThere(source', reads')
  <2>1. RefsThere(source, reads \cup DOMAIN e.seen) => RefsThere(source, reads')
    BY <1>12 DEF RefsThere
  <2>. QED
    BY <1>4, <1>8, <1>10, <1>11, <1>12, <1>13, <2>1
<1>15. evaluator'.recorded \subseteq Name \ Created /\ Loads(evaluator'.loaded) \subseteq evaluator'.recorded
  BY <1>1, <1>4 DEF AtInput
<1>. QED
  BY <1>1, <1>4, <1>10, <1>12, <1>14, <1>15, DoneKeeps

(* What the evaluator reads and the refs it creates are all the output     *)
(* depends on, and the record stays free of refs.                          *)
LEMMA EvaluatedIs ==
  ASSUME AtInput, Item.type = "kadet"
  PROVE  LET ev == Evaluated(Input)
         IN  /\ ev.recorded = Recorded(Input) /\ Recorded(Input) \subseteq Name \ Created
             /\ Loads(ev.loaded) \subseteq ev.recorded
             /\ source[Input] # Bad => Sees(Input, source) \subseteq Recorded(Input) \cup Program[Input].creates
<1>. DEFINE c == Input
            p == Program[c]
            new == p.imports \ evaluator.loaded
<1>1. /\ Sound(Item) /\ c \in ToSet(Item.inputs) /\ IsSource(source)
      /\ evaluator.recorded \subseteq Name \ Created /\ Loads(evaluator.loaded) \subseteq evaluator.recorded
  BY DEF AtInput
<1>2. c \in File /\ c \in Name \ Created /\ Sees(c, source) = Own(c) \cup Loads(p.imports)
  BY <1>1, SeesIs, KadetSees
<1>3. p.reads \subseteq Name \ Created /\ p.imports \subseteq File \ Created /\ p.imports \subseteq Name
  BY <1>1, <1>2, ItemsAssumption DEF Sound, TidyProgram, Name
<1>4. ASSUME NEW m \in p.imports PROVE Own(m) = {m} \cup Program[m].reads /\ Own(m) \subseteq Name \ Created
  <2>1. m \in File /\ m \in Name \ Created /\ Program[m].creates = {} /\ TidyProgram(m)
    BY <1>1, <1>2, <1>3 DEF Sound, TidyProgram
  <2>2. Program[m].reads \subseteq Name \ Created
    BY <2>1, ItemsAssumption DEF TidyProgram
  <2>. QED
    BY <2>1, <2>2 DEF Own
<1>5. Loads(new) \subseteq Name \ Created
  BY <1>4 DEF Loads
<1>6. Now(c) \subseteq Name \ Created
  BY <1>2, <1>3, <1>5 DEF Now
<1>7. /\ Evaluated(c).recorded = Recorded(c)
      /\ Evaluated(c).loaded = evaluator.loaded \cup (IF source[c] = Bad THEN {} ELSE p.imports)
  BY DEF Evaluated
<1>8. Loads(evaluator.loaded \cup p.imports) \subseteq Loads(evaluator.loaded) \cup Loads(new)
  BY DEF Loads
<1>9. source[c] # Bad => Loads(new) \subseteq Now(c)
  BY DEF Now
<1>10. Loads(Evaluated(c).loaded) \subseteq Recorded(c)
  <2>1. CASE source[c] = Bad
    <3>1. Evaluated(c).loaded = evaluator.loaded
      BY <1>7, <2>1
    <3>. QED
      BY <1>1, <3>1 DEF Recorded
  <2>2. CASE source[c] # Bad
    <3>1. Evaluated(c).loaded = evaluator.loaded \cup p.imports
      BY <1>7, <2>2
    <3>. QED
      BY <1>1, <1>8, <1>9, <2>2, <3>1 DEF Recorded
  <2>. QED
    BY <2>1, <2>2
<1>11. ASSUME source[c] # Bad PROVE Sees(c, source) \subseteq Recorded(c) \cup p.creates
  <2>1. Own(c) \subseteq Now(c) \cup p.creates
    BY <1>11 DEF Own, Now
  <2>2. Loads(p.imports) \subseteq Loads(evaluator.loaded) \cup Loads(new)
    BY DEF Loads
  <2>. QED
    BY <1>1, <1>2, <1>9, <1>11, <2>1, <2>2 DEF Recorded
<1>. QED
  BY <1>1, <1>6, <1>7, <1>10, <1>11 DEF Recorded

LEMMA EvaluateKeeps ==
  ASSUME Tidy, Inv, Evaluate
  PROVE  Inv'
<1>. DEFINE c == Input
            tree == Compiled(Item, c, source, temp)
            D == Recorded(c) \cup Program[c].creates
            grown == WithRefs(c, source)
<1>1. AtInput /\ Item.type = "kadet"
  BY TakingIs DEF Evaluate, Taking
<1>2. /\ IF Fails(Item, c, source)
         THEN FailItem(tree, {}, matched \cup Match, Evaluated(c))
         ELSE /\ temp' = tree /\ made' = Append(made, ItemRecord(c))
              /\ reads' = reads \cup (DOMAIN Seen(c) \ Key)
              /\ evaluator' = Evaluated(c) /\ Taken
      /\ source' = Leaves(Item, c, source)
      /\ UNCHANGED << project, settings, items, result, history >>
  BY DEF Evaluate
<1>3. /\ Sound(Item) /\ c \in ToSet(Item.inputs) /\ IsSource(source) /\ IsTree(temp) /\ reads \subseteq Name
      /\ Compiling /\ Entries(made)
  BY <1>1 DEF AtInput
<1>4. /\ Evaluated(c).recorded \subseteq Name \ Created /\ Recorded(c) \subseteq Name \ Created
      /\ Loads(Evaluated(c).loaded) \subseteq Evaluated(c).recorded
      /\ source[c] # Bad => Sees(c, source) \subseteq D
  BY <1>1, EvaluatedIs
<1>5. IsTree(tree)
  BY <1>3, CompiledIsTree
<1>6. c \in File /\ Sees(c, source) \cap Created = Program[c].creates
      /\ Program[c].creates \subseteq Name
  BY <1>1, <1>3, SeesIs, RefsGrow
<1>. HIDE DEF c, tree, D, grown
<1>7. CASE Fails(Item, c, source)
  <2>1. source' = source /\ Grown(source, source')
    BY <1>2, <1>3, <1>7, GrownRefl DEF Leaves
  <2>. QED
    BY <1>2, <1>3, <1>4, <1>5, <1>7, <2>1, FailKeeps
<1>8. CASE ~Fails(Item, c, source)
  <2>1. source[c] # Bad
    BY <1>1, <1>8 DEF Fails
  <2>2. Sees(c, source) \subseteq D /\ D \subseteq Name /\ D \cap Created \subseteq Program[c].creates
    BY <1>4, <1>6, <2>1 DEF D
  <2>3. DOMAIN grown = Name /\ source' = grown
    BY <1>1, <1>2, <1>3, <1>8 DEF grown, WithRefs, IsSource, Leaves
  <2>4. ItemRecord(c) = [item |-> Item, seen |-> Part(grown, D), outputs |-> Written(Item, c, grown, temp)]
        /\ Seen(c) = Part(grown, D)
    BY DEF ItemRecord, Seen, grown, D
  <2>5. DOMAIN Seen(c) = D
    BY <2>2, <2>3, <2>4 DEF Part
  <2>6. Entry(ItemRecord(c))
    <3>1. Entry([item |-> Item, seen |-> Part(grown, D), outputs |-> Written(Item, c, grown, temp)])
      BY <1>1, <1>3, <1>8, <2>2, EntryMade DEF grown
    <3>. QED
      BY <2>4, <3>1
  <2>7. temp' = tree /\ made' = Append(made, ItemRecord(c)) /\ reads' = reads \cup (D \ Key)
        /\ evaluator' = Evaluated(c) /\ Taken
    BY <1>2, <1>8, <2>5
  <2>8. Entries(made')
    BY <1>3, <2>6, <2>7, EntriesGrow
  <2>9. RefsThere(source, reads) => RefsThere(source', reads')
    <3>1. RefsThere(source, reads) => RefsThere(source', reads \cup Sees(c, source))
      BY <1>1, <1>3, <2>3, RefsStayThere DEF grown
    <3>2. D \cap Created \subseteq Sees(c, source)
      BY <1>6, <2>2
    <3>. QED
      BY <2>7, <3>1, <3>2 DEF RefsThere
  <2>10. Observed(Item, c, source) = Sees(c, source)
    BY <1>1 DEF Observed
  <2>11. /\ ~Fails(Item, Input, source) /\ source' = WithRefs(Input, source)
         /\ temp' = Compiled(Item, Input, source, temp)
         /\ reads \cup (Observed(Item, Input, source) \ Key) \subseteq reads' /\ reads' \subseteq Name
    <3>1. Observed(Item, c, source) \subseteq D
      BY <2>2, <2>10
    <3>2. reads \cup (Observed(Item, c, source) \ Key) \subseteq reads' /\ reads' \subseteq Name
      BY <1>3, <2>2, <2>7, <3>1
    <3>. QED
      BY <1>8, <2>3, <2>7, <3>2 DEF c, tree, grown
  <2>12. evaluator'.recorded \subseteq Name \ Created /\ Loads(evaluator'.loaded) \subseteq evaluator'.recorded
    BY <1>4, <2>7
  <2>. QED
    BY <1>1, <1>2, <2>7, <2>8, <2>9, <2>11, <2>12, DoneKeeps
<1>. QED
  BY <1>7, <1>8

LEMMA EvaluatorDiesKeeps ==
  ASSUME Tidy, Inv, EvaluatorDies
  PROVE  Inv'
<1>1. AtInput
  BY TakingIs DEF EvaluatorDies
<1>2. /\ FailItem(temp, {}, matched \cup Match, NoEvaluator)
      /\ source' = source /\ UNCHANGED << project, settings, items, result, history >>
  BY DEF EvaluatorDies, sources
<1>3. Compiling /\ IsTree(temp) /\ Grown(source, source')
  BY <1>1, <1>2, GrownRefl DEF AtInput
<1>4. NoEvaluator.recorded \subseteq Name \ Created /\ Loads(NoEvaluator.loaded) \subseteq NoEvaluator.recorded
  BY NothingFine DEF NoEvaluator
<1>. QED
  BY <1>2, <1>3, <1>4, FailKeeps

LEMMA WorkerItemKeeps ==
  ASSUME Tidy, Inv, WorkerItem
  PROVE  Inv'
<1>. DEFINE r == AllInputs(Item, Came(source, temp, reads))
<1>. USE DEF Inv
<1>1. /\ phase = "worker" /\ at \in 1 .. Len(items) /\ Len(items) \in Nat /\ queue = {}
      /\ SoundItems(items) /\ IsSource(source) /\ IsTree(temp) /\ reads \subseteq Name
      /\ Item = items[at] /\ Sound(Item) /\ Item.inputs \in Seq(ToSet(Item.inputs))
  <2>1. phase = "worker" /\ at <= Len(items) /\ SoundItems(items) /\ Len(items) \in Nat
    BY DocumentsSound DEF WorkerItem, Working
  <2>2. at \in 1 .. Len(items) /\ queue = {}
    BY <2>1 DEF Places
  <2>3. Sound(items[at])
    BY <2>1, <2>2 DEF SoundItems
  <2>. QED
    BY <2>1, <2>2, <2>3 DEF Kinds, Item, Sound, IsItem
<1>2. /\ source' = r.src
      /\ IF r.going \/ Item.tolerant
         THEN /\ temp' = r.tree /\ reads' = r.reads /\ at' = at + 1
              /\ run' = [run EXCEPT !.tolerated = @ \/ ~r.going]
              /\ UNCHANGED << phase, queue, attempts, made, matched, evaluator >>
         ELSE End
      /\ UNCHANGED << project, settings, items, result, history >>
  BY DEF WorkerItem, Came
<1>3. IsStage(r) /\ Grown(source, r.src) /\ r.reads \subseteq Name
  <2>1. Len(Item.inputs) \in 0 .. Len(Item.inputs)
    BY <1>1
  <2>2. LET p == Progress(Item, Came(source, temp, reads))[Len(Item.inputs)]
        IN  IsStage(p) /\ Grown(source, p.src) /\ p.reads \subseteq Name
    BY <1>1, <2>1, WorkerTyped
  <2>. QED
    BY <2>2 DEF AllInputs
<1>4. ASSUME RefsThere(source, reads), AtItem(items, source, reads, at, temp), r.going
      PROVE  RefsThere(r.src, r.reads) /\ AtItem(items, r.src, r.reads, at + 1, r.tree)
  BY <1>1, <1>4, WorkerLeads
<1>. HIDE DEF r
<1>5. IsSource(source') /\ Grown(source, source') /\ IsTree(r.tree)
  BY <1>2, <1>3 DEF Grown, IsStage
<1>6. CASE r.going \/ Item.tolerant
  <2>1. /\ temp' = r.tree /\ reads' = r.reads /\ at' = at + 1
        /\ run' = [run EXCEPT !.tolerated = @ \/ ~r.going]
        /\ UNCHANGED << phase, queue, made, evaluator >>
    BY <1>2, <1>6
  <2>2. run = [force |-> run.force, source |-> run.source, tolerated |-> run.tolerated]
        /\ Grown(run.source, source)
    BY <1>1 DEF Places
  <2>3. /\ run' = [force |-> run'.force, source |-> run'.source, tolerated |-> run'.tolerated]
        /\ run'.source = run.source /\ run'.tolerated = (run.tolerated \/ ~r.going)
    BY <2>1, <2>2
  <2>4. Grown(run'.source, source')
    BY <1>5, <2>2, <2>3, GrownTrans
  <2>5. ASSUME ~run'.tolerated
        PROVE  RefsThere(source', reads') /\ AtItem(items, source', reads', at', temp')
    <3>1. ~run.tolerated /\ r.going
      BY <2>3, <2>5
    <3>2. RefsThere(source, reads) /\ AtItem(items, source, reads, at, temp)
      BY <1>1, <3>1 DEF Places, Goes, Going
    <3>. QED
      BY <1>2, <1>4, <2>1, <3>1, <3>2
  <2>6. Kinds'
    BY <1>1, <1>2, <1>3, <1>5, <2>1 DEF Kinds, result
  <2>7. Places'
    BY <1>1, <1>2, <2>1, <2>3, <2>4, <2>5 DEF Places
  <2>8. Goes'
    BY <1>1, <1>2, <2>1, <2>5 DEF Goes, Going
  <2>9. Certified'
    BY <1>2, CertifiedStays DEF result, history
  <2>10. Settles'
    BY <1>1, <1>2 DEF Settles, history
  <2>. QED
    BY <2>6, <2>7, <2>8, <2>9, <2>10
<1>7. CASE ~(r.going \/ Item.tolerant)
  BY <1>1, <1>2, <1>5, <1>7, EndKeeps
<1>. QED
  BY <1>6, <1>7

(* A compile that succeeds certifies what it wrote. *)
LEMMA FinishIs ==
  ASSUME Tidy, Inv, Finish
  PROVE  /\ Inv' /\ UNCHANGED << items, source >>
         /\ ~partial' => compiled' = FromNothing([items |-> items, source |-> source])
         /\ phase' = "off" /\ IsFresh'
<1>. DEFINE deps == Part(source, reads \ Key)
<1>. USE DEF Inv
<1>1. /\ phase \in {"items", "worker"} /\ at = Len(items) + 1 /\ queue = {} /\ Len(items) \in Nat
      /\ SoundItems(items) /\ IsSource(source) /\ IsTree(temp) /\ reads \subseteq Name
  <2>1. phase \in {"items", "worker"} /\ at > Len(items) /\ Len(items) \in Nat /\ SoundItems(items)
    BY DocumentsSound DEF Finish
  <2>2. at = Len(items) + 1 /\ queue = {}
    BY <2>1 DEF Places, Kinds
  <2>. QED
    BY <2>1, <2>2 DEF Kinds
<1>2. /\ compiled' = temp
      /\ record' = [settings |-> settings, items |-> items, keys |-> Part(source, Key),
                    deps |-> deps, probes |-> Probes(items, source), output |-> temp, made |-> made]
      /\ partial' = run.tolerated /\ settled' = TRUE /\ End
      /\ UNCHANGED << project, settings, items, source, edits >>
  BY DEF Finish, Prints, sources
<1>3. ASSUME ~run.tolerated, NEW src, IsSource(src), Part(src, Key) = Part(source, Key),
             Part(src, DOMAIN deps) = deps, Probes(items, src) = Probes(items, source)
      PROVE  FromNothing([items |-> items, source |-> src]) = temp
  <2>1. AtItem(items, source, reads, Len(items) + 1, temp)
    BY <1>1, <1>3 DEF Goes, Going
  <2>. QED
    BY <1>1, <1>3, <2>1, RecordTells
<1>4. Part(source, DOMAIN deps) = deps
  BY DEF Part
<1>. HIDE DEF deps
<1>5. phase' = "off" /\ reads' = {} /\ temp' = EmptyTree /\ queue' = {} /\ made' = << >> /\ at' = 0
      /\ evaluator' = NoEvaluator
  BY <1>2 DEF End
<1>6. /\ record'.settings = settings /\ record'.items = items /\ record'.keys = Part(source, Key)
      /\ record'.deps = deps /\ record'.probes = Probes(items, source) /\ record'.output = temp
      /\ record'.made = made
  BY <1>2
<1>7. IsFresh'
  BY <1>2, <1>4, <1>6 DEF IsFresh
<1>8. Kinds'
  BY <1>1, <1>2, <1>5, <1>6, NothingFine DEF Kinds, NoEvaluator
<1>9. Places' /\ Goes'
  BY <1>5 DEF Places, Goes
<1>10. Certified'
  <2>1. ASSUME ~partial', NEW src, ReadsLike(src)'
        PROVE  FromNothing([items |-> record'.items, source |-> src]) = record'.output
    BY <1>2, <1>3, <1>6, <2>1 DEF ReadsLike
  <2>2. IsTree(record'.output) /\ DOMAIN compiled' \subseteq DOMAIN record'.output
    BY <1>1, <1>2, <1>6
  <2>. QED
    BY <2>1, <2>2 DEF Certified
<1>11. Settles'
  BY <1>5, <1>7 DEF Settles
<1>12. ~partial' => compiled' = FromNothing([items |-> items, source |-> source])
  BY <1>1, <1>2, <1>3, <1>4
<1>. QED
  BY <1>2, <1>5, <1>7, <1>8, <1>9, <1>10, <1>11, <1>12

LEMMA NextInv == Tidy /\ Inv /\ [Next]_vars => Inv'
<1>. SUFFICES ASSUME Tidy, Inv, [Next]_vars PROVE Inv'
  OBVIOUS
<1>1. CASE UNCHANGED vars
  <2>1. UNCHANGED << project, settings, items, source, compiled, record, temp, reads, made >>
        /\ UNCHANGED << phase, run, at, queue, evaluator, partial, settled >>
    BY <1>1 DEF vars, sources, result, target, place, history
  <2>2. Kinds' /\ Places'
    BY <2>1 DEF Inv, Kinds, Places
  <2>3. Goes' /\ Settles'
    BY <2>1 DEF Inv, Goes, Settles, IsFresh
  <2>4. Certified'
    BY <2>1, CertifiedStays DEF Inv
  <2>. QED
    BY <2>2, <2>3, <2>4 DEF Inv
<1>2. CASE Edit \/ Tamper \/ Start
  BY <1>2, EditKeeps, TamperKeeps, StartKeeps
<1>3. CASE Resolve \/ CompileInput \/ Reuse \/ Evaluate \/ EvaluatorDies
  BY <1>3, ResolveKeeps, CompileInputKeeps, ReuseKeeps, EvaluateKeeps, EvaluatorDiesKeeps
<1>4. CASE Attempt \/ WorkerItem \/ WorkerDies \/ WorkerTimesOut \/ Finish \/ Interrupt
  BY <1>4, AttemptKeeps, WorkerItemKeeps, WorkerDiesKeeps, StopsKeep, FinishIs
<1>. QED
  BY <1>1, <1>2, <1>3, <1>4 DEF Next, CompileStep

(* Only Finish changes the output while a compile runs, but for what an    *)
(* item removes; an edited output is not the recorded one.                 *)
LEMMA OutputStays ==
  ASSUME Tidy, Inv, [Next]_vars, ~Finish, UpToDate'
  PROVE  compiled' = compiled
<1>. USE DEF Inv
<1>1. phase' = "off" /\ IsFresh'
  BY DEF UpToDate, WhyStale
<1>2. CASE Tamper
  <2>1. UNCHANGED << settings, items, source >>
    BY <1>2 DEF Tamper, sources
  <2>2. CASE record' = record /\ \E x \in DOMAIN compiled :
               compiled' \in {Part(compiled, DOMAIN compiled \ {x}), [compiled EXCEPT ![x] = << >>]}
    <3>1. PICK x \in DOMAIN compiled :
            compiled' \in {Part(compiled, DOMAIN compiled \ {x}), [compiled EXCEPT ![x] = << >>]}
      BY <2>2
    <3>2. record.settings = settings' /\ compiled' = record.output
      BY <1>1, <2>2 DEF IsFresh
    <3>3. IsTree(record.output) /\ DOMAIN compiled \subseteq DOMAIN record.output
      BY <2>1, <3>2 DEF Certified, Kinds
    <3>4. x \in DOMAIN compiled' /\ compiled'[x] # << >>
      BY <3>1, <3>2, <3>3 DEF IsTree
    <3>. QED
      BY <3>1, <3>4 DEF Part
  <2>. QED
    BY <1>2, <2>2 DEF Tamper
<1>3. CASE CompileInput
  <2>1. phase = "items" /\ Item.type # "remove" => compiled' = compiled
    BY <1>3 DEF CompileInput
  <2>2. ASSUME Item.type = "remove" PROVE FALSE
    <3>1. ~Fails(Item, Input, source)
      BY <2>2 DEF Fails
    <3>2. phase' = phase /\ phase = "items"
      BY <1>3, <3>1 DEF CompileInput, Taken, Taking, Compiling
    <3>. QED
      BY <1>1, <3>2
  <2>. QED
    BY <1>3, <2>2 DEF CompileInput
<1>4. CASE Edit \/ Start \/ Resolve \/ Reuse \/ Evaluate \/ EvaluatorDies
  BY <1>4 DEF Edit, Start, Resolve, Reuse, Evaluate, EvaluatorDies, result
<1>5. CASE Attempt \/ WorkerItem \/ WorkerDies \/ WorkerTimesOut \/ Interrupt
  BY <1>5 DEF Attempt, WorkerItem, WorkerDies, WorkerTimesOut, Interrupt, result
<1>6. CASE UNCHANGED vars
  BY <1>6 DEF vars, result
<1>. QED
  BY <1>2, <1>3, <1>4, <1>5, <1>6 DEF Next, CompileStep

(* Reusing items and skipping targets cannot be told from compiling        *)
(* everything again (native.rs:409, engine.rs:868): the compile implements *)
(* the one that writes everything anew.                                    *)
THEOREM ReuseNeverShows == Tidy => (Spec => ReuseIsInvisible)
<1>. SUFFICES ASSUME Tidy PROVE Spec => ReuseIsInvisible
  OBVIOUS
<1>1. Init => Inv
  BY InitInv
<1>2. Inv /\ [Next]_vars => Inv'
  BY NextInv
<1>3. Init => Whole!Init
  <2>1. Init => ~IsFresh
    BY ItemsAssumption DEF Init, IsFresh, NoRecord
  <2>. QED
    BY <2>1 DEF Whole!Init, UpToDate, WhyStale
<1>4. Inv /\ Inv' /\ [Next]_vars => [Whole!Next]_<< [items |-> items, source |-> source], compiled, UpToDate /\ ~partial >>
  <2>. SUFFICES ASSUME Inv, Inv', [Next]_vars PROVE Whole!Next
    OBVIOUS
  <2>1. CASE Finish
    <3>1. /\ UNCHANGED << items, source >> /\ phase' = "off" /\ IsFresh'
          /\ ~partial' => compiled' = FromNothing([items |-> items, source |-> source])
      BY <2>1, FinishIs
    <3>2. CASE partial'
      BY <3>2 DEF Whole!Next, Whole!Disturb
    <3>3. CASE ~partial'
      BY <3>1, <3>3 DEF Whole!Next, Whole!Build, UpToDate, WhyStale
    <3>. QED
      BY <3>2, <3>3
  <2>2. CASE ~Finish
    <3>1. ASSUME (UpToDate /\ ~partial)'
          PROVE  compiled' = compiled /\ compiled = FromNothing([items |-> items', source |-> source'])
      <4>1. compiled' = compiled
        BY <2>2, <3>1, OutputStays
      <4>2. compiled' = FromNothing([items |-> items', source |-> source'])
        BY <3>1, ExactWhenFresh DEF UpToDate, WhyStale
      <4>. QED
        BY <4>1, <4>2
    <3>. QED
      BY <3>1 DEF Whole!Next, Whole!Disturb
  <2>. QED
    BY <2>1, <2>2
<1>. QED
  BY <1>1, <1>2, <1>3, <1>4, PTL DEF Spec, ReuseIsInvisible, Whole!Spec

-----------------------------------------------------------------------------
(* A compile that has just succeeded is up to date, whatever the project:  *)
(* what it records is what is there when it ends, refs it created and      *)
(* items it reused included (native.rs:481, engine.rs:846).                *)
THEOREM SuccessIsCurrent == Spec => []SettlesAtOnce
<1>1. Init => Settles
  BY DEF Init, Settles
<1>2. Settles /\ [Next]_vars => Settles'
  <2>. SUFFICES ASSUME Settles, [Next]_vars PROVE Settles'
    OBVIOUS
  <2>1. CASE Edit \/ Tamper \/ Start
    BY <2>1 DEF Edit, Tamper, Start, Settles
  <2>2. CASE Resolve \/ CompileInput \/ Reuse \/ Evaluate \/ EvaluatorDies
    <3>1. phase # "off" /\ settled' = settled
      BY <2>2 DEF Resolve, CompileInput, Reuse, Evaluate, EvaluatorDies, Taking, Compiling, history
    <3>. QED
      BY <3>1 DEF Settles
  <2>3. CASE Attempt \/ WorkerItem \/ WorkerDies \/ WorkerTimesOut \/ Interrupt
    <3>1. phase # "off" /\ settled' = settled
      BY <2>3 DEF Attempt, WorkerItem, WorkerDies, WorkerTimesOut, Interrupt, Working, history
    <3>. QED
      BY <3>1 DEF Settles
  <2>4. CASE Finish
    <3>1. Part(source, DOMAIN Part(source, reads \ Key)) = Part(source, reads \ Key)
      BY DEF Part
    <3>2. IsFresh' /\ phase' = "off"
      BY <2>4, <3>1 DEF Finish, IsFresh, Prints, End, sources
    <3>. QED
      BY <3>2 DEF Settles
  <2>5. CASE UNCHANGED vars
    <3>1. UNCHANGED << settled, phase, record, settings, items, source, compiled >>
      BY <2>5 DEF vars, sources, result, place, history
    <3>. QED
      BY <3>1 DEF Settles, IsFresh
  <2>. QED
    BY <2>1, <2>2, <2>3, <2>4, <2>5 DEF Next, CompileStep
<1>3. Settles => SettlesAtOnce
  BY DEF Settles, SettlesAtOnce, WhyStale
<1>. QED
  BY <1>1, <1>2, <1>3, PTL DEF Spec
=============================================================================
