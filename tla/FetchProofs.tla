------------------------------ MODULE FetchProofs ------------------------------
(***************************************************************************)
(* The safety of Fetch, for any repositories, dependencies, numbers of     *)
(* processes and threads, failures and interruptions.                      *)
(***************************************************************************)
EXTENDS Fetch, WellFoundedInduction, SequenceTheorems, TLAPS

(* ------------------------------- Paths. -------------------------------- *)

AnyPath == Seq(STRING)

LEMMA PrefixIs ==
  ASSUME NEW s \in AnyPath, NEW t \in AnyPath
  PROVE  IsPrefix(s, t) <=> Len(s) <= Len(t) /\ \A i \in 1 .. Len(s) : s[i] = t[i]
<1>1. Len(s) \in Nat /\ Len(t) \in Nat
  BY DEF AnyPath
<1>2. SubSeq(s, 1, Len(s)) = [i \in 1 .. Len(s) |-> s[i]]
  BY <1>1 DEF AnyPath
<1>3. ASSUME Len(s) <= Len(t)
      PROVE  SubSeq(t, 1, Len(s)) = [i \in 1 .. Len(s) |-> t[i]]
  BY <1>1, <1>3 DEF AnyPath
<1>4. ASSUME [i \in 1 .. Len(s) |-> s[i]] = [i \in 1 .. Len(s) |-> t[i]], NEW i \in 1 .. Len(s)
      PROVE  s[i] = t[i]
  <2>1. [j \in 1 .. Len(s) |-> s[j]][i] = s[i] /\ [j \in 1 .. Len(s) |-> t[j]][i] = t[i]
    OBVIOUS
  <2> QED
    BY <1>4, <2>1
<1> QED
  BY <1>2, <1>3, <1>4 DEF IsPrefix

LEMMA PrefixIsTransitive ==
  ASSUME NEW r \in AnyPath, NEW s \in AnyPath, NEW t \in AnyPath, IsPrefix(r, s), IsPrefix(s, t)
  PROVE  IsPrefix(r, t)
<1>1. Len(r) \in Nat /\ Len(s) \in Nat /\ Len(t) \in Nat
  BY DEF AnyPath
<1> QED
  BY <1>1, PrefixIs

LEMMA PrefixesCompare ==
  ASSUME NEW r \in AnyPath, NEW s \in AnyPath, NEW t \in AnyPath, IsPrefix(r, t), IsPrefix(s, t)
  PROVE  IsPrefix(r, s) \/ IsPrefix(s, r)
<1>1. Len(r) \in Nat /\ Len(s) \in Nat /\ Len(t) \in Nat
  BY DEF AnyPath
<1>2. Len(r) <= Len(s) \/ Len(s) <= Len(r)
  BY <1>1
<1> QED
  BY <1>1, <1>2, PrefixIs

LEMMA PrefixOfItself == ASSUME NEW s \in AnyPath PROVE IsPrefix(s, s)
<1>1. Len(s) \in Nat
  BY DEF AnyPath
<1> QED
  BY <1>1, PrefixIs

LEMMA StartIsPrefix ==
  ASSUME NEW s \in AnyPath, NEW n \in 0 .. Len(s)
  PROVE  SubSeq(s, 1, n) \in AnyPath /\ IsPrefix(SubSeq(s, 1, n), s) /\ Len(SubSeq(s, 1, n)) = n
<1>1. Len(s) \in Nat /\ n \in Nat /\ n <= Len(s)
  BY DEF AnyPath
<1>2. SubSeq(s, 1, n) \in AnyPath /\ Len(SubSeq(s, 1, n)) = n
      /\ \A i \in 1 .. n : SubSeq(s, 1, n)[i] = s[i]
  BY <1>1 DEF AnyPath
<1> QED
  BY <1>1, <1>2, PrefixIs

LEMMA AncestorsAre ==
  ASSUME NEW s \in AnyPath
  PROVE  /\ \A a \in Ancestors(s) : a \in Path /\ IsPrefix(a, s)
         /\ s # << >> => s \in Ancestors(s)
<1>1. ASSUME NEW a \in Ancestors(s) PROVE a \in Path /\ IsPrefix(a, s)
  <2>1. PICK n \in 1 .. Len(s) : a = SubSeq(s, 1, n)
    BY DEF Ancestors
  <2>2. n \in 0 .. Len(s)
    BY DEF AnyPath
  <2>3. a \in AnyPath /\ IsPrefix(a, s) /\ Len(a) = n /\ n # 0
    BY <2>1, <2>2, StartIsPrefix
  <2> QED
    BY <2>3 DEF Path, AnyPath
<1>2. ASSUME s # << >> PROVE s \in Ancestors(s)
  <2>1. Len(s) \in 1 .. Len(s) /\ SubSeq(s, 1, Len(s)) = s
    BY <1>2 DEF AnyPath
  <2> QED
    BY <2>1 DEF Ancestors
<1> QED
  BY <1>1, <1>2

LEMMA PrefixIsAncestor ==
  ASSUME NEW s \in Path, NEW t \in Path, IsPrefix(s, t), s # t
  PROVE  s \in Ancestors(Front(t))
<1>1. s \in AnyPath /\ t \in AnyPath /\ Len(s) \in Nat /\ Len(t) \in Nat /\ s # << >> /\ t # << >>
  BY DEF Path, AnyPath
<1>2. Len(s) <= Len(t) /\ \A i \in 1 .. Len(s) : s[i] = t[i]
  BY <1>1, PrefixIs
<1>3. Len(s) # 0 /\ Len(t) # 0
  BY <1>1, EmptySeq DEF AnyPath
<1>4. Len(s) # Len(t)
  BY <1>1, <1>2 DEF AnyPath
<1> PICK r : r = Front(t)
  OBVIOUS
<1>5. r = SubSeq(t, 1, Len(t) - 1)
  BY DEF Front
<1>6. /\ r \in AnyPath /\ Len(r) = Len(t) - 1 /\ \A i \in 1 .. Len(r) : r[i] = t[i]
  <2>1. Len(t) - 1 \in 0 .. Len(t)
    BY <1>1, <1>3
  <2> QED
    BY <1>1, <1>5, <2>1, StartIsPrefix, PrefixIs
<1>7. Len(s) \in 1 .. Len(r)
  BY <1>1, <1>2, <1>3, <1>4, <1>6
<1> PICK k : k = SubSeq(r, 1, Len(s))
  OBVIOUS
<1>8. k \in AnyPath /\ Len(k) = Len(s) /\ \A i \in 1 .. Len(k) : k[i] = r[i]
  BY <1>6, <1>7 DEF AnyPath
<1>9. \A i \in 1 .. Len(s) : k[i] = s[i]
  BY <1>2, <1>6, <1>7, <1>8
<1>10. k = s
  BY <1>1, <1>8, <1>9 DEF AnyPath
<1> QED
  BY <1>7, <1>10 DEF Ancestors

LEMMA FrontIs ==
  ASSUME NEW s \in Path
  PROVE  Front(s) \in AnyPath /\ IsPrefix(Front(s), s)
<1>1. s \in AnyPath /\ Len(s) - 1 \in 0 .. Len(s)
  BY DEF Path, AnyPath
<1> QED
  BY <1>1, StartIsPrefix DEF Front

LEMMA RestIs ==
  ASSUME NEW s \in AnyPath, NEW n \in Nat
  PROVE  LET rest == SubSeq(s, n + 1, Len(s)) IN
         /\ rest \in AnyPath
         /\ n <= Len(s) => Len(rest) = Len(s) - n
         /\ \A i \in 1 .. Len(rest) : rest[i] = s[n + i]
<1> DEFINE rest == SubSeq(s, n + 1, Len(s))
<1>1. Len(s) \in Nat /\ n + 1 \in Int /\ \A i \in n + 1 .. Len(s) : s[i] \in STRING
  BY DEF AnyPath
<1>2. /\ rest \in AnyPath
      /\ Len(rest) = IF n + 1 <= Len(s) THEN Len(s) - (n + 1) + 1 ELSE 0
      /\ \A i \in 1 .. Len(s) - (n + 1) + 1 : rest[i] = s[n + 1 + i - 1]
  BY <1>1, SubSeqProperties DEF AnyPath
<1> HIDE DEF rest
<1>3. \A i \in 1 .. Len(rest) : i \in 1 .. Len(s) - (n + 1) + 1 /\ n + 1 + i - 1 = n + i
  BY <1>1, <1>2
<1>4. n <= Len(s) => Len(rest) = Len(s) - n
  BY <1>1, <1>2
<1>5. \A i \in 1 .. Len(rest) : rest[i] = s[n + i]
  BY <1>2, <1>3
<1> QED
  BY <1>2, <1>4, <1>5 DEF rest

LEMMA ConcatIs ==
  ASSUME NEW s \in AnyPath, NEW t \in AnyPath
  PROVE  /\ s \o t \in AnyPath /\ Len(s \o t) = Len(s) + Len(t) /\ IsPrefix(s, s \o t)
         /\ \A i \in 1 .. Len(t) : (s \o t)[Len(s) + i] = t[i]
<1>1. Len(s) \in Nat /\ Len(t) \in Nat
  BY DEF AnyPath
<1>2. /\ s \o t \in AnyPath /\ Len(s \o t) = Len(s) + Len(t)
      /\ \A i \in 1 .. Len(s) + Len(t) : (s \o t)[i] = IF i <= Len(s) THEN s[i] ELSE t[i - Len(s)]
  BY ConcatProperties DEF AnyPath
<1>3. \A i \in 1 .. Len(s) : (s \o t)[i] = s[i]
  BY <1>1, <1>2
<1>4. IsPrefix(s, s \o t)
  <2> PICK u : u = s \o t
    OBVIOUS
  <2>1. u \in AnyPath /\ Len(s) <= Len(u) /\ \A i \in 1 .. Len(s) : s[i] = u[i]
    BY <1>1, <1>2, <1>3
  <2> QED
    BY <2>1, PrefixIs
<1>5. ASSUME NEW i \in 1 .. Len(t) PROVE (s \o t)[Len(s) + i] = t[i]
  <2>1. Len(s) + i \in 1 .. Len(s) + Len(t) /\ ~(Len(s) + i <= Len(s)) /\ Len(s) + i - Len(s) = i
    BY <1>1
  <2> QED
    BY <1>2, <2>1
<1> QED
  BY <1>2, <1>4, <1>5

(* ----------------------------- The items. ------------------------------ *)

LEMMA ItemIs ==
  ASSUME project \in Projects, NEW p \in Process, NEW i \in Items(p)
  PROVE  /\ Item(p, i) \in Dependency /\ Declared(Item(p, i)) /\ i \in Nat
         /\ Item(p, i).dest \in Path /\ Item(p, i).sub \in AnyPath
         /\ Item(p, i).source \in DOMAIN FilesOf
         /\ FilesOf[Item(p, i).source] \cup ModulesOf[Item(p, i).source] \subseteq Path
<1>1. /\ project.users[p].items \in Seq(Dependency)
      /\ \A j \in DOMAIN project.users[p].items : Declared(project.users[p].items[j])
  BY FetchAssumption DEF Process
<1>2. Item(p, i) \in Dependency /\ Declared(Item(p, i)) /\ i \in Nat
  BY <1>1 DEF Item, Items
<1>3. /\ Item(p, i).sub \in AnyPath /\ Item(p, i).source \in DOMAIN FilesOf
  BY <1>2 DEF Dependency, AnyPath
<1> QED
  BY <1>2, <1>3, FetchAssumption DEF Declared

(* Items of one group have the source and, from helm, the chart in common. *)
CachedGroup(g) == g[1] = "helm" /\ g[3].version # NoRef
ChartOfGroup(g) == << g[2], g[3] >>

LEMMA GroupIs ==
  ASSUME NEW d, NEW g, GroupOf(d) = g
  PROVE  /\ d.kind = g[1] /\ d.source = g[2]
         /\ Cached(d) <=> CachedGroup(g)
         /\ Cached(d) => ChartOf(d) = ChartOfGroup(g)
BY DEF GroupOf, Cached, CachedGroup, ChartOf, ChartOfGroup

LEMMA LeastIs ==
  ASSUME NEW S \in SUBSET Nat, S # {}
  PROVE  (CHOOSE i \in S : \A j \in S : i <= j) \in S
<1>1. PICK m \in S : \A k \in S : ~ (<< k, m >> \in OpToRel(<, Nat))
  BY WFMin, NatLessThanWellFounded
<1>2. ASSUME NEW k \in S PROVE m <= k
  <2>1. k < m => << k, m >> \in OpToRel(<, Nat)
    BY DEF OpToRel
  <2> QED
    BY <1>1, <2>1 DEF OpToRel
<1> QED
  BY <1>2

LEMMA PlaceIs ==
  ASSUME NEW d, d.dest \in Path, d.sub \in AnyPath, NEW f \in Path
  PROVE  Place(d, f) \in Path /\ IsPrefix(d.dest, Place(d, f))
<1>1. CASE Plain(d)
  BY <1>1, PrefixOfItself DEF Place, Path, AnyPath
<1>2. CASE ~Plain(d)
  <2> DEFINE rest == SubSeq(f, Len(d.sub) + 1, Len(f))
  <2>1. d.dest \in AnyPath /\ Len(d.dest) \in Nat \ {0} /\ f \in AnyPath /\ Len(d.sub) \in Nat
    BY DEF Path, AnyPath
  <2>2. rest \in AnyPath /\ Len(rest) \in Nat
    BY <2>1, RestIs DEF AnyPath
  <2> HIDE DEF rest
  <2>3. d.dest \o rest \in Path /\ IsPrefix(d.dest, d.dest \o rest)
    <3>1. d.dest \o rest \in AnyPath /\ Len(d.dest \o rest) # 0 /\ IsPrefix(d.dest, d.dest \o rest)
      BY <2>1, <2>2, ConcatIs
    <3> QED
      BY <3>1 DEF Path, AnyPath
  <2> QED
    BY <1>2, <2>3 DEF Place, rest
<1> QED
  BY <1>1, <1>2

(* Files of a tree keep apart where they are copied to.                    *)
LEMMA PlacesDiffer ==
  ASSUME NEW d, ~Plain(d), d.dest \in AnyPath, d.sub \in AnyPath, NEW f \in AnyPath, NEW g \in AnyPath,
         IsStrictPrefix(d.sub, f), IsStrictPrefix(d.sub, g), Place(d, f) = Place(d, g)
  PROVE  f = g
<1> DEFINE Rest(x) == SubSeq(x, Len(d.sub) + 1, Len(x))
<1>1. /\ Len(d.sub) \in Nat /\ Len(d.dest) \in Nat /\ Len(f) \in Nat /\ Len(g) \in Nat
      /\ Len(d.sub) <= Len(f) /\ \A i \in 1 .. Len(d.sub) : d.sub[i] = f[i]
      /\ Len(d.sub) <= Len(g) /\ \A i \in 1 .. Len(d.sub) : d.sub[i] = g[i]
  BY PrefixIs DEF IsStrictPrefix, AnyPath
<1>2. /\ Rest(f) \in AnyPath /\ Len(Rest(f)) = Len(f) - Len(d.sub)
      /\ \A i \in 1 .. Len(Rest(f)) : Rest(f)[i] = f[Len(d.sub) + i]
  BY <1>1, RestIs
<1>3. /\ Rest(g) \in AnyPath /\ Len(Rest(g)) = Len(g) - Len(d.sub)
      /\ \A i \in 1 .. Len(Rest(g)) : Rest(g)[i] = g[Len(d.sub) + i]
  BY <1>1, RestIs
<1>4. d.dest \o Rest(f) = d.dest \o Rest(g)
  BY DEF Place
<1> HIDE DEF Rest
<1>5. \A x \in AnyPath : /\ Len(d.dest \o x) = Len(d.dest) + Len(x) /\ Len(x) \in Nat
                         /\ \A i \in 1 .. Len(x) : (d.dest \o x)[Len(d.dest) + i] = x[i]
  BY ConcatIs DEF AnyPath
<1>6. Len(Rest(f)) = Len(Rest(g)) /\ \A i \in 1 .. Len(Rest(f)) : Rest(f)[i] = Rest(g)[i]
  <2> PICK x, y : x = Rest(f) /\ y = Rest(g)
    OBVIOUS
  <2> PICK u : u = d.dest \o x /\ u = d.dest \o y
    BY <1>4
  <2>1. x \in AnyPath /\ y \in AnyPath
    BY <1>2, <1>3
  <2>2. /\ Len(u) = Len(d.dest) + Len(x) /\ Len(x) \in Nat
        /\ \A i \in 1 .. Len(x) : u[Len(d.dest) + i] = x[i]
    BY <1>5, <2>1
  <2>3. /\ Len(u) = Len(d.dest) + Len(y) /\ Len(y) \in Nat
        /\ \A i \in 1 .. Len(y) : u[Len(d.dest) + i] = y[i]
    BY <1>5, <2>1
  <2>4. Len(x) = Len(y)
    BY <1>1, <2>2, <2>3
  <2> QED
    BY <2>2, <2>3, <2>4
<1>7. Len(f) = Len(g)
  BY <1>1, <1>2, <1>3, <1>6
<1>8. ASSUME NEW i \in 1 .. Len(f) PROVE f[i] = g[i]
  <2>1. CASE i <= Len(d.sub)
    BY <1>1, <2>1
  <2>2. CASE ~(i <= Len(d.sub))
    <3>1. i - Len(d.sub) \in 1 .. Len(Rest(f)) /\ Len(d.sub) + (i - Len(d.sub)) = i
      BY <1>1, <1>2, <2>2
    <3> QED
      BY <1>2, <1>3, <1>6, <3>1
  <2> QED
    BY <2>1, <2>2
<1> QED
  BY <1>7, <1>8 DEF AnyPath
(* ----------------------------- Typing. --------------------------------- *)

Fields == {"step", "left", "held", "todo", "file"}
RunFields == {"phase", "flags", "skipped", "fetched", "failed"}
Putting == {"drop", "dropping", "store", "storing"}
Steps == {"waiting", "pull", "next", "copy", "ended"} \cup Putting

(* A group that puts a chart into the cache got all of it.                 *)
Puts(g, held) == CachedGroup(g) /\ held.ref = NoRef /\ held.files = FilesOf[g[2]]

(* A file that is being written is of the item that is copied.             *)
Filed(w) == w.file # NoFile => w.step = "copy" /\ w.file \in w.todo

(* A group holds items of its own source, and one that is not at its end   *)
(* holds some.                                                             *)
Shaped(p, g, w) ==
  /\ DOMAIN w = Fields /\ w.step \in Steps /\ DOMAIN w.held = {"at", "ref", "files"}
  /\ w.held.at \in Nat /\ w.held.files \subseteq Path /\ w.todo \subseteq Path
  /\ w.left \subseteq Items(p)
  /\ \A i \in w.left : GroupOf(Item(p, i)) = g
  /\ w.left = {} => w.step \in {"next", "ended"}
  /\ w.step = "ended" => w.left = {}
  /\ w.step \in Putting => Puts(g, w.held)
  /\ w.step = "waiting" => w.held = Nothing
  /\ Filed(w)

(* What is in the cache is of the chart's source, as it was there.         *)
CacheTyped ==
  \A c \in DOMAIN cache :
     /\ DOMAIN cache[c] \subseteq Path
     /\ \A f \in DOMAIN cache[c] :
           /\ cache[c][f].source = c[1] /\ cache[c][f].ref = NoRef
           /\ cache[c][f].path = f /\ cache[c][f].at \in Nat

DiskTyped ==
  /\ DOMAIN disk \subseteq Path /\ dirs \subseteq Path
  /\ \A q \in DOMAIN disk : disk[q].at \in Nat

RemoteTyped == DOMAIN remote = DOMAIN FilesOf /\ \A s \in DOMAIN FilesOf : remote[s] \in Nat

Running(p) ==
  \/ run[p] = Idle /\ work[p] = NoWork
  \/ /\ DOMAIN run[p] = RunFields /\ run[p].phase = "fetch"
     /\ \A g \in DOMAIN work[p] : Shaped(p, g, work[p][g])

Typed ==
  /\ project \in Projects
  /\ DOMAIN run = Process /\ DOMAIN work = Process
  /\ RemoteTyped /\ DiskTyped /\ CacheTyped
  /\ \A p \in Process : Running(p)

LEMMA AtWork ==
  ASSUME Typed, NEW p \in Process, NEW g \in DOMAIN work[p]
  PROVE  /\ project \in Projects
         /\ DOMAIN run[p] = RunFields /\ run[p].phase = "fetch"
         /\ Shaped(p, g, work[p][g])
<1>1. DOMAIN NoWork = {}
  BY DEF NoWork
<1>2. Running(p) /\ project \in Projects
  BY DEF Typed
<1> QED
  BY <1>1, <1>2 DEF Running

LEMMA CurrentIs ==
  ASSUME Typed, NEW p \in Process, NEW g \in DOMAIN work[p], work[p][g].left # {}
  PROVE  LET d == First(p, g) IN
         /\ Current(p, g) \in work[p][g].left /\ Current(p, g) \in Items(p)
         /\ d = Item(p, Current(p, g)) /\ GroupOf(d) = g
         /\ d \in Dependency /\ Declared(d) /\ d.dest \in Path /\ d.sub \in AnyPath
         /\ d.source \in DOMAIN FilesOf
         /\ FilesOf[d.source] \cup ModulesOf[d.source] \subseteq Path
<1>1. Shaped(p, g, work[p][g]) /\ project \in Projects
  BY AtWork
<1>2. work[p][g].left \subseteq Items(p) /\ \A i \in work[p][g].left : GroupOf(Item(p, i)) = g
  BY <1>1 DEF Shaped
<1>3. work[p][g].left \in SUBSET Nat
  BY <1>1, <1>2, ItemIs
<1>4. Current(p, g) \in work[p][g].left
  BY <1>3, LeastIs DEF Current
<1>5. First(p, g) = Item(p, Current(p, g))
  BY DEF First, Current
<1> QED
  BY <1>1, <1>2, <1>4, <1>5, ItemIs

(* What a pull and a checkout leave with the group.                        *)
LEMMA LayersAre ==
  ASSUME project \in Projects, NEW p \in Process, NEW i \in Items(p), Item(p, i).kind = "oci"
  PROVE  /\ Item(p, i).source \in DOMAIN LayersOf
         /\ Item(p, i).type \in DOMAIN LayersOf[Item(p, i).source] \cup {AnyType}
         /\ \A t \in DOMAIN LayersOf[Item(p, i).source] : LayersOf[Item(p, i).source][t] \subseteq Path
BY ItemIs, FetchAssumption DEF Declared

LEMMA PulledIs ==
  ASSUME Typed, NEW p \in Process, NEW g \in DOMAIN work[p], work[p][g].left # {}
  PROVE  LET h == Pulled(p, g, First(p, g)) IN
         /\ DOMAIN h = {"at", "ref", "files"} /\ h.at \in Nat /\ h.files \subseteq Path
         /\ h.at = remote[First(p, g).source]
         /\ First(p, g).kind # "oci" => h.files = FilesOf[First(p, g).source]
         /\ First(p, g).kind = "oci" => h.files = LayerFiles(p, g, First(p, g))
         /\ First(p, g).kind # "git" => h.ref = NoRef
<1> PICK d : d = First(p, g)
  OBVIOUS
<1>1. /\ d = Item(p, Current(p, g)) /\ Current(p, g) \in Items(p) /\ GroupOf(d) = g
      /\ d \in Dependency /\ d.source \in DOMAIN FilesOf /\ FilesOf[d.source] \subseteq Path
  BY CurrentIs
<1>2. d.kind \in {"git", "http", "helm", "oci"}
  BY <1>1 DEF Dependency
<1>3. remote[d.source] \in Nat
  BY <1>1 DEF Typed, RemoteTyped
<1>4. CASE d.kind # "oci"
  <2>1. Pulled(p, g, d) \in {Cloned(d), Downloaded(d), ChartPulled(d)}
    BY <1>2, <1>4 DEF Pulled
  <2>2. d.kind # "git" => Pulled(p, g, d).ref = NoRef
    BY <1>2, <1>4 DEF Pulled, Downloaded, ChartPulled
  <2> QED
    BY <1>1, <1>3, <1>4, <2>1, <2>2 DEF Cloned, Downloaded, ChartPulled
<1>5. CASE d.kind = "oci"
  <2>1. Pulled(p, g, d) = ImagePulled(p, g, d)
    BY <1>5 DEF Pulled
  <2>2. \A i \in work[p][g].left : i \in Items(p) /\ GroupOf(Item(p, i)) = g
    BY AtWork DEF Shaped
  <2>3. \A i \in work[p][g].left : Item(p, i).kind = "oci" /\ Item(p, i).source = d.source
    BY <1>1, <1>5, <2>2, GroupIs
  <2>4. project \in Projects
    BY DEF Typed
  <2>5. \A i \in work[p][g].left : Item(p, i).type \in DOMAIN LayersOf[d.source] \cup {AnyType}
    BY <2>2, <2>3, <2>4, LayersAre
  <2>6. \A t \in DOMAIN LayersOf[d.source] : LayersOf[d.source][t] \subseteq Path
    BY <1>1, <1>5, <2>4, LayersAre
  <2>7. LayerFiles(p, g, d) \subseteq Path
    BY <2>5, <2>6 DEF LayerFiles
  <2> QED
    BY <1>3, <1>5, <2>1, <2>7 DEF ImagePulled
<1> QED
  BY <1>4, <1>5

LEMMA CheckedOut ==
  ASSUME NEW d, NEW h, DOMAIN h = {"at", "ref", "files"}
  PROVE  LET k == Checkout(d, h) IN
         /\ DOMAIN k = {"at", "ref", "files"} /\ k.at = h.at /\ h.files \subseteq k.files
         /\ k.files \subseteq h.files \cup ModulesOf[d.source]
         /\ d.kind # "git" => k = h
         /\ d.kind = "git" =>
              /\ AskedRef(d) # NoRef => k.ref = AskedRef(d)
              /\ d.modules => ModulesOf[d.source] \subseteq k.files
BY DEF Checkout, AskedRef

LEMMA OfferedIs ==
  ASSUME CacheTyped, NEW d, NEW h, h.files \subseteq Path
  PROVE  Offered(d, h) \subseteq Path
BY DEF Offered, InCache, CacheTyped

LEMMA ContentIs ==
  ASSUME CacheTyped, NEW d, NEW h, h.at \in Nat, NEW f \in Offered(d, h)
  PROVE  LET x == ContentAt(d, h, f) IN
         /\ x.at \in Nat /\ x.source = d.source /\ x.path = f
         /\ Cached(d) => x = cache[ChartOf(d)][f] /\ x.ref = NoRef
         /\ ~Cached(d) => x.at = h.at /\ x.ref = h.ref
<1>1. CASE Cached(d)
  <2>1. ChartOf(d) \in DOMAIN cache /\ f \in DOMAIN cache[ChartOf(d)]
    BY <1>1 DEF Offered, InCache
  <2>2. ChartOf(d)[1] = d.source
    BY DEF ChartOf
  <2> QED
    BY <1>1, <2>1, <2>2 DEF ContentAt, CacheTyped
<1>2. CASE ~Cached(d)
  BY <1>2 DEF ContentAt, Content
<1> QED
  BY <1>1, <1>2

(* ----------------------- What each action does. ------------------------ *)

(* One group of one process makes progress, *)
Becomes(p, g, step, left, held, todo) ==
  /\ project' = project
  /\ DOMAIN work' = Process /\ DOMAIN work'[p] = DOMAIN work[p]
  /\ \A h \in DOMAIN work[p] \ {g} : work'[p][h] = work[p][h]
  /\ \A q \in Process \ {p} : work'[q] = work[q]
  /\ DOMAIN work'[p][g] = Fields
  /\ work'[p][g].step = step /\ work'[p][g].left = left
  /\ work'[p][g].held = held /\ work'[p][g].todo = todo

(* and the run of that process has fetched, or failed to fetch, items.     *)
Accounted(p, fetched, failed) ==
  /\ DOMAIN run' = Process /\ \A q \in Process \ {p} : run'[q] = run[q]
  /\ DOMAIN run'[p] = RunFields
  /\ run'[p].phase = "fetch" /\ run'[p].flags = run[p].flags /\ run'[p].skipped = run[p].skipped
  /\ run'[p].fetched = run[p].fetched \cup fetched /\ run'[p].failed = run[p].failed \cup failed

LEMMA GoDoes ==
  ASSUME Typed, NEW p \in Process, NEW g \in DOMAIN work[p], project' = project,
         NEW w, Go(p, g, w), DOMAIN w = Fields
  PROVE  Becomes(p, g, w.step, w.left, w.held, w.todo)
BY DEF Typed, Go, Becomes

LEMMA FailDoes ==
  ASSUME Typed, NEW p \in Process, NEW g \in DOMAIN work[p], project' = project,
         NEW is, NEW next, Fail(p, g, is, next)
  PROVE  LET w == work[p][g] IN
         /\ Becomes(p, g, next, w.left \ is, w.held, {}) /\ Accounted(p, {}, is) /\ smooth' = FALSE
<1> DEFINE w == [work[p][g] EXCEPT !.left = @ \ is, !.step = next, !.todo = {}, !.file = NoFile]
<1>1. DOMAIN work[p][g] = Fields /\ DOMAIN run[p] = RunFields /\ run[p].phase = "fetch"
  BY AtWork DEF Shaped
<1>2. /\ DOMAIN w = Fields /\ w.step = next /\ w.left = work[p][g].left \ is
      /\ w.held = work[p][g].held /\ w.todo = {}
  BY <1>1 DEF Fields
<1>3. Go(p, g, w) /\ run' = [run EXCEPT ![p].failed = @ \cup is] /\ smooth' = FALSE
  BY DEF Fail
<1> HIDE DEF w
<1>4. Becomes(p, g, next, work[p][g].left \ is, work[p][g].held, {})
  BY <1>2, <1>3, GoDoes
<1>5. Accounted(p, {}, is)
  BY <1>1, <1>3 DEF Accounted, Typed, RunFields
<1> QED
  BY <1>3, <1>4, <1>5

LEMMA TakeDoes ==
  ASSUME Typed, NEW p \in Process, NEW g \in DOMAIN work[p], Take(p, g)
  PROVE  LET w == work[p][g]
             d == First(p, g)
         IN /\ w.step = "waiting" /\ w.left # {}
            /\ \E step \in {"pull", "next"} :
                 /\ Becomes(p, g, step, w.left, w.held, w.todo)
                 /\ step = "next" => /\ Cached(d) /\ ChartOf(d) \in DOMAIN cache
                                     /\ ~AnyForced(p, g)
            /\ Cached(d) => disturbed' = IF Others(p, g, ChartOf(d)) # {}
                                         THEN disturbed \cup {ChartOf(d)} ELSE disturbed
            /\ ~Cached(d) => disturbed' = disturbed
            /\ UNCHANGED << tree, cache, remote, run, smooth >>
<1> DEFINE known == /\ Cached(First(p, g)) /\ ChartOf(First(p, g)) \in DOMAIN cache
                    /\ ~AnyForced(p, g)
           step == IF known THEN "next" ELSE "pull"
           w == [work[p][g] EXCEPT !.step = step]
<1>1. DOMAIN work[p][g] = Fields /\ (work[p][g].step = "waiting" => work[p][g].left # {})
  BY AtWork DEF Shaped
<1>2. /\ DOMAIN w = Fields /\ w.step = step /\ w.left = work[p][g].left
      /\ w.held = work[p][g].held /\ w.todo = work[p][g].todo
  BY <1>1 DEF Fields
<1>3. Go(p, g, w) /\ project' = project
  BY DEF Take
<1> HIDE DEF w
<1>4. Becomes(p, g, step, work[p][g].left, work[p][g].held, work[p][g].todo)
  BY <1>2, <1>3, GoDoes
<1>5. step \in {"pull", "next"} /\ (step = "next" => known)
  OBVIOUS
<1> HIDE DEF step
<1> QED
  BY <1>1, <1>4, <1>5 DEF Take

LEMMA PullDoes ==
  ASSUME Typed, NEW p \in Process, NEW g \in DOMAIN work[p], Pull(p, g)
  PROVE  LET w == work[p][g]
             d == First(p, g)
         IN /\ w.step = "pull" /\ w.left # {}
            /\ \/ /\ Becomes(p, g, IF Cached(d) THEN "drop" ELSE "next", w.left,
                             Pulled(p, g, d), w.todo)
                  /\ UNCHANGED << run, smooth >>
               \/ /\ Becomes(p, g, "ended", {}, w.held, {}) /\ Accounted(p, {}, w.left)
                  /\ smooth' = FALSE
            /\ UNCHANGED << tree, cache, remote, disturbed >>
<1> DEFINE step == IF Cached(First(p, g)) THEN "drop" ELSE "next"
           held == Pulled(p, g, First(p, g))
           w == [work[p][g] EXCEPT !.held = held, !.step = step]
<1>1. DOMAIN work[p][g] = Fields /\ (work[p][g].step = "pull" => work[p][g].left # {})
  BY AtWork DEF Shaped
<1>2. /\ DOMAIN w = Fields /\ w.step = step /\ w.left = work[p][g].left
      /\ w.held = held /\ w.todo = work[p][g].todo
  BY <1>1 DEF Fields
<1>3. project' = project /\ UNCHANGED << tree, cache, remote, disturbed >> /\ work[p][g].step = "pull"
  BY DEF Pull
<1>4. CASE Go(p, g, w) /\ UNCHANGED << run, smooth >>
  <2> HIDE DEF w, step, held
  <2>1. Becomes(p, g, step, work[p][g].left, held, work[p][g].todo)
    BY <1>2, <1>3, <1>4, GoDoes
  <2> QED
    BY <1>1, <1>3, <1>4, <2>1 DEF step, held
<1>5. CASE Fail(p, g, work[p][g].left, "ended")
  <2>1. work[p][g].left \ work[p][g].left = {}
    OBVIOUS
  <2> QED
    BY <1>1, <1>3, <1>5, <2>1, FailDoes
<1>6. (Go(p, g, w) /\ UNCHANGED << run, smooth >>) \/ Fail(p, g, work[p][g].left, "ended")
  BY DEF Pull
<1> QED
  BY <1>4, <1>5, <1>6

LEMMA GoStep ==
  ASSUME Typed, NEW p \in Process, NEW g \in DOMAIN work[p], project' = project,
         NEW step, Go(p, g, [work[p][g] EXCEPT !.step = step])
  PROVE  LET w == work[p][g] IN Becomes(p, g, step, w.left, w.held, w.todo)
<1> PICK w : w = [work[p][g] EXCEPT !.step = step]
  OBVIOUS
<1>1. DOMAIN work[p][g] = Fields
  BY AtWork DEF Shaped
<1>2. /\ DOMAIN w = Fields /\ w.step = step /\ w.left = work[p][g].left
      /\ w.held = work[p][g].held /\ w.todo = work[p][g].todo
  BY <1>1 DEF Fields
<1>3. Go(p, g, w)
  OBVIOUS
<1> QED
  BY <1>2, <1>3, GoDoes

LEMMA GoTodo ==
  ASSUME Typed, NEW p \in Process, NEW g \in DOMAIN work[p], project' = project,
         NEW todo, Go(p, g, [work[p][g] EXCEPT !.todo = todo])
  PROVE  LET w == work[p][g] IN Becomes(p, g, w.step, w.left, w.held, todo)
<1> PICK w : w = [work[p][g] EXCEPT !.todo = todo]
  OBVIOUS
<1>1. DOMAIN work[p][g] = Fields
  BY AtWork DEF Shaped
<1>2. /\ DOMAIN w = Fields /\ w.step = work[p][g].step /\ w.left = work[p][g].left
      /\ w.held = work[p][g].held /\ w.todo = todo
  BY <1>1 DEF Fields
<1>3. Go(p, g, w)
  OBVIOUS
<1> QED
  BY <1>2, <1>3, GoDoes

LEMMA GoStepTodo ==
  ASSUME Typed, NEW p \in Process, NEW g \in DOMAIN work[p], project' = project,
         NEW step, NEW todo, Go(p, g, [work[p][g] EXCEPT !.step = step, !.todo = todo])
  PROVE  LET w == work[p][g] IN Becomes(p, g, step, w.left, w.held, todo)
<1> PICK w : w = [work[p][g] EXCEPT !.step = step, !.todo = todo]
  OBVIOUS
<1>1. DOMAIN work[p][g] = Fields
  BY AtWork DEF Shaped
<1>2. /\ DOMAIN w = Fields /\ w.step = step /\ w.left = work[p][g].left
      /\ w.held = work[p][g].held /\ w.todo = todo
  BY <1>1 DEF Fields
<1>3. Go(p, g, w)
  OBVIOUS
<1> QED
  BY <1>2, <1>3, GoDoes

LEMMA ListCachedDoes ==
  ASSUME Typed, NEW p \in Process, NEW g \in DOMAIN work[p], ListCached(p, g)
  PROVE  LET w == work[p][g] IN
         /\ w.step = "drop" /\ w.left # {}
         /\ Becomes(p, g, "dropping", w.left, w.held, InCache(ChartOf(First(p, g))))
         /\ UNCHANGED << tree, cache, remote, run, smooth, disturbed >>
<1>1. work[p][g].step = "drop" => work[p][g].left # {}
  BY AtWork DEF Shaped
<1> QED
  BY <1>1, GoStepTodo DEF ListCached

LEMMA DropCachedDoes ==
  ASSUME Typed, NEW p \in Process, NEW g \in DOMAIN work[p], DropCached(p, g)
  PROVE  LET w == work[p][g]
             c == ChartOf(First(p, g))
         IN /\ w.step = "dropping" /\ w.left # {}
            /\ \/ \E f \in w.todo :
                    /\ Becomes(p, g, "dropping", w.left, w.held, w.todo \ {f})
                    /\ cache' = IF f \in InCache(c) THEN [cache EXCEPT ![c] = Without(@, f)]
                                ELSE cache
               \/ /\ w.todo = {} /\ Becomes(p, g, "store", w.left, w.held, w.todo)
                  /\ cache' = IF InCache(c) = {} THEN Without(cache, c) ELSE cache
            /\ UNCHANGED << tree, remote, run, smooth, disturbed >>
<1>1. work[p][g].step = "dropping" => work[p][g].left # {}
  BY AtWork DEF Shaped
<1>2. /\ work[p][g].step = "dropping" /\ project' = project
      /\ UNCHANGED << tree, remote, run, smooth, disturbed >>
  BY DEF DropCached
<1> DEFINE c == ChartOf(First(p, g))
<1>3. ASSUME NEW f \in work[p][g].todo,
             cache' = IF f \in InCache(c) THEN [cache EXCEPT ![c] = Without(@, f)] ELSE cache,
             Go(p, g, [work[p][g] EXCEPT !.todo = @ \ {f}])
      PROVE  Becomes(p, g, "dropping", work[p][g].left, work[p][g].held, work[p][g].todo \ {f})
  BY <1>2, <1>3, GoTodo
<1>4. ASSUME Go(p, g, [work[p][g] EXCEPT !.step = "store"])
      PROVE  Becomes(p, g, "store", work[p][g].left, work[p][g].held, work[p][g].todo)
  BY <1>2, <1>4, GoStep
<1> QED
  BY <1>1, <1>2, <1>3, <1>4 DEF DropCached

LEMMA StoreDoes ==
  ASSUME Typed, NEW p \in Process, NEW g \in DOMAIN work[p], Store(p, g)
  PROVE  LET w == work[p][g]
             d == First(p, g)
             c == ChartOf(d)
         IN /\ w.step = "store" /\ w.left # {}
            /\ \/ /\ InCache(c) = {} /\ project.oneDisk
                  /\ Becomes(p, g, "next", w.left, w.held, w.todo)
                  /\ cache' = With(cache, c, [f \in w.held.files |-> Content(d, w.held, f)])
               \/ /\ ~ (project.oneDisk /\ InCache(c) = {})
                  /\ Becomes(p, g, "storing", w.left, w.held, w.held.files)
                  /\ cache' = With(cache, c, IF c \in DOMAIN cache THEN cache[c] ELSE << >>)
            /\ UNCHANGED << tree, remote, run, smooth, disturbed >>
<1>1. work[p][g].step = "store" => work[p][g].left # {}
  BY AtWork DEF Shaped
<1>2. /\ work[p][g].step = "store" /\ project' = project
      /\ UNCHANGED << tree, remote, run, smooth, disturbed >>
  BY DEF Store
<1>3. ASSUME Go(p, g, [work[p][g] EXCEPT !.step = "next"])
      PROVE  Becomes(p, g, "next", work[p][g].left, work[p][g].held, work[p][g].todo)
  BY <1>2, <1>3, GoStep
<1>4. ASSUME Go(p, g, [work[p][g] EXCEPT !.step = "storing", !.todo = work[p][g].held.files])
      PROVE  Becomes(p, g, "storing", work[p][g].left, work[p][g].held, work[p][g].held.files)
  BY <1>2, <1>4, GoStepTodo
<1> QED
  BY <1>1, <1>2, <1>3, <1>4 DEF Store

(* A file of the chart is removed, or copied, or cannot be copied. *)
Empties(p, g, f) ==
  LET w == work[p][g]
      c == ChartOf(First(p, g))
  IN /\ f \in InCache(c) /\ cache' = [cache EXCEPT ![c] = Without(@, f)]
     /\ work' = work /\ Becomes(p, g, "storing", w.left, w.held, w.todo)
     /\ UNCHANGED << project, run, smooth, disturbed >>

Stores(p, g, f) ==
  LET w == work[p][g]
      d == First(p, g)
      c == ChartOf(d)
  IN /\ c \in DOMAIN cache
     /\ Becomes(p, g, "storing", w.left, w.held, w.todo \ {f})
     /\ cache' = [cache EXCEPT ![c] = With(@, f, Content(d, w.held, f))]
     /\ UNCHANGED << run, smooth, disturbed >>

Breaks(p, g) ==
  LET w == work[p][g]
      c == ChartOf(First(p, g))
  IN /\ cache' = cache /\ smooth' = FALSE
     /\ c \in DOMAIN cache => c \in disturbed'
     /\ Becomes(p, g, "ended", {}, w.held, {}) /\ Accounted(p, {}, w.left)

LEMMA StoreFileDoes ==
  ASSUME Typed, NEW p \in Process, NEW g \in DOMAIN work[p], StoreFile(p, g)
  PROVE  LET w == work[p][g] IN
         /\ w.step = "storing" /\ w.left # {}
         /\ \/ /\ w.todo = {} /\ Becomes(p, g, "next", w.left, w.held, w.todo)
               /\ UNCHANGED << cache, run, smooth, disturbed >>
            \/ \E f \in w.todo : Empties(p, g, f)
            \/ \E f \in w.todo : Stores(p, g, f)
            \/ Breaks(p, g)
         /\ UNCHANGED << tree, remote >>
<1>1. work[p][g].step = "storing" => work[p][g].left # {}
  BY AtWork DEF Shaped
<1>2. /\ work[p][g].step = "storing" /\ project' = project
      /\ UNCHANGED << tree, remote >>
  BY DEF StoreFile
<1> DEFINE w == work[p][g]
           d == First(p, g)
           c == ChartOf(d)
<1>3. ASSUME w.todo = {}, Go(p, g, [w EXCEPT !.step = "next"])
      PROVE  Becomes(p, g, "next", w.left, w.held, w.todo)
  BY <1>2, <1>3, GoStep
<1>4. ASSUME NEW f \in w.todo, Go(p, g, [w EXCEPT !.todo = @ \ {f}])
      PROVE  Becomes(p, g, "storing", w.left, w.held, w.todo \ {f})
  BY <1>2, <1>4, GoTodo
<1>5. ASSUME Fail(p, g, w.left, "ended")
      PROVE  /\ Becomes(p, g, "ended", {}, w.held, {}) /\ Accounted(p, {}, w.left)
             /\ smooth' = FALSE
  <2>1. w.left \ w.left = {}
    OBVIOUS
  <2> QED
    BY <1>2, <1>5, <2>1, FailDoes
<1>6. \/ /\ w.todo = {} /\ UNCHANGED << cache, run, smooth, disturbed >>
         /\ Go(p, g, [w EXCEPT !.step = "next"])
      \/ \E f \in w.todo :
            /\ f \in InCache(c) /\ cache' = [cache EXCEPT ![c] = Without(@, f)]
            /\ UNCHANGED << run, work, smooth, disturbed >>
      \/ \E f \in w.todo : /\ c \in DOMAIN cache
                           /\ cache' = [cache EXCEPT ![c] = With(@, f, Content(d, w.held, f))]
                           /\ Go(p, g, [w EXCEPT !.todo = @ \ {f}])
                           /\ UNCHANGED << run, smooth, disturbed >>
      \/ /\ cache' = cache /\ (c \in DOMAIN cache => c \in disturbed')
         /\ Fail(p, g, w.left, "ended")
  <2>1. /\ project' = project
        /\ \/ w.todo = {} /\ UNCHANGED << cache, run, faults, smooth, disturbed >>
                 /\ Go(p, g, [w EXCEPT !.step = "next"])
           \/ \E f \in w.todo :
                 /\ f \in InCache(c) /\ cache' = [cache EXCEPT ![c] = Without(@, f)]
                 /\ UNCHANGED << run, work, faults, smooth, disturbed >>
           \/ \E f \in w.todo :
                 /\ c \in DOMAIN cache
                 /\ cache' = [cache EXCEPT ![c] = With(@, f, Content(d, w.held, f))]
                 /\ Go(p, g, [w EXCEPT !.todo = @ \ {f}])
                 /\ UNCHANGED << run, faults, smooth, disturbed >>
           \/ /\ c \notin DOMAIN cache /\ UNCHANGED << cache, faults, disturbed >>
              /\ Fail(p, g, w.left, "ended")
           \/ /\ UNCHANGED cache
              /\ Fail(p, g, w.left, "ended") /\ disturbed' = disturbed \cup {c}
    BY DEF StoreFile
  <2> HIDE DEF w, d
  <2> QED
    BY <2>1
<1>9. w.step = "storing" /\ DOMAIN w = Fields
  BY <1>2, AtWork DEF Shaped
<1>10. ASSUME work' = work PROVE Becomes(p, g, "storing", w.left, w.held, w.todo)
  BY <1>2, <1>9, <1>10 DEF Becomes, Typed
<1> HIDE DEF w, d
<1>11. ASSUME NEW f \in w.todo, f \in InCache(c), cache' = [cache EXCEPT ![c] = Without(@, f)],
              UNCHANGED << run, work, smooth, disturbed >>
       PROVE  Empties(p, g, f)
  BY <1>2, <1>10, <1>11 DEF Empties, w, d
<1>7. ASSUME cache' = cache, c \in DOMAIN cache => c \in disturbed', Fail(p, g, w.left, "ended")
      PROVE  Breaks(p, g)
  BY <1>5, <1>7 DEF Breaks, w, d
<1>8. ASSUME NEW f \in w.todo, c \in DOMAIN cache,
             cache' = [cache EXCEPT ![c] = With(@, f, Content(d, w.held, f))],
             Go(p, g, [w EXCEPT !.todo = @ \ {f}]), UNCHANGED << run, smooth, disturbed >>
      PROVE  Stores(p, g, f)
  BY <1>4, <1>8 DEF Stores, w, d
<1> QED
  BY <1>1, <1>2, <1>3, <1>6, <1>7, <1>8, <1>11 DEF w

LEMMA BeginDoes ==
  ASSUME Typed, NEW p \in Process, NEW g \in DOMAIN work[p], Begin(p, g)
  PROVE  LET w == work[p][g]
             d == First(p, g)
             held == Checkout(d, w.held)
         IN /\ w.step = "next"
            /\ \/ /\ w.left = {} /\ Becomes(p, g, "ended", {}, w.held, w.todo)
                  /\ UNCHANGED << dirs, run, smooth >>
               \/ /\ w.left # {}
                  /\ Becomes(p, g, "next", w.left \ {Current(p, g)}, w.held, {})
                  /\ Accounted(p, {}, {Current(p, g)}) /\ smooth' = FALSE
                  /\ dirs \subseteq dirs' /\ dirs' \subseteq dirs \cup Ancestors(d.dest)
               \/ /\ w.left # {} /\ ~NoSource(d, held)
                  /\ Becomes(p, g, "copy", w.left, held, Under(Offered(d, held), d.sub))
                  /\ dirs' = dirs \cup Ancestors(IF Plain(d) THEN Front(d.dest) ELSE d.dest)
                  /\ UNCHANGED << run, smooth >>
            /\ UNCHANGED << disk, gone, cache, remote, disturbed >>
<1> DEFINE w == work[p][g]
           d == First(p, g)
           held == Checkout(d, w.held)
           todo == Under(Offered(d, held), d.sub)
<1>1. /\ w.step = "next" /\ project' = project
      /\ UNCHANGED << disk, gone, cache, remote, disturbed >>
  BY DEF Begin
<1>2. ASSUME w.left = {}, Go(p, g, [w EXCEPT !.step = "ended"])
      PROVE  Becomes(p, g, "ended", {}, w.held, w.todo)
  BY <1>1, <1>2, GoStep
<1>3. ASSUME Fail(p, g, {Current(p, g)}, "next")
      PROVE  /\ Becomes(p, g, "next", w.left \ {Current(p, g)}, w.held, {})
             /\ Accounted(p, {}, {Current(p, g)}) /\ smooth' = FALSE
  BY <1>1, <1>3, FailDoes
<1>4. ASSUME Go(p, g, [w EXCEPT !.step = "copy", !.held = held, !.todo = todo])
      PROVE  Becomes(p, g, "copy", w.left, held, todo)
  <2> PICK v : v = [w EXCEPT !.step = "copy", !.held = held, !.todo = todo]
    OBVIOUS
  <2>1. DOMAIN w = Fields
    BY AtWork DEF Shaped
  <2>2. DOMAIN v = Fields /\ v.step = "copy" /\ v.left = w.left /\ v.held = held /\ v.todo = todo
    BY <2>1 DEF Fields
  <2>3. Go(p, g, v)
    BY <1>4
  <2> HIDE DEF w, held, todo
  <2> QED
    BY <1>1, <2>2, <2>3, GoDoes
<1>5. \/ /\ w.left = {} /\ Go(p, g, [w EXCEPT !.step = "ended"])
         /\ UNCHANGED << dirs, run, smooth >>
      \/ /\ w.left # {} /\ Fail(p, g, {Current(p, g)}, "next")
         /\ dirs' = dirs \cup Ancestors(d.dest) \/ dirs' = dirs
      \/ /\ w.left # {} /\ ~NoSource(d, held)
         /\ Go(p, g, [w EXCEPT !.step = "copy", !.held = held, !.todo = todo])
         /\ dirs' = dirs \cup Ancestors(IF Plain(d) THEN Front(d.dest) ELSE d.dest)
         /\ UNCHANGED << run, smooth >>
  BY DEF Begin
<1> HIDE DEF w, d, held, todo
<1> QED
  BY <1>1, <1>2, <1>3, <1>4, <1>5 DEF w, d, held, todo

(* A file of the current item is written, *)
Fills(p, g) == CopyFile(p, g) \/ WriteFile(p, g)

Lands(p, g, f) ==
  LET d == First(p, g)
      w == work[p][g]
  IN /\ f = w.file /\ f \in w.todo /\ f \in Offered(d, w.held)
     /\ disk' = With(disk, Place(d, f), ContentAt(d, w.held, f))
     /\ gone' = gone \ {Place(d, f)}

(* and done with, or it was there; *)
Completes(p, g, f) ==
  LET d == First(p, g)
      w == work[p][g]
  IN /\ f \in w.todo /\ f \in Offered(d, w.held)
     /\ Becomes(p, g, "copy", w.left, w.held, w.todo \ {f}) /\ work'[p][g].file = NoFile
     /\ \/ /\ w.file = NoFile /\ IsFile(Place(d, f)) /\ ~Replaces(p, g)
           /\ UNCHANGED << disk, gone >>
        \/ Lands(p, g, f)
     /\ UNCHANGED << dirs, run, smooth >>

(* it is about to be written; *)
Opening(p, g, f) ==
  LET d == First(p, g)
      w == work[p][g]
      place == Place(d, f)
  IN /\ f \in w.todo /\ f \in Offered(d, w.held) /\ w.file = NoFile
     /\ Becomes(p, g, "copy", w.left, w.held, w.todo) /\ work'[p][g].file = f
     /\ disk' = disk /\ gone \subseteq gone' /\ gone' \subseteq gone \cup {place}
     /\ dirs' = dirs \cup Ancestors(Front(place)) /\ (IsFile(place) => Replaces(p, g))
     /\ UNCHANGED << run, smooth >>

(* or it cannot be written, perhaps after a part of it was.                *)
Misses(p, g) ==
  LET w == work[p][g] IN
  /\ Becomes(p, g, "next", w.left \ {Current(p, g)}, w.held, {}) /\ work'[p][g].file = NoFile
  /\ Accounted(p, {}, {Current(p, g)}) /\ smooth' = FALSE
  /\ \/ UNCHANGED << disk, gone >>
     \/ \E f \in w.todo : Lands(p, g, f)
  /\ dirs' = dirs

LEMMA GoIs ==
  ASSUME Typed, NEW p \in Process, NEW g \in DOMAIN work[p], NEW w, Go(p, g, w)
  PROVE  work'[p][g] = w
BY DEF Typed, Go

LEMMA FailRests ==
  ASSUME Typed, NEW p \in Process, NEW g \in DOMAIN work[p], NEW is, NEW next, Fail(p, g, is, next)
  PROVE  work'[p][g].file = NoFile
<1> PICK w : w = [work[p][g] EXCEPT !.left = @ \ is, !.step = next, !.todo = {}, !.file = NoFile]
  OBVIOUS
<1>1. DOMAIN work[p][g] = Fields
  BY AtWork DEF Shaped
<1>2. w.file = NoFile
  BY <1>1 DEF Fields
<1>3. work'[p][g] = w
  BY GoIs DEF Fail
<1> QED
  BY <1>2, <1>3

LEMMA CopyFileDoes ==
  ASSUME Typed, NEW p \in Process, NEW g \in DOMAIN work[p], CopyFile(p, g)
  PROVE  /\ work[p][g].step = "copy" /\ work[p][g].left # {}
         /\ \/ Misses(p, g)
            \/ \E f \in work[p][g].todo : Completes(p, g, f)
            \/ \E f \in work[p][g].todo : Opening(p, g, f)
         /\ UNCHANGED << cache, remote, disturbed >>
<1> DEFINE w == work[p][g]
           d == First(p, g)
<1>1. /\ w.step = "copy" /\ w.file = NoFile /\ project' = project
      /\ UNCHANGED << cache, remote, disturbed >>
  BY DEF CopyFile
<1>2. w.left # {} /\ DOMAIN w = Fields
  BY <1>1, AtWork DEF Shaped
<1>3. ASSUME Fail(p, g, {Current(p, g)}, "next"), UNCHANGED tree
      PROVE  Misses(p, g)
  BY <1>1, <1>3, FailDoes, FailRests DEF Misses, tree
<1>4. ASSUME NEW f \in w.todo, Go(p, g, [w EXCEPT !.todo = @ \ {f}])
      PROVE  Becomes(p, g, "copy", w.left, w.held, w.todo \ {f}) /\ work'[p][g].file = NoFile
  <2>1. Becomes(p, g, "copy", w.left, w.held, w.todo \ {f})
    BY <1>1, <1>4, GoTodo
  <2>2. work'[p][g] = [w EXCEPT !.todo = @ \ {f}]
    BY <1>4, GoIs
  <2> QED
    BY <1>1, <1>2, <2>1, <2>2 DEF Fields
<1>5. ASSUME NEW f \in w.todo, Go(p, g, [w EXCEPT !.file = f])
      PROVE  Becomes(p, g, "copy", w.left, w.held, w.todo) /\ work'[p][g].file = f
  <2> PICK v : v = [w EXCEPT !.file = f]
    OBVIOUS
  <2>1. /\ DOMAIN v = Fields /\ v.step = "copy" /\ v.left = w.left /\ v.held = w.held
        /\ v.todo = w.todo /\ v.file = f
    BY <1>1, <1>2 DEF Fields
  <2>2. Go(p, g, v)
    BY <1>5
  <2> HIDE DEF w
  <2>3. Becomes(p, g, "copy", w.left, w.held, w.todo)
    BY <1>1, <2>1, <2>2, GoDoes
  <2> QED
    BY <2>1, <2>2, <2>3, GoIs
<1>6. \E f \in w.todo :
        \/ Fail(p, g, {Current(p, g)}, "next") /\ UNCHANGED tree
        \/ /\ f \in Offered(d, w.held) /\ IsFile(Place(d, f)) /\ ~Replaces(p, g)
           /\ Go(p, g, [w EXCEPT !.todo = @ \ {f}]) /\ UNCHANGED << tree, run, smooth >>
        \/ /\ f \in Offered(d, w.held) /\ (IsFile(Place(d, f)) => Replaces(p, g))
           /\ Go(p, g, [w EXCEPT !.file = f]) /\ gone' \in Cleared(d, Place(d, f))
           /\ dirs' = dirs \cup Ancestors(Front(Place(d, f)))
           /\ UNCHANGED << disk, run, smooth >>
  BY DEF CopyFile, NoCopy
<1>7. ASSUME NEW place, gone' \in Cleared(d, place)
      PROVE  gone \subseteq gone' /\ gone' \subseteq gone \cup {place}
  BY <1>7 DEF Cleared
<1> HIDE DEF w, d
<1>8. ASSUME NEW f \in w.todo, f \in Offered(d, w.held), IsFile(Place(d, f)), ~Replaces(p, g),
             Go(p, g, [w EXCEPT !.todo = @ \ {f}]), UNCHANGED << tree, run, smooth >>
      PROVE  Completes(p, g, f)
  BY <1>1, <1>4, <1>8 DEF Completes, tree, w, d
<1>9. ASSUME NEW f \in w.todo, f \in Offered(d, w.held), IsFile(Place(d, f)) => Replaces(p, g),
             Go(p, g, [w EXCEPT !.file = f]), gone' \in Cleared(d, Place(d, f)),
             dirs' = dirs \cup Ancestors(Front(Place(d, f))), UNCHANGED << disk, run, smooth >>
      PROVE  Opening(p, g, f)
  BY <1>1, <1>5, <1>7, <1>9 DEF Opening, w, d
<1> QED
  BY <1>1, <1>2, <1>3, <1>6, <1>8, <1>9 DEF w

LEMMA GoTodoFile ==
  ASSUME Typed, NEW p \in Process, NEW g \in DOMAIN work[p], project' = project,
         NEW todo, NEW file, Go(p, g, [work[p][g] EXCEPT !.todo = todo, !.file = file])
  PROVE  LET w == work[p][g] IN
         Becomes(p, g, w.step, w.left, w.held, todo) /\ work'[p][g].file = file
<1> PICK w : w = [work[p][g] EXCEPT !.todo = todo, !.file = file]
  OBVIOUS
<1>1. DOMAIN work[p][g] = Fields
  BY AtWork DEF Shaped
<1>2. /\ DOMAIN w = Fields /\ w.step = work[p][g].step /\ w.left = work[p][g].left
      /\ w.held = work[p][g].held /\ w.todo = todo /\ w.file = file
  BY <1>1 DEF Fields
<1>3. Go(p, g, w)
  OBVIOUS
<1>4. Becomes(p, g, w.step, w.left, w.held, w.todo)
  BY <1>2, <1>3, GoDoes
<1> QED
  BY <1>2, <1>3, <1>4, GoIs

LEMMA WriteFileDoes ==
  ASSUME Typed, NEW p \in Process, NEW g \in DOMAIN work[p], WriteFile(p, g)
  PROVE  /\ work[p][g].step = "copy" /\ work[p][g].left # {}
         /\ \/ Misses(p, g)
            \/ \E f \in work[p][g].todo : Completes(p, g, f)
         /\ UNCHANGED << cache, remote, disturbed >>
<1> DEFINE w == work[p][g]
           d == First(p, g)
           f == work[p][g].file
<1>1. /\ w.step = "copy" /\ w.file # NoFile /\ project' = project /\ dirs' = dirs
      /\ UNCHANGED << cache, remote, disturbed >>
  BY DEF WriteFile
<1>2. w.left # {} /\ DOMAIN w = Fields /\ f \in w.todo
  BY <1>1, AtWork DEF Shaped, Filed
<1>3. ASSUME Written(p, g), ~NoCopy(d, w.held, w.file)
      PROVE  Lands(p, g, f)
  BY <1>2, <1>3 DEF Written, Lands, NoCopy
<1>4. ASSUME Fail(p, g, {Current(p, g)}, "next"), UNCHANGED << disk, gone >> \/ Lands(p, g, f)
      PROVE  Misses(p, g)
  BY <1>1, <1>2, <1>4, FailDoes, FailRests DEF Misses
<1>5. ASSUME Go(p, g, [w EXCEPT !.todo = @ \ {w.file}, !.file = NoFile]), Lands(p, g, f),
             UNCHANGED << run, smooth >>
      PROVE  Completes(p, g, f)
  <2> DEFINE todo == w.todo \ {f}
             file == NoFile
  <2>1. Go(p, g, [work[p][g] EXCEPT !.todo = todo, !.file = file])
    BY <1>5
  <2>4. project' = project
    BY <1>1
  <2> HIDE DEF todo, file
  <2>2. /\ Becomes(p, g, work[p][g].step, work[p][g].left, work[p][g].held, todo)
        /\ work'[p][g].file = file
    BY <2>1, <2>4, GoTodoFile
  <2>3. Becomes(p, g, "copy", w.left, w.held, w.todo \ {f}) /\ work'[p][g].file = NoFile
    BY <1>1, <2>2 DEF todo, file
  <2>5. f \in w.todo /\ f \in Offered(d, w.held)
    BY <1>5 DEF Lands, w
  <2> QED
    BY <1>1, <1>5, <2>3, <2>5 DEF Completes, w
<1>6. \/ /\ ~NoCopy(d, w.held, w.file) /\ Written(p, g) /\ UNCHANGED << run, smooth >>
         /\ Go(p, g, [w EXCEPT !.todo = @ \ {w.file}, !.file = NoFile])
      \/ Fail(p, g, {Current(p, g)}, "next") /\ UNCHANGED << disk, gone >>
      \/ /\ ~NoCopy(d, w.held, w.file) /\ Fail(p, g, {Current(p, g)}, "next")
         /\ (Written(p, g) \/ UNCHANGED << disk, gone >>)
  BY DEF WriteFile
<1> HIDE DEF w, d
<1> QED
  BY <1>1, <1>2, <1>3, <1>4, <1>5, <1>6 DEF w

LEMMA FillsDo ==
  ASSUME Typed, NEW p \in Process, NEW g \in DOMAIN work[p], Fills(p, g)
  PROVE  /\ work[p][g].step = "copy" /\ work[p][g].left # {}
         /\ \/ Misses(p, g)
            \/ \E f \in work[p][g].todo : Completes(p, g, f)
            \/ \E f \in work[p][g].todo : Opening(p, g, f)
         /\ UNCHANGED << cache, remote, disturbed >>
BY CopyFileDoes, WriteFileDoes DEF Fills

LEMMA FillsBecome ==
  ASSUME Typed, NEW p \in Process, NEW g \in DOMAIN work[p], Fills(p, g)
  PROVE  LET w == work[p][g] IN
         /\ w.step = "copy" /\ w.left # {}
         /\ \/ /\ Becomes(p, g, "next", w.left \ {Current(p, g)}, w.held, {})
               /\ Accounted(p, {}, {Current(p, g)}) /\ smooth' = FALSE
            \/ \E todo \in SUBSET w.todo :
                  /\ Becomes(p, g, "copy", w.left, w.held, todo)
                  /\ UNCHANGED << run, smooth >>
         /\ UNCHANGED << cache, remote, disturbed >>
<1>1. ASSUME NEW f \in work[p][g].todo, Completes(p, g, f)
      PROVE  \E todo \in SUBSET work[p][g].todo :
               /\ Becomes(p, g, "copy", work[p][g].left, work[p][g].held, todo)
               /\ UNCHANGED << run, smooth >>
  <2>1. work[p][g].todo \ {f} \in SUBSET work[p][g].todo
    OBVIOUS
  <2> QED
    BY <1>1, <2>1 DEF Completes
<1>2. ASSUME NEW f \in work[p][g].todo, Opening(p, g, f)
      PROVE  \E todo \in SUBSET work[p][g].todo :
               /\ Becomes(p, g, "copy", work[p][g].left, work[p][g].held, todo)
               /\ UNCHANGED << run, smooth >>
  BY <1>2 DEF Opening
<1> QED
  BY <1>1, <1>2, FillsDo DEF Misses

LEMMA CopiedDoes ==
  ASSUME Typed, NEW p \in Process, NEW g \in DOMAIN work[p], Copied(p, g)
  PROVE  LET w == work[p][g] IN
         /\ w.step = "copy" /\ w.todo = {} /\ w.left # {}
         /\ Becomes(p, g, "next", w.left \ {Current(p, g)}, w.held, {})
         /\ Accounted(p, {Current(p, g)}, {})
         /\ UNCHANGED << tree, cache, remote, smooth, disturbed >>
<1> DEFINE w == work[p][g]
<1> PICK v : v = [w EXCEPT !.left = @ \ {Current(p, g)}, !.step = "next"]
  OBVIOUS
<1>1. /\ w.step = "copy" /\ w.todo = {} /\ project' = project /\ Go(p, g, v)
      /\ run' = [run EXCEPT ![p].fetched = @ \cup {Current(p, g)}]
      /\ UNCHANGED << tree, cache, remote, smooth, disturbed >>
  BY DEF Copied
<1>2. DOMAIN w = Fields /\ w.left # {} /\ DOMAIN run[p] = RunFields /\ run[p].phase = "fetch"
  BY <1>1, AtWork DEF Shaped
<1>3. /\ DOMAIN v = Fields /\ v.step = "next" /\ v.left = w.left \ {Current(p, g)}
      /\ v.held = w.held /\ v.todo = {}
  BY <1>1, <1>2 DEF Fields
<1>4. Becomes(p, g, "next", w.left \ {Current(p, g)}, w.held, {})
  <2> HIDE DEF w
  <2> QED
    BY <1>1, <1>3, GoDoes
<1>5. Accounted(p, {Current(p, g)}, {})
  BY <1>1, <1>2 DEF Accounted, Typed, RunFields
<1> QED
  BY <1>1, <1>2, <1>4, <1>5

(* Only a copy has a file that is about to be written.                     *)
LEMMA FileRests ==
  ASSUME Typed, NEW p \in Process, NEW g \in DOMAIN work[p],
         \/ Take(p, g) \/ Pull(p, g) \/ ListCached(p, g) \/ DropCached(p, g) \/ Store(p, g)
         \/ StoreFile(p, g) \/ Begin(p, g) \/ Copied(p, g)
  PROVE  work'[p][g].file = NoFile
<1> DEFINE w == work[p][g]
<1>1. /\ DOMAIN w = Fields /\ ((w.step = "copy" /\ w.todo # {}) \/ w.file = NoFile)
      /\ DOMAIN work = Process
  BY AtWork DEF Shaped, Filed, Typed
<1>2. w.file = NoFile
  BY <1>1 DEF Take, Pull, ListCached, DropCached, Store, StoreFile, Begin, Copied
<1>3. ASSUME NEW step, Go(p, g, [w EXCEPT !.step = step]) PROVE work'[p][g].file = NoFile
  BY <1>1, <1>2, <1>3, GoIs DEF Fields
<1>4. ASSUME NEW todo, Go(p, g, [w EXCEPT !.todo = todo]) PROVE work'[p][g].file = NoFile
  BY <1>1, <1>2, <1>4, GoIs DEF Fields
<1>5. ASSUME NEW step, NEW todo, Go(p, g, [w EXCEPT !.step = step, !.todo = todo])
      PROVE  work'[p][g].file = NoFile
  BY <1>1, <1>2, <1>5, GoIs DEF Fields
<1>6. ASSUME NEW step, NEW held, Go(p, g, [w EXCEPT !.held = held, !.step = step])
      PROVE  work'[p][g].file = NoFile
  BY <1>1, <1>2, <1>6, GoIs DEF Fields
<1>7. ASSUME NEW step, NEW held, NEW todo,
             Go(p, g, [w EXCEPT !.step = step, !.held = held, !.todo = todo])
      PROVE  work'[p][g].file = NoFile
  BY <1>1, <1>2, <1>7, GoIs DEF Fields
<1>8. ASSUME NEW step, NEW left, Go(p, g, [w EXCEPT !.left = left, !.step = step])
      PROVE  work'[p][g].file = NoFile
  BY <1>1, <1>2, <1>8, GoIs DEF Fields
<1>9. ASSUME NEW is, NEW next, Fail(p, g, is, next) PROVE work'[p][g].file = NoFile
  BY <1>9, FailRests
<1>10. ASSUME work' = work PROVE work'[p][g].file = NoFile
  BY <1>2, <1>10
<1>11. CASE Take(p, g)
  BY <1>3, <1>11 DEF Take
<1>12. CASE Pull(p, g)
  BY <1>6, <1>9, <1>12 DEF Pull
<1>13. CASE ListCached(p, g)
  BY <1>5, <1>13 DEF ListCached
<1>14. CASE DropCached(p, g)
  BY <1>3, <1>4, <1>14 DEF DropCached
<1>15. CASE Store(p, g)
  BY <1>3, <1>5, <1>15 DEF Store
<1>16. CASE StoreFile(p, g)
  BY <1>3, <1>4, <1>9, <1>10, <1>16 DEF StoreFile
<1>17. CASE Begin(p, g)
  BY <1>3, <1>7, <1>9, <1>17 DEF Begin
<1>18. CASE Copied(p, g)
  BY <1>8, <1>18 DEF Copied
<1> QED
  BY <1>11, <1>12, <1>13, <1>14, <1>15, <1>16, <1>17, <1>18

LEMMA FiledRests ==
  ASSUME Typed, NEW p \in Process, NEW g \in DOMAIN work[p],
         \/ Take(p, g) \/ Pull(p, g) \/ ListCached(p, g) \/ DropCached(p, g) \/ Store(p, g)
         \/ StoreFile(p, g) \/ Begin(p, g) \/ Copied(p, g)
  PROVE  Filed(work'[p][g])
BY FileRests DEF Filed

(* A run begins. *)
Starts(p, f) ==
  /\ DOMAIN run' = Process /\ DOMAIN work' = Process
  /\ \A q \in Process \ {p} : run'[q] = run[q] /\ work'[q] = work[q]
  /\ DOMAIN run'[p] = RunFields /\ run'[p].phase = "fetch" /\ run'[p].flags = f
  /\ run'[p].skipped = Considered(p, f) \ Wanted(p, f)
  /\ run'[p].fetched = {} /\ run'[p].failed = {}
  /\ DOMAIN work'[p] = {GroupOf(Item(p, i)) : i \in Wanted(p, f)}
  /\ \A g \in DOMAIN work'[p] :
        /\ DOMAIN work'[p][g] = Fields
        /\ work'[p][g].step = "waiting" /\ work'[p][g].left = Group(p, g, f)
        /\ work'[p][g].held = Nothing /\ work'[p][g].todo = {}
        /\ work'[p][g].file = NoFile

LEMMA StartDoes ==
  ASSUME Typed, NEW p \in Process, Start(p)
  PROVE  /\ run[p].phase = "off"
         /\ \E f : DOMAIN f = {"all", "force", "only"} /\ Starts(p, f)
         /\ UNCHANGED << project, tree, cache, remote, smooth, disturbed >>
<1>1. /\ run[p].phase = "off" /\ UNCHANGED << project, tree, cache, remote, smooth, disturbed >>
  BY DEF Start
<1>2. PICK fl \in project.users[p].flags, only \in project.users[p].selections :
         LET f == [all |-> fl.all, force |-> fl.force, only |-> only]
             groups == {GroupOf(Item(p, i)) : i \in Wanted(p, f)}
         IN  /\ run' = [run EXCEPT ![p] =
                  [phase |-> "fetch", flags |-> f,
                   skipped |-> Considered(p, f) \ Wanted(p, f),
                   fetched |-> {}, failed |-> {}]]
             /\ work' = [work EXCEPT ![p] =
                  [g \in groups |-> [step |-> "waiting", left |-> Group(p, g, f),
                                     held |-> Nothing, todo |-> {}, file |-> NoFile]]]
  BY DEF Start
<1> PICK f : f = [all |-> fl.all, force |-> fl.force, only |-> only]
  OBVIOUS
<1> PICK r : r = [phase |-> "fetch", flags |-> f, skipped |-> Considered(p, f) \ Wanted(p, f),
                  fetched |-> {}, failed |-> {}]
  OBVIOUS
<1> PICK groups : groups = {GroupOf(Item(p, i)) : i \in Wanted(p, f)}
  OBVIOUS
<1> PICK v : v = [g \in groups |-> [step |-> "waiting", left |-> Group(p, g, f),
                                    held |-> Nothing, todo |-> {}, file |-> NoFile]]
  OBVIOUS
<1>3. run' = [run EXCEPT ![p] = r] /\ work' = [work EXCEPT ![p] = v]
  BY <1>2
<1>4. /\ DOMAIN run' = Process /\ DOMAIN work' = Process /\ run'[p] = r /\ work'[p] = v
      /\ \A q \in Process \ {p} : run'[q] = run[q] /\ work'[q] = work[q]
  BY <1>3 DEF Typed
<1>5. /\ DOMAIN r = RunFields /\ r.phase = "fetch" /\ r.flags = f
      /\ r.skipped = Considered(p, f) \ Wanted(p, f) /\ r.fetched = {} /\ r.failed = {}
  BY DEF RunFields
<1>6. DOMAIN v = groups
  OBVIOUS
<1>7. ASSUME NEW g \in groups
      PROVE  /\ DOMAIN v[g] = Fields /\ v[g].step = "waiting" /\ v[g].left = Group(p, g, f)
             /\ v[g].held = Nothing /\ v[g].todo = {} /\ v[g].file = NoFile
  BY DEF Fields
<1>8. DOMAIN f = {"all", "force", "only"} /\ Starts(p, f)
  BY <1>4, <1>5, <1>6, <1>7 DEF Starts
<1> QED
  BY <1>1, <1>8

(* A run ends, and leaves nothing but what is on the disk and in the cache.*)
Stops(p) ==
  /\ DOMAIN run' = Process /\ DOMAIN work' = Process
  /\ \A q \in Process \ {p} : run'[q] = run[q] /\ work'[q] = work[q]
  /\ run'[p] = Idle /\ work'[p] = NoWork
  /\ UNCHANGED << project, tree, cache, remote >>

LEMMA StopsAre ==
  ASSUME Typed, NEW p \in Process, Finish(p) \/ Crash(p)
  PROVE  Stops(p) /\ run[p].phase = "fetch"
BY DEF Typed, Stops, Finish, Crash, Over

(* ------------------------- Types are kept. ----------------------------- *)

LEMMA ItemsStay ==
  ASSUME project' = project
  PROVE  /\ Process' = Process
         /\ \A p, i : Items(p)' = Items(p) /\ Item(p, i)' = Item(p, i)
BY DEF Process, Items, Item

LEMMA TypedMoves ==
  ASSUME Typed, NEW p \in Process, NEW g \in DOMAIN work[p],
         NEW step \in Steps, NEW left \in SUBSET work[p][g].left, NEW held, NEW todo \in SUBSET Path,
         Becomes(p, g, step, left, held, todo), run' = run \/ \E a, b : Accounted(p, a, b),
         DOMAIN held = {"at", "ref", "files"}, held.at \in Nat, held.files \subseteq Path,
         left = {} => step \in {"next", "ended"}, step = "ended" => left = {},
         step \in Putting => Puts(g, held), step # "waiting", Filed(work'[p][g]),
         RemoteTyped', DiskTyped', CacheTyped'
  PROVE  Typed'
<1>1. project' = project /\ DOMAIN work' = Process /\ DOMAIN run' = Process
  BY DEF Becomes, Accounted, Typed
<1>2. Process' = Process /\ \A q, i : Items(q)' = Items(q) /\ Item(q, i)' = Item(q, i)
  BY <1>1, ItemsStay
<1>3. /\ DOMAIN run[p] = RunFields /\ run[p].phase = "fetch"
      /\ \A h \in DOMAIN work[p] : Shaped(p, h, work[p][h])
  BY AtWork
<1>4. DOMAIN run'[p] = RunFields /\ run'[p].phase = "fetch"
  BY <1>3 DEF Accounted
<1>5. ASSUME NEW h \in DOMAIN work'[p] PROVE Shaped(p, h, work[p][h])'
  <2>1. CASE h = g
    <3>1. left \subseteq Items(p) /\ \A i \in left : GroupOf(Item(p, i)) = g
      BY <1>3 DEF Shaped
    <3>2. /\ DOMAIN work'[p][g] = Fields /\ work'[p][g].step = step /\ work'[p][g].left = left
          /\ work'[p][g].held = held /\ work'[p][g].todo = todo
      BY DEF Becomes
    <3> QED
      BY <1>2, <2>1, <3>1, <3>2 DEF Shaped, Filed
  <2>2. CASE h # g
    <3>1. work'[p][h] = work[p][h] /\ h \in DOMAIN work[p]
      BY <2>2 DEF Becomes
    <3> QED
      BY <1>2, <1>3, <3>1 DEF Shaped, Filed
  <2> QED
    BY <2>1, <2>2
<1>6. ASSUME NEW q \in Process PROVE Running(q)'
  <2>1. CASE q = p
    BY <1>4, <1>5, <2>1 DEF Running
  <2>2. CASE q # p
    <3>1. work'[q] = work[q] /\ run'[q] = run[q]
      BY <2>2 DEF Becomes, Accounted
    <3>2. Running(q)
      BY DEF Typed
    <3> QED
      BY <1>2, <3>1, <3>2 DEF Running, Shaped, Filed
  <2> QED
    BY <2>1, <2>2
<1> QED
  BY <1>1, <1>2, <1>6 DEF Typed

LEMMA SameWorld ==
  ASSUME Typed, UNCHANGED << tree, cache, remote >>
  PROVE  RemoteTyped' /\ DiskTyped' /\ CacheTyped'
BY DEF Typed, tree, RemoteTyped, DiskTyped, CacheTyped

(* A group goes on with what it has; it gives up all its items.            *)
LEMMA TypedGoesOn ==
  ASSUME Typed, NEW p \in Process, NEW g \in DOMAIN work[p], work[p][g].left # {},
         NEW step \in Steps \ {"waiting", "ended"}, step \in Putting => work[p][g].step \in Putting,
         NEW todo, todo \subseteq Path,
         Becomes(p, g, step, work[p][g].left, work[p][g].held, todo), run' = run,
         Filed(work'[p][g]), RemoteTyped', DiskTyped', CacheTyped'
  PROVE  Typed'
<1>1. Shaped(p, g, work[p][g])
  BY AtWork
<1> PICK held, left : held = work[p][g].held /\ left = work[p][g].left
  OBVIOUS
<1>2. /\ DOMAIN held = {"at", "ref", "files"} /\ held.at \in Nat /\ held.files \subseteq Path
      /\ step \in Putting => Puts(g, held)
  BY <1>1 DEF Shaped
<1>3. left \in SUBSET work[p][g].left /\ left # {} /\ todo \in SUBSET Path
  OBVIOUS
<1>4. Becomes(p, g, step, left, held, todo)
  OBVIOUS
<1>5. step # "waiting" /\ step # "ended" /\ step \in Steps
  OBVIOUS
<1> QED
  BY <1>2, <1>3, <1>4, <1>5, TypedMoves

LEMMA TypedGivesUp ==
  ASSUME Typed, NEW p \in Process, NEW g \in DOMAIN work[p], NEW a,
         Becomes(p, g, "ended", {}, work[p][g].held, {}), Accounted(p, {}, a),
         Filed(work'[p][g]), RemoteTyped', DiskTyped', CacheTyped'
  PROVE  Typed'
<1> PICK held : held = work[p][g].held
  OBVIOUS
<1>1. /\ DOMAIN held = {"at", "ref", "files"} /\ held.at \in Nat /\ held.files \subseteq Path
  BY AtWork DEF Shaped
<1>2. "ended" \in Steps /\ "ended" \notin Putting
  BY DEF Steps, Putting
<1>3. {} \in SUBSET work[p][g].left /\ {} \in SUBSET Path /\ \E b, c : Accounted(p, b, c)
  OBVIOUS
<1>4. Becomes(p, g, "ended", {}, held, {})
  OBVIOUS
<1> QED
  BY <1>1, <1>2, <1>3, <1>4, TypedMoves

LEMMA TypedSame ==
  ASSUME Typed, UNCHANGED << project, run, work >>,
         RemoteTyped', DiskTyped', CacheTyped'
  PROVE  Typed'
<1>1. Process' = Process /\ \A q, i : Items(q)' = Items(q) /\ Item(q, i)' = Item(q, i)
  BY ItemsStay
<1>2. ASSUME NEW q \in Process PROVE Running(q)'
  <2>1. Running(q)
    BY DEF Typed
  <2> QED
    BY <1>1, <2>1 DEF Running, Shaped, Filed
<1> QED
  BY <1>1, <1>2 DEF Typed

LEMMA TypedTake ==
  ASSUME Typed, NEW p \in Process, NEW g \in DOMAIN work[p], Take(p, g)
  PROVE  Typed'
<1>0. Filed(work'[p][g])
  BY FiledRests
<1>1. work[p][g].todo \subseteq Path
  BY AtWork DEF Shaped
<1>2. PICK step \in {"pull", "next"} :
         Becomes(p, g, step, work[p][g].left, work[p][g].held, work[p][g].todo)
  BY TakeDoes
<1>3. work[p][g].left # {} /\ UNCHANGED << tree, cache, remote, run >>
  BY TakeDoes
<1>4. RemoteTyped' /\ DiskTyped' /\ CacheTyped' /\ run' = run
  BY <1>3, SameWorld
<1>5. step \in Steps \ {"waiting", "ended"} /\ step \notin Putting
  BY DEF Steps, Putting
<1> QED
  BY <1>0, <1>1, <1>2, <1>3, <1>4, <1>5, TypedGoesOn

LEMMA TypedPull ==
  ASSUME Typed, NEW p \in Process, NEW g \in DOMAIN work[p], Pull(p, g)
  PROVE  Typed'
<1>0. Filed(work'[p][g])
  BY FiledRests
<1> DEFINE w == work[p][g]
           held == Pulled(p, g, First(p, g))
           step == IF Cached(First(p, g)) THEN "drop" ELSE "next"
<1>1. Shaped(p, g, w)
  BY AtWork
<1>2. w.left # {} /\ UNCHANGED << tree, cache, remote >>
  BY PullDoes
<1>3. RemoteTyped' /\ DiskTyped' /\ CacheTyped'
  BY <1>2, SameWorld
<1>4. CASE Becomes(p, g, step, w.left, held, w.todo) /\ run' = run
  <2>1. DOMAIN held = {"at", "ref", "files"} /\ held.at \in Nat /\ held.files \subseteq Path
    BY <1>2, PulledIs
  <2>2. GroupOf(First(p, g)) = g
    BY <1>2, CurrentIs
  <2>3. step \in Steps /\ step # "waiting" /\ step # "ended" /\ (step \in Putting => Cached(First(p, g)))
    BY DEF Steps, Putting
  <2>4. Cached(First(p, g)) => Puts(g, held)
    <3>1. First(p, g).source = g[2] /\ (Cached(First(p, g)) => CachedGroup(g))
      BY <2>2, GroupIs
    <3>2. Cached(First(p, g)) => First(p, g).kind = "helm"
      BY DEF Cached
    <3> QED
      BY <1>2, <3>1, <3>2, PulledIs DEF Puts
  <2> HIDE DEF held, step
  <2> QED
    BY <1>0, <1>1, <1>2, <1>3, <1>4, <2>1, <2>3, <2>4, TypedMoves DEF Shaped
<1>5. CASE Becomes(p, g, "ended", {}, w.held, {}) /\ Accounted(p, {}, w.left)
  BY <1>0, <1>3, <1>5, TypedGivesUp
<1> QED
  BY <1>4, <1>5, PullDoes

LEMMA TypedListCached ==
  ASSUME Typed, NEW p \in Process, NEW g \in DOMAIN work[p], ListCached(p, g)
  PROVE  Typed'
<1>0. Filed(work'[p][g])
  BY FiledRests
<1> PICK todo : todo = InCache(ChartOf(First(p, g)))
  OBVIOUS
<1>1. /\ work[p][g].step = "drop" /\ work[p][g].left # {}
      /\ Becomes(p, g, "dropping", work[p][g].left, work[p][g].held, todo)
      /\ UNCHANGED << tree, cache, remote, run >>
  BY ListCachedDoes
<1>2. RemoteTyped' /\ DiskTyped' /\ CacheTyped' /\ run' = run
  BY <1>1, SameWorld
<1>3. todo \subseteq Path
  BY DEF Typed, CacheTyped, InCache
<1>4. "dropping" \in Steps \ {"waiting", "ended"} /\ work[p][g].step \in Putting
  BY <1>1 DEF Steps, Putting
<1> QED
  BY <1>0, <1>1, <1>2, <1>3, <1>4, TypedGoesOn

(* What the chart of a group that puts it into the cache is.               *)
LEMMA ChartIs ==
  ASSUME Typed, NEW p \in Process, NEW g \in DOMAIN work[p], work[p][g].left # {}, CachedGroup(g)
  PROVE  LET d == First(p, g) IN
         /\ Cached(d) /\ d.kind = "helm" /\ ChartOf(d) = ChartOfGroup(g)
         /\ ChartOf(d)[1] = d.source
BY CurrentIs, GroupIs DEF ChartOf, Cached

LEMMA TypedDropCached ==
  ASSUME Typed, NEW p \in Process, NEW g \in DOMAIN work[p], DropCached(p, g)
  PROVE  Typed'
<1>0. Filed(work'[p][g])
  BY FiledRests
<1> DEFINE w == work[p][g]
           c == ChartOf(First(p, g))
<1>1. w.todo \subseteq Path
  BY AtWork DEF Shaped
<1>2. w.step = "dropping" /\ w.left # {} /\ UNCHANGED << tree, remote, run >>
  BY DropCachedDoes
<1>3. RemoteTyped' /\ DiskTyped' /\ CacheTyped /\ run' = run
  BY <1>2 DEF Typed, tree, RemoteTyped, DiskTyped
<1>4. {"dropping", "store"} \subseteq Steps \ {"waiting", "ended"} /\ w.step \in Putting
  BY <1>2 DEF Steps, Putting
<1>5. ASSUME NEW f \in w.todo,
             Becomes(p, g, "dropping", w.left, w.held, w.todo \ {f}),
             cache' = IF f \in InCache(c) THEN [cache EXCEPT ![c] = Without(@, f)] ELSE cache
      PROVE  Typed'
  <2>1. ASSUME f \notin InCache(c) PROVE CacheTyped'
    BY <1>3, <1>5, <2>1 DEF CacheTyped
  <2>2. ASSUME f \in InCache(c) PROVE CacheTyped'
    <3>1. c \in DOMAIN cache
      BY <2>2 DEF InCache
    <3> PICK v : v = Without(cache[c], f)
      OBVIOUS
    <3>2. DOMAIN v \subseteq DOMAIN cache[c] /\ \A x \in DOMAIN v : v[x] = cache[c][x]
      BY DEF Without
    <3>3. /\ DOMAIN cache' = DOMAIN cache /\ cache'[c] = v
          /\ \A b \in DOMAIN cache \ {c} : cache'[b] = cache[b]
      BY <1>5, <2>2, <3>1
    <3> HIDE DEF c
    <3> QED
      BY <1>3, <3>1, <3>2, <3>3 DEF CacheTyped
  <2> PICK todo : todo = w.todo \ {f}
    OBVIOUS
  <2>3. CacheTyped' /\ todo \subseteq Path /\ Becomes(p, g, "dropping", w.left, w.held, todo)
    BY <1>1, <1>5, <2>1, <2>2
  <2> QED
    BY <1>0, <1>2, <1>3, <1>4, <2>3, TypedGoesOn
<1>6. ASSUME Becomes(p, g, "store", w.left, w.held, w.todo),
             cache' = IF InCache(c) = {} THEN Without(cache, c) ELSE cache
      PROVE  Typed'
  <2>1. DOMAIN cache' \subseteq DOMAIN cache /\ \A b \in DOMAIN cache' : cache'[b] = cache[b]
    BY <1>6 DEF Without
  <2>2. CacheTyped'
    BY <1>3, <2>1 DEF CacheTyped
  <2>3. Becomes(p, g, "store", w.left, w.held, w.todo)
    BY <1>6
  <2> QED
    BY <1>0, <1>1, <1>2, <1>3, <1>4, <2>2, <2>3, TypedGoesOn
<1> QED
  BY <1>5, <1>6, DropCachedDoes

LEMMA TypedStore ==
  ASSUME Typed, NEW p \in Process, NEW g \in DOMAIN work[p], Store(p, g)
  PROVE  Typed'
<1>0. Filed(work'[p][g])
  BY FiledRests
<1> DEFINE w == work[p][g]
           d == First(p, g)
           c == ChartOf(d)
<1>1. w.step = "store" /\ w.left # {} /\ UNCHANGED << tree, remote, run >>
  BY StoreDoes
<1>2. RemoteTyped' /\ DiskTyped' /\ CacheTyped /\ run' = run
  BY <1>1 DEF Typed, tree, RemoteTyped, DiskTyped
<1>3. {"next", "storing"} \subseteq Steps \ {"waiting", "ended"} /\ w.step \in Putting
  BY <1>1 DEF Steps, Putting
<1>4. w.todo \subseteq Path /\ w.held.files \subseteq Path /\ w.held.at \in Nat /\ w.held.ref = NoRef
  BY <1>3, AtWork DEF Shaped, Puts
<1>5. c[1] = d.source
  BY DEF ChartOf
<1>6. ASSUME NEW v, cache' = With(cache, c, v),
             DOMAIN v \subseteq Path,
             \A f \in DOMAIN v : /\ v[f].source = c[1] /\ v[f].ref = NoRef
                                 /\ v[f].path = f /\ v[f].at \in Nat
      PROVE  CacheTyped'
  <2>1. /\ DOMAIN cache' = DOMAIN cache \cup {c} /\ cache'[c] = v
        /\ \A b \in DOMAIN cache \ {c} : cache'[b] = cache[b]
    BY <1>6 DEF With
  <2> HIDE DEF c
  <2> QED
    BY <1>2, <1>6, <2>1 DEF CacheTyped
<1>7. ASSUME Becomes(p, g, "next", w.left, w.held, w.todo),
             cache' = With(cache, c, [f \in w.held.files |-> Content(d, w.held, f)])
      PROVE  Typed'
  <2> PICK v : v = [f \in w.held.files |-> Content(d, w.held, f)]
    OBVIOUS
  <2>1. /\ DOMAIN v \subseteq Path
        /\ \A f \in DOMAIN v : /\ v[f].source = c[1] /\ v[f].ref = NoRef
                                /\ v[f].path = f /\ v[f].at \in Nat
    BY <1>4, <1>5 DEF Content
  <2>2. CacheTyped'
    BY <1>6, <1>7, <2>1
  <2>3. Becomes(p, g, "next", w.left, w.held, w.todo)
    BY <1>7
  <2> QED
    BY <1>0, <1>1, <1>2, <1>3, <1>4, <2>2, <2>3, TypedGoesOn
<1>8. ASSUME Becomes(p, g, "storing", w.left, w.held, w.held.files),
             cache' = With(cache, c, IF c \in DOMAIN cache THEN cache[c] ELSE << >>)
      PROVE  Typed'
  <2> PICK v : v = IF c \in DOMAIN cache THEN cache[c] ELSE << >>
    OBVIOUS
  <2>1. /\ DOMAIN v \subseteq Path
        /\ \A f \in DOMAIN v : /\ v[f].source = c[1] /\ v[f].ref = NoRef
                                /\ v[f].path = f /\ v[f].at \in Nat
    <3> HIDE DEF c
    <3>1. c \notin DOMAIN cache => DOMAIN v = {}
      OBVIOUS
    <3>2. c \in DOMAIN cache => v = cache[c]
      OBVIOUS
    <3> QED
      BY <1>2, <3>1, <3>2 DEF CacheTyped
  <2>2. CacheTyped'
    BY <1>6, <1>8, <2>1
  <2>3. Becomes(p, g, "storing", w.left, w.held, w.held.files)
    BY <1>8
  <2> QED
    BY <1>0, <1>1, <1>2, <1>3, <1>4, <2>2, <2>3, TypedGoesOn
<1> QED
  BY <1>7, <1>8, StoreDoes

LEMMA TypedStoreFile ==
  ASSUME Typed, NEW p \in Process, NEW g \in DOMAIN work[p], StoreFile(p, g)
  PROVE  Typed'
<1>0. Filed(work'[p][g])
  BY FiledRests
<1> DEFINE w == work[p][g]
           d == First(p, g)
           c == ChartOf(d)
<1>1. w.step = "storing" /\ w.left # {} /\ UNCHANGED << tree, remote >>
  BY StoreFileDoes
<1>2. RemoteTyped' /\ DiskTyped' /\ CacheTyped
  BY <1>1 DEF Typed, tree, RemoteTyped, DiskTyped
<1>3. {"next", "storing"} \subseteq Steps \ {"waiting", "ended"} /\ w.step \in Putting
  BY <1>1 DEF Steps, Putting
<1>4. w.todo \subseteq Path /\ w.held.at \in Nat /\ w.held.ref = NoRef
  BY <1>3, AtWork DEF Shaped, Puts
<1>5. c[1] = d.source
  BY DEF ChartOf
<1>6. ASSUME Becomes(p, g, "next", w.left, w.held, w.todo), cache' = cache, run' = run
      PROVE  Typed'
  <2>1. CacheTyped' /\ Becomes(p, g, "next", w.left, w.held, w.todo) /\ run' = run
    BY <1>2, <1>6 DEF CacheTyped
  <2> QED
    BY <1>0, <1>1, <1>2, <1>3, <1>4, <2>1, TypedGoesOn
<1>7. ASSUME NEW f \in w.todo, Stores(p, g, f)
      PROVE  Typed'
  <2>0. /\ c \in DOMAIN cache /\ run' = run /\ Becomes(p, g, "storing", w.left, w.held, w.todo \ {f})
        /\ cache' = [cache EXCEPT ![c] = With(@, f, Content(d, w.held, f))]
    BY <1>7 DEF Stores
  <2> PICK x : x = Content(d, w.held, f)
    OBVIOUS
  <2>1. /\ x.source = c[1] /\ x.ref = NoRef /\ x.path = f /\ x.at \in Nat /\ f \in Path
    BY <1>4, <1>5 DEF Content
  <2> PICK v : v = With(cache[c], f, x)
    OBVIOUS
  <2>2. /\ DOMAIN v = DOMAIN cache[c] \cup {f} /\ v[f] = x
        /\ \A y \in DOMAIN cache[c] \ {f} : v[y] = cache[c][y]
    BY DEF With
  <2>3. /\ DOMAIN cache' = DOMAIN cache /\ cache'[c] = v
        /\ \A b \in DOMAIN cache \ {c} : cache'[b] = cache[b]
    BY <2>0
  <2>4. CacheTyped'
    <3> HIDE DEF c
    <3>1. /\ DOMAIN v \subseteq Path
          /\ \A y \in DOMAIN v : /\ v[y].source = c[1] /\ v[y].ref = NoRef
                                  /\ v[y].path = y /\ v[y].at \in Nat
      BY <1>2, <2>0, <2>1, <2>2 DEF CacheTyped
    <3> QED
      BY <1>2, <2>3, <3>1 DEF CacheTyped
  <2> PICK todo : todo = w.todo \ {f}
    OBVIOUS
  <2>5. todo \subseteq Path /\ Becomes(p, g, "storing", w.left, w.held, todo) /\ run' = run
    BY <1>4, <2>0
  <2> QED
    BY <1>0, <1>1, <1>2, <1>3, <2>4, <2>5, TypedGoesOn
<1>8. ASSUME Breaks(p, g) PROVE Typed'
  <2>1. CacheTyped' /\ Becomes(p, g, "ended", {}, w.held, {}) /\ Accounted(p, {}, w.left)
    BY <1>2, <1>8 DEF CacheTyped, Breaks
  <2> QED
    BY <1>0, <1>2, <2>1, TypedGivesUp
<1>9. ASSUME NEW f \in w.todo, Empties(p, g, f) PROVE Typed'
  <2>1. /\ f \in InCache(c) /\ cache' = [cache EXCEPT ![c] = Without(@, f)]
        /\ UNCHANGED << project, run, work >>
    BY <1>9 DEF Empties
  <2>2. c \in DOMAIN cache
    BY <2>1 DEF InCache
  <2> PICK v : v = Without(cache[c], f)
    OBVIOUS
  <2>3. DOMAIN v \subseteq DOMAIN cache[c] /\ \A x \in DOMAIN v : v[x] = cache[c][x]
    BY DEF Without
  <2>4. /\ DOMAIN cache' = DOMAIN cache /\ cache'[c] = v
        /\ \A b \in DOMAIN cache \ {c} : cache'[b] = cache[b]
    BY <2>1, <2>2
  <2>5. CacheTyped'
    <3> HIDE DEF c
    <3> QED
      BY <1>2, <2>2, <2>3, <2>4 DEF CacheTyped
  <2> QED
    BY <1>1, <1>2, <2>1, <2>5, TypedSame
<1> HIDE DEF w, d, c
<1>10. \/ Becomes(p, g, "next", w.left, w.held, w.todo) /\ cache' = cache /\ run' = run
       \/ \E f \in w.todo : Empties(p, g, f)
       \/ \E f \in w.todo : Stores(p, g, f)
       \/ Breaks(p, g)
  BY StoreFileDoes DEF w
<1> QED
  BY <1>6, <1>7, <1>8, <1>9, <1>10

(* The current item of a group leaves it. *)
LEMMA TypedLeaves ==
  ASSUME Typed, NEW p \in Process, NEW g \in DOMAIN work[p], NEW i, NEW a, NEW b,
         Becomes(p, g, "next", work[p][g].left \ {i}, work[p][g].held, {}), Accounted(p, a, b),
         Filed(work'[p][g]), RemoteTyped', DiskTyped', CacheTyped'
  PROVE  Typed'
<1> PICK held, left : held = work[p][g].held /\ left = work[p][g].left \ {i}
  OBVIOUS
<1>1. /\ DOMAIN held = {"at", "ref", "files"} /\ held.at \in Nat /\ held.files \subseteq Path
  BY AtWork DEF Shaped
<1>2. "next" \in Steps /\ "next" \notin Putting
  BY DEF Steps, Putting
<1>3. left \in SUBSET work[p][g].left /\ {} \in SUBSET Path /\ \E x, y : Accounted(p, x, y)
  OBVIOUS
<1>4. Becomes(p, g, "next", left, held, {})
  OBVIOUS
<1> QED
  BY <1>1, <1>2, <1>3, <1>4, TypedMoves

LEMMA TypedBegin ==
  ASSUME Typed, NEW p \in Process, NEW g \in DOMAIN work[p], Begin(p, g)
  PROVE  Typed'
<1>0. Filed(work'[p][g])
  BY FiledRests
<1> DEFINE w == work[p][g]
           d == First(p, g)
<1> PICK held : held = Checkout(d, w.held)
  OBVIOUS
<1> PICK todo : todo = Under(Offered(d, held), d.sub)
  OBVIOUS
<1>1. w.step = "next" /\ UNCHANGED << disk, cache, remote >>
  BY BeginDoes
<1>2. RemoteTyped' /\ CacheTyped' /\ DiskTyped /\ CacheTyped
  BY <1>1 DEF Typed, RemoteTyped, CacheTyped
<1>3. {"next", "copy", "ended"} \subseteq Steps \ Putting
  BY DEF Steps, Putting
<1>4. w.todo \subseteq Path /\ DOMAIN w.held = {"at", "ref", "files"} /\ w.held.files \subseteq Path
      /\ w.held.at \in Nat
  BY AtWork DEF Shaped
<1>5. ASSUME w.left # {}
      PROVE  Ancestors(d.dest) \subseteq Path /\ Ancestors(Front(d.dest)) \subseteq Path
  <2>1. d.dest \in Path /\ d.dest \in AnyPath
    BY <1>5, CurrentIs DEF Path, AnyPath
  <2>2. Front(d.dest) \in AnyPath
    BY <2>1, FrontIs
  <2> QED
    BY <2>1, <2>2, AncestorsAre
<1>6. ASSUME w.left # {}, dirs' \subseteq dirs \cup Ancestors(d.dest) \cup Ancestors(Front(d.dest))
      PROVE  DiskTyped'
  BY <1>1, <1>2, <1>5, <1>6 DEF DiskTyped
<1>7. ASSUME w.left = {}, Becomes(p, g, "ended", {}, w.held, w.todo), UNCHANGED << dirs, run >>
      PROVE  Typed'
  <2>1. DiskTyped' /\ run' = run
    BY <1>1, <1>2, <1>7 DEF DiskTyped
  <2> PICK k, t : k = w.held /\ t = w.todo
    OBVIOUS
  <2>2. /\ DOMAIN k = {"at", "ref", "files"} /\ k.at \in Nat /\ k.files \subseteq Path
        /\ t \in SUBSET Path /\ {} \in SUBSET work[p][g].left
    BY <1>4
  <2>3. Becomes(p, g, "ended", {}, k, t) /\ "ended" \in Steps /\ "ended" \notin Putting
    BY <1>3, <1>7
  <2> QED
    BY <1>0, <1>2, <2>1, <2>2, <2>3, TypedMoves
<1>8. ASSUME w.left # {}, Becomes(p, g, "next", w.left \ {Current(p, g)}, w.held, {}),
             Accounted(p, {}, {Current(p, g)}), dirs' \subseteq dirs \cup Ancestors(d.dest)
      PROVE  Typed'
  <2>1. DiskTyped'
    BY <1>6, <1>8
  <2> QED
    BY <1>0, <1>2, <1>8, <2>1, TypedLeaves
<1>9. ASSUME w.left # {}, Becomes(p, g, "copy", w.left, held, todo), run' = run,
             dirs' = dirs \cup Ancestors(IF Plain(d) THEN Front(d.dest) ELSE d.dest)
      PROVE  Typed'
  <2>1. DiskTyped'
    BY <1>6, <1>9
  <2>2. d.source \in DOMAIN FilesOf /\ ModulesOf[d.source] \subseteq Path
    BY <1>9, CurrentIs
  <2>3. /\ DOMAIN held = {"at", "ref", "files"} /\ held.at \in Nat /\ held.files \subseteq Path
    BY <1>4, <2>2, CheckedOut
  <2>4. todo \subseteq Path
    BY <1>2, <2>3, OfferedIs DEF Under
  <2> PICK left : left = w.left
    OBVIOUS
  <2>5. Becomes(p, g, "copy", left, held, todo) /\ left \in SUBSET work[p][g].left /\ left # {}
        /\ todo \in SUBSET Path /\ run' = run /\ "copy" \in Steps /\ "copy" \notin Putting
    BY <1>3, <1>9, <2>4
  <2> QED
    BY <1>0, <1>2, <2>1, <2>3, <2>5, TypedMoves
<1>10. \/ w.left = {} /\ Becomes(p, g, "ended", {}, w.held, w.todo) /\ UNCHANGED << dirs, run >>
       \/ /\ w.left # {} /\ Becomes(p, g, "next", w.left \ {Current(p, g)}, w.held, {})
          /\ Accounted(p, {}, {Current(p, g)}) /\ dirs' \subseteq dirs \cup Ancestors(d.dest)
       \/ /\ w.left # {} /\ Becomes(p, g, "copy", w.left, held, todo) /\ run' = run
          /\ dirs' = dirs \cup Ancestors(IF Plain(d) THEN Front(d.dest) ELSE d.dest)
  BY BeginDoes
<1> QED
  BY <1>7, <1>8, <1>9, <1>10

LEMMA LandsTyped ==
  ASSUME Typed, NEW p \in Process, NEW g \in DOMAIN work[p], work[p][g].left # {},
         NEW f, Lands(p, g, f)
  PROVE  LET place == Place(First(p, g), f) IN
         /\ place \in Path /\ DOMAIN disk' = DOMAIN disk \cup {place}
         /\ \A q \in DOMAIN disk : q # place => disk'[q] = disk[q]
         /\ disk'[place] = ContentAt(First(p, g), work[p][g].held, f)
         /\ \A q \in DOMAIN disk' : disk'[q].at \in Nat
<1> PICK place, x : /\ place = Place(First(p, g), f)
                    /\ x = ContentAt(First(p, g), work[p][g].held, f)
  OBVIOUS
<1>1. f \in work[p][g].todo /\ f \in Offered(First(p, g), work[p][g].held) /\ disk' = With(disk, place, x)
  BY DEF Lands
<1>2. work[p][g].todo \subseteq Path /\ work[p][g].held.at \in Nat /\ CacheTyped /\ DiskTyped
  BY AtWork DEF Shaped, Typed
<1>3. place \in Path
  BY <1>1, <1>2, CurrentIs, PlaceIs
<1>4. x.at \in Nat
  BY <1>1, <1>2, ContentIs
<1>5. /\ DOMAIN disk' = DOMAIN disk \cup {place} /\ disk'[place] = x
      /\ \A q \in DOMAIN disk : q # place => disk'[q] = disk[q]
  BY <1>1 DEF With
<1>6. \A q \in DOMAIN disk' : disk'[q].at \in Nat
  BY <1>2, <1>4, <1>5 DEF DiskTyped
<1> QED
  BY <1>3, <1>5, <1>6

LEMMA TypedFills ==
  ASSUME Typed, NEW p \in Process, NEW g \in DOMAIN work[p], Fills(p, g)
  PROVE  Typed'
<1> DEFINE w == work[p][g]
           d == First(p, g)
<1>1. w.step = "copy" /\ w.left # {} /\ UNCHANGED << cache, remote >>
  BY FillsDo
<1>2. RemoteTyped' /\ CacheTyped' /\ DiskTyped
  BY <1>1 DEF Typed, RemoteTyped, CacheTyped
<1>3. w.todo \subseteq Path
  BY AtWork DEF Shaped
<1>4. ASSUME disk' = disk \/ \E f \in w.todo : Lands(p, g, f), dirs' = dirs
      PROVE  DiskTyped'
  <2>1. CASE disk' = disk
    BY <1>2, <1>4, <2>1 DEF DiskTyped
  <2>2. CASE \E f \in w.todo : Lands(p, g, f)
    BY <1>1, <1>2, <1>4, <2>2, LandsTyped DEF DiskTyped
  <2> QED
    BY <1>4, <2>1, <2>2
<1>5. "copy" \in Steps \ {"waiting", "ended"} /\ "copy" \notin Putting
  BY DEF Steps, Putting
<1>6. ASSUME Misses(p, g) PROVE Typed'
  <2>1. /\ Becomes(p, g, "next", w.left \ {Current(p, g)}, w.held, {})
        /\ Accounted(p, {}, {Current(p, g)}) /\ Filed(work'[p][g])
    BY <1>6 DEF Misses, Filed
  <2>2. DiskTyped'
    BY <1>4, <1>6 DEF Misses
  <2> QED
    BY <1>2, <2>1, <2>2, TypedLeaves
<1>7. ASSUME NEW f \in w.todo, Completes(p, g, f) PROVE Typed'
  <2> PICK todo : todo = w.todo \ {f}
    OBVIOUS
  <2>1. /\ Becomes(p, g, "copy", w.left, w.held, todo) /\ Filed(work'[p][g]) /\ run' = run
        /\ todo \subseteq Path
    BY <1>3, <1>7 DEF Completes, Filed
  <2>2. DiskTyped'
    BY <1>4, <1>7 DEF Completes
  <2> QED
    BY <1>1, <1>2, <1>5, <2>1, <2>2, TypedGoesOn
<1>8. ASSUME NEW f \in w.todo, Opening(p, g, f) PROVE Typed'
  <2> PICK place : place = Place(d, f)
    OBVIOUS
  <2>1. /\ Becomes(p, g, "copy", w.left, w.held, w.todo) /\ work'[p][g].file = f /\ run' = run
        /\ disk' = disk /\ dirs' = dirs \cup Ancestors(Front(place))
    BY <1>8 DEF Opening
  <2>2. Filed(work'[p][g])
    BY <2>1 DEF Becomes, Filed
  <2>3. place \in Path
    BY <1>1, <1>3, CurrentIs, PlaceIs
  <2>4. Ancestors(Front(place)) \subseteq Path
    BY <2>3, FrontIs, AncestorsAre
  <2>5. DiskTyped'
    BY <1>2, <2>1, <2>4 DEF DiskTyped
  <2> QED
    BY <1>1, <1>2, <1>3, <1>5, <2>1, <2>2, <2>5, TypedGoesOn
<1> HIDE DEF w, d
<1> QED
  BY <1>6, <1>7, <1>8, FillsDo DEF w

LEMMA TypedCopied ==
  ASSUME Typed, NEW p \in Process, NEW g \in DOMAIN work[p], Copied(p, g)
  PROVE  Typed'
<1>0. Filed(work'[p][g])
  BY FiledRests
<1>1. /\ Becomes(p, g, "next", work[p][g].left \ {Current(p, g)}, work[p][g].held, {})
      /\ Accounted(p, {Current(p, g)}, {}) /\ UNCHANGED << tree, cache, remote >>
  BY CopiedDoes
<1>2. RemoteTyped' /\ DiskTyped' /\ CacheTyped'
  BY <1>1, SameWorld
<1> QED
  BY <1>0, <1>1, <1>2, TypedLeaves

LEMMA GroupOfRun ==
  ASSUME project \in Projects, NEW p \in Process, NEW f, NEW g
  PROVE  /\ Group(p, g, f) \subseteq Firsts(p, f.only) /\ Firsts(p, f.only) \subseteq Items(p)
         /\ \A i \in Group(p, g, f) : GroupOf(Item(p, i)) = g /\ i \in Wanted(p, f)
BY DEF Group, Wanted, Considered, Firsts, Candidate

LEMMA TypedStart ==
  ASSUME Typed, NEW p \in Process, Start(p)
  PROVE  Typed'
<1>1. project' = project /\ UNCHANGED << tree, cache, remote >>
  BY StartDoes
<1>2. RemoteTyped' /\ DiskTyped' /\ CacheTyped'
  BY <1>1, SameWorld
<1>3. PICK f : Starts(p, f)
  BY StartDoes
<1>4. project \in Projects
  BY DEF Typed
<1>5. Process' = Process /\ \A q, i : Items(q)' = Items(q) /\ Item(q, i)' = Item(q, i)
  BY <1>1, ItemsStay
<1>6. DOMAIN run' = Process /\ DOMAIN work' = Process
  BY <1>3 DEF Starts
<1>7. ASSUME NEW g \in DOMAIN work'[p] PROVE Shaped(p, g, work[p][g])'
  <2>1. g \in {GroupOf(Item(p, i)) : i \in Wanted(p, f)}
    BY <1>3 DEF Starts
  <2>2. Group(p, g, f) # {}
    BY <2>1 DEF Group
  <2>3. /\ DOMAIN work'[p][g] = Fields
        /\ work'[p][g].step = "waiting" /\ work'[p][g].left = Group(p, g, f)
        /\ work'[p][g].held = Nothing /\ work'[p][g].todo = {} /\ work'[p][g].file = NoFile
    BY <1>3 DEF Starts
  <2>4. "waiting" \in Steps /\ "waiting" \notin Putting
    BY DEF Steps, Putting
  <2>5. /\ DOMAIN Nothing = {"at", "ref", "files"} /\ Nothing.at \in Nat /\ Nothing.files = {}
    BY DEF Nothing
  <2>6. Group(p, g, f) \subseteq Items(p) /\ \A i \in Group(p, g, f) : GroupOf(Item(p, i)) = g
    BY <1>4, GroupOfRun
  <2> QED
    BY <1>5, <2>2, <2>3, <2>4, <2>5, <2>6 DEF Shaped, Filed
<1>8. ASSUME NEW q \in Process PROVE Running(q)'
  <2>1. CASE q = p
    BY <1>3, <1>7, <2>1 DEF Running, Starts
  <2>2. CASE q # p
    <3>1. work'[q] = work[q] /\ run'[q] = run[q] /\ Running(q)
      BY <1>3, <2>2 DEF Starts, Typed
    <3> QED
      BY <1>5, <3>1 DEF Running, Shaped, Filed
  <2> QED
    BY <2>1, <2>2
<1> QED
  BY <1>1, <1>2, <1>4, <1>5, <1>6, <1>8 DEF Typed

LEMMA TypedStops ==
  ASSUME Typed, NEW p \in Process, Finish(p) \/ Crash(p)
  PROVE  Typed'
<1>1. Stops(p)
  BY StopsAre
<1>2. project' = project /\ project \in Projects /\ DOMAIN run' = Process /\ DOMAIN work' = Process
  BY <1>1 DEF Stops, Typed
<1>3. RemoteTyped' /\ DiskTyped' /\ CacheTyped'
  BY <1>1, SameWorld DEF Stops
<1>4. Process' = Process /\ \A q, i : Items(q)' = Items(q) /\ Item(q, i)' = Item(q, i)
  BY <1>2, ItemsStay
<1>5. ASSUME NEW q \in Process PROVE Running(q)'
  <2>1. Running(q) /\ (q = p \/ (work'[q] = work[q] /\ run'[q] = run[q]))
    BY <1>1 DEF Stops, Typed
  <2>2. run'[p] = Idle /\ work'[p] = NoWork
    BY <1>1 DEF Stops
  <2> QED
    BY <1>4, <2>1, <2>2 DEF Running, Shaped, Filed
<1> QED
  BY <1>2, <1>3, <1>4, <1>5 DEF Typed

LEMMA TypedPublish ==
  ASSUME Typed, NEW s \in Sources, Publish(s)
  PROVE  Typed'
<1>1. remote' = [remote EXCEPT ![s] = @ + 1] /\ UNCHANGED << project, tree, cache, run, work >>
  BY DEF Publish
<1>2. RemoteTyped' /\ DiskTyped' /\ CacheTyped'
  BY <1>1 DEF Typed, RemoteTyped, tree, DiskTyped, CacheTyped
<1> QED
  BY <1>1, <1>2, TypedSame

LEMMA TypedStep == Typed /\ [Next]_vars => Typed'
<1> SUFFICES ASSUME Typed, [Next]_vars PROVE Typed'
  OBVIOUS
<1>1. CASE UNCHANGED vars
  <2>1. UNCHANGED << project, tree, cache, run, work >> /\ remote' = remote
    BY <1>1 DEF vars
  <2>2. RemoteTyped' /\ DiskTyped' /\ CacheTyped'
    BY <2>1, SameWorld
  <2> QED
    BY <2>1, <2>2, TypedSame
<1>2. ASSUME NEW p \in Process, Start(p) \/ Finish(p) \/ Crash(p) PROVE Typed'
  BY <1>2, TypedStart, TypedStops
<1>3. ASSUME NEW p \in Process, NEW g \in DOMAIN work[p], Advance(p, g) PROVE Typed'
  BY <1>3, TypedTake, TypedPull, TypedListCached, TypedDropCached, TypedStore, TypedStoreFile,
     TypedBegin, TypedFills, TypedCopied DEF Advance, Fills
<1>4. ASSUME NEW s \in Sources, Publish(s) PROVE Typed'
  BY <1>4, TypedPublish
<1> QED
  BY <1>1, <1>2, <1>3, <1>4 DEF Next

LEMMA TypedInit == Init => Typed
<1> SUFFICES ASSUME Init PROVE Typed
  OBVIOUS
<1>1. /\ disk = << >> /\ dirs = {} /\ cache = << >> /\ project \in Projects
      /\ remote = [s \in DOMAIN FilesOf |-> 0]
      /\ run = [p \in Process |-> Idle] /\ work = [p \in Process |-> NoWork]
  BY DEF Init
<1>2. DOMAIN disk = {} /\ DOMAIN cache = {}
  BY <1>1
<1>3. DiskTyped /\ CacheTyped /\ RemoteTyped
  BY <1>1, <1>2 DEF DiskTyped, CacheTyped, RemoteTyped
<1> QED
  BY <1>1, <1>3 DEF Typed, Running

(* ------------------- Files that are there are kept. -------------------- *)

(* Every group's state is a member of a process's and of its source's.     *)
THEOREM RunsAreTyped == Spec => []Typed
BY TypedInit, TypedStep, PTL DEF Spec

(* ------------------ What a group holds to be copied. ------------------- *)

(* What one destination asks of an image. *)
Layers(d) == UNION {LayersOf[d.source][t] :
                      t \in IF d.type = AnyType THEN DOMAIN LayersOf[d.source] ELSE {d.type}}

Holds(d, held) ==
  /\ d.kind \in {"http", "helm"} => held.files = FilesOf[d.source] /\ held.ref = NoRef
  /\ d.kind = "git" => FilesOf[d.source] \subseteq held.files
  /\ d.kind = "oci" => held.ref = NoRef /\ Layers(d) \subseteq held.files

HeldsAt(p, g, w) ==
  w.step \in {"next", "copy"} /\ ~CachedGroup(g) =>
     \A i \in w.left : Holds(Item(p, i), w.held)

Helds == \A p \in Process : \A g \in DOMAIN work[p] : HeldsAt(p, g, work[p][g])

LEMMA HeldsMoves ==
  ASSUME Helds, NEW p \in Process, NEW g \in DOMAIN work[p],
         NEW step, NEW left, NEW held, NEW todo, Becomes(p, g, step, left, held, todo),
         step \in {"next", "copy"} /\ ~CachedGroup(g) => \A i \in left : Holds(Item(p, i), held)
  PROVE  Helds'
<1>1. project' = project
  BY DEF Becomes
<1>2. Process' = Process /\ \A q, i : Item(q, i)' = Item(q, i)
  BY <1>1, ItemsStay
<1>3. ASSUME NEW q \in Process, NEW h \in DOMAIN work'[q] PROVE HeldsAt(q, h, work[q][h])'
  <2>1. CASE q = p /\ h = g
    <3>1. work'[q][h].step = step /\ work'[q][h].left = left /\ work'[q][h].held = held
      BY <2>1 DEF Becomes
    <3> QED
      BY <1>2, <2>1, <3>1 DEF HeldsAt
  <2>2. CASE ~ (q = p /\ h = g)
    <3>1. h \in DOMAIN work[q] /\ work'[q][h] = work[q][h]
      BY <2>2 DEF Becomes
    <3>2. HeldsAt(q, h, work[q][h])
      BY <3>1 DEF Helds
    <3> QED
      BY <1>2, <3>1, <3>2 DEF HeldsAt
  <2> QED
    BY <2>1, <2>2
<1> QED
  BY <1>2, <1>3 DEF Helds

LEMMA HeldsPull ==
  ASSUME Typed, Helds, NEW p \in Process, NEW g \in DOMAIN work[p], Pull(p, g)
  PROVE  Helds'
<1> DEFINE w == work[p][g]
           d == First(p, g)
<1> PICK held, step : held = Pulled(p, g, d) /\ step = IF Cached(d) THEN "drop" ELSE "next"
  OBVIOUS
<1>1. w.left # {}
  BY PullDoes
<1>2. /\ GroupOf(d) = g /\ d.kind \in {"git", "http", "helm", "oci"}
  BY <1>1, CurrentIs DEF Dependency
<1>3. \A i \in w.left : GroupOf(Item(p, i)) = g
  BY AtWork DEF Shaped
<1>4. ASSUME NEW i \in w.left PROVE Item(p, i).kind = d.kind /\ Item(p, i).source = d.source
  BY <1>2, <1>3, GroupIs
<1>5. ASSUME NEW i \in w.left PROVE Holds(Item(p, i), held)
  <2> PICK e : e = Item(p, i)
    OBVIOUS
  <2>1. e.kind = d.kind /\ e.source = d.source
    BY <1>4
  <2>2. /\ d.kind # "oci" => held.files = FilesOf[d.source]
        /\ d.kind = "oci" => held.files = LayerFiles(p, g, d)
        /\ d.kind # "git" => held.ref = NoRef
    BY <1>1, PulledIs
  <2>3. ASSUME d.kind = "oci" PROVE Layers(e) \subseteq LayerFiles(p, g, d)
    <3> PICK types : types = {Item(p, j).type : j \in work[p][g].left}
      OBVIOUS
    <3>1. e.type \in types
      OBVIOUS
    <3> PICK all : all = DOMAIN LayersOf[d.source]
      OBVIOUS
    <3>2. /\ Layers(e) = UNION {LayersOf[d.source][t] :
                                 t \in IF e.type = AnyType THEN all ELSE {e.type}}
          /\ LayerFiles(p, g, d) = UNION {LayersOf[d.source][t] :
                                            t \in IF AnyType \in types THEN all ELSE types}
      BY <2>1 DEF Layers, LayerFiles
    <3>3. CASE e.type = AnyType
      BY <3>1, <3>2, <3>3
    <3>4. CASE e.type # AnyType
      <4>1. i \in Items(p) /\ project \in Projects
        BY AtWork DEF Shaped
      <4>2. e.type \in all
        BY <2>1, <2>3, <3>4, <4>1, LayersAre
      <4> QED
        BY <3>1, <3>2, <3>4, <4>2
    <3> QED
      BY <3>3, <3>4
  <2> HIDE DEF d
  <2> QED
    BY <2>1, <2>2, <2>3 DEF Holds
<1>6. ASSUME Becomes(p, g, step, w.left, held, w.todo) PROVE Helds'
  BY <1>5, <1>6, HeldsMoves
<1>7. ASSUME Becomes(p, g, "ended", {}, w.held, {}) PROVE Helds'
  BY <1>7, HeldsMoves
<1>8. Becomes(p, g, step, w.left, held, w.todo) \/ Becomes(p, g, "ended", {}, w.held, {})
  BY PullDoes
<1> QED
  BY <1>6, <1>7, <1>8

LEMMA HeldsBegin ==
  ASSUME Typed, Helds, NEW p \in Process, NEW g \in DOMAIN work[p], Begin(p, g)
  PROVE  Helds'
<1> DEFINE w == work[p][g]
           d == First(p, g)
<1> PICK held, todo : held = Checkout(d, w.held) /\ todo = Under(Offered(d, held), d.sub)
  OBVIOUS
<1>1. w.step = "next"
  BY BeginDoes
<1>2. ASSUME ~CachedGroup(g) PROVE \A i \in w.left : Holds(Item(p, i), w.held)
  BY <1>1, <1>2 DEF Helds, HeldsAt
<1>3. ASSUME Becomes(p, g, "ended", {}, w.held, w.todo) PROVE Helds'
  BY <1>3, HeldsMoves
<1>4. ASSUME Becomes(p, g, "next", w.left \ {Current(p, g)}, w.held, {}) PROVE Helds'
  <2>1. ~CachedGroup(g) => \A i \in w.left \ {Current(p, g)} : Holds(Item(p, i), w.held)
    BY <1>2
  <2> QED
    BY <1>4, <2>1, HeldsMoves
<1>5. ASSUME w.left # {}, Becomes(p, g, "copy", w.left, held, todo) PROVE Helds'
  <2>1. GroupOf(d) = g /\ DOMAIN w.held = {"at", "ref", "files"}
        /\ \A i \in w.left : GroupOf(Item(p, i)) = g
    BY <1>5, CurrentIs, AtWork DEF Shaped
  <2>2. w.held.files \subseteq held.files /\ (d.kind # "git" => held = w.held)
    BY <2>1, CheckedOut
  <2>3. ASSUME ~CachedGroup(g), NEW i \in w.left PROVE Holds(Item(p, i), held)
    <3> PICK e : e = Item(p, i)
      OBVIOUS
    <3>1. Holds(e, w.held) /\ e.kind = d.kind
      BY <1>2, <2>1, <2>3, GroupIs
    <3> QED
      BY <2>2, <3>1 DEF Holds
  <2> QED
    BY <1>5, <2>3, HeldsMoves
<1>6. \/ Becomes(p, g, "ended", {}, w.held, w.todo)
      \/ Becomes(p, g, "next", w.left \ {Current(p, g)}, w.held, {})
      \/ w.left # {} /\ Becomes(p, g, "copy", w.left, held, todo)
  BY BeginDoes
<1> QED
  BY <1>3, <1>4, <1>5, <1>6

(* The steps between a pull and the first item: of a chart, or of none.    *)
LEMMA HeldsChart ==
  ASSUME Typed, Helds, NEW p \in Process, NEW g \in DOMAIN work[p],
         \/ Take(p, g) \/ ListCached(p, g) \/ DropCached(p, g) \/ Store(p, g) \/ StoreFile(p, g)
  PROVE  Helds'
<1>1. \E step, left, held, todo :
         /\ Becomes(p, g, step, left, held, todo)
         /\ step \in {"next", "copy"} => CachedGroup(g) \/ left = {}
  <2>1. CASE Take(p, g)
    <3>1. PICK step : /\ Becomes(p, g, step, work[p][g].left, work[p][g].held, work[p][g].todo)
                      /\ step \in {"pull", "next"} /\ (step = "next" => Cached(First(p, g)))
      BY <2>1, TakeDoes
    <3>2. GroupOf(First(p, g)) = g
      BY <2>1, TakeDoes, CurrentIs
    <3>3. step \in {"next", "copy"} => CachedGroup(g)
      BY <3>1, <3>2, GroupIs
    <3> QED
      BY <3>1, <3>3
  <2>2. ASSUME ListCached(p, g) \/ DropCached(p, g) \/ Store(p, g) \/ StoreFile(p, g)
        PROVE  CachedGroup(g)
    <3>1. work[p][g].step \in Putting
      BY <2>2 DEF ListCached, DropCached, Store, StoreFile, Putting
    <3> QED
      BY <3>1, AtWork DEF Shaped, Puts
  <2>3. CASE ListCached(p, g)
    BY <2>2, <2>3, ListCachedDoes
  <2>4. CASE DropCached(p, g)
    BY <2>2, <2>4, DropCachedDoes
  <2>5. CASE Store(p, g)
    BY <2>2, <2>5, StoreDoes
  <2>6. CASE StoreFile(p, g)
    BY <2>2, <2>6, StoreFileDoes DEF Empties, Stores, Breaks
  <2> QED
    BY <2>1, <2>3, <2>4, <2>5, <2>6
<1>2. PICK step, left, held, todo :
         /\ Becomes(p, g, step, left, held, todo)
         /\ step \in {"next", "copy"} => CachedGroup(g) \/ left = {}
  BY <1>1
<1> QED
  BY <1>2, HeldsMoves

LEMMA HeldsCopy ==
  ASSUME Typed, Helds, NEW p \in Process, NEW g \in DOMAIN work[p],
         Fills(p, g) \/ Copied(p, g)
  PROVE  Helds'
<1> PICK held : held = work[p][g].held
  OBVIOUS
<1>1. work[p][g].step = "copy"
  BY FillsBecome, CopiedDoes
<1>2. ~CachedGroup(g) => \A i \in work[p][g].left : Holds(Item(p, i), held)
  BY <1>1 DEF Helds, HeldsAt
<1>3. ASSUME NEW step, NEW left, NEW todo, left \subseteq work[p][g].left,
             Becomes(p, g, step, left, held, todo)
      PROVE  Helds'
  BY <1>2, <1>3, HeldsMoves
<1>4. \/ Becomes(p, g, "next", work[p][g].left \ {Current(p, g)}, held, {})
      \/ \E todo \in SUBSET work[p][g].todo : Becomes(p, g, "copy", work[p][g].left, held, todo)
  BY FillsBecome, CopiedDoes
<1> QED
  BY <1>3, <1>4

(* Runs that begin or end, and what is outside them. *)
LEMMA WorkStays ==
  ASSUME Typed, NEW p \in Process, Start(p) \/ Finish(p) \/ Crash(p)
  PROVE  /\ project' = project /\ UNCHANGED << tree, cache, remote >>
         /\ \A q \in Process : \A h \in DOMAIN work'[q] :
               \/ h \in DOMAIN work[q] /\ work'[q] = work[q] /\ run'[q] = run[q]
               \/ q = p /\ work'[q][h].step = "waiting"
<1>1. CASE Start(p)
  <2>1. PICK f : Starts(p, f)
    BY <1>1, StartDoes
  <2> QED
    BY <1>1, <2>1, StartDoes DEF Starts
<1>2. CASE Finish(p) \/ Crash(p)
  <2>1. Stops(p) /\ DOMAIN NoWork = {}
    BY <1>2, StopsAre DEF NoWork
  <2> QED
    BY <2>1 DEF Stops
<1> QED
  BY <1>1, <1>2

LEMMA HeldsStep == Typed /\ Helds /\ [Next]_vars => Helds'
<1> SUFFICES ASSUME Typed, Helds, [Next]_vars PROVE Helds'
  OBVIOUS
<1>1. ASSUME project' = project, work' = work PROVE Helds'
  BY <1>1, ItemsStay DEF Helds, HeldsAt
<1>2. ASSUME NEW p \in Process, Start(p) \/ Finish(p) \/ Crash(p) PROVE Helds'
  <2>1. /\ project' = project
        /\ \A q \in Process : \A h \in DOMAIN work'[q] :
               \/ h \in DOMAIN work[q] /\ work'[q] = work[q]
               \/ work'[q][h].step = "waiting"
    BY <1>2, WorkStays
  <2>2. Process' = Process /\ \A q, i : Item(q, i)' = Item(q, i)
    BY <2>1, ItemsStay
  <2> QED
    BY <2>1, <2>2 DEF Helds, HeldsAt
<1>3. ASSUME NEW p \in Process, NEW g \in DOMAIN work[p], Advance(p, g) PROVE Helds'
  BY <1>3, HeldsPull, HeldsBegin, HeldsChart, HeldsCopy DEF Advance, Fills
<1>4. ASSUME NEW s \in Sources, Publish(s) PROVE Helds'
  BY <1>1, <1>4 DEF Publish
<1>5. CASE UNCHANGED vars
  BY <1>1, <1>5 DEF vars
<1> QED
  BY <1>2, <1>3, <1>4, <1>5 DEF Next

(* ------------------- What is counted as fetched. ----------------------- *)

Grows == DOMAIN disk \subseteq DOMAIN disk' /\ dirs \subseteq dirs'

LEMMA TreeGrows ==
  ASSUME Typed, [Next]_vars
  PROVE  Grows
<1>1. CASE UNCHANGED vars
  BY <1>1 DEF vars, tree, Grows
<1>2. ASSUME NEW p \in Process, Start(p) \/ Finish(p) \/ Crash(p) PROVE Grows
  BY <1>2 DEF Start, Finish, Crash, tree, Grows
<1>3. ASSUME NEW p \in Process, NEW g \in DOMAIN work[p], Advance(p, g) PROVE Grows
  <2>1. CASE Fills(p, g)
    <3>1. ASSUME Misses(p, g) PROVE Grows
      BY <3>1 DEF Misses, Lands, With, Grows
    <3>2. ASSUME NEW f, Completes(p, g, f) PROVE Grows
      BY <3>2 DEF Completes, Lands, With, Grows
    <3>3. ASSUME NEW f, Opening(p, g, f) PROVE Grows
      BY <3>3 DEF Opening, Grows
    <3> QED
      BY <2>1, <3>1, <3>2, <3>3, FillsDo
  <2>2. CASE Begin(p, g)
    BY <2>2, BeginDoes DEF Grows
  <2> QED
    BY <1>3, <2>1, <2>2
       DEF Advance, Fills, Take, Pull, ListCached, DropCached, Store, StoreFile, Copied, tree, Grows
<1>4. ASSUME NEW s \in Sources, Publish(s) PROVE Grows
  BY <1>4 DEF Publish, tree, Grows
<1> QED
  BY <1>1, <1>2, <1>3, <1>4 DEF Next

LEMMA FirstStays ==
  ASSUME NEW p, NEW g, project' = project, work'[p][g].left = work[p][g].left
  PROVE  First(p, g)' = First(p, g) /\ Current(p, g)' = Current(p, g)
BY DEF First, Current, Item

(* Where the current item of a group goes to there is something, or there  *)
(* is about to be.                                                         *)
Arrived(d, todo) == IF Plain(d) THEN todo # {} \/ d.dest \in DOMAIN disk ELSE d.dest \in dirs

Arrives ==
  \A p \in Process : \A g \in DOMAIN work[p] :
     work[p][g].step = "copy" => Arrived(First(p, g), work[p][g].todo)

LEMMA ArrivesMoves ==
  ASSUME Arrives, Grows, NEW p \in Process, NEW g \in DOMAIN work[p],
         NEW step, NEW left, NEW held, NEW todo, Becomes(p, g, step, left, held, todo),
         step = "copy" => left = work[p][g].left /\ Arrived(First(p, g), todo)'
  PROVE  Arrives'
<1>1. project' = project
  BY DEF Becomes
<1>2. Process' = Process
  BY <1>1, ItemsStay
<1>3. ASSUME NEW q \in Process, NEW h \in DOMAIN work'[q], work'[q][h].step = "copy"
      PROVE  Arrived(First(q, h), work[q][h].todo)'
  <2>1. CASE q = p /\ h = g
    BY <1>3, <2>1 DEF Becomes
  <2>2. CASE ~ (q = p /\ h = g)
    <3>1. h \in DOMAIN work[q] /\ work'[q][h] = work[q][h]
      BY <2>2 DEF Becomes
    <3>2. Arrived(First(q, h), work[q][h].todo)
      BY <1>3, <3>1 DEF Arrives
    <3>3. First(q, h)' = First(q, h)
      BY <1>1, <3>1, FirstStays
    <3> QED
      BY <3>1, <3>2, <3>3 DEF Arrived, Grows
  <2> QED
    BY <2>1, <2>2
<1> QED
  BY <1>2, <1>3 DEF Arrives

LEMMA ArrivesBegin ==
  ASSUME Typed, Helds, Arrives, Grows, NEW p \in Process, NEW g \in DOMAIN work[p], Begin(p, g)
  PROVE  Arrives'
<1> DEFINE w == work[p][g]
<1> PICK d : d = First(p, g)
  OBVIOUS
<1> PICK held : held = Checkout(d, w.held)
  OBVIOUS
<1> PICK todo : todo = Under(Offered(d, held), d.sub)
  OBVIOUS
<1>1. w.step = "next"
  BY BeginDoes
<1>2. ASSUME Becomes(p, g, "ended", {}, w.held, w.todo) PROVE Arrives'
  BY <1>2, ArrivesMoves
<1>3. ASSUME Becomes(p, g, "next", w.left \ {Current(p, g)}, w.held, {}) PROVE Arrives'
  BY <1>3, ArrivesMoves
<1>4. ASSUME w.left # {}, Becomes(p, g, "copy", w.left, held, todo),
             dirs' = dirs \cup Ancestors(IF Plain(d) THEN Front(d.dest) ELSE d.dest)
      PROVE  Arrives'
  <2>1. /\ GroupOf(d) = g /\ d = Item(p, Current(p, g)) /\ Current(p, g) \in w.left
        /\ Declared(d) /\ d.dest \in Path /\ FilesOf[d.source] \subseteq Path
    BY <1>4, CurrentIs
  <2>2. First(p, g)' = d
    <3>1. project' = project /\ work'[p][g].left = w.left
      BY <1>4 DEF Becomes
    <3> QED
      BY <3>1, FirstStays
  <2>3. ASSUME ~Plain(d) PROVE d.dest \in dirs'
    <3>1. d.dest \in AnyPath /\ d.dest # << >>
      BY <2>1 DEF Path, AnyPath
    <3> QED
      BY <1>4, <2>3, <3>1, AncestorsAre
  <2>4. ASSUME Plain(d) PROVE todo # {}
    <3>1. d.kind = "http" /\ ~d.unpack /\ d.sub = << >>
      BY <2>1, <2>4 DEF Plain, Declared
    <3>2. PICK f : f \in FilesOf[d.source]
      BY <2>1, <3>1 DEF Declared
    <3>3. ~Cached(d) /\ ~CachedGroup(g)
      BY <2>1, <3>1, GroupIs DEF Cached
    <3>4. Holds(d, w.held) /\ held = w.held
      BY <1>1, <2>1, <3>1, <3>3 DEF Helds, HeldsAt, Checkout
    <3>5. f \in Offered(d, held)
      BY <3>1, <3>2, <3>3, <3>4 DEF Holds, Offered
    <3>6. IsStrictPrefix(<< >>, f)
      <4>1. << >> \in AnyPath /\ f \in AnyPath /\ f # << >> /\ Len(<< >>) = 0 /\ Len(f) \in Nat
        BY <2>1, <3>2 DEF Path, AnyPath
      <4>2. IsPrefix(<< >>, f)
        BY <4>1, PrefixIs
      <4> QED
        BY <4>1, <4>2 DEF IsStrictPrefix
    <3> QED
      BY <3>1, <3>5, <3>6 DEF Under
  <2>5. Arrived(First(p, g), todo)'
    BY <2>2, <2>3, <2>4 DEF Arrived
  <2> PICK left : left = w.left
    OBVIOUS
  <2>6. Becomes(p, g, "copy", left, held, todo)
    BY <1>4
  <2> QED
    BY <2>5, <2>6, ArrivesMoves
<1>5. \/ Becomes(p, g, "ended", {}, w.held, w.todo)
      \/ Becomes(p, g, "next", w.left \ {Current(p, g)}, w.held, {})
      \/ /\ w.left # {} /\ Becomes(p, g, "copy", w.left, held, todo)
         /\ dirs' = dirs \cup Ancestors(IF Plain(d) THEN Front(d.dest) ELSE d.dest)
  BY BeginDoes
<1> QED
  BY <1>2, <1>3, <1>4, <1>5

LEMMA ArrivesFills ==
  ASSUME Typed, Arrives, Grows, NEW p \in Process, NEW g \in DOMAIN work[p], Fills(p, g)
  PROVE  Arrives'
<1> DEFINE w == work[p][g]
<1> PICK d : d = First(p, g)
  OBVIOUS
<1>1. w.step = "copy" /\ Arrived(d, w.todo)
  BY FillsDo DEF Arrives
<1>2. ASSUME Misses(p, g) PROVE Arrives'
  BY <1>2, ArrivesMoves DEF Misses
<1>3. ASSUME NEW todo, Becomes(p, g, "copy", w.left, w.held, todo),
             todo = w.todo \/ \E f \in w.todo : Place(d, f) \in DOMAIN disk'
      PROVE  Arrives'
  <2> PICK held, left : held = w.held /\ left = w.left
    OBVIOUS
  <2>1. Becomes(p, g, "copy", left, held, todo)
    BY <1>3
  <2>2. First(p, g)' = d
    <3>1. project' = project /\ work'[p][g].left = w.left
      BY <1>3 DEF Becomes
    <3> QED
      BY <3>1, FirstStays
  <2>3. CASE todo = w.todo
    <3>1. Arrived(First(p, g), todo)'
      BY <1>1, <2>2, <2>3 DEF Arrived, Grows
    <3> QED
      BY <2>1, <3>1, ArrivesMoves
  <2>4. CASE \E f \in w.todo : Place(d, f) \in DOMAIN disk'
    <3>1. Arrived(First(p, g), todo)'
      BY <1>1, <2>2, <2>4 DEF Arrived, Grows, Place
    <3> QED
      BY <2>1, <3>1, ArrivesMoves
  <2> QED
    BY <1>3, <2>3, <2>4
<1>4. ASSUME NEW f \in w.todo, Completes(p, g, f) PROVE Arrives'
  <2> PICK todo : todo = w.todo \ {f}
    OBVIOUS
  <2>1. Becomes(p, g, "copy", w.left, w.held, todo)
    BY <1>4 DEF Completes
  <2>2. Place(d, f) \in DOMAIN disk'
    BY <1>4 DEF Completes, Lands, With, IsFile, There
  <2> QED
    BY <1>3, <2>1, <2>2
<1>5. ASSUME NEW f \in w.todo, Opening(p, g, f) PROVE Arrives'
  <2>1. Becomes(p, g, "copy", w.left, w.held, w.todo)
    BY <1>5 DEF Opening
  <2> QED
    BY <1>3, <2>1
<1> QED
  BY <1>2, <1>4, <1>5, FillsDo

LEMMA ArrivesStep == Typed /\ Helds /\ Arrives /\ [Next]_vars => Arrives'
<1> SUFFICES ASSUME Typed, Helds, Arrives, [Next]_vars PROVE Arrives'
  OBVIOUS
<1>1. Grows
  BY TreeGrows
<1>2. ASSUME project' = project,
             \A q \in Process : \A h \in DOMAIN work'[q] :
                \/ h \in DOMAIN work[q] /\ work'[q] = work[q]
                \/ work'[q][h].step = "waiting"
      PROVE  Arrives'
  <2>1. Process' = Process
    BY <1>2, ItemsStay
  <2>2. ASSUME NEW q \in Process, NEW h \in DOMAIN work'[q], work'[q][h].step = "copy"
        PROVE  Arrived(First(q, h), work[q][h].todo)'
    <3>1. h \in DOMAIN work[q] /\ work'[q][h] = work[q][h]
      BY <1>2, <2>2
    <3>2. Arrived(First(q, h), work[q][h].todo)
      BY <2>2, <3>1 DEF Arrives
    <3>3. First(q, h)' = First(q, h)
      BY <1>2, <3>1, FirstStays
    <3> QED
      BY <1>1, <3>1, <3>2, <3>3 DEF Arrived, Grows
  <2> QED
    BY <2>1, <2>2 DEF Arrives
<1>3. ASSUME NEW p \in Process, Start(p) \/ Finish(p) \/ Crash(p) PROVE Arrives'
  BY <1>2, <1>3, WorkStays
<1>4. ASSUME NEW p \in Process, NEW g \in DOMAIN work[p], Advance(p, g) PROVE Arrives'
  <2>1. ASSUME NEW step, NEW left, NEW held, NEW todo, step # "copy",
               Becomes(p, g, step, left, held, todo)
        PROVE  Arrives'
    BY <1>1, <2>1, ArrivesMoves
  <2>2. CASE Take(p, g) \/ Pull(p, g)
    BY <2>1, <2>2, TakeDoes, PullDoes
  <2>3. CASE ListCached(p, g) \/ DropCached(p, g)
    BY <2>1, <2>3, ListCachedDoes, DropCachedDoes
  <2>4. CASE Store(p, g) \/ StoreFile(p, g)
    BY <2>1, <2>4, StoreDoes, StoreFileDoes DEF Empties, Stores, Breaks
  <2>5. CASE Copied(p, g)
    BY <2>1, <2>5, CopiedDoes
  <2> QED
    BY <1>1, <1>4, <2>2, <2>3, <2>4, <2>5, ArrivesBegin, ArrivesFills DEF Advance, Fills
<1>5. ASSUME NEW s \in Sources, Publish(s) PROVE Arrives'
  BY <1>2, <1>5 DEF Publish
<1>6. CASE UNCHANGED vars
  BY <1>2, <1>6 DEF vars
<1> QED
  BY <1>3, <1>4, <1>5, <1>6 DEF Next

(* The items of a run that no group has dealt with yet. *)
Left(p) == UNION {work[p][g].left : g \in DOMAIN work[p]}

(* A directory, or a file that is or was there, at a path or below it. *)
Found(path) == \E q \in dirs \cup DOMAIN disk : Within(path, q)

(* Every item a run considers is fetched, failed, passed over or still to  *)
(* be dealt with, and what is fetched or passed over is there, or is a     *)
(* file that has been removed.                                             *)
AccountsOf(p) ==
  /\ DOMAIN run[p].flags = {"all", "force", "only"}
  /\ run[p].fetched \cup Left(p) \subseteq Firsts(p, run[p].flags.only)
  /\ run[p].fetched \cap Left(p) = {}
  /\ Considered(p, run[p].flags)
        \subseteq run[p].fetched \cup run[p].failed \cup run[p].skipped \cup Left(p)
  /\ \A i \in run[p].fetched \cup run[p].skipped : Found(Item(p, i).dest)

Accounts == \A p \in Process : run[p].phase = "fetch" => AccountsOf(p)

LEMMA SelectionsStay ==
  ASSUME project' = project
  PROVE  \A p, f, only : Considered(p, f)' = Considered(p, f) /\ Firsts(p, only)' = Firsts(p, only)
BY DEF Considered, Firsts, Candidate, Items, Item

LEMMA FoundStays ==
  ASSUME Grows, NEW path, Found(path)
  PROVE  Found(path)'
BY DEF Grows, Found

LEMMA ExistsIsFound == \A path : Exists(path) => Found(path)
BY DEF Exists, Found, There

(* The runs of the processes that do not move. *)
LEMMA AccountsStay ==
  ASSUME Accounts, Grows, project' = project, NEW p \in Process,
         work'[p] = work[p], run'[p] = run[p], run[p].phase = "fetch"
  PROVE  AccountsOf(p)'
<1>1. /\ \A i : Item(p, i)' = Item(p, i)
      /\ \A f, only : Considered(p, f)' = Considered(p, f) /\ Firsts(p, only)' = Firsts(p, only)
  BY ItemsStay, SelectionsStay
<1>2. AccountsOf(p) /\ Left(p)' = Left(p)
  BY DEF Accounts, Left
<1>3. \A i \in run[p].fetched \cup run[p].skipped : Found(Item(p, i).dest)'
  BY <1>1, <1>2, FoundStays DEF AccountsOf
<1> QED
  BY <1>1, <1>2, <1>3 DEF AccountsOf

LEMMA AccountsMoves ==
  ASSUME Typed, Accounts, Grows, NEW p \in Process, NEW g \in DOMAIN work[p],
         NEW step, NEW left, NEW held, NEW todo, Becomes(p, g, step, left, held, todo),
         left \subseteq work[p][g].left,
         NEW a, NEW b, Accounted(p, a, b) \/ (run' = run /\ a = {} /\ b = {}),
         a \subseteq work[p][g].left \ left, work[p][g].left \ left \subseteq a \cup b,
         \A i \in a : Found(Item(p, i).dest)
  PROVE  Accounts'
<1>1. /\ project' = project /\ DOMAIN work'[p] = DOMAIN work[p] /\ work'[p][g].left = left
      /\ \A h \in DOMAIN work[p] \ {g} : work'[p][h] = work[p][h]
      /\ \A q \in Process \ {p} : work'[q] = work[q] /\ run'[q] = run[q]
  BY DEF Becomes, Accounted
<1>2. /\ Process' = Process /\ \A i : Item(p, i)' = Item(p, i)
      /\ \A f, only : Considered(p, f)' = Considered(p, f) /\ Firsts(p, only)' = Firsts(p, only)
  BY <1>1, ItemsStay, SelectionsStay
<1>3. /\ run[p].phase = "fetch"
      /\ \A h \in DOMAIN work[p] : \A i \in work[p][h].left : GroupOf(Item(p, i)) = h
  BY AtWork DEF Shaped
<1>4. AccountsOf(p)
  BY <1>3 DEF Accounts
<1>5. /\ run'[p].flags = run[p].flags /\ run'[p].skipped = run[p].skipped
      /\ run'[p].fetched = run[p].fetched \cup a /\ run'[p].failed = run[p].failed \cup b
  BY DEF Accounted
<1> PICK L, M : L = Left(p) /\ M = Left(p)'
  OBVIOUS
<1>6. /\ M \subseteq L /\ L \subseteq M \cup a \cup b /\ a \subseteq L /\ a \cap M = {}
  <2>1. \A i : i \in L <=> \E h \in DOMAIN work[p] : i \in work[p][h].left
    BY DEF Left
  <2>2. \A i : i \in M <=> \E h \in DOMAIN work[p] : i \in work'[p][h].left
    BY <1>1 DEF Left
  <2>3. \A h \in DOMAIN work[p] : h # g => work'[p][h].left = work[p][h].left
    BY <1>1
  <2>4. \A i \in a : \A h \in DOMAIN work[p] : i \in work[p][h].left => h = g
    BY <1>3
  <2> QED
    BY <1>1, <2>1, <2>2, <2>3, <2>4
<1>7. AccountsOf(p)'
  <2>1. /\ DOMAIN run[p].flags = {"all", "force", "only"}
        /\ run[p].fetched \cup L \subseteq Firsts(p, run[p].flags.only)
        /\ run[p].fetched \cap L = {}
        /\ Considered(p, run[p].flags)
              \subseteq run[p].fetched \cup run[p].failed \cup run[p].skipped \cup L
    BY <1>4 DEF AccountsOf
  <2>2. \A i \in run[p].fetched \cup run[p].skipped \cup a : Found(Item(p, i).dest)'
    BY <1>2, <1>4, FoundStays DEF AccountsOf
  <2>3. /\ DOMAIN run'[p].flags = {"all", "force", "only"}
        /\ run'[p].fetched \cup M \subseteq Firsts(p, run'[p].flags.only)
        /\ run'[p].fetched \cap M = {}
        /\ Considered(p, run'[p].flags)
              \subseteq run'[p].fetched \cup run'[p].failed \cup run'[p].skipped \cup M
    BY <1>5, <1>6, <2>1
  <2>4. \A i \in run'[p].fetched \cup run'[p].skipped : Found(Item(p, i).dest)'
    BY <1>5, <2>2
  <2> QED
    BY <1>2, <2>3, <2>4 DEF AccountsOf
<1>8. ASSUME NEW q \in Process \ {p}, run'[q].phase = "fetch" PROVE AccountsOf(q)'
  <2>1. work'[q] = work[q] /\ run'[q] = run[q] /\ run[q].phase = "fetch"
    BY <1>1, <1>8
  <2> QED
    BY <1>1, <2>1, AccountsStay
<1> QED
  BY <1>2, <1>7, <1>8 DEF Accounts

LEMMA AccountsStart ==
  ASSUME Typed, Accounts, Grows, NEW p \in Process, Start(p)
  PROVE  Accounts'
<1>1. PICK f : DOMAIN f = {"all", "force", "only"} /\ Starts(p, f)
  BY StartDoes
<1>2. project' = project
  BY StartDoes
<1>3. /\ Process' = Process /\ \A i : Item(p, i)' = Item(p, i)
      /\ \A k, only : Considered(p, k)' = Considered(p, k) /\ Firsts(p, only)' = Firsts(p, only)
  BY <1>2, ItemsStay, SelectionsStay
<1>4. /\ run'[p].flags = f /\ run'[p].fetched = {} /\ run'[p].failed = {}
      /\ run'[p].skipped = Considered(p, f) \ Wanted(p, f)
      /\ DOMAIN work'[p] = {GroupOf(Item(p, i)) : i \in Wanted(p, f)}
      /\ \A g \in DOMAIN work'[p] : work'[p][g].left = Group(p, g, f)
  BY <1>1 DEF Starts
<1>5. Left(p)' = Wanted(p, f)
  BY <1>4 DEF Left, Group
<1>6. /\ Wanted(p, f) \subseteq Considered(p, f) /\ Considered(p, f) \subseteq Firsts(p, f.only)
      /\ \A i \in Considered(p, f) \ Wanted(p, f) : Found(Item(p, i).dest)
  BY ExistsIsFound DEF Wanted, Considered
<1>7. \A i \in Considered(p, f) \ Wanted(p, f) : Found(Item(p, i).dest)'
  BY <1>3, <1>6, FoundStays
<1>8. AccountsOf(p)'
  BY <1>1, <1>3, <1>4, <1>5, <1>6, <1>7 DEF AccountsOf
<1>9. ASSUME NEW q \in Process \ {p}, run'[q].phase = "fetch" PROVE AccountsOf(q)'
  <2>1. work'[q] = work[q] /\ run'[q] = run[q] /\ run[q].phase = "fetch"
    BY <1>1, <1>9 DEF Starts
  <2> QED
    BY <1>2, <1>9, <2>1, AccountsStay
<1> QED
  BY <1>3, <1>8, <1>9 DEF Accounts

LEMMA AccountsSame ==
  ASSUME Accounts, Grows, project' = project,
         \A q \in Process : run'[q].phase # "fetch" \/ (work'[q] = work[q] /\ run'[q] = run[q])
  PROVE  Accounts'
BY ItemsStay, AccountsStay DEF Accounts

LEMMA AccountsAdvance ==
  ASSUME Typed, Arrives, Accounts, Grows, NEW p \in Process, NEW g \in DOMAIN work[p], Advance(p, g)
  PROVE  Accounts'
<1> DEFINE w == work[p][g]
<1>1. ASSUME NEW step, NEW held, NEW todo, Becomes(p, g, step, w.left, held, todo), run' = run
      PROVE  Accounts'
  <2> PICK a : a = {}
    OBVIOUS
  <2>1. /\ a \subseteq w.left \ w.left /\ w.left \ w.left \subseteq a \cup a /\ w.left \subseteq w.left
        /\ \A i \in a : Found(Item(p, i).dest)
    OBVIOUS
  <2> QED
    BY <1>1, <2>1, AccountsMoves
<1>2. ASSUME NEW step, NEW held, NEW todo, NEW b \in SUBSET w.left,
             Becomes(p, g, step, w.left \ b, held, todo), Accounted(p, {}, b)
      PROVE  Accounts'
  <2> PICK a, left : a = {} /\ left = w.left \ b
    OBVIOUS
  <2>1. /\ a \subseteq w.left \ left /\ w.left \ left \subseteq a \cup b /\ left \subseteq w.left
        /\ \A i \in a : Found(Item(p, i).dest)
    OBVIOUS
  <2>2. Becomes(p, g, step, left, held, todo) /\ Accounted(p, a, b)
    BY <1>2
  <2> QED
    BY <2>1, <2>2, AccountsMoves
<1>3. ASSUME NEW step, NEW held, NEW todo,
             Becomes(p, g, step, {}, held, todo), Accounted(p, {}, w.left)
      PROVE  Accounts'
  <2> PICK b : b = w.left
    OBVIOUS
  <2>1. w.left \ b = {} /\ b \in SUBSET w.left
    OBVIOUS
  <2>2. Becomes(p, g, step, w.left \ b, held, todo) /\ Accounted(p, {}, b)
    BY <1>3, <2>1
  <2> QED
    BY <1>2, <2>1, <2>2
<1>4. ASSUME w.left # {} PROVE {Current(p, g)} \in SUBSET w.left
  BY <1>4, CurrentIs
<1>5. CASE Take(p, g) \/ ListCached(p, g)
  BY <1>1, <1>5, TakeDoes, ListCachedDoes
<1>6. CASE Pull(p, g)
  BY <1>1, <1>3, <1>6, PullDoes
<1>7. CASE DropCached(p, g) \/ Store(p, g)
  BY <1>1, <1>7, DropCachedDoes, StoreDoes
<1>8. CASE StoreFile(p, g)
  BY <1>1, <1>3, <1>8, StoreFileDoes DEF Empties, Stores, Breaks
<1>9. CASE Begin(p, g)
  <2>1. ASSUME w.left = {}, Becomes(p, g, "ended", {}, w.held, w.todo), run' = run PROVE Accounts'
    <3>1. Becomes(p, g, "ended", w.left, w.held, w.todo)
      BY <2>1
    <3> QED
      BY <1>1, <2>1, <3>1
  <2> QED
    BY <1>1, <1>2, <1>4, <1>9, <2>1, BeginDoes
<1>10. CASE Fills(p, g)
  BY <1>1, <1>2, <1>4, <1>10, FillsBecome
<1>11. CASE Copied(p, g)
  <2>1. /\ w.step = "copy" /\ w.todo = {} /\ w.left # {} /\ Accounted(p, {Current(p, g)}, {})
        /\ Becomes(p, g, "next", w.left \ {Current(p, g)}, w.held, {})
    BY <1>11, CopiedDoes
  <2> PICK d : d = First(p, g)
    OBVIOUS
  <2>2. d = Item(p, Current(p, g)) /\ Current(p, g) \in w.left /\ d.dest \in Path
    BY <2>1, CurrentIs
  <2>3. Arrived(d, w.todo)
    BY <2>1 DEF Arrives
  <2>4. Found(d.dest)
    <3>1. d.dest \in dirs \cup DOMAIN disk
      BY <2>1, <2>3 DEF Arrived
    <3>2. Within(d.dest, d.dest)
      BY <2>2, PrefixOfItself DEF Within, Path, AnyPath
    <3> QED
      BY <3>1, <3>2 DEF Found
  <2> PICK a, left, held, b : /\ a = {Current(p, g)} /\ left = w.left \ {Current(p, g)}
                              /\ held = w.held /\ b = {}
    OBVIOUS
  <2>5. Becomes(p, g, "next", left, held, {}) /\ Accounted(p, a, b)
    BY <2>1
  <2>6. /\ left \subseteq w.left /\ a \subseteq w.left \ left /\ w.left \ left \subseteq a \cup b
        /\ \A i \in a : Found(Item(p, i).dest)
    BY <2>2, <2>4
  <2> QED
    BY <2>5, <2>6, AccountsMoves
<1> QED
  BY <1>5, <1>6, <1>7, <1>8, <1>9, <1>10, <1>11 DEF Advance, Fills

LEMMA AccountsStep == Typed /\ Arrives /\ Accounts /\ [Next]_vars => Accounts'
<1> SUFFICES ASSUME Typed, Arrives, Accounts, [Next]_vars PROVE Accounts'
  OBVIOUS
<1>1. Grows
  BY TreeGrows
<1>2. ASSUME NEW p \in Process, Start(p) PROVE Accounts'
  BY <1>1, <1>2, AccountsStart
<1>3. ASSUME NEW p \in Process, Finish(p) \/ Crash(p) PROVE Accounts'
  <2>1. Stops(p)
    BY <1>3, StopsAre
  <2>2. \A q \in Process : run'[q].phase # "fetch" \/ (work'[q] = work[q] /\ run'[q] = run[q])
    BY <2>1 DEF Stops, Idle
  <2> QED
    BY <1>1, <2>1, <2>2, AccountsSame DEF Stops
<1>4. ASSUME NEW p \in Process, NEW g \in DOMAIN work[p], Advance(p, g) PROVE Accounts'
  BY <1>1, <1>4, AccountsAdvance
<1>5. ASSUME NEW s \in Sources, Publish(s) PROVE Accounts'
  BY <1>1, <1>5, AccountsSame DEF Publish
<1>6. CASE UNCHANGED vars
  BY <1>1, <1>6, AccountsSame DEF vars
<1> QED
  BY <1>2, <1>3, <1>4, <1>5, <1>6 DEF Next

LEMMA AccountsInit == Init => Helds /\ Arrives /\ Accounts
<1> SUFFICES ASSUME Init PROVE Helds /\ Arrives /\ Accounts
  OBVIOUS
<1>1. run = [p \in Process |-> Idle] /\ work = [p \in Process |-> NoWork] /\ DOMAIN NoWork = {}
  BY DEF Init, NoWork
<1> QED
  BY <1>1 DEF Helds, Arrives, Accounts, Idle

THEOREM RunsAreAccounted == Spec => [](Typed /\ Helds /\ Arrives /\ Accounts)
BY TypedInit, AccountsInit, TypedStep, HeldsStep, ArrivesStep, AccountsStep, PTL DEF Spec

(* ------------------------- The chart cache. ---------------------------- *)

(* A group that is at work on a chart, *)
On(p, g, c) ==
  /\ work[p][g].step \notin {"waiting", "ended"} /\ work[p][g].left # {}
  /\ CachedGroup(g) /\ ChartOfGroup(g) = c

Stored(c) ==
  /\ DOMAIN cache[c] = FilesOf[c[1]]
  /\ \A e, f \in DOMAIN cache[c] : cache[c][e].at = cache[c][f].at

(* and how far it got with it. *)
ChartAt(step, held, todo, c) ==
  /\ step \in {"pull", "drop"} /\ c \in DOMAIN cache => Stored(c)
  /\ step = "dropping" => InCache(c) = todo
  /\ step = "store" => c \notin DOMAIN cache
  /\ step = "storing" =>
        /\ ~project.oneDisk /\ c \in DOMAIN cache /\ todo \subseteq FilesOf[c[1]]
        /\ DOMAIN cache[c] = FilesOf[c[1]] \ todo
        /\ \A f \in DOMAIN cache[c] : cache[c][f].at = held.at
  /\ step \in {"next", "copy"} =>
        /\ c \in DOMAIN cache /\ Stored(c)
        /\ \A f \in DOMAIN cache[c] : cache[c][f].at >= held.at

Single(c) ==
  \A p, q \in Process : \A g \in DOMAIN work[p], h \in DOMAIN work[q] :
     On(p, g, c) /\ On(q, h, c) => p = q /\ g = h

Replacing(c) ==
  \E p \in Process : \E g \in DOMAIN work[p] :
     On(p, g, c) /\ work[p][g].step \in {"dropping", "store", "storing"}

ChartOK(c) ==
  /\ Single(c)
  /\ \A p \in Process : \A g \in DOMAIN work[p] :
        On(p, g, c) => ChartAt(work[p][g].step, work[p][g].held, work[p][g].todo, c)
  /\ c \in DOMAIN cache => Stored(c) \/ Replacing(c)

Charts == \A c : c \notin disturbed => ChartOK(c)

(* A group moves that is not at work on the chart, *)
LEMMA ChartElsewhere ==
  ASSUME NEW p \in Process, NEW g \in DOMAIN work[p],
         NEW step, NEW left, NEW held, NEW todo, Becomes(p, g, step, left, held, todo),
         NEW c, ChartOK(c), ~On(p, g, c), ~On(p, g, c)',
         c \in DOMAIN cache' <=> c \in DOMAIN cache, c \in DOMAIN cache => cache'[c] = cache[c]
  PROVE  ChartOK(c)'
<1>1. project' = project
  BY DEF Becomes
<1>2. Process' = Process
  BY <1>1, ItemsStay
<1>3. ASSUME NEW q \in Process, NEW h
      PROVE  /\ h \in DOMAIN work'[q] <=> h \in DOMAIN work[q]
             /\ h \in DOMAIN work[q] => \/ q = p /\ h = g
                                        \/ work'[q][h] = work[q][h]
  BY DEF Becomes
<1>4. \A q \in Process : \A h \in DOMAIN work[q] : On(q, h, c)' <=> On(q, h, c)
  BY <1>3 DEF On
<1>5. Single(c)'
  BY <1>2, <1>3, <1>4 DEF Single, ChartOK
<1>6. c \in DOMAIN cache => (Stored(c)' <=> Stored(c))
  BY DEF Stored
<1>7. Replacing(c) => Replacing(c)'
  BY <1>2, <1>3, <1>4 DEF Replacing
<1>8. ASSUME NEW q \in Process, NEW h \in DOMAIN work'[q], On(q, h, c)'
      PROVE  ChartAt(work[q][h].step, work[q][h].held, work[q][h].todo, c)'
  <2>1. h \in DOMAIN work[q] /\ On(q, h, c) /\ work'[q][h] = work[q][h]
    BY <1>3, <1>4, <1>8
  <2>2. ChartAt(work[q][h].step, work[q][h].held, work[q][h].todo, c)
    BY <2>1 DEF ChartOK
  <2> QED
    BY <1>1, <1>6, <2>1, <2>2 DEF ChartAt, InCache
<1> QED
  BY <1>2, <1>5, <1>6, <1>7, <1>8 DEF ChartOK

(* or the one that is. *)
LEMMA ChartHere ==
  ASSUME NEW p \in Process, NEW g \in DOMAIN work[p],
         NEW step, NEW left, NEW held, NEW todo, Becomes(p, g, step, left, held, todo),
         NEW c, \A q \in Process : \A h \in DOMAIN work[q] : On(q, h, c) => q = p /\ h = g,
         left # {} => ChartAt(step, held, todo, c)',
         c \in DOMAIN cache' =>
            \/ Stored(c)'
            \/ /\ left # {} /\ step \in {"dropping", "store", "storing"}
               /\ CachedGroup(g) /\ ChartOfGroup(g) = c
  PROVE  ChartOK(c)'
<1>1. project' = project
  BY DEF Becomes
<1>2. Process' = Process
  BY <1>1, ItemsStay
<1>3. ASSUME NEW q \in Process, NEW h
      PROVE  /\ h \in DOMAIN work'[q] <=> h \in DOMAIN work[q]
             /\ h \in DOMAIN work[q] => \/ q = p /\ h = g
                                        \/ work'[q][h] = work[q][h]
  BY DEF Becomes
<1>4. /\ work'[p][g].step = step /\ work'[p][g].left = left
      /\ work'[p][g].held = held /\ work'[p][g].todo = todo
  BY DEF Becomes
<1>5. \A q \in Process : \A h \in DOMAIN work'[q] : On(q, h, c)' => q = p /\ h = g
  BY <1>3 DEF On
<1>6. Single(c)'
  BY <1>2, <1>5 DEF Single
<1>7. ASSUME NEW q \in Process, NEW h \in DOMAIN work'[q], On(q, h, c)'
      PROVE  ChartAt(work[q][h].step, work[q][h].held, work[q][h].todo, c)'
  <2>1. q = p /\ h = g
    BY <1>5, <1>7
  <2>2. left # {}
    BY <1>4, <1>7, <2>1 DEF On
  <2> QED
    BY <1>4, <2>1, <2>2
<1>8. c \in DOMAIN cache' => Stored(c)' \/ Replacing(c)'
  <2>1. SUFFICES ASSUME left # {}, step \in {"dropping", "store", "storing"},
                        CachedGroup(g), ChartOfGroup(g) = c
                 PROVE  Replacing(c)'
    OBVIOUS
  <2>2. On(p, g, c)' /\ g \in DOMAIN work'[p]
    BY <1>3, <1>4, <2>1 DEF On
  <2> QED
    BY <1>2, <1>4, <2>1, <2>2 DEF Replacing
<1> QED
  BY <1>2, <1>6, <1>7, <1>8 DEF ChartOK

LEMMA ChartAlone ==
  ASSUME NEW p \in Process, NEW g \in DOMAIN work[p], NEW c, ChartOK(c), On(p, g, c)
  PROVE  /\ \A q \in Process : \A h \in DOMAIN work[q] : On(q, h, c) => q = p /\ h = g
         /\ ChartAt(work[p][g].step, work[p][g].held, work[p][g].todo, c)
         /\ CachedGroup(g) /\ ChartOfGroup(g) = c /\ c[1] = g[2]
BY DEF ChartOK, Single, On, ChartOfGroup

LEMMA ChartsTake ==
  ASSUME Typed, NEW p \in Process, NEW g \in DOMAIN work[p], Take(p, g),
         NEW c, c \notin disturbed', ChartOK(c)
  PROVE  ChartOK(c)'
<1> DEFINE w == work[p][g]
<1> PICK d : d = First(p, g)
  OBVIOUS
<1>1. /\ w.step = "waiting" /\ w.left # {} /\ cache' = cache
      /\ Cached(d) => disturbed' = IF Others(p, g, ChartOf(d)) # {}
                                   THEN disturbed \cup {ChartOf(d)} ELSE disturbed
  BY TakeDoes
<1>2. PICK step \in {"pull", "next"} : /\ Becomes(p, g, step, w.left, w.held, w.todo)
                                       /\ step = "next" => /\ Cached(d) /\ ChartOf(d) \in DOMAIN cache
                                                           /\ ~AnyForced(p, g)
  BY TakeDoes
<1> PICK left, held, todo : left = w.left /\ held = w.held /\ todo = w.todo
  OBVIOUS
<1>3. Becomes(p, g, step, left, held, todo)
  BY <1>2
<1>4. ASSUME ~ (CachedGroup(g) /\ ChartOfGroup(g) = c) PROVE ChartOK(c)'
  <2>1. ~On(p, g, c) /\ ~On(p, g, c)'
    BY <1>4 DEF On
  <2> QED
    BY <1>1, <1>3, <2>1, ChartElsewhere
<1>5. ASSUME CachedGroup(g), ChartOfGroup(g) = c PROVE ChartOK(c)'
  <2>1. Cached(d) /\ ChartOf(d) = c /\ c[1] = d.source
    BY <1>1, <1>5, ChartIs
  <2>2. Others(p, g, c) = {}
    BY <1>1, <2>1
  <2>3. ASSUME NEW q \in Process, NEW h \in DOMAIN work[q], On(q, h, c) PROVE q = p /\ h = g
    <3>1. h \in Busy(q) /\ work[q][h].left # {} /\ CachedGroup(h)
      BY <2>3 DEF On, Busy
    <3>2. Cached(First(q, h)) /\ ChartOf(First(q, h)) = c
      BY <2>3, <3>1, ChartIs DEF On
    <3>3. << q, h >> = << p, g >>
      BY <2>2, <3>1, <3>2 DEF Others
    <3> QED
      BY <3>3
  <2>4. ~On(p, g, c)
    BY <1>1 DEF On
  <2>5. c \in DOMAIN cache => Stored(c)
    BY <2>3, <2>4 DEF ChartOK, Replacing
  <2>6. held.at = 0
    BY <1>1, AtWork DEF Shaped, Nothing
  <2>7. \A f : c \in DOMAIN cache /\ f \in DOMAIN cache[c] => cache[c][f].at \in Nat
    BY DEF Typed, CacheTyped
  <2>8. step = "next" => c \in DOMAIN cache
    BY <1>2, <2>1
  <2>9. ChartAt(step, held, todo, c)'
    BY <1>1, <2>5, <2>6, <2>7, <2>8 DEF ChartAt, Stored
  <2>10. c \in DOMAIN cache' => Stored(c)'
    BY <1>1, <2>5 DEF Stored
  <2> QED
    BY <1>3, <2>3, <2>9, <2>10, ChartHere
<1> QED
  BY <1>4, <1>5

(* The cache stays, and what the group does next fits it.                  *)
LEMMA ChartsWait ==
  ASSUME NEW p \in Process, NEW g \in DOMAIN work[p],
         NEW step, NEW left, NEW held, NEW todo, Becomes(p, g, step, left, held, todo),
         work[p][g].step \notin {"waiting", "ended"}, work[p][g].left # {},
         NEW c, ChartOK(c), cache' = cache,
         CachedGroup(g) /\ ChartOfGroup(g) = c /\ left # {} =>
            (ChartAt(work[p][g].step, work[p][g].held, work[p][g].todo, c)
               => ChartAt(step, held, todo, c)),
         CachedGroup(g) /\ ChartOfGroup(g) = c /\ c \in DOMAIN cache /\ ~Stored(c) =>
            work[p][g].step \notin {"dropping", "store", "storing"} \/
            (left # {} /\ step \in {"dropping", "store", "storing"})
  PROVE  ChartOK(c)'
<1>1. ASSUME ~ (CachedGroup(g) /\ ChartOfGroup(g) = c) PROVE ChartOK(c)'
  <2>1. ~On(p, g, c) /\ ~On(p, g, c)'
    BY <1>1 DEF On
  <2> QED
    BY <2>1, ChartElsewhere
<1>2. ASSUME CachedGroup(g), ChartOfGroup(g) = c PROVE ChartOK(c)'
  <2>1. On(p, g, c)
    BY <1>2 DEF On
  <2>2. /\ \A q \in Process : \A h \in DOMAIN work[q] : On(q, h, c) => q = p /\ h = g
        /\ ChartAt(work[p][g].step, work[p][g].held, work[p][g].todo, c)
    BY <2>1, ChartAlone
  <2>3. c \in DOMAIN cache =>
          Stored(c) \/ work[p][g].step \in {"dropping", "store", "storing"}
    BY <2>2 DEF ChartOK, Replacing
  <2>4. project' = project
    BY DEF Becomes
  <2>5. left # {} => ChartAt(step, held, todo, c)'
    BY <1>2, <2>2, <2>4 DEF ChartAt, Stored, InCache
  <2>6. c \in DOMAIN cache' =>
          Stored(c)' \/ (left # {} /\ step \in {"dropping", "store", "storing"})
    BY <1>2, <2>3 DEF Stored
  <2> QED
    BY <1>2, <2>2, <2>5, <2>6, ChartHere
<1> QED
  BY <1>1, <1>2

LEMMA ChartsPull ==
  ASSUME Typed, NEW p \in Process, NEW g \in DOMAIN work[p], Pull(p, g), NEW c, ChartOK(c)
  PROVE  ChartOK(c)'
<1> DEFINE w == work[p][g]
<1> PICK d, held : d = First(p, g) /\ held = Pulled(p, g, d)
  OBVIOUS
<1>1. w.step = "pull" /\ w.left # {} /\ cache' = cache
  BY PullDoes
<1> PICK step, left, todo : /\ step = (IF Cached(d) THEN "drop" ELSE "next")
                            /\ left = w.left /\ todo = w.todo
  OBVIOUS
<1>2. CachedGroup(g) => step = "drop"
  BY <1>1, ChartIs
<1>3. ASSUME Becomes(p, g, step, left, held, todo) PROVE ChartOK(c)'
  <2>1. CachedGroup(g) => (ChartAt(w.step, w.held, w.todo, c) => ChartAt(step, held, todo, c))
    BY <1>1, <1>2 DEF ChartAt
  <2> QED
    BY <1>1, <1>3, <2>1, ChartsWait
<1>4. ASSUME Becomes(p, g, "ended", {}, w.held, {}) PROVE ChartOK(c)'
  <2> PICK k : k = w.held
    OBVIOUS
  <2>1. Becomes(p, g, "ended", {}, k, {})
    BY <1>4
  <2> QED
    BY <1>1, <2>1, ChartsWait
<1>5. Becomes(p, g, step, left, held, todo) \/ Becomes(p, g, "ended", {}, w.held, {})
  BY PullDoes
<1> QED
  BY <1>3, <1>4, <1>5

LEMMA ChartsListCached ==
  ASSUME Typed, NEW p \in Process, NEW g \in DOMAIN work[p], ListCached(p, g), NEW c, ChartOK(c)
  PROVE  ChartOK(c)'
<1> DEFINE w == work[p][g]
<1> PICK left, held, todo : /\ left = w.left /\ held = w.held
                            /\ todo = InCache(ChartOf(First(p, g)))
  OBVIOUS
<1>1. w.step = "drop" /\ w.left # {} /\ cache' = cache /\ Becomes(p, g, "dropping", left, held, todo)
  BY ListCachedDoes
<1>2. CachedGroup(g) /\ ChartOfGroup(g) = c => todo = InCache(c)
  BY <1>1, ChartIs
<1>3. CachedGroup(g) /\ ChartOfGroup(g) = c => ChartAt("dropping", held, todo, c)
  BY <1>2 DEF ChartAt
<1> QED
  BY <1>1, <1>3, ChartsWait

(* The cached chart changes under the group that replaces it.              *)
LEMMA ChartsChange ==
  ASSUME Typed, NEW p \in Process, NEW g \in DOMAIN work[p],
         NEW step, NEW left, NEW held, NEW todo, Becomes(p, g, step, left, held, todo),
         work[p][g].step \in Putting, work[p][g].left # {},
         NEW c, ChartOK(c),
         \A b : b # ChartOf(First(p, g)) =>
            /\ b \in DOMAIN cache' <=> b \in DOMAIN cache
            /\ b \in DOMAIN cache => cache'[b] = cache[b],
         c = ChartOf(First(p, g))
            /\ ChartAt(work[p][g].step, work[p][g].held, work[p][g].todo, c)
            /\ Puts(g, work[p][g].held) /\ c[1] = g[2]
            => /\ left # {} => ChartAt(step, held, todo, c)'
               /\ c \in DOMAIN cache' =>
                    Stored(c)' \/ (left # {} /\ step \in {"dropping", "store", "storing"})
  PROVE  ChartOK(c)'
<1>1. Puts(g, work[p][g].held) /\ CachedGroup(g)
  BY AtWork DEF Shaped, Puts
<1>2. ChartOf(First(p, g)) = ChartOfGroup(g)
  BY <1>1, ChartIs
<1>3. ASSUME ChartOfGroup(g) # c PROVE ChartOK(c)'
  <2>1. ~On(p, g, c) /\ ~On(p, g, c)'
    BY <1>3 DEF On
  <2>2. (c \in DOMAIN cache' <=> c \in DOMAIN cache) /\ (c \in DOMAIN cache => cache'[c] = cache[c])
    BY <1>2, <1>3
  <2> QED
    BY <2>1, <2>2, ChartElsewhere
<1>4. ASSUME ChartOfGroup(g) = c PROVE ChartOK(c)'
  <2>1. On(p, g, c)
    BY <1>1, <1>4 DEF On, Putting
  <2>2. /\ \A q \in Process : \A h \in DOMAIN work[q] : On(q, h, c) => q = p /\ h = g
        /\ ChartAt(work[p][g].step, work[p][g].held, work[p][g].todo, c) /\ c[1] = g[2]
    BY <2>1, ChartAlone
  <2>3. /\ left # {} => ChartAt(step, held, todo, c)'
        /\ c \in DOMAIN cache' =>
             Stored(c)' \/ (left # {} /\ step \in {"dropping", "store", "storing"})
    BY <1>1, <1>2, <1>4, <2>2
  <2> QED
    BY <1>1, <1>4, <2>2, <2>3, ChartHere
<1> QED
  BY <1>3, <1>4

LEMMA ChartsDropCached ==
  ASSUME Typed, NEW p \in Process, NEW g \in DOMAIN work[p], DropCached(p, g), NEW c, ChartOK(c)
  PROVE  ChartOK(c)'
<1> DEFINE w == work[p][g]
<1> PICK b : b = ChartOf(First(p, g))
  OBVIOUS
<1> PICK left, held : left = w.left /\ held = w.held
  OBVIOUS
<1>1. w.step = "dropping" /\ w.step \in Putting /\ w.left # {}
  BY DropCachedDoes DEF Putting
<1>2. ASSUME NEW f \in w.todo, Becomes(p, g, "dropping", w.left, w.held, w.todo \ {f}),
             cache' = IF f \in InCache(b) THEN [cache EXCEPT ![b] = Without(@, f)] ELSE cache
      PROVE  ChartOK(c)'
  <2> PICK todo : todo = w.todo \ {f}
    OBVIOUS
  <2>1. Becomes(p, g, "dropping", left, held, todo)
    BY <1>2
  <2>2. \A e : e # b => /\ e \in DOMAIN cache' <=> e \in DOMAIN cache
                        /\ cache'[e] = cache[e]
    BY <1>2
  <2>3. ASSUME c = b, ChartAt("dropping", w.held, w.todo, c)
        PROVE  ChartAt("dropping", held, todo, c)'
    <3>1. InCache(c) = w.todo
      BY <2>3 DEF ChartAt
    <3>2. c \in DOMAIN cache /\ f \in DOMAIN cache[c]
      BY <3>1 DEF InCache
    <3>3. cache' = [cache EXCEPT ![c] = Without(@, f)]
      BY <1>2, <2>3, <3>1
    <3>4. c \in DOMAIN cache' /\ DOMAIN cache'[c] = DOMAIN cache[c] \ {f}
      BY <3>2, <3>3 DEF Without
    <3>5. InCache(c)' = todo
      BY <3>1, <3>2, <3>4 DEF InCache
    <3> QED
      BY <3>5 DEF ChartAt
  <2> HIDE DEF w
  <2> QED
    BY <1>1, <2>1, <2>2, <2>3, ChartsChange DEF w
<1>3. ASSUME w.todo = {}, Becomes(p, g, "store", w.left, w.held, w.todo),
             cache' = IF InCache(b) = {} THEN Without(cache, b) ELSE cache
      PROVE  ChartOK(c)'
  <2> PICK todo : todo = w.todo
    OBVIOUS
  <2>1. Becomes(p, g, "store", left, held, todo)
    BY <1>3
  <2>2. \A e : e # b => /\ e \in DOMAIN cache' <=> e \in DOMAIN cache
                        /\ e \in DOMAIN cache => cache'[e] = cache[e]
    BY <1>3 DEF Without
  <2>3. ASSUME c = b, ChartAt("dropping", w.held, w.todo, c)
        PROVE  c \notin DOMAIN cache' /\ ChartAt("store", held, todo, c)'
    <3>1. InCache(c) = {}
      BY <1>3, <2>3 DEF ChartAt
    <3>2. c \notin DOMAIN cache'
      BY <1>3, <2>3, <3>1 DEF Without
    <3> QED
      BY <3>2 DEF ChartAt
  <2> HIDE DEF w
  <2> QED
    BY <1>1, <2>1, <2>2, <2>3, ChartsChange DEF w
<1>4. \/ \E f \in w.todo :
           /\ Becomes(p, g, "dropping", w.left, w.held, w.todo \ {f})
           /\ cache' = IF f \in InCache(b) THEN [cache EXCEPT ![b] = Without(@, f)] ELSE cache
      \/ /\ w.todo = {} /\ Becomes(p, g, "store", w.left, w.held, w.todo)
         /\ cache' = IF InCache(b) = {} THEN Without(cache, b) ELSE cache
  BY DropCachedDoes
<1> QED
  BY <1>2, <1>3, <1>4

LEMMA ChartsStore ==
  ASSUME Typed, NEW p \in Process, NEW g \in DOMAIN work[p], Store(p, g), NEW c, ChartOK(c)
  PROVE  ChartOK(c)'
<1> DEFINE w == work[p][g]
<1> PICK d, b : d = First(p, g) /\ b = ChartOf(d)
  OBVIOUS
<1> PICK left, held, todo : left = w.left /\ held = w.held /\ todo = w.todo
  OBVIOUS
<1>1. w.step = "store" /\ w.step \in Putting /\ w.left # {} /\ held.at \in Nat
  BY StoreDoes, AtWork DEF Putting, Shaped
<1>2. ASSUME Becomes(p, g, "next", w.left, w.held, w.todo),
             cache' = With(cache, b, [f \in w.held.files |-> Content(d, w.held, f)])
      PROVE  ChartOK(c)'
  <2> PICK v : v = [f \in held.files |-> Content(d, held, f)]
    OBVIOUS
  <2>1. Becomes(p, g, "next", left, held, todo) /\ cache' = With(cache, b, v)
    BY <1>2
  <2>2. /\ b \in DOMAIN cache' /\ cache'[b] = v
        /\ \A e : e # b => /\ e \in DOMAIN cache' <=> e \in DOMAIN cache
                           /\ e \in DOMAIN cache => cache'[e] = cache[e]
    BY <2>1 DEF With
  <2>3. DOMAIN v = held.files /\ \A f \in DOMAIN v : v[f].at = held.at
    BY DEF Content
  <2>4. ASSUME c = b, Puts(g, w.held), c[1] = g[2]
        PROVE  ChartAt("next", held, todo, c)' /\ Stored(c)'
    <3>1. Stored(c)'
      BY <2>2, <2>3, <2>4 DEF Stored, Puts
    <3> QED
      BY <1>1, <2>2, <2>3, <2>4, <3>1 DEF ChartAt
  <2>5. \A e : e # ChartOf(First(p, g)) => /\ e \in DOMAIN cache' <=> e \in DOMAIN cache
                                           /\ e \in DOMAIN cache => cache'[e] = cache[e]
    BY <2>2
  <2>6. c = ChartOf(First(p, g)) /\ Puts(g, w.held) /\ c[1] = g[2]
           => ChartAt("next", held, todo, c)' /\ Stored(c)'
    BY <2>4
  <2> HIDE DEF w
  <2> QED
    BY <1>1, <2>1, <2>5, <2>6, ChartsChange DEF w
<1>3. ASSUME ~ (project.oneDisk /\ InCache(b) = {}),
             Becomes(p, g, "storing", w.left, w.held, w.held.files),
             cache' = With(cache, b, IF b \in DOMAIN cache THEN cache[b] ELSE << >>)
      PROVE  ChartOK(c)'
  <2> PICK v, files : /\ v = IF b \in DOMAIN cache THEN cache[b] ELSE << >>
                      /\ files = held.files
    OBVIOUS
  <2>1. Becomes(p, g, "storing", left, held, files) /\ cache' = With(cache, b, v)
    BY <1>3
  <2>2. /\ b \in DOMAIN cache' /\ cache'[b] = v
        /\ \A e : e # b => /\ e \in DOMAIN cache' <=> e \in DOMAIN cache
                           /\ e \in DOMAIN cache => cache'[e] = cache[e]
    BY <2>1 DEF With
  <2>3. ASSUME c = b, Puts(g, w.held), c[1] = g[2], ChartAt("store", w.held, w.todo, c)
        PROVE  ChartAt("storing", held, files, c)'
    <3>1. c \notin DOMAIN cache /\ DOMAIN << >> = {}
      BY <2>3 DEF ChartAt
    <3>2. DOMAIN v = {}
      BY <2>3, <3>1
    <3>3. ~project.oneDisk
      BY <1>3, <2>3, <3>1 DEF InCache
    <3>4. project' = project
      BY <2>1 DEF Becomes
    <3>5. files = FilesOf[c[1]]
      BY <2>3 DEF Puts
    <3> QED
      BY <2>2, <2>3, <3>2, <3>3, <3>4, <3>5 DEF ChartAt
  <2> HIDE DEF w
  <2> QED
    BY <1>1, <2>1, <2>2, <2>3, ChartsChange DEF w
<1>4. \/ /\ Becomes(p, g, "next", w.left, w.held, w.todo)
         /\ cache' = With(cache, b, [f \in w.held.files |-> Content(d, w.held, f)])
      \/ /\ ~ (project.oneDisk /\ InCache(b) = {})
         /\ Becomes(p, g, "storing", w.left, w.held, w.held.files)
         /\ cache' = With(cache, b, IF b \in DOMAIN cache THEN cache[b] ELSE << >>)
  BY StoreDoes
<1> QED
  BY <1>2, <1>3, <1>4

LEMMA ChartsStoreFile ==
  ASSUME Typed, NEW p \in Process, NEW g \in DOMAIN work[p], StoreFile(p, g),
         NEW c, c \notin disturbed', ChartOK(c)
  PROVE  ChartOK(c)'
<1> DEFINE w == work[p][g]
<1> PICK d, b : d = First(p, g) /\ b = ChartOf(d)
  OBVIOUS
<1> PICK left, held : left = w.left /\ held = w.held
  OBVIOUS
<1>1. w.step = "storing" /\ w.step \in Putting /\ w.left # {} /\ held.at \in Nat
  BY StoreFileDoes, AtWork DEF Putting, Shaped
<1>2. ASSUME w.todo = {}, Becomes(p, g, "next", w.left, w.held, w.todo), cache' = cache
      PROVE  ChartOK(c)'
  <2> PICK todo : todo = w.todo
    OBVIOUS
  <2>1. Becomes(p, g, "next", left, held, todo)
    BY <1>2
  <2>2. ASSUME ChartAt("storing", w.held, w.todo, c)
        PROVE  ChartAt("next", held, todo, c) /\ (c \in DOMAIN cache => Stored(c))
    BY <1>1, <1>2, <2>2 DEF ChartAt, Stored
  <2>3. project' = project
    BY <2>1 DEF Becomes
  <2>4. ASSUME ChartAt("storing", w.held, w.todo, c)
        PROVE  ChartAt("next", held, todo, c)' /\ (c \in DOMAIN cache' => Stored(c)')
    BY <1>2, <2>2, <2>3, <2>4 DEF ChartAt, Stored, InCache
  <2>5. \A e : /\ e \in DOMAIN cache' <=> e \in DOMAIN cache
               /\ e \in DOMAIN cache => cache'[e] = cache[e]
    BY <1>2
  <2> HIDE DEF w
  <2> QED
    BY <1>1, <2>1, <2>4, <2>5, ChartsChange DEF w
<1>3. ASSUME NEW f \in w.todo, Stores(p, g, f) PROVE ChartOK(c)'
  <2> PICK todo, x, v : /\ todo = w.todo \ {f} /\ x = Content(d, held, f)
                        /\ v = With(cache[b], f, x)
    OBVIOUS
  <2>1. /\ Becomes(p, g, "storing", left, held, todo) /\ b \in DOMAIN cache
        /\ cache' = [cache EXCEPT ![b] = v]
    BY <1>3 DEF Stores
  <2>2. /\ b \in DOMAIN cache' /\ cache'[b] = v
        /\ \A e : e # b => /\ e \in DOMAIN cache' <=> e \in DOMAIN cache
                           /\ e \in DOMAIN cache => cache'[e] = cache[e]
    BY <2>1
  <2>3. /\ DOMAIN v = DOMAIN cache[b] \cup {f} /\ v[f] = x
        /\ \A y \in DOMAIN cache[b] : y # f => v[y] = cache[b][y]
    BY DEF With
  <2>4. x.at = held.at
    BY DEF Content
  <2>5. ASSUME c = b, ChartAt("storing", w.held, w.todo, c)
        PROVE  ChartAt("storing", held, todo, c)'
    <3>1. /\ ~project.oneDisk /\ w.todo \subseteq FilesOf[c[1]]
          /\ DOMAIN cache[c] = FilesOf[c[1]] \ w.todo
          /\ \A y \in DOMAIN cache[c] : cache[c][y].at = held.at
      BY <2>5 DEF ChartAt
    <3>2. project' = project
      BY <2>1 DEF Becomes
    <3>3. /\ DOMAIN cache'[c] = FilesOf[c[1]] \ todo /\ todo \subseteq FilesOf[c[1]]
      BY <1>3, <2>2, <2>3, <2>5, <3>1
    <3>4. \A y \in DOMAIN cache'[c] : cache'[c][y].at = held.at
      BY <2>2, <2>3, <2>4, <2>5, <3>1
    <3> QED
      BY <2>2, <2>5, <3>1, <3>2, <3>3, <3>4 DEF ChartAt
  <2> HIDE DEF w
  <2> QED
    BY <1>1, <2>1, <2>2, <2>5, ChartsChange DEF w
<1>4. ASSUME Breaks(p, g) PROVE ChartOK(c)'
  <2>1. Becomes(p, g, "ended", {}, held, {}) /\ cache' = cache /\ (b \in DOMAIN cache => b \in disturbed')
    BY <1>4 DEF Breaks
  <2>2. ASSUME c = b, ChartAt("storing", w.held, w.todo, c) PROVE FALSE
    BY <2>1, <2>2 DEF ChartAt
  <2> HIDE DEF w
  <2> QED
    BY <1>1, <2>1, <2>2, ChartsChange DEF w
<1>5. ASSUME NEW f \in w.todo, Empties(p, g, f) PROVE ChartOK(c)'
  <2> PICK todo, v : todo = w.todo /\ v = Without(cache[b], f)
    OBVIOUS
  <2>1. /\ Becomes(p, g, "storing", left, held, todo) /\ f \in InCache(b)
        /\ cache' = [cache EXCEPT ![b] = v]
    BY <1>5 DEF Empties
  <2>2. \A e : e # b => /\ e \in DOMAIN cache' <=> e \in DOMAIN cache
                        /\ e \in DOMAIN cache => cache'[e] = cache[e]
    BY <2>1
  <2>3. ASSUME c = b, ChartAt("storing", w.held, w.todo, c) PROVE FALSE
    BY <1>5, <2>1, <2>3 DEF ChartAt, InCache
  <2> HIDE DEF w
  <2> QED
    BY <1>1, <2>1, <2>2, <2>3, ChartsChange DEF w
<1>6. \/ w.todo = {} /\ Becomes(p, g, "next", w.left, w.held, w.todo) /\ cache' = cache
      \/ \E f \in w.todo : Empties(p, g, f)
      \/ \E f \in w.todo : Stores(p, g, f)
      \/ Breaks(p, g)
  BY StoreFileDoes, Zenon
<1> HIDE DEF w
<1> QED
  BY <1>2, <1>3, <1>4, <1>5, <1>6

(* Charts are copied out of the cache, which stays as it is.               *)
LEMMA ChartsCopy ==
  ASSUME Typed, NEW p \in Process, NEW g \in DOMAIN work[p],
         Begin(p, g) \/ Fills(p, g) \/ Copied(p, g), NEW c, ChartOK(c)
  PROVE  ChartOK(c)'
<1> DEFINE w == work[p][g]
<1>1. w.step \in {"next", "copy"} /\ cache' = cache
  BY BeginDoes, FillsBecome, CopiedDoes
<1>2. ASSUME NEW step \in {"next", "copy"}, NEW left, NEW held, NEW todo, w.left # {},
             CachedGroup(g) => held = w.held, Becomes(p, g, step, left, held, todo)
      PROVE  ChartOK(c)'
  <2>1. CachedGroup(g) /\ ChartAt(w.step, w.held, w.todo, c) => ChartAt(step, held, todo, c)
    BY <1>1, <1>2 DEF ChartAt
  <2>2. w.step \notin {"waiting", "ended"} /\ w.step \notin {"dropping", "store", "storing"}
    BY <1>1
  <2> HIDE DEF w
  <2> QED
    BY <1>1, <1>2, <2>1, <2>2, ChartsWait DEF w
<1>3. ASSUME w.left = {}, Becomes(p, g, "ended", {}, w.held, w.todo) PROVE ChartOK(c)'
  <2> PICK held, todo : held = w.held /\ todo = w.todo
    OBVIOUS
  <2>1. Becomes(p, g, "ended", {}, held, todo)
    BY <1>3
  <2>2. ~On(p, g, c) /\ ~On(p, g, c)'
    BY <1>3 DEF On, Becomes
  <2> QED
    BY <1>1, <2>1, <2>2, ChartElsewhere
<1>4. CASE Begin(p, g)
  <2> PICK held, todo : /\ held = Checkout(First(p, g), w.held)
                        /\ todo = Under(Offered(First(p, g), held), First(p, g).sub)
    OBVIOUS
  <2>1. CachedGroup(g) /\ w.left # {} => held = w.held
    <3>1. CachedGroup(g) /\ w.left # {} => First(p, g).kind = "helm"
      BY ChartIs
    <3> QED
      BY <3>1 DEF Checkout
  <2>2. ASSUME w.left # {}, Becomes(p, g, "copy", w.left, held, todo) PROVE ChartOK(c)'
    BY <1>2, <2>1, <2>2
  <2>3. ASSUME w.left # {}, Becomes(p, g, "next", w.left \ {Current(p, g)}, w.held, {})
        PROVE  ChartOK(c)'
    BY <1>2, <2>3
  <2>4. \/ w.left = {} /\ Becomes(p, g, "ended", {}, w.held, w.todo)
        \/ w.left # {} /\ Becomes(p, g, "next", w.left \ {Current(p, g)}, w.held, {})
        \/ w.left # {} /\ Becomes(p, g, "copy", w.left, held, todo)
    BY <1>4, BeginDoes
  <2> QED
    BY <1>3, <2>2, <2>3, <2>4
<1>5. CASE Fills(p, g)
  <2>1. /\ w.left # {}
        /\ \/ Becomes(p, g, "next", w.left \ {Current(p, g)}, w.held, {})
           \/ \E todo \in SUBSET w.todo : Becomes(p, g, "copy", w.left, w.held, todo)
    BY <1>5, FillsBecome
  <2> QED
    BY <1>2, <2>1
<1>6. CASE Copied(p, g)
  BY <1>2, <1>6, CopiedDoes
<1> QED
  BY <1>4, <1>5, <1>6

(* A process that begins is not at work yet; one that ends no longer is.   *)
LEMMA ChartsLeave ==
  ASSUME Typed, NEW p \in Process, project' = project, cache' = cache,
         \A q \in Process \ {p} : work'[q] = work[q],
         NEW c, \A g \in DOMAIN work'[p] : ~On(p, g, c)', ChartOK(c),
         \A g \in DOMAIN work[p] : On(p, g, c)
            /\ work[p][g].step \in {"dropping", "store", "storing"} /\ c \in DOMAIN cache => Stored(c)
  PROVE  ChartOK(c)'
<1>1. Process' = Process
  BY ItemsStay
<1>2. \A q \in Process : \A h \in DOMAIN work'[q] :
         On(q, h, c)' => q # p /\ h \in DOMAIN work[q] /\ work'[q] = work[q] /\ On(q, h, c)
  BY DEF On
<1>3. Single(c)'
  BY <1>1, <1>2 DEF Single, ChartOK
<1>4. ASSUME NEW q \in Process, NEW h \in DOMAIN work'[q], On(q, h, c)'
      PROVE  ChartAt(work[q][h].step, work[q][h].held, work[q][h].todo, c)'
  <2>1. h \in DOMAIN work[q] /\ work'[q] = work[q] /\ On(q, h, c)
    BY <1>2, <1>4
  <2>2. ChartAt(work[q][h].step, work[q][h].held, work[q][h].todo, c)
    BY <2>1 DEF ChartOK
  <2> QED
    BY <2>1, <2>2 DEF ChartAt, Stored, InCache
<1>5. ASSUME c \in DOMAIN cache', ~Stored(c)' PROVE Replacing(c)'
  <2>1. c \in DOMAIN cache /\ ~Stored(c)
    BY <1>5 DEF Stored
  <2>2. PICK q \in Process : \E g \in DOMAIN work[q] :
           On(q, g, c) /\ work[q][g].step \in {"dropping", "store", "storing"}
    BY <2>1 DEF ChartOK, Replacing
  <2> PICK h \in DOMAIN work[q] :
           On(q, h, c) /\ work[q][h].step \in {"dropping", "store", "storing"}
    BY <2>2
  <2>3. q # p
    BY <2>1, <2>2
  <2>4. work'[q] = work[q]
    BY <2>3
  <2>5. On(q, h, c)'
    BY <2>2, <2>4 DEF On
  <2> QED
    BY <1>1, <2>2, <2>4, <2>5 DEF Replacing
<1> QED
  BY <1>1, <1>3, <1>4, <1>5 DEF ChartOK

LEMMA ChartsStart ==
  ASSUME Typed, NEW p \in Process, Start(p), NEW c, ChartOK(c)
  PROVE  ChartOK(c)'
<1>1. PICK f : Starts(p, f)
  BY StartDoes
<1>2. run[p].phase = "off" /\ project' = project /\ cache' = cache
  BY StartDoes
<1>3. DOMAIN work[p] = {}
  BY <1>2, AtWork
<1>4. \A q \in Process \ {p} : work'[q] = work[q]
  BY <1>1 DEF Starts
<1>5. \A g \in DOMAIN work'[p] : ~On(p, g, c)'
  BY <1>1 DEF Starts, On
<1> QED
  BY <1>2, <1>3, <1>4, <1>5, ChartsLeave

LEMMA ChartsFinish ==
  ASSUME Typed, NEW p \in Process, Finish(p), NEW c, ChartOK(c)
  PROVE  ChartOK(c)'
<1>1. Stops(p) /\ \A g \in DOMAIN work[p] : work[p][g].step = "ended"
  BY StopsAre DEF Finish, Over
<1>2. DOMAIN work'[p] = {}
  BY <1>1 DEF Stops, NoWork
<1> QED
  BY <1>1, <1>2, ChartsLeave DEF Stops

LEMMA ChartsCrash ==
  ASSUME Typed, NEW p \in Process, Crash(p), NEW c, c \notin disturbed', ChartOK(c)
  PROVE  ChartOK(c)'
<1>1. Stops(p) /\ disturbed' = disturbed \cup HalfStored(p)
  BY StopsAre DEF Crash
<1>2. DOMAIN work'[p] = {}
  BY <1>1 DEF Stops, NoWork
<1>3. ASSUME NEW g \in DOMAIN work[p], On(p, g, c),
             work[p][g].step \in {"dropping", "store", "storing"}, c \in DOMAIN cache
      PROVE  Stored(c)
  <2>1. ChartAt(work[p][g].step, work[p][g].held, work[p][g].todo, c) /\ CachedGroup(g)
    BY <1>3, ChartAlone
  <2>2. work[p][g].step = "dropping" \/ (work[p][g].step = "storing" /\ ~project.oneDisk)
    BY <1>3, <2>1 DEF ChartAt
  <2>3. ChartOf(First(p, g)) = c /\ g \in Busy(p)
    BY <1>3, <2>1, ChartIs DEF On, Busy
  <2>4. c \in HalfStored(p)
    BY <1>3, <2>2, <2>3 DEF HalfStored
  <2> QED
    BY <1>1, <2>4
<1> QED
  BY <1>1, <1>2, <1>3, ChartsLeave DEF Stops

LEMMA ChartsSame ==
  ASSUME project' = project, work' = work, cache' = cache, NEW c, ChartOK(c)
  PROVE  ChartOK(c)'
BY ItemsStay DEF ChartOK, Single, Replacing, ChartAt, On, Stored, InCache

(* A chart stays disturbed for good. *)
LEMMA DisturbedGrows == ASSUME [Next]_vars PROVE disturbed \subseteq disturbed'
<1>1. ASSUME NEW p \in Process, NEW g \in DOMAIN work[p], Advance(p, g)
      PROVE  disturbed \subseteq disturbed'
  <2>1. Take(p, g) => disturbed \subseteq disturbed'
    BY DEF Take
  <2>2. Pull(p, g) \/ ListCached(p, g) \/ DropCached(p, g) => disturbed' = disturbed
    BY DEF Pull, ListCached, DropCached
  <2>3. Store(p, g) \/ StoreFile(p, g) => disturbed \subseteq disturbed'
    BY DEF Store, StoreFile
  <2>4. Begin(p, g) \/ CopyFile(p, g) \/ WriteFile(p, g) \/ Copied(p, g) => disturbed' = disturbed
    BY DEF Begin, CopyFile, WriteFile, Copied
  <2> QED
    BY <1>1, <2>1, <2>2, <2>3, <2>4 DEF Advance
<1>2. ASSUME NEW p \in Process, Start(p) \/ Finish(p) \/ Crash(p)
      PROVE  disturbed \subseteq disturbed'
  BY <1>2 DEF Start, Finish, Crash
<1>3. ASSUME NEW s \in Sources, Publish(s) PROVE disturbed' = disturbed
  BY <1>3 DEF Publish
<1> QED
  BY <1>1, <1>2, <1>3 DEF Next, vars

(* A behaviour is about one project. *)
LEMMA ProjectStays == ASSUME [Next]_vars PROVE project' = project
<1>1. ASSUME NEW p \in Process, NEW g \in DOMAIN work[p], Advance(p, g) PROVE project' = project
  <2>1. Take(p, g) \/ Pull(p, g) \/ ListCached(p, g) \/ DropCached(p, g) => project' = project
    BY DEF Take, Pull, ListCached, DropCached
  <2>2. Store(p, g) \/ StoreFile(p, g) => project' = project
    BY DEF Store, StoreFile
  <2>3. Begin(p, g) \/ CopyFile(p, g) \/ WriteFile(p, g) \/ Copied(p, g) => project' = project
    BY DEF Begin, CopyFile, WriteFile, Copied
  <2> QED
    BY <1>1, <2>1, <2>2, <2>3 DEF Advance
<1>2. ASSUME NEW p \in Process, Start(p) \/ Finish(p) \/ Crash(p) PROVE project' = project
  BY <1>2 DEF Start, Finish, Crash
<1>3. ASSUME NEW s \in Sources, Publish(s) PROVE project' = project
  BY <1>3 DEF Publish
<1> QED
  BY <1>1, <1>2, <1>3 DEF Next, vars

LEMMA ChartsStep == Typed /\ Charts /\ [Next]_vars => Charts'
<1> SUFFICES ASSUME Typed, Charts, [Next]_vars, NEW c, c \notin disturbed'
             PROVE  ChartOK(c)'
  BY DEF Charts
<1>1. c \notin disturbed
  BY DisturbedGrows
<1>2. ChartOK(c)
  BY <1>1 DEF Charts
<1>3. ASSUME NEW p \in Process, Start(p) \/ Finish(p) \/ Crash(p) PROVE ChartOK(c)'
  BY <1>2, <1>3, ChartsStart, ChartsFinish, ChartsCrash
<1>4. ASSUME NEW p \in Process, NEW g \in DOMAIN work[p], Advance(p, g) PROVE ChartOK(c)'
  BY <1>2, <1>4, ChartsTake, ChartsPull, ChartsListCached, ChartsDropCached, ChartsStore,
     ChartsStoreFile, ChartsCopy DEF Advance, Fills
<1>5. ASSUME NEW s \in Sources, Publish(s) PROVE ChartOK(c)'
  BY <1>2, <1>5, ChartsSame DEF Publish
<1>6. CASE UNCHANGED vars
  BY <1>2, <1>6, ChartsSame DEF vars
<1> QED
  BY <1>3, <1>4, <1>5, <1>6 DEF Next

LEMMA ChartsInit == Init => Charts
<1> SUFFICES ASSUME Init PROVE Charts
  OBVIOUS
<1>1. work = [p \in Process |-> NoWork] /\ DOMAIN NoWork = {} /\ DOMAIN cache = {}
  BY DEF Init, NoWork
<1> QED
  BY <1>1 DEF Charts, ChartOK, Single

LEMMA ChartsAnswer == Typed /\ Charts => ChartsAreWhole
<1> SUFFICES ASSUME Typed, Charts, NEW p \in Process, NEW i \in Items(p), NEW d, d = Item(p, i),
                    Cached(d), ChartOf(d) \in DOMAIN cache, Undisturbed(d),
                    \A q \in Process : \A g \in Busy(q) :
                       work[q][g].step \in {"dropping", "store", "storing"} =>
                          ChartOf(First(q, g)) # ChartOf(d)
             PROVE  /\ DOMAIN cache[ChartOf(d)] = FilesOf[d.source]
                    /\ \A e, f \in DOMAIN cache[ChartOf(d)] :
                          cache[ChartOf(d)][e].at = cache[ChartOf(d)][f].at
  BY DEF ChartsAreWhole
<1> PICK c : c = ChartOf(d)
  OBVIOUS
<1>1. ChartOK(c) /\ c[1] = d.source
  BY DEF Charts, Undisturbed, ChartOf
<1>2. ASSUME Replacing(c) PROVE FALSE
  <2>1. PICK q \in Process : \E g \in DOMAIN work[q] :
           On(q, g, c) /\ work[q][g].step \in {"dropping", "store", "storing"}
    BY <1>2 DEF Replacing
  <2> PICK g \in DOMAIN work[q] :
           On(q, g, c) /\ work[q][g].step \in {"dropping", "store", "storing"}
    BY <2>1
  <2>2. g \in Busy(q) /\ ChartOf(First(q, g)) = c
    BY <2>1, ChartIs DEF On, Busy
  <2> QED
    BY <2>1, <2>2
<1> QED
  BY <1>1, <1>2 DEF ChartOK, Stored

(* The chart cache never keeps part of a chart, nor one of two versions:   *)
(* see ChartsAreWhole.                                                     *)
THEOREM CachedChartsAreWhole == Spec => []ChartsAreWhole
BY TypedInit, TypedStep, ChartsInit, ChartsStep, ChartsAnswer, PTL DEF Spec

(* ------------------ What is there once it is copied. ------------------- *)

(* What an item asks for are files of its source. *)
LEMMA PartIs ==
  ASSUME project \in Projects, NEW p \in Process, NEW i \in Items(p)
  PROVE  Part(Item(p, i)) \subseteq Path
<1> PICK d : d = Item(p, i)
  OBVIOUS
<1>1. FilesOf[d.source] \cup ModulesOf[d.source] \subseteq Path
  BY ItemIs
<1>2. ASSUME d.kind = "oci", NEW t \in IF d.type = AnyType THEN DOMAIN LayersOf[d.source] ELSE {d.type}
      PROVE  LayersOf[d.source][t] \subseteq Path
  <2>1. d.source \in DOMAIN LayersOf /\ d.type \in DOMAIN LayersOf[d.source] \cup {AnyType}
    BY <1>2, LayersAre
  <2> QED
    BY <1>2, <2>1, FetchAssumption
<1> QED
  BY <1>1, <1>2 DEF Part, Under

(* Items that ask for the same thing. *)
LEMMA SameIs ==
  ASSUME NEW d \in Dependency, NEW e \in Dependency, Asks(d) = Asks(e)
  PROVE  /\ d.kind = e.kind /\ d.source = e.source /\ d.dest = e.dest /\ d.sub = e.sub
         /\ GroupOf(d) = GroupOf(e) /\ AskedRef(d) = AskedRef(e) /\ Part(d) = Part(e)
         /\ Plain(d) <=> Plain(e)
         /\ \A f : Place(d, f) = Place(e, f)
         /\ Undisturbed(d) <=> Undisturbed(e)
<1>1. /\ d.kind = e.kind /\ d.source = e.source /\ d.dest = e.dest /\ d.sub = e.sub
      /\ d.ref = e.ref /\ d.modules = e.modules /\ d.unpack = e.unpack /\ d.chart = e.chart
      /\ d.binary = e.binary /\ d.type = e.type
  <2> PICK x : x = Asks(d) /\ x = Asks(e)
    OBVIOUS
  <2>1. /\ x.kind = d.kind /\ x.source = d.source /\ x.dest = d.dest /\ x.sub = d.sub
        /\ x.ref = d.ref /\ x.modules = d.modules /\ x.unpack = d.unpack /\ x.chart = d.chart
        /\ x.binary = d.binary /\ x.type = d.type
    BY DEF Asks, Dependency
  <2>2. /\ x.kind = e.kind /\ x.source = e.source /\ x.dest = e.dest /\ x.sub = e.sub
        /\ x.ref = e.ref /\ x.modules = e.modules /\ x.unpack = e.unpack /\ x.chart = e.chart
        /\ x.binary = e.binary /\ x.type = e.type
    BY DEF Asks, Dependency
  <2> QED
    BY <2>1, <2>2
<1>2. GroupOf(d) = GroupOf(e) /\ AskedRef(d) = AskedRef(e)
  BY <1>1 DEF GroupOf, AskedRef
<1>3. Part(d) = Part(e)
  BY <1>1 DEF Part
<1>4. (Plain(d) <=> Plain(e)) /\ \A f : Place(d, f) = Place(e, f)
  BY <1>1 DEF Plain, Place
<1>5. Undisturbed(d) <=> Undisturbed(e)
  BY <1>1 DEF Undisturbed, Cached, ChartOf
<1> QED
  BY <1>1, <1>2, <1>3, <1>4, <1>5

(* Who writes below the destination of an item that is alone there asks    *)
(* for the same.                                                           *)
LEMMA AloneIs ==
  ASSUME project \in Projects, NEW p \in Process, NEW i \in Items(p),
         NEW q \in Process, NEW j \in Items(q), NEW x \in Path,
         Within(Item(p, i).dest, x), Within(Item(q, j).dest, x)
  PROVE  /\ Alone(Item(p, i)) => Asks(Item(q, j)) = Asks(Item(p, i))
         /\ Own(p, Item(p, i)) => q = p
<1>1. Item(p, i).dest \in AnyPath /\ Item(q, j).dest \in AnyPath /\ x \in AnyPath
  BY ItemIs DEF Path, AnyPath
<1>2. \/ Within(Item(p, i).dest, Item(q, j).dest)
      \/ Within(Item(q, j).dest, Item(p, i).dest)
  BY <1>1, PrefixesCompare DEF Within
<1> QED
  BY <1>2 DEF Alone, Own

(* A group that copies has checked out what the current item asks for, and *)
(* what is not left to do of it is there.                                  *)
CopiesAt(d, held, todo) ==
  /\ d.kind = "git" /\ AskedRef(d) # NoRef => held.ref = AskedRef(d)
  /\ \A f \in todo : IsStrictPrefix(d.sub, f) /\ (d.kind = "http" => f \in FilesOf[d.source])
  /\ Undisturbed(d) => \A f \in Part(d) \ todo : Place(d, f) \in DOMAIN disk

Copies ==
  \A p \in Process : \A g \in DOMAIN work[p] :
     work[p][g].step = "copy" => CopiesAt(First(p, g), work[p][g].held, work[p][g].todo)

LEMMA CopiesGrow ==
  ASSUME Grows, disturbed \subseteq disturbed', NEW d, NEW held, NEW todo, CopiesAt(d, held, todo)
  PROVE  CopiesAt(d, held, todo)'
BY DEF CopiesAt, Undisturbed, Grows

LEMMA CopiesMoves ==
  ASSUME Copies, Grows, disturbed \subseteq disturbed', NEW p \in Process, NEW g \in DOMAIN work[p],
         NEW step, NEW left, NEW held, NEW todo, Becomes(p, g, step, left, held, todo),
         step = "copy" => left = work[p][g].left /\ CopiesAt(First(p, g), held, todo)'
  PROVE  Copies'
<1>1. project' = project
  BY DEF Becomes
<1>2. Process' = Process
  BY <1>1, ItemsStay
<1>3. ASSUME NEW q \in Process, NEW h \in DOMAIN work'[q], work'[q][h].step = "copy"
      PROVE  CopiesAt(First(q, h), work[q][h].held, work[q][h].todo)'
  <2>1. CASE q = p /\ h = g
    BY <1>3, <2>1 DEF Becomes
  <2>2. CASE ~ (q = p /\ h = g)
    <3> PICK d, b, t : d = First(q, h) /\ b = work[q][h].held /\ t = work[q][h].todo
      OBVIOUS
    <3>1. h \in DOMAIN work[q] /\ work'[q][h] = work[q][h]
      BY <2>2 DEF Becomes
    <3>2. CopiesAt(d, b, t)
      BY <1>3, <3>1 DEF Copies
    <3>3. First(q, h)' = d
      BY <1>1, <3>1, FirstStays
    <3>4. CopiesAt(d, b, t)'
      BY <3>2, CopiesGrow
    <3> QED
      BY <3>1, <3>3, <3>4
  <2> QED
    BY <2>1, <2>2
<1> QED
  BY <1>2, <1>3 DEF Copies

(* What an item asks for is among what is there to be copied. *)
LEMMA PartIsOffered ==
  ASSUME Typed, Helds, Charts, NEW p \in Process, NEW g \in DOMAIN work[p],
         work[p][g].step = "next", work[p][g].left # {}
  PROVE  LET d == First(p, g)
             held == Checkout(d, work[p][g].held)
         IN /\ d.kind = "http" => Offered(d, held) = FilesOf[d.source]
            /\ Undisturbed(d) => Part(d) \subseteq Under(Offered(d, held), d.sub)
<1> DEFINE w == work[p][g]
<1> PICK d : d = First(p, g)
  OBVIOUS
<1> PICK held : held = Checkout(d, w.held)
  OBVIOUS
<1>1. /\ GroupOf(d) = g /\ d = Item(p, Current(p, g)) /\ Current(p, g) \in w.left
      /\ Declared(d) /\ d.kind \in {"git", "http", "helm", "oci"}
  BY CurrentIs DEF Dependency
<1>2. (Cached(d) <=> CachedGroup(g)) /\ (Cached(d) => ChartOf(d) = ChartOfGroup(g) /\ d.kind = "helm")
  BY <1>1, GroupIs DEF Cached
<1>3. d.kind # "git" => held = w.held /\ ~d.modules
  BY <1>1 DEF Checkout, Declared
<1>4. DOMAIN w.held = {"at", "ref", "files"}
  BY AtWork DEF Shaped
<1>5. ~Cached(d) => Holds(d, w.held) /\ Offered(d, held) = held.files
  BY <1>1, <1>2 DEF Helds, HeldsAt, Offered
<1>6. CASE d.kind = "git"
  <2>1. /\ w.held.files \subseteq held.files
        /\ d.modules => ModulesOf[d.source] \subseteq held.files
    BY <1>4, <1>6 DEF Checkout
  <2>2. FilesOf[d.source] \subseteq w.held.files /\ ~Cached(d)
    BY <1>2, <1>5, <1>6 DEF Holds
  <2> QED
    BY <1>5, <1>6, <2>1, <2>2 DEF Part, Under
<1>7. CASE d.kind = "oci"
  <2>1. Layers(d) \subseteq held.files /\ ~Cached(d)
    BY <1>2, <1>3, <1>5, <1>7 DEF Holds
  <2>2. Part(d) = Under(Layers(d), d.sub)
    BY <1>7 DEF Part, Layers
  <2> QED
    BY <1>5, <1>7, <2>1, <2>2 DEF Under
<1>8. CASE d.kind \in {"http", "helm"}
  <2>1. Part(d) = Under(FilesOf[d.source], d.sub)
    BY <1>3, <1>8 DEF Part
  <2>2. ~Cached(d) => Offered(d, held) = FilesOf[d.source]
    BY <1>3, <1>5, <1>8 DEF Holds
  <2>3. ASSUME Cached(d), Undisturbed(d) PROVE Offered(d, held) = FilesOf[d.source]
    <3> PICK c : c = ChartOf(d)
      OBVIOUS
    <3>1. ChartOK(c) /\ c[1] = d.source
      BY <2>3 DEF Charts, Undisturbed, ChartOf
    <3>2. On(p, g, c)
      BY <1>2, <2>3 DEF On
    <3>3. ChartAt("next", w.held, w.todo, c)
      BY <3>1, <3>2 DEF ChartOK
    <3> QED
      BY <2>3, <3>1, <3>3 DEF ChartAt, Stored, Offered, InCache
  <2> QED
    BY <1>2, <2>1, <2>2, <2>3
<1> HIDE DEF w
<1> QED
  BY <1>1, <1>6, <1>7, <1>8

LEMMA CopiesBegin ==
  ASSUME Typed, Helds, Charts, Copies, Grows, disturbed \subseteq disturbed',
         NEW p \in Process, NEW g \in DOMAIN work[p], Begin(p, g)
  PROVE  Copies'
<1> DEFINE w == work[p][g]
<1> PICK d : d = First(p, g)
  OBVIOUS
<1> PICK held : held = Checkout(d, w.held)
  OBVIOUS
<1> PICK todo : todo = Under(Offered(d, held), d.sub)
  OBVIOUS
<1>1. w.step = "next"
  BY BeginDoes
<1>2. ASSUME Becomes(p, g, "ended", {}, w.held, w.todo) PROVE Copies'
  BY <1>2, CopiesMoves
<1>3. ASSUME Becomes(p, g, "next", w.left \ {Current(p, g)}, w.held, {}) PROVE Copies'
  BY <1>3, CopiesMoves
<1>4. ASSUME w.left # {}, Becomes(p, g, "copy", w.left, held, todo) PROVE Copies'
  <2>1. /\ d.kind = "http" => Offered(d, held) = FilesOf[d.source]
        /\ Undisturbed(d) => Part(d) \subseteq todo
    BY <1>1, <1>4, PartIsOffered
  <2>2. \A f \in todo : f \in Offered(d, held) /\ IsStrictPrefix(d.sub, f)
    BY DEF Under
  <2>3. d.kind = "git" /\ AskedRef(d) # NoRef => held.ref = AskedRef(d)
    <3>1. DOMAIN w.held = {"at", "ref", "files"}
      BY AtWork DEF Shaped
    <3> QED
      BY <3>1 DEF AskedRef, Checkout
  <2>4. CopiesAt(d, held, todo)
    BY <2>1, <2>2, <2>3 DEF CopiesAt
  <2>5. CopiesAt(d, held, todo)'
    BY <2>4, CopiesGrow
  <2>6. First(p, g)' = d
    <3>1. project' = project /\ work'[p][g].left = w.left
      BY <1>4 DEF Becomes
    <3> QED
      BY <3>1, FirstStays
  <2> PICK left : left = w.left
    OBVIOUS
  <2>7. Becomes(p, g, "copy", left, held, todo)
    BY <1>4
  <2> QED
    BY <2>5, <2>6, <2>7, CopiesMoves
<1>5. \/ Becomes(p, g, "ended", {}, w.held, w.todo)
      \/ Becomes(p, g, "next", w.left \ {Current(p, g)}, w.held, {})
      \/ w.left # {} /\ Becomes(p, g, "copy", w.left, held, todo)
  BY BeginDoes
<1> QED
  BY <1>2, <1>3, <1>4, <1>5

LEMMA CopiesFills ==
  ASSUME Typed, Copies, Grows, disturbed \subseteq disturbed',
         NEW p \in Process, NEW g \in DOMAIN work[p], Fills(p, g)
  PROVE  Copies'
<1> DEFINE w == work[p][g]
<1> PICK d : d = First(p, g)
  OBVIOUS
<1>1. w.step = "copy" /\ CopiesAt(d, w.held, w.todo)
  BY FillsDo DEF Copies
<1>2. ASSUME Misses(p, g) PROVE Copies'
  BY <1>2, CopiesMoves DEF Misses
<1>3. ASSUME NEW todo, NEW f, Becomes(p, g, "copy", w.left, w.held, todo),
             todo = w.todo \/ (todo = w.todo \ {f} /\ Place(d, f) \in DOMAIN disk')
      PROVE  Copies'
  <2> PICK held, left, old : held = w.held /\ left = w.left /\ old = w.todo
    OBVIOUS
  <2>1. Becomes(p, g, "copy", left, held, todo)
    BY <1>3
  <2>2. First(p, g)' = d
    <3>1. project' = project /\ work'[p][g].left = w.left
      BY <1>3 DEF Becomes
    <3> QED
      BY <3>1, FirstStays
  <2>3. CopiesAt(d, held, old)'
    BY <1>1, CopiesGrow
  <2>4. CopiesAt(d, held, todo)'
    BY <1>3, <2>3 DEF CopiesAt
  <2> QED
    BY <2>1, <2>2, <2>4, CopiesMoves
<1>4. ASSUME NEW f \in w.todo, Completes(p, g, f) PROVE Copies'
  <2> PICK todo : todo = w.todo \ {f}
    OBVIOUS
  <2>1. Becomes(p, g, "copy", w.left, w.held, todo)
    BY <1>4 DEF Completes
  <2>2. Place(d, f) \in DOMAIN disk'
    BY <1>4 DEF Completes, Lands, With, IsFile, There
  <2> QED
    BY <1>3, <2>1, <2>2
<1>5. ASSUME NEW f \in w.todo, Opening(p, g, f) PROVE Copies'
  <2>1. Becomes(p, g, "copy", w.left, w.held, w.todo)
    BY <1>5 DEF Opening
  <2> QED
    BY <1>3, <2>1
<1> QED
  BY <1>2, <1>4, <1>5, FillsDo

LEMMA CopiesStep == Typed /\ Helds /\ Charts /\ Copies /\ [Next]_vars => Copies'
<1> SUFFICES ASSUME Typed, Helds, Charts, Copies, [Next]_vars PROVE Copies'
  OBVIOUS
<1>1. Grows /\ disturbed \subseteq disturbed'
  BY TreeGrows, DisturbedGrows
<1>2. ASSUME project' = project,
             \A q \in Process : \A h \in DOMAIN work'[q] :
                \/ h \in DOMAIN work[q] /\ work'[q] = work[q]
                \/ work'[q][h].step = "waiting"
      PROVE  Copies'
  <2>1. Process' = Process
    BY <1>2, ItemsStay
  <2>2. ASSUME NEW q \in Process, NEW h \in DOMAIN work'[q], work'[q][h].step = "copy"
        PROVE  CopiesAt(First(q, h), work[q][h].held, work[q][h].todo)'
    <3> PICK d, b, t : d = First(q, h) /\ b = work[q][h].held /\ t = work[q][h].todo
      OBVIOUS
    <3>1. h \in DOMAIN work[q] /\ work'[q][h] = work[q][h]
      BY <1>2, <2>2
    <3>2. CopiesAt(d, b, t)
      BY <2>2, <3>1 DEF Copies
    <3>3. First(q, h)' = d
      BY <1>2, <3>1, FirstStays
    <3>4. CopiesAt(d, b, t)'
      BY <1>1, <3>2, CopiesGrow
    <3> QED
      BY <3>1, <3>3, <3>4
  <2> QED
    BY <2>1, <2>2 DEF Copies
<1>3. ASSUME NEW p \in Process, Start(p) \/ Finish(p) \/ Crash(p) PROVE Copies'
  BY <1>2, <1>3, WorkStays
<1>4. ASSUME NEW p \in Process, NEW g \in DOMAIN work[p], Advance(p, g) PROVE Copies'
  <2>1. ASSUME NEW step, NEW left, NEW held, NEW todo, step # "copy",
               Becomes(p, g, step, left, held, todo)
        PROVE  Copies'
    BY <1>1, <2>1, CopiesMoves
  <2>2. CASE Take(p, g) \/ Pull(p, g)
    BY <2>1, <2>2, TakeDoes, PullDoes
  <2>3. CASE ListCached(p, g) \/ DropCached(p, g)
    BY <2>1, <2>3, ListCachedDoes, DropCachedDoes
  <2>4. CASE Store(p, g) \/ StoreFile(p, g)
    BY <2>1, <2>4, StoreDoes, StoreFileDoes DEF Empties, Stores, Breaks
  <2>5. CASE Copied(p, g)
    BY <2>1, <2>5, CopiedDoes
  <2> QED
    BY <1>1, <1>4, <2>2, <2>3, <2>4, <2>5, CopiesBegin, CopiesFills DEF Advance, Fills
<1>5. ASSUME NEW s \in Sources, Publish(s) PROVE Copies'
  BY <1>2, <1>5 DEF Publish
<1>6. CASE UNCHANGED vars
  BY <1>2, <1>6 DEF vars
<1> QED
  BY <1>3, <1>4, <1>5, <1>6 DEF Next

(* The place a group is about to write to. *)
Opened(p, g) == Place(First(p, g), work[p][g].file)

(* A file that appears or changes is copied there by a group.              *)
WritesTo(p, g, q) ==
  LET d == First(p, g)
      w == work[p][g]
  IN /\ w.step = "copy" /\ w.left # {} /\ w.held.at \in Nat
     /\ Within(d.dest, q) /\ w.file # NoFile /\ work'[p][g].file = NoFile /\ q = Opened(p, g)
     /\ \E f \in w.todo :
           /\ f \in Path /\ f \in Offered(d, w.held)
           /\ q = Place(d, f) /\ disk'[q] = ContentAt(d, w.held, f)

(* It comes or changes. *)
Changes(q) == q \in DOMAIN disk => disk'[q] # disk[q] \/ (q \in gone /\ q \notin gone')

LEMMA LandsWrites ==
  ASSUME Typed, NEW p \in Process, NEW g \in DOMAIN work[p], work[p][g].step = "copy",
         work[p][g].left # {}, work'[p][g].file = NoFile, NEW f \in work[p][g].todo, Lands(p, g, f),
         NEW q \in DOMAIN disk', Changes(q)
  PROVE  WritesTo(p, g, q)
<1> PICK d, w : d = First(p, g) /\ w = work[p][g]
  OBVIOUS
<1>1. w.todo \subseteq Path /\ w.held.at \in Nat
  BY AtWork DEF Shaped
<1> PICK place : place = Place(d, f)
  OBVIOUS
<1>2. /\ DOMAIN disk' = DOMAIN disk \cup {place}
      /\ \A y \in DOMAIN disk : y # place => disk'[y] = disk[y]
      /\ disk'[place] = ContentAt(d, w.held, f)
  BY LandsTyped
<1>3. f = w.file /\ f \in Offered(d, w.held) /\ gone' = gone \ {place}
  BY DEF Lands
<1>4. q = place
  BY <1>2, <1>3 DEF Changes
<1>5. Within(d.dest, q)
  BY <1>1, <1>4, CurrentIs, PlaceIs DEF Within
<1>6. f \in Path /\ f # NoFile
  BY <1>1 DEF NoFile, Path
<1>7. q = Opened(p, g)
  BY <1>3, <1>4 DEF Opened
<1> QED
  BY <1>1, <1>2, <1>3, <1>4, <1>5, <1>6, <1>7 DEF WritesTo

LEMMA FillsWrites ==
  ASSUME Typed, NEW p \in Process, NEW g \in DOMAIN work[p], Fills(p, g),
         NEW q \in DOMAIN disk', Changes(q)
  PROVE  WritesTo(p, g, q)
<1>1. ASSUME disk' = disk, gone \subseteq gone' PROVE FALSE
  BY <1>1 DEF Changes
<1>2. work[p][g].step = "copy" /\ work[p][g].left # {}
  BY FillsDo
<1>3. CASE Misses(p, g)
  BY <1>1, <1>2, <1>3, LandsWrites DEF Misses
<1>4. ASSUME NEW f \in work[p][g].todo, Completes(p, g, f) PROVE WritesTo(p, g, q)
  BY <1>1, <1>2, <1>4, LandsWrites DEF Completes
<1>5. ASSUME NEW f \in work[p][g].todo, Opening(p, g, f) PROVE FALSE
  BY <1>1, <1>5 DEF Opening
<1> QED
  BY <1>3, <1>4, <1>5, FillsDo

(* Only copies change what is there. *)
LEMMA TreeChanges ==
  ASSUME Typed, [Next]_vars, << disk, gone >>' # << disk, gone >>
  PROVE  \E p \in Process : \E g \in DOMAIN work[p] : Fills(p, g)
<1>2. ASSUME NEW p \in Process, Start(p) \/ Finish(p) \/ Crash(p) PROVE FALSE
  BY <1>2, WorkStays DEF tree
<1>3. ASSUME NEW p \in Process, NEW g \in DOMAIN work[p], Advance(p, g) PROVE Fills(p, g)
  BY <1>3 DEF Advance, Take, Pull, ListCached, DropCached, Store, StoreFile, Begin, Copied, Fills, tree
<1>4. ~ \E s \in Sources : Publish(s)
  BY DEF Publish, tree
<1>5. ~ UNCHANGED vars
  BY DEF vars, tree
<1>6. PICK p \in Process : \E g \in DOMAIN work[p] : Advance(p, g)
  BY <1>2, <1>4, <1>5 DEF Next
<1> QED
  BY <1>3, <1>6

LEMMA Writes ==
  ASSUME Typed, [Next]_vars, NEW q \in DOMAIN disk', Changes(q)
  PROVE  \E p \in Process : \E g \in DOMAIN work[p] : Fills(p, g) /\ WritesTo(p, g, q)
<1>1. << disk, gone >>' # << disk, gone >>
  BY DEF Changes
<1>2. PICK p \in Process : \E g \in DOMAIN work[p] : Fills(p, g)
  BY <1>1, TreeChanges
<1> QED
  BY <1>2, FillsWrites

(* A file goes when a group is about to write to its place. *)
LEMMA Removes ==
  ASSUME Typed, [Next]_vars, NEW q \in gone', q \notin gone
  PROVE  \E p \in Process : \E g \in DOMAIN work[p] : \E f \in work[p][g].todo :
            Opening(p, g, f) /\ q = Place(First(p, g), f) /\ work[p][g].left # {}
<1>1. PICK p \in Process : \E g \in DOMAIN work[p] : Fills(p, g)
  BY TreeChanges
<1> PICK g \in DOMAIN work[p] : Fills(p, g)
  BY <1>1
<1>2. ~Misses(p, g)
  BY DEF Misses, Lands
<1>3. \A f \in work[p][g].todo : ~Completes(p, g, f)
  BY DEF Completes, Lands
<1>4. PICK f \in work[p][g].todo : Opening(p, g, f) /\ work[p][g].left # {}
  BY <1>2, <1>3, FillsDo
<1> QED
  BY <1>4 DEF Opening

(* What is below a destination that an item has to itself is what it asks  *)
(* for.                                                                    *)
RightAt(d, q, x) ==
  \E f \in Path :
     /\ IsStrictPrefix(d.sub, f) /\ (d.kind = "http" => f \in FilesOf[d.source])
     /\ q = Place(d, f) /\ x.source = d.source /\ x.path = f
     /\ (d.kind = "git" => AskedRef(d) # NoRef) => x.ref = AskedRef(d)

Rights ==
  \A p \in Process : \A i \in Items(p) :
     Alone(Item(p, i)) =>
        \A q \in DOMAIN disk : Within(Item(p, i).dest, q) => RightAt(Item(p, i), q, disk[q])

LEMMA WritesRight ==
  ASSUME Typed, Helds, Copies, NEW p \in Process, NEW g \in DOMAIN work[p], NEW q, WritesTo(p, g, q)
  PROVE  RightAt(First(p, g), q, disk'[q])
<1> PICK d, held, x : d = First(p, g) /\ held = work[p][g].held /\ x = disk'[q]
  OBVIOUS
<1>1. /\ work[p][g].step = "copy" /\ work[p][g].left # {} /\ held.at \in Nat
      /\ CopiesAt(d, held, work[p][g].todo)
  BY DEF WritesTo, Copies
<1>2. PICK f \in work[p][g].todo : /\ f \in Path /\ f \in Offered(d, held)
                                   /\ q = Place(d, f) /\ x = ContentAt(d, held, f)
  BY DEF WritesTo
<1>3. /\ GroupOf(d) = g /\ d = Item(p, Current(p, g)) /\ Current(p, g) \in work[p][g].left
      /\ d.kind \in {"git", "http", "helm", "oci"}
  BY <1>1, CurrentIs DEF Dependency
<1>4. /\ x.source = d.source /\ x.path = f
      /\ Cached(d) => x.ref = NoRef
      /\ ~Cached(d) => x.ref = held.ref
  BY <1>1, <1>2, ContentIs DEF Typed
<1>5. ASSUME d.kind = "git" => AskedRef(d) # NoRef PROVE x.ref = AskedRef(d)
  <2>1. CASE Cached(d)
    BY <1>4, <2>1 DEF Cached, AskedRef
  <2>2. CASE ~Cached(d) /\ d.kind = "git"
    BY <1>1, <1>4, <1>5, <2>2 DEF CopiesAt
  <2>3. CASE ~Cached(d) /\ d.kind # "git"
    <3>1. ~CachedGroup(g)
      BY <1>3, <2>3, GroupIs
    <3>2. Holds(d, held)
      BY <1>1, <1>3, <3>1 DEF Helds, HeldsAt
    <3> QED
      BY <1>3, <1>4, <2>3, <3>2 DEF Holds, AskedRef
  <2> QED
    BY <2>1, <2>2, <2>3
<1>6. IsStrictPrefix(d.sub, f) /\ (d.kind = "http" => f \in FilesOf[d.source])
  BY <1>1 DEF CopiesAt
<1> QED
  BY <1>2, <1>4, <1>5, <1>6 DEF RightAt

LEMMA RightsStep == Typed /\ Helds /\ Copies /\ Rights /\ [Next]_vars => Rights'
<1> SUFFICES ASSUME Typed, Helds, Copies, Rights, [Next]_vars,
                    NEW p \in Process', NEW i \in Items(p)', Alone(Item(p, i))',
                    NEW q \in DOMAIN disk', Within(Item(p, i).dest, q)'
             PROVE  RightAt(Item(p, i), q, disk[q])'
  BY DEF Rights
<1> PICK d, x : d = Item(p, i) /\ x = disk'[q]
  OBVIOUS
<1>1. project' = project
  BY ProjectStays
<1>2. p \in Process /\ i \in Items(p) /\ Item(p, i)' = d /\ Alone(d) /\ Within(d.dest, q)
  BY <1>1 DEF Process, Items, Item, Alone, Within
<1>3. RightAt(d, q, x)
  <2>1. CASE q \in DOMAIN disk /\ disk'[q] = disk[q]
    BY <1>2, <2>1 DEF Rights
  <2>2. CASE q \in DOMAIN disk => disk'[q] # disk[q]
    <3>1. PICK r \in Process : \E h \in DOMAIN work[r] : WritesTo(r, h, q)
      BY <2>2, Writes DEF Changes
    <3> PICK h \in DOMAIN work[r] : WritesTo(r, h, q)
      BY <3>1
    <3> PICK e : e = First(r, h)
      OBVIOUS
    <3>2. RightAt(e, q, x) /\ Within(e.dest, q) /\ work[r][h].left # {}
      BY WritesRight DEF WritesTo
    <3>3. /\ e = Item(r, Current(r, h)) /\ Current(r, h) \in Items(r) /\ e \in Dependency
          /\ e.dest \in Path /\ e.sub \in AnyPath
      BY <3>2, CurrentIs
    <3>4. q \in Path
      BY <3>2, <3>3, PlaceIs DEF RightAt
    <3>5. d \in Dependency /\ project \in Projects
      BY <1>2, ItemIs DEF Typed
    <3>6. Asks(e) = Asks(d)
      BY <1>2, <3>2, <3>3, <3>4, <3>5, AloneIs
    <3>7. /\ d.kind = e.kind /\ d.source = e.source /\ d.sub = e.sub /\ AskedRef(d) = AskedRef(e)
          /\ \A f : Place(d, f) = Place(e, f)
      BY <3>3, <3>5, <3>6, SameIs
    <3> QED
      BY <3>2, <3>7 DEF RightAt
  <2> QED
    BY <2>1, <2>2
<1>4. RightAt(d, q, x)'
  BY <1>3 DEF RightAt, Place, Plain, AskedRef
<1> QED
  BY <1>2, <1>4

(* What a run has fetched: what it had, and the item it is done with.      *)
LEMMA FetchedAre ==
  ASSUME Typed, [Next]_vars, NEW p \in Process, run'[p].phase = "fetch"
  PROVE  \/ run[p].phase = "off" /\ run'[p].fetched = {}
         \/ run[p].phase = "fetch" /\ run'[p].flags = run[p].flags
               /\ \A i \in run'[p].fetched :
                     \/ i \in run[p].fetched
                     \/ \E g \in DOMAIN work[p] : Copied(p, g) /\ i = Current(p, g)
<1>1. CASE run' = run
  BY <1>1
<1>2. ASSUME NEW q \in Process, Start(q)
      PROVE  (run[p].phase = "off" /\ run'[p].fetched = {}) \/ run'[p] = run[p]
  <2>1. PICK f : run[q].phase = "off" /\ Starts(q, f)
    BY <1>2, StartDoes
  <2> QED
    BY <2>1 DEF Starts
<1>3. ASSUME NEW q \in Process, Finish(q) \/ Crash(q) PROVE run'[p] = run[p]
  <2>1. Stops(q) /\ Idle.phase # "fetch"
    BY <1>3, StopsAre DEF Idle
  <2> QED
    BY <2>1 DEF Stops
<1>4. ASSUME NEW q \in Process, NEW h \in DOMAIN work[q], Advance(q, h)
      PROVE  /\ run[p].phase = "fetch" /\ run'[p].flags = run[p].flags
             /\ \A i \in run'[p].fetched :
                   \/ i \in run[p].fetched
                   \/ \E g \in DOMAIN work[p] : Copied(p, g) /\ i = Current(p, g)
  <2>1. run[q].phase = "fetch"
    BY AtWork
  <2>2. ASSUME NEW fetched, NEW failed, Accounted(q, fetched, failed),
               fetched = {} \/ (Copied(q, h) /\ fetched = {Current(q, h)})
        PROVE  /\ run[p].phase = "fetch" /\ run'[p].flags = run[p].flags
               /\ \A i \in run'[p].fetched :
                     \/ i \in run[p].fetched
                     \/ \E g \in DOMAIN work[p] : Copied(p, g) /\ i = Current(p, g)
    <3>1. CASE q = p
      BY <2>1, <2>2, <3>1 DEF Accounted
    <3>2. CASE q # p
      BY <2>2, <3>2 DEF Accounted
    <3> QED
      BY <3>1, <3>2
  <2>3. \/ run' = run
        \/ \E failed : Accounted(q, {}, failed)
        \/ Copied(q, h) /\ Accounted(q, {Current(q, h)}, {})
    <3>1. Take(q, h) \/ ListCached(q, h) \/ DropCached(q, h) \/ Store(q, h) => run' = run
      BY DEF Take, ListCached, DropCached, Store
    <3>2. Pull(q, h) => run' = run \/ \E failed : Accounted(q, {}, failed)
      BY PullDoes
    <3>3. StoreFile(q, h) => run' = run \/ \E failed : Accounted(q, {}, failed)
      BY StoreFileDoes DEF Empties, Stores, Breaks
    <3>4. Begin(q, h) => run' = run \/ \E failed : Accounted(q, {}, failed)
      BY BeginDoes
    <3>5. Fills(q, h) => run' = run \/ \E failed : Accounted(q, {}, failed)
      BY FillsBecome
    <3>6. Copied(q, h) => Accounted(q, {Current(q, h)}, {})
      BY CopiedDoes
    <3> QED
      BY <1>4, <3>1, <3>2, <3>3, <3>4, <3>5, <3>6 DEF Advance, Fills
  <2> QED
    BY <2>2, <2>3
<1>5. ASSUME NEW s \in Sources, Publish(s) PROVE run' = run
  BY <1>5 DEF Publish
<1>6. UNCHANGED vars => run' = run
  BY DEF vars
<1> QED
  BY <1>1, <1>2, <1>3, <1>4, <1>5, <1>6 DEF Next

LEMMA SmoothStays == ASSUME [Next]_vars, smooth' PROVE smooth
<1>1. ASSUME NEW p \in Process, NEW g \in DOMAIN work[p], Advance(p, g) PROVE smooth
  <2>1. Take(p, g) \/ Pull(p, g) \/ ListCached(p, g) \/ DropCached(p, g) => smooth
    BY DEF Take, Pull, ListCached, DropCached, Fail
  <2>2. Store(p, g) \/ StoreFile(p, g) => smooth
    BY DEF Store, StoreFile, Fail
  <2>3. Begin(p, g) \/ CopyFile(p, g) \/ WriteFile(p, g) \/ Copied(p, g) => smooth
    BY DEF Begin, CopyFile, WriteFile, Copied, Fail
  <2> QED
    BY <1>1, <2>1, <2>2, <2>3 DEF Advance
<1>2. ASSUME NEW p \in Process, Start(p) \/ Finish(p) \/ Crash(p) PROVE smooth
  BY <1>2 DEF Start, Finish, Crash
<1>3. ASSUME NEW s \in Sources, Publish(s) PROVE smooth
  BY <1>3 DEF Publish
<1> QED
  BY <1>1, <1>2, <1>3 DEF Next, vars

LEMMA AdvanceMoves ==
  ASSUME Typed, NEW p \in Process, NEW g \in DOMAIN work[p], Advance(p, g)
  PROVE  \E step, left, held, todo : Becomes(p, g, step, left, held, todo)
<1>1. CASE Take(p, g) \/ Pull(p, g)
  BY <1>1, TakeDoes, PullDoes
<1>2. CASE ListCached(p, g) \/ DropCached(p, g)
  BY <1>2, ListCachedDoes, DropCachedDoes
<1>3. CASE Store(p, g)
  BY <1>3, StoreDoes
<1>4. CASE StoreFile(p, g)
  BY <1>4, StoreFileDoes DEF Empties, Stores, Breaks
<1>5. CASE Begin(p, g)
  BY <1>5, BeginDoes
<1>6. CASE Fills(p, g)
  BY <1>6, FillsBecome
<1>7. CASE Copied(p, g)
  BY <1>7, CopiedDoes
<1> QED
  BY <1>1, <1>2, <1>3, <1>4, <1>5, <1>6, <1>7 DEF Advance, Fills

LEMMA WorkIs ==
  ASSUME Typed, [Next]_vars, NEW p \in Process, NEW g \in DOMAIN work'[p]
  PROVE  \/ g \in DOMAIN work[p] /\ work'[p][g] = work[p][g]
         \/ g \in DOMAIN work[p] /\ Advance(p, g)
         \/ work'[p][g].step = "waiting"
<1>1. ASSUME NEW q \in Process, NEW h \in DOMAIN work[q], Advance(q, h), ~ (q = p /\ h = g)
      PROVE  g \in DOMAIN work[p] /\ work'[p][g] = work[p][g]
  <2>1. PICK step, left, held, todo : Becomes(q, h, step, left, held, todo)
    BY <1>1, AdvanceMoves
  <2> QED
    BY <1>1, <2>1 DEF Becomes
<1>2. ASSUME NEW q \in Process, Start(q) \/ Finish(q) \/ Crash(q)
      PROVE  \/ g \in DOMAIN work[p] /\ work'[p][g] = work[p][g]
             \/ work'[p][g].step = "waiting"
  BY <1>2, WorkStays
<1>3. ASSUME NEW s \in Sources, Publish(s) PROVE work' = work
  BY <1>3 DEF Publish
<1>4. UNCHANGED vars => work' = work
  BY DEF vars
<1> QED
  BY <1>1, <1>2, <1>3, <1>4 DEF Next

(* ------------------ What is about to be written. ----------------------- *)

(* Only a copy that finds no file there, or replaces it, opens one,        *)
LEMMA FileIs ==
  ASSUME Typed, [Next]_vars, NEW p \in Process, NEW g \in DOMAIN work'[p],
         work'[p][g].file # NoFile
  PROVE  /\ g \in DOMAIN work[p] /\ run'[p].flags = run[p].flags
         /\ First(p, g)' = First(p, g) /\ Current(p, g)' = Current(p, g)
         /\ \/ work'[p][g] = work[p][g]
            \/ \E f \in work[p][g].todo : Opening(p, g, f)
<1>1. project' = project /\ Typed' /\ Process' = Process
  BY ProjectStays, TypedStep, ItemsStay
<1>2. run'[p].phase = "fetch" /\ Filed(work'[p][g])
  <2>1. Typed' /\ p \in Process' /\ g \in DOMAIN work'[p]
    BY <1>1
  <2>2. ~ (run'[p] = Idle /\ work'[p] = NoWork)
    BY <2>1 DEF NoWork
  <2> QED
    BY <2>1, <2>2 DEF Typed, Running, Shaped
<1>3. work'[p][g].step = "copy"
  BY <1>2 DEF Filed
<1>4. g \in DOMAIN work[p] /\ (work'[p][g] = work[p][g] \/ Advance(p, g))
  BY <1>3, WorkIs
<1>5. run[p].phase = "fetch" /\ run'[p].flags = run[p].flags
  BY <1>2, <1>4, AtWork, FetchedAre
<1>6. \/ work'[p][g] = work[p][g]
      \/ \E f \in work[p][g].todo : Opening(p, g, f)
  <2>1. SUFFICES ASSUME Advance(p, g) PROVE \E f \in work[p][g].todo : Opening(p, g, f)
    BY <1>4
  <2>2. Fills(p, g)
    BY <1>4, <2>1, FileRests DEF Advance, Fills
  <2>3. ~Misses(p, g) /\ \A f \in work[p][g].todo : ~Completes(p, g, f)
    BY DEF Misses, Completes
  <2> QED
    BY <1>4, <2>2, <2>3, FillsDo
<1>7. work'[p][g].left = work[p][g].left
  BY <1>6 DEF Opening, Becomes
<1> QED
  BY <1>1, <1>4, <1>5, <1>6, <1>7, FirstStays

(* and while nothing goes wrong it is written.                             *)
LEMMA FileStays ==
  ASSUME Typed, [Next]_vars, smooth', NEW p \in Process, NEW g \in DOMAIN work[p],
         work[p][g].file # NoFile
  PROVE  \/ g \in DOMAIN work'[p] /\ work'[p][g] = work[p][g]
         \/ Lands(p, g, work[p][g].file)
<1>1. /\ run[p].phase = "fetch"
      /\ work[p][g].step = "copy" /\ work[p][g].file \in work[p][g].todo
  BY AtWork DEF Shaped, Filed
<1>2. ASSUME NEW q \in Process, Start(q) \/ Finish(q) \/ Crash(q)
      PROVE  g \in DOMAIN work'[p] /\ work'[p][g] = work[p][g]
  <2>1. ASSUME Start(q) PROVE work'[p] = work[p]
    BY <1>1, <2>1, StartDoes DEF Starts
  <2>2. ~Crash(q)
    BY DEF Crash
  <2>3. ASSUME Finish(q) PROVE work'[p] = work[p]
    BY <1>1, <2>3, StopsAre DEF Stops, Finish, Over
  <2> QED
    BY <1>2, <2>1, <2>2, <2>3
<1>3. ASSUME NEW q \in Process, NEW h \in DOMAIN work[q], Advance(q, h), ~ (q = p /\ h = g)
      PROVE  g \in DOMAIN work'[p] /\ work'[p][g] = work[p][g]
  <2>1. PICK step, left, held, todo : Becomes(q, h, step, left, held, todo)
    BY <1>3, AdvanceMoves
  <2> QED
    BY <1>3, <2>1 DEF Becomes
<1>4. ASSUME Advance(p, g) PROVE Lands(p, g, work[p][g].file)
  <2>1. ~Take(p, g) /\ ~Pull(p, g) /\ ~ListCached(p, g) /\ ~DropCached(p, g)
    BY <1>1 DEF Take, Pull, ListCached, DropCached
  <2>2. ~Store(p, g) /\ ~StoreFile(p, g) /\ ~Begin(p, g)
    BY <1>1 DEF Store, StoreFile, Begin
  <2>3. ~Copied(p, g)
    BY <1>1 DEF Copied
  <2>4. Fills(p, g)
    BY <1>4, <2>1, <2>2, <2>3 DEF Advance, Fills
  <2>5. ~Misses(p, g) /\ \A f \in work[p][g].todo : ~Opening(p, g, f)
    BY DEF Misses, Opening
  <2>6. PICK f \in work[p][g].todo : Completes(p, g, f)
    BY <2>4, <2>5, FillsDo
  <2>7. Lands(p, g, f)
    BY <2>6 DEF Completes
  <2> QED
    BY <2>7 DEF Lands
<1>5. ASSUME NEW s \in Sources, Publish(s) PROVE work' = work
  BY <1>5 DEF Publish
<1>6. UNCHANGED vars => work' = work
  BY DEF vars
<1> QED
  BY <1>2, <1>3, <1>4, <1>5, <1>6 DEF Next

(* The directories of a file that is, was or is about to be there. *)
Anchored ==
  /\ \A q \in DOMAIN disk : Ancestors(Front(q)) \subseteq dirs
  /\ \A p \in Process : \A g \in DOMAIN work[p] :
        work[p][g].file # NoFile => Ancestors(Front(Opened(p, g))) \subseteq dirs

LEMMA AnchoredStep == Typed /\ Anchored /\ [Next]_vars => Anchored'
<1> SUFFICES ASSUME Typed, Anchored, [Next]_vars PROVE Anchored'
  OBVIOUS
<1>1. project' = project /\ Grows /\ Process' = Process
  BY ProjectStays, TreeGrows, ItemsStay
<1>2. ASSUME NEW q \in DOMAIN disk' PROVE Ancestors(Front(q)) \subseteq dirs
  <2>1. CASE q \in DOMAIN disk
    BY <2>1 DEF Anchored
  <2>2. CASE q \notin DOMAIN disk
    <3>1. PICK p \in Process : \E g \in DOMAIN work[p] : WritesTo(p, g, q)
      BY <2>2, Writes DEF Changes
    <3> PICK g \in DOMAIN work[p] : WritesTo(p, g, q)
      BY <3>1
    <3>2. q = Opened(p, g) /\ work[p][g].file # NoFile
      BY DEF WritesTo
    <3> QED
      BY <3>2 DEF Anchored
  <2> QED
    BY <2>1, <2>2
<1>3. ASSUME NEW p \in Process, NEW g \in DOMAIN work'[p], work'[p][g].file # NoFile
      PROVE  Ancestors(Front(Opened(p, g)')) \subseteq dirs'
  <2> PICK d : d = First(p, g)
    OBVIOUS
  <2>1. /\ g \in DOMAIN work[p] /\ First(p, g)' = d
        /\ \/ work'[p][g] = work[p][g]
           \/ \E f \in work[p][g].todo : Opening(p, g, f)
    BY <1>3, FileIs
  <2>2. Opened(p, g)' = Place(d, work'[p][g].file)
    BY <2>1 DEF Opened, Place, Plain
  <2>3. CASE work'[p][g] = work[p][g]
    <3>1. Opened(p, g)' = Opened(p, g)
      BY <2>2, <2>3 DEF Opened
    <3> QED
      BY <1>1, <1>3, <2>1, <2>3, <3>1 DEF Anchored, Grows
  <2>4. ASSUME NEW f \in work[p][g].todo, Opening(p, g, f)
        PROVE  Ancestors(Front(Opened(p, g)')) \subseteq dirs'
    BY <2>2, <2>4 DEF Opening
  <2> QED
    BY <2>1, <2>3, <2>4
<1> QED
  BY <1>1, <1>2, <1>3 DEF Anchored, Grows

(* An item that is not forced writes over a file only if the file came     *)
(* after it had looked, from another group or process.                     *)
Opens ==
  \A p \in Process : \A g \in DOMAIN work[p] :
     /\ work[p][g].file # NoFile /\ Opened(p, g) \in There
     /\ ~Forced(p, Current(p, g), run[p].flags)
     => Contested(p, g, Opened(p, g))

LEMMA OpensStep == Typed /\ Opens /\ [Next]_vars => Opens'
<1> SUFFICES ASSUME Typed, Opens, [Next]_vars PROVE Opens'
  OBVIOUS
<1>1. project' = project /\ Process' = Process
  BY ProjectStays, ItemsStay
<1>2. ASSUME NEW p \in Process, NEW g \in DOMAIN work'[p], work'[p][g].file # NoFile,
             Opened(p, g)' \in There', ~Forced(p, Current(p, g), run[p].flags)'
      PROVE  Contested(p, g, Opened(p, g)')
  <2> PICK d, q : d = First(p, g) /\ q = Opened(p, g)'
    OBVIOUS
  <2>1. /\ g \in DOMAIN work[p] /\ First(p, g)' = d /\ Current(p, g)' = Current(p, g)
        /\ run'[p].flags = run[p].flags
        /\ \/ work'[p][g] = work[p][g]
           \/ \E f \in work[p][g].todo : Opening(p, g, f)
    BY <1>2, FileIs
  <2>2. q = Place(d, work'[p][g].file)
    BY <2>1 DEF Opened, Place, Plain
  <2>3. ~Forced(p, Current(p, g), run[p].flags)
    BY <1>1, <1>2, <2>1 DEF Forced, Item
  <2>4. CASE work'[p][g] = work[p][g]
    <3>1. q = Opened(p, g)
      BY <2>2, <2>4 DEF Opened
    <3>2. CASE q \in There
      BY <1>2, <2>1, <2>3, <2>4, <3>1, <3>2 DEF Opens
    <3>3. CASE q \notin There
      <4>1. q \in DOMAIN disk' /\ Changes(q)
        BY <1>2, <3>3 DEF There, Changes
      <4>2. PICK r \in Process : \E h \in DOMAIN work[r] : WritesTo(r, h, q)
        BY <4>1, Writes
      <4> PICK h \in DOMAIN work[r] : WritesTo(r, h, q)
        BY <4>2
      <4>3. /\ work'[r][h].file = NoFile /\ work[r][h].left # {} /\ Within(First(r, h).dest, q)
        BY DEF WritesTo
      <4>4. r # p \/ h # g
        BY <1>2, <4>3
      <4>5. Current(r, h) \in Items(r) /\ First(r, h) = Item(r, Current(r, h)) /\ GroupOf(First(r, h)) = h
        BY <4>3, CurrentIs
      <4> QED
        BY <4>3, <4>4, <4>5 DEF Contested
    <3> QED
      BY <3>2, <3>3
  <2>5. ASSUME NEW f \in work[p][g].todo, Opening(p, g, f) PROVE FALSE
    <3>1. q = Place(d, f) /\ disk' = disk /\ gone \subseteq gone' /\ (IsFile(Place(d, f)) => Replaces(p, g))
      BY <2>2, <2>5 DEF Opening
    <3>2. q \in There
      BY <1>2, <3>1 DEF There
    <3> QED
      BY <2>3, <3>1, <3>2 DEF IsFile, Replaces
  <2> QED
    BY <2>1, <2>4, <2>5
<1>3. ASSUME NEW p \in Process, NEW g, NEW q, Contested(p, g, q) PROVE Contested(p, g, q)'
  BY <1>1, <1>3 DEF Contested, Items, Item
<1> QED
  BY <1>1, <1>2, <1>3 DEF Opens

(* As long as nothing goes wrong, a file that was removed is about to be   *)
(* written.                                                                *)
GoneIs ==
  smooth => \A q \in gone : \E p \in Process : \E g \in DOMAIN work[p] :
               work[p][g].file # NoFile /\ Opened(p, g) = q

LEMMA GoneStep == Typed /\ GoneIs /\ [Next]_vars => GoneIs'
<1> SUFFICES ASSUME Typed, GoneIs, [Next]_vars, smooth', NEW q \in gone'
             PROVE  \E p \in Process' : \E g \in DOMAIN work'[p] :
                       work'[p][g].file # NoFile /\ Opened(p, g)' = q
  BY DEF GoneIs
<1>1. project' = project /\ Process' = Process
  BY ProjectStays, ItemsStay
<1>2. ASSUME NEW p \in Process, NEW g \in DOMAIN work[p], g \in DOMAIN work'[p],
             work'[p][g].left = work[p][g].left
      PROVE  Opened(p, g)' = Place(First(p, g), work'[p][g].file)
  BY <1>1, <1>2, FirstStays DEF Opened, Place, Plain
<1>3. CASE q \in gone
  <2>1. smooth
    BY SmoothStays
  <2>2. PICK p \in Process : \E g \in DOMAIN work[p] : work[p][g].file # NoFile /\ Opened(p, g) = q
    BY <1>3, <2>1 DEF GoneIs
  <2> PICK g \in DOMAIN work[p] : work[p][g].file # NoFile /\ Opened(p, g) = q
    BY <2>2
  <2>3. ~Lands(p, g, work[p][g].file)
    BY DEF Lands, Opened
  <2>4. g \in DOMAIN work'[p] /\ work'[p][g] = work[p][g]
    BY <2>3, FileStays
  <2>5. Opened(p, g)' = q
    BY <1>2, <2>4 DEF Opened
  <2> QED
    BY <1>1, <2>4, <2>5
<1>4. CASE q \notin gone
  <2>1. PICK p \in Process : \E g \in DOMAIN work[p] : \E f \in work[p][g].todo :
           Opening(p, g, f) /\ q = Place(First(p, g), f)
    BY <1>4, Removes
  <2> PICK g \in DOMAIN work[p] : \E f \in work[p][g].todo :
           Opening(p, g, f) /\ q = Place(First(p, g), f)
    BY <2>1
  <2> PICK f \in work[p][g].todo : Opening(p, g, f) /\ q = Place(First(p, g), f)
    OBVIOUS
  <2>2. g \in DOMAIN work'[p] /\ work'[p][g].left = work[p][g].left /\ work'[p][g].file = f
    BY DEF Opening, Becomes
  <2>3. f # NoFile
    BY AtWork DEF Shaped, NoFile, Path
  <2> QED
    BY <1>1, <1>2, <2>2, <2>3
<1> QED
  BY <1>3, <1>4

LEMMA WritingInit == Init => Anchored /\ Opens /\ GoneIs
<1> SUFFICES ASSUME Init PROVE Anchored /\ Opens /\ GoneIs
  OBVIOUS
<1>1. work = [p \in Process |-> NoWork] /\ DOMAIN NoWork = {} /\ DOMAIN disk = {} /\ gone = {}
  BY DEF Init, NoWork
<1> QED
  BY <1>1 DEF Anchored, Opens, GoneIs

LEMMA AccountsAnswer == Typed /\ Accounts /\ Anchored => SettledIsOffline
<1> SUFFICES ASSUME Typed, Accounts, Anchored, NEW p \in Process,
                    Over(p), run[p].failed = {}, run[p].flags.all \/ run[p].flags.force,
                    NEW i \in Wanted(p, [run[p].flags EXCEPT !.force = FALSE])
             PROVE  Item(p, i).force \/ Item(p, i).dest \in gone
  BY DEF SettledIsOffline
<1> PICK f, k : f = run[p].flags /\ k = [f EXCEPT !.force = FALSE]
  OBVIOUS
<1>1. AccountsOf(p)
  BY DEF Over, Accounts
<1>2. k.only = f.only /\ k.force = FALSE
  BY <1>1 DEF AccountsOf
<1>3. Left(p) = {}
  <2>1. \A g \in DOMAIN work[p] : work[p][g].left = {}
    BY AtWork DEF Over, Shaped
  <2> QED
    BY <2>1 DEF Left
<1>4. i \in Wanted(p, k)
  OBVIOUS
<1>5. i \in Considered(p, f)
  BY <1>2, <1>4 DEF Wanted, Considered
<1>6. i \in run[p].fetched \cup run[p].skipped
  BY <1>1, <1>3, <1>5 DEF AccountsOf
<1> PICK dest : dest = Item(p, i).dest
  OBVIOUS
<1>7. Found(dest) /\ dest \in Path
  BY <1>1, <1>5, <1>6, ItemIs DEF AccountsOf, Typed, Considered, Firsts, Candidate
<1>8. ASSUME dest \notin gone PROVE Exists(dest)
  <2>1. PICK q \in dirs \cup DOMAIN disk : Within(dest, q)
    BY <1>7 DEF Found
  <2>2. CASE q \in dirs \/ q \notin gone
    BY <2>1, <2>2 DEF Exists, There
  <2>3. CASE q \in DOMAIN disk /\ q \in gone
    <3>1. dest \in Ancestors(Front(q))
      BY <1>7, <1>8, <2>1, <2>3, PrefixIsAncestor DEF Typed, DiskTyped, Within
    <3>2. dest \in dirs
      BY <2>3, <3>1 DEF Anchored
    <3>3. Within(dest, dest)
      BY <1>7, PrefixOfItself DEF Within, Path, AnyPath
    <3> QED
      BY <3>2, <3>3 DEF Exists
  <2> QED
    BY <2>1, <2>2, <2>3
<1> QED
  BY <1>2, <1>4, <1>8 DEF Wanted, Forced

(* After a run that fetched all it considered, nothing that is not forced  *)
(* is fetched again, but for a file that another copy has just removed:    *)
(* what was passed over and what was fetched is there, however the items   *)
(* share sources and destinations (fetch.rs, wanted).                      *)
THEOREM SettledRunsAreOffline == Spec => []SettledIsOffline
<1>1. Init => Anchored
  BY WritingInit
<1> QED
  BY <1>1, RunsAreAccounted, RunsAreTyped, AnchoredStep, AccountsAnswer, PTL DEF Spec

(* ------------------------ What a copy keeps. --------------------------- *)

Keeps ==
  \A q \in There :
     \/ q \in There' /\ disk'[q] = disk[q]
     \/ \E p \in Process : \E g \in Busy(p) :
           /\ work[p][g].step = "copy" /\ Within(First(p, g).dest, q)
           /\ CopiesOver(p, g, q)

LEMMA FillsKeep ==
  ASSUME Typed, Opens, NEW p \in Process, NEW g \in DOMAIN work[p], Fills(p, g)
  PROVE  Keeps
<1> DEFINE w == work[p][g]
           d == First(p, g)
<1>1. w.step = "copy" /\ w.left # {} /\ g \in Busy(p)
  BY FillsDo DEF Busy
<1>2. w.todo \subseteq Path /\ d.dest \in Path /\ d.sub \in AnyPath
  BY <1>1, AtWork, CurrentIs DEF Shaped
<1>3. \A f \in w.todo : Within(d.dest, Place(d, f))
  BY <1>2, PlaceIs DEF Within
<1>4. ASSUME disk' = disk, gone' = gone PROVE Keeps
  BY <1>4 DEF Keeps, There
<1>5. ASSUME NEW f \in w.todo, Lands(p, g, f) PROVE Keeps
  <2> PICK place : place = Place(d, f)
    OBVIOUS
  <2>1. /\ DOMAIN disk' = DOMAIN disk \cup {place} /\ gone' = gone \ {place}
        /\ \A q \in DOMAIN disk : q # place => disk'[q] = disk[q]
    BY <1>1, <1>5, LandsTyped DEF Lands
  <2>2. place = Opened(p, g) /\ w.file # NoFile
    BY <1>2, <1>5 DEF Lands, Opened, NoFile, Path
  <2>3. place \in There' /\ \A q \in There : q # place => q \in There' /\ disk'[q] = disk[q]
    BY <2>1 DEF There
  <2>4. place \in There => CopiesOver(p, g, place)
    BY <2>2, <2>3 DEF Opens, CopiesOver
  <2> HIDE DEF w, d
  <2> QED
    BY <1>1, <1>3, <2>3, <2>4 DEF Keeps, w, d
<1>6. ASSUME NEW f \in w.todo, Opening(p, g, f) PROVE Keeps
  <2> PICK place : place = Place(d, f)
    OBVIOUS
  <2>1. /\ disk' = disk /\ gone' \subseteq gone \cup {place} /\ (IsFile(place) => Replaces(p, g))
        /\ work'[p][g].file = f
    BY <1>6 DEF Opening
  <2>2. \A q \in There : q # place => q \in There' /\ disk'[q] = disk[q]
    BY <2>1 DEF There
  <2>3. f # NoFile
    BY <1>2 DEF NoFile, Path
  <2>4. place \in There => CopiesOver(p, g, place)
    BY <2>1, <2>3 DEF CopiesOver, IsFile, Replaces
  <2> HIDE DEF w, d
  <2> QED
    BY <1>1, <1>3, <2>2, <2>4 DEF Keeps, w, d
<1>7. Misses(p, g) => Keeps
  BY <1>4, <1>5 DEF Misses
<1>8. ASSUME NEW f \in w.todo, Completes(p, g, f) PROVE Keeps
  BY <1>4, <1>5, <1>8 DEF Completes
<1> HIDE DEF w, d
<1> QED
  BY <1>6, <1>7, <1>8, FillsDo DEF w

(* A run removes or changes a file only under the destination of a forced  *)
(* item it is copying, and removes it only to write that item's file in    *)
(* its place; an item that is not forced changes one only where another    *)
(* group or process put it after the item had looked (safe_copy_tree and   *)
(* copy_tree).                                                             *)
THEOREM UnforcedRunsKeepFiles == Spec => UnforcedKeepsFiles
<1>1. Typed /\ Opens /\ [Next]_vars => [Keeps]_vars
  <2> SUFFICES ASSUME Typed, Opens, Next PROVE Keeps
    OBVIOUS
  <2>1. CASE << disk, gone >>' = << disk, gone >>
    BY <2>1 DEF Keeps, There
  <2>2. CASE << disk, gone >>' # << disk, gone >>
    BY <2>2, TreeChanges, FillsKeep
  <2> QED
    BY <2>1, <2>2
<1>2. UnforcedKeepsFiles <=> [][Keeps]_vars
  BY PTL DEF UnforcedKeepsFiles, Keeps
<1>3. Init => Opens
  BY WritingInit
<1> QED
  BY <1>1, <1>2, <1>3, RunsAreTyped, OpensStep, PTL DEF Spec

(* All that an item asks for is there once it is fetched. *)
Has(d) ==
  /\ Arrived(d, {})
  /\ Undisturbed(d) => \A f \in Part(d) : Place(d, f) \in DOMAIN disk

Fetches == \A p \in Process : run[p].phase = "fetch" => \A i \in run[p].fetched : Has(Item(p, i))

LEMMA HasGrows ==
  ASSUME Grows, disturbed \subseteq disturbed', NEW d, Has(d)
  PROVE  Has(d)'
BY DEF Has, Undisturbed, Grows, Arrived

LEMMA CopiedHas ==
  ASSUME Typed, Arrives, Copies, NEW p \in Process, NEW g \in DOMAIN work[p], Copied(p, g)
  PROVE  /\ Has(First(p, g)) /\ First(p, g) = Item(p, Current(p, g))
         /\ Current(p, g) \in work[p][g].left /\ Current(p, g) \in Items(p)
<1>1. work[p][g].step = "copy" /\ work[p][g].todo = {} /\ work[p][g].left # {}
  BY CopiedDoes
<1>2. CopiesAt(First(p, g), work[p][g].held, {})
  BY <1>1 DEF Copies
<1>3. Arrived(First(p, g), {})
  BY <1>1 DEF Arrives
<1> QED
  BY <1>1, <1>2, <1>3, CurrentIs DEF CopiesAt, Has

LEMMA FetchesStep == Typed /\ Arrives /\ Copies /\ Fetches /\ [Next]_vars => Fetches'
<1> SUFFICES ASSUME Typed, Arrives, Copies, Fetches, [Next]_vars,
                    NEW p \in Process', run'[p].phase = "fetch", NEW i \in run'[p].fetched
             PROVE  Has(Item(p, i))'
  BY DEF Fetches
<1> PICK d : d = Item(p, i)
  OBVIOUS
<1>1. project' = project /\ Grows /\ disturbed \subseteq disturbed'
  BY ProjectStays, TreeGrows, DisturbedGrows
<1>2. p \in Process /\ Item(p, i)' = d
  BY <1>1 DEF Process, Item
<1>3. Has(d)
  BY <1>2, FetchedAre, CopiedHas DEF Fetches
<1>4. Has(d)'
  BY <1>1, <1>3, HasGrows
<1> QED
  BY <1>2, <1>4

(* As long as nothing goes wrong, an item leaves its group when it has     *)
(* been copied and not before,                                             *)
LEMMA AdvanceLeaves ==
  ASSUME Typed, smooth', NEW p \in Process, NEW g \in DOMAIN work[p], Advance(p, g)
  PROVE  \E step, left, held, todo :
            /\ Becomes(p, g, step, left, held, todo)
            /\ \/ left = work[p][g].left
               \/ Copied(p, g) /\ left = work[p][g].left \ {Current(p, g)}
<1> DEFINE w == work[p][g]
<1>1. CASE Take(p, g)
  <2>1. \E step, held, todo : Becomes(p, g, step, w.left, held, todo)
    BY <1>1, TakeDoes
  <2> QED
    BY <2>1
<1>2. CASE Pull(p, g)
  <2>1. \E step, held, todo : Becomes(p, g, step, w.left, held, todo)
    BY <1>2, PullDoes
  <2> QED
    BY <2>1
<1>3. CASE ListCached(p, g)
  <2>1. \E step, held, todo : Becomes(p, g, step, w.left, held, todo)
    BY <1>3, ListCachedDoes
  <2> QED
    BY <2>1
<1>4. CASE DropCached(p, g)
  <2>1. \E step, held, todo : Becomes(p, g, step, w.left, held, todo)
    BY <1>4, DropCachedDoes
  <2> QED
    BY <2>1
<1>5. CASE Store(p, g)
  <2>1. \E step, held, todo : Becomes(p, g, step, w.left, held, todo)
    BY <1>5, StoreDoes
  <2> QED
    BY <2>1
<1>6. CASE StoreFile(p, g)
  <2>1. \E step, held, todo : Becomes(p, g, step, w.left, held, todo)
    BY <1>6, StoreFileDoes DEF Empties, Stores, Breaks
  <2> QED
    BY <2>1
<1>7. CASE Begin(p, g)
  <2>1. \/ w.left = {} /\ Becomes(p, g, "ended", {}, w.held, w.todo)
        \/ \E held, todo : Becomes(p, g, "copy", w.left, held, todo)
    BY <1>7, BeginDoes
  <2>2. \E step, held, todo : Becomes(p, g, step, w.left, held, todo)
    BY <2>1
  <2> QED
    BY <2>2
<1>8. CASE Fills(p, g)
  <2>1. \E step, held, todo : Becomes(p, g, step, w.left, held, todo)
    BY <1>8, FillsBecome
  <2> QED
    BY <2>1
<1>9. CASE Copied(p, g)
  <2>1. Becomes(p, g, "next", w.left \ {Current(p, g)}, w.held, {})
    BY <1>9, CopiedDoes
  <2> QED
    BY <1>9, <2>1
<1> QED
  BY <1>1, <1>2, <1>3, <1>4, <1>5, <1>6, <1>7, <1>8, <1>9 DEF Advance, Fills

LEMMA LeftIs ==
  ASSUME Typed, [Next]_vars, smooth', NEW p \in Process, NEW g \in DOMAIN work[p],
         NEW i \in work[p][g].left
  PROVE  \/ g \in DOMAIN work'[p] /\ i \in work'[p][g].left
         \/ Copied(p, g) /\ i = Current(p, g)
<1> DEFINE Stays == g \in DOMAIN work'[p] /\ i \in work'[p][g].left
<1>1. CASE work' = work
  BY <1>1
<1>2. ASSUME NEW q \in Process, Start(q) PROVE Stays
  <2>1. q # p
    BY <1>2, AtWork, StartDoes
  <2>2. PICK f : Starts(q, f)
    BY <1>2, StartDoes
  <2> QED
    BY <2>1, <2>2 DEF Starts
<1>3. ASSUME NEW q \in Process, Finish(q) PROVE Stays
  <2>1. q # p
    BY <1>3, AtWork DEF Finish, Over, Shaped
  <2> QED
    BY <1>3, <2>1, StopsAre DEF Stops
<1>4. ASSUME NEW q \in Process, Crash(q) PROVE Stays
  BY <1>4 DEF Crash
<1>5. ASSUME NEW q \in Process, NEW h \in DOMAIN work[q], Advance(q, h)
      PROVE  Stays \/ (Copied(p, g) /\ i = Current(p, g))
  <2>1. PICK step, left, held, todo :
           /\ Becomes(q, h, step, left, held, todo)
           /\ \/ left = work[q][h].left
              \/ Copied(q, h) /\ left = work[q][h].left \ {Current(q, h)}
    BY <1>5, AdvanceLeaves
  <2>2. CASE q = p /\ h = g
    BY <2>1, <2>2 DEF Becomes
  <2>3. CASE ~ (q = p /\ h = g)
    BY <2>1, <2>3 DEF Becomes
  <2> QED
    BY <2>2, <2>3
<1>6. ASSUME NEW s \in Sources, Publish(s) PROVE work' = work
  BY <1>6 DEF Publish
<1>7. UNCHANGED vars => work' = work
  BY DEF vars
<1> QED
  BY <1>1, <1>2, <1>3, <1>4, <1>5, <1>6, <1>7 DEF Next

(* and a path appears below the destination of an item that is copied.     *)
LEMMA Appears ==
  ASSUME Typed, [Next]_vars, smooth', NEW dest \in Path, Found(dest)', ~Found(dest)
  PROVE  \E p \in Process : \E g \in DOMAIN work[p] :
            /\ work[p][g].left # {} /\ g \in DOMAIN work'[p] /\ work'[p][g].left = work[p][g].left
            /\ \E z \in Path : Within(First(p, g).dest, z) /\ Within(dest, z)
<1>1. PICK x \in dirs' \cup DOMAIN disk' : Within(dest, x)
  BY DEF Found
<1>2. x \notin dirs \cup DOMAIN disk
  BY <1>1 DEF Found
<1>3. tree' # tree
  BY <1>1, <1>2 DEF tree
<1>4. ASSUME NEW p \in Process, Start(p) \/ Finish(p) \/ Crash(p) PROVE FALSE
  BY <1>3, <1>4, WorkStays
<1>5. ASSUME NEW p \in Process, NEW g \in DOMAIN work[p], Advance(p, g)
      PROVE  Begin(p, g) \/ Fills(p, g)
  BY <1>3, <1>5 DEF Advance, Take, Pull, ListCached, DropCached, Store, StoreFile, Copied, Fills
<1>6. ~ \E s \in Sources : Publish(s)
  BY <1>3 DEF Publish
<1>7. ~ UNCHANGED vars
  BY <1>3 DEF vars
<1>8. PICK p \in Process : \E g \in DOMAIN work[p] : Advance(p, g)
  BY <1>4, <1>6, <1>7 DEF Next
<1> PICK g \in DOMAIN work[p] : Advance(p, g)
  BY <1>8
<1> PICK d, w : d = First(p, g) /\ w = work[p][g]
  OBVIOUS
<1>9. ASSUME w.left # {} PROVE d.dest \in Path /\ d.sub \in AnyPath
  BY <1>9, CurrentIs
<1>10. ASSUME w.left # {}, g \in DOMAIN work'[p], work'[p][g].left = w.left,
              NEW z \in Path, Within(d.dest, z), x \in AnyPath, IsPrefix(x, z)
       PROVE  /\ w.left # {} /\ g \in DOMAIN work'[p] /\ work'[p][g].left = w.left
              /\ \E y \in Path : Within(d.dest, y) /\ Within(dest, y)
  <2>1. dest \in AnyPath /\ z \in AnyPath
    BY DEF Path, AnyPath
  <2>2. Within(dest, z)
    BY <1>1, <1>10, <2>1, PrefixIsTransitive DEF Within
  <2> QED
    BY <1>10, <2>2
<1>11. CASE Begin(p, g)
  <2> PICK held, todo : held = Checkout(d, w.held) /\ todo = Under(Offered(d, held), d.sub)
    OBVIOUS
  <2>1. /\ w.left # {} /\ Becomes(p, g, "copy", w.left, held, todo)
        /\ dirs' = dirs \cup Ancestors(IF Plain(d) THEN Front(d.dest) ELSE d.dest)
        /\ disk' = disk
    BY <1>2, <1>11, BeginDoes
  <2>2. d.dest \in Path /\ d.dest \in AnyPath
    BY <1>9, <2>1 DEF Path, AnyPath
  <2>3. x \in Ancestors(Front(d.dest)) \/ x \in Ancestors(d.dest)
    BY <1>2, <2>1
  <2>4. x \in AnyPath /\ IsPrefix(x, d.dest)
    <3>1. Front(d.dest) \in AnyPath /\ IsPrefix(Front(d.dest), d.dest)
      BY <2>2, FrontIs
    <3>2. x \in Path /\ (IsPrefix(x, Front(d.dest)) \/ IsPrefix(x, d.dest))
      BY <2>2, <2>3, <3>1, AncestorsAre
    <3>3. x \in AnyPath
      BY <3>2 DEF Path, AnyPath
    <3> QED
      BY <2>2, <3>1, <3>2, <3>3, PrefixIsTransitive
  <2>5. Within(d.dest, d.dest)
    BY <2>2, PrefixOfItself DEF Within
  <2>6. g \in DOMAIN work'[p] /\ work'[p][g].left = w.left
    BY <2>1 DEF Becomes
  <2> QED
    BY <1>10, <2>1, <2>2, <2>4, <2>5, <2>6
<1>12. CASE Fills(p, g)
  <2>1. w.left # {} /\ ~Misses(p, g)
    BY <1>12, FillsDo DEF Misses
  <2>2. PICK f \in w.todo : Completes(p, g, f) \/ Opening(p, g, f)
    BY <1>12, <2>1, FillsDo
  <2> PICK z : z = Place(d, f)
    OBVIOUS
  <2>3. f \in Path
    BY AtWork DEF Shaped
  <2>4. z \in Path /\ z \in AnyPath /\ Within(d.dest, z)
    BY <1>9, <2>1, <2>3, PlaceIs DEF Path, AnyPath, Within
  <2>5. x = z \/ x \in Ancestors(Front(z))
    <3>1. CASE Completes(p, g, f)
      <4>1. DOMAIN disk' \subseteq DOMAIN disk \cup {z} /\ dirs' = dirs
        BY <2>1, <3>1, LandsTyped DEF Completes
      <4> QED
        BY <1>2, <4>1
    <3>2. CASE Opening(p, g, f)
      BY <1>2, <3>2 DEF Opening
    <3> QED
      BY <2>2, <3>1, <3>2
  <2>6. x \in AnyPath /\ IsPrefix(x, z)
    <3>1. Front(z) \in AnyPath /\ IsPrefix(Front(z), z) /\ IsPrefix(z, z)
      BY <2>4, FrontIs, PrefixOfItself
    <3>2. CASE x \in Ancestors(Front(z))
      <4>1. x \in Path /\ IsPrefix(x, Front(z))
        BY <3>1, <3>2, AncestorsAre
      <4>2. x \in AnyPath
        BY <4>1 DEF Path, AnyPath
      <4> QED
        BY <2>4, <3>1, <4>1, <4>2, PrefixIsTransitive
    <3> QED
      BY <2>4, <2>5, <3>1, <3>2
  <2>7. g \in DOMAIN work'[p] /\ work'[p][g].left = w.left
    BY <2>2 DEF Completes, Opening, Becomes
  <2> QED
    BY <1>10, <2>1, <2>4, <2>6, <2>7
<1> QED
  BY <1>5, <1>11, <1>12

(* All of an item is there, or was and has been removed. *)
Full(d) == Found(d.dest) /\ \A f \in Part(d) : Place(d, f) \in DOMAIN disk

LEMMA FullGrows ==
  ASSUME Grows, NEW d, Full(d)
  PROVE  Full(d)'
<1>1. Found(d.dest)'
  BY FoundStays DEF Full
<1> QED
  BY <1>1 DEF Full, Grows

(* An item that was copied. *)
LEMMA CopiedIsFull ==
  ASSUME Typed, Copies, Arrives, NEW p \in Process, NEW g \in DOMAIN work[p], Copied(p, g),
         Undisturbed(First(p, g))
  PROVE  Full(First(p, g))
<1> PICK d : d = First(p, g)
  OBVIOUS
<1>1. d.dest \in AnyPath /\ Has(d)
  BY CopiedHas, CopiedDoes, CurrentIs DEF Path, AnyPath
<1>2. d.dest \in dirs \cup DOMAIN disk
  BY <1>1 DEF Has, Arrived
<1>3. Found(d.dest)
  BY <1>1, <1>2, PrefixOfItself DEF Found, Within
<1> QED
  BY <1>1, <1>3 DEF Full, Has

(* What is there of an item that has its destination to itself, and that   *)
(* no run is copying, is all of it.                                        *)
PresentFull ==
  smooth => \A p \in Process : \A i \in Items(p) :
     LET d == Item(p, i) IN
     Found(d.dest) /\ Alone(d) /\ Undisturbed(d) /\ ~Copying(d.dest) => Full(d)

LEMMA PresentStep == Typed /\ Copies /\ Arrives /\ PresentFull /\ [Next]_vars => PresentFull'
<1> SUFFICES ASSUME Typed, Copies, Arrives, PresentFull, [Next]_vars, smooth',
                    NEW p \in Process', NEW i \in Items(p)', NEW d, d = Item(p, i)',
                    Found(d.dest)', Alone(d)', Undisturbed(d)', ~Copying(d.dest)'
             PROVE  Full(d)'
  BY DEF PresentFull
<1>1. project' = project /\ Grows /\ disturbed \subseteq disturbed' /\ smooth
  BY ProjectStays, TreeGrows, DisturbedGrows, SmoothStays
<1>2. p \in Process /\ i \in Items(p) /\ Item(p, i) = d /\ Alone(d) /\ Undisturbed(d)
  BY <1>1 DEF Process, Items, Item, Alone, Undisturbed
<1>3. /\ d \in Dependency /\ d.dest \in Path /\ d.dest \in AnyPath /\ project \in Projects
      /\ Within(d.dest, d.dest)
  BY <1>2, ItemIs, PrefixOfItself DEF Typed, Path, AnyPath, Within
<1>4. ASSUME Copying(d.dest) PROVE Full(d)
  <2>1. PICK q \in Process : \E g \in DOMAIN work[q] : \E j \in work[q][g].left :
           Item(q, j).dest = d.dest
    BY <1>4 DEF Copying
  <2> PICK g \in DOMAIN work[q] : \E j \in work[q][g].left : Item(q, j).dest = d.dest
    BY <2>1
  <2> PICK j \in work[q][g].left : Item(q, j).dest = d.dest
    OBVIOUS
  <2>2. ~ (g \in DOMAIN work'[q] /\ j \in work'[q][g].left)
    BY <1>1 DEF Copying, Process, Item
  <2>3. Copied(q, g) /\ j = Current(q, g)
    BY <2>2, LeftIs
  <2> PICK e : e = First(q, g)
    OBVIOUS
  <2>4. e = Item(q, j) /\ j \in Items(q) /\ e.dest = d.dest /\ e \in Dependency
    BY <1>3, <2>3, CopiedHas, ItemIs
  <2>5. Asks(e) = Asks(d)
    BY <1>2, <1>3, <2>4, AloneIs
  <2>6. /\ Part(d) = Part(e) /\ \A f : Place(d, f) = Place(e, f)
        /\ Undisturbed(d) <=> Undisturbed(e)
    BY <1>3, <2>4, <2>5, SameIs
  <2>7. Full(e)
    BY <1>2, <2>3, <2>6, CopiedIsFull
  <2> QED
    BY <2>4, <2>6, <2>7 DEF Full
<1>5. ASSUME ~Found(d.dest) PROVE FALSE
  <2>1. PICK q \in Process : \E g \in DOMAIN work[q] :
            /\ work[q][g].left # {} /\ g \in DOMAIN work'[q] /\ work'[q][g].left = work[q][g].left
            /\ \E z \in Path : Within(First(q, g).dest, z) /\ Within(d.dest, z)
    BY <1>3, <1>5, Appears
  <2> PICK g \in DOMAIN work[q] :
            /\ work[q][g].left # {} /\ g \in DOMAIN work'[q] /\ work'[q][g].left = work[q][g].left
            /\ \E z \in Path : Within(First(q, g).dest, z) /\ Within(d.dest, z)
    BY <2>1
  <2> PICK z \in Path : Within(First(q, g).dest, z) /\ Within(d.dest, z)
    OBVIOUS
  <2> PICK e, j : e = First(q, g) /\ j = Current(q, g)
    OBVIOUS
  <2>2. e = Item(q, j) /\ j \in Items(q) /\ j \in work[q][g].left /\ e \in Dependency
    BY CurrentIs
  <2>3. Asks(e) = Asks(d)
    BY <1>2, <1>3, <2>2, AloneIs
  <2>4. e.dest = d.dest
    BY <1>3, <2>2, <2>3, SameIs
  <2>5. Item(q, j)' = e /\ q \in Process' /\ g \in DOMAIN work'[q] /\ j \in work'[q][g].left
    BY <1>1, <2>2 DEF Process, Item
  <2> QED
    BY <2>4, <2>5 DEF Copying
<1>6. Full(d)
  BY <1>1, <1>2, <1>4, <1>5 DEF PresentFull
<1> QED
  BY <1>1, <1>6, FullGrows

LEMMA PresentAnswer == Typed /\ GoneIs /\ PresentFull => PresentIsWhole
<1> SUFFICES ASSUME Typed, GoneIs, PresentFull, smooth, NEW p \in Process, NEW i \in Items(p),
                    NEW d, d = Item(p, i), Exists(d.dest), Alone(d), Undisturbed(d),
                    ~Copying(d.dest)
             PROVE  Whole(d)
  BY DEF PresentIsWhole
<1>1. Full(d)
  BY ExistsIsFound DEF PresentFull
<1>2. d \in Dependency /\ d.dest \in Path /\ d.sub \in AnyPath /\ project \in Projects
  BY ItemIs DEF Typed
<1>3. ASSUME NEW f \in Part(d), Place(d, f) \in gone PROVE FALSE
  <2> PICK q : q = Place(d, f)
    OBVIOUS
  <2>1. q \in Path /\ Within(d.dest, q)
    BY <1>2, PartIs, PlaceIs DEF Within
  <2>2. PICK r \in Process : \E g \in DOMAIN work[r] : work[r][g].file # NoFile /\ Opened(r, g) = q
    BY <1>3 DEF GoneIs
  <2> PICK g \in DOMAIN work[r] : work[r][g].file # NoFile /\ Opened(r, g) = q
    BY <2>2
  <2> PICK e, j : e = First(r, g) /\ j = Current(r, g)
    OBVIOUS
  <2>3. work[r][g].left # {} /\ work[r][g].file \in Path
    BY AtWork DEF Shaped, Filed
  <2>4. /\ e = Item(r, j) /\ j \in Items(r) /\ j \in work[r][g].left /\ e \in Dependency
        /\ e.dest \in Path /\ e.sub \in AnyPath
    BY <2>3, CurrentIs
  <2>5. Within(e.dest, q)
    BY <2>2, <2>3, <2>4, PlaceIs DEF Opened, Within
  <2>6. Asks(e) = Asks(d)
    BY <1>2, <2>1, <2>4, <2>5, AloneIs
  <2>7. e.dest = d.dest
    BY <1>2, <2>4, <2>6, SameIs
  <2> QED
    BY <2>4, <2>7 DEF Copying
<1> QED
  BY <1>1, <1>3 DEF Full, Whole, IsFile, There

(* ------------------------- How fresh it is. ---------------------------- *)

(* Nothing is missing of an item when only this process copies to its      *)
(* destination, and nothing that a forced item asks for is older than what *)
(* the group pulled.                                                       *)
Lone(p, d) == Alone(d) /\ Own(p, d)

FreshAt(p, i, q) ==
  /\ q \notin gone
  /\ Forced(p, i, run[p].flags) => disk[q].at >= work[p][GroupOf(Item(p, i))].held.at

FreshOf(p, i) ==
  LET d == Item(p, i)
      g == GroupOf(d)
  IN /\ i \in run[p].fetched =>
           /\ g \in DOMAIN work[p] /\ work[p][g].step \in {"next", "copy", "ended"}
           /\ \A f \in Part(d) : FreshAt(p, i, Place(d, f))
     /\ g \in DOMAIN work[p] /\ work[p][g].step = "copy" /\ i = Current(p, g) =>
           \A f \in Part(d) \ work[p][g].todo : FreshAt(p, i, Place(d, f))

Fresh ==
  \A p \in Process : run[p].phase = "fetch" =>
     \A i \in Items(p) :
        Lone(p, Item(p, i)) /\ Undisturbed(Item(p, i)) => FreshOf(p, i)

(* What a group copies is as new as what it pulled.                        *)
LEMMA ContentIsFresh ==
  ASSUME Typed, Charts, NEW p \in Process, NEW g \in DOMAIN work[p],
         work[p][g].step = "copy", work[p][g].left # {}, Undisturbed(First(p, g)),
         NEW f \in Offered(First(p, g), work[p][g].held)
  PROVE  ContentAt(First(p, g), work[p][g].held, f).at >= work[p][g].held.at
<1> PICK d, held : d = First(p, g) /\ held = work[p][g].held
  OBVIOUS
<1>1. held.at \in Nat /\ GroupOf(d) = g
  BY AtWork, CurrentIs DEF Shaped
<1>2. CASE ~Cached(d)
  BY <1>1, <1>2, ContentIs DEF Typed
<1>3. CASE Cached(d)
  <2> PICK c : c = ChartOf(d)
    OBVIOUS
  <2>1. c \in DOMAIN cache /\ f \in DOMAIN cache[c]
    BY <1>3 DEF Offered, InCache
  <2>2. ContentAt(d, held, f) = cache[c][f]
    BY <1>3, <2>1 DEF ContentAt
  <2>3. CachedGroup(g) /\ ChartOfGroup(g) = c
    BY <1>1, <1>3, GroupIs
  <2>4. On(p, g, c)
    BY <2>3 DEF On
  <2>5. ChartOK(c)
    BY <1>3 DEF Charts, Undisturbed
  <2>6. ChartAt("copy", held, work[p][g].todo, c)
    BY <2>4, <2>5 DEF ChartOK
  <2> QED
    BY <2>1, <2>2, <2>6 DEF ChartAt
<1> QED
  BY <1>2, <1>3

(* So a file below such a destination never gets older than that.          *)
LEMMA FreshStays ==
  ASSUME Typed, Charts, [Next]_vars, NEW p \in Process, NEW i \in Items(p), NEW d, d = Item(p, i),
         Lone(p, d), Undisturbed(d), NEW g, g = GroupOf(d), g \in DOMAIN work[p],
         NEW q \in DOMAIN disk, Within(d.dest, q), disk[q].at >= work[p][g].held.at
  PROVE  disk'[q].at >= work[p][g].held.at
<1>1. CASE disk'[q] = disk[q]
  BY <1>1
<1>2. CASE disk'[q] # disk[q]
  <2>1. q \in DOMAIN disk' /\ q \in Path
    BY TreeGrows DEF Grows, Typed, DiskTyped
  <2>2. PICK r \in Process : \E h \in DOMAIN work[r] : Fills(r, h) /\ WritesTo(r, h, q)
    BY <1>2, <2>1, Writes DEF Changes
  <2> PICK h \in DOMAIN work[r] : Fills(r, h) /\ WritesTo(r, h, q)
    BY <2>2
  <2> PICK e, held : e = First(r, h) /\ held = work[r][h].held
    OBVIOUS
  <2>3. /\ work[r][h].left # {} /\ work[r][h].step = "copy" /\ Within(e.dest, q) /\ held.at \in Nat
        /\ \E f \in Path : f \in Offered(e, held) /\ disk'[q] = ContentAt(e, held, f)
    BY DEF WritesTo
  <2> PICK f \in Path : f \in Offered(e, held) /\ disk'[q] = ContentAt(e, held, f)
    BY <2>3
  <2>4. /\ e = Item(r, Current(r, h)) /\ Current(r, h) \in Items(r) /\ e \in Dependency
        /\ GroupOf(e) = h
    BY <2>3, CurrentIs
  <2>5. d \in Dependency /\ project \in Projects
    BY ItemIs DEF Typed
  <2>6. Asks(e) = Asks(d) /\ r = p
    BY <2>1, <2>3, <2>4, <2>5, AloneIs DEF Lone
  <2>7. h = g /\ Undisturbed(e)
    BY <2>4, <2>5, <2>6, SameIs
  <2>8. disk'[q].at >= held.at
    BY <2>3, <2>7, ContentIsFresh
  <2> QED
    BY <2>6, <2>7, <2>8
<1> QED
  BY <1>1, <1>2

LEMMA OnePlace ==
  ASSUME NEW d, Declared(d), d.dest \in Path, d.sub \in AnyPath, NEW f \in Part(d), f \in Path,
         NEW h \in Path, IsStrictPrefix(d.sub, h), d.kind = "http" => h \in FilesOf[d.source],
         Place(d, h) = Place(d, f)
  PROVE  h = f
<1>1. IsStrictPrefix(d.sub, f)
  BY DEF Part, Under
<1>2. CASE Plain(d)
  <2>1. d.kind = "http" /\ ~d.unpack
    BY <1>2 DEF Plain
  <2>2. f \in FilesOf[d.source]
    BY <2>1 DEF Part, Under, Declared
  <2> QED
    BY <2>1, <2>2 DEF Declared
<1>3. CASE ~Plain(d)
  <2>1. d.dest \in AnyPath /\ f \in AnyPath /\ h \in AnyPath
    BY DEF Path, AnyPath
  <2> QED
    BY <1>1, <1>3, <2>1, PlacesDiffer
<1> QED
  BY <1>2, <1>3

(* Only the group itself removes a file of such a destination, to write    *)
(* another of the item it copies.                                          *)
LEMMA RemovesOwn ==
  ASSUME Typed, [Next]_vars, NEW p \in Process, NEW i \in Items(p), NEW d, d = Item(p, i),
         Lone(p, d), NEW g, g = GroupOf(d), NEW f \in Part(d),
         Place(d, f) \notin gone, Place(d, f) \in gone'
  PROVE  /\ g \in DOMAIN work[p] /\ work[p][g].step = "copy" /\ work[p][g].left # {}
         /\ Asks(First(p, g)) = Asks(d)
         /\ \E y \in work[p][g].todo : Place(d, y) = Place(d, f)
<1> PICK q : q = Place(d, f)
  OBVIOUS
<1>1. /\ d \in Dependency /\ d.dest \in Path /\ d.sub \in AnyPath /\ project \in Projects
      /\ q \in Path /\ Within(d.dest, q)
  BY ItemIs, PartIs, PlaceIs DEF Typed, Within
<1>2. PICK r \in Process : \E h \in DOMAIN work[r] : \E y \in work[r][h].todo :
         Opening(r, h, y) /\ q = Place(First(r, h), y) /\ work[r][h].left # {}
  BY Removes
<1> PICK h \in DOMAIN work[r] : \E y \in work[r][h].todo :
         Opening(r, h, y) /\ q = Place(First(r, h), y) /\ work[r][h].left # {}
  BY <1>2
<1> PICK y \in work[r][h].todo :
         Opening(r, h, y) /\ q = Place(First(r, h), y) /\ work[r][h].left # {}
  OBVIOUS
<1>3. work[r][h].step = "copy" /\ y \in Path
  <2>1. Fills(r, h) => work[r][h].step = "copy"
    BY FillsDo
  <2>2. work'[r][h].file = y /\ y \in Path
    BY AtWork DEF Opening, Shaped
  <2>3. work'[r][h].file # NoFile
    BY <2>2 DEF NoFile, Path
  <2>4. /\ h \in DOMAIN work'[r] /\ work'[r][h] # work[r][h]
    BY <2>2, <2>3 DEF Opening, Becomes
  <2>5. Advance(r, h) \/ work'[r][h].step = "waiting"
    BY <2>4, WorkIs
  <2>6. work'[r][h].step = "copy"
    BY DEF Opening, Becomes
  <2>7. Fills(r, h)
    BY <2>3, <2>5, <2>6, FileRests DEF Advance, Fills
  <2> QED
    BY <2>1, <2>2, <2>7
<1> PICK e : e = First(r, h)
  OBVIOUS
<1>4. /\ e = Item(r, Current(r, h)) /\ Current(r, h) \in Items(r) /\ e \in Dependency
      /\ GroupOf(e) = h /\ e.dest \in Path /\ e.sub \in AnyPath
  BY CurrentIs
<1>5. Within(e.dest, q)
  BY <1>3, <1>4, PlaceIs DEF Within
<1>6. Asks(e) = Asks(d) /\ r = p
  BY <1>1, <1>4, <1>5, AloneIs DEF Lone
<1>7. h = g /\ Place(d, y) = Place(e, y)
  BY <1>1, <1>4, <1>6, SameIs
<1> QED
  BY <1>3, <1>6, <1>7

(* So one that was copied stays, *)
LEMMA FetchedStays ==
  ASSUME Typed, Accounts, [Next]_vars, NEW p \in Process, NEW i \in Items(p), NEW d, d = Item(p, i),
         Lone(p, d), run[p].phase = "fetch", i \in run[p].fetched, NEW f \in Part(d),
         Place(d, f) \notin gone
  PROVE  Place(d, f) \notin gone'
<1> SUFFICES ASSUME Place(d, f) \in gone' PROVE FALSE
  OBVIOUS
<1> PICK g : g = GroupOf(d)
  OBVIOUS
<1>1. /\ g \in DOMAIN work[p] /\ work[p][g].left # {} /\ Asks(First(p, g)) = Asks(d)
  BY RemovesOwn
<1> PICK j, only : j = Current(p, g) /\ only = run[p].flags.only
  OBVIOUS
<1>2. j \in work[p][g].left /\ j \in Items(p) /\ First(p, g) = Item(p, j) /\ Item(p, j) \in Dependency
  BY <1>1, CurrentIs
<1>3. d \in Dependency /\ i \in Nat /\ j \in Nat
  BY <1>2, ItemIs DEF Typed
<1>4. Item(p, j).source = d.source /\ Item(p, j).dest = d.dest
  BY <1>1, <1>2, <1>3, SameIs
<1>5. AccountsOf(p) /\ j \in Left(p)
  BY <1>1, <1>2 DEF Accounts, Left
<1>6. i \in Firsts(p, only) /\ j \in Firsts(p, only) /\ i # j
  BY <1>5 DEF AccountsOf
<1> QED
  BY <1>3, <1>4, <1>6 DEF Firsts

(* and one that has just been.                                             *)
LEMMA CopiedStays ==
  ASSUME Typed, Copies, [Next]_vars, NEW p \in Process, NEW i \in Items(p), NEW d, d = Item(p, i),
         Lone(p, d), NEW g, g = GroupOf(d), g \in DOMAIN work[p], work[p][g].step = "copy",
         i = Current(p, g), NEW f \in Part(d), f \notin work[p][g].todo, Place(d, f) \notin gone
  PROVE  Place(d, f) \notin gone'
<1> SUFFICES ASSUME Place(d, f) \in gone' PROVE FALSE
  OBVIOUS
<1>1. work[p][g].left # {} /\ \E y \in work[p][g].todo : Place(d, y) = Place(d, f)
  BY RemovesOwn
<1> PICK y \in work[p][g].todo : Place(d, y) = Place(d, f)
  BY <1>1
<1>2. First(p, g) = d
  BY <1>1, CurrentIs
<1>3. CopiesAt(d, work[p][g].held, work[p][g].todo) /\ y \in Path
  BY <1>2, AtWork DEF Copies, Shaped
<1>4. Declared(d) /\ d.dest \in Path /\ d.sub \in AnyPath /\ f \in Path
  BY ItemIs, PartIs DEF Typed
<1>5. y = f
  BY <1>3, <1>4, OnePlace DEF CopiesAt
<1> QED
  BY <1>5

(* A group that has pulled keeps the state it pulled.                      *)
LEMMA HeldAtStays ==
  ASSUME Typed, [Next]_vars, NEW p \in Process, NEW g \in DOMAIN work[p],
         work[p][g].step \in {"next", "copy", "ended"}, run'[p].phase = "fetch"
  PROVE  /\ g \in DOMAIN work'[p] /\ work'[p][g].step \in {"next", "copy", "ended"}
         /\ work'[p][g].held.at = work[p][g].held.at
<1>1. run[p].phase = "fetch" /\ DOMAIN work[p][g].held = {"at", "ref", "files"}
  BY AtWork DEF Shaped
<1>2. ASSUME NEW q \in Process, Start(q) \/ Finish(q) \/ Crash(q) PROVE work'[p] = work[p]
  <2>1. ASSUME Start(q) PROVE work'[p] = work[p]
    BY <1>1, <2>1, StartDoes DEF Starts
  <2>2. ASSUME Finish(q) \/ Crash(q) PROVE work'[p] = work[p]
    <3>1. Stops(q) /\ Idle.phase # "fetch"
      BY <2>2, StopsAre DEF Idle
    <3> QED
      BY <3>1 DEF Stops
  <2> QED
    BY <1>2, <2>1, <2>2
<1>3. ASSUME NEW q \in Process, NEW h \in DOMAIN work[q], Advance(q, h), ~ (q = p /\ h = g)
      PROVE  g \in DOMAIN work'[p] /\ work'[p][g] = work[p][g]
  <2>1. PICK step, left, held, todo : Becomes(q, h, step, left, held, todo)
    BY <1>3, AdvanceMoves
  <2> QED
    BY <1>3, <2>1 DEF Becomes
<1>4. ASSUME Advance(p, g)
      PROVE  /\ g \in DOMAIN work'[p] /\ work'[p][g].step \in {"next", "copy", "ended"}
             /\ work'[p][g].held.at = work[p][g].held.at
  <2>1. ASSUME NEW step \in {"next", "copy", "ended"}, NEW left, NEW held, NEW todo,
               Becomes(p, g, step, left, held, todo), held.at = work[p][g].held.at
        PROVE  /\ g \in DOMAIN work'[p] /\ work'[p][g].step \in {"next", "copy", "ended"}
               /\ work'[p][g].held.at = work[p][g].held.at
    BY <2>1 DEF Becomes
  <2>2. ~Take(p, g) /\ ~Pull(p, g) /\ ~ListCached(p, g) /\ ~DropCached(p, g) /\ ~Store(p, g)
        /\ ~StoreFile(p, g)
    BY DEF Take, Pull, ListCached, DropCached, Store, StoreFile
  <2>3. CASE Begin(p, g)
    <3> PICK held, todo : /\ held = Checkout(First(p, g), work[p][g].held)
                          /\ todo = Under(Offered(First(p, g), held), First(p, g).sub)
      OBVIOUS
    <3>1. held.at = work[p][g].held.at
      BY <1>1, CheckedOut
    <3>2. \/ Becomes(p, g, "ended", {}, work[p][g].held, work[p][g].todo)
          \/ Becomes(p, g, "next", work[p][g].left \ {Current(p, g)}, work[p][g].held, {})
          \/ Becomes(p, g, "copy", work[p][g].left, held, todo)
      BY <2>3, BeginDoes
    <3> QED
      BY <2>1, <3>1, <3>2
  <2>4. CASE Fills(p, g)
    BY <2>1, <2>4, FillsBecome
  <2>5. CASE Copied(p, g)
    BY <2>1, <2>5, CopiedDoes
  <2> QED
    BY <1>4, <2>2, <2>3, <2>4, <2>5 DEF Advance, Fills
<1>5. ASSUME NEW s \in Sources, Publish(s) PROVE work' = work
  BY <1>5 DEF Publish
<1>6. UNCHANGED vars => work' = work
  BY DEF vars
<1> QED
  BY <1>2, <1>3, <1>4, <1>5, <1>6 DEF Next

LEMMA AdvanceElse ==
  ASSUME Typed, NEW p \in Process, NEW g \in DOMAIN work[p], Advance(p, g),
         ~Begin(p, g), ~Fills(p, g)
  PROVE  \E step, left, held, todo : step # "copy" /\ Becomes(p, g, step, left, held, todo)
<1>1. CASE Take(p, g)
  BY <1>1, TakeDoes
<1>2. CASE Pull(p, g)
  BY <1>2, PullDoes
<1>3. CASE ListCached(p, g)
  BY <1>3, ListCachedDoes
<1>4. CASE DropCached(p, g)
  BY <1>4, DropCachedDoes
<1>5. CASE Store(p, g)
  BY <1>5, StoreDoes
<1>6. CASE StoreFile(p, g)
  BY <1>6, StoreFileDoes DEF Empties, Stores, Breaks
<1>7. CASE Copied(p, g)
  BY <1>7, CopiedDoes
<1> QED
  BY <1>1, <1>2, <1>3, <1>4, <1>5, <1>6, <1>7 DEF Advance, Fills

(* A group copies when it has begun with an item, or has copied a file.    *)
LEMMA CopyIs ==
  ASSUME Typed, [Next]_vars, NEW p \in Process, NEW g \in DOMAIN work'[p],
         work'[p][g].step = "copy", NEW d, d = First(p, g)
  PROVE  /\ g \in DOMAIN work[p] /\ work[p][g].left # {}
         /\ Current(p, g)' = Current(p, g)
         /\ \/ /\ work[p][g].step = "next"
               /\ work'[p][g].todo = Under(Offered(d, Checkout(d, work[p][g].held)), d.sub)
            \/ /\ work[p][g].step = "copy" /\ work'[p][g].held = work[p][g].held
               /\ work'[p][g].todo = work[p][g].todo
            \/ /\ work[p][g].step = "copy" /\ work'[p][g].held = work[p][g].held
               /\ \E f \in work[p][g].todo :
                     /\ work'[p][g].todo = work[p][g].todo \ {f}
                     /\ f \in Offered(d, work[p][g].held)
                     /\ Place(d, f) \notin gone'
                     /\ Replaces(p, g) =>
                           disk'[Place(d, f)] = ContentAt(d, work[p][g].held, f)
<1>1. project' = project
  BY ProjectStays
<1>2. CASE g \in DOMAIN work[p] /\ work'[p][g] = work[p][g]
  BY <1>1, <1>2, FirstStays, AtWork DEF Shaped
<1>3. CASE g \in DOMAIN work[p] /\ Advance(p, g)
  <2>1. ASSUME NEW step, NEW left, NEW held, NEW todo, Becomes(p, g, step, left, held, todo)
        PROVE  /\ step = "copy" /\ work'[p][g].left = left /\ work'[p][g].held = held
               /\ work'[p][g].todo = todo
    BY <2>1 DEF Becomes
  <2>2. Begin(p, g) \/ Fills(p, g)
    BY <1>3, <2>1, AdvanceElse
  <2>4. CASE Begin(p, g)
    <3> PICK left, held, todo : /\ left = work[p][g].left /\ held = Checkout(d, work[p][g].held)
                                /\ todo = Under(Offered(d, held), d.sub)
      OBVIOUS
    <3>1. \/ Becomes(p, g, "ended", {}, work[p][g].held, work[p][g].todo)
          \/ Becomes(p, g, "next", work[p][g].left \ {Current(p, g)}, work[p][g].held, {})
          \/ left # {} /\ Becomes(p, g, "copy", left, held, todo)
      BY <1>3, <2>4, BeginDoes
    <3>2. left # {} /\ Becomes(p, g, "copy", left, held, todo)
      BY <2>1, <3>1
    <3>3. work'[p][g].left = work[p][g].left /\ work'[p][g].todo = todo
      BY <2>1, <3>2
    <3>4. work[p][g].step = "next"
      BY <2>4 DEF Begin
    <3> QED
      BY <1>1, <1>3, <3>2, <3>3, <3>4, FirstStays
  <2>5. CASE Fills(p, g)
    <3> PICK left, held : left = work[p][g].left /\ held = work[p][g].held
      OBVIOUS
    <3>1. left # {} /\ work[p][g].step = "copy"
      BY <1>3, <2>5, FillsDo
    <3>2. ~Misses(p, g)
      BY <2>1 DEF Misses
    <3>3. ASSUME NEW todo, Becomes(p, g, "copy", left, held, todo)
          PROVE  /\ work'[p][g].held = held /\ work'[p][g].todo = todo
                 /\ Current(p, g)' = Current(p, g)
      <4>1. work'[p][g].left = left /\ work'[p][g].held = held /\ work'[p][g].todo = todo
        BY <2>1, <3>3
      <4> QED
        BY <1>1, <4>1, FirstStays
    <3>4. ASSUME NEW f \in work[p][g].todo, Completes(p, g, f)
          PROVE  /\ work'[p][g].held = held /\ Current(p, g)' = Current(p, g)
                 /\ work'[p][g].todo = work[p][g].todo \ {f}
                 /\ f \in Offered(d, held) /\ Place(d, f) \notin gone'
                 /\ Replaces(p, g) => disk'[Place(d, f)] = ContentAt(d, held, f)
      <4> PICK todo : todo = work[p][g].todo \ {f}
        OBVIOUS
      <4>1. Becomes(p, g, "copy", left, held, todo) /\ f \in Offered(d, held)
        BY <3>4 DEF Completes
      <4>2. CASE Lands(p, g, f)
        <5>1. disk'[Place(d, f)] = ContentAt(d, held, f)
          BY <1>3, <3>1, <4>2, LandsTyped
        <5>2. Place(d, f) \notin gone'
          BY <4>2 DEF Lands
        <5> QED
          BY <3>3, <4>1, <5>1, <5>2
      <4>3. CASE ~Lands(p, g, f)
        <5>1. IsFile(Place(d, f)) /\ ~Replaces(p, g) /\ gone' = gone
          BY <3>4, <4>3 DEF Completes
        <5> QED
          BY <3>3, <4>1, <5>1 DEF IsFile, There
      <4> QED
        BY <4>2, <4>3
    <3>5. ASSUME NEW f \in work[p][g].todo, Opening(p, g, f)
          PROVE  /\ work'[p][g].held = held /\ Current(p, g)' = Current(p, g)
                 /\ work'[p][g].todo = work[p][g].todo
      BY <3>3, <3>5 DEF Opening
    <3>6. \/ \E f \in work[p][g].todo : Completes(p, g, f)
          \/ \E f \in work[p][g].todo : Opening(p, g, f)
      BY <1>3, <2>5, <3>2, FillsDo
    <3> QED
      BY <1>3, <3>1, <3>4, <3>5, <3>6
  <2> QED
    BY <2>2, <2>4, <2>5
<1> QED
  BY <1>2, <1>3, WorkIs

LEMMA FreshStep ==
  Typed /\ Helds /\ Charts /\ Copies /\ Fetches /\ Accounts /\ Fresh /\ [Next]_vars => Fresh'
<1> SUFFICES ASSUME Typed, Helds, Charts, Copies, Fetches, Accounts, Fresh, [Next]_vars,
                    NEW p \in Process', run'[p].phase = "fetch", NEW i \in Items(p)',
                    NEW d, d = Item(p, i)', Lone(p, d)', Undisturbed(d)'
             PROVE  FreshOf(p, i)'
  BY DEF Fresh
<1>1. project' = project /\ Grows /\ disturbed \subseteq disturbed'
  BY ProjectStays, TreeGrows, DisturbedGrows
<1>2. p \in Process /\ i \in Items(p) /\ Item(p, i) = d /\ Lone(p, d) /\ Undisturbed(d)
  BY <1>1 DEF Process, Items, Item, Alone, Own, Lone, Undisturbed
<1> PICK g : g = GroupOf(d)
  OBVIOUS
<1>3. ASSUME run[p].phase = "fetch" PROVE FreshOf(p, i)
  BY <1>2, <1>3 DEF Fresh
<1>4. ASSUME NEW f \in Part(d), Place(d, f) \in DOMAIN disk, g \in DOMAIN work[p],
             disk[Place(d, f)].at >= work[p][g].held.at
      PROVE  disk'[Place(d, f)].at >= work[p][g].held.at
  <2> PICK q : q = Place(d, f)
    OBVIOUS
  <2>1. Within(d.dest, q)
    <3>1. d.dest \in Path /\ d.sub \in AnyPath /\ f \in Path
      BY <1>2, ItemIs, PartIs DEF Typed
    <3> QED
      BY <3>1, PlaceIs DEF Within
  <2> QED
    BY <1>2, <1>4, <2>1, FreshStays
<1> DEFINE NewAt(q) == /\ q \notin gone'
                       /\ Forced(p, i, run[p].flags) => disk'[q].at >= work'[p][g].held.at
<1>5. ASSUME i \in run'[p].fetched
      PROVE  /\ g \in DOMAIN work'[p] /\ work'[p][g].step \in {"next", "copy", "ended"}
             /\ \A f \in Part(d) : NewAt(Place(d, f))
  <2>1. /\ run[p].phase = "fetch" /\ run'[p].flags = run[p].flags
        /\ i \in run[p].fetched \/ \E h \in DOMAIN work[p] : Copied(p, h) /\ i = Current(p, h)
    BY <1>2, <1>5, FetchedAre
  <2>2. FreshOf(p, i)
    BY <1>3, <2>1
  <2>3. CASE i \in run[p].fetched
    <3>1. /\ g \in DOMAIN work[p] /\ work[p][g].step \in {"next", "copy", "ended"}
          /\ \A f \in Part(d) : FreshAt(p, i, Place(d, f))
      BY <1>2, <2>2, <2>3 DEF FreshOf
    <3>2. /\ g \in DOMAIN work'[p] /\ work'[p][g].step \in {"next", "copy", "ended"}
          /\ work'[p][g].held.at = work[p][g].held.at
      BY <1>2, <3>1, HeldAtStays
    <3>3. \A f \in Part(d) : Place(d, f) \in DOMAIN disk
      BY <1>2, <2>1, <2>3 DEF Fetches, Has
    <3>4. ASSUME NEW f \in Part(d) PROVE NewAt(Place(d, f))
      <4>1. FreshAt(p, i, Place(d, f))
        BY <3>1
      <4>2. Place(d, f) \notin gone'
        BY <1>2, <2>1, <2>3, <4>1, FetchedStays DEF FreshAt
      <4>3. Forced(p, i, run[p].flags) => disk'[Place(d, f)].at >= work[p][g].held.at
        BY <1>2, <1>4, <3>1, <3>3, <4>1 DEF FreshAt
      <4> QED
        BY <3>2, <4>2, <4>3
    <3> QED
      BY <3>2, <3>4
  <2>4. ASSUME NEW h \in DOMAIN work[p], Copied(p, h), i = Current(p, h)
        PROVE  /\ g \in DOMAIN work'[p] /\ work'[p][g].step \in {"next", "copy", "ended"}
               /\ \A f \in Part(d) : NewAt(Place(d, f))
    <3> PICK held, left : held = work[p][h].held /\ left = work[p][h].left \ {Current(p, h)}
      OBVIOUS
    <3>5. /\ work[p][h].step = "copy" /\ work[p][h].todo = {} /\ work[p][h].left # {}
          /\ Becomes(p, h, "next", work[p][h].left \ {Current(p, h)}, work[p][h].held, {})
          /\ UNCHANGED tree
      BY <1>2, <2>4, CopiedDoes
    <3>1. /\ work[p][h].step = "copy" /\ work[p][h].todo = {} /\ work[p][h].left # {}
          /\ Becomes(p, h, "next", left, held, {}) /\ disk' = disk /\ gone' = gone
      BY <3>5 DEF tree
    <3>2. h = g
      BY <1>2, <2>4, <3>1, CurrentIs
    <3>3. \A f \in Part(d) : FreshAt(p, i, Place(d, f))
      BY <1>2, <2>2, <2>4, <3>1, <3>2 DEF FreshOf
    <3>4. g \in DOMAIN work'[p] /\ work'[p][g].step = "next" /\ work'[p][g].held = held
      BY <3>1, <3>2 DEF Becomes
    <3> QED
      BY <1>2, <3>1, <3>2, <3>3, <3>4 DEF FreshAt
  <2> HIDE DEF NewAt
  <2> QED
    BY <2>1, <2>3, <2>4
<1>6. ASSUME g \in DOMAIN work'[p], work'[p][g].step = "copy", i = Current(p, g)',
             NEW f \in Part(d) \ work'[p][g].todo
      PROVE  NewAt(Place(d, f))
  <2> PICK e : e = First(p, g)
    OBVIOUS
  <2>1. /\ g \in DOMAIN work[p] /\ work[p][g].left # {} /\ i = Current(p, g)
        /\ \/ /\ work[p][g].step = "next"
              /\ work'[p][g].todo = Under(Offered(e, Checkout(e, work[p][g].held)), e.sub)
           \/ /\ work[p][g].step = "copy" /\ work'[p][g].held = work[p][g].held
              /\ work'[p][g].todo = work[p][g].todo
           \/ /\ work[p][g].step = "copy" /\ work'[p][g].held = work[p][g].held
              /\ \E y \in work[p][g].todo :
                    /\ work'[p][g].todo = work[p][g].todo \ {y}
                    /\ y \in Offered(e, work[p][g].held)
                    /\ Place(e, y) \notin gone'
                    /\ Replaces(p, g) =>
                          disk'[Place(e, y)] = ContentAt(e, work[p][g].held, y)
    BY <1>2, <1>6, CopyIs
  <2>2. e = d
    BY <1>2, <2>1, CurrentIs
  <2>3. ASSUME work[p][g].step = "next",
               work'[p][g].todo = Under(Offered(e, Checkout(e, work[p][g].held)), e.sub)
        PROVE  FALSE
    <3>1. /\ p \in Process /\ g \in DOMAIN work[p] /\ work[p][g].left # {} /\ e = First(p, g)
          /\ Undisturbed(e) /\ f \in Part(e)
      BY <1>2, <1>6, <2>1, <2>2
    <3>2. Part(e) \subseteq Under(Offered(e, Checkout(e, work[p][g].held)), e.sub)
      BY <2>3, <3>1, PartIsOffered
    <3> QED
      BY <1>6, <2>3, <3>1, <3>2
  <2>4. work[p][g].step = "copy" /\ work'[p][g].held = work[p][g].held
    BY <2>1, <2>3
  <2>5. run[p].phase = "fetch" /\ run'[p].flags = run[p].flags
    BY <1>2, <2>1, AtWork, FetchedAre
  <2>6. FreshOf(p, i)
    BY <1>3, <2>5
  <2>7. ASSUME f \notin work[p][g].todo PROVE NewAt(Place(d, f))
    <3>1. FreshAt(p, i, Place(d, f))
      BY <1>2, <2>1, <2>4, <2>6, <2>7 DEF FreshOf
    <3>2. CopiesAt(d, work[p][g].held, work[p][g].todo)
      <4>1. p \in Process /\ g \in DOMAIN work[p] /\ work[p][g].step = "copy"
        BY <1>2, <2>1, <2>4
      <4>2. CopiesAt(First(p, g), work[p][g].held, work[p][g].todo)
        BY <4>1 DEF Copies
      <4> QED
        BY <2>2, <4>2
    <3>3. Place(d, f) \in DOMAIN disk
      BY <1>2, <2>7, <3>2 DEF CopiesAt
    <3>4. Place(d, f) \notin gone'
      BY <1>2, <2>1, <2>4, <2>7, <3>1, CopiedStays DEF FreshAt
    <3>5. Forced(p, i, run[p].flags) => disk'[Place(d, f)].at >= work[p][g].held.at
      BY <1>2, <1>4, <2>1, <3>1, <3>3 DEF FreshAt
    <3> QED
      BY <2>4, <3>4, <3>5
  <2>8. ASSUME f \in work[p][g].todo PROVE NewAt(Place(d, f))
    <3>1. /\ f \in Offered(e, work[p][g].held) /\ Place(e, f) \notin gone'
          /\ Replaces(p, g) => disk'[Place(e, f)] = ContentAt(e, work[p][g].held, f)
      BY <1>6, <2>1, <2>3, <2>8
    <3>2. ContentAt(e, work[p][g].held, f).at >= work[p][g].held.at
      <4>1. /\ p \in Process /\ g \in DOMAIN work[p] /\ Undisturbed(First(p, g))
            /\ work[p][g].step = "copy" /\ work[p][g].left # {}
            /\ f \in Offered(First(p, g), work[p][g].held)
        BY <1>2, <2>1, <2>2, <2>4, <3>1
      <4>2. ContentAt(First(p, g), work[p][g].held, f).at >= work[p][g].held.at
        BY <4>1, ContentIsFresh
      <4> QED
        BY <4>2
    <3>3. Forced(p, i, run[p].flags) => Replaces(p, g)
      BY <2>1 DEF Replaces
    <3> QED
      BY <2>2, <2>4, <3>1, <3>2, <3>3
  <2> QED
    BY <2>7, <2>8
<1>7. Item(p, i)' = d /\ Part(d)' = Part(d) /\ \A f : Place(d, f)' = Place(d, f)
  BY DEF Part, Place
<1>8. ASSUME NEW q, NewAt(q), run[p].phase = "fetch", run'[p].flags = run[p].flags
      PROVE  FreshAt(p, i, q)'
  BY <1>1, <1>7, <1>8 DEF FreshAt, Forced, Item
<1>9. i \in run'[p].fetched \/ g \in DOMAIN work[p] => run[p].phase = "fetch" /\ run'[p].flags = run[p].flags
  BY <1>2, AtWork, FetchedAre
<1>10. g \in DOMAIN work'[p] /\ work'[p][g].step = "copy" => g \in DOMAIN work[p]
  BY <1>2, WorkIs
<1> HIDE DEF NewAt
<1> QED
  BY <1>5, <1>6, <1>7, <1>8, <1>9, <1>10 DEF FreshOf

(* The inductive invariant.                                                *)
Inv ==
  /\ Typed /\ Helds /\ Arrives /\ Accounts /\ Charts
  /\ Copies /\ Rights /\ Fetches /\ Fresh /\ GoneIs /\ PresentFull

LEMMA InvInit == Init => Inv
<1> SUFFICES ASSUME Init PROVE Inv
  OBVIOUS
<1>1. Typed /\ Helds /\ Arrives /\ Accounts /\ Charts
  BY TypedInit, AccountsInit, ChartsInit
<1>2. /\ \A p \in Process : run[p].phase # "fetch" /\ DOMAIN work[p] = {}
      /\ DOMAIN disk = {} /\ dirs = {}
  BY DEF Init, Idle, NoWork
<1>3. Copies /\ Rights /\ Fetches /\ Fresh
  BY <1>2 DEF Copies, Rights, Fetches, Fresh
<1>4. GoneIs /\ PresentFull
  BY <1>2, WritingInit DEF PresentFull, Found
<1> QED
  BY <1>1, <1>3, <1>4 DEF Inv

LEMMA InvStep == Inv /\ [Next]_vars => Inv'
BY TypedStep, HeldsStep, ArrivesStep, AccountsStep, ChartsStep, CopiesStep, RightsStep,
   FetchesStep, FreshStep, GoneStep, PresentStep DEF Inv

LEMMA InvIsRight ==
  ASSUME Inv, NEW p \in Process, NEW i \in Items(p), NEW d, d = Item(p, i),
         Alone(d), d.kind = "git" => AskedRef(d) # NoRef,
         \A f \in Part(d) : Place(d, f) \in DOMAIN disk
  PROVE  Right(d)
<1> SUFFICES ASSUME NEW f \in Part(d), NEW q, q = Place(d, f)
             PROVE  disk[q].source = d.source /\ disk[q].path = f /\ disk[q].ref = AskedRef(d)
  BY DEF Right
<1>1. /\ d.dest \in Path /\ d.sub \in AnyPath /\ Declared(d) /\ f \in Path
      /\ IsStrictPrefix(d.sub, f)
  BY ItemIs, PartIs DEF Inv, Typed, Part, Under
<1>2. q \in DOMAIN disk /\ Within(d.dest, q)
  BY <1>1, PlaceIs DEF Within
<1>3. RightAt(d, q, disk[q])
  BY <1>2 DEF Inv, Rights
<1>4. PICK h \in Path :
         /\ IsStrictPrefix(d.sub, h) /\ (d.kind = "http" => h \in FilesOf[d.source])
         /\ q = Place(d, h) /\ disk[q].source = d.source /\ disk[q].path = h
         /\ disk[q].ref = AskedRef(d)
  BY <1>3 DEF RightAt
<1>5. h = f
  BY <1>1, <1>4, OnePlace
<1> QED
  BY <1>4, <1>5

(* Where only this process copies, what it has fetched is there.           *)
LEMMA InvIsWhole ==
  ASSUME Inv, NEW p \in Process, run[p].phase = "fetch", NEW i \in Items(p), NEW d, d = Item(p, i),
         i \in run[p].fetched, Undisturbed(d), Lone(p, d)
  PROVE  /\ Whole(d)
         /\ Forced(p, i, run[p].flags) =>
               \A f \in Part(d) : disk[Place(d, f)].at >= work[p][GroupOf(d)].held.at
<1>1. Has(d) /\ FreshOf(p, i)
  BY DEF Inv, Fetches, Fresh
<1>2. \A f \in Part(d) : Place(d, f) \in There /\ FreshAt(p, i, Place(d, f))
  BY <1>1 DEF Has, FreshOf, FreshAt, There
<1>3. d.dest \in Path /\ Declared(d)
  BY ItemIs DEF Inv, Typed
<1>4. d.dest \in dirs \cup There
  <2>1. CASE Plain(d)
    <3>1. d.kind = "http" /\ ~d.unpack /\ d.sub = << >> /\ ~d.modules
      BY <1>3, <2>1 DEF Plain, Declared
    <3>2. PICK f : f \in FilesOf[d.source] /\ f \in Path
      BY <1>3, <3>1, ItemIs DEF Inv, Typed, Declared
    <3>3. << >> \in AnyPath /\ f \in AnyPath /\ f # << >> /\ Len(<< >>) = 0 /\ Len(f) \in Nat
      BY <3>2 DEF Path, AnyPath
    <3>4. IsPrefix(<< >>, f)
      BY <3>3, PrefixIs
    <3>5. f \in Part(d)
      BY <3>1, <3>2, <3>3, <3>4 DEF Part, Under, IsStrictPrefix
    <3> QED
      BY <1>2, <2>1, <3>5 DEF Place
  <2>2. CASE ~Plain(d)
    BY <1>1, <2>2 DEF Has, Arrived
  <2> QED
    BY <2>1, <2>2
<1>5. Exists(d.dest)
  BY <1>3, <1>4, PrefixOfItself DEF Exists, Within, Path, AnyPath
<1> QED
  BY <1>2, <1>5 DEF Whole, IsFile, FreshAt

LEMMA InvAnswer == Inv => FilesAreWhole
<1> SUFFICES ASSUME Inv PROVE FilesAreWhole
  OBVIOUS
<1>1. ChartsAreWhole /\ PresentIsWhole
  BY ChartsAnswer, PresentAnswer DEF Inv
<1>2. ASSUME NEW p \in Process, Over(p), NEW i \in run[p].fetched, NEW d, d = Item(p, i),
             Undisturbed(d)
      PROVE  /\ \A f \in Part(d) : Place(d, f) \in DOMAIN disk
             /\ Alone(d) /\ (d.kind = "git" => AskedRef(d) # NoRef) => Right(d)
             /\ Alone(d) /\ Own(p, d) =>
                   /\ Whole(d)
                   /\ Forced(p, i, run[p].flags) =>
                         \A f \in Part(d) : disk[Place(d, f)].at >= work[p][GroupOf(d)].held.at
  <2>1. run[p].phase = "fetch" /\ AccountsOf(p)
    BY <1>2 DEF Over, Inv, Accounts
  <2>2. i \in Items(p)
    BY <1>2, <2>1 DEF AccountsOf, Firsts, Candidate
  <2>3. \A f \in Part(d) : Place(d, f) \in DOMAIN disk
    BY <1>2, <2>1 DEF Inv, Fetches, Has
  <2>4. Alone(d) /\ (d.kind = "git" => AskedRef(d) # NoRef) => Right(d)
    BY <1>2, <2>2, <2>3, InvIsRight
  <2> QED
    BY <1>2, <2>1, <2>2, <2>3, <2>4, InvIsWhole DEF Lone
<1> QED
  BY <1>1, <1>2 DEF FilesAreWhole, FetchedIsWhole

(* What a run reports as fetched, passes over as present or takes from the *)
(* chart cache is there as a whole, is what was asked for where no other   *)
(* item writes, and is, when forced, no older than what the run pulled,    *)
(* whatever fails, is interrupted or runs at the same time: FilesAreWhole. *)
THEOREM FilesAreAlwaysWhole == Spec => []FilesAreWhole
BY InvInit, InvStep, InvAnswer, PTL DEF Spec
===============================================================================
