----------------------------- MODULE ClassPaths -----------------------------
(***************************************************************************)
(* How krab-inventory turns the names of an inventory into paths: the      *)
(* files a class name may stand for and the order they are tried in, the   *)
(* class names a wildcard entry expands to, and the targets a set of       *)
(* target files declares (crates/krab-inventory/src/inventory.rs).         *)
(*                                                                         *)
(* A path is [at |-> <<component, ...>>, ext |-> extension], relative to   *)
(* the inventory root; a directory has no extension.  A class name is the  *)
(* sequence of its dotted components, so a relative name `.a' is <<"",     *)
(* "a">>.  `exists' is always the set of paths that are regular files.     *)
(***************************************************************************)
EXTENDS Naturals, Sequences, SequencesExt

CONSTANTS
    NameOrder,            \* the class names, in the order Rust sorts them
    ComposeTargetName,    \* kapitan's compose-target-name
    ClassWildcards,       \* kapitan's enable-class-wildcards
    IgnoreClassNotFound,  \* kapitan's ignore-class-not-found
    NoPath                \* "no file"

Dir(at) == [at |-> at, ext |-> ""]
File(at, ext) == [at |-> at, ext |-> ext]

ClassesDir == Dir(<<"classes">>)
TargetsDir == Dir(<<"targets">>)

(* Path::ancestors: the path itself and every directory above it. *)
Above(p) == {p} \cup {Dir(SubSeq(p.at, 1, n)) : n \in 0 .. Len(p.at) - 1}

Under(p, dir) == dir \in Above(p)

IsYaml(p) == p.ext \in {"yml", "yaml"}

-----------------------------------------------------------------------------
(* Class names. *)

Joined(base, parts) == base \o SelectSeq(parts, LAMBDA c : c # "")

BaseDir(name, from) == IF name[1] = "" THEN Front(from.at) ELSE ClassesDir.at

(* The candidates of a class name, in the order they are tried: the two    *)
(* documented places, then the same two with the first two components of   *)
(* the name dropped (reclass compatibility); `.yml' before `.yaml'.        *)
Candidates(name, from) ==
    LET base   == BaseDir(name, from)
        full   == Joined(base, name)
        compat == Joined(base, SubSeq(name, 3, Len(name)))
        With(ext) == << File(Append(full, "init"), ext), File(full, ext),
                        File(compat, ext), File(Append(compat, "init"), ext) >>
    IN  With("yml") \o With("yaml")

(* The first candidate that is a file, and every candidate looked at on    *)
(* the way to it (all of them when none is).                               *)
FirstHit(tried, exists) ==
    LET Hits == {i \in DOMAIN tried : tried[i] \in exists}
    IN  IF Hits = {} THEN 0 ELSE CHOOSE i \in Hits : \A j \in Hits : i <= j

(* Slips: report only the paths that missed, or only the one found.        *)
ResolveMisses(name, from, exists) ==
    LET tried == Candidates(name, from)
        first == FirstHit(tried, exists)
    IN  IF first = 0
        THEN [found |-> NoPath, tried |-> ToSet(tried)]
        ELSE [found |-> tried[first], tried |-> ToSet(SubSeq(tried, 1, first - 1))]

ResolveHit(name, from, exists) ==
    LET tried == Candidates(name, from)
        first == FirstHit(tried, exists)
    IN  IF first = 0
        THEN [found |-> NoPath, tried |-> ToSet(tried)]
        ELSE [found |-> tried[first], tried |-> {tried[first]}]

Resolve(name, from, exists) ==
    LET tried == Candidates(name, from)
        first == FirstHit(tried, exists)
    IN  IF first = 0
        THEN [found |-> NoPath, tried |-> ToSet(tried)]
        ELSE [found |-> tried[first], tried |-> ToSet(SubSeq(tried, 1, first))]

-----------------------------------------------------------------------------
(* Wildcard class entries. *)

IsPattern(name) == \E i \in DOMAIN name : name[i] = "*"

(* fnmatch on whole dotted names, `*' standing for any run of components.  *)
Fnmatch(pattern, name) ==
    LET m[i \in 1 .. Len(pattern) + 1, j \in 1 .. Len(name) + 1] ==
            IF i > Len(pattern) THEN j > Len(name)
            ELSE IF pattern[i] = "*"
                 THEN \E k \in j + 1 .. Len(name) + 1 : m[i + 1, k]
                 ELSE j <= Len(name) /\ name[j] = pattern[i] /\ m[i + 1, j + 1]
    IN  m[1, 1]

(* kapitan's discover_classes: `a/init.yml' is `a', a top-level `init.yml' *)
(* is `init'.                                                              *)
ClassNameOf(p) ==
    LET parts == Tail(p.at)
    IN  IF Len(parts) > 1 /\ Last(parts) = "init" THEN Front(parts) ELSE parts

ClassFiles(exists) == {p \in exists : IsYaml(p) /\ Under(p, ClassesDir)}

Available(exists) == {ClassNameOf(p) : p \in ClassFiles(exists)}

MatchesOf(pattern, available) ==
    FlattenSeq([i \in DOMAIN NameOrder |->
        IF NameOrder[i] \in available /\ Fnmatch(pattern, NameOrder[i])
        THEN << NameOrder[i] >> ELSE << >>])

HasPatterns(refs) == ClassWildcards /\ \E i \in DOMAIN refs : IsPattern(refs[i])

(* An entry that names an existing class stays as it is written. *)
Literal(name, available) == ~IsPattern(name) \/ name \in available

(* An entry that matches nothing fails the file that lists it. *)
PatternsFail(refs, exists) ==
    LET available == Available(exists) IN
    /\ HasPatterns(refs)
    /\ ~IgnoreClassNotFound
    /\ \E i \in DOMAIN refs :
          ~Literal(refs[i], available) /\ MatchesOf(refs[i], available) = <<>>

(* Each pattern is replaced in place by its sorted matches ...             *)
Expansion(refs, available) ==
    FlattenSeq([i \in DOMAIN refs |->
        IF Literal(refs[i], available) THEN << refs[i] >> ELSE MatchesOf(refs[i], available)])

(* ... and a name that is already there is dropped; a slip would keep it.  *)
FirstOnes(names) ==
    FlattenSeq([i \in DOMAIN names |->
        IF \E j \in 1 .. i - 1 : names[j] = names[i] THEN << >> ELSE << names[i] >>])

ExpandPatternsTwice(refs, exists) ==
    IF HasPatterns(refs) THEN Expansion(refs, Available(exists)) ELSE refs

ExpandPatterns(refs, exists) ==
    IF HasPatterns(refs) THEN FirstOnes(Expansion(refs, Available(exists))) ELSE refs

-----------------------------------------------------------------------------
(* Targets. *)

TargetFiles(exists) == {p \in exists : IsYaml(p) /\ Under(p, TargetsDir)}

TargetName(p) == IF ComposeTargetName THEN Tail(p.at) ELSE << Last(p.at) >>

TargetSpec(p) == [name |-> TargetName(p), file |-> p]

(* Two target files of one name are an error; the daemon replaces every    *)
(* discovery error by an empty list.                                       *)
Discovered(exists) ==
    LET files == TargetFiles(exists)
    IN  IF \E p, q \in files : p # q /\ TargetName(p) = TargetName(q)
        THEN {} ELSE {TargetSpec(p) : p \in files}
=============================================================================
