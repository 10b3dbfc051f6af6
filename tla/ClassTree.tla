------------------------------- MODULE ClassTree -------------------------------
(***************************************************************************)
(* An inventory whose files come and go, one at a time, and what its names *)
(* mean in each state: the properties of ClassPaths that the daemon relies *)
(* on when it decides what a new or a removed file can affect.             *)
(***************************************************************************)
EXTENDS ClassPaths, FiniteSets

CONSTANTS
    Universe,   \* the files that may exist
    ClassRefs,  \* class names as they are written in a file
    Includers,  \* the files that list them
    ClassLists  \* whole `classes' lists, patterns included

ASSUME TreeAssumption ==
    /\ \A p \in Universe : p.at \in Seq(STRING)
    /\ NameOrder \in Seq(Seq(STRING)) /\ ClassLists \subseteq Seq(Seq(STRING))

VARIABLE exists

InitTree == exists = {}

Create(p) == p \notin exists /\ exists' = exists \cup {p}
Delete(p) == p \in exists /\ exists' = exists \ {p}

NextTree == \E p \in Universe : Create(p) \/ Delete(p)

TreeSpec == InitTree /\ [][NextTree]_exists

-----------------------------------------------------------------------------
(* The probes of a render are what invalidation looks at: as long as none  *)
(* of the paths tried for a class name changes, the name resolves to the   *)
(* same file and the same paths are tried.                                 *)
ProbesDecide ==
    [][ \A n \in ClassRefs, from \in Includers :
          LET r == Resolve(n, from, exists)
          IN  exists' \cap r.tried = exists \cap r.tried =>
                 Resolve(n, from, exists') = r ]_exists

(* A file that is tried before another takes its place when it appears,    *)
(* and gives it back when it disappears: whatever the order of the events, *)
(* the name means the first existing candidate.                            *)
ShadowingIsReversible ==
    \A n \in ClassRefs, from \in Includers, p \in Universe \ exists :
        LET before == Resolve(n, from, exists)
            after  == Resolve(n, from, exists \cup {p})
        IN  after.found \in {before.found, p}
            /\ (after.found = p /\ before.found # NoPath => p \in before.tried)
            /\ after.tried \subseteq before.tried

(* An expanded list names a class once, loses no literal entry, and        *)
(* expanding it again changes nothing: the closure of a class is the same  *)
(* whether a pattern or its matches are written down.                      *)
ExpansionSettles ==
    \A refs \in ClassLists :
        LET names == ExpandPatterns(refs, exists)
        IN  HasPatterns(refs) =>
              /\ Cardinality(ToSet(names)) = Len(names)
              /\ \A i \in DOMAIN refs : ~IsPattern(refs[i]) => Contains(names, refs[i])
              /\ \A n \in ToSet(names) : ~IsPattern(n)
              /\ ExpandPatterns(names, exists) = names

=============================================================================
