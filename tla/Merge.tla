-------------------------------- MODULE Merge ---------------------------------
(***************************************************************************)
(* Merging of parameter trees (merge.rs), and the merge of the `write'     *)
(* resolver (resolvers/mod.rs).                                            *)
(***************************************************************************)
EXTENDS Values

CONSTANT
  Deref(_, _)   \* Deref(root, path): what the text at path stands for in root,
                \* "unresolved" when it cannot be told (MergeDeref)

Unresolved == [t |-> "unresolved"]

ExtendedAlways(dest, src, mode) == List(Items(dest) \o Items(src))   \* (mutant: equal items too)

(* list <- list: append what is not there yet, or everything *)
Extended(dest, src, mode) ==
  LET Add(acc, item) ==
        IF mode = "extend" \/ \A i \in DOMAIN acc : ~PyEq(acc[i], item)
        THEN Append(acc, item) ELSE acc
  IN List(FoldLeft(Add, Items(dest), Items(src)))

(* merge_at: the tree after src is merged into the node at path. *)
RECURSIVE MergeAt(_, _, _, _)
MergeAt(root, path, src, mode) ==
  LET dest == At(root, path)
      Entry(acc, k) ==
        IF k \in DOMAIN At(acc, path).of
        THEN MergeAt(acc, Append(path, k), src.of[k], mode)
        ELSE Put(acc, path, With(At(acc, path), k, src.of[k]))
      Over(found) ==
        IF IsContainer(found) THEN MergeAt(Put(root, path, found), path, src, mode)
        ELSE Put(root, path, src)
  IN CASE dest.t = "map" /\ src.t = "map" -> FoldLeft(Entry, root, src.keys)
       [] dest.t = "list" /\ src.t = "list" -> Put(root, path, Extended(dest, src, mode))
       [] HasText(dest) /\ IsContainer(src) -> Over(Deref(root, path))
       [] src = Missing -> root
       [] OTHER -> Put(root, path, src)

Merged(dest, src, mode) == MergeAt(dest, <<>>, src, mode)

(* merge_into: mappings merge, other values replace; "mismatch" when a      *)
(* mapping and a list meet.                                                 *)
Mismatch == [t |-> "mismatch"]
RECURSIVE MergeInto(_, _)
MergeInto(dest, src) ==
  LET Entry(acc, k) ==
        LET v == IF k \in DOMAIN acc.of THEN MergeInto(acc.of[k], src.of[k]) ELSE src.of[k]
        IN IF acc = Mismatch \/ v = Mismatch THEN Mismatch ELSE With(acc, k, v)
  IN CASE dest.t = "map" /\ src.t = "map" -> FoldLeft(Entry, dest, src.keys)
       [] {dest.t, src.t} = {"map", "list"} -> Mismatch
       [] src = Missing -> dest
       [] OTHER -> src
=============================================================================
