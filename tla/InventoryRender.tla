--------------------------- MODULE InventoryRender ---------------------------
(***************************************************************************)
(* Rendering targets from files that change underneath: the two caches of  *)
(* krab-inventory's `Inventory' (parsed files by path, class closures by   *)
(* class file), and render_many, which renders a set of targets in         *)
(* parallel.  A render is the recursive loader build_closure, one stack    *)
(* frame per file being loaded, so renders of several targets interleave   *)
(* with each other and with edits (crates/krab-inventory/src/inventory.rs).*)
(*                                                                         *)
(* Merging is abstract: a closure keeps the tree of documents merged into  *)
(* it, in order, and a render is right when its tree is the one the files  *)
(* on disk give.  `files' maps the files read to the content read (the     *)
(* digest of a RenderedTarget); `probes' maps the paths probed to what was *)
(* seen there, which the code does not keep and only properties read.      *)
(***************************************************************************)
EXTENDS ClassPaths, FiniteSets

CONSTANTS
    Path,      \* the inventory's file paths, symlinks included
    Real,      \* path -> where its content is (itself unless a symlink)
    Document,  \* file contents: [classes, kind, body]
    Absent     \* no such file

(* A render that ends in an error. *)
Failed == [failed |-> TRUE]

ASSUME PathAssumption ==
    /\ \A p \in Path : p.at \in Seq(STRING) /\ p.ext # ""
    /\ Real \in [Path -> Path]
    /\ IsFiniteSet(Path)
    /\ NoPath \notin Path /\ NoPath # Failed

VARIABLES
    disk,      \* real path -> content, or Absent
    files,     \* Inventory.files: path -> parsed content
    closures,  \* Inventory.closures: class file -> closure
    queue,     \* targets of this pass not started yet
    stack,     \* target -> frames of its loader, while it renders
    report     \* target -> outcome, for the targets done in this pass

renderVars == << files, closures, queue, stack, report >>

EmptyMap == << >>
Put(f, x, v) == [y \in DOMAIN f \cup {x} |-> IF y = x THEN v ELSE f[y]]
Join(f, g) ==
    [y \in DOMAIN f \cup DOMAIN g |-> IF y \in DOMAIN f THEN f[y] ELSE g[y]]

-----------------------------------------------------------------------------
(* The file system as the loader sees it. *)

Content(d, p) == d[Real[p]]
Existing(d) == {p \in Path : Content(d, p) # Absent}

(* What a probe of `p' sees: the YAML files at or below it. *)
Look(d, p) == {q \in Existing(d) : IsYaml(q) /\ Under(q, p)}
Looks(d, P) == [p \in P |-> Look(d, p)]

Loads(doc) == doc # Absent /\ doc.kind # "malformed"

(* A closure whose evaluation fails after it was merged. *)
Evaluates(docs) == \A f \in DOMAIN docs : docs[f].kind # "unresolvable"

-----------------------------------------------------------------------------
(* Caches. *)

(* invalidate_dependents: by content, or by a probed path at or above a    *)
(* changed one; a slip would forget that a directory was probed.           *)
DependsOnExactly(c, paths) == (DOMAIN c.files \cup DOMAIN c.probes) \cap paths # {}

DependsOn(c, paths) ==
    \/ DOMAIN c.files \cap paths # {}
    \/ \E p \in paths, f \in DOMAIN c.probes : Under(p, f)

(* invalidate_under: anything below one of the directories. *)
LiesUnder(c, dirs) ==
    \E f \in DOMAIN c.files \cup DOMAIN c.probes, d \in dirs : Under(f, d)

Invalidate(paths, dirs) ==
    /\ closures' = RestrictDomain(closures, LAMBDA f :
                       ~DependsOn(closures[f], paths) /\ ~LiesUnder(closures[f], dirs))
    /\ files' = RestrictDomain(files, LAMBDA f :
                       f \notin paths /\ \A d \in dirs : ~Under(f, d))

-----------------------------------------------------------------------------
(* The loader. *)

(* The text `load' works on: the cached document, else what is on disk. *)
Loaded(p) == IF p \in DOMAIN files THEN files[p] ELSE Content(disk, p)

Frame(p, doc) ==
    [file    |-> p,
     classes |-> ExpandPatterns(doc.classes, Existing(disk)),
     class   |-> NoPath,
     merged  |-> << >>,
     files   |-> Put(EmptyMap, p, doc),
     probes  |-> IF HasPatterns(doc.classes)
                 THEN Looks(disk, {ClassesDir}) ELSE EmptyMap]

(* The position of the class entry the frame is at: what is merged is in   *)
(* the order of the entries, NoPath standing for an ignored one.           *)
Position(frame) == Len(frame.merged) + 1

Result(frame) ==
    [tree   |-> [file |-> frame.file, doc |-> frame.files[frame.file],
                 classes |-> frame.merged],
     files  |-> frame.files,
     probes |-> frame.probes]

Finished(t, outcome) ==
    /\ stack' = RestrictDomain(stack, LAMBDA u : u # t)
    /\ report' = Put(report, t, outcome)

(* build_closure up to its first class: `load' caches what it could read   *)
(* and parse; an error leaves through every frame of the target.           *)
Enter(t, frames, p) ==
    LET doc == Loaded(p) IN
    /\ files' = IF Loads(doc) THEN Put(files, p, doc) ELSE files
    /\ IF Loads(doc) /\ ~PatternsFail(doc.classes, Existing(disk))
       THEN /\ stack' = Put(stack, t, Append(frames, Frame(p, doc)))
            /\ UNCHANGED report
       ELSE Finished(t, Failed)

Start(spec) ==
    /\ spec \in queue
    /\ queue' = queue \ {spec}
    /\ Enter(spec.name, << >>, spec.file)
    /\ UNCHANGED << disk, closures >>

Top(t) == Last(stack[t])
OnStack(t) == {stack[t][i].file : i \in DOMAIN stack[t]}
WithTop(t, frame) == Put(stack, t, Append(Front(stack[t]), frame))

(* Resolve the next class entry of the file on top of the stack. *)
ResolveNext(t) ==
    /\ t \in DOMAIN stack /\ Top(t).class = NoPath
    /\ Position(Top(t)) \in DOMAIN Top(t).classes
    /\ LET r == Resolve(Top(t).classes[Position(Top(t))], Top(t).file, Existing(disk))
           probed == [Top(t) EXCEPT !.class = r.found,
                                    !.merged = IF r.found = NoPath THEN Append(@, NoPath) ELSE @,
                                    !.probes = Join(@, Looks(disk, r.tried))]
       IN  IF (r.found = NoPath /\ ~IgnoreClassNotFound) \/ r.found \in OnStack(t)
           THEN Finished(t, Failed)
           ELSE stack' = WithTop(t, probed) /\ UNCHANGED report
    /\ UNCHANGED << disk, files, closures, queue >>

(* Merge a class into the frame that includes it. *)
Merge(frame, c) ==
    [frame EXCEPT !.class = NoPath,
                  !.merged = Append(@, c.tree),
                  !.files  = Join(@, c.files),
                  !.probes = Join(@, c.probes)]

(* class_closure: the cached closure of the class, or its own frame. *)
Include(t) ==
    /\ t \in DOMAIN stack /\ Top(t).class # NoPath
    /\ IF Top(t).class \in DOMAIN closures
       THEN /\ stack' = WithTop(t, Merge(Top(t), closures[Top(t).class]))
            /\ UNCHANGED << files, report >>
       ELSE Enter(t, stack[t], Top(t).class)
    /\ UNCHANGED << disk, closures, queue >>

(* All classes of the file are in: a class file's closure is cached and    *)
(* merged below; a target is evaluated and reported.                       *)
Finish(t) ==
    /\ t \in DOMAIN stack /\ Top(t).class = NoPath
    /\ DOMAIN Top(t).merged = DOMAIN Top(t).classes
    /\ LET c == Result(Top(t))
           below == Front(stack[t])
       IN  IF below = << >>
           THEN /\ Finished(t, IF Evaluates(c.files) THEN c ELSE Failed)
                /\ UNCHANGED closures
           ELSE /\ closures' = Put(closures, Top(t).file, c)
                /\ stack' = Put(stack, t, Append(Front(below), Merge(Last(below), c)))
                /\ UNCHANGED report
    /\ UNCHANGED << disk, files, queue >>

Step(t) == ResolveNext(t) \/ Include(t) \/ Finish(t)

Rendering == queue # {} \/ DOMAIN stack # {}

RenderStep == (\E spec \in queue : Start(spec)) \/ (\E t \in DOMAIN stack : Step(t))

(* render_many starts with its targets queued and nothing reported. *)
QueueUp(specs) ==
    /\ queue' = specs
    /\ stack' = EmptyMap
    /\ report' = EmptyMap

-----------------------------------------------------------------------------
(* The reference: what a render with empty caches of unchanging files      *)
(* gives.                                                                  *)

(* The class entries of a file, and what the i-th of them resolves to.     *)
Classes(d, p) == ExpandPatterns(Content(d, p).classes, Existing(d))
Entry(d, p, i) == Resolve(Classes(d, p)[i], p, Existing(d))

Opens(d, p) ==
    Loads(Content(d, p)) /\ ~PatternsFail(Content(d, p).classes, Existing(d))

(* No target that includes p renders. *)
Broken(d, p) ==
    \/ ~Opens(d, p)
    \/ Content(d, p).kind = "unresolvable"
    \/ ~IgnoreClassNotFound /\ \E i \in DOMAIN Classes(d, p) : Entry(d, p, i).found = NoPath

(* The tree of p, the last of the chain of files `seen'; trees[s][q] is    *)
(* the tree of q, for a longer chain s.                                    *)
Subtree(trees, seen, class) ==
    IF class = NoPath THEN NoPath
    ELSE IF class \in seen THEN Failed
    ELSE trees[seen \cup {class}][class]

Tree(d, trees, seen, p) ==
    IF Broken(d, p) THEN Failed ELSE
    LET subs == [i \in DOMAIN Classes(d, p) |->
                     Subtree(trees, seen, Entry(d, p, i).found)]
    IN  IF \E i \in DOMAIN subs : subs[i] = Failed
        THEN Failed
        ELSE [file |-> p, doc |-> Content(d, p), classes |-> subs]

FreshTrees(d) ==
    LET trees[seen \in SUBSET Path] == [p \in Path |-> Tree(d, trees, seen, p)]
    IN  trees

FreshTree(d, file) == FreshTrees(d)[{file}][file]
=============================================================================
