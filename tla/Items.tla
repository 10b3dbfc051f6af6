--------------------------------- MODULE Items ---------------------------------
(***************************************************************************)
(* The compile of one stale target, item by item (crates/krab-compile:     *)
(* native.rs, inputs/, output.rs, runner/kadet_runner.py, and run_one  *)
(* in engine.rs).  A kadet item whose recorded reads are as they were is   *)
(* not evaluated: its previous output is copied.                           *)
(*                                                                         *)
(* `source' maps every name a compile can read to its value: the files of  *)
(* the repository, the keys of the target's document and the documents of  *)
(* the other targets.  A value stands for its digest.  An output file is   *)
(* the sequence of chunks written to it, a chunk saying who wrote it and   *)
(* what it saw.  Installing is one step here (module Compile has it in     *)
(* three), and sources hold still while a compile runs (CMP-EC-8).         *)
(***************************************************************************)
EXTENDS Naturals, FiniteSets, Sequences, SequencesExt

CONSTANTS
    Projects,   \* the projects: [documents, values, backends, max]
    File, Key,  \* the names that can be read, with Others
    Others,     \* the documents of the other targets
    Program,    \* file -> what running or rendering it does
    Settings,   \* the compiler's identities and settings
    Absent, Bad, Late,  \* contents: no such file, fails, fails half way
    Made,               \* content of a new ref
    NoSettings, NoRun

Name == File \cup Key \cup {Others}

(* An item lists `inputs', in order; at least one of each of `paths' is to *)
(* be there.                                                               *)
IsItem(item) ==
    /\ item.type \in {"copy", "jinja2", "helm", "external", "remove", "kadet"}
    /\ item.ignoreMissing \in BOOLEAN /\ item.tolerant \in BOOLEAN /\ item.glob \in BOOLEAN
    /\ item.inputs \in Seq(ToSet(item.inputs)) /\ UNION item.paths \subseteq ToSet(item.inputs)
    /\ item.type # "remove" => ToSet(item.inputs) \subseteq File

(* A program reads `reads' itself, the modules it imports read theirs when *)
(* they load, it writes files named `writes', creates the refs `creates'   *)
(* that are missing, and includes the first file there is of `includes'.   *)
ASSUME ItemsAssumption ==
    /\ DOMAIN Program = File /\ File \cap Key = {} /\ Others \notin File \cup Key
    /\ \A f \in File :
          LET p == Program[f]
          IN  /\ p.reads \subseteq Name /\ p.imports \subseteq File
              /\ p.creates \subseteq File /\ p.includes \in Seq(File) /\ p.writes \in Seq(STRING)
    /\ \A p \in Projects :
          /\ p.max.edits \in Nat /\ DOMAIN p.values \subseteq Name
          /\ \A d \in p.documents : d \in Seq(ToSet(d)) /\ \A i \in DOMAIN d : IsItem(d[i])
    /\ Absent \notin {Bad, Late, Made, "there"} /\ NoSettings \notin Settings

VARIABLES
    project,
    settings, items, source,   \* the sources; `items' is the document's list
    compiled, record,          \* the target's output and its manifest record
    phase, run,                \* the stage of the compile; [force, source, tolerated]
    at, queue,                 \* the item, and its inputs still to compile
    temp, reads,               \* the private tree and the target's reads
    matched, made,             \* previous items matched; item records so far
    evaluator, attempts,       \* [loaded, recorded]; tries of a Python worker
    edits, partial, settled    \* history: no guard but the bound reads them

sources == << project, settings, items, source >>
result == << compiled, record >>
target == << temp, reads, made >>
place == << phase, run, at, queue, attempts >>
history == << edits, partial, settled >>
vars == << sources, result, target, place, matched, evaluator, history >>

Part(f, S) == [x \in S \cap DOMAIN f |-> f[x]]
Over(f, g) == [x \in DOMAIN f \cup DOMAIN g |-> IF x \in DOMAIN g THEN g[x] ELSE f[x]]
EmptyTree == << >>

-----------------------------------------------------------------------------
(* What an input does. *)

(* resolve_input_paths: which inputs exist; `outputs' are the output files *)
(* the search paths reach.                                                 *)
There(item, src, outputs) ==
    IF item.type = "remove" THEN outputs ELSE {f \in File : src[f] # Absent}
Resolved(item, src, outputs) ==
    {k \in DOMAIN item.inputs : item.inputs[k] \in There(item, src, outputs)}
Missing(item, src, outputs) ==
    ~item.ignoreMissing /\ \E p \in item.paths : p \cap There(item, src, outputs) = {}

(* The template loader: the first candidate that exists.                   *)
Included(c, src) ==
    LET files == Program[c].includes
        there == {i \in DOMAIN files : src[files[i]] # Absent}
    IN  {files[i] : i \in {j \in there : \A k \in there : j <= k}}

Own(c) == {c} \cup Program[c].reads \cup Program[c].creates
Loads(modules) == UNION {Own(m) : m \in modules}

(* Everything the output of `c' depends on.                                *)
Sees(c, src) == Own(c) \cup Loads(Program[c].imports) \cup Included(c, src)

(* A ref that is missing is created when the file naming it is written.    *)
WithRefs(c, src) ==
    [n \in DOMAIN src |-> IF n \in Program[c].creates /\ src[n] = Absent THEN Made ELSE src[n]]

(* Writer::to_file and the inputs that write files of their own.  An       *)
(* external command appends to what is there; one that fails late has      *)
(* written its first file.                                                 *)
Names(c, src) ==
    LET w == Program[c].writes
    IN  CASE src[c] = Bad -> {} [] src[c] = Late -> {w[1]} [] OTHER -> ToSet(w)
Chunk(c, n, src) == [by |-> << c, n >>, saw |-> Part(src, Sees(c, src))]
Written(item, c, src, tree) ==
    [x \in {<< item.out, n >> : n \in Names(c, src)} |->
        LET old == IF item.type = "external" /\ x \in DOMAIN tree THEN tree[x] ELSE << >>
        IN  Append(old, Chunk(c, x[2], src))]

Compiled(item, c, src, tree) ==
    IF item.type = "remove" THEN Part(tree, DOMAIN tree \ {c})
    ELSE Over(tree, Written(item, c, WithRefs(c, src), tree))
Fails(item, c, src) ==
    /\ item.type \notin {"copy", "remove"}
    /\ src[c] \in {Bad, Late} \/ (Program[c].includes # << >> /\ Included(c, src) = {})
Leaves(item, c, src) == IF item.type = "remove" \/ Fails(item, c, src) THEN src ELSE WithRefs(c, src)

(* What the target's record will list for an input that is not evaluated:  *)
(* what an external command reads is not observed, and a template that     *)
(* fails has reported its own file only.                                   *)
Observed(item, c, src) ==
    CASE item.type \in {"remove", "external"} -> {}
      [] item.type = "jinja2" /\ Fails(item, c, src) -> {c}
      [] OTHER -> Sees(c, src)

-----------------------------------------------------------------------------
(* A compile from nothing, which the other one must be indistinguishable   *)
(* from: every input of every item in order.                               *)

InputDone(item, c, s) ==
    [going |-> ~Fails(item, c, s.src), src |-> Leaves(item, c, s.src),
     tree |-> Compiled(item, c, s.src, s.tree), reads |-> s.reads \cup Observed(item, c, s.src)]

(* How far an item has come after so many of its inputs.                   *)
Progress(item, s) ==
    LET missing == Missing(item, s.src, DOMAIN s.tree)
        todo == IF missing THEN {} ELSE Resolved(item, s.src, DOMAIN s.tree)
        after[k \in 0 .. Len(item.inputs)] ==
            IF k = 0 THEN [s EXCEPT !.going = ~missing]
            ELSE IF k \in todo /\ after[k - 1].going THEN InputDone(item, item.inputs[k], after[k - 1])
            ELSE after[k - 1]
    IN  after
AllInputs(item, s) == Progress(item, s)[Len(item.inputs)]

ItemDone(item, s) ==
    LET done == AllInputs(item, s)
    IN  IF s.going THEN [done EXCEPT !.going = @ \/ item.tolerant] ELSE s

Nothing(src) == [going |-> TRUE, src |-> src, tree |-> EmptyTree, reads |-> {}]

(* How far it has come after so many items.                                *)
Stages(s) ==
    LET after[n \in 0 .. Len(s.items)] ==
            IF n = 0 THEN Nothing(s.source) ELSE ItemDone(s.items[n], after[n - 1])
    IN  after
FromNothing(s) == Stages(s)[Len(s.items)].tree

-----------------------------------------------------------------------------
(* Staleness of the target. *)

(* TargetPlan::probes: whether each candidate is there, and the content of *)
(* one that is a file named outright.                                      *)
ProbeOf(item, c, src) ==
    IF item.glob \/ item.type \in {"kadet", "helm"}
    THEN IF src[c] = Absent THEN Absent ELSE "there"
    ELSE src[c]
Candidates(item) ==
    IF item.type = "remove" THEN {} ELSE ToSet(item.inputs)
Probes(its, src) ==
    [i \in DOMAIN its |-> [c \in Candidates(its[i]) |-> ProbeOf(its[i], c, src)]]

NoRecord ==
    [settings |-> NoSettings, items |-> << >>, keys |-> << >>, deps |-> << >>,
     probes |-> << >>, output |-> EmptyTree, made |-> << >>]

IsFresh ==
    /\ record.settings = settings
    /\ record.items = items /\ record.keys = Part(source, Key)
    /\ record.deps = Part(source, DOMAIN record.deps)
    /\ record.probes = Probes(items, source)
    /\ record.output = compiled
WhyStale == ~IsFresh

-----------------------------------------------------------------------------
(* The world around. *)

Edit ==
    /\ phase = "off" /\ edits < project.max.edits
    /\ \/ \E n \in DOMAIN project.values : \E v \in project.values[n] \ {source[n]} :
             source' = [source EXCEPT ![n] = v] /\ UNCHANGED << settings, items >>
       \/ \E d \in project.documents \ {items} : items' = d /\ UNCHANGED << settings, source >>
       \/ \E s \in Settings \ {settings} : settings' = s /\ UNCHANGED << items, source >>
    /\ edits' = edits + 1 /\ settled' = FALSE
    /\ UNCHANGED << project, result, target, place, matched, evaluator, partial >>

(* A file that somebody edits has nothing in it that a program wrote.      *)
Tamper ==
    /\ phase = "off" /\ edits < project.max.edits
    /\ \/ \E x \in DOMAIN compiled :
             /\ compiled' \in {Part(compiled, DOMAIN compiled \ {x}),
                               [compiled EXCEPT ![x] = << >>]}
             /\ UNCHANGED record
       \/ record # NoRecord /\ record' = NoRecord /\ UNCHANGED compiled
    /\ edits' = edits + 1 /\ settled' = FALSE
    /\ UNCHANGED << sources, target, place, matched, evaluator, partial >>

-----------------------------------------------------------------------------
(* The compile of the target. *)

Varying == {n \in DOMAIN project.values : Cardinality(project.values[n]) > 1}

NoEvaluator == [loaded |-> {}, recorded |-> {}]

Init ==
    /\ project \in Projects
    /\ settings \in Settings /\ items \in project.documents
    /\ \E f \in [Varying -> UNION {project.values[n] : n \in Varying} \cup {Absent}] :
         /\ \A n \in Varying : f[n] \in project.values[n]
         /\ source = [n \in Name |-> CASE n \in Varying -> f[n]
                                     [] n \in DOMAIN project.values -> CHOOSE v \in project.values[n] : TRUE
                                     [] OTHER -> Absent]
    /\ compiled = EmptyTree /\ record = NoRecord
    /\ phase = "off" /\ run = NoRun /\ at = 0 /\ queue = {} /\ attempts = 0
    /\ temp = EmptyTree /\ reads = {} /\ made = << >> /\ matched = {} /\ evaluator = NoEvaluator
    /\ edits = 0 /\ partial = FALSE /\ settled = FALSE

Start ==
    /\ phase = "off"
    /\ \E force \in BOOLEAN, backend \in project.backends :
         /\ force \/ WhyStale
         /\ run' = [force |-> force, source |-> source, tolerated |-> FALSE]
         /\ phase' = IF backend = "native" THEN "items" ELSE "attempt"
    /\ at' = 1 /\ settled' = FALSE
    /\ UNCHANGED << sources, result, target, queue, attempts, matched, evaluator, edits, partial >>

(* The compile ends, with or without success; evaluator and tree go.       *)
End ==
    /\ phase' = "off" /\ run' = NoRun /\ at' = 0 /\ queue' = {} /\ attempts' = 0
    /\ temp' = EmptyTree /\ reads' = {} /\ made' = << >> /\ matched' = {}
    /\ evaluator' = NoEvaluator

Item == items[at]
Compiling == phase = "items" /\ at <= Len(items)
Taking(types) == Compiling /\ queue # {} /\ Item.type \in types
Input == Item.inputs[Min(queue)]
Reachable == DOMAIN temp \cup DOMAIN compiled

NextItem == at' = at + 1 /\ queue' = {}
Taken == /\ IF queue = {Min(queue)} THEN NextItem ELSE queue' = queue \ {Min(queue)} /\ UNCHANGED at
         /\ UNCHANGED << phase, run, attempts >>

(* An item that fails ends the compile, unless it may fail: then what it   *)
(* has written so far stays.                                               *)
FailItem(tree, seen, tried, ev) ==
    IF Item.tolerant
    THEN /\ NextItem /\ run' = [run EXCEPT !.tolerated = TRUE]
         /\ temp' = tree /\ reads' = reads \cup seen /\ matched' = tried /\ evaluator' = ev
         /\ UNCHANGED << phase, attempts, made >>
    ELSE End

Resolve ==
    /\ Compiling /\ queue = {}
    /\ IF Missing(Item, source, Reachable) THEN FailItem(temp, {}, matched, evaluator)
       ELSE /\ LET q == Resolved(Item, source, Reachable)
               IN  IF q = {} THEN NextItem ELSE queue' = q /\ UNCHANGED at
            /\ UNCHANGED << phase, run, attempts, target, matched, evaluator >>
    /\ UNCHANGED << sources, result, history >>

(* `copy', `jinja2', `helm', `external', `remove'.                         *)
CompileInput ==
    /\ Taking({"copy", "jinja2", "helm", "external", "remove"})
    /\ LET tree == Compiled(Item, Input, source, temp)
           seen == Observed(Item, Input, source)
       IN  IF Fails(Item, Input, source) THEN FailItem(tree, seen, matched, evaluator)
           ELSE /\ temp' = tree /\ reads' = reads \cup seen
                /\ Taken /\ UNCHANGED << made, matched, evaluator >>
    /\ source' = Leaves(Item, Input, source)
    /\ compiled' = IF Item.type = "remove" THEN Part(compiled, DOMAIN compiled \ {Input})
                   ELSE compiled
    /\ UNCHANGED << project, settings, items, record, history >>

-----------------------------------------------------------------------------
(* kadet items. *)

Previous == IF run.force \/ record.settings # settings THEN << >> ELSE record.made

(* The first previous item of this definition that is not matched yet; it  *)
(* is matched from now on, of use or not.                                  *)
Matches == {i \in DOMAIN Previous \ matched : Previous[i].item = Item}
Match == {i \in Matches : \A j \in Matches : i <= j}

(* A fingerprint of a run is taken once, when it starts or when first      *)
(* asked for.                                                              *)
Usable(p, seen) == /\ p.seen = Part(seen, DOMAIN p.seen)
                   /\ p.outputs = Part(compiled, DOMAIN p.outputs)
Reusable(seen) == {i \in Match : Usable(Previous[i], seen)}

Reuse ==
    /\ Taking({"kadet"})
    /\ \E seen \in {run.source, source} : \E i \in Reusable(seen) :
         /\ temp' = Over(temp, Previous[i].outputs)
         /\ reads' = reads \cup (DOMAIN Previous[i].seen \ Key)
         /\ made' = Append(made, Previous[i])
         /\ matched' = matched \cup {i}
    /\ Taken
    /\ UNCHANGED << sources, result, evaluator, history >>

(* The evaluator is the target's own: a module that an earlier item loaded *)
(* is not loaded again, and what is recorded stays recorded.  A slip would *)
(* start the record anew for every item.                                   *)
Now(c) == IF source[c] = Bad THEN {c}
          ELSE {c} \cup Program[c].reads \cup Program[c].imports
                   \cup Loads(Program[c].imports \ evaluator.loaded)
RecordedAnew(c) == Now(c)
Recorded(c) == evaluator.recorded \cup Now(c)
Evaluated(c) ==
    [loaded |-> evaluator.loaded \cup (IF source[c] = Bad THEN {} ELSE Program[c].imports),
     recorded |-> Recorded(c)]

(* item_record: fingerprints taken once the item has written.              *)
Seen(c) == Part(WithRefs(c, source), Recorded(c) \cup Program[c].creates)
ItemRecord(c) ==
    [item |-> Item, seen |-> Seen(c),
     outputs |-> Written(Item, c, WithRefs(c, source), temp)]

(* What an item that fails has read is not reported.                       *)
Evaluate ==
    /\ Taking({"kadet"})
    /\ \E seen \in {run.source, source} : Reusable(seen) = {}
    /\ LET tree == Compiled(Item, Input, source, temp)
       IN  IF Fails(Item, Input, source)
           THEN FailItem(tree, {}, matched \cup Match, Evaluated(Input))
           ELSE /\ temp' = tree
                /\ made' = Append(made, ItemRecord(Input))
                /\ reads' = reads \cup (DOMAIN Seen(Input) \ Key)
                /\ matched' = matched \cup Match
                /\ evaluator' = Evaluated(Input)
                /\ Taken
    /\ source' = Leaves(Item, Input, source)
    /\ UNCHANGED << project, settings, items, result, history >>

(* It dies or misses its deadline: the next item starts another one.       *)
EvaluatorDies ==
    /\ Taking({"kadet"})
    /\ \E seen \in {run.source, source} : Reusable(seen) = {}
    /\ FailItem(temp, {}, matched \cup Match, NoEvaluator)
    /\ UNCHANGED << sources, result, history >>

-----------------------------------------------------------------------------
(* --backend python: a worker compiles all items; one that dies is         *)
(* replaced and the target tried once more, in a fresh tree.               *)
Attempt ==
    /\ phase = "attempt" /\ phase' = "worker"
    /\ attempts' = attempts + 1 /\ temp' = EmptyTree /\ reads' = {} /\ at' = 1
    /\ UNCHANGED << sources, result, made, run, queue, matched, evaluator, history >>

Working == phase = "worker" /\ at <= Len(items)

WorkerItem ==
    /\ Working
    /\ LET r == AllInputs(Item, [going |-> TRUE, src |-> source, tree |-> temp, reads |-> reads])
       IN  /\ source' = r.src
           /\ IF r.going \/ Item.tolerant
              THEN /\ temp' = r.tree /\ reads' = r.reads /\ at' = at + 1
                   /\ run' = [run EXCEPT !.tolerated = @ \/ ~r.going]
                   /\ UNCHANGED << phase, queue, attempts, made, matched, evaluator >>
              ELSE End
    /\ UNCHANGED << project, settings, items, result, history >>

MayRetry == attempts < 2

WorkerDies ==
    /\ Working
    /\ IF MayRetry
       THEN /\ phase' = "attempt"
            /\ UNCHANGED << run, at, queue, attempts, target, matched, evaluator >>
       ELSE End
    /\ UNCHANGED << sources, result, history >>

WorkerTimesOut == Working /\ End /\ UNCHANGED << sources, result, history >>

-----------------------------------------------------------------------------
(* install_and_record: what was read is recorded as it is now, the compile *)
(* may have written some of it; a slip would record what the run started   *)
(* from.                                                                   *)
PrintsAtStart(names) == Part(run.source, names)
Prints(names) == Part(source, names)

Finish ==
    /\ phase \in {"items", "worker"} /\ at > Len(items)
    /\ compiled' = temp
    /\ record' = [settings |-> settings, items |-> items, keys |-> Part(source, Key),
                  deps |-> Prints(reads \ Key), probes |-> Probes(items, source),
                  output |-> temp, made |-> made]
    /\ partial' = run.tolerated /\ settled' = TRUE
    /\ End
    /\ UNCHANGED << sources, edits >>

Interrupt == phase # "off" /\ End /\ UNCHANGED << sources, result, history >>

CompileStep ==
    \/ Resolve \/ CompileInput \/ Reuse \/ Evaluate \/ EvaluatorDies
    \/ Attempt \/ WorkerItem \/ WorkerDies \/ WorkerTimesOut \/ Finish

Next == Edit \/ Tamper \/ Start \/ CompileStep \/ Interrupt

Spec == Init /\ [][Next]_vars

-----------------------------------------------------------------------------
(* Properties. *)

(* The variables have the types their comments say; a record's outputs are *)
(* files of the tree it describes.                                         *)
TypeOK ==
    /\ project \in Projects /\ settings \in Settings /\ items \in project.documents
    /\ DOMAIN source = Name
    /\ phase \in {"off", "items", "attempt", "worker"} /\ (phase = "off" <=> run = NoRun)
    /\ at \in 0 .. Len(items) + 1 /\ attempts \in 0 .. 2
    /\ queue # {} => Compiling /\ queue \subseteq DOMAIN Item.inputs
    /\ reads \subseteq Name /\ matched \subseteq 1 .. 9
    /\ Len(made) <= Cardinality(Reachable) + Len(items) * Cardinality(File)
    /\ evaluator.loaded \subseteq evaluator.recorded \cap File
    /\ edits \in Nat /\ partial \in BOOLEAN /\ settled \in BOOLEAN

(* Reusing items and skipping targets cannot be told from compiling        *)
(* everything again (native.rs:409, engine.rs:868), as long as no item of  *)
(* the recorded compile was allowed to fail.                               *)
UpToDate == phase = "off" /\ ~WhyStale
Whole == INSTANCE Rebuild WITH
    Result <- FromNothing, source <- [items |-> items, source |-> source],
    output <- compiled, current <- UpToDate /\ ~partial
ReuseIsInvisible == Whole!Spec

(* A compile that has just succeeded is up to date, refs it created and    *)
(* items it reused included (native.rs:481, engine.rs:846).                *)
SettlesAtOnce == settled => ~WhyStale

(* "A target that is reported up to date while its output is stale is      *)
(* worse than a slow compile" (docs/specs/compile.md:20): the claim        *)
(* without the condition.                                                  *)
UpToDateIsExact == UpToDate => compiled = FromNothing([items |-> items, source |-> source])
===============================================================================
