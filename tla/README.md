# krab: TLA+ models of the inventory, its daemon and the compiler

krab renders a kapitan-style inventory (targets that include classes, with
interpolations), keeps it rendered in a daemon while its files change, and
compiles targets incrementally from it, fetching dependencies, creating secrets
and running Python and helm on the way. This directory holds TLA+ modules for the
parts of it where order, concurrency and stale data decide whether an answer is
right, the TLC configurations that check them on small instances, and proofs
checked by TLAPS. Source paths below are relative to the repository's
`src/crates/`.

## 1. The system

### Components

| component | state | operations | modelled in |
|---|---|---|---|
| class resolution, target discovery (`krab-inventory/src/inventory.rs`) | none, reads the tree | `class_candidates`, `resolve_class`, `expand_patterns`, `discover_targets` | `ClassPaths`, `ClassTree` |
| loader and caches (same file) | `files`, `closures` | `build_closure`, `render_many`, `invalidate_paths` | `InventoryRender` |
| values and merge (`value.rs`, `path.rs`, `merge.rs`) | none | `merge_at`, `merge_into`, list modes | `Values`, `Merge` |
| interpolation (`interp/`) and built-in resolvers (`resolvers/`) | tree, memo, anchors, stack of one evaluation | `resolve_node`, `deref`, `select`, three passes | `Interpolation`, `Params` |
| Python resolver workers (`python.rs`, `resolvers/python.rs`, `runner/`) | a pool of processes, a count, a condition variable | `call`, line protocol with lookups and deadlines | `WorkerPool` |
| daemon state (`krab-server/src/state.rs`) | `specs`, `targets`, `errors`, `index`, `aliases`, `generation`, `history`, `ready`, `stop` | `render_all`, `apply_changes`, `rerender`, `wait_for` | `Daemon`, `LongPoll` |
| file watcher (`watch.rs`) | the debouncer's queue, watched directories | callback, alias thread | `Daemon` |
| sockets and life cycle (`rpc.rs`, `paths.rs`, `client.rs`) | a socket file per build, connections | `bind`, `serve_on`, `connect_or_spawn`, `server.shutdown` | `Lifecycle` |
| compile engine (`krab-compile/src/engine.rs`, `manifest.rs`, `digest.rs`) | `compiled/`, the manifest, private trees | staleness, worker pool, install, record, cleanup | `Compile` |
| native compiler, kadet item reuse, inputs (`native.rs`, `inputs/`, `worker.rs`) | the tree of one target, its record, an evaluator process | items in order, reads, probes, reuse, retry | `Items`, `Rebuild` |
| fetch (`fetch.rs`, `oci.rs`) | destinations, clones, the chart cache | deduplicate, group, fetch, copy, force | `Fetch` |
| refs (`refs/`, `krab/src/cmd_refs.rs`) | ref files, the Vault, a cache per compile | compile, create, reveal, `--write`, `--update-targets` | `Refs` |
| Python environments (`pyenv.rs`, `python.rs`, `inputs/kadet.rs`) | environments, probe results and scripts in the user's cache directory | `ensure`, search, `remember`, `materialize_script` | `Interpreters` |
| helm renders (`inputs/helm.rs`) | render cache, scratch directories | digest, render, store, take | `HelmRender` |
| language server (`krab-lsp`) | `generation`, published diagnostics | diagnostics thread | `LongPoll` |
| CLI (`krab`) | | `inventory watch`, `server`, `compile`, `refs` | `LongPoll`, `Lifecycle`, `Compile`, `Refs` |
| YAML and emitters, configuration, output formats, VS Code extension, vendored parser | | | not modelled |

### How they interact

* The watcher thread calls `apply_changes` with a debounced batch of paths. It
  drops cached files and closures, rediscovers the targets, looks the affected
  ones up in the dependency index, renders them in parallel (threads of
  `render_many` share the caches) and installs the outcome under the write lock
  of `Inner`.
* A render merges the closures of a target's classes and its own parameters and
  then evaluates the interpolations in three passes. Resolvers may read, copy and
  write other places of the tree, and may call Python functions in worker
  processes, which may ask for further values while they run.
* A connection thread per client answers requests from `Inner` under its read
  lock. `inventory.wait` sleeps on a condition variable with a lock of its own.
* Clients find a daemon by a socket file named after the inventory and the
  build; they start one when nobody answers and share it otherwise. The daemon
  ends when idle, when asked to, or when its configuration changes.
* The compiler fetches what is missing, takes the digests of all documents (from
  the daemon or a local render), decides which targets are stale, gets their
  documents in a second request, and compiles in parallel workers that read files
  and other targets' documents while they run. Each target is compiled item by
  item into a private tree; items may read refs and create them, run Python
  components, templates, commands and helm.
* Compiles of one user share a cache directory: charts, renders, Python
  environments, the results of probing interpreters, and the workers' scripts.

### What is hard, and what correct means

* **Caches and the index.** Edits race renders; a file that appears can change
  what a name means; a directory move is one event; a render that failed has no
  dependency list. Correct: nothing stale outlives the batch of its change, the
  index lists exactly what the stored renders depend on, every known target has
  one answer, and the daemon settles on what a fresh render would give.
* **Evaluation.** The tree is rewritten while it is read, results are memoised,
  containers are copied with a memory of where they came from, a resolver may
  replace its own caller. Correct: the result is what the text means, whatever
  the order of keys.
* **Pool.** A call holds its worker while what it asked for is evaluated, which
  may need another worker; workers die, hang and print. Correct: no worker or
  wake-up is lost, no answer reaches another call, every call ends.
* **Long poll.** The generation is bumped under one lock and announced under
  another, the deadline is looked at between check and sleep, the history is
  bounded, and a restarted daemon counts from zero. Correct: answers are complete,
  no client waits for a generation that will not come, and what a client shows
  covers every pass it has acknowledged.
* **Life cycle.** bind is probe, unlink, sweep, bind, listen: five steps another
  process can come between. Correct: a daemon can be found while it serves;
  attempts end; lost daemons end.
* **Compile.** A target is skipped because of recorded fingerprints, an item
  because of recorded reads; nested targets share directories; a run can fail in
  part or be interrupted. Correct: an up-to-date target holds what compiling it
  now would write, and a full run leaves what a compile from nothing leaves.
* **Fetch.** What is there is not fetched again, so whatever is left by a failure
  or an interruption stays. Correct: what counts as present is whole, and only
  forced items are overwritten.
* **Refs.** Secrets are drawn once and must never be drawn again; values of one
  mapping create refs that others reveal. Correct: the output names the refs on
  disk, what can be resolved is, and no secret is lost by a rotation.
* **Cache directory.** Nobody locks anything. Correct: what is complete by its
  name is complete, and is of what its digest says.

`PROJECT.json` lists the hazards line by line with the properties that cover them.

## 2. The modules

```
ClassPaths                 what names mean: candidates, wildcards, discovery
  |-- ClassTree            the same over a tree whose files come and go (proved about in
  |                        DaemonProofs)
  `-- InventoryRender      the two caches, parallel renders, invalidation
        `-- Daemon         watcher, passes, index, aliases, configuration
              `-- DaemonProofs
LongPoll                   inventory.wait, editors and `inventory watch'
  `-- LongPollProofs
Lifecycle                  sockets, bind, shutdown, connect_or_spawn (proved about in
                           DaemonProofs)
Values                     trees, texts, paths
  |-- Merge                deep merge      (instantiated by Params)
  `-- Interpolation        the evaluator and the resolvers
        `-- Params         files merged in order, keys resolved in three passes
WorkerPool                 Python resolver workers
  `-- WorkerPoolProofs
Compile                    the incremental compiler, target by target
  `-- CompileProofs
Items                      one target, item by item
  |-- Rebuild              what Items implements: compile everything, each time
  `-- ItemsProofs
Fetch                      dependencies
  `-- FetchProofs
Refs                       secrets
  `-- RefsProofs
HelmRender                 renders, scratch directories
Interpreters               Python environments and probes
  `-- CacheDir             both, in one cache directory (instantiates HelmRender)
        `-- CacheDirProofs
```

Each `MC...` module gives the constants of one component small values; each
`.cfg` is one run. Some definitions come with a variant whose comment calls it a
slip (or a mutant): the same definition with a plausible bug. The specification
does not use them; `PROJECT.json` pairs each property with the slip that breaks it.

### ClassPaths, ClassTree

A path is a sequence of components with an extension. `Candidates` is
`class_candidates` with the reclass-compatible forms, `Resolve` returns the file
found and every path tried (the probes recorded by the loader),
`ExpandPatterns` and `Discovered` are `expand_patterns` and `discover_targets`,
including the rule that two files of one target name leave no targets at all.
`ClassTree` walks over all sets of existing files, one creation or deletion at
a time.

### InventoryRender

`build_closure` is recursive; here each render has a stack of frames in `stack`,
and `ResolveNext`, `Include` and `Finish` are the points at which other renders
and edits may come between. `files` and `closures` are the shared caches,
`Invalidate` is `invalidate_paths`. The documents are abstract: a list of
classes, whether the text parses and whether it evaluates; a merge is recorded
as the tree of documents merged, so two renders are equal exactly when they
merged the same documents in the same order. `probes` keeps what was seen at
each probed path, which the code does not store: only properties read the values.
Probes look for YAML files only, so at any other path a probe sees nothing (`Look`).
A frame keeps the class entries of its file and what it merged for them, in their order, so
`Position` is where the loop over the entries stands. `FreshTree` is the reference: the
tree a render with empty caches would give, a recursive function over the chains of files
being loaded, in which a file that is met again fails, as it does on the loader's stack.

### Daemon

| action | code |
|---|---|
| `InitialPass` | `render_all` |
| `TakeBatch` | watcher callback with its noise filter; `apply_changes` up to the cache invalidation |
| `Discover`, `Affect` | rediscovery, `affected`, the targets to render |
| `Render` | `render_many`, one loader step |
| `Install` | `rerender` under the write lock: index, errors, aliases, generation |
| `StartWatch`, `WatchAliases` | `watch::start`, the alias thread |
| `Edit`, `MoveTree`, `WatchError` | the file system and `notify` |

A batch is any nonempty subset of the queued events, which covers every way the
debouncer may split and delay them. `world` selects one of the small
inventories of an instance and never changes. `lost` is a history variable: an
edit escaped the watcher (made before it started, outside of what it watches,
or dropped by a watcher error). Only properties read it.

### LongPoll

`wait_for` is split where the code lets its locks go: `Check` (generation under
the read lock), `GiveUp`/`Sleep` (the clock, then the condition variable),
`Expire`. `Bump` and `Notify` are the two halves of `rerender`'s announcement. An
editor (`krab-lsp`) starts from zero with every daemon and publishes over
another connection; a watcher (`inventory watch`) starts from `server.info` and
prints. `skipped` is a history variable: an answer has taken the client past
changes that it left out, because the deadline raced a pass or the history was
too short.

### Lifecycle

`file` maps each build to the owner of its socket file. `Probe`, `Replace`,
`ListDead`, `Sweep`, `Bind`, `Listen` are the steps of `Server::bind`; `Break`,
`Close`, `End` those of `serve_on` and its end; `TryExisting` to `Connect` those of
`connect_or_spawn`. A closing daemon still accepts connections in its backlog
that nobody will serve. `raced` is a history variable: a daemon was started
while another one was starting.

### Values, Merge, Interpolation, Params

A value is a mapping or list with ordered entries, a scalar, or a text in its
parsed form. `Merge!MergeAt` is `merge_at` with both list modes; what a text
stands for while classes are merged is a parameter, which `Params` fills with the
evaluator, as `EvalDeref` does in the code. An evaluator is a record (tree, memo,
anchors, source, stack, depth, error) and each function of `eval.rs` and each
resolver an operator from one to the next. The three passes and their keys are
steps of `Params`, so that properties can speak of the tree before and after each
one. The recursion of the code is recursion here; a stack overflow is an outcome.

### WorkerPool

Each render thread has a stack of calls; a call goes through `acquire` (take an
idle worker, start one, or wait), `send`, `called`, `lookup`/`reply` for values the
function asks for, and `release` or `discard`. `proc` is what each worker process
does and what is in the pipe between it and its caller, line by line. Deadlines,
deaths, rubbish on standard output and failed starts are faults of the
environment, bounded by a budget.

### Compile

A target name is its sequence of components and its directory under
`compiled/`. Digests are the values they stand for. A file's content is the
record of what the compile that wrote it had read, so output is exact when it
was made from today's sources. `run` holds the snapshot of digests and the
documents fetched later, which are the daemon's current ones or the snapshot's.
`install` is two steps, since an interruption or another worker may come
between; `Record` saves a fingerprint per path taken at that time. The manifest in
memory is saved with each record under its lock, so one variable stands for
both. Labels and patterns of `-t` appear as the sets of targets they select;
`--dry-run` and `--force` are choices of `Decide`. `suspect` and `settled` are
history variables: a source moved between a target's reads and its record
(CMP-EC-8), and nothing has happened since a full run without failure.

### Items, Rebuild

`Items` looks inside one target: what each kind of item reads and writes, which
reads are recorded, when a kadet item is reused (`Resolve`, `Reuse`), what an
evaluator process has loaded and so reads without being seen (`Evaluate`), output
written over earlier output, items that are allowed to fail, and the Python
backend with its one retry (`Attempt`, `WorkerDies`, `WorkerTimesOut`). `Rebuild` is
the abstract specification: compile everything every time, replace the output as
a whole. `Items` implements it under the mapping in `ReuseIsInvisible`: the sources
are the document's items and every name a compile can read, the output is
`compiled`, and it is "current" when no run is on and `WhyStale` finds nothing.
An item lists its inputs in order and the directories it searches; `Progress` is what
compiling the first inputs of an item does, `Stages` what the first items of a target do.
Both are recursive functions, since proofs are about them.

### Fetch

A file's content records source, ref and time, so a properly fetched file can be
told from a leftover. A group goes through fetching, the chart cache (`dropping`,
`store`, `storing`, since a rename may have to be a copy) and copying to its
destinations one file at a time, and each file in two steps: `CopyFile` looks whether
there is one and removes it when the item is forced, `WriteFile` writes it, or fails with or
without a part of it written. `file` is the one a group is about to write. A file that
is removed stays in `disk` with what it last was and is listed in `gone`; `There` is
what really is there, and all that guards look at. Processes share destinations and the cache.
`Declared` is what `dependencies` can build from a document. `Alone(d)` says that no
other item writes into d's destination and `Own(p, d)` that no other process does:
how fresh the files of a forced item are is a statement about the latter only, since
another repository's older clone may be copied over them (instance `Rivals`).

### Refs

A ref file holds a secret sealed with a key; sealing twice gives different data.
Each target of a compile walks over its values in passes, with the lookups,
creations under the lock and cache entries of `refs/mod.rs`; writing a file is
truncating and filling. `krab refs --write`, `--update-targets` and
`--validate-targets` are threads beside them.

### Interpreters, HelmRender, CacheDir

Both have processes that may be killed at any step and no locks. `Interpreters`
follows a compile from `ensure` (digest, venv, install, mark, rename) and the search
of candidates over `cached`, `probe`, `versions`, `remember` to the worker's script.
`unnoticed` and `outdated` are history variables: a package changed behind its
interpreter's file, and an upgrade took away what a compile had just found.
`HelmRender` follows a render from the question for helm's version (three steps:
looked up, asked outside the lock, kept) and its digest over the temporary file to the cache
and an item through its scratch directory. Threads write one temporary file from its
start, so where a shorter text goes over another one a mix of the two may remain
(`OverText`). They share no file, so `CacheDir`
composes them as a sum: a behaviour is about one of them, and the other stays as
it started.

## 3. The runs

Distinct states are those of the given bounds. Every run explores its whole
state space and passes; none takes more than about two minutes with two workers.

| run | question | instance | states |
|---|---|---|---|
| `daemon` | Does anything stale survive its batch, are index and answers exact, does a settled daemon answer like a fresh render? | five inventories, up to 3 edits | 268,385 |
| `daemon_live` | Does the daemon settle, and stop when its configuration changes? | shadowing with a failing class and a configuration file, 2 edits | 3,300 |
| `longpoll` | Do clients miss changes or wait for passes that never come? | one client of either kind, 3 daemons, 4 passes each, history of 2 | 101,036 |
| `lifecycle` | Can a serving daemon be found; do attempts and lost daemons end? | 2 clients on one or two builds, 2 daemons, 1 crash | 220,360 |
| `classes` | Do the probes decide a name; is shadowing reversible, do wildcards settle? | every subset of 9 files | 512 |
| `compile` | Is "up to date" true; is a full run exact and repeatable? | four projects of 2 or 3 targets, 2 edits, 1 crash | 182,540 |
| `items` | Can reuse be told from compiling everything? Does a compile settle at once? | seven targets of 1 to 4 items, 2 edits | 151,500 |
| `fetch` | Is what counts as present whole; who overwrites what? | seven repositories, one or two processes, failures, 1 crash | 1,100,454 |
| `refs` | Do output, ref files and Vault agree, is what can be resolved resolved? | eight repositories with compiles and `krab refs` side by side | 164,173 |
| `params` | Is the result of merging and evaluating what the texts mean, in any order of keys? | every way to give one key in four files, to link three keys, to read and write around one resolver | 85,594 |
| `pool` | Are workers, places and wake-ups lost, do answers go astray, do calls end? | 2 threads nesting twice, 3 threads for one worker, 1 or 2 faults | 194,175 |
| `cachedir` | What do compiles that share a cache directory and are killed leave each other? | 2 compiles; 3 threads in 2 processes rendering charts | 782,429 |

**Why the bounds are enough.** The inventories of `daemon` each put one kind of
dependency next to another: an init file that shadows a class and is moved with
its directory (`shadow`); wildcards, cycles, two files of one target name, text
that does not parse or evaluate (`wild`); lost events (`lossy`); symlinks into
and out of the inventory (`links`); a configuration file and a file no class can be in
(`config`). Two targets
that share a class are enough for one render to fill a cache another uses, and
three edits let one fall before, one in and one after a pass. One client is
enough in `longpoll` because clients share no state but the daemon's; four
passes overflow a history of two twice, three daemons give a restart after a
restart. Two clients and two daemons give every overlap of a start with a close,
a crash or another start. With `Daemons <- ThreeDaemons` the safety half holds
too (10,722,259 states, too many to repeat on every change).
Two edits before or between runs of `compile` give every pair of source change and
tampering; nested, reading and spilling targets are in separate projects, as
their rules do not meet except where `race` and `chain` put them together.
In `items` one edit falls before and one after a compile that reuses, which is
enough to tell what a record must hold: what an item read in the compile before
last cannot matter, as each compile writes the whole record. `fetch` and `refs` give each
rule a repository where it bites, and one where two groups, processes or targets
meet over a destination, a chart, a ref or a path in the Vault. In `params` three keys make every
cycle and chain that differs in kind, and four files every order in which
a list, mapping, text and scalar can meet; a stack of twelve is above what acyclic
documents need. In `pool` one worker with two threads that
nest twice already has every thread holding a worker while needing another; the
third thread is the one that waits. In `cachedir` two processes are enough for a
race over each file, and three threads for one within and one across processes; one upgrade
of python3 (`Upgraded`) and one edit between two threads (`Between`) fall at every step.
In `fetch` one failing copy and one interruption fall between the removal of a file
and its copy, in every repository.

**Named bounds.** `MaxEdits`, `MaxCrashes`, `MaxPasses`, `MaxEpochs`,
`HistoryLimit` (200 in the code), the number of `Daemons`, `Workers`, `MaxDepth`,
`Budgets` (calls, nested calls, faults, waits of a minute), `StackLimit`; and in `Items`, `Fetch`,
`Refs`, `Interpreters` and `HelmRender` the fields of a project or job (`max`,
`edits`, `crashes`, `faults`, `runs`) and, in `HelmRender`, the scratch directories of a process (`Dirs`). All of them appear as guards of the
environment, except the history limit and the number of workers, which are the
code's own, and the stack limit, where running over is an outcome.

**Deadlock** is checked in `classes`, `compile`, `lifecycle`, `items` and `pool` (whose
`Done` is a stuttering step that is only enabled when nobody has anything left to
do). In the others everything may really be over: edits are used up, the last
daemon is gone, commands have run, keys are resolved.

**Action coverage.** Taken together the runs take every action.

### Fairness

* `Daemon`: the rendering thread (`Pass`), the start of the watch, the callback
  and the alias thread are weakly fair; they are threads that nothing suspends.
  Edits and losses are not fair. Weak fairness of `TakeBatch` covers the whole
  queue, since a batch that stays queued keeps it enabled and edits are bounded.
* `LongPoll`: threads run and the clock passes, so `Serve` and `Client` are weakly
  fair per client. `Boot` is fair because an editor's connector starts a daemon
  when there is none. `Bump` is fair only for the initial render: nobody has to
  edit a file, and nobody has to stop a daemon.
* `Lifecycle`: each process runs, and the ten seconds of `wait_until` pass.
  Nobody comes, leaves, stops or crashes by fairness. `Spawn` is strongly fair
  only because the bound on living processes can disable it for a while, which
  no operating system does here.
* `WorkerPool`: `Proceeds(t)` is weakly fair, what a thread and the function it
  called do by themselves. A deadline is a fault and not fair, nor is the minute
  `acquire` waits: calls must end without it.
* The other modules have safety properties only: every program in them ends by
  itself, and what it leaves is what matters.

## 4. What the properties say

Properties marked * are also proved, for every value of the constants (section 5).

* `IndexExact`*, `AnswersCoverSpecs`* (`Daemon`): the bookkeeping of `rerender` over
  any series of passes.
* `StaleOnlyIfPending`*: every cached document, cached closure and stored answer
  that read something else than what is on disk is covered by a change still
  queued or in the batch. This is the invariant the cache design rests on; it
  takes an edit in the middle of a render of another target to put it to a test.
  (Proved for inventories without symlinks.)
* `SettledExact`* and `ChangesTakeEffect`: a settled daemon answers what a fresh
  render would, and it does settle (SRV-32), or stops when its configuration
  changed (SRV-33, SRV-34); lost edits are excused. (`SettledExact` is proved for
  inventories without symlinks.)
* `ProbesDecide`*, `ShadowingIsReversible`*, `ExpansionSettles`* (`ClassTree`): what the
  daemon assumes of names when it invalidates by path.
* `AnswersComplete`*, `NothingMissed`*, `EveryPassReachesClients`,
  `EditorsFollowRestarts` (`LongPoll`): no answer drops a kept change, what a client
  shows covers the passes it has acknowledged, and a wakeup lost between check and
  sleep is made up for at the deadline.
* `ServersReachable`* (`Lifecycle`) holds as long as starts do not overlap, whatever
  else overlaps: closing daemons, sweeps by other builds, crashes. It implies that
  one daemon serves a build (`OneDaemonPerBuild`*). `AttemptsEnd` and `LostDaemonsEnd`
  hold without that condition.
* `UpToDateIsExact`*, `FullRunExact`*, `FullRunSettles`* (`Compile`). The latter two are
  about projects where no compile writes into a nested target's directory
  (`Apart`): with such merges the nested target's next install takes the merged
  file away, so the tree depends on the order and the parent is stale again
  (CMP-17 allows it).
* `ReuseIsInvisible`* (`Items`) is the refinement: every step of the detailed compiler
  is a step of one that compiles everything or a stutter. `SettlesAtOnce`*: right
  after a success nothing is stale, though a compile may write some of what it
  read (refs, files it copies from `compiled/`). (The refinement is proved for projects
  that are `Tidy`.)
* `FilesAreWhole`*, `SettledIsOffline`*, `UnforcedKeepsFiles`* (`Fetch`): what a run
  reports, leaves or takes from the cache is whole, of one version and of the ref that was asked
  for, and a run after a success fetches nothing but forced items. `UnforcedKeepsFiles`
  is about every step: a file that is there goes or changes only under the
  destination of a forced item that a run is copying, and it goes only when a file of
  that item is about to be written in its place, so that a kill or a failing copy
  loses no other. An item that is not forced looks before it writes, and may write over what
  another group or process has put there since (`Contested`); that it never does is FET-10
  and false (section 6). The gap between removal and copy shows in `SettledIsOffline` too: a file
  that a copy into a directory around it has just removed is fetched again.
* `OutputsMatchFiles`*, `TargetsResolve`*, `VaultHasTheSecrets`*, `RotationIsComplete`*,
  `ExistingRefsKept`* (`Refs`). `TargetsResolve` compares the passes of the code with
  a least fixed point over the refs that exist or can be made. (It is proved for
  repositories that are `Unambiguous` and whose `SecretsAreReal`.)
* `LayersAddUp`, `ResultIsMeaning`, `MemoIsInvisible`, `WritesTakeEffect` (`Params`).
  `Meaning` is a second, declarative definition of what an interpolation stands
  for, without memo, anchors or order; the evaluator is compared with it at the
  end and, where resolvers write, at every step.
* `WorkersAreCounted`*, `AnswersAreOwn`*, `NoWakeUpIsLost`*, `CallsEnd` (`WorkerPool`): the
  first three relate the pool's counters, the pipes and the stacks of all threads;
  the last is liveness without the minute's wait.
* `EnvironmentsAreExact`*, `RememberedIsTrue`*, `ChoiceIsRight`* (`Interpreters`) and
  `ChartsAreTrue`* (`HelmRender`): the shared cache directory. Each has a condition
  named in the module: something moved during the build, a package changed in place,
  a write failed. In `ChoiceIsRight` the candidates are those of the code, in the code's
  order; that this is not the order of CMP-45 is in section 6 (`RunsDocumentedPython`). It excuses
  a compile under whose hands an upgrade takes away what it had found (`outdated`).

Each module also has a `TypeOK`, which no run spends time on.

## 5. Proofs

Eight modules, for every value of the constants that satisfies the assumptions
named in the modules:

    DaemonProofs        BookkeepingInvariant      IndexExact, AnswersCoverSpecs
                        EveryTargetAnswers        AnswersCoverSpecs
                        NothingStaysStale         StaleOnlyIfPending
                        SettledDaemonsAreExact    SettledExact
                        ProbesAreEnough           ProbesDecide (an action property)
                        ShadowingReverses         ShadowingIsReversible
                        ExpansionsSettle          ExpansionSettles
                        ServersAreReachable       ServersReachable
                        DaemonsAreUnique          OneDaemonPerBuild
    CacheDirProofs      EnvironmentsStayExact     EnvironmentsAreExact
                        MemoryStaysTrue           RememberedIsTrue
                        ChoicesAreRight           ChoiceIsRight
                        ChartsStayTrue            ChartsAreTrue
    LongPollProofs      LongPollIsSafe            the inductive invariant Safe
                        AnswersAreComplete        AnswersComplete
                        NothingIsMissed           NothingMissed
    WorkerPoolProofs    PoolIsSafe                the inductive invariant Safe
                        WorkersAreAlwaysCounted   WorkersAreCounted
                        AnswersAreAlwaysOwn       AnswersAreOwn
                        WakeUpsAreNeverLost       NoWakeUpIsLost
    CompileProofs       CompilerIsAccounted       the inductive invariant Inv
                        FullRunsSettle            FullRunSettles
                        UpToDateTargetsAreExact   UpToDateIsExact
                        FullRunsAreExact          FullRunExact
    RefsProofs          CompilesKnow              the inductive invariant Known
                        ExistingRefsAreKept       ExistingRefsKept (an action property)
                        OutputsAlwaysMatch        OutputsMatchFiles
                        CreationIsExclusive       Locked, Vaulted
                        VaultAlwaysHasTheSecrets  VaultHasTheSecrets
                        RotationsAreComplete      RotationIsComplete
                        TargetsAlwaysResolve      TargetsResolve
    FetchProofs         RunsAreTyped, RunsAreAccounted
                        UnforcedRunsKeepFiles     UnforcedKeepsFiles (an action property)
                        SettledRunsAreOffline     SettledIsOffline
                        FilesAreAlwaysWhole       FilesAreWhole (by CachedChartsAreWhole)
    ItemsProofs         ReuseNeverShows           ReuseIsInvisible (a refinement)
                        SuccessIsCurrent          SettlesAtOnce

Each invariant was given to TLC before it was proved. None of the properties is
inductive as it stands; what each needed is the interesting part.

**DaemonProofs** proves the bookkeeping without any assumption on the constants. Whether
`Install` leaves every
known target with one answer depends on which targets the pass rendered. The
strengthening `Bookkeeping` adds `PassAccounted`: during a pass, the targets queued,
loading and reported are together exactly the discovered ones that are affected,
and every discovered target that is not affected was known before. The argument:

1. `Affect` and `InitialPass` establish it, because a target not known before is
   always among the affected (`PassStarts`).
2. A loader step moves a target from the queue to the stack or from the stack to
   the report and never loses it: `PutDomain`, `FinishedDomains`,
   `EnterDomains`, `StartAccounts`, `StepAccounts`, `RenderAccounts`.
3. `InstallIndex`: the entries removed are those of the targets that leave or are
   replaced, the entries added those of the new renders, and no other target
   shares an entry with them, as an entry names its target.
   `InstallAnswers`: a discovered target is either reported, and then gets a
   render or an error, or was not affected, and keeps the one it has.
4. Every other step leaves the variables of the three formulas alone
   (`BookkeepingInductive`).

`NothingStaysStale` uses `PathAssumption` and `DaemonAssumption` and is about inventories
without symlinks (`NoSymlinks`): aliases are learned from successful renders only,
and where there are some, an edit may escape (section 6, `SettledExact`). The invariant `Sound`
says the same of everything that holds something read earlier, cached documents and
closures, the frames of a render, what it has reported and what is installed: each of
its reads and probes shows what is on disk now, or is `Touched`, which is to say that the
watcher's callback will heed an event, queued or in the batch, that reaches its path.
An edit enqueues an event that reaches all it changes, and the lemmas on paths
(`Above`, `Resolve`, moved directories) show that the noise filter drops no event that
reaches a class or target file. `TakeBatch` may then take the touched things out
of the caches, and as `IndexExact` holds, the targets whose answers are touched are among
the affected ones, which the pass replaces.
`Carries` states once what a step must do for all these sets to stay sound.

`SettledDaemonsAreExact` uses the same assumptions and also that `Path` is finite, as the files
of a directory are. That nothing held is out of date is not enough for it: a cached
closure must be the one a loader with empty caches would have built, although it was built
below another chain of files, at another time, from parts other targets had cached. The
argument:

1. `FreshTrees` is a recursive function over sets of files, and the induction theorems of the
   library take operators. `TreesUnfold` shows that it satisfies its equation by a least
   counterexample over `Unseen`, the number of files a chain has not met.
2. Why a file has no tree is said without recursion: `Doom` is the largest set of files
   each of which is broken or includes another one of the set. What is in it fails below
   every chain (`DoomFails`), and so does what is on a cycle (`CycleDooms`).
3. `Right(c, p, d)` says of a closure all that matters on disk `d`: it read what is there, it
   probed everything it had to look at to know which files those are (`Explored`), and its tree
   is that of `p` below every chain that has met none of its other files; or, if one of its files
   does not evaluate, `p` is doomed. As all it looked at is in its probes, it stays right on
   any disk that differs elsewhere only (`RightOnBoth`). This is where the probes of
   `resolve_class_file` and the expansion of patterns are needed.
4. `FrameRight` is the same of a closure that is being built. Merging one that is right keeps it
   (`MergedIsRight`): a cached closure whose files include one of the frame's would close
   a cycle, and then it would not have been built (`ClosureIsApart`). So a hit in the cache
   skips no error that the loader's stack check would have found.
5. While changes are queued only what none of them touches is claimed to be right (`Sure`).
   When nobody heeds any of them (`Quiet`), a target that failed is doomed on the
   disk as it is (`SureFailure`, by `StackIsDoomed`: the failure of a class is one of every file
   on the stack), and what was discovered is what is there.
6. `Exactly` collects this for caches, stacks, reports and answers and is inductive next to
   `Sound` and `IndexExact`: a batch drops or re-renders all it touches, failed targets are rendered
   in every pass (`InPass`), and the rest is unchanged.

The first two theorems about **`ClassTree`**, in the same module, need no assumption on names,
files or who lists them. `FirstHit` is the first candidate that is a file; `FirstHitIs` says so, and the
rest is about first elements: `ProbesAreEnough` says that two trees that agree on the paths
tried agree on the first hit and so on what is tried before it, `ShadowingReverses` that one
more file changes the first hit only by becoming it. `ExpansionsSettle` assumes `TreeAssumption`
(types) and `PlainNames`, that no file is named like a pattern: an entry that names an existing class
stays as it is written, so with such a file a pattern would stay in the list. Lists are put together by
`FlattenSeq`; `FlattenIs` and `FlattenIsDistinct` say what is in the result and when nothing is twice.

The theorems about **`Lifecycle`**, in the same module too, assume `LifecycleAssumption` (there
is a client, and clients have builds). The inductive invariant is `Safe`: types, and unless starts overlapped,
`HoldersOwn` (a daemon owns its file from bind(2) until it removes it),
`OneStarter`, and `RemovesFree`: what a starter is about to unlink or sweep belongs
to nobody. The last is what an interleaving would break: between a probe that
found a socket dead and its removal somebody else may bind, but only a starter
binds, and there is only one. There is one lemma per group of actions.

**CacheDirProofs** assumes, for the theorems about `Interpreters`, `JobsAssumption` (the types of a job) and
`CandidatesAssumption` (the list of candidates names interpreters; a fold computes it,
so TLC evaluates this one for its instances). `Sound` adds to the first property
`BuildsFit`: what p has built so far is made from what its digest says, unless
something moved, and once marked it is complete. That is inductive because a build
directory is named after its process, so each step of another compile leaves it
alone. `Truthful` adds to the second `EntriesLast`: an entry is about an environment
that is there, and no entry of python3's first version claims the second's stamp,
so that an environment that comes later or an upgrade cannot make an old entry
apply; and `Honest`: what a compile has asked and not yet written down is still so.
`Chosen` adds for the third what a compile has found out: `Searched`, the candidates left
are the end of the list and those before the one in hand failed unless something moved,
and `Found`, from the question for versions on the one in hand works; every entry
written is of an interpreter that worked (`Positive`), which is what makes the file's word
as good as a probe. All of it is for as long as the history is `Calm`, neither `unnoticed` nor
`outdated`: an upgrade of python3 takes its kadet away, and a Python without kadet still
answers when asked for versions, so a compile between the two would write an entry
that is no sign of a probe (section 6, `ChosenPythonWorks`). No assumption on the job is
left: python3 may be the interpreter a kadet compile was told to use.

For the charts it assumes `HelmAssumption` (the types of what may be asked; a chart is not
called `output_file`). `HelmSound` says what a thread has in its hands: it is doing the
first request it has left, what it took is current unless something moved, its text is
true, and of an item some charts are done and the rest is what is left of the list.
The four conditions of the property need one invariant each on top. `ApartIsWhole`:
threads that render different things have a temporary file each until they rename it.
`TornAreWritten`: without faults, a torn render, in place or temporary, is held open by a
thread about to fill it; this is what a rename by another thread of the process moves
along. `DirsApart` and `OutputsRight`: a scratch directory is handed out once, those
to come are empty, and the one in use holds the output of the chart in hand, so that
`written` is the outputs of the charts done so far. A name occurs twice in an item
only for the same chart, which is why writing over the older file loses nothing.

**LongPollProofs** assumes `LongPollAssumption` (numbers are numbers). `Safe` adds
`Recent`, the history is the last generations without a gap, as many as there are
or as fit; `Connections`, a connection goes to this daemon or to one that is gone;
and `Following`: unless an answer left something out, what is on a client's screen
covers the generation it asks from, and the answer on its way brings it no further
than its changes cover. `wait_for`'s filter over the history is a `SelectSeq`; a
lemma (`UnseenIs`) says what it returns on a history without gaps, which is where
`Recent` is needed. An editor counts from zero with every daemon, so a restart
re-establishes its part of `Following` from nothing.

**WorkerPoolProofs** assumes `PoolAssumption` (finitely many threads, at least one
place). `Safe` is about ownership. `UsersHold`: a call has a worker exactly between
taking and giving back; `Apart`: no two calls, and no call and the pool, have the same
one; `Owned`: a process that exists is somebody's; `Pipes`: what is in a pipe was
written for the current attempt of the call that holds the worker, and an idle worker's
pipe is empty; `Count`: `live` is the idle workers and the calls that hold a place.
`WorkersAreCounted` and `AnswersAreOwn` follow from it. `NoWakeUpIsLost` compares the
free places with the threads that are about to look, as cardinalities: each step that
frees a place adds a thread that will tell (`OneIsFreed`), and each that stops looking
takes a place or finds none.

**CompileProofs** assumes `CompileAssumption` (documents name targets and inputs, a
target's own file has a name no target's component has, what a target spills lies
below its own directory). `Inv` ties three things together. `Current` and `Done`: as
long as nothing is edited, the run's snapshot is what is there, and whatever it is done
with is up to date, so that a full run without failures settles; this needs no
further condition. `Installed`: from its install to its record nobody writes into a
target's own part of `compiled/`. `Recorded`: for every record there are a compile
and an inventory such that the compile had read what the record says, had not failed,
and had written what the output digest says, unless the record is `suspect` (a source moved
between compile and record). `Installed` and `Recorded` are for projects that are `Orderly`
(below); the other conjuncts are for all. Behind both is the algebra of
directories: a file lies in the own part of one target at most (`OwnersDiffer`), and
what a target writes lies in its own (`WritesAreOwned`).

`UpToDateIsExact` and `FullRunExact` do not hold in all projects, as section 6 shows, and
their theorems say where they do. `Orderly`: targets name only others that are there,
none writes into a nested target's directory, and nothing that fails to render
appears beside a target that reads all others. `NoOrphans`: of two targets nested in
one directory of a third none goes away. The projects `nested`, `flat` and `busy` of the
run are of that kind (`spill` is not, and is only model-checked). The third clause of `Orderly`
came of the proof: no instance had a target that fails from its first render.

**RefsProofs** assumes `RefsAssumption` (tags are lists, what they name has a place among
the files) and `VaultsAreWhole`: the vaultkv refs a repository comes with name secrets
that are in the Vault, without which `VaultHasTheSecrets` is false before anything
happens. `Known` says what a thread of a compile may know: who is about to
create a ref, in whichever of the six steps, knows that it was missing when the run
began, and so does every cached miss; ref files never disappear. `ExistingRefsKept`
follows. `Locked` and `Vaulted` add that only the holder of the creation lock makes a
ref, and that who writes into the Vault has read every key that is there. `Outputs`
is about a compile that has no process beside it and whose targets keep their refs to
themselves: the cache agrees with the files except for a ref being written, what a
thread has found missing is missing until it writes it (`Makings`), and the values it
is done with are what the files hold (`Matched`). None of these
is inductive alone: a write is harmless to others because its file was missing or
torn, which a thread knows because the cache was right. `Rotations` is about the commands
that seal anew: the refs such a run has loaded are those of its start, those it has not come
to are as they were, and those it has hold the same secret under a key of their target, or
are counted as failures. It needs that nobody else runs, which is what a rotation that ran
alone means.

`TargetsAlwaysResolve` has two hypotheses on the repository, because `TargetsResolve` is not
true of every one: a value without functions fails when it is met before the value that
creates its ref, and only values that reveal are tried again in the next pass. `Unambiguous`
excludes that. Of the values of a mapping that name one new ref either the first one makes
it on its own (it draws its secret and the key is there), or all have the same functions and
type; a hash is given only to a ref that exists or that no value makes; and a `vaultkv` ref is
not made from another ref. `SecretsAreReal` says that `NoSecret` is none. 17 of the 18
instances of `MCRefs` satisfy both; the other one, which gives a hash to a ref
that the value before it makes, is only model-checked. The argument:

1. `Backed`: refs that were there at the start and refs that are written hold a secret, for
   compiles and for `krab refs`, and a run that has ended well is done with all its
   targets.
2. All that decides about a value is in the `View` of its target, which does not change while the
   run lasts: the document, the keys, the command and the files at the start. `Works(c, i, there)`
   says that value `i` can be resolved once the refs `there` exist, and `Grows` is the
   recursive function of `ThereAfter`, whose existence `GrowthExists` shows without an
   induction theorem.
3. `Tries` follows a thread. `Held`: of the paths a target mentions, those that were there are as
   they were, and others exist only if one of its settled values made them or it is
   writing them now. `Tried`: a value that is being made can be resolved with what is there.
   `Passed`: with `n` values settled no more exists than step `n` of the fixed point
   has; every settled value can be resolved at its level; a value of a mapping that was
   passed over reveals, and if by now it could be resolved, a value was settled in this pass, so
   there will be another.
4. So when a pass settles nothing, nothing that is left can be resolved, and what exists is the fixed
   point (`NothingLeft`). When a value fails, `NeverWorks` shows that no later ref would have
   helped it; this is where `Unambiguous` is needed.
5. `AnswerTries`, `EvaluateAttempts`, `WriteAttempts` and their like go over the steps. A lookup
   says what is on disk because the cache is right (`CacheIsRight`, from `Outputs`).

**FetchProofs** assumes `FetchAssumption`: items are what `dependencies` can build
(`Declared`), files have nonempty paths, a default branch is a ref
of its repository. The inductive
invariant `Inv` has eleven parts, and the proof goes over all actions for each:
`Typed`; `Helds`, what a group holds is what its source had; `Arrives`, a group that
copies creates its destination first; `Accounts`, every item a run considers is
fetched, failed, passed over or in the hands of one group; `Charts`, how far the cached
chart a group works on has come, and which version it is; `Copies`, what is not left to do of the
current item is on `disk`; `Rights`, whatever is in a destination of its own is what was asked for;
`Fetches`, what is reported as fetched is on `disk`; `Fresh`, and, where only this process
copies, there and as new as what the group pulled; `GoneIs`, while nothing goes wrong a removed file
is about to be written; and `PresentFull`. Since `disk` only grows (`Grows`), most
parts need not know of removals: they speak of files that are or were there (`Found`,
`Has`, `Full`), and only `Fresh` and `GoneIs` relate that to `gone`. `UnforcedRunsKeepFiles` needs
two more invariants, `Opens`, which says that an item that is not forced is about to write
over a file only in a contested place, and for the type invariant `Anchored`, the
directories of what is or is about to be there exist. `Rights` needs the algebra of prefixes (two
destinations of which none is inside the other share no file), `Charts` is what
interruptions between two renames would break, and `PresentFull` needs that
a destination that exists without being whole is being copied to by somebody.
`CachedChartsAreWhole` proves the third part of the property for itself.

**ItemsProofs** assumes `ItemsAssumption` (the types of projects; what makes a new ref is not
itself a missing file). `SuccessIsCurrent` holds in every project. `ReuseNeverShows` does not: an
output may depend on what the code does not record (section 6), so the theorem is about projects that
are `Tidy`, each part of which excludes one such case:

* a ref is read only by those who create it, and a module imported by others creates none;
  otherwise compiling twice from nothing already gives two outputs;
* a kadet item has one component (`Inserted`), a template includes at most one file, so that
  no candidate goes unprobed (`Shadowed`);
* what an external command itself reads is not observed (#16), and the files of its globs are
  only probed for, so it has neither;
* an item that removes files does not fail on missing ones, since the previous
  output still counts as there when it is tried.

The projects `reffing`, `twice`, `forgiving` and `workers` of the run are of that kind; `modules`,
`templates` and `layered` are only model-checked. The inductive invariant `Inv` has five parts:
`Kinds` and `Places` are the types and where a run may stand. `Certified`: whatever sources
read like the record, in content, probes and keys, a compile of them from nothing writes the recorded output,
unless a failure was tolerated. `Goes` says the same of a run that is not over: for sources that agree
with what the run has read so far, a compile of the present tree from nothing
comes to the same place with the same output. It is quantified over all such sources because
the record is used later, against sources that are not those of the run. `Settles` is the other theorem. The
argument:

1. `StagesIs` and `ProgressIs`: the recursive functions satisfy their equations. The induction
   theorems take operators, so this is by a least counterexample.
2. `InputAgrees`, `EntryMade`, `EntryGrows`, `EntryDoes`: what one input does is determined by
   what its entry lists, an entry stays true when other refs are created, and an entry that reads like
   the sources stands for compiling its input again. This is what `Reuse` rests on.
3. `WorkerGoes` and `RemoveAll` are the items that are never reused; a worker's first attempt
   leaves nothing that its second one would not.
4. `RecordTells` makes `Certified` of `Goes` when the run succeeds, and `OutputStays` keeps the
   record's output what is on disk until somebody touches it.

The proofs made the models more precise. `FetchedIsWhole` claimed freshness also where
a second process copies older files over a forced item's; TLC had no such instance,
the proof did not go through, and `Own` and the instance `Rivals` came of it. The
marks for missing and torn ref files were constants and are now records of their own.
`ChoiceIsRight` was first tried for all jobs; what did not go through showed that the model
let every question for versions succeed, which it does not for kapitan and does for
kadet in any Python (`Answers` in `Interpreters`). `UnforcedKeepsFiles` said that no file is ever
removed as long as `CopyFile` replaced a file in one step; with the two steps of the code
the proof asked who may stand between them, and `Contested` came of it. `StaleOnlyIfPending` came down to probes of paths no class
can have, which the code does not make (`Look`). `RenamedTo` gave a thread whose file
had been replaced a file again when a third one renamed; no instance had three writers of
one render in the right order, the proof of `TornIsWritten` did.
Where a definition could not be reasoned about (`Unseen` of `LongPoll`, the record of a
lookup and the domain of `ThereAfter` in `Refs`, the recursion over inputs and items in `Items`, the lists of `ClassPaths`) it was rewritten with the
same meaning, and the runs are unchanged, down to the number of states.

**Only model-checked:**

* Liveness, which is outside what TLAPS proves (`ChangesTakeEffect`,
  `EveryPassReachesClients`, `EditorsFollowRestarts`, `AttemptsEnd`, `LostDaemonsEnd`,
  `CallsEnd`).
* `Params`, `Interpolation`, `Merge`, `Values`: recursive operators over trees.
* `TargetsResolve` for repositories that are not `Unambiguous`, for some of which it is false.
* `StaleOnlyIfPending` and `SettledExact` with symlinks (with them `SettledExact` is false, section
  6); `UpToDateIsExact` and `FullRunExact` for projects that are
  not `Orderly`; `ReuseIsInvisible` for projects that are not `Tidy`.
* What the fold of `Once` in `Interpreters` computes, of which only an assumption is used.

## 6. Where the code and its documents disagree

Each row names a definition that the code breaks. It is no part of a run; to see
TLC's counterexample, take the configuration of the run, replace the constant as
given, and check the definition alone.

| definition | run, constant | what happens |
|---|---|---|
| `SettledExact` | `daemon`, `Worlds <- LinkFail` | aliases of symlinks come from successful renders only (`state.rs:239`), so after a failed first render an edit at the real location of a class file is never applied (SRV-32) |
| `EveryChangeShown` | `longpoll`, `HistoryLimit = 4`, `MaxPasses = 2`, `MaxEpochs = 1` | `wait_for` reads the generation again after the deadline and answers "timed out" (`state.rs:296`), so an editor steps over a pass without publishing it |
| `ExactlyOneSurvives` | `lifecycle` | two starters that find the same dead socket both end up serving (`rpc.rs:39`, SRV-AC-2) |
| `UpToDateIsExact` | `compile`, `Projects <- Missing` | a read of a target that does not exist leaves no record (`engine.rs:869`, CMP-30) |
| `UpToDateIsExact` | `compile`, `Projects <- Growing` | the digest of the whole inventory covers the targets that render (`engine.rs:258`), so a target that reads them all stays up to date when one is added that fails to render, though compiling it would be refused (`engine.rs:833`) |
| `UpToDateIsExact` | `compile`, `Projects <- Race` | a parent's merge into a nested directory between that target's install and record becomes part of the nested target's recorded output (`engine.rs:843`) |
| `FullRunExact` | `compile`, `Projects <- Chain` | after a middle target of a chain is removed a full run keeps its files (`engine.rs:1055`, CMP-20) |
| `UpToDateIsExact` | `items`, `Projects <- Inserted` | a component that appears between two others changes what they see, and no record says so (`native.rs:214`) |
| `UpToDateIsExact` | `items`, `Projects <- Shadowed` | a file that a template would now include first was not probed (`jinja.rs:158`, CMP-28) |
| `UpToDateIsExact` | `items`, `Projects <- Repaired` | a component that was allowed to fail, and had failed, is not tried again when what it needs is repaired (`native.rs:228`) |
| `ForcedItemsAreFetched` | `fetch`, `Projects <- Duplicates` | of two items with one destination the first counts, forced or not (`fetch.rs:264`, FET-6) |
| `UnforcedNeverOverwrites` | `fetch`, as a `PROPERTY` | a copy that is not forced looks for the file and then writes it (`fetch.rs:996`), so it overwrites one that another group or process put there in between (FET-10, `fetch.rs:974`) |
| `SharedRefsMatchFiles` | `refs`, `Projects <- OnlyShared` | a stale miss enters the ref cache after another target created the ref (`refs/mod.rs:727`, REF-20) |
| `CyclesAreReported` | `params`, `Documents <- Rings` | two mappings that hold one another overflow the stack instead (`eval.rs:196`, RES-15) |
| `KeysNameTheirPlace` | `params`, `Documents <- Copies` | a copied `key` or `fullkey` may name the copy's place (`eval.rs:289`, RES-18) |
| `DeathsAreSurvived` | `pool` | krab restores the default action of SIGPIPE (`main.rs:141`), so writing to a worker that has died ends it (RES-62) |
| `RunsDocumentedPython` | `MCInterpreters`, `Jobs <- MCAroundJobs` | the candidates of the Python backend are `$VIRTUAL_ENV`, `$CONDA_PREFIX` and a `.venv` before a PEX and python3 (`krab-inventory/src/python.rs:93`). CMP-45, RES-63, the deviation table (`compile.md:596`) and the comment at `krab-compile/src/python.rs:69` say these are never consulted; CMP-51 asks for them and is still marked as not met (#223), and the comment at `krab-inventory/src/python.rs:61` states the code's order |
| `ChosenPythonWorks` | `MCInterpreters` | a python3 that is upgraded between the probe and the question for versions is run, and remembered as one that has kadet, since the versions script answers "unknown" without it (`krab-compile/src/python.rs:34` and `169`, CMP-42) |
| `EngineIsCurrent` | `MCInterpreters` | a package upgraded in place keeps the remembered version (`krab-compile/src/python.rs:126`, CMP-33) |
| `ScriptIsWhole` | `MCInterpreters` | a worker's script is taken as it is when it exists, though its writer may have been killed half-way (`krab-inventory/src/python.rs:212`) |
| `AnswersAreWhole` | `cachedir` | threads of one process write the same temporary file of a render (`helm.rs:465`, OUT-15) |
| `WritesOnlyItsCharts` | `cachedir` | the scratch directory a killed compile leaves is found by one with the same process id (OUT-21) |
| `MergingIsAssociative` | `params` | grouping files differently gives other results where a key changes its kind (`inventory.rs:112`) |

For `MCInterpreters` the configuration sets `SPECIFICATION Spec`, `Procs <- MCProcs`,
`Users <- MCUsers` and, where the row names none, `Jobs <- MCJobs`.

The models also contain these, which the documents mention or excuse: edits
during the initial render (SRV-EC-4), watcher errors (SRV-EC-5), the wakeup lost
between check and sleep (#135), sources that change during a compile
(CMP-EC-8), a ref file truncated when its writer is interrupted (REF-45, #144), a call that
gives up although a worker has just become idle (`resolvers/python.rs:324`); and
these, which no document states: the noise filter looks at a path before aliases
are expanded (`watch.rs:43-47`), a discovery error is replaced by an empty list of
targets (`state.rs:123` and `142`), a closing daemon removes the file at its path
without asking whose it is (`rpc.rs:82`), submodules checked out for one item stay
for the next and without a default branch its ref does (`fetch.rs:485`), an archive
that cannot be unpacked leaves a directory that counts as present (`fetch.rs:574`),
two processes at once can lose an update of the Vault, a compile can overwrite a
ref that `krab refs --write` created meanwhile, requirements edited between digest
and install are installed under the old digest, and processes that remember probe
results at once lose entries.

## 7. Not modelled, and why

* **YAML, emitters, output formats, provenance**: text in, text out; what is correct is
  fidelity to kapitan's bytes.
* **The parser of interpolations** (`interp/parse.rs`): documents are syntax trees. The
  initial parameters, `exports` and `applications`, and the resolvers that are
  functions of text (`yaml`, `oc.env`, `oc.decode`, `from_file`, `contrib.rs`).
* **Python resolver workers**: conversion of values, and the file that remembers
  which resolvers a repository defines (looked for, its content not compared).
* **Compile**: two compile processes on one manifest; a failing write of it; sources
  that change while a target's items compile (they do in `Compile`, not in `Items`);
  pruning and formatting of files; template languages; what an external command
  reads, which the code does not observe either (#16).
* **Fetch**: dry runs, registry authentication (`oci.rs:227-460`), formats of layers,
  charts without a version used by two binaries. Writing a file's content is one step of
  `WriteFile`: a part that was written when a copy failed counts as the file, as it does
  for the code's `is_file`.
* **Refs**: encodings, embedded refs, the cache of revealed values, sub-variables'
  contents, several documents per target, authentication of providers.
* **Environments and charts**: installers, requirement files that include others,
  processes of two containers with one id, helm's flags, charts read while they
  are being edited.
* **Life cycle**: two builds whose identity hashes alike (`client.rs:123-135`),
  permissions, logs.
* **Configuration, argument parsing, the language server's document store, VS Code
  extension, vendored parser**: no state of their own, read once, or answers
  computed from one document.
* Inside modelled parts: the text of errors and change summaries, timestamps, the
  `path` of a target, a render that panics, a watch that cannot be set up.

## 8. Plan

Done, in this order: `ClassPaths`, `InventoryRender`, `Daemon` with its first
theorem; `ClassTree`; `LongPoll`; `Lifecycle`; `Compile`; `Fetch`; `Refs`; `Merge`,
`Interpolation` and `Params`; `Items` with its refinement; `WorkerPool`;
`Interpreters` and `HelmRender`; the proofs of `Lifecycle` and `Interpreters`, then
those of `WorkerPool`, `LongPoll`, `Refs`, `Fetch` and `Compile`, staleness in `Daemon`,
rotation in `Refs`, the choice in `Interpreters`, the charts of `HelmRender`, and that a
settled `Daemon` is exact; those of `ClassTree`, the refinement of `Items`, and the passes of `Refs`.

Next, proofs: `Params`, if its recursion over trees is rewritten as functions on finite domains.

Next, models: two compile processes over one manifest; an abstract inventory
("every answer was true at some moment of its batch") that `Daemon` implements; the
language server's document store and requests that combine two reads of the
daemon's state.

A component has one run for safety and liveness where its state space allows, and
components that share a directory are checked in one.
