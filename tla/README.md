# ghciwatch in TLA+

ghciwatch watches a Haskell project, keeps one GHCi session loaded with it, and
publishes the outcome of every compilation in an error log. This directory
specifies that machinery in TLA+, checks it with TLC on small instances, and
proves central facts with TLAPS for all instances.

## 1. The system

| Component (source) | State it keeps | Operations | Talks to |
|---|---|---|---|
| File watcher (`watcher.rs`, `watcher/content.rs`, `event_filter.rs`) | last observed contents, debounced notifications, validation requests | deliver a batch, observe a file, capture states, scan sources, validate a snapshot | sends `WatcherEvent`s (channel of 32), answers the validator's callers (channel of 8), wakes the setup gate |
| Coalescer (`setup_watcher` in `ghci/manager.rs`) | one pending event | merge, forward | dispatch channel of capacity 1 |
| Manager (`GhciManager`) | applied states and snapshot, current, pending and retried event | wait, dispatch, interrupt, replace a session | spawns the dispatch task; receives exit statuses (channel of 1) |
| Session (`Ghci` in `ghci/mod.rs`) | targets, known files, eval comments, publication snapshot, test-hook debt, recovery flag | reload, restart, initialize, add and remove modules, finish_compilation, stop, send_sigint | GHCi's pipes; the validator; the process task |
| Pipe protocol (`stdin.rs`, `stdout.rs`, `stderr.rs`, `incremental_reader.rs`) | read buffers, prompt patterns, stderr collector and its forwarding | write a line, read until a prompt, collect stderr through a marker, resynchronise after SIGINT | GHCi |
| Process task (`ghci/process.rs`) and memory watchdog (`ghci/memory.rs`) | the child process, memory samples | wait, stop, sample, kill the process tree | exit channel, stop requests with acknowledgement, /proc |
| Eval socket (`my.rs`) | connections | evaluate, reload, time out | `EvalBarrier`, then the `Ghci` mutex |
| Hooks (`hooks.rs`) | running asynchronous commands | run before/after events | shell and GHCi |
| Setup gate (`setup.rs`) | which notifications its attempt has seen | run setup-shell, wait for a change | the watcher's notifications, the error log |
| Error log (`error_log.rs`, `compilation_log.rs`) | diagnostics and summary of an attempt | extend, mark failed, write | the file that editors read |
| Shutdown (`shutdown.rs`, `main.rs`) | task handles, broadcast and guard channels | spawn, broadcast, time out, cancel, collect failures | every task |

What is hard here: more than seven tasks run concurrently; files change between
any two reads of them, by the watcher, by GHCi and by the validator; a dispatch
may be aborted at any await; GHCi's answers arrive in arbitrary pieces on two
unordered pipes; the process may die at any moment and its exit status travels
separately from the broken pipe it causes; several timeouts end in a kill and a
replacement; processes fork while they are being killed. Correct means:

* no edit is lost: at rest the session has loaded the files on disk;
* the error log never claims contents that were not compiled, at rest it is
  about the files on disk, and it lists the errors GHCi has with them;
* hooks balance and nest, test hooks owed by superseded attempts run, and eval
  comments are those of the code that was compiled;
* a command is answered with its own output, whatever was cancelled before it;
* one GHCi process at a time, exit statuses are never mistaken, a dead session
  is replaced, a crash loop gives up only when nothing has changed;
* a killed session leaves no process behind and takes no other with it;
* everything comes to rest after the last edit, and to an end after a shutdown,
  with every failure reported and none invented.

PROJECT.json lists the hazards behind these sentences, line by line, with the
properties that are about them.

## 2. Modules

| Module | Models | Role |
|---|---|---|
| `WatcherEvent` | `WatcherEvent` and its `merge`, `discard_applied`, `mark_applied`, `drain_pending`; the kinds of path | constants and pure operators |
| `ReloadActions` | `get_reload_actions` and the classifier | pure operators |
| `ReloadPipeline` | watcher, coalescer, manager, dispatch task, GHCi's reads, validator, publication, hooks | state machine: healthy session |
| `CompilationAttempt` | the inside of one attempt: add, remove, reload, compilation log, error file, eval comments, nested hooks, reload from the eval socket | state machine: one attempt and its rivals |
| `SessionRecovery` | process task, watchdog, exit statuses, stop, replacements, crash loop, evals, shutdown | state machine: failing session |
| `CommandSession` | what a session promises its callers: one command, one answer | abstract specification |
| `PipeProtocol` | the three pipes, stderr collector, SIGINT recovery, sync barrier | state machine, implements `CommandSession` |
| `IncrementalReader` | the stdout reader, byte by byte | state machine against a reference definition |
| `Lifecycle` | `ShutdownManager`, the tasks of `main`, start-up and replacement of sessions as tasks, the setup gate | state machine: from start to exit |
| `ProcessTree` | the kernel's process table, memory samples, `kill_process_tree` | state machine |
| `MC...` | instances for TLC; `MCReloadRace` is one with a user who waits for chosen moments to edit | |
| `WatcherEventProofs` | what merging, stripping and marking events preserve | lemmas that the next two groups cite |
| `ReloadPipelineProofs`, `PublicationProofs` | `ReloadPipeline` | theorems: types, publication, follow-ups, hooks, test-hook debt |
| `SessionRecoveryProofs` | `SessionRecovery` | theorems: types, one process, exit statuses; what holds at rest and in the crash loop |
| `CompilationAttemptProofs` | `CompilationAttempt` | theorems: hooks nest, the evals run are the validated ones, the error file is true |
| `IncrementalReaderProofs` | `IncrementalReader` | theorem: the progress timeout |
| `LifecycleProofs` | `Lifecycle` | theorems: types, failures, setup gate |
| `ProcessTreeProofs` | `ProcessTree` | theorems: bystanders are spared, nothing of the tree survives |

The modules split the program by concern. `ReloadPipeline` keeps every file
read, channel and await of the manager apart but assumes that the session lives
and that SIGINT restores its prompt. `CompilationAttempt` opens up what is one
step there (the commands of an attempt, what they add to the log) and makes
capture and compilation atomic. `SessionRecovery` makes a look of the watcher, a
compilation and a validation atomic, and lets the session die, hang or be killed
at every step. All three use `WatcherEvent`, two of them `ReloadActions`.
`PipeProtocol` justifies what they assume of a command, `IncrementalReader` what
`PipeProtocol` assumes of a read, `ProcessTree` what `SessionRecovery` assumes
of a kill, and `Lifecycle` has the tasks around all of them.

### ReloadPipeline

* `disk` is what the user edits (`Edit`). The paths fall into five kinds, which
  stand for the combinations of extension and glob the classifier tells apart.
* The watcher's two event builders (debouncer thread and validator) are
  `sender["handler"]` and `sender["validator"]`. Each looks at files one by one
  (`observe`, `validate_source_snapshot`), captures states one by one
  (`CaptureState`), scans all sources one by one (`scan_haskell_files`), and sends.
* `mpc` follows the manager: `wait_for_event`, `handle_event`, the select loop
  (`ReceiveWhileDispatching`, `FinishDispatch`), the interrupt decision
  (`should_interrupt`) and its execution (`InterruptReload`), which are separate
  because `task.abort()` may come after the task has moved on.
* `tpc` follows the dispatch task through `Ghci::reload` or `Ghci::restart`:
  classify, before hooks, `:unadd`, `:add`, commit, `:reload`, or a fresh session
  and its synchronisation; then validation, publication, after hooks, post
  actions. GHCi reads its files one by one (`ReadFile`).
* `published` records what the log says, the snapshot it claims and what was in
  fact compiled; the last two are how publication correctness is stated.

### CompilationAttempt

* `barrier` is the `EvalBarrier`; `mpc` and `epc` are the manager and the handler
  of a `:reload` request. Whoever holds the barrier runs the attempt `att`.
* `att.log` is the `CompilationLog`, filled as the commands fill it: stdout,
  stderr and parsed diagnostics, `mark_failed`, `fill_empty_summary`, and the
  named `:add` whose failure is discarded or kept (`KeepsNamedLog`).
* `evals` are the comments on record, read file by file (`UpdateEntry`);
  `executed` are those the attempt has run. `open` is the stack of lifecycle
  events whose before-hooks have run.
* `interrupts` is `--interrupt-on-error`, chosen initially: a broken compilation
  may then stop at its first error.
* Abstractions: an event is captured, and a target set compiled, in one step; no
  file returns to an earlier state; warnings are left out; of a hook only its
  place in the nesting is kept.

### SessionRecovery

* Sessions are numbered by generation; `alive` are the processes that run and
  `watch[s]` is where the `GhciProcess` task of session `s` is. Its biased select
  is `ProcessStop`, `ProcessExited`, `Watchdog`; `SendExit` is the notification.
* `owner` holds the `Ghci` mutex and `barrier` the `EvalBarrier`. `opc` follows
  the holder through an operation: reload or restart by the task, a replacement
  by the manager; an eval has its own `epc`.
* `result` is how the operation ended, as the manager tells errors apart: broken
  pipe, recovery failure, or anything else ("fatal").
* `mpc` has the states of `wait_for_event`, of the arms of `handle_event`'s
  select, and of `wait_and_restart`, whose local variables are the record `retry`.
* `started` is a history variable: the files when the session was launched.

### PipeProtocol and CommandSession

* A caller's remaining work is the sequence `caller.todo` of await points.
  Cancellation (a dropped future, a timeout) throws it away and leaves pipes,
  reader and collector as they are; `send_sigint` then starts the recovery.
* `pipe` holds the three pipes as sequences of tokens. A token of output carries
  the command line it belongs to. GHCi (external) reads a line, prints on both
  pipes in any order, and ends with a prompt; SIGINT makes it print another one.
* `task` is `GhciStderr`: its channel, its current effect (collecting through a
  marker, draining, backing off), its buffer and the suppressed one.
* `CommandSession` has four phases and says that an answer contains all output of
  the attempt that succeeded, nothing of another command, and nothing twice. The
  refinement mapping is `Service`, with history variables for what GHCi printed.
* Assumptions about GHCi: its output ends with a newline before the prompt; it
  acts on a SIGINT before it reads the next line; a logger that outlives an
  interrupt prints only until the prompt is back. Test hooks and `:show`
  commands have no timeout in the code, so nothing cancels them but a shutdown.

* An operation that fails empties `todo`, except for what its error path does:
  `initialize` drains stderr after a broken pipe, and only then, and `add_modules`
  switches forwarding on again (`Unwind`). `StartupFailureReported` is about the
  first; an answer the stderr task dropped is not a broken pipe and drains nothing
  (section 4).

### IncrementalReader

Bytes are letters of a small alphabet with a two-byte character, an ANSI escape,
an invalid byte and the two halves of each marker. `feed` yields any number of
them per read. Each await is a state, at which `Cancel` and the progress timer
can strike. The reference definition cuts the whole response at its newlines.

### Lifecycle

Each task of `main` and of a session has a subscription in `inbox`, which is
`told` when a broadcast reaches it; a clone subscribes anew and has not been
told. `ghci.at` follows `run_ghci` through `Ghci::new`, `initialize`, waiting,
restart, crash delay and stop; `setup` is the gate in front of each launch, with
the file contents, what the attempt has read, what the watcher's content filter
observed last (`Observe`), and what has been delivered.

* A watcher that fails before it is ready ends `main` with the error of a channel
  (`main.early`); `check_task_failures` is not reached, and no task is named.
* A session is "orphan" when its command was killed by `kill_on_drop` only, so that
  what it started may live on. `NoOrphan` exempts three cases: the user pressed
  Ctrl-C twice; `Ghci::new` was dropped between the start of the command and of the
  task that watches it; and that task subscribed after the broadcast where nobody
  else will stop the session (`hist.late`): under the retry of a crashed session, or
  under a `run_ghci` that itself subscribed too late (section 4).
* `FailuresHaveACause` exempts a shutdown that strikes before `run_ghci` has
  subscribed, while it clones its handle or constructs a session, or while a session
  is being stopped to be replaced (`hist.struck`); section 4 says why.

Assumptions: steps that wait for nothing outside finish before the shutdown
timeout; an abort takes effect at once; notifications that arrive while no setup
is running are seen at its start.

### ProcessTree

`table` is the kernel's process table; a process is a PID with a start time.
Processes fork, leave their group, exec and exit between any two reads of /proc,
and freed PIDs go to unrelated processes (`Arrives`). The kill discovers, stops
and pins processes until a pass finds nothing new, then kills what it has pinned
and the group. Reading a process's identity and stopping it is one step.
A process that leaves the group and whose parent then exits before it has been
frozen cannot be found by any reader of /proc; it is labelled "lost" and
exempt. Unrelated processes do not fork. A wrapper command that exits by itself
leaves its descendants alone, as in the code.

## 3. Runs

| Run | Instance | Question |
|---|---|---|
| `pipeline_interrupt` | one source, one .cabal, two edits, interrupts on, ghci channel of 1, fairness | are edits lost, does the log lie, does everything settle, in the default configuration? |
| `pipeline_kinds` | a source, ignored, package and extra files, two edits incl. deletions, restart on add, no interrupts | do the kinds of path reach the session, do superseded attempts, hooks and test-hook debts settle? |
| `pipeline_race` | a source and an extra file, four edits at chosen moments, no interrupts | finding: events that overtake each other hide an edit |
| `attempts` | two sources, one .cabal, three edits incl. deletions, one reload request, both values of `--interrupt-on-error` | do hooks nest, are eval comments validated, is the error file true? |
| `recovery` | two failures, two edits, an eval, a shutdown | one process, right statuses, no edit lost |
| `recovery_live` | fairness, GHCi hooks, two failures | is a dead session replaced, does a shutdown kill all? |
| `recovery_fatal` | one failure | finding: an exit during a restart ends ghciwatch |
| `recovery_unpublished` | GHCi hooks, two failures, two edits, an eval | finding: a replacement's result is not published |
| `pipes` | five kinds of operation, two operations, two faults, two SIGINTs | does the protocol implement `CommandSession`, can it stall? |
| `reader` | all responses of up to three characters over six symbols, two reads | is the reader independent of how bytes arrive? |
| `lifecycle` | two sessions, one edit, one crash, no reverts, fairness | are failures reported and none invented, processes killed, setup repeated for each change and nothing else, and does main return? |
| `processes` | five PIDs, two births | does the tree die, are others spared, is memory charged right? |

Each property has a mutant in PROJECT.json: a plausible fault ("Fault:" in the
modules) under which TLC finds it violated.

**Bounds.** `MaxEdits` is 2 or 3: one edit that is being handled, one that
interrupts, supersedes or hides it, and one more after the follow-up. Four edits
are too many for all interleavings; `pipeline_race` fixes when they happen, and
leaves every step of the program free. `Contents`
has one value more than there are edits of a file where edits must be new.
`GhciCap` is 1 or 2 for the 32 of `main.rs`: full and nearly full channels are
where senders block. `MaxFailures` 2 reaches a replacement that dies too, which
is what the crash loop is about. `MaxSessions` of `SessionRecovery` never binds:
no behaviour of its instances launches more. In `PipeProtocol`, `MaxOps` 2 lets
an operation meet what its predecessor left, and `MaxFaults` 2 lets a recovery
be disturbed in turn; `MaxSigints` 2 has a first and a repeated signal. Three
characters per response put a marker, a character or an escape on either side of
a cut; the second response meets what a cancelled first one left. In `Lifecycle`
two sessions are one and its replacement; the edit is new contents, a touch or an
identical rewrite, at any point of an attempt. The setup gate alone (no crash) was
also checked with three edits, which takes as long again, and is proved for all. In `ProcessTree` three PIDs are the
command, Cabal and GHC, and two births are a fork that forks again, or a fork
and a stranger that takes a freed PID. `Reverts` FALSE means that an edit does
not restore contents the file had before; see section 4. Deadlock is not
checked: a quiet system may stop, and `NoStall` and the liveness properties say
where it may not.

**Fairness.** Each task of the program is weakly fair: tokio and the debouncer
thread run what is ready, GHCi finishes a compilation whose files it can read,
an eval ends or runs into its timeout, and the kernel reports exits. In
`Lifecycle` only `main`'s own steps and those that wait for nothing outside are
fair: setup-shell, a hook or a compilation may take for ever, and the shutdown
must end all the same. Users are not obliged to edit or to shut down, and
sessions are not obliged to fail.

## 4. What the checks show

In the passing instances no edit is lost, the log describes what was compiled,
the recovery logic replaces sessions without mixing up their statuses, the pipe
protocol gives each command its own answer, and a shutdown ends. Where a theorem
of section 5 states a property, it holds beyond the instance; `QuiescentLoaded`
of `ReloadPipeline` holds within the bounds of its two passing runs only. Three
runs show a disagreement with what the repository says:

* `pipeline_race`: the debouncer thread and the validator build events
  concurrently (`watcher.rs:421`), and one that was captured earlier may be sent
  last. `merge` takes the order of arrival for the order of the scans
  (`manager.rs:81-83`), so a dispatch may be about the newer state of a file and
  an older snapshot of it. That one is superseded, and the validator captures the
  file again, in the state that was just compiled. If the file is edited before
  the validator scans it, and the debouncer's event about that edit is sent
  before the validator's, then the merged event has the older state and the newer
  snapshot; the manager drops the hint as applied (`manager.rs:101`), and what
  remains dispatches nothing for the file. Its last version is claimed by the
  final publication and never loaded, although `README.md:28-29` says that the
  session is reloaded when source files change. It was an attempt to prove
  `QuiescentLoaded` that led to this run.
* `recovery_fatal`: a session that exits by itself during a restart makes
  `Ghci::stop` fail, and the manager returns that error, although
  `tests/shutdown.rs:370-371` says that ghciwatch detects the exit and restarts.
* `recovery_unpublished`: a before-restart GHCi hook that fails leaves the
  publication snapshot of the abandoned attempt behind. The replacement compares
  its own files with it and suppresses its result (`mod.rs:1124`), and no
  follow-up comes, although `mod.rs:2024-2026` counts on one. Without GHCi hooks
  this cannot happen: that is the theorem `PublicationCatchesUp`.

More behaviours that the code or its documentation does not seem to intend, with
the constants that reproduce those that a configuration can reach:

* `PipeProtocol`, with "undrained" added to "failed" in `StartupFailureReported`: a
  command that dies between the stderr marker and its answer makes the stderr task
  drop the answer (`stderr.rs:200-202`). That error is no broken pipe, so
  `Ghci::initialize` does not drain what the task has buffered (`mod.rs:634`) and
  publishes its fallback message, although `mod.rs:658-659` says that raw stderr is
  published when available. For the same reason `run_ghci` and the manager return
  the error instead of starting the session again (`manager.rs:251`; `SessionFails`
  in `Lifecycle`; `SessionRecovery` has broken pipes only).
* `Lifecycle`, with `MaxSessions = 1`, `MaxEdits = 2` and `Reverts = TRUE`:
  `NoMissedRepair` fails. The watcher drops a batch whose files have the contents it
  observed last (`watcher.rs:324`, `watcher/content.rs:48`), so an edit that the
  attempt read and failed on, and that is undone before the batch arrives, wakes
  nobody, although `setup.rs:28` says that edits made while an attempt runs are
  retained.
* `Lifecycle`, with `MaxEdits = 0`, and with `Told(run_ghci)` in the premise of
  `NoOrphan` instead of the exemption of `hist.late`: `wait_and_restart` awaits the replacement of a crashed session without
  looking at the shutdown (`manager.rs:1028`). Its process task subscribes after the
  broadcast; when the time limit of the shutdown ends first, the command is killed
  and what it started is not, although `tests/shutdown.rs:513-514` expects the
  shutdown manager to terminate the tree and `main.rs:118-119` every task to receive
  its broadcast.
* `ReloadPipeline`, with one source, `MaxEdits = 3`, `InterruptReloads = FALSE`,
  `Deletions = FALSE`, `Contents = {v1, v2}` and `Reverts = TRUE`:
  `SupersededIsFollowedUp` fails. Undoing a save while
  it compiles, and saving it again, suppresses the publication; the follow-up
  equals the applied event and is discarded (`manager.rs:816`;
  `tests/error_log.rs:655-656`).
* `ReloadPipeline`, as `pipeline_interrupt`: `HooksBalanced` fails. The task may
  finish between the interrupt decision and the abort; after-reload hooks then
  run twice for one attempt (`manager.rs:679`; `docs/lifecycle-hooks.md:151`).
  This is why the property is checked under `--no-interrupt-reloads`.
* `ReloadPipeline`, `InterruptReloads = TRUE` and `Deletions = TRUE`:
  `QuiescentLoaded` fails. A dispatch aborted between `:unadd` and its
  bookkeeping leaves a target on record that GHCi no longer has (`mod.rs:932`;
  `mod.rs:946-947`).
* `ReloadPipeline`, `AutoReload = FALSE` and `InterruptReloads = TRUE`:
  `QuiescentTested` fails. An interrupted `:add` is followed by a no-op, and its
  test hook never runs.
* `CompilationAttempt`, without the exemption of `interrupts` in
  `EvalsAreValidated`: an interrupted `:reload` skips the refresh of the eval
  comments, and a later reload of other files runs the old ones (`mod.rs:957`;
  `docs/comment-evaluation.md:75`).
* `CompilationAttempt`, without the exemption of `att.post` in `ErrorFileIsTrue`:
  a no-op dispatch, for a source that came and went within one debounce, writes
  an empty log over standing errors.
* A source deleted between `:reload` and the refresh of its eval comments makes
  the dispatch fail, which ends ghciwatch (`mod.rs:1434`).
* The comment at `mod.rs:1578-1580` about the summary of an `:add` is not what
  `fill_empty_summary` does when an earlier command succeeded; the comment at
  `mod.rs:2021` about duplicates does not hold for raw stderr.
* `incremental_reader.rs:121` says that all data read is returned; `take_lines`
  drops a partial line at the end of the input.
* A shutdown inside `Ghci::new` is returned as a plain error ("Shutdown during
  setup", `mod.rs:477`), where `shutdown.rs:339-344` has a type for it. Hence
  `FailuresHaveACause` exempts a shutdown that met a construction.
* The eval socket's listener keeps a `Ghci`, and with it a shutdown guard: once
  it is bound, a shutdown ends by its timeout, never by the guard channel.
  Likewise a manager that awaits the status of a session it killed
  ("awaitKilled") does not listen to the shutdown, and the process task, having
  seen it first, never sends the status.
* `kill_process_group` has no process identity to compare. If the command is
  reaped by its watcher while recovery kills it, and its PID becomes the group of
  another process in between, that group is signalled; `BystandersSpared` exempts
  kills during which the command was reaped.

## 5. Proofs

The theorems hold for every value of the constants: all sets of paths, contents,
options, channel capacities, and any number of edits, failures, evals, sessions,
PIDs and births. They rest on the assumptions of `WatcherEvent`,
`ReloadPipeline`, `SessionRecovery`, `CompilationAttempt`, `Lifecycle` and
`ProcessTree`, which TLC evaluates in every run, and on nothing else unless it is
said below. Every inductive invariant was checked with TLC on the instance of the
run before it was proved.

**Events** (`WatcherEventProofs`). Which hint, state and snapshot `merge`,
`strip_applied` and `mark_applied` leave for each path, and that none of them
invents a hint or an observation. The other proofs cite these lemmas and leave
the operators unexpanded.

**ReloadPipeline.**

* `TypeCorrect`: `Spec => []TypeOK`. `TypeOK` is not inductive, because the types
  of `merge`d events and of `dispatchChan[1]` depend on there being an event:
  `TypeInv` adds `Shape`, which says in which manager and task states there is a
  current, incoming or pending event.
* `PublicationCorrect`: if edits never restore old contents,
  `PublishedIsWhatWasCompiled` always holds. The argument follows one file: what
  the watcher saw was on disk at some time (`Seen`); a compilation read the file
  after the event was scanned (`Compiled`); the validator looks after that. If
  the snapshot still matches then, the file had the same contents at both ends,
  and since contents do not come back it had them throughout. The inductive
  invariant `PublicationInv` carries these facts through queue, task and
  validator (`Asked`, `Validated`). The assumption `Reverts = FALSE` is necessary
  for the argument.
* `FollowUpCorrect` (`SupersededIsFollowedUp`) and `FinalPublicationCorrect`
  (`QuiescentPublished`), also without reverts: an attempt whose publication was
  suppressed is never the last one, and at rest the log claims the files on disk
  and holds the result of what GHCi has loaded. Of all events on their way only
  the one sent last matters, since `merge` takes its snapshot (`Newest`), or else
  the snapshot of the dispatch (`Base`). `FollowUpInv` says of each path
  (`CaughtUp`) that this snapshot has its present state, or that the path is still
  to be noticed: the debouncer has not told of the last edit (`DetectionAhead`), a
  sender has the path in hand, the dispatch is not validated yet, or an event is
  waiting that will be dispatched because its snapshot differs (`WillDispatch`).
  The other parts make this inductive: a file that the debouncer has not reported
  is still notified (`Remembered`); the handler's scan is not out of date about a
  file that was observed since (`HandlerLate`); a validator that hints at something
  sends a snapshot that differs from the request (`Differs`); and the requests of
  aborted dispatches come before that of the running one (`Orphans`). `Outdated`
  and `UpToDate` say what a superseded and a published attempt leave. The theorems
  hold although `QuiescentLoaded` does not: in `pipeline_race` the snapshots are
  right in the end, and what is lost is the hint.
* `HooksCorrect` (`HooksBalanced`) for `InterruptReloads = FALSE`, with any edits
  and reverts: then the manager never leaves a dispatch under way, so the
  before-hooks are open exactly from `handle_event` to the task's after-hooks
  (`Balanced`). With interrupts the property fails, see section 4.
* `TestDebtPaid` (`QuiescentTested`), for `InterruptReloads = FALSE` without
  reverts: the debt of a superseded attempt is outstanding only as long as the
  last answer was "superseded" (`Owed`), so `SupersededIsFollowedUp` settles it.
  This is for every choice of `AutoReload`, `RestartOnAdd` and `ReplaceAutoAdd`,
  of which the runs have two combinations.

**SessionRecovery.**

* `RecoveryTypeCorrect`, `AtMostOneProcess` and `StatusBelongsToSession`: types;
  one GHCi process until a shutdown; an exit status in flight is the dead current
  session's. The invariant relates where each process task is to what is alive
  and to who holds the session: only a holder that has seen the old process gone
  launches another.
* `NoEditLost` (`QuiescentLoaded`): `LoadInv` says where each edit is as long as
  the session has not loaded it: on disk and not looked at, in the queue, with
  the manager, or with the operation that is to load it; a path that is recorded
  as applied has been loaded by the session or is being loaded.
* `CrashLoopTriesEveryEdit` (`CrashLoopIsCurrent`): `CrashInv` adds what the
  replacement that died was started with.
* `PublicationCatchesUp` (`QuiescentPublished`), under `~GhciHooks`: `PublishInv`
  says that a suppressed publication implies a newer event on its way. The
  hypothesis is exact: with GHCi hooks `recovery_unpublished` refutes it.

**CompilationAttempt.**

* `LifecycleHooksNest` (`HooksNest`): `HookInv` gives the stack of open lifecycle
  events for each place of the attempt, and ties the attempt to the holder of the
  barrier.
* `EvalsCorrect` (`EvalsAreValidated`): `EvalsInv` looks at one source at a time.
  Unless a change of it is not yet taken up (`Noticed`) or the attempt has still to
  deal with it (`TargetTodo`, `CommentTodo`), it is a target exactly if it exists
  (`TargetsRight`), and `eval_commands` has for it the comment that is on disk
  (`CommentsRight`; `NoEntry` and `FreshRight` for the map that a refresh is
  building). `Captured` says that contents do not come back, so the paths that
  differ from the snapshot are exactly those changed since, and a snapshot that is
  found current was valid all along; `Holder` and `Work` tie this to the place of
  the attempt. `EvalsWanted` carries it past the after-hooks through the evals,
  which take entries away again.
* `ErrorFileCorrect` (`ErrorFileIsTrue`) from `FileInv`: as long as no change is
  waiting to be taken up (`Quiet`), the log holds errors of bad sources only
  (`Sound`) and tells whether the targets compile (`Tells`), up to the commands
  that the attempt has still to run (`LogTrue`, `CompilesLater`); an attempt that
  is not superseded writes exactly that log, so the file says the same
  (`FileTrue`, `WriteFacts`).

**IncrementalReader.**

* `InactivityIsReal` (`InactiveHasNoProgress`) from `ClockInv`: the timer of a read
  never runs ahead of the time since a progress marker was completed, because a
  marker that the new bytes complete is searched for in the line and the bytes
  together (`CompletedIsSeen`).

**Lifecycle.**

* `LifecycleTypeCorrect`, and `MainReportsFailures` (`FailuresReported`) from
  `FailInv`: only the watcher and `run_ghci` fail; results are sent for failures
  only; a watcher that is gone before it was ready has failed, and then nothing
  else has been spawned, so the early return of `main` is an error exactly because
  a task failed, although it names none. Every other return names all.
* `ShutdownIsNoFailure` (`FailuresHaveACause`): as long as no task has failed by
  itself and no shutdown has met a construction, `CauseInv` excludes each way to
  fail: no construction is under way once a shutdown is requested, the watcher
  does not end before that, and the handle that `Ghci::stop` asks was subscribed
  before the broadcast.
* `SetupRetriesForEdits` (`RetriesAreEdits`) from `SpareInv`, for all edits: every
  change of contents pays for one attempt, and a notification that is still unused
  has not been paid for.
* `RepairsAreSeen` (`NoMissedRepair`) from `SetupInv`, for `Reverts = FALSE`: as
  contents do not come back, files that differ from what the watcher observed last
  have a batch under way, and what it observed since the attempt began was notified.
  The assumption is necessary, see section 4.

`Lifecycle!AllWait` says `ENABLED`; it stays unexpanded, and no theorem depends
on it.

**ProcessTree.**

* `NoBystanderSignalled` (`BystandersSpared`): until the command is reaped its PID
  and group are its own (`SpareInv`); another's process leads its own group and
  has no parent in the session, so no reading of it is in `process_tree` (the
  least set closed under children, which makes this a matter of one witness); and
  a process recorded for the tree is never one of another's with the same start
  time, because a PID that is given away starts later than all that was read.
* `TreeIsGone` (`NoSurvivor`): from the moment the group is stopped, neither the
  group nor the children of a stopped process can grow (`BornStep`), so what a
  pass has read of them stays true (`ReadMembers`, `ReadChildren`). When a pass
  finds nothing new, everything it read of the tree is captured and therefore
  stopped (`CapturedStopped`), so those processes are closed under children in the
  kernel's table as well as in the reading, and the tree of the table is among
  them (`LastPass`). The two rounds of SIGKILL then leave nothing. `Anchored` keeps
  others away from the command's PID as long as the session has a process, also
  after the command was reaped. The theorem speaks of kills without an error: if
  /proc cannot be listed only the group is killed.

Only model-checked: `QuiescentLoaded` of `ReloadPipeline`, for two edits (false
for four, `pipeline_race`); liveness and `NoOrphan`, whose argument needs `AllWait`
(fairness and ENABLED are out of TLAPS's reach), `NoStall` (ENABLED), the
findings, the other properties of `IncrementalReader` (what a read returns takes
induction over the bytes), the refinement of
`CommandSession`, and the memory properties (`ChargedForItself`,
`LimitNotMissed`: `Ancestor` is a recursive function); and, not attempted, the
safety of `PipeProtocol` (`IdleInSync`, `DiagnosticsShown`,
`StartupFailureReported`).

## 6. Not modelled

* GHCi itself, the shell commands, the file system and the kernel are external:
  a compilation reads its targets one by one and fails if one is bad or missing.
* Edits during the very first startup, and the polling watcher used while
  startup is retried; symlinks; the memory diagnostic mode; failures to spawn a
  process; asynchronous shell hooks, which nothing waits for but the shutdown.
* In `CompilationAttempt`, hooks or pipes that fail inside a restart, which end it
  early (`mod.rs:1163-1178`, `1205-1209`, `1219-1228`): `SessionRecovery` has these
  failures, without the nesting of hooks. The interrupt that races the end of a
  dispatch is in `ReloadPipeline` only.
* The generator behind `--replace-auto-add-shell` is taken to run; that it makes
  new files reachable is its own business.
* Module names, scope and interpretation flags in `ModuleSet`: which name a
  target goes by does not affect what is compiled.
* The eval socket's wire format; `SocketLease`, which concerns two instances of
  the program and the file system, and none of the state modelled here.
* The error log's rename is one step with its write.
* Parsers, command line, TUI, tracing, memory log: text and presentation,
  nothing concurrent that the rest depends on.

## 7. Plan

1. Done: `WatcherEvent`, `ReloadActions`, `ReloadPipeline`, `SessionRecovery`,
   `CommandSession` and `PipeProtocol` with the refinement, `IncrementalReader`,
   `Lifecycle`, `ProcessTree`, `CompilationAttempt`; the theorems of section 5.
2. Proofs to come: the safety of `PipeProtocol`, which needs an invariant over
   the remaining await points of every script.
3. Open in the model: the startup variant of the watcher, and `SocketLease`.
