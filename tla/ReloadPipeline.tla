--------------------------- MODULE ReloadPipeline ---------------------------
(***************************************************************************)
(* The path of an edit through ghciwatch: file system, debounced watcher,  *)
(* event coalescer, GHCi manager, dispatch task, GHCi session, and the     *)
(* publication-time snapshot validator that guards the error log.          *)
(*                                                                         *)
(* Six actors interleave: the user who edits files, the debouncer thread   *)
(* (EventHandler), the run_debouncer task (the validator), the             *)
(* setup_watcher task (the coalescer), GhciManager, and the dispatch task  *)
(* that runs Ghci::reload.  Files are read one at a time, by the watcher   *)
(* and by GHCi alike, so an edit may fall between any two reads.           *)
(*                                                                         *)
(* The session stays alive and answers SIGINT in this module.              *)
(***************************************************************************)
EXTENDS ReloadActions, Sequences, Naturals, FiniteSets

CONSTANTS
    Bad,               \* contents that do not compile
    CmdTargets,        \* sources the configured command loads by itself
    InterruptReloads,  \* ~ --no-interrupt-reloads
    GhciCap,           \* capacity of the ghci channel (32 in main.rs)
    CommandCap,        \* capacity of the watcher command channel (8 in main.rs)
    MaxEdits,          \* bound: number of edits
    Deletions,         \* bound: may an edit delete a file?
    Reverts            \* bound: may an edit restore a state the file had before?

ASSUME PipelineConstants ==
    /\ Bad \subseteq Contents
    /\ CmdTargets \subseteq Source
    /\ {InterruptReloads, Deletions, Reverts} \subseteq BOOLEAN
    /\ GhciCap \in Nat \ {0} /\ CommandCap \in Nat \ {0} /\ MaxEdits \in Nat

VARIABLES
    disk,        \* [Path -> FileState]: the file system
    used,        \* [Path -> SUBSET FileState]: every state a file ever had
    edits,       \* number of edits so far
    notified,    \* paths with a notification in the debouncer
    content,     \* ContentChanges.files
    sender,      \* the two tasks that build watcher events: pc, todo, event
    vqueue,      \* ValidateSourceSnapshot commands: expected and whether awaited
    ghciChan,    \* ghci_sender -> setup_watcher
    coalesced,   \* setup_watcher's pending event
    dispatchChan,\* setup_watcher -> manager, capacity 1
    mpc,         \* where the manager is
    current,     \* handle_event's event
    incoming,    \* the event an interrupt decision is being made for
    pending,     \* handle_event's pending_event
    mayInterrupt,\* reload_state_receiver is still Some
    applied,     \* applied_states
    appliedSnap, \* applied_source_snapshot
    hooks,       \* before/after-reload balance: closed, open, or broken
    tpc,         \* where the dispatch task is
    op,          \* the compiling command in flight
    kind,        \* the GhciReloadKind the task last sent
    acts,        \* the ReloadActions of this dispatch
    synced,      \* synchronized_haskell_files
    unread,      \* files the running compilation has yet to read
    expected,    \* publication_snapshot
    reply,       \* the validator's answer, or "none"
    log,         \* result of this attempt's CompilationLog
    known,       \* known_haskell_files
    targets,     \* Ghci.targets
    pendingTest, \* pending_test_hook
    initFailed,  \* initialization_failure is Some
    gtargets,    \* GHCi's own target set
    loaded,      \* [Path -> FileState]: what GHCi last read of each file
    untested,    \* a successful compilation has not been followed by test hooks
    published    \* the error log: result, claimed snapshot, compiled contents

envVars == <<disk, used, edits>>
watcherVars == <<notified, content, sender, vqueue>>
queueVars == <<ghciChan, coalesced, dispatchChan>>
managerVars == <<mpc, current, incoming, pending, mayInterrupt, applied, appliedSnap>>
taskVars == <<tpc, op, kind, acts, synced, unread, expected, reply, log>>
ghciVars == <<known, targets, pendingTest, initFailed, gtargets, loaded, untested>>
vars == <<envVars, watcherVars, queueVars, managerVars, hooks, taskVars, ghciVars, published>>

Senders == {"handler", "validator"}
BlankEvent(snapshot) == [events   |-> [p \in Path |-> "none"],
                         states   |-> [p \in Path |-> Unknown],
                         snapshot |-> snapshot]

Present == {p \in Path : disk[p] # Missing}

\* CompilationLog::result after a compilation that read `files' for the targets.
CompileResult(files, targetSet) ==
    IF \E p \in targetSet : files[p] \in Bad \union {Missing} THEN "err" ELSE "ok"

-----------------------------------------------------------------------------
(***************************************************************************)
(* Init is the state after a startup during which nothing was edited: the  *)
(* session holds the command's targets, nothing has been dispatched.       *)
(***************************************************************************)
Init ==
    /\ disk \in [Path -> FileState]
    /\ \A p \in Source : disk[p] # Missing => p \in CmdTargets
    /\ used = [p \in Path |-> {disk[p]}]
    /\ edits = 0
    /\ notified = {} /\ content = disk
    /\ sender = [s \in Senders |->
          [pc |-> "idle", todo |-> {}, event |-> BlankEvent([p \in Haskell |-> Missing])]]
    /\ vqueue = <<>> /\ ghciChan = <<>> /\ coalesced = NoEvent /\ dispatchChan = <<>>
    /\ mpc = "wait" /\ current = NoEvent /\ incoming = NoEvent /\ pending = NoEvent
    /\ mayInterrupt = FALSE
    /\ applied = [p \in Path |-> Unknown] /\ appliedSnap = NoSnapshot
    /\ hooks = "closed"
    /\ tpc = "idle" /\ op = "none" /\ kind = "none" /\ acts = NoActions
    /\ synced = {} /\ unread = {} /\ expected = NoSnapshot /\ reply = "none" /\ log = "empty"
    /\ known = {} /\ targets = CmdTargets \intersect Present
    /\ gtargets = targets /\ pendingTest = FALSE
    /\ loaded = [p \in Path |-> IF p \in Source \ gtargets THEN Missing ELSE disk[p]]
    /\ initFailed = (CompileResult(loaded, gtargets) = "err")
    /\ untested = FALSE
    /\ published = [result |-> CompileResult(loaded, gtargets),
                    claimed |-> [p \in Haskell |-> disk[p]], compiled |-> loaded,
                    targets |-> gtargets]

-----------------------------------------------------------------------------
\* The user: one write, creation or deletion, and the kernel's notification.
Edit(p, s) ==
    /\ edits < MaxEdits
    /\ s # disk[p]
    /\ s = Missing => Deletions
    /\ Reverts \/ s \notin used[p]
    /\ disk' = [disk EXCEPT ![p] = s]
    /\ used' = [used EXCEPT ![p] = @ \union {s}]
    /\ edits' = edits + 1
    /\ notified' = notified \union {p}
    /\ UNCHANGED <<content, sender, vqueue, queueVars, managerVars, hooks, taskVars,
                   ghciVars, published>>

-----------------------------------------------------------------------------
(***************************************************************************)
(* The watcher.  The debouncer thread and the validator both look at files *)
(* ("look"), and if something changed capture the state of every hinted    *)
(* path ("states"), then scan all Haskell sources ("scan"), then send.     *)
(***************************************************************************)
SetSender(s, r) == sender' = [sender EXCEPT ![s] = r]

Done(s, pc) == sender[s].pc = pc /\ sender[s].todo = {}

\* EventHandler::handle_event: a debounce batch is delivered.
DeliverBatch(batch) ==
    /\ sender["handler"].pc = "idle"
    /\ batch # {} /\ batch \subseteq notified
    /\ notified' = notified \ batch
    /\ SetSender("handler", [pc |-> "look", todo |-> batch,
                             event |-> BlankEvent([p \in Haskell |-> Missing])])
    /\ UNCHANGED <<envVars, content, vqueue, queueVars, managerVars, hooks, taskVars,
                   ghciVars, published>>

\* ContentChanges::observe on one path: hint only contents that changed.
observe(p) ==
    LET r == sender["handler"] IN
    /\ r.pc = "look" /\ p \in r.todo
    /\ content' = [content EXCEPT ![p] = disk[p]]
    /\ SetSender("handler", [r EXCEPT !.todo = @ \ {p},
          !.event.events[p] = IF disk[p] # content[p] /\ is_potentially_relevant(p)
                              THEN EventKind(disk[p]) ELSE "none"])
    /\ UNCHANGED <<envVars, notified, vqueue, queueVars, managerVars, hooks, taskVars,
                   ghciVars, published>>

\* run_debouncer takes the next ValidateSourceSnapshot command.
TakeValidation ==
    /\ sender["validator"].pc = "idle" /\ vqueue # <<>>
    /\ SetSender("validator", [pc |-> "look", todo |-> Haskell,
                               event |-> BlankEvent([p \in Haskell |-> Missing])])
    /\ UNCHANGED <<envVars, notified, content, vqueue, queueVars, managerVars, hooks,
                   taskVars, ghciVars, published>>

\* validate_source_snapshot compares one path with the expected snapshot.
validate_source_snapshot(p) ==
    LET r == sender["validator"]
        e == Head(vqueue).expected
    IN
    /\ r.pc = "look" /\ p \in r.todo
    /\ SetSender("validator", [r EXCEPT !.todo = @ \ {p},
          !.event.events[p] = IF disk[p] # e[p] /\ is_potentially_relevant(p)
                              THEN EventKind(disk[p]) ELSE "none"])
    /\ UNCHANGED <<envVars, notified, content, vqueue, queueVars, managerVars, hooks,
                   taskVars, ghciVars, published>>

\* Fault: the answer is sent only along with a follow-up event.
AnswerOnlySuperseded(result) ==
    /\ vqueue' = Tail(vqueue)
    /\ reply' = IF Head(vqueue).awaited /\ result = "superseded" THEN result ELSE reply

\* The validator answers the request at the head of its queue; nobody hears the
\* answer when the dispatch task that asked has been aborted.
Answer(result) ==
    /\ vqueue' = Tail(vqueue)
    /\ reply' = IF Head(vqueue).awaited THEN result ELSE reply

\* send_event, first half: the look is over; nothing changed, or capture states.
LookDone(s) ==
    LET r == sender[s] IN
    /\ Done(s, "look")
    /\ IF Hints(r.event) = {}
       THEN /\ SetSender(s, [r EXCEPT !.pc = "idle"])
            /\ IF s = "validator" THEN Answer("current") ELSE UNCHANGED <<vqueue, reply>>
       ELSE /\ SetSender(s, [r EXCEPT !.pc = "states", !.todo = Hints(r.event)])
            /\ UNCHANGED <<vqueue, reply>>
    /\ UNCHANGED <<envVars, notified, content, queueVars, managerVars, hooks, tpc, op, kind,
                   acts, synced, unread, expected, log, ghciVars, published>>

\* file_states: FileState::capture of one hinted path.
CaptureState(s, p) ==
    LET r == sender[s] IN
    /\ r.pc = "states" /\ p \in r.todo
    /\ SetSender(s, [r EXCEPT !.todo = @ \ {p}, !.event.states[p] = disk[p]])
    /\ UNCHANGED <<envVars, notified, content, vqueue, queueVars, managerVars, hooks,
                   taskVars, ghciVars, published>>

StartScan(s) ==
    /\ Done(s, "states")
    /\ SetSender(s, [sender[s] EXCEPT !.pc = "scan", !.todo = Haskell])
    /\ UNCHANGED <<envVars, notified, content, vqueue, queueVars, managerVars, hooks,
                   taskVars, ghciVars, published>>

\* scan_haskell_files visits one Haskell path.
scan_haskell_files(s, p) ==
    LET r == sender[s] IN
    /\ r.pc = "scan" /\ p \in r.todo
    /\ SetSender(s, [r EXCEPT !.todo = @ \ {p}, !.event.snapshot[p] = disk[p]])
    /\ UNCHANGED <<envVars, notified, content, vqueue, queueVars, managerVars, hooks,
                   taskVars, ghciVars, published>>

\* send_event, second half: the event enters the ghci channel; the validator then
\* reports that the snapshot is superseded.
send_event(s) ==
    LET r == sender[s] IN
    /\ Done(s, "scan")
    /\ Len(ghciChan) < GhciCap
    /\ ghciChan' = Append(ghciChan, r.event)
    /\ SetSender(s, [r EXCEPT !.pc = "idle"])
    /\ IF s = "validator" THEN Answer("superseded") ELSE UNCHANGED <<vqueue, reply>>
    /\ UNCHANGED <<envVars, notified, content, coalesced, dispatchChan, managerVars, hooks,
                   tpc, op, kind, acts, synced, unread, expected, log, ghciVars, published>>

-----------------------------------------------------------------------------
\* The setup_watcher task merges what it receives ...
Coalesce ==
    /\ ghciChan # <<>>
    /\ coalesced' = merge_option(coalesced, Head(ghciChan))
    /\ ghciChan' = Tail(ghciChan)
    /\ UNCHANGED <<envVars, watcherVars, dispatchChan, managerVars, hooks, taskVars,
                   ghciVars, published>>

\* Fault: forward without waiting for room in the channel.
ForwardUnbounded ==
    /\ coalesced # NoEvent
    /\ dispatchChan' = Append(dispatchChan, coalesced)
    /\ coalesced' = NoEvent
    /\ UNCHANGED <<envVars, watcherVars, ghciChan, managerVars, hooks, taskVars, ghciVars,
                   published>>

\* ... and forwards it when the dispatch channel has room.
Forward ==
    /\ coalesced # NoEvent /\ dispatchChan = <<>>
    /\ dispatchChan' = <<coalesced>>
    /\ coalesced' = NoEvent
    /\ UNCHANGED <<envVars, watcherVars, ghciChan, managerVars, hooks, taskVars, ghciVars,
                   published>>

-----------------------------------------------------------------------------
(***************************************************************************)
(* GhciManager.                                                            *)
(***************************************************************************)
\* Hook balance: a before-reload run opens an attempt, an after-reload run closes it.
BeforeReload == hooks' = IF hooks = "closed" THEN "open" ELSE "broken"
AfterReload == hooks' = IF hooks = "open" THEN "closed" ELSE "broken"

\* wait_for_event receives an event and discards it if it was applied already.
wait_for_event ==
    LET event == dispatchChan[1] IN
    /\ mpc = "wait" /\ dispatchChan # <<>>
    /\ dispatchChan' = <<>>
    /\ IF is_applied(event, applied, appliedSnap)
       THEN UNCHANGED <<mpc, current>>
       ELSE mpc' = "start" /\ current' = strip_applied(event, applied)
    /\ UNCHANGED <<envVars, watcherVars, ghciChan, coalesced, incoming, pending, mayInterrupt,
                   applied, appliedSnap, hooks, taskVars, ghciVars, published>>

\* handle_event, up to the spawn of the dispatch task.
handle_event ==
    /\ mpc = "start"
    /\ BeforeReload
    /\ mpc' = "dispatch" /\ mayInterrupt' = TRUE /\ pending' = NoEvent
    /\ tpc' = "classify" /\ kind' = "pending" /\ reply' = "none"
    /\ UNCHANGED <<envVars, watcherVars, queueVars, current, incoming, applied, appliedSnap,
                   op, acts, synced, unread, expected, log, ghciVars, published>>

Accumulate(event) == pending' = merge_option(pending, event)

\* An event arrives while the task runs: ask should_interrupt once, else keep it.
ReceiveWhileDispatching ==
    LET event == dispatchChan[1] IN
    /\ mpc = "dispatch" /\ dispatchChan # <<>>
    /\ dispatchChan' = <<>>
    /\ IF InterruptReloads /\ mayInterrupt
       THEN /\ mpc' = "deciding" /\ incoming' = event /\ mayInterrupt' = FALSE
            /\ UNCHANGED pending
       ELSE Accumulate(event) /\ UNCHANGED <<mpc, incoming, mayInterrupt>>
    /\ UNCHANGED <<envVars, watcherVars, ghciChan, coalesced, current, applied, appliedSnap,
                   hooks, taskVars, ghciVars, published>>

\* should_interrupt waits until the task has told what it does.
should_interrupt ==
    /\ mpc = "deciding" /\ kind # "pending"
    /\ IF kind = "reload"
       THEN mpc' = "abort" /\ UNCHANGED <<incoming, pending>>
       ELSE mpc' = "dispatch" /\ Accumulate(incoming) /\ incoming' = NoEvent
    /\ UNCHANGED <<envVars, watcherVars, queueVars, current, mayInterrupt, applied,
                   appliedSnap, hooks, taskVars, ghciVars, published>>

\* What an interrupted dispatch leaves to do: its own event and all that followed.
RetryEvent == merge(IF pending = NoEvent THEN current ELSE merge(current, pending), incoming)

\* The interrupt: merge, task.abort(), SIGINT, finish_interrupted_reload. The task
\* runs on another thread, so it may have moved on since should_interrupt looked.
InterruptReload ==
    /\ mpc = "abort"
    /\ current' = RetryEvent
    /\ mpc' = "start" /\ incoming' = NoEvent /\ pending' = NoEvent
    /\ tpc' = "idle" /\ unread' = {} /\ expected' = NoSnapshot
    /\ vqueue' = [i \in DOMAIN vqueue |-> [vqueue[i] EXCEPT !.awaited = FALSE]]
    /\ AfterReload
    /\ UNCHANGED <<envVars, notified, content, sender, queueVars, mayInterrupt, applied,
                   appliedSnap, op, kind, acts, synced, reply, log, ghciVars, published>>

\* The task ends: mark its event applied; what came meanwhile is dispatched next
\* unless the finished dispatch covered it.
FinishDispatch ==
    LET applied2 == mark_applied(current, applied)
        snap2    == current.snapshot
        next     == drain_pending(pending, dispatchChan)
    IN
    /\ mpc = "dispatch" /\ tpc = "done"
    /\ applied' = applied2 /\ appliedSnap' = snap2
    /\ IF pending = NoEvent
       THEN mpc' = "wait" /\ current' = NoEvent /\ UNCHANGED dispatchChan
       ELSE /\ dispatchChan' = <<>>
            /\ IF is_applied(next, applied2, snap2)
               THEN mpc' = "wait" /\ current' = NoEvent
               ELSE mpc' = "start" /\ current' = strip_applied(next, applied2)
    /\ pending' = NoEvent /\ mayInterrupt' = FALSE /\ tpc' = "idle"
    /\ UNCHANGED <<envVars, watcherVars, ghciChan, coalesced, incoming, hooks, op, kind, acts,
                   synced, unread, expected, reply, log, ghciVars, published>>

-----------------------------------------------------------------------------
(***************************************************************************)
(* The dispatch task: Ghci::reload and Ghci::restart.                      *)
(***************************************************************************)
Files == haskell_files(current.snapshot)

\* Ghci::reload, up to the first await: classify and choose the branch.
reload ==
    LET a == get_reload_actions(current.events, Files, known, targets, initFailed) IN
    /\ tpc = "classify"
    /\ expected' = current.snapshot
    /\ acts' = a /\ synced' = Files /\ log' = "empty"
    /\ \/ /\ needs_restart(a)
          /\ kind' = "restart" /\ tpc' = "restart" /\ UNCHANGED known
       \/ /\ ~needs_restart(a) /\ ~needs_modify(a)
          /\ kind' = "none" /\ tpc' = "validate" /\ known' = Files
       \/ /\ ~needs_restart(a) /\ needs_modify(a)
          /\ tpc' = "before" /\ UNCHANGED <<kind, known>>
    /\ UNCHANGED <<envVars, watcherVars, queueVars, managerVars, hooks, op, unread, reply,
                   targets, pendingTest, initFailed, gtargets, loaded, untested, published>>

\* run_add_replacement and the before-reload GHCi hooks, then announce "reload".
RunBeforeHooks ==
    /\ tpc = "before"
    /\ acts' = IF ReplaceAutoAdd
               THEN [acts EXCEPT !.reload = @ \union acts.add, !.add = {}] ELSE acts
    /\ kind' = "reload" /\ tpc' = "remove"
    /\ UNCHANGED <<envVars, watcherVars, queueVars, managerVars, hooks, op, synced, unread,
                   expected, reply, log, ghciVars, published>>

\* Hand GHCi a command that compiles the target set gt: it updates its targets
\* first, then reads their files (external: GHCi).
Submit(command, gt) ==
    /\ tpc' = "compile" /\ op' = command
    /\ gtargets' = gt /\ unread' = gt \union Extra
    /\ loaded' = [p \in Path |-> IF p \in Source \ gt THEN Missing ELSE loaded[p]]

\* :unadd the removed sources.
SubmitRemove ==
    /\ tpc = "remove"
    /\ IF acts.remove = {}
       THEN tpc' = "add" /\ UNCHANGED <<op, gtargets, unread, loaded>>
       ELSE Submit("remove", gtargets \ acts.remove)
    /\ UNCHANGED <<envVars, watcherVars, queueVars, managerVars, hooks, kind, acts, synced,
                   expected, reply, log, known, targets, pendingTest, initFailed, untested,
                   published>>

\* :add the new sources; GHCi refuses one whose file is gone.
SubmitAdd ==
    /\ tpc = "add"
    /\ IF acts.add = {}
       THEN tpc' = "commit" /\ UNCHANGED <<op, gtargets, unread, loaded>>
       ELSE Submit("add", gtargets \union (acts.add \intersect Present))
    /\ UNCHANGED <<envVars, watcherVars, queueVars, managerVars, hooks, kind, acts, synced,
                   expected, reply, log, known, targets, pendingTest, initFailed, untested,
                   published>>

\* Commit known_haskell_files, then :reload if asked for.
CommitAndReload ==
    /\ tpc = "commit"
    /\ known' = synced
    /\ IF acts.reload = {}
       THEN tpc' = "finish" /\ UNCHANGED <<op, gtargets, unread, loaded>>
       ELSE Submit("reload", gtargets)
    /\ UNCHANGED <<envVars, watcherVars, queueVars, managerVars, hooks, kind, acts, synced,
                   expected, reply, log, targets, pendingTest, initFailed, untested, published>>

\* Ghci::restart: stop the old process, launch a new session (external: the
\* command loads its own targets), forget all bookkeeping.
restart ==
    LET gt == CmdTargets \intersect Present IN
    /\ tpc = "restart"
    /\ tpc' = "compile" /\ op' = "init"
    /\ gtargets' = gt /\ unread' = gt \union Extra
    /\ loaded' = [p \in Path |-> CASE p \in Restarting -> disk[p]
                                   [] p \in Source \ gt -> Missing
                                   [] OTHER -> loaded[p]]
    /\ known' = {} /\ targets' = {} /\ pendingTest' = FALSE
    /\ initFailed' = FALSE /\ untested' = FALSE
    /\ UNCHANGED <<envVars, watcherVars, queueVars, managerVars, hooks, kind, acts, synced,
                   expected, reply, log, published>>

\* synchronize_haskell_files in the fresh session: it knows no file, so nothing
\* is removed; every snapshot source that is not a target is added.
synchronize_haskell_files ==
    LET add == (synced \intersect Source) \ targets IN
    /\ tpc = "sync"
    /\ IF add = {}
       THEN /\ known' = synced /\ initFailed' = (log = "err") /\ tpc' = "validate"
            /\ UNCHANGED <<op, gtargets, unread, loaded>>
       ELSE /\ Submit("sync", IF ReplaceAutoAdd THEN gtargets
                              ELSE gtargets \union (add \intersect Present))
            /\ UNCHANGED <<known, initFailed>>
    /\ UNCHANGED <<envVars, watcherVars, queueVars, managerVars, hooks, kind, acts, synced,
                   expected, reply, log, targets, pendingTest, untested, published>>

\* GHCi reads one file of the compilation (external: GHCi).
ReadFile(p) ==
    /\ tpc = "compile" /\ p \in unread
    /\ loaded' = [loaded EXCEPT ![p] = disk[p]]
    /\ unread' = unread \ {p}
    /\ UNCHANGED <<envVars, watcherVars, queueVars, managerVars, hooks, tpc, op, kind, acts,
                   synced, expected, reply, log, known, targets, pendingTest, initFailed,
                   gtargets, untested, published>>

\* Paths of the add in flight that GHCi did not accept.
Unresolved == CASE op = "add" -> acts.add \ gtargets
                [] op = "sync" /\ ~ReplaceAutoAdd -> (synced \intersect Source) \ gtargets
                [] OTHER -> {}

\* The prompt is back: record the result and do the command's bookkeeping.
CompileDone ==
    /\ tpc = "compile" /\ unread = {}
    /\ log' = IF Unresolved # {} THEN "err" ELSE CompileResult(loaded, gtargets)
    /\ untested' = (log' = "ok")
    /\ \/ /\ op = "remove"
          /\ targets' = targets \ acts.remove /\ tpc' = "add"
          /\ UNCHANGED <<synced, known, initFailed>>
       \/ /\ op = "add"
          /\ targets' = gtargets /\ tpc' = "commit"
          /\ synced' = synced \ Unresolved
          /\ UNCHANGED <<known, initFailed>>
       \/ /\ op = "reload"
          /\ tpc' = "finish" /\ UNCHANGED <<targets, synced, known, initFailed>>
       \/ /\ op = "init"
          /\ targets' = gtargets /\ tpc' = "sync"
          /\ UNCHANGED <<synced, known, initFailed>>
       \/ /\ op = "sync"
          /\ targets' = gtargets /\ tpc' = "validate"
          /\ known' = synced \ Unresolved /\ initFailed' = (log' = "err")
          /\ UNCHANGED synced
    /\ UNCHANGED <<envVars, watcherVars, queueVars, managerVars, hooks, op, kind, acts, unread,
                   expected, reply, pendingTest, gtargets, loaded, published>>

\* Target work is over: announce that nothing is left to interrupt.
AnnounceNone ==
    /\ tpc = "finish"
    /\ kind' = "none" /\ tpc' = "validate"
    /\ UNCHANGED <<envVars, watcherVars, queueVars, managerVars, hooks, op, acts, synced,
                   unread, expected, reply, log, ghciVars, published>>

\* compilation_snapshot_is_current takes publication_snapshot and asks the watcher.
compilation_snapshot_is_current ==
    /\ tpc = "validate" /\ Len(vqueue) < CommandCap
    /\ vqueue' = Append(vqueue, [expected |-> expected, awaited |-> TRUE])
    /\ expected' = NoSnapshot /\ tpc' = "awaiting"
    /\ UNCHANGED <<envVars, notified, content, sender, queueVars, managerVars, hooks, op, kind,
                   acts, synced, unread, reply, log, ghciVars, published>>

\* Fault: publish whatever the validator answered.
PublishAlways ==
    /\ tpc = "awaiting" /\ reply # "none"
    /\ published' = [result |-> log, claimed |-> current.snapshot, compiled |-> loaded,
                     targets |-> gtargets]
    /\ tpc' = "after"
    /\ UNCHANGED <<envVars, watcherVars, queueVars, managerVars, hooks, op, kind, acts, synced,
                   unread, expected, reply, log, ghciVars>>

\* finish_compilation: write the error log, unless the snapshot is superseded.
write_error_log ==
    /\ tpc = "awaiting" /\ reply # "none"
    /\ published' = IF reply = "current"
                    THEN [result |-> log, claimed |-> current.snapshot, compiled |-> loaded,
                          targets |-> gtargets]
                    ELSE published
    /\ tpc' = "after"
    /\ UNCHANGED <<envVars, watcherVars, queueVars, managerVars, hooks, op, kind, acts, synced,
                   unread, expected, reply, log, ghciVars>>

\* Fault: a superseded attempt skips its after-reload hooks.
RunAfterHooksIfCurrent ==
    /\ tpc = "after"
    /\ IF reply = "current" THEN AfterReload ELSE UNCHANGED hooks
    /\ tpc' = "post"
    /\ UNCHANGED <<envVars, watcherVars, queueVars, managerVars, op, kind, acts, synced, unread,
                   expected, reply, log, ghciVars, published>>

\* finish_compilation: the after-reload hooks.
RunAfterHooks ==
    /\ tpc = "after"
    /\ AfterReload
    /\ tpc' = "post"
    /\ UNCHANGED <<envVars, watcherVars, queueVars, managerVars, op, kind, acts, synced, unread,
                   expected, reply, log, ghciVars, published>>

\* Fault: a restart is not counted as a compilation.
RunPostActionsAfterModify == needs_modify(acts)

\* Eval and test actions belong to real compilations, not to the no-op branch.
RunPostActions == needs_restart(acts) \/ needs_modify(acts)

\* finish_compilation: settle the test-hook debt, then run test hooks.
finish_compilation ==
    LET owed == CASE log = "err" -> FALSE
                  [] log # "err" /\ reply # "current" /\ RunPostActions -> TRUE
                  [] OTHER -> pendingTest
        test == reply = "current" /\ log # "err" /\ (RunPostActions \/ owed)
    IN
    /\ tpc = "post"
    /\ pendingTest' = (owed /\ ~test)
    /\ untested' = (untested /\ ~test)
    /\ tpc' = "done"
    /\ UNCHANGED <<envVars, watcherVars, queueVars, managerVars, hooks, op, kind, acts, synced,
                   unread, expected, reply, log, known, targets, initFailed, gtargets, loaded,
                   published>>

-----------------------------------------------------------------------------
WatcherNext ==
    \/ \E batch \in SUBSET Path : DeliverBatch(batch)
    \/ \E p \in Path : observe(p)
    \/ TakeValidation
    \/ \E p \in Haskell : validate_source_snapshot(p)
    \/ \E s \in Senders : LookDone(s) \/ StartScan(s) \/ send_event(s)
    \/ \E s \in Senders, p \in Path : CaptureState(s, p) \/ scan_haskell_files(s, p)

ManagerNext ==
    \/ Coalesce \/ Forward
    \/ wait_for_event \/ handle_event
    \/ ReceiveWhileDispatching \/ should_interrupt \/ InterruptReload \/ FinishDispatch

TaskNext ==
    \/ reload \/ RunBeforeHooks \/ SubmitRemove \/ SubmitAdd \/ CommitAndReload
    \/ restart \/ synchronize_haskell_files
    \/ \E p \in Path : ReadFile(p)
    \/ CompileDone \/ AnnounceNone \/ compilation_snapshot_is_current
    \/ write_error_log \/ RunAfterHooks \/ finish_compilation

UserNext == \E p \in Path, s \in FileState : Edit(p, s)

\* No deadlock is reported at rest: nothing left to do is a legitimate end.
Next == UserNext \/ WatcherNext \/ ManagerNext \/ TaskNext

Spec == Init /\ [][Next]_vars

\* Every task of the program is scheduled; nothing obliges the user to edit.
\* GHCi reads the files of a compilation and returns to its prompt.
Fairness ==
    /\ WF_vars(\E batch \in SUBSET Path : DeliverBatch(batch))
    /\ WF_vars(\E p \in Path : observe(p))
    /\ WF_vars(TakeValidation \/ \E p \in Haskell : validate_source_snapshot(p))
    /\ \A s \in Senders :
          /\ WF_vars(LookDone(s) \/ StartScan(s) \/ send_event(s))
          /\ WF_vars(\E p \in Path : CaptureState(s, p) \/ scan_haskell_files(s, p))
    /\ WF_vars(Coalesce) /\ WF_vars(Forward)
    /\ WF_vars(wait_for_event \/ handle_event \/ ReceiveWhileDispatching
                 \/ should_interrupt \/ InterruptReload)
    /\ WF_vars(FinishDispatch)
    /\ WF_vars(TaskNext)

FairSpec == Spec /\ Fairness

-----------------------------------------------------------------------------
Request == [expected : SourceSnapshot, awaited : BOOLEAN]
SenderState == [pc : {"idle", "look", "states", "scan"}, todo : SUBSET Path, event : Event]
ErrorLog == [result : {"empty", "ok", "err"}, claimed : SourceSnapshot,
             compiled : [Path -> FileState], targets : SUBSET Source]

FilesTypeOK ==
    /\ disk \in [Path -> FileState] /\ content \in [Path -> FileState]
    /\ used \in [Path -> SUBSET FileState]
    /\ edits \in Nat
    /\ notified \in SUBSET Path

QueuesTypeOK ==
    /\ sender \in [Senders -> SenderState]
    /\ vqueue \in Seq(Request)
    /\ ghciChan \in Seq(Event)
    /\ coalesced \in OptionEvent
    /\ dispatchChan \in Seq(Event) /\ Len(dispatchChan) <= 1

ManagerTypeOK ==
    /\ mpc \in {"wait", "start", "dispatch", "deciding", "abort"}
    /\ current \in OptionEvent /\ incoming \in OptionEvent /\ pending \in OptionEvent
    /\ mayInterrupt \in BOOLEAN
    /\ applied \in [Path -> FileState \union {Unknown}]
    /\ appliedSnap \in SourceSnapshot \union {NoSnapshot}
    /\ hooks \in {"closed", "open", "broken"}

TaskTypeOK ==
    /\ tpc \in {"idle", "classify", "before", "remove", "add", "commit", "restart", "sync",
                "compile", "finish", "validate", "awaiting", "after", "post", "done"}
    /\ op \in {"none", "remove", "add", "reload", "init", "sync"}
    /\ kind \in {"pending", "none", "reload", "restart"}
    /\ acts \in Actions
    /\ synced \in SUBSET Haskell /\ unread \in SUBSET Path
    /\ expected \in SourceSnapshot \union {NoSnapshot}
    /\ reply \in {"none", "current", "superseded"}
    /\ log \in {"empty", "ok", "err"}

GhciTypeOK ==
    /\ known \in SUBSET Haskell
    /\ targets \in SUBSET Source /\ gtargets \in SUBSET Source
    /\ pendingTest \in BOOLEAN /\ initFailed \in BOOLEAN /\ untested \in BOOLEAN
    /\ loaded \in [Path -> FileState]
    /\ published \in ErrorLog

\* Every variable has the type of the Rust field it stands for, and the dispatch
\* channel never holds more than its one permit.
TypeOK == FilesTypeOK /\ QueuesTypeOK /\ ManagerTypeOK /\ TaskTypeOK /\ GhciTypeOK

\* Nothing is under way between the watcher and the error log.
Rest ==
    /\ mpc = "wait" /\ notified = {} /\ vqueue = <<>>
    /\ \A s \in Senders : sender[s].pc = "idle"
    /\ ghciChan = <<>> /\ coalesced = NoEvent /\ dispatchChan = <<>>

\* GHCi's targets are exactly the existing sources, and it has read the present
\* contents of every file it depends on.
SessionMatchesDisk ==
    /\ gtargets = Source \intersect Present
    /\ \A p \in gtargets \union Restarting \union Extra : loaded[p] = disk[p]

\* No edit is lost: when all queues have drained, the session has loaded what is
\* on disk. Event hints may be merged, stripped, discarded or superseded on the
\* way (discard_applied, coalescing, publication suppression), and the edit may
\* have come between any two file reads.
QuiescentLoaded == Rest /\ appliedSnap # NoSnapshot => SessionMatchesDisk

\* The final error log is about the files on disk: a suppressed publication is
\* always followed by one that is not (finish_compilation, "so this attempt cannot
\* be the final result").
QuiescentPublished ==
    Rest /\ edits > 0 => /\ \A p \in Haskell \ Ignored : published.claimed[p] = disk[p]
                         /\ published.compiled = loaded

\* An attempt whose publication was suppressed is never the last one: "the
\* follow-up must publish before the manager idles" (tests/error_log.rs).
SupersededIsFollowedUp == Rest => reply # "superseded"

\* A published compilation result describes, for every target of the session,
\* exactly the contents the publication claims (the validated snapshot): an edit
\* between the compilation's read and the validator's read suppresses it.
PublishedIsWhatWasCompiled ==
    published.result # "empty" =>
        \A p \in published.targets : published.claimed[p] = published.compiled[p]

\* Every before-reload hook run is closed by exactly one after-reload hook run.
HooksBalanced == hooks # "broken" /\ (mpc = "wait" => hooks = "closed")

\* No successful compilation is left without its test hooks: the debt of a
\* superseded attempt (pending_test_hook) is paid before the manager idles.
QuiescentTested == Rest => ~untested

\* After the last edit the system comes to rest, with the session and the error
\* log describing the files on disk: no task waits for another for ever, and
\* follow-ups do not breed follow-ups.
EventuallySettled ==
    <>[](Rest /\ (appliedSnap # NoSnapshot => SessionMatchesDisk /\ published.compiled = loaded))
=============================================================================
