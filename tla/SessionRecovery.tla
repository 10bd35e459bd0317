-------------------------- MODULE SessionRecovery --------------------------
(***************************************************************************)
(* Sessions that die.  The GHCi process may exit at any moment, be killed  *)
(* by the memory watchdog, or be killed because SIGINT could not restore   *)
(* its prompt; the manager consumes its exit status and replaces it        *)
(* (src/ghci/manager.rs wait_and_restart, src/ghci/process.rs,             *)
(* src/ghci/mod.rs stop, restart_inner, startup_restart).                  *)
(*                                                                         *)
(* Sessions are numbered by generation.  Each has a process and a          *)
(* GhciProcess task that watches it.  The watcher, the coalescer, the      *)
(* commands of a reload and the validator, whose interleavings are the     *)
(* subject of ReloadPipeline, are atomic here.                             *)
(***************************************************************************)
EXTENDS WatcherEvent, Naturals, Sequences, FiniteSets

CONSTANTS
    RestartOnExit,     \* --restart-on-exit
    InterruptReloads,  \* ~ --no-interrupt-reloads
    GhciHooks,         \* GHCi commands hook reloads and restarts
    MaxEdits,          \* bound: number of edits
    MaxFailures,       \* bound: crashes, watchdog kills, unresponsive sessions
    MaxEvals,          \* bound: number of socket evals
    MaxSessions        \* bound: number of sessions

ASSUME RecoveryConstants ==
    /\ {RestartOnExit, InterruptReloads, GhciHooks} \subseteq BOOLEAN
    /\ {MaxEdits, MaxFailures, MaxEvals} \subseteq Nat /\ MaxSessions \in Nat \ {0}

VARIABLES
    disk, used, edits, notified,  \* the files and their notifications
    coalesced, dispatchChan,      \* the event queue, as in ReloadPipeline
    mpc,          \* where the manager is
    current,      \* handle_event's event
    pending,      \* handle_event's pending_event
    mayInterrupt, \* reload_state_receiver is still Some
    recover,      \* restart_after_recovery_kill
    applied, appliedSnap,  \* applied_states, applied_source_snapshot
    retry,        \* wait_and_restart: pending_event, first_retry, the attempted
                  \* states and snapshot, and the function that called it
    barrier,      \* holder of the EvalBarrier
    owner,        \* holder of the Ghci mutex
    opc,          \* where the holder is in its operation on the session
    result,       \* how the operation ended: ok, broken, recovery, fatal
    expected,     \* publication_snapshot
    needKill,     \* recovery_restart_required
    session,      \* the session in Ghci, by generation
    started,      \* the files when that session was launched (history)
    loaded,       \* what the session has loaded
    published,    \* what the error log is about; NoSnapshot: a failed attempt
    alive,        \* sessions whose process runs
    watch,        \* [Session -> where its GhciProcess task is]
    request,      \* the session asked to stop through restart_sender, or 0
    ack,          \* the answer to that request: none, acked or dropped
    exitChan,     \* exited_sender -> manager, capacity 1
    epc, evals,   \* the eval connection
    failures,     \* number of failures so far
    shutdown      \* shutdown has been broadcast

envVars == <<disk, used, edits, notified>>
queueVars == <<coalesced, dispatchChan>>
eventVars == <<current, pending, mayInterrupt, recover, applied, appliedSnap>>
managerVars == <<mpc, eventVars, retry>>
lockVars == <<barrier, owner>>
sessionVars == <<expected, needKill, session, started, loaded, published>>
opVars == <<opc, result>>
processVars == <<alive, watch, request, ack, exitChan>>
evalVars == <<epc, evals>>
vars == <<envVars, queueVars, managerVars, lockVars, opVars, sessionVars, processVars,
          evalVars, failures, shutdown>>

Session == 1..MaxSessions
NoRetry == [event |-> NoEvent, first |-> TRUE, attempted |-> [p \in Path |-> Unknown],
            snapshot |-> NoSnapshot, caller |-> "wait_for_event"]

Init ==
    /\ disk \in [Path -> Contents]
    /\ used = [p \in Path |-> {disk[p]}] /\ edits = 0 /\ notified = {}
    /\ coalesced = NoEvent /\ dispatchChan = <<>>
    /\ mpc = "wait" /\ current = NoEvent /\ pending = NoEvent /\ mayInterrupt = FALSE
    /\ recover = FALSE /\ retry = NoRetry
    /\ applied = [p \in Path |-> Unknown] /\ appliedSnap = NoSnapshot
    /\ barrier = "free" /\ owner = "none" /\ opc = "idle" /\ result = "ok"
    /\ expected = NoSnapshot /\ needKill = FALSE
    /\ session = 1 /\ started = disk /\ loaded = disk /\ published = disk
    /\ alive = {1} /\ watch = [s \in Session |-> IF s = 1 THEN "watching" ELSE "none"]
    /\ request = 0 /\ ack = "none" /\ exitChan = <<>>
    /\ epc = "idle" /\ evals = 0 /\ failures = 0 /\ shutdown = FALSE

-----------------------------------------------------------------------------
(***************************************************************************)
(* The watcher, one atomic look at the files.                              *)
(***************************************************************************)
EventAbout(paths) ==
    [events   |-> [p \in Path |-> IF p \in paths THEN EventKind(disk[p]) ELSE "none"],
     states   |-> [p \in Path |-> IF p \in paths THEN disk[p] ELSE Unknown],
     snapshot |-> [p \in Haskell |-> disk[p]]]

Edit(p, s) ==
    /\ edits < MaxEdits /\ s \notin used[p]
    /\ disk' = [disk EXCEPT ![p] = s] /\ used' = [used EXCEPT ![p] = @ \union {s}]
    /\ edits' = edits + 1 /\ notified' = notified \union {p}
    /\ UNCHANGED <<queueVars, managerVars, lockVars, opVars, sessionVars, processVars,
                   evalVars, failures, shutdown>>

\* The debounced notifications become one event, merged with what waits to be sent.
Notify ==
    /\ notified # {}
    /\ coalesced' = merge_option(coalesced, EventAbout(notified)) /\ notified' = {}
    /\ UNCHANGED <<disk, used, edits, dispatchChan, managerVars, lockVars, opVars,
                   sessionVars, processVars, evalVars, failures, shutdown>>

\* Fault: the event is sent without a permit of the bounded channel.
ForwardUnbounded ==
    /\ coalesced # NoEvent
    /\ dispatchChan' = Append(dispatchChan, coalesced) /\ coalesced' = NoEvent
    /\ UNCHANGED <<envVars, managerVars, lockVars, opVars, sessionVars, processVars,
                   evalVars, failures, shutdown>>

\* setup_watcher sends once the dispatch channel, of capacity 1, has room.
Forward ==
    /\ coalesced # NoEvent /\ dispatchChan = <<>>
    /\ dispatchChan' = <<coalesced>> /\ coalesced' = NoEvent
    /\ UNCHANGED <<envVars, managerVars, lockVars, opVars, sessionVars, processVars,
                   evalVars, failures, shutdown>>

-----------------------------------------------------------------------------
(***************************************************************************)
(* The processes and the GhciProcess tasks.                                *)
(***************************************************************************)
Fail == failures < MaxFailures /\ failures' = failures + 1

\* The process dies by itself (external: GHCi, the operating system).
Crash(s) ==
    /\ s \in alive /\ Fail
    /\ alive' = alive \ {s}
    /\ UNCHANGED <<envVars, queueVars, managerVars, lockVars, opVars, sessionVars, watch,
                   request, ack, exitChan, evalVars, shutdown>>

\* A stop request, or restart_sender dropped with the Ghci that was replaced.
AskedToStop(s) == s = request \/ s # session

\* Fault: shutdown is left to the manager.
ProcessStopOnRequest(s) ==
    /\ watch[s] = "watching" /\ AskedToStop(s)
    /\ alive' = alive \ {s} /\ watch' = [watch EXCEPT ![s] = "gone"]
    /\ ack' = IF s # request THEN ack ELSE IF shutdown THEN "dropped" ELSE "acked"
    /\ UNCHANGED <<envVars, queueVars, managerVars, lockVars, opVars, sessionVars, request,
                   exitChan, evalVars, failures, shutdown>>

\* run_with_watchdog selects with a bias: shutdown, then the stop request, then
\* the exit, then the watchdog.  Only a stop request that came first is answered.
ProcessStop(s) ==
    /\ watch[s] = "watching" /\ (shutdown \/ AskedToStop(s))
    /\ alive' = alive \ {s} /\ watch' = [watch EXCEPT ![s] = "gone"]
    /\ ack' = IF s # request THEN ack ELSE IF shutdown THEN "dropped" ELSE "acked"
    /\ UNCHANGED <<envVars, queueVars, managerVars, lockVars, opVars, sessionVars, request,
                   exitChan, evalVars, failures, shutdown>>

ProcessExited(s) ==
    /\ watch[s] = "watching" /\ ~shutdown /\ ~AskedToStop(s)
    /\ s \notin alive
    /\ watch' = [watch EXCEPT ![s] = "exiting"]
    /\ UNCHANGED <<envVars, queueVars, managerVars, lockVars, opVars, sessionVars, alive,
                   request, ack, exitChan, evalVars, failures, shutdown>>

\* The memory watchdog kills the process, then reports it like any other exit.
Watchdog(s) ==
    /\ watch[s] = "watching" /\ ~shutdown /\ ~AskedToStop(s)
    /\ s \in alive /\ Fail
    /\ alive' = alive \ {s} /\ watch' = [watch EXCEPT ![s] = "exiting"]
    /\ UNCHANGED <<envVars, queueVars, managerVars, lockVars, opVars, sessionVars, request,
                   ack, exitChan, evalVars, shutdown>>

\* exited_sender.send; the task then ends and drops a stop request unanswered.
SendExit(s) ==
    /\ watch[s] = "exiting" /\ exitChan = <<>>
    /\ exitChan' = <<s>> /\ watch' = [watch EXCEPT ![s] = "gone"]
    /\ ack' = IF s = request THEN "dropped" ELSE ack
    /\ UNCHANGED <<envVars, queueVars, managerVars, lockVars, opVars, sessionVars, alive,
                   request, evalVars, failures, shutdown>>

-----------------------------------------------------------------------------
(***************************************************************************)
(* Operations on the session, by the holder of the Ghci mutex: the         *)
(* dispatch task (reload or restart), the manager (a replacement), or an   *)
(* eval.                                                                   *)
(***************************************************************************)
End(r) == opc' = "end" /\ result' = r
Goto(pc) == opc' = pc /\ UNCHANGED result

\* force_kill_for_recovery: the flag is set before the signal.
ForceKill == needKill' = TRUE /\ alive' = alive \ {session}

\* dispatch locks the session; Ghci::reload takes the snapshot and classifies.
TaskStart ==
    LET hints == Hints(current) IN
    /\ opc = "spawned" /\ owner = "none"
    /\ owner' = "task" /\ expected' = current.snapshot /\ result' = "ok"
    /\ opc' = CASE hints \intersect Restarting # {} -> "hooks"
                [] hints \intersect Restarting = {} /\ hints # {} -> "reload"
                [] OTHER -> "publish"
    /\ UNCHANGED <<envVars, queueVars, managerVars, barrier, needKill, session, started,
                   loaded, published, processVars, evalVars, failures, shutdown>>

\* A compilation that reaches the prompt: a reload reads the Haskell sources, a
\* fresh session everything.
Compile ==
    /\ opc \in {"reload", "init"} /\ session \in alive
    /\ loaded' = [p \in Path |-> IF opc = "init" \/ p \notin Restarting
                                 THEN disk[p] ELSE loaded[p]]
    /\ Goto("publish")
    /\ UNCHANGED <<envVars, queueVars, managerVars, lockVars, expected, needKill, session,
                   started, published, processVars, evalVars, failures, shutdown>>

\* The pipe is closed, but finish_compilation still runs before the error is returned.
\* (An error that is no broken pipe, such as an answer dropped by the stderr task, makes
\* the manager return: that is SessionFails in Lifecycle.)
CompileBroken ==
    /\ opc \in {"reload", "init"} /\ session \notin alive
    /\ result' = "broken" /\ opc' = "publish"
    /\ UNCHANGED <<envVars, queueVars, managerVars, lockVars, sessionVars, processVars,
                   evalVars, failures, shutdown>>

\* No progress, and neither SIGINT nor the retried :reload restores the prompt.
CompileStuck ==
    /\ opc \in {"reload", "init"} /\ session \in alive /\ Fail
    /\ ForceKill
    /\ result' = "recovery" /\ opc' = "publish"
    /\ UNCHANGED <<envVars, queueVars, managerVars, lockVars, expected, session, started,
                   loaded, published, watch, request, ack, exitChan, evalVars, shutdown>>

Stale == {p \in Haskell : expected # NoSnapshot /\ expected[p] # disk[p]}

\* finish_compilation asks the validator about publication_snapshot, if there is
\* one, and publishes; for a stale snapshot the validator sends a follow-up, and
\* only shell hooks are left to run.
PublishOrFollowUp ==
    /\ opc = "publish"
    /\ IF Stale = {}
       THEN /\ published' = (IF result = "ok" THEN loaded ELSE NoSnapshot)
            /\ UNCHANGED coalesced /\ Goto("after")
       ELSE /\ coalesced' = merge_option(coalesced, EventAbout(Stale))
            /\ UNCHANGED published /\ Goto("end")
    /\ UNCHANGED <<envVars, dispatchChan, managerVars, lockVars, needKill, session, started,
                   loaded, processVars, evalVars, failures, shutdown>>

\* Fault: publication_snapshot is read, not taken.
PublishKeepingSnapshot == PublishOrFollowUp /\ UNCHANGED expected

Publish == PublishOrFollowUp /\ expected' = NoSnapshot

\* Hooks written as GHCi commands need the prompt: the before-restart hooks that
\* of the old session, the after-hooks that of a successful compilation.
NeedsPrompt == GhciHooks /\ (opc = "after" => result = "ok")

RunHooks ==
    /\ opc \in {"hooks", "after"}
    /\ IF NeedsPrompt /\ session \notin alive THEN End("broken")
       ELSE IF opc = "hooks" THEN Goto("stop") ELSE Goto("end")
    /\ UNCHANGED <<envVars, queueVars, managerVars, lockVars, sessionVars, processVars,
                   evalVars, failures, shutdown>>

\* run_hook_command: an unresponsive hook gets the session killed.
HookTimeout ==
    /\ opc \in {"hooks", "after"} /\ NeedsPrompt /\ session \in alive /\ Fail
    /\ ForceKill /\ End("recovery")
    /\ UNCHANGED <<envVars, queueVars, managerVars, lockVars, expected, session, started,
                   loaded, published, watch, request, ack, exitChan, evalVars, shutdown>>

\* Fault: the replacement is launched without waiting for the old process to exit.
StopWithoutAck ==
    /\ opc = "stop" /\ watch[session] # "gone"
    /\ request' = session /\ ack' = "none" /\ Goto("launch")
    /\ UNCHANGED <<envVars, queueVars, managerVars, lockVars, sessionVars, alive, watch,
                   exitChan, evalVars, failures, shutdown>>

\* Ghci::stop asks the GhciProcess task to stop the process ...
Stop ==
    /\ opc = "stop" /\ watch[session] # "gone"
    /\ request' = session /\ ack' = "none" /\ Goto("stopping")
    /\ UNCHANGED <<envVars, queueVars, managerVars, lockVars, sessionVars, alive, watch,
                   exitChan, evalVars, failures, shutdown>>

\* ... and fails when that task ended before it answered, unless it ended because
\* of the shutdown.  restart_inner propagates the failure.
StopResult ==
    /\ \/ opc = "stop" /\ watch[session] = "gone"
       \/ opc = "stopping" /\ ack # "none"
    /\ IF (opc = "stopping" /\ ack = "acked") \/ shutdown THEN Goto("launch") ELSE End("fatal")
    /\ UNCHANGED <<envVars, queueVars, managerVars, lockVars, sessionVars, processVars,
                   evalVars, failures, shutdown>>

\* Ghci::new and mem::replace; publication_snapshot is carried over.
Launch ==
    /\ opc = "launch" /\ session < MaxSessions
    /\ session' = session + 1 /\ started' = disk /\ needKill' = FALSE
    /\ alive' = alive \union {session'} /\ watch' = [watch EXCEPT ![session'] = "watching"]
    /\ result' = "ok" /\ opc' = "init"
    /\ UNCHANGED <<envVars, queueVars, managerVars, lockVars, expected, loaded, published,
                   request, ack, exitChan, evalVars, failures, shutdown>>

-----------------------------------------------------------------------------
(***************************************************************************)
(* The eval socket: the barrier first, the Ghci mutex second.              *)
(***************************************************************************)
EvalBegin ==
    /\ epc = "idle" /\ evals < MaxEvals /\ barrier = "free"
    /\ epc' = "queued" /\ evals' = evals + 1 /\ barrier' = "eval"
    /\ UNCHANGED <<envVars, queueVars, managerVars, owner, opVars, sessionVars, processVars,
                   failures, shutdown>>

EvalLock ==
    /\ epc = "queued" /\ owner = "none"
    /\ epc' = "running" /\ owner' = "eval"
    /\ UNCHANGED <<envVars, queueVars, managerVars, barrier, opVars, sessionVars, processVars,
                   evals, failures, shutdown>>

\* The answer, or the error of a closed pipe, goes to the client only.
EvalDone ==
    /\ epc = "running"
    /\ epc' = "idle" /\ owner' = "none" /\ barrier' = "free"
    /\ UNCHANGED <<envVars, queueVars, managerVars, opVars, sessionVars, processVars, evals,
                   failures, shutdown>>

\* Sixty seconds are over and SIGINT does not restore the prompt.
EvalTimeout ==
    /\ epc = "running" /\ session \in alive /\ Fail
    /\ ForceKill
    /\ epc' = "idle" /\ owner' = "none" /\ barrier' = "free"
    /\ UNCHANGED <<envVars, queueVars, managerVars, opVars, expected, session, started, loaded,
                   published, watch, request, ack, exitChan, evals, shutdown>>

-----------------------------------------------------------------------------
(***************************************************************************)
(* The manager: wait_for_event and handle_event.                           *)
(***************************************************************************)
wait_for_event ==
    LET event == dispatchChan[1] IN
    /\ mpc = "wait" /\ dispatchChan # <<>>
    /\ dispatchChan' = <<>>
    /\ IF is_applied(event, applied, appliedSnap)
       THEN UNCHANGED <<mpc, current>>
       ELSE mpc' = "start" /\ current' = strip_applied(event, applied)
    /\ UNCHANGED <<envVars, coalesced, pending, mayInterrupt, recover, applied, appliedSnap,
                   retry, lockVars, opVars, sessionVars, processVars, evalVars, failures,
                   shutdown>>

\* handle_event: queue behind an eval, then spawn the dispatch task.
handle_event ==
    /\ mpc = "start" /\ barrier = "free"
    /\ barrier' = "manager" /\ mpc' = "dispatch" /\ Goto("spawned")
    /\ pending' = NoEvent /\ mayInterrupt' = TRUE /\ recover' = FALSE
    /\ UNCHANGED <<envVars, queueVars, current, applied, appliedSnap, retry, owner, sessionVars,
                   processVars, evalVars, failures, shutdown>>

\* The select of handle_event is biased: shutdown, exit status, event, task.
Dispatching == mpc = "dispatch" /\ ~shutdown

\* An exit status while dispatching: the task is left to finish.
ExitWhileDispatching ==
    /\ Dispatching /\ exitChan # <<>>
    /\ exitChan' = <<>> /\ mpc' = "awaitTask"
    /\ UNCHANGED <<envVars, queueVars, eventVars, retry, lockVars, opVars, sessionVars, alive,
                   watch, request, ack, evalVars, failures, shutdown>>

\* should_interrupt waits for the task to announce what it does.
Deciding == InterruptReloads /\ mayInterrupt
Received == merge_option(pending, dispatchChan[1])

\* A newer event that does not interrupt: keep it until the dispatch is over.
Accumulate ==
    /\ Dispatching /\ exitChan = <<>> /\ dispatchChan # <<>>
    /\ Deciding => opc \notin {"spawned", "reload"}
    /\ pending' = Received /\ dispatchChan' = <<>>
    /\ mayInterrupt' = (mayInterrupt /\ ~InterruptReloads)
    /\ UNCHANGED <<envVars, coalesced, mpc, current, recover, applied, appliedSnap, retry,
                   lockVars, opVars, sessionVars, processVars, evalVars, failures, shutdown>>

\* A newer event interrupts a reload: abort the task, merge everything.
Interrupt ==
    /\ Dispatching /\ exitChan = <<>> /\ dispatchChan # <<>>
    /\ Deciding /\ opc = "reload"
    /\ dispatchChan' = <<>> /\ current' = merge(current, Received)
    /\ opc' = "idle" /\ owner' = "manager" /\ expected' = NoSnapshot
    /\ mayInterrupt' = FALSE

\* SIGINT restores the prompt; the after-reload hooks are next.
InterruptSucceeds ==
    /\ Interrupt /\ session \in alive
    /\ mpc' = "interrupted"
    /\ UNCHANGED <<envVars, coalesced, pending, recover, applied, appliedSnap, retry, barrier,
                   result, needKill, session, started, loaded, published, processVars, evalVars,
                   failures, shutdown>>

\* It does not: the session is killed, and its status awaited whatever happens.
InterruptFails ==
    /\ Interrupt
    /\ IF session \in alive THEN Fail ELSE UNCHANGED failures
    /\ ForceKill
    /\ pending' = current' /\ recover' = TRUE /\ mpc' = "awaitKilled"
    /\ UNCHANGED <<envVars, coalesced, applied, appliedSnap, retry, barrier, result, session,
                   started, loaded, published, watch, request, ack, exitChan, evalVars, shutdown>>

\* finish_interrupted_reload: a GHCi hook that fails is fatal, else dispatch the merged event.
FinishInterrupted ==
    /\ mpc = "interrupted"
    /\ mpc' = IF GhciHooks /\ session \notin alive THEN "fatal" ELSE "start"
    /\ owner' = "none" /\ barrier' = "free" /\ pending' = NoEvent
    /\ UNCHANGED <<envVars, queueVars, current, mayInterrupt, recover, applied, appliedSnap,
                   retry, opVars, sessionVars, processVars, evalVars, failures, shutdown>>

preserve_recovery_event ==
    pending' = IF pending = NoEvent THEN current ELSE merge(current, pending)

\* The task failed because of the session: immediate replacement if it was killed
\* by ghciwatch, else the ordinary exit policy.
SessionLost ==
    IF result = "recovery" \/ needKill
    THEN recover' = TRUE /\ preserve_recovery_event
    ELSE UNCHANGED <<recover, pending>>

\* The dispatch task ends, and no exit status has been received.
TaskEnded ==
    /\ Dispatching /\ exitChan = <<>> /\ dispatchChan = <<>> /\ owner = "task" /\ opc = "end"
    /\ owner' = "none" /\ Goto("idle")
    /\ \/ /\ result = "ok"
          /\ applied' = mark_applied(current, applied) /\ appliedSnap' = current.snapshot
          /\ mpc' = "drain" /\ UNCHANGED <<pending, recover>>
       \/ /\ result \in {"broken", "recovery"}
          /\ SessionLost
          /\ mpc' = "awaitStatus" /\ UNCHANGED <<applied, appliedSnap>>
       \/ /\ result = "fatal"
          /\ mpc' = "fatal" /\ UNCHANGED <<pending, recover, applied, appliedSnap>>
    /\ UNCHANGED <<envVars, queueVars, current, mayInterrupt, retry, barrier, sessionVars,
                   processVars, evalVars, failures, shutdown>>

\* The dispatch task ends after the exit status was received.
TaskEndedAfterExit ==
    /\ mpc = "awaitTask" /\ owner = "task" /\ opc = "end"
    /\ owner' = "none" /\ Goto("idle")
    /\ \/ result # "fatal" /\ SessionLost /\ mpc' = "lost"
       \/ result = "fatal" /\ mpc' = "fatal" /\ UNCHANGED <<recover, pending>>
    /\ UNCHANGED <<envVars, queueVars, current, mayInterrupt, applied, appliedSnap, retry,
                   barrier, sessionVars, processVars, evalVars, failures, shutdown>>

ReceiveStatus ==
    /\ mpc \in {"awaitStatus", "awaitKilled"} /\ exitChan # <<>>
    /\ exitChan' = <<>> /\ mpc' = "lost"
    /\ owner' = IF owner = "manager" THEN "none" ELSE owner
    /\ UNCHANGED <<envVars, queueVars, eventVars, retry, barrier, opVars, sessionVars, alive,
                   watch, request, ack, evalVars, failures, shutdown>>

\* The end of handle_event: dispatch what came meanwhile, unless it is applied.
DrainPending ==
    LET next == drain_pending(pending, dispatchChan) IN
    /\ mpc = "drain"
    /\ IF pending = NoEvent
       THEN mpc' = "wait" /\ current' = NoEvent /\ UNCHANGED dispatchChan
       ELSE /\ dispatchChan' = <<>>
            /\ IF is_applied(next, applied, appliedSnap)
               THEN mpc' = "wait" /\ current' = NoEvent
               ELSE mpc' = "start" /\ current' = strip_applied(next, applied)
    /\ pending' = NoEvent /\ barrier' = "free"
    /\ UNCHANGED <<envVars, coalesced, mayInterrupt, recover, applied, appliedSnap, retry, owner,
                   opVars, sessionVars, processVars, evalVars, failures, shutdown>>

-----------------------------------------------------------------------------
(***************************************************************************)
(* The manager: replacing a session that is gone.                          *)
(***************************************************************************)
\* wait_for_event receives an exit status.
ExitWhileWaiting ==
    /\ mpc = "wait" /\ exitChan # <<>>
    /\ exitChan' = <<>> /\ mpc' = "exited"
    /\ UNCHANGED <<envVars, queueVars, eventVars, retry, lockVars, opVars, sessionVars, alive,
                   watch, request, ack, evalVars, failures, shutdown>>

\* A session ghciwatch killed itself is replaced at once, under barrier and mutex.
\* A failure to do so is fatal in both callers.
restart_after_recovery_kill ==
    /\ owner = "none"
    /\ \/ /\ mpc = "exited" /\ needKill /\ barrier = "free"
          /\ retry' = [retry EXCEPT !.caller = "wait_for_event"]
       \/ /\ mpc = "lost" /\ recover
          /\ retry' = [retry EXCEPT !.caller = "handle_event"]
    /\ mpc' = "recovering" /\ pending' = NoEvent
    /\ barrier' = "manager" /\ owner' = "manager" /\ Goto("launch")
    /\ UNCHANGED <<envVars, queueVars, current, mayInterrupt, recover, applied, appliedSnap,
                   sessionVars, processVars, evalVars, failures, shutdown>>

Recovered ==
    /\ mpc = "recovering" /\ opc = "end"
    /\ mpc' = CASE result # "ok" -> "fatal"
                [] result = "ok" /\ retry.caller = "wait_for_event" -> "wait"
                [] OTHER -> "drain"
    /\ barrier' = IF retry.caller = "wait_for_event" THEN "free" ELSE barrier
    /\ owner' = "none" /\ Goto("idle")
    /\ UNCHANGED <<envVars, queueVars, eventVars, retry, sessionVars, processVars, evalVars,
                   failures, shutdown>>

\* Any other exit enters wait_and_restart, in handle_event with the event at hand.
wait_and_restart ==
    /\ \/ /\ mpc = "exited" /\ ~needKill /\ barrier = "free" /\ owner = "none"
          /\ retry' = NoRetry
       \/ /\ mpc = "lost" /\ ~recover
          /\ retry' = [NoRetry EXCEPT !.event = current, !.caller = "handle_event"]
    /\ mpc' = "delay"
    /\ UNCHANGED <<envVars, queueVars, eventVars, lockVars, opVars, sessionVars, processVars,
                   evalVars, failures, shutdown>>

\* Events are merged during the crash delay, and awaited one by one after it.
ReceiveWhileRetrying ==
    /\ mpc = "delay" \/ (mpc = "changed" /\ retry.event = NoEvent)
    /\ dispatchChan # <<>>
    /\ dispatchChan' = <<>>
    /\ retry' = [retry EXCEPT !.event = merge_option(@, dispatchChan[1])]
    /\ UNCHANGED <<envVars, coalesced, mpc, eventVars, lockVars, opVars, sessionVars,
                   processVars, evalVars, failures, shutdown>>

\* Fault: the first retry needs a change too.
DelayOverOnChange ==
    /\ mpc = "delay"
    /\ mpc' = IF RestartOnExit THEN "relaunch" ELSE "changed"
    /\ UNCHANGED <<envVars, queueVars, eventVars, retry, lockVars, opVars, sessionVars,
                   processVars, evalVars, failures, shutdown>>

\* The first retry needs no change; later ones do, unless --restart-on-exit.
DelayOver ==
    /\ mpc = "delay"
    /\ mpc' = IF retry.first \/ RestartOnExit THEN "relaunch" ELSE "changed"
    /\ UNCHANGED <<envVars, queueVars, eventVars, retry, lockVars, opVars, sessionVars,
                   processVars, evalVars, failures, shutdown>>

\* Is this event newer than what the replacement that died was started with?
CheckChanged ==
    LET event == drain_pending(retry.event, dispatchChan) IN
    /\ mpc = "changed" /\ retry.event # NoEvent
    /\ dispatchChan' = <<>>
    /\ IF is_applied(event, retry.attempted, retry.snapshot)
       THEN retry' = [retry EXCEPT !.event = NoEvent] /\ UNCHANGED mpc
       ELSE /\ retry' = [retry EXCEPT !.event = strip_applied(event, retry.attempted)]
            /\ mpc' = "relaunch"
    /\ UNCHANGED <<envVars, coalesced, eventVars, lockVars, opVars, sessionVars, processVars,
                   evalVars, failures, shutdown>>

\* startup_restart: the old process is gone, so it is not stopped.
startup_restart ==
    /\ mpc = "relaunch" /\ owner = "none"
    /\ mpc' = "replacing" /\ owner' = "manager" /\ Goto("launch")
    /\ retry' = [retry EXCEPT !.first = FALSE]
    /\ UNCHANGED <<envVars, queueVars, eventVars, barrier, sessionVars, processVars, evalVars,
                   failures, shutdown>>

\* Fault: the events that came during the attempt count as attempted too.
AttemptedAfterDraining(waiting) ==
    LET event    == IF waiting = <<>> THEN retry.event ELSE merge_option(retry.event, waiting[1])
    IN  IF event = NoEvent THEN retry
        ELSE [retry EXCEPT !.attempted = mark_applied(event, @), !.snapshot = event.snapshot,
                           !.event = NoEvent]

\* The replacement died: what it was started with has been attempted; only newer
\* events are retried.
Attempted(waiting) ==
    LET r == IF retry.event = NoEvent THEN retry
             ELSE [retry EXCEPT !.attempted = mark_applied(retry.event, @),
                                !.snapshot = retry.event.snapshot, !.event = NoEvent]
    IN  IF waiting = <<>> \/ is_applied(waiting[1], r.attempted, r.snapshot) THEN r
        ELSE [r EXCEPT !.event = strip_applied(waiting[1], r.attempted)]

\* The replacement is up, or its exit status is here already, or must be awaited.
ReplacementEnded ==
    /\ mpc = "replacing" /\ opc = "end"
    /\ owner' = "none" /\ Goto("idle")
    /\ \/ /\ result = "ok" /\ exitChan = <<>>
          /\ IF retry.event = NoEvent THEN UNCHANGED <<applied, appliedSnap>>
             ELSE /\ applied' = mark_applied(retry.event, applied)
                  /\ appliedSnap' = retry.event.snapshot
          /\ mpc' = IF retry.caller = "wait_for_event" THEN "wait" ELSE "drain"
       \/ /\ result # "ok" \/ exitChan # <<>>
          /\ mpc' = "replacementDied" /\ UNCHANGED <<applied, appliedSnap>>
    /\ UNCHANGED <<envVars, queueVars, current, pending, mayInterrupt, recover, retry, barrier,
                   sessionVars, processVars, evalVars, failures, shutdown>>

\* Fault: an initialization that failed does not wait for its exit status.
ReplacementDiedNoStatus ==
    /\ mpc = "replacementDied"
    /\ retry' = Attempted(dispatchChan)
    /\ dispatchChan' = <<>> /\ mpc' = "delay"
    /\ UNCHANGED <<envVars, coalesced, eventVars, lockVars, opVars, sessionVars, processVars,
                   evalVars, failures, shutdown>>

ReplacementDied ==
    /\ mpc = "replacementDied" /\ exitChan # <<>>
    /\ exitChan' = <<>>
    /\ retry' = Attempted(dispatchChan)
    /\ dispatchChan' = <<>> /\ mpc' = "delay"
    /\ UNCHANGED <<envVars, coalesced, eventVars, lockVars, opVars, sessionVars, alive, watch,
                   request, ack, evalVars, failures, shutdown>>

-----------------------------------------------------------------------------
(***************************************************************************)
(* Shutdown, by a signal or because the parent is gone.                    *)
(***************************************************************************)
RequestShutdown ==
    /\ ~shutdown /\ shutdown' = TRUE
    /\ UNCHANGED <<envVars, queueVars, managerVars, lockVars, opVars, sessionVars, processVars,
                   evalVars, failures>>

\* wait_for_event and handle_event stop the session; handle_event first aborts its
\* task, which frees the mutex.
StopForShutdown ==
    /\ shutdown /\ mpc \in {"wait", "dispatch"}
    /\ mpc = "wait" => owner = "none"
    /\ mpc' = "stopping" /\ owner' = "manager" /\ Goto("idle")
    /\ UNCHANGED <<envVars, queueVars, eventVars, retry, barrier, sessionVars, processVars,
                   evalVars, failures, shutdown>>

SessionStopped ==
    /\ mpc = "stopping" /\ watch[session] = "gone"
    /\ mpc' = "down" /\ owner' = "none" /\ barrier' = IF barrier = "manager" THEN "free" ELSE barrier
    /\ UNCHANGED <<envVars, queueVars, eventVars, retry, opVars, sessionVars, processVars,
                   evalVars, failures, shutdown>>

\* Where the session is known to be dead, the manager just returns.
ReturnForShutdown ==
    /\ shutdown
    /\ mpc \in {"awaitTask", "awaitStatus", "delay", "replacementDied"}
         \/ (mpc = "changed" /\ retry.event = NoEvent)
    /\ mpc' = "down" /\ Goto("idle")
    /\ owner' = IF owner = "task" THEN "none" ELSE owner
    /\ barrier' = IF barrier = "manager" THEN "free" ELSE barrier
    /\ UNCHANGED <<envVars, queueVars, eventVars, retry, sessionVars, processVars, evalVars,
                   failures, shutdown>>

-----------------------------------------------------------------------------
UserNext == \E p \in Path, s \in Contents : Edit(p, s)
WatcherNext == Notify \/ Forward

ProcessNext(s) == ProcessStop(s) \/ ProcessExited(s) \/ SendExit(s)
FailureNext(s) == Crash(s) \/ Watchdog(s)

OperationNext ==
    \/ TaskStart \/ Compile \/ CompileBroken \/ Publish \/ RunHooks
    \/ Stop \/ StopResult \/ Launch
StuckNext == CompileStuck \/ HookTimeout \/ EvalTimeout
EvalNext == EvalLock \/ EvalDone

ManagerNext ==
    \/ wait_for_event \/ handle_event \/ ExitWhileDispatching \/ Accumulate
    \/ InterruptSucceeds \/ FinishInterrupted \/ TaskEnded \/ TaskEndedAfterExit
    \/ ReceiveStatus \/ DrainPending \/ ExitWhileWaiting
    \/ restart_after_recovery_kill \/ Recovered \/ wait_and_restart \/ ReceiveWhileRetrying
    \/ DelayOver \/ CheckChanged \/ startup_restart \/ ReplacementEnded \/ ReplacementDied
    \/ StopForShutdown \/ SessionStopped \/ ReturnForShutdown

\* At rest there is nothing left to do; no deadlock is reported there.
Next ==
    \/ UserNext \/ WatcherNext \/ ManagerNext \/ InterruptFails
    \/ OperationNext \/ StuckNext \/ EvalBegin \/ EvalNext \/ RequestShutdown
    \/ \E s \in Session : ProcessNext(s) \/ FailureNext(s)

Spec == Init /\ [][Next]_vars

\* Tasks are scheduled, the kernel reports exits, an eval ends or times out.
\* Nothing obliges users to edit, evaluate or shut down, nor sessions to fail.
Fairness ==
    /\ WF_vars(WatcherNext)
    /\ WF_vars(ManagerNext \/ (InterruptFails /\ session \notin alive))
    /\ WF_vars(DelayOver)
    /\ WF_vars(OperationNext) /\ WF_vars(EvalNext)
    /\ \A s \in Session : WF_vars(ProcessNext(s))

FairSpec == Spec /\ Fairness

-----------------------------------------------------------------------------
Retry == [event : OptionEvent, first : BOOLEAN, attempted : [Path -> FileState \union {Unknown}],
          snapshot : SourceSnapshot \union {NoSnapshot},
          caller : {"wait_for_event", "handle_event"}]

QueuesTypeOK ==
    /\ disk \in [Path -> Contents] /\ used \in [Path -> SUBSET Contents]
    /\ edits \in 0..MaxEdits /\ notified \subseteq Path
    /\ coalesced \in OptionEvent /\ dispatchChan \in Seq(Event) /\ Len(dispatchChan) <= 1

ManagerTypeOK ==
    /\ mpc \in {"wait", "start", "dispatch", "interrupted", "awaitTask", "awaitStatus",
                "awaitKilled", "lost", "drain", "exited", "recovering", "delay", "changed",
                "relaunch", "replacing", "replacementDied", "stopping", "down", "fatal"}
    /\ current \in OptionEvent /\ pending \in OptionEvent
    /\ mayInterrupt \in BOOLEAN /\ recover \in BOOLEAN
    /\ applied \in [Path -> FileState \union {Unknown}]
    /\ appliedSnap \in SourceSnapshot \union {NoSnapshot}
    /\ retry \in Retry

OperationTypeOK ==
    /\ barrier \in {"free", "manager", "eval"} /\ owner \in {"none", "task", "manager", "eval"}
    /\ opc \in {"idle", "spawned", "reload", "init", "publish", "after", "hooks", "stop",
                "stopping", "launch", "end"}
    /\ result \in {"ok", "broken", "recovery", "fatal"}
    /\ expected \in SourceSnapshot \union {NoSnapshot} /\ needKill \in BOOLEAN
    /\ started \in [Path -> Contents] /\ loaded \in [Path -> Contents]
    /\ published \in [Path -> Contents] \union {NoSnapshot}
    /\ epc \in {"idle", "queued", "running"} /\ evals \in 0..MaxEvals

ProcessTypeOK ==
    /\ session \in Session /\ alive \subseteq Session /\ request \in Session \union {0}
    /\ watch \in [Session -> {"none", "watching", "exiting", "gone"}]
    /\ ack \in {"none", "acked", "dropped"}
    /\ exitChan \in Seq(Session) /\ Len(exitChan) <= 1
    /\ failures \in 0..MaxFailures /\ shutdown \in BOOLEAN

\* Every variable has its type; in particular the dispatch
\* channel holds at most one event and the exit channel at most one status.
TypeOK == QueuesTypeOK /\ ManagerTypeOK /\ OperationTypeOK /\ ProcessTypeOK

\* At most one GHCi process runs, and it is the one ghciwatch talks to: a restart
\* starts the new command only once the old process tree is gone (Ghci::stop).  A
\* shutdown request makes stop give up that guarantee; ShutdownKills is left then.
OneProcess == ~shutdown => alive \subseteq {session}

\* An exit status on its way to the manager is about the session in use, and that
\* session is dead: no replacement is ever mistaken for the session it replaced.
\* (After a shutdown request the manager no longer acts on the status.)
ExitBelongsToSession ==
    \A s \in Session :
        ~shutdown /\ (exitChan = <<s>> \/ watch[s] = "exiting") => s = session /\ s \notin alive

Quiet == notified = {} /\ coalesced = NoEvent /\ dispatchChan = <<>>
AtRest == Quiet /\ mpc = "wait" /\ exitChan = <<>> /\ watch[session] = "watching" /\ session \in alive

\* When everything is at rest with a live session, that session has loaded the files
\* as they are, whatever died and was replaced on the way.
QuiescentLoaded == AtRest => loaded = disk

\* ... and the error log is about exactly those files.
QuiescentPublished == AtRest => published = loaded

\* The crash loop waits for a change only if the replacement that died last was
\* started after the last edit: no edit is taken for one that was tried already.
CrashLoopIsCurrent ==
    Quiet /\ mpc = "changed" /\ retry.event = NoEvent => started = disk

\* A session's death never takes ghciwatch down: the manager replaces it.
NeverFatal == mpc = "fatal" => shutdown

\* A dead session is replaced without anyone's help, unless a replacement died too
\* and awaits a change, ghciwatch gives up, or it is shutting down.
EventuallyReplaced ==
    session \notin alive ~>
        \/ session \in alive \/ mpc = "fatal" \/ shutdown
        \/ mpc = "changed" /\ ~retry.first

\* After a shutdown request no GHCi process is left, and none is started again.
ShutdownKills == shutdown ~> [](alive = {})

=============================================================================
