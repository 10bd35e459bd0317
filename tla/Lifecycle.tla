----------------------------- MODULE Lifecycle -----------------------------
(***************************************************************************)
(* From main() to its end: the tasks of ShutdownManager (src/shutdown.rs,  *)
(* src/main.rs), the session that run_ghci starts, replaces and stops      *)
(* (src/ghci/manager.rs, Ghci::new and Ghci::stop in src/ghci/mod.rs) and  *)
(* the setup-shell gate in front of every launch (src/ghci/setup.rs).      *)
(*                                                                         *)
(* A shutdown is a broadcast: it reaches the subscriptions that exist when *)
(* it is sent, and every clone of a ShutdownHandle subscribes anew.        *)
(***************************************************************************)
EXTENDS Integers, FiniteSets

CONSTANTS
    MaxSessions,    \* bound: sessions started
    MaxEdits,       \* bound: edits to what setup-shell depends on, per run of setup::run
    MaxCrashes,     \* bound: sessions that exit by themselves
    Reverts         \* may an edit restore earlier contents?

ASSUME LifecycleAssumption ==
    /\ MaxSessions \in Nat \ {0} /\ MaxEdits \in Nat /\ MaxCrashes \in Nat
    /\ Reverts \in BOOLEAN

Sessions == 1..MaxSessions
stderr(i) == <<"stderr", i>>
ghci_process(i) == <<"ghci_process", i>>
run_watcher == <<"run_watcher", 0>>
run_ghci == <<"run_ghci", 0>>
watch_parent == <<"watch_parent", 0>>
setup_watcher == <<"setup_watcher", 0>>
MainReceiver == <<"main", 0>>
NewReceiver == <<"Ghci::new", 0>>
GhciReceiver == <<"Ghci", 0>>
Main == {run_watcher, run_ghci, watch_parent, setup_watcher}
Task == Main \union {stderr(i) : i \in Sessions} \union {ghci_process(i) : i \in Sessions}

VARIABLES
    task,       \* [Task -> "none", "run", or how it ended: "ok", "failed", "cancelled"]
    collected,  \* failed tasks whose manage_handle has sent the result
    inbox,      \* subscriptions: [Receiver -> "none", "quiet", "told"]
    main,       \* main(): where it is, and what it returned
    ghci,       \* run_ghci: where it is and why it constructs a session; the session
                \* it owns and the one under construction; what the manager has been told
    process,    \* [Sessions -> "none", "up", "dead", "orphan"]
    setup,      \* setup::run and the files it depends on
    hist        \* history: requests for shutdown and whether one met a construction; the
                \* sessions nobody will stop; tasks that failed by themselves; the launches
                \* and changed contents that setup has not yet used up

vars == <<task, collected, inbox, main, ghci, process, setup, hist>>

\* main's receiver, each task's, the handle given to Ghci::new, and Ghci::shutdown
Receiver == Task \union {MainReceiver, NewReceiver, GhciReceiver}

\* setup: the contents of the watched files, what the last attempt read of them, what
\* ContentChanges last observed, the edits so far, the unseen notification of updates
\* and the debounced events under way
Outside == [content |-> 0, read |-> 0, known |-> 0, edits |-> 0, notified |-> FALSE,
            events |-> {}]
Init ==
    /\ task = [t \in Task |-> "none"] /\ collected = {}
    /\ inbox = [r \in Receiver |-> IF r = MainReceiver THEN "quiet" ELSE "none"]
    /\ main = [at |-> "watcher", ready |-> FALSE, early |-> FALSE, failures |-> {}]
    /\ ghci = [at |-> "none", ctx |-> "startup", gen |-> 0, owned |-> 0, building |-> 0,
               bound |-> FALSE, exit |-> FALSE, ack |-> FALSE]
    /\ process = [i \in Sessions |-> "none"]
    /\ setup = Outside
    /\ hist = [requested |-> FALSE, struck |-> FALSE, forced |-> FALSE, late |-> {},
               own |-> {}, spare |-> 0, crashes |-> 0]

Running(t) == task[t] = "run"
Told(r) == inbox[r] = "told"
Spawned == {t \in Task : task[t] # "none"}

-----------------------------------------------------------------------------
(* ShutdownManager and ShutdownHandle.                                     *)

\* Phases of Ghci::new
Constructing == {"attempt", "ran", "log", "changed", "launch", "process", "construct"}
\* run_ghci has not subscribed, or a session is being constructed, or stopped to be replaced.
Unsettled == Constructing \union {"none", "spawn", "clone", "stopping"}

\* broadcast::Sender::send; request_shutdown
Broadcast ==
    /\ inbox' = [r \in Receiver |-> IF inbox[r] = "quiet" THEN "told" ELSE inbox[r]]
    /\ hist' = [hist EXCEPT !.requested = TRUE, !.struck = @ \/ ghci.at \in Unsettled]

\* ShutdownManager::spawn and ShutdownHandle::spawn
Spawn(t) ==
    /\ task' = [task EXCEPT ![t] = "run"]
    /\ inbox' = [inbox EXCEPT ![t] = "quiet"]

\* A task is over: its handle, and so its subscription, is dropped.
End(t, how) ==
    /\ task' = [task EXCEPT ![t] = how]
    /\ inbox' = [inbox EXCEPT ![t] = "none"]
Fails(t) == hist' = [hist EXCEPT !.own = @ \union {t}]

\* manage_handle: a failure requests a shutdown before the result is sent; that a
\* task ended otherwise has no further effect.
manage_handle(t) ==
    /\ task[t] = "failed" /\ t \notin collected
    /\ collected' = collected \union {t}
    /\ Broadcast
    /\ UNCHANGED <<task, main, ghci, process, setup>>

-----------------------------------------------------------------------------
(* main().                                                                 *)

SpawnWatcher ==
    /\ main.at = "watcher"
    /\ Spawn(run_watcher)
    /\ main' = [main EXCEPT !.at = "ready"]
    /\ UNCHANGED <<collected, ghci, process, setup, hist>>

\* watcher_ready: the watches are installed before setup or GHCi can run.  When the
\* watcher fails first its sender is dropped, and main() returns the error of the
\* channel: it does not come to check_task_failures, so it names no task.
WatcherReady ==
    /\ main.at = "ready"
    /\ \/ main.ready /\ main' = [main EXCEPT !.at = "ghci"]
       \/ ~main.ready /\ ~Running(run_watcher)
          /\ main' = [main EXCEPT !.at = "exited", !.early = TRUE]
    /\ UNCHANGED <<task, collected, inbox, ghci, process, setup, hist>>

SpawnGhci ==
    /\ main.at = "ghci"
    /\ Spawn(run_ghci)
    /\ ghci' = [ghci EXCEPT !.at = "spawn"]
    /\ main' = [main EXCEPT !.at = "parent"]
    /\ UNCHANGED <<collected, process, setup, hist>>

SpawnParent ==
    /\ main.at = "parent"
    /\ Spawn(watch_parent)
    /\ main' = [main EXCEPT !.at = "wait"]
    /\ UNCHANGED <<collected, ghci, process, setup, hist>>

\* Fault: unfinished tasks are noted but not cancelled.
CancelTasksFault ==
    /\ main' = [main EXCEPT !.at = "collect"]
    /\ UNCHANGED <<task, process, ghci>>
\* Handles::cancel_tasks.  A cancelled ghci_process drops its child, which kills
\* the command (kill_on_drop) but not the processes that it started.
cancel_tasks ==
    /\ main' = [main EXCEPT !.at = "collect"]
    /\ task' = [t \in Task |-> IF Running(t) THEN "cancelled" ELSE task[t]]
    /\ process' = [i \in Sessions |-> IF process[i] = "up" THEN "orphan" ELSE process[i]]
    /\ ghci' = [ghci EXCEPT !.at = "over"]

\* wait_for_shutdown: Ctrl-C starts the shutdown, ...
CtrlC ==
    /\ main.at = "wait" /\ Broadcast
    /\ main' = [main EXCEPT !.at = "grace"]
    /\ UNCHANGED <<task, collected, ghci, process, setup>>
\* ... or a task or handle has requested it;
ShutdownRequested ==
    /\ main.at = "wait" /\ Told(MainReceiver)
    /\ main' = [main EXCEPT !.at = "grace"]
    /\ UNCHANGED <<task, collected, inbox, ghci, process, setup, hist>>

\* Ctrl-C again ends the grace period,
CtrlCAgain ==
    /\ main.at = "grace" /\ cancel_tasks
    /\ hist' = [hist EXCEPT !.forced = TRUE]
    /\ UNCHANGED <<collected, inbox, setup>>
\* and so does the guard channel, which closes when the last ShutdownHandle is
\* dropped: those of the tasks, and the one in the Ghci that the eval socket's
\* listener shares.
Guards == {t \in Task : Running(t)} \union (IF ghci.bound THEN {<<"eval socket", 0>>} ELSE {})
AllFinished ==
    /\ main.at \in {"wait", "grace"} /\ Guards = {} /\ cancel_tasks
    /\ UNCHANGED <<collected, inbox, setup, hist>>

\* Fault: results that have not been sent yet count as success.
CheckTaskFailuresFault ==
    /\ main.at = "collect"
    /\ main' = [main EXCEPT !.at = "exited", !.failures = collected]
    /\ UNCHANGED <<task, collected, inbox, ghci, process, setup, hist>>

\* Handles::check_task_failures awaits the result of every task.
check_task_failures ==
    /\ main.at = "collect"
    /\ \A t \in Spawned : ~Running(t) /\ (task[t] = "failed" => t \in collected)
    /\ main' = [main EXCEPT !.at = "exited", !.failures = collected]
    /\ UNCHANGED <<task, collected, inbox, ghci, process, setup, hist>>

-----------------------------------------------------------------------------
(* run_watcher, watch_parent and setup_watcher.                            *)

\* run_debouncer installs the watches, says so, and serves until it is told to end
\* or run_ghci drops its end of the command channel.
WatchesInstalled ==
    /\ Running(run_watcher) /\ ~main.ready
    /\ main' = [main EXCEPT !.ready = TRUE]
    /\ UNCHANGED <<task, collected, inbox, ghci, process, setup, hist>>
WatcherEnds ==
    /\ Running(run_watcher) /\ main.ready
    /\ Told(run_watcher) \/ task[run_ghci] \in {"ok", "failed", "cancelled"}
    /\ End(run_watcher, "ok")
    /\ UNCHANGED <<collected, main, ghci, process, setup, hist>>

\* The debouncer cannot be created, or its loop fails.
WatcherFails ==
    /\ Running(run_watcher) /\ hist.own = {}
    /\ End(run_watcher, "failed") /\ Fails(run_watcher)
    /\ UNCHANGED <<collected, main, ghci, process, setup>>

\* EventHandler::handle_event_async: a fatal error requests a shutdown.
WatchError ==
    /\ Running(run_watcher) /\ ~hist.requested
    /\ Broadcast
    /\ UNCHANGED <<task, collected, main, ghci, process, setup>>

\* watch_parent
ParentExits ==
    /\ Running(watch_parent) /\ ~Told(watch_parent)
    /\ task' = [task EXCEPT ![watch_parent] = "ok"]
    /\ inbox' = [r \in Receiver |-> CASE r = watch_parent -> "none"
                                      [] r # watch_parent /\ inbox[r] = "quiet" -> "told"
                                      [] OTHER -> inbox[r]]
    /\ hist' = [hist EXCEPT !.requested = TRUE, !.struck = @ \/ ghci.at \in Unsettled]
    /\ UNCHANGED <<collected, main, ghci, process, setup>>
\* It and setup_watcher end when told, setup_watcher also when the watcher's channel
\* closes.  Neither waits for, or is waited for by, another task.
BystandersEnd ==
    LET ending == {t \in {watch_parent, setup_watcher} : Running(t) /\
                     (Told(t) \/ (t = setup_watcher /\ ~Running(run_watcher)))}
    IN  /\ ending # {}
        /\ task' = [t \in Task |-> IF t \in ending THEN "ok" ELSE task[t]]
        /\ inbox' = [r \in Receiver |-> IF r \in ending THEN "none" ELSE inbox[r]]
        /\ UNCHANGED <<collected, main, ghci, process, setup, hist>>

-----------------------------------------------------------------------------
(* The setup gate.  setup.events are the debounced batches under way: one  *)
(* of an edit of a watched file, one of ghciwatch's own error log.  What   *)
(* is delivered outside the gate is marked seen by the next first attempt. *)

InGate == ghci.at \in {"attempt", "ran", "log", "changed"}
\* A file is written: with new contents, with those it has (touch, an identical
\* rewrite) or, where Reverts allows it, with some it had before.
Edit ==
    /\ InGate /\ setup.edits < MaxEdits
    /\ \E c \in IF Reverts THEN 0..(setup.edits + 1) ELSE {setup.content, setup.edits + 1} :
          /\ setup' = [setup EXCEPT !.content = c, !.edits = @ + 1,
                                     !.events = @ \union {"edit"}]
          /\ hist' = [hist EXCEPT !.spare = IF c # setup.content THEN @ + 1 ELSE @]
    /\ UNCHANGED <<task, collected, inbox, main, ghci, process>>

\* Fault: the error log is not told apart from an edit.
WakesSetupFault(e) == TRUE
\* EventHandler::handle_event_inner: the error log and its temporary file do not
\* wake setup.
WakesSetup(e) == e # "log"
\* ContentChanges::observe: the files are compared with what was observed last, so
\* a batch that finds those contents again is no event.
Observe(e) == e = "edit" => setup.content # setup.known
Notify(e) ==
    /\ InGate /\ Running(run_watcher) /\ e \in setup.events
    /\ setup' = [setup EXCEPT !.events = @ \ {e},
                               !.known = IF e = "edit" THEN setup.content ELSE @,
                               !.notified = @ \/ (Observe(e) /\ WakesSetup(e))]
    /\ UNCHANGED <<task, collected, inbox, main, ghci, process, hist>>

At(place) == Running(run_ghci) /\ ghci.at = place
\* The initial start-up is polled behind a biased select on the shutdown.
Preempted == ghci.ctx = "startup" /\ Told(run_ghci)
Goto(place) == ghci' = [ghci EXCEPT !.at = place]

\* setup::run, one attempt: borrow_and_update, then the commands, which see the
\* files as they are at some moment of their execution.
SetupAttempt ==
    /\ At("attempt") /\ ~Preempted
    /\ setup' = [setup EXCEPT !.notified = FALSE]
    /\ Goto("ran")
    /\ hist' = [hist EXCEPT !.spare = @ - 1]
    /\ UNCHANGED <<task, collected, inbox, main, process>>
SetupRuns ==
    /\ At("ran") /\ ~Preempted
    /\ \/ /\ Goto("launch")
          /\ setup' = Outside /\ hist' = [hist EXCEPT !.spare = 0]
       \/ /\ Goto("log")
          /\ setup' = [setup EXCEPT !.read = setup.content] /\ UNCHANGED hist
    /\ UNCHANGED <<task, collected, inbox, main, process>>
\* Fault: notifications are marked seen after the attempt as well.
SetupFailsFault ==
    /\ At("log")
    /\ setup' = [setup EXCEPT !.events = @ \union {"log"}, !.notified = FALSE]
    /\ Goto("changed")
    /\ UNCHANGED <<task, collected, inbox, main, process, hist>>
\* ErrorLog::write by way of a temporary file, then the after-reload shell hooks
SetupFails ==
    /\ At("log")
    /\ setup' = [setup EXCEPT !.events = @ \union {"log"}]
    /\ Goto("changed")
    /\ UNCHANGED <<task, collected, inbox, main, process, hist>>
\* updates.changed()
SetupRetries ==
    /\ At("changed") /\ setup.notified /\ ~Preempted
    /\ Goto("attempt")
    /\ UNCHANGED <<task, collected, inbox, main, process, setup, hist>>

-----------------------------------------------------------------------------
(* run_ghci.                                                               *)

\* Dropping Ghci::new between the start of the command and of the task that watches
\* it kills the command (kill_on_drop) but not the processes that it started.
DropChild ==
    process' = [i \in Sessions |-> IF i = ghci.building /\ task[ghci_process(i)] = "none"
                                   THEN "orphan" ELSE process[i]]
Return(how) ==
    /\ DropChild
    /\ End(run_ghci, how)
    /\ ghci' = [ghci EXCEPT !.at = "over", !.building = 0,
                            !.owned = IF ghci.bound THEN @ ELSE 0]

\* The spawned dispatch of a restart is aborted with what it constructs.
Abort == DropChild /\ ghci' = [ghci EXCEPT !.at = "stop", !.building = 0, !.ack = FALSE]

SpawnSetupWatcher ==
    /\ At("spawn")
    /\ Spawn(setup_watcher)
    /\ Goto("clone")
    /\ UNCHANGED <<collected, main, process, setup, hist>>

\* Ghci::new begins with a clone of its caller's handle.
CloneHandle ==
    /\ At("clone")
    /\ inbox' = [inbox EXCEPT ![NewReceiver] = "quiet"]
    /\ Goto("attempt")
    /\ hist' = [hist EXCEPT !.spare = @ + 1, !.struck = @ \/ hist.requested]
    /\ UNCHANGED <<task, collected, main, process, setup>>

\* Shutdown during Ghci::new: the initial start-up returns, a dispatch is aborted,
\* the retry of a crashed session does not look.
ConstructionTold ==
    /\ Running(run_ghci) /\ ghci.at \in Constructing /\ Told(run_ghci)
    /\ \/ ghci.ctx = "startup" /\ Return("ok")
       \/ ghci.ctx = "dispatch" /\ Abort /\ UNCHANGED <<task, inbox>>
    /\ UNCHANGED <<collected, main, setup, hist>>

\* Ghci::new's own select around setup::run: "Shutdown during setup", or "Setup
\* watcher closed".  A dispatch that fails so is still overtaken by the shutdown.
SetupGivesUp ==
    /\ Running(run_ghci) /\ ghci.at \in {"attempt", "ran", "log", "changed"}
    /\ Told(NewReceiver) \/ (ghci.at = "changed" /\ ~Running(run_watcher) /\ ~Preempted)
    /\ ghci.ctx # "dispatch" \/ ~Told(run_ghci)
    /\ Return("failed")
    /\ UNCHANGED <<collected, main, setup, hist>>

\* The command and the task that reads its stderr are started ...
Launch ==
    /\ At("launch") /\ ghci.gen < MaxSessions
    /\ LET i == ghci.gen + 1
       IN /\ Spawn(stderr(i))
          /\ process' = [process EXCEPT ![i] = "up"]
          /\ ghci' = [ghci EXCEPT !.at = "process", !.gen = i, !.building = i]
    /\ UNCHANGED <<collected, main, setup, hist>>
\* ... then the task that watches the process.  It is late when it subscribes after
\* the broadcast and nobody will stop it either: the retry of a crashed session does
\* not look at the shutdown, or run_ghci itself subscribed after the broadcast.
SpawnProcess ==
    /\ At("process")
    /\ Spawn(ghci_process(ghci.gen))
    /\ Goto("construct")
    /\ LET unstopped == hist.requested /\ (ghci.ctx = "retry" \/ ~Told(run_ghci))
       IN  hist' = [hist EXCEPT !.late = IF unstopped THEN @ \union {ghci.gen} ELSE @]
    /\ UNCHANGED <<collected, main, process, setup>>
\* ... and Ghci keeps another clone of the handle.  It replaces the session before.
Construct ==
    /\ At("construct")
    /\ inbox' = [inbox EXCEPT ![GhciReceiver] = "quiet", ![NewReceiver] = "none"]
    /\ ghci' = [ghci EXCEPT !.at = "init", !.owned = ghci.gen, !.building = 0]
    /\ UNCHANGED <<task, collected, main, process, setup, hist>>

\* Ghci::initialize succeeds; after the first start-up the eval socket is bound
\* and shares the session.
Initialized ==
    /\ At("init") /\ process[ghci.owned] = "up"
    /\ ghci' = [ghci EXCEPT !.at = "serve", !.bound = TRUE]
    /\ UNCHANGED <<task, collected, inbox, main, process, setup, hist>>

\* The process is gone: a broken pipe, then its exit status or the shutdown.
InitBroken ==
    /\ At("init") /\ process[ghci.owned] = "dead"
    /\ \/ /\ ghci.exit
          /\ ghci' = [ghci EXCEPT !.at = "delay", !.exit = FALSE]
          /\ UNCHANGED <<task, inbox, process>>
       \/ Told(run_ghci) /\ Return("ok")
    /\ UNCHANGED <<collected, main, setup, hist>>

\* Shutdown while initializing: at start-up and in a dispatch the session is stopped.
InitTold ==
    /\ At("init") /\ Told(run_ghci) /\ ghci.ctx # "retry"
    /\ Abort
    /\ UNCHANGED <<task, collected, inbox, main, setup, hist>>

\* Fault: only an acknowledgement ends a stop.
StopSucceedsFault == ghci.ack
\* Ghci::stop: the process watcher acknowledges, or it is already gone, which is
\* an error unless Ghci's own handle has heard of the shutdown.  Asking the handle
\* (try_recv) consumes the message.
StopSucceeds == ghci.ack \/ Told(GhciReceiver)
StopHears == IF ghci.ack THEN inbox ELSE [inbox EXCEPT ![GhciReceiver] = "quiet"]

\* wait_for_event and handle_event: a shutdown, the closed channel of the watcher
ManagerTold ==
    /\ At("serve") \/ At("stopping")
    /\ Told(run_ghci) \/ (At("serve") /\ ~Running(run_watcher))
    /\ Abort
    /\ UNCHANGED <<task, collected, inbox, main, setup, hist>>

\* a dispatched restart, which first stops the session (restart_inner)
Restart ==
    /\ At("serve") /\ Running(run_watcher)
    /\ ghci.gen < MaxSessions /\ ~ghci.exit
    /\ ghci' = [ghci EXCEPT !.at = "stopping", !.ctx = "dispatch", !.ack = FALSE]
    /\ UNCHANGED <<task, collected, inbox, main, process, setup, hist>>
Stopped ==
    /\ At("stopping") /\ ~Running(ghci_process(ghci.owned)) /\ StopSucceeds
    /\ inbox' = StopHears
    /\ ghci' = [ghci EXCEPT !.at = "clone", !.exit = FALSE]
    /\ UNCHANGED <<task, collected, main, process, setup, hist>>
\* The process exited before it could be stopped: the dispatch fails.
StopFails ==
    /\ At("stopping") /\ ~Running(ghci_process(ghci.owned)) /\ ~StopSucceeds
    /\ Return("failed") /\ Fails(run_ghci)
    /\ UNCHANGED <<collected, main, setup>>

\* The process died under an operation whose error is no broken pipe, such as an
\* answer that the stderr task dropped: run_ghci returns it.
SessionFails ==
    /\ (At("init") /\ ~Preempted) \/ At("serve")
    /\ process[ghci.owned] = "dead"
    /\ Return("failed") /\ Fails(run_ghci)
    /\ UNCHANGED <<collected, main, setup>>

\* an exit status while waiting
ExitStatus ==
    /\ At("serve") /\ ghci.exit
    /\ ghci' = [ghci EXCEPT !.at = "delay", !.exit = FALSE]
    /\ UNCHANGED <<task, collected, inbox, main, process, setup, hist>>

\* wait_and_restart: the crash delay, then startup_restart.  A shutdown that comes
\* together with the end of the delay may be overlooked, as if it came after it.
Retry ==
    /\ At("delay")
    /\ \/ /\ Told(run_ghci) \/ ~Running(run_watcher)
          /\ Return("ok")
       \/ /\ ~Told(run_ghci) /\ Running(run_watcher) /\ ghci.gen < MaxSessions
          /\ ghci' = [ghci EXCEPT !.at = "clone", !.ctx = "retry"]
          /\ UNCHANGED <<task, inbox, process>>
    /\ UNCHANGED <<collected, main, setup, hist>>

\* Ghci::stop in a shutdown
StopInShutdown ==
    /\ At("stop") /\ ~Running(ghci_process(ghci.owned))
    /\ Return(IF StopSucceeds THEN "ok" ELSE "failed")
    /\ UNCHANGED <<collected, main, setup, hist>>

-----------------------------------------------------------------------------
(* The tasks of a session.                                                 *)

\* restart_sender of session i is alive, and asks for a stop.
SenderAlive(i) == i \in {ghci.owned, ghci.building}
StopRequested(i) == ghci.owned = i /\ ghci.at \in {"stop", "stopping"}

\* Fault: the process watcher has no branch for the shutdown.
ProcessStopsFault(i) ==
    /\ Running(ghci_process(i)) /\ process[i] = "up"
    /\ StopRequested(i) \/ ~SenderAlive(i)
    /\ process' = [process EXCEPT ![i] = "dead"]
    /\ End(ghci_process(i), "ok")
    /\ ghci' = [ghci EXCEPT !.ack = StopRequested(i)]
    /\ UNCHANGED <<collected, main, setup, hist>>
\* GhciProcess::run_with_watchdog: the shutdown, a request to stop, or the end of
\* the session that could ask; kill_process_tree and the exit of the process
ProcessStops(i) ==
    /\ Running(ghci_process(i)) /\ process[i] = "up"
    /\ Told(ghci_process(i)) \/ StopRequested(i) \/ ~SenderAlive(i)
    /\ process' = [process EXCEPT ![i] = "dead"]
    /\ End(ghci_process(i), "ok")
    /\ ghci' = [ghci EXCEPT !.ack = StopRequested(i) /\ ~Told(ghci_process(i))]
    /\ UNCHANGED <<collected, main, setup, hist>>

\* The process exits (or the watchdog kills it): its status is sent.
ProcessCrashes(i) ==
    /\ Running(ghci_process(i)) /\ process[i] = "up" /\ hist.crashes < MaxCrashes
    /\ process' = [process EXCEPT ![i] = "dead"]
    /\ End(ghci_process(i), "ok")
    /\ ghci' = [ghci EXCEPT !.exit = TRUE]
    /\ hist' = [hist EXCEPT !.crashes = @ + 1]
    /\ UNCHANGED <<collected, main, setup>>

\* The stderr task of a session ends with the shutdown only: while it can still
\* hear of one, its select is never without a branch.
StderrEnds(i) ==
    /\ Running(stderr(i)) /\ Told(stderr(i))
    /\ End(stderr(i), "ok")
    /\ UNCHANGED <<collected, main, ghci, process, setup, hist>>

-----------------------------------------------------------------------------
SessionTask(i) == ProcessStops(i) \/ StderrEnds(i)
\* Steps that take no time compared with the shutdown timeout, which includes
\* that of the before-kill commands (GhciOpts::shutdown_timeout)
RunGhci ==
    \/ SpawnSetupWatcher \/ CloneHandle \/ ConstructionTold \/ SetupGivesUp \/ SetupAttempt
    \/ SetupFails \/ SetupRetries \/ SpawnProcess \/ Construct \/ InitBroken \/ InitTold
    \/ ManagerTold \/ Stopped \/ StopFails \/ SessionFails \/ ExitStatus \/ StopInShutdown
Quick ==
    \/ RunGhci \/ WatchesInstalled \/ WatcherEnds \/ BystandersEnd
    \/ \E i \in Sessions : SessionTask(i)
    \/ \E t \in Task : manage_handle(t)
\* Steps that wait for the outside: setup-shell, start-up hooks, a compilation, the delay
Slow == SetupRuns \/ Launch \/ Initialized \/ Retry

\* Nothing that takes no time is left to do.
AllWait == ~ENABLED Quick

\* Graceful shutdown timed out.
ShutdownTimeout ==
    /\ main.at = "grace" /\ AllWait /\ cancel_tasks
    /\ UNCHANGED <<collected, inbox, setup, hist>>

MainSteps ==
    \/ SpawnWatcher \/ WatcherReady \/ SpawnGhci \/ SpawnParent \/ ShutdownRequested
    \/ AllFinished \/ check_task_failures \/ ShutdownTimeout

Next ==
    /\ main.at # "exited"
    /\ \/ MainSteps \/ Quick \/ Slow
       \/ CtrlC \/ CtrlCAgain \/ ParentExits \/ WatcherFails \/ WatchError
       \/ Restart \/ Edit
       \/ \E e \in {"edit", "log"} : Notify(e)
       \/ \E i \in Sessions : ProcessCrashes(i)

Fairness == WF_vars(main.at # "exited" /\ MainSteps) /\ WF_vars(main.at # "exited" /\ Quick)
Spec == Init /\ [][Next]_vars /\ Fairness

-----------------------------------------------------------------------------
(* Properties.                                                             *)

Places == Constructing \union {"none", "spawn", "clone", "init", "serve", "stopping", "stop",
                                "delay", "over"}

Generations == 0..MaxSessions             \* 0: no session

\* Every variable has its type.
TaskType == task \in [Task -> {"none", "run", "ok", "failed", "cancelled"}]
InboxType == inbox \in [Receiver -> {"none", "quiet", "told"}]
MainType ==
    main \in [at : {"watcher", "ready", "ghci", "parent", "wait", "grace", "collect", "exited"},
              ready : BOOLEAN, early : BOOLEAN, failures : SUBSET Task]
GhciType ==
    ghci \in [at : Places, ctx : {"startup", "dispatch", "retry"}, gen : Generations,
              owned : Generations, building : Generations,
              bound : BOOLEAN, exit : BOOLEAN, ack : BOOLEAN]
SetupType ==
    setup \in [content : Nat, read : Nat, known : Nat, edits : Nat, notified : BOOLEAN,
               events : SUBSET {"edit", "log"}]
HistType ==
    hist \in [requested : BOOLEAN, struck : BOOLEAN, forced : BOOLEAN, late : SUBSET Generations,
              own : SUBSET Task, spare : Int, crashes : Nat]
TypeOK ==
    /\ TaskType /\ collected \subseteq Task /\ InboxType /\ MainType /\ GhciType
    /\ process \in [Sessions -> {"none", "up", "dead", "orphan"}]
    /\ SetupType /\ HistType

\* main() returns an error exactly when a task failed, and names the tasks that did
\* (check_task_failures), with one exception: a watcher that fails before it is ready
\* ends main() with the error of a channel, and no other task has been spawned then.
Failed == {t \in Task : task[t] = "failed"}
ReturnsError == main.early \/ main.failures # {}
FailuresReported ==
    main.at = "exited" =>
        /\ ReturnsError <=> Failed # {}
        /\ IF main.early THEN Spawned = {run_watcher} ELSE main.failures = Failed

\* A shutdown is not itself a failure: when main() returns an error, a task has failed
\* by itself, unless the shutdown struck while run_ghci was not yet subscribed,
\* cloned its handle, constructed a session or stopped one to replace it (Ghci::new
\* and Ghci::stop, error_if_shutdown_requested).
FailuresHaveACause ==
    (main.at = "exited" /\ hist.own = {} /\ ~hist.struck) => ~ReturnsError

\* No process outlives ghciwatch: the tree of a session has been killed when main()
\* returns, unless the user insisted; or Ghci::new was dropped after it had started
\* the command and before it had spawned the task that watches it; or that task
\* subscribed after the broadcast under the retry of a crashed session, or under a
\* run_ghci that itself subscribed after it.
NoOrphan ==
    (main.at = "exited" /\ ~hist.forced) =>
        \A i \in Sessions \ hist.late :
            task[ghci_process(i)] # "none" => process[i] \in {"none", "dead"}

\* Setup never waits for a change that has already been made: when the files differ
\* from what the failed attempt read, a notification is there or under way.  An edit
\* that restores earlier contents is filtered, so it holds without Reverts only.
NoMissedRepair ==
    (At("changed") /\ Running(run_watcher) /\ setup.content # setup.read) =>
        setup.notified \/ "edit" \in setup.events

\* Setup is repeated for changed contents only: neither its own error log, nor touch
\* or an identical rewrite, nor one change delivered twice makes another attempt.
RetriesAreEdits == hist.spare >= 0

\* Once a shutdown is requested main() returns, also when a task subscribed too
\* late to hear of it (cancel_tasks, check_task_failures).
EventuallyExits == hist.requested ~> main.at = "exited"
=============================================================================
