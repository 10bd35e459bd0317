-------------------------- MODULE LifecycleProofs --------------------------
(***************************************************************************)
(* Proofs about Lifecycle, for every number of sessions, edits and crashes: *)
(* main() returns an error exactly when a task failed, a shutdown alone is *)
(* never reported as one, and the setup gate misses no repair that is not  *)
(* undone and runs again for changed contents only.                        *)
(*                                                                         *)
(* ShutdownTimeout's condition AllWait is left unexpanded (it says ENABLED, *)
(* which the provers cannot handle): no proof here depends on when the     *)
(* grace period runs out.                                                  *)
(***************************************************************************)
EXTENDS Lifecycle, TLAPS

Ended == {"ok", "failed", "cancelled"}

\* The tasks that main() and run_ghci spawn, and the receivers that belong to no
\* task, are all different.
LEMMA Names ==
    /\ run_watcher \in Task /\ run_ghci \in Task /\ watch_parent \in Task /\ setup_watcher \in Task
    /\ run_watcher # run_ghci /\ run_watcher # watch_parent /\ run_watcher # setup_watcher
    /\ run_ghci # watch_parent /\ run_ghci # setup_watcher /\ watch_parent # setup_watcher
    /\ MainReceiver \notin Task /\ NewReceiver \notin Task /\ GhciReceiver \notin Task
    /\ GhciReceiver # NewReceiver /\ GhciReceiver # MainReceiver
    /\ Receiver = Task \union {MainReceiver, NewReceiver, GhciReceiver}
BY DEF Task, Main, Receiver, run_watcher, run_ghci, watch_parent, setup_watcher,
       MainReceiver, NewReceiver, GhciReceiver, stderr, ghci_process

\* The two tasks of a session (stderr, ghci_process) are none of main()'s.
LEMMA SessionNames ==
    ASSUME NEW i \in Generations
    PROVE  /\ stderr(i) # run_watcher /\ stderr(i) # run_ghci
           /\ ghci_process(i) # run_watcher /\ ghci_process(i) # run_ghci
           /\ i \in Sessions => stderr(i) \in Task /\ ghci_process(i) \in Task
BY DEF Task, Main, run_watcher, run_ghci, watch_parent, setup_watcher, stderr, ghci_process

\* A session, or its absence, is a generation.
LEMMA GenerationFacts == 0 \in Generations /\ Sessions \subseteq Generations
BY LifecycleAssumption DEF Generations, Sessions

-----------------------------------------------------------------------------
(* Type correctness.                                                       *)

\* main() starts with every variable in its type.
LEMMA TypeInit == Init => TypeOK
BY LifecycleAssumption, Names
   DEF Init, TypeOK, TaskType, InboxType, MainType, GhciType, SetupType, HistType, Outside, Places,
       Sessions, Generations

\* Ghci's record after a return and after an abort.
LEMMA ReturnFacts ==
    ASSUME GhciType, NEW how, Return(how)
    PROVE  GhciType' /\ ghci'.at = "over"
<1>1. ghci' = [ghci EXCEPT !.at = "over", !.building = 0,
                           !.owned = IF ghci.bound THEN ghci.owned ELSE 0]
  BY DEF Return, GhciType
<1>2. "over" \in Places /\ 0 \in Generations /\ ghci.owned \in Generations
  BY GenerationFacts DEF GhciType, Places
<1> QED
  BY <1>1, <1>2 DEF GhciType
LEMMA AbortFacts ==
    ASSUME GhciType, Abort
    PROVE  GhciType' /\ ghci'.at = "stop"
<1>1. ghci' = [ghci EXCEPT !.at = "stop", !.building = 0, !.ack = FALSE]
  BY DEF Abort
<1>2. "stop" \in Places /\ 0 \in Generations
  BY GenerationFacts DEF Places
<1> QED
  BY <1>1, <1>2 DEF GhciType

\* Where a broken start and its retry leave run_ghci.
LEMMA InitBrokenFacts ==
    ASSUME GhciType, InitBroken
    PROVE  ghci'.at = "over" \/ (ghci'.at = "delay" /\ UNCHANGED <<task, inbox, process>>)
<1>1. CASE ghci' = [ghci EXCEPT !.at = "delay", !.exit = FALSE]
           /\ UNCHANGED <<task, inbox, process>>
  BY <1>1 DEF GhciType
<1> QED
  BY <1>1, ReturnFacts DEF InitBroken
LEMMA RetryFacts ==
    ASSUME GhciType, Retry
    PROVE  ghci'.at = "over" \/ (ghci'.at = "clone" /\ UNCHANGED <<task, inbox, process>>)
<1>1. CASE ghci' = [ghci EXCEPT !.at = "clone", !.ctx = "retry"]
           /\ UNCHANGED <<task, inbox, process>>
  BY <1>1 DEF GhciType
<1> QED
  BY <1>1, ReturnFacts DEF Retry

\* What an edit and the delivery of a batch do to the setup gate.
LEMMA EditFacts ==
    ASSUME SetupType, HistType, Edit
    PROVE  /\ SetupType' /\ HistType' /\ ghci' = ghci
           /\ setup'.read = setup.read /\ setup'.known = setup.known
           /\ setup'.notified = setup.notified
           /\ setup'.edits = setup.edits + 1 /\ setup'.events = setup.events \union {"edit"}
           /\ ~Reverts => setup'.content \in {setup.content, setup.edits + 1}
           /\ hist'.own = hist.own /\ hist'.struck = hist.struck
           /\ hist'.requested = hist.requested
           /\ hist'.spare = IF setup'.content # setup.content THEN hist.spare + 1
                            ELSE hist.spare
<1>1. PICK c \in IF Reverts THEN 0..(setup.edits + 1) ELSE {setup.content, setup.edits + 1} :
         /\ setup' = [setup EXCEPT !.content = c, !.edits = setup.edits + 1,
                                   !.events = setup.events \union {"edit"}]
         /\ hist' = [hist EXCEPT !.spare = IF c # setup.content THEN hist.spare + 1
                                           ELSE hist.spare]
  BY DEF Edit
<1>2. c \in Nat /\ (~Reverts => c \in {setup.content, setup.edits + 1})
  BY DEF SetupType
<1>3. SetupType' /\ setup'.content = c
  <2>1. setup.edits + 1 \in Nat /\ setup.events \union {"edit"} \in SUBSET {"edit", "log"}
    BY DEF SetupType
  <2> QED
    BY <1>1, <1>2, <2>1 DEF SetupType
<1>4. HistType'
  <2>1. CASE hist' = [hist EXCEPT !.spare = hist.spare + 1]
    BY <2>1 DEF HistType
  <2>2. CASE hist' = [hist EXCEPT !.spare = hist.spare]
    BY <2>2 DEF HistType
  <2> QED
    BY <1>1, <2>1, <2>2
<1> QED
  BY <1>1, <1>2, <1>3, <1>4 DEF Edit, SetupType, HistType
LEMMA NotifyFacts ==
    ASSUME SetupType, NEW e \in {"edit", "log"}, Notify(e)
    PROVE  /\ SetupType' /\ UNCHANGED <<ghci, hist>>
           /\ setup'.content = setup.content /\ setup'.read = setup.read
           /\ setup'.edits = setup.edits /\ setup'.events = setup.events \ {e}
           /\ setup'.known = IF e = "edit" THEN setup.content ELSE setup.known
           /\ setup'.notified <=> setup.notified \/ (e = "edit" /\ setup.content # setup.known)
<1>1. CASE e = "edit"
  BY <1>1 DEF Notify, Observe, WakesSetup, SetupType
<1>2. CASE e = "log"
  BY <1>2 DEF Notify, Observe, WakesSetup, SetupType
<1> QED
  BY <1>1, <1>2

\* Every step of main(), its tasks and the setup gate keeps the types.
LEMMA TypeNext == TypeOK /\ [Next]_vars => TypeOK'
<1> SUFFICES ASSUME TypeOK, [Next]_vars PROVE TypeOK'
  OBVIOUS
<1> USE Names, GenerationFacts DEF TypeOK
<1>1. CASE SpawnWatcher
  <2>1. TaskType'
    BY <1>1 DEF SpawnWatcher, Spawn, TaskType
  <2>2. InboxType'
    BY <1>1 DEF SpawnWatcher, Spawn, InboxType
  <2>3. MainType'
    BY <1>1 DEF SpawnWatcher, Spawn, MainType
  <2> QED
    BY <1>1, <2>1, <2>2, <2>3 DEF SpawnWatcher, GhciType, SetupType, HistType
<1>2. CASE WatcherReady
  <2>1. MainType'
    <3>1. CASE main.ready
      BY <1>2, <3>1 DEF WatcherReady, MainType
    <3>2. CASE ~main.ready
      <4>1. main' = [main EXCEPT !.at = "exited", !.early = TRUE]
        BY <1>2, <3>2 DEF WatcherReady
      <4> QED
        BY <4>1 DEF MainType
    <3> QED
      BY <3>1, <3>2
  <2> QED
    BY <1>2, <2>1 DEF WatcherReady, TaskType, InboxType, GhciType, SetupType, HistType
<1>3. CASE SpawnGhci
  <2>1. TaskType'
    BY <1>3 DEF SpawnGhci, Spawn, TaskType
  <2>2. InboxType'
    BY <1>3 DEF SpawnGhci, Spawn, InboxType
  <2>3. MainType'
    BY <1>3 DEF SpawnGhci, Spawn, MainType
  <2>4. GhciType'
    BY <1>3 DEF SpawnGhci, Spawn, GhciType, Places, Constructing
  <2> QED
    BY <1>3, <2>1, <2>2, <2>3, <2>4 DEF SpawnGhci, SetupType, HistType
<1>4. CASE SpawnParent
  <2>1. TaskType'
    BY <1>4 DEF SpawnParent, Spawn, TaskType
  <2>2. InboxType'
    BY <1>4 DEF SpawnParent, Spawn, InboxType
  <2>3. MainType'
    BY <1>4 DEF SpawnParent, Spawn, MainType
  <2> QED
    BY <1>4, <2>1, <2>2, <2>3 DEF SpawnParent, GhciType, SetupType, HistType
<1>5. CASE ShutdownRequested
  <2>1. MainType'
    BY <1>5 DEF ShutdownRequested, MainType
  <2> QED
    BY <1>5, <2>1 DEF ShutdownRequested, TaskType, InboxType, GhciType, SetupType, HistType
<1>6. CASE AllFinished
  <2>1. TaskType'
    BY <1>6 DEF AllFinished, cancel_tasks, Running, TaskType
  <2>2. MainType'
    BY <1>6 DEF AllFinished, cancel_tasks, Running, MainType
  <2>3. GhciType'
    BY <1>6 DEF AllFinished, cancel_tasks, Running, GhciType, Places, Constructing
  <2>4. process' \in [Sessions -> {"none", "up", "dead", "orphan"}]
    BY <1>6 DEF AllFinished, cancel_tasks, Running
  <2> QED
    BY <1>6, <2>1, <2>2, <2>3, <2>4 DEF AllFinished, InboxType, SetupType, HistType
<1>7. CASE check_task_failures
  <2>1. MainType'
    BY <1>7 DEF check_task_failures, Spawned, Running, MainType
  <2> QED
    BY <1>7, <2>1 DEF check_task_failures, TaskType, InboxType, GhciType, SetupType, HistType
<1>8. CASE ShutdownTimeout
  <2>1. TaskType'
    BY <1>8 DEF ShutdownTimeout, cancel_tasks, Running, TaskType
  <2>2. MainType'
    BY <1>8 DEF ShutdownTimeout, cancel_tasks, Running, MainType
  <2>3. GhciType'
    BY <1>8 DEF ShutdownTimeout, cancel_tasks, Running, GhciType, Places, Constructing
  <2>4. process' \in [Sessions -> {"none", "up", "dead", "orphan"}]
    BY <1>8 DEF ShutdownTimeout, cancel_tasks, Running
  <2> QED
    BY <1>8, <2>1, <2>2, <2>3, <2>4 DEF ShutdownTimeout, InboxType, SetupType, HistType
<1>9. CASE SpawnSetupWatcher
  <2>1. TaskType'
    BY <1>9 DEF SpawnSetupWatcher, At, Goto, Spawn, TaskType
  <2>2. InboxType'
    BY <1>9 DEF SpawnSetupWatcher, At, Goto, Spawn, InboxType
  <2>3. GhciType'
    BY <1>9 DEF SpawnSetupWatcher, At, Goto, Spawn, GhciType, Places, Constructing
  <2> QED
    BY <1>9, <2>1, <2>2, <2>3 DEF SpawnSetupWatcher, MainType, SetupType, HistType
<1>10. CASE CloneHandle
  <2>1. InboxType'
    BY <1>10 DEF CloneHandle, At, Goto, InboxType
  <2>2. GhciType'
    BY <1>10 DEF CloneHandle, At, Goto, GhciType, Places, Constructing
  <2>3. HistType'
    <3>1. hist.spare + 1 \in Int /\ (hist.struck \/ hist.requested) \in BOOLEAN
      BY DEF HistType
    <3>2. hist' = [hist EXCEPT !.spare = hist.spare + 1, !.struck = hist.struck \/ hist.requested]
      BY <1>10 DEF CloneHandle
    <3> QED
      BY <3>1, <3>2 DEF HistType
  <2> QED
    BY <1>10, <2>1, <2>2, <2>3 DEF CloneHandle, TaskType, MainType, SetupType
<1>11. CASE ConstructionTold
  <2>1. TaskType'
    BY <1>11 DEF ConstructionTold, Return, DropChild, End, Abort, TaskType
  <2>2. InboxType'
    BY <1>11 DEF ConstructionTold, Return, DropChild, End, Abort, InboxType
  <2>3. GhciType'
    BY <1>11, ReturnFacts, AbortFacts DEF ConstructionTold
  <2>4. process' \in [Sessions -> {"none", "up", "dead", "orphan"}]
    BY <1>11 DEF ConstructionTold, Return, DropChild, End, Abort
  <2> QED
    BY <1>11, <2>1, <2>2, <2>3, <2>4 DEF ConstructionTold, MainType, SetupType, HistType
<1>12. CASE SetupGivesUp
  <2>1. TaskType'
    BY <1>12 DEF SetupGivesUp, Return, DropChild, End, TaskType
  <2>2. InboxType'
    BY <1>12 DEF SetupGivesUp, Return, DropChild, End, InboxType
  <2>3. GhciType'
    BY <1>12 DEF SetupGivesUp, Return, DropChild, End, GhciType, Places, Constructing
  <2>4. process' \in [Sessions -> {"none", "up", "dead", "orphan"}]
    BY <1>12 DEF SetupGivesUp, Return, DropChild, End
  <2> QED
    BY <1>12, <2>1, <2>2, <2>3, <2>4 DEF SetupGivesUp, MainType, SetupType, HistType
<1>13. CASE SetupAttempt
  <2>1. GhciType'
    BY <1>13 DEF SetupAttempt, At, Goto, GhciType, Places, Constructing
  <2>2. SetupType'
    BY <1>13 DEF SetupAttempt, At, Goto, SetupType
  <2>3. HistType'
    BY <1>13 DEF SetupAttempt, At, Goto, HistType
  <2> QED
    BY <1>13, <2>1, <2>2, <2>3 DEF SetupAttempt, TaskType, InboxType, MainType
<1>14. CASE SetupFails
  <2>1. GhciType'
    BY <1>14 DEF SetupFails, At, Goto, GhciType, Places, Constructing
  <2>2. SetupType'
    BY <1>14 DEF SetupFails, At, Goto, SetupType
  <2> QED
    BY <1>14, <2>1, <2>2 DEF SetupFails, TaskType, InboxType, MainType, HistType
<1>15. CASE SetupRetries
  <2>1. GhciType'
    BY <1>15 DEF SetupRetries, At, Goto, GhciType, Places, Constructing
  <2> QED
    BY <1>15, <2>1 DEF SetupRetries, TaskType, InboxType, MainType, SetupType, HistType
<1>16. CASE SpawnProcess
  <2>1. TaskType'
    BY <1>16, SessionNames DEF SpawnProcess, At, Goto, Spawn, TaskType
  <2>2. InboxType'
    BY <1>16, SessionNames DEF SpawnProcess, At, Goto, Spawn, InboxType
  <2>3. GhciType'
    BY <1>16 DEF SpawnProcess, At, Goto, Spawn, GhciType, Places, Constructing
  <2>4. HistType'
    <3>1. ghci.gen \in Generations
      BY DEF GhciType
    <3>2. hist.late \union {ghci.gen} \in SUBSET Generations
      BY <3>1 DEF HistType
    <3>3. CASE hist' = [hist EXCEPT !.late = hist.late \union {ghci.gen}]
      BY <3>2, <3>3 DEF HistType
    <3>4. CASE hist' = hist
      BY <3>4 DEF HistType
    <3> QED
      BY <1>16, <3>3, <3>4 DEF SpawnProcess, HistType
  <2> QED
    BY <1>16, <2>1, <2>2, <2>3, <2>4 DEF SpawnProcess, MainType, SetupType
<1>17. CASE Construct
  <2>1. InboxType'
    BY <1>17 DEF Construct, At, InboxType
  <2>2. GhciType'
    BY <1>17 DEF Construct, At, GhciType, Places, Constructing
  <2> QED
    BY <1>17, <2>1, <2>2 DEF Construct, TaskType, MainType, SetupType, HistType
<1>18. CASE InitBroken
  <2>1. TaskType'
    BY <1>18 DEF InitBroken, At, Return, DropChild, End, TaskType
  <2>2. InboxType'
    BY <1>18 DEF InitBroken, At, Return, DropChild, End, InboxType
  <2>3. GhciType'
    <3>1. CASE ghci' = [ghci EXCEPT !.at = "delay", !.exit = FALSE]
      BY <3>1 DEF GhciType, Places
    <3> QED
      BY <1>18, <3>1, ReturnFacts DEF InitBroken
  <2>4. process' \in [Sessions -> {"none", "up", "dead", "orphan"}]
    BY <1>18 DEF InitBroken, At, Return, DropChild, End
  <2> QED
    BY <1>18, <2>1, <2>2, <2>3, <2>4 DEF InitBroken, MainType, SetupType, HistType
<1>19. CASE InitTold
  <2>1. GhciType'
    BY <1>19 DEF InitTold, At, Abort, DropChild, GhciType, Places, Constructing
  <2>2. process' \in [Sessions -> {"none", "up", "dead", "orphan"}]
    BY <1>19 DEF InitTold, At, Abort, DropChild
  <2> QED
    BY <1>19, <2>1, <2>2 DEF InitTold, TaskType, InboxType, MainType, SetupType, HistType
<1>20. CASE ManagerTold
  <2>1. GhciType'
    BY <1>20 DEF ManagerTold, At, Abort, DropChild, GhciType, Places, Constructing
  <2>2. process' \in [Sessions -> {"none", "up", "dead", "orphan"}]
    BY <1>20 DEF ManagerTold, At, Abort, DropChild
  <2> QED
    BY <1>20, <2>1, <2>2 DEF ManagerTold, TaskType, InboxType, MainType, SetupType, HistType
<1>21. CASE Stopped
  <2>1. InboxType'
    BY <1>21 DEF Stopped, At, StopHears, InboxType
  <2>2. GhciType'
    BY <1>21 DEF Stopped, At, StopHears, GhciType, Places, Constructing
  <2> QED
    BY <1>21, <2>1, <2>2 DEF Stopped, TaskType, MainType, SetupType, HistType
<1>22. CASE StopFails
  <2>1. TaskType'
    BY <1>22 DEF StopFails, At, Return, DropChild, End, Fails, TaskType
  <2>2. InboxType'
    BY <1>22 DEF StopFails, At, Return, DropChild, End, Fails, InboxType
  <2>3. GhciType'
    BY <1>22 DEF StopFails, At, Return, DropChild, End, Fails, GhciType, Places, Constructing
  <2>4. process' \in [Sessions -> {"none", "up", "dead", "orphan"}]
    BY <1>22 DEF StopFails, At, Return, DropChild, End, Fails
  <2>5. HistType'
    BY <1>22 DEF StopFails, At, Return, DropChild, End, Fails, HistType
  <2> QED
    BY <1>22, <2>1, <2>2, <2>3, <2>4, <2>5 DEF StopFails, MainType, SetupType
<1>22b. CASE SessionFails
  <2>1. TaskType'
    BY <1>22b DEF SessionFails, At, Return, DropChild, End, Fails, TaskType
  <2>2. InboxType'
    BY <1>22b DEF SessionFails, At, Return, DropChild, End, Fails, InboxType
  <2>3. GhciType'
    BY <1>22b DEF SessionFails, At, Return, DropChild, End, Fails, GhciType, Places, Constructing
  <2>4. process' \in [Sessions -> {"none", "up", "dead", "orphan"}]
    BY <1>22b DEF SessionFails, At, Return, DropChild, End, Fails
  <2>5. HistType'
    BY <1>22b DEF SessionFails, At, Return, DropChild, End, Fails, HistType
  <2> QED
    BY <1>22b, <2>1, <2>2, <2>3, <2>4, <2>5 DEF SessionFails, MainType, SetupType
<1>23. CASE ExitStatus
  <2>1. GhciType'
    BY <1>23 DEF ExitStatus, At, GhciType, Places, Constructing
  <2> QED
    BY <1>23, <2>1 DEF ExitStatus, TaskType, InboxType, MainType, SetupType, HistType
<1>24. CASE StopInShutdown
  <2>1. TaskType'
    BY <1>24 DEF StopInShutdown, At, Return, DropChild, End, TaskType
  <2>2. InboxType'
    BY <1>24 DEF StopInShutdown, At, Return, DropChild, End, InboxType
  <2>3. GhciType'
    BY <1>24 DEF StopInShutdown, At, Return, DropChild, End, GhciType, Places, Constructing
  <2>4. process' \in [Sessions -> {"none", "up", "dead", "orphan"}]
    BY <1>24 DEF StopInShutdown, At, Return, DropChild, End
  <2> QED
    BY <1>24, <2>1, <2>2, <2>3, <2>4 DEF StopInShutdown, MainType, SetupType, HistType
<1>25. CASE WatchesInstalled
  <2>1. MainType'
    BY <1>25 DEF WatchesInstalled, Running, MainType
  <2> QED
    BY <1>25, <2>1 DEF WatchesInstalled, TaskType, InboxType, GhciType, SetupType, HistType
<1>26. CASE WatcherEnds
  <2>1. TaskType'
    BY <1>26 DEF WatcherEnds, Running, End, TaskType
  <2>2. InboxType'
    BY <1>26 DEF WatcherEnds, Running, End, InboxType
  <2> QED
    BY <1>26, <2>1, <2>2 DEF WatcherEnds, MainType, GhciType, SetupType, HistType
<1>27. CASE BystandersEnd
  <2>1. TaskType'
    BY <1>27 DEF BystandersEnd, Running, TaskType
  <2>2. InboxType'
    BY <1>27 DEF BystandersEnd, Running, InboxType
  <2> QED
    BY <1>27, <2>1, <2>2 DEF BystandersEnd, MainType, GhciType, SetupType, HistType
<1>28. ASSUME NEW i \in Sessions, ProcessStops(i) PROVE TypeOK'
  <2>1. TaskType'
    BY <1>28, SessionNames DEF ProcessStops, Running, End, StopRequested, TaskType
  <2>2. InboxType'
    BY <1>28, SessionNames DEF ProcessStops, Running, End, StopRequested, InboxType
  <2>3. GhciType'
    BY <1>28 DEF ProcessStops, Running, End, StopRequested, GhciType, Places, Constructing
  <2>4. process' \in [Sessions -> {"none", "up", "dead", "orphan"}]
    BY <1>28 DEF ProcessStops, Running, End, StopRequested
  <2> QED
    BY <1>28, <2>1, <2>2, <2>3, <2>4 DEF ProcessStops, MainType, SetupType, HistType
<1>29. ASSUME NEW i \in Sessions, StderrEnds(i) PROVE TypeOK'
  <2>1. TaskType'
    BY <1>29, SessionNames DEF StderrEnds, Running, End, TaskType
  <2>2. InboxType'
    BY <1>29, SessionNames DEF StderrEnds, Running, End, InboxType
  <2> QED
    BY <1>29, <2>1, <2>2 DEF StderrEnds, MainType, GhciType, SetupType, HistType
<1>30. ASSUME NEW t \in Task, manage_handle(t) PROVE TypeOK'
  <2>1. (collected \subseteq Task)'
    BY <1>30 DEF manage_handle, Broadcast
  <2>2. InboxType'
    BY <1>30 DEF manage_handle, Broadcast, InboxType
  <2>3. HistType'
    BY <1>30 DEF manage_handle, Broadcast, HistType
  <2> QED
    BY <1>30, <2>1, <2>2, <2>3 DEF manage_handle, TaskType, MainType, GhciType, SetupType
<1>31. CASE SetupRuns
  <2>1. GhciType'
    BY <1>31 DEF SetupRuns, At, Goto, Outside, GhciType, Places, Constructing
  <2>2. SetupType'
    <3>1. CASE setup' = Outside
      BY <3>1 DEF Outside, SetupType
    <3>2. CASE setup' = [setup EXCEPT !.read = setup.content]
      BY <3>2 DEF SetupType
    <3> QED
      BY <1>31, <3>1, <3>2 DEF SetupRuns
  <2>3. HistType'
    BY <1>31 DEF SetupRuns, At, Goto, Outside, HistType
  <2> QED
    BY <1>31, <2>1, <2>2, <2>3 DEF SetupRuns, TaskType, InboxType, MainType
<1>32. CASE Launch
  <2>1. TaskType'
    BY <1>32, SessionNames DEF Launch, At, Spawn, TaskType
  <2>2. InboxType'
    BY <1>32, SessionNames DEF Launch, At, Spawn, InboxType
  <2>3. GhciType'
    <3>1. ghci.gen + 1 \in Generations
      BY <1>32, LifecycleAssumption DEF Launch, GhciType, Generations
    <3>2. ghci' = [ghci EXCEPT !.at = "process", !.gen = ghci.gen + 1, !.building = ghci.gen + 1]
      BY <1>32 DEF Launch
    <3> QED
      BY <3>1, <3>2 DEF GhciType, Places, Constructing
  <2>4. process' \in [Sessions -> {"none", "up", "dead", "orphan"}]
    BY <1>32 DEF Launch, At, Spawn
  <2> QED
    BY <1>32, <2>1, <2>2, <2>3, <2>4 DEF Launch, MainType, SetupType, HistType
<1>33. CASE Initialized
  <2>1. GhciType'
    BY <1>33 DEF Initialized, At, GhciType, Places, Constructing
  <2> QED
    BY <1>33, <2>1 DEF Initialized, TaskType, InboxType, MainType, SetupType, HistType
<1>34. CASE Retry
  <2>1. TaskType'
    BY <1>34 DEF Retry, At, Return, DropChild, End, TaskType
  <2>2. InboxType'
    BY <1>34 DEF Retry, At, Return, DropChild, End, InboxType
  <2>3. GhciType'
    <3>1. CASE ghci' = [ghci EXCEPT !.at = "clone", !.ctx = "retry"]
      BY <3>1 DEF GhciType, Places, Constructing
    <3> QED
      BY <1>34, <3>1, ReturnFacts DEF Retry
  <2>4. process' \in [Sessions -> {"none", "up", "dead", "orphan"}]
    BY <1>34 DEF Retry, At, Return, DropChild, End
  <2> QED
    BY <1>34, <2>1, <2>2, <2>3, <2>4 DEF Retry, MainType, SetupType, HistType
<1>35. CASE CtrlC
  <2>1. InboxType'
    BY <1>35 DEF CtrlC, Broadcast, InboxType
  <2>2. MainType'
    BY <1>35 DEF CtrlC, Broadcast, MainType
  <2>3. HistType'
    BY <1>35 DEF CtrlC, Broadcast, HistType
  <2> QED
    BY <1>35, <2>1, <2>2, <2>3 DEF CtrlC, TaskType, GhciType, SetupType
<1>36. CASE CtrlCAgain
  <2>1. TaskType'
    BY <1>36 DEF CtrlCAgain, cancel_tasks, Running, TaskType
  <2>2. MainType'
    BY <1>36 DEF CtrlCAgain, cancel_tasks, Running, MainType
  <2>3. GhciType'
    BY <1>36 DEF CtrlCAgain, cancel_tasks, Running, GhciType, Places, Constructing
  <2>4. process' \in [Sessions -> {"none", "up", "dead", "orphan"}]
    BY <1>36 DEF CtrlCAgain, cancel_tasks, Running
  <2>5. HistType'
    BY <1>36 DEF CtrlCAgain, cancel_tasks, Running, HistType
  <2> QED
    BY <1>36, <2>1, <2>2, <2>3, <2>4, <2>5 DEF CtrlCAgain, InboxType, SetupType
<1>37. CASE ParentExits
  <2>1. TaskType'
    BY <1>37 DEF ParentExits, Running, TaskType
  <2>2. InboxType'
    BY <1>37 DEF ParentExits, Running, InboxType
  <2>3. HistType'
    BY <1>37 DEF ParentExits, Running, HistType
  <2> QED
    BY <1>37, <2>1, <2>2, <2>3 DEF ParentExits, MainType, GhciType, SetupType
<1>38. CASE WatcherFails
  <2>1. TaskType'
    BY <1>38 DEF WatcherFails, Running, End, Fails, TaskType
  <2>2. InboxType'
    BY <1>38 DEF WatcherFails, Running, End, Fails, InboxType
  <2>3. HistType'
    BY <1>38 DEF WatcherFails, Running, End, Fails, HistType
  <2> QED
    BY <1>38, <2>1, <2>2, <2>3 DEF WatcherFails, MainType, GhciType, SetupType
<1>39. CASE WatchError
  <2>1. InboxType'
    BY <1>39 DEF WatchError, Running, Broadcast, InboxType
  <2>2. HistType'
    BY <1>39 DEF WatchError, Running, Broadcast, HistType
  <2> QED
    BY <1>39, <2>1, <2>2 DEF WatchError, TaskType, MainType, GhciType, SetupType
<1>40. CASE Restart
  <2>1. GhciType'
    BY <1>40 DEF Restart, At, Running, GhciType, Places, Constructing
  <2> QED
    BY <1>40, <2>1 DEF Restart, TaskType, InboxType, MainType, SetupType, HistType
<1>41. CASE Edit
  BY <1>41, EditFacts DEF Edit, TaskType, InboxType, MainType, GhciType
<1>42. ASSUME NEW e \in {"edit", "log"}, Notify(e) PROVE TypeOK'
  <2>1. SetupType'
    BY <1>42, NotifyFacts
  <2> QED
    BY <1>42, <2>1 DEF Notify, TaskType, InboxType, MainType, GhciType, HistType
<1>43. ASSUME NEW i \in Sessions, ProcessCrashes(i) PROVE TypeOK'
  <2>1. TaskType'
    BY <1>43, SessionNames DEF ProcessCrashes, Running, End, TaskType
  <2>2. InboxType'
    BY <1>43, SessionNames DEF ProcessCrashes, Running, End, InboxType
  <2>3. GhciType'
    BY <1>43 DEF ProcessCrashes, Running, End, GhciType, Places, Constructing
  <2>4. process' \in [Sessions -> {"none", "up", "dead", "orphan"}]
    BY <1>43 DEF ProcessCrashes, Running, End
  <2>5. HistType'
    BY <1>43 DEF ProcessCrashes, Running, End, HistType
  <2> QED
    BY <1>43, <2>1, <2>2, <2>3, <2>4, <2>5 DEF ProcessCrashes, MainType, SetupType
<1>44. CASE UNCHANGED vars
  BY <1>44 DEF vars, TaskType, InboxType, MainType, GhciType, SetupType, HistType
<1> QED
  BY <1>1, <1>2, <1>3, <1>4, <1>5, <1>6, <1>7, <1>8, <1>9, <1>10, <1>11, <1>12, <1>13, <1>14,
     <1>15, <1>16, <1>17, <1>18, <1>19, <1>20, <1>21, <1>22, <1>22b, <1>23, <1>24, <1>25, <1>26, <1>27,
     <1>28, <1>29, <1>30, <1>31, <1>32, <1>33, <1>34, <1>35, <1>36, <1>37, <1>38, <1>39, <1>40,
     <1>41, <1>42, <1>43, <1>44 DEF Next, MainSteps, Quick, RunGhci, SessionTask, Slow

-----------------------------------------------------------------------------
(* The inductive invariants.                                               *)

\* Who can fail, that results are only sent for failures, and what main() has spawned.
\* FailuresReported needs it for main()'s early return: when the watcher is gone
\* before it was ready it has failed (it cannot have been cancelled or told to end),
\* and it is the only task.
FailInv ==
    /\ \A t \in Task : task[t] = "failed" => t \in {run_watcher, run_ghci}
    /\ \A t \in collected : task[t] = "failed"
    /\ main.early => main.at = "exited"
    /\ main.at = "watcher" <=> task[run_watcher] = "none"
    /\ main.at \in {"watcher", "ready", "ghci"} =>
            \A t \in Task \ {run_watcher} : task[t] = "none"
    /\ main.at \in {"parent", "wait", "grace", "collect"} => task[run_ghci] # "none"
    /\ main.at = "ready" /\ ~main.ready => task[run_watcher] \in {"run", "failed"}
    /\ FailuresReported

\* As long as no edit restores earlier contents, they only grow.  Contents that were
\* not observed have a batch under way; and from the moment an attempt fails, not only
\* once setup waits, it has read whatever was observed without a notification.
SetupInv ==
    /\ setup.known <= setup.content /\ setup.content <= setup.edits
    /\ "edit" \notin setup.events => setup.known = setup.content
    /\ ghci.at \in {"log", "changed"} =>
            /\ setup.read <= setup.content
            /\ setup.notified \/ setup.known <= setup.read

\* Every attempt has its launch or its changed contents: one is left over for the
\* attempt or the notification that is pending, and one for contents that were not
\* yet observed.
SpareInv ==
    hist.spare >= (IF ghci.at = "attempt" \/ setup.notified THEN 1 ELSE 0)
                  + (IF setup.content # setup.known THEN 1 ELSE 0)

\* No task has failed by itself, and no shutdown has met a construction.
Uncaused == hist.own = {} /\ ~hist.struck

\* As long as that is so nothing fails (NothingFailed), because what could fail is:
\* - setup::run, when a shutdown is heard or the watcher is gone, but no construction
\*   is under way then (NoneConstructed, HeardIsRequested, WatcherEndsLast);
\* - Ghci::stop in a shutdown, when it is not acknowledged and Ghci's own handle has
\*   not heard of the shutdown, but the handle was subscribed before it was sent
\*   (GhciHears).
NothingFailed == \A t \in Task : task[t] # "failed"
NoneConstructed == hist.requested => ghci.at \notin Constructing
HeardIsRequested == \A r \in Receiver : Told(r) => hist.requested
WatcherEndsLast ==
    /\ ghci.at # "none" => task[run_watcher] # "none"
    /\ task[run_watcher] \in Ended => hist.requested \/ task[run_ghci] \in Ended
GhciHears ==
    /\ ghci.at \in {"init", "serve", "delay", "stop", "stopping"} =>
         /\ inbox[GhciReceiver] # "none"
         /\ hist.requested => Told(GhciReceiver)
    /\ ghci.at = "stop" => hist.requested
Orderly == NothingFailed /\ NoneConstructed /\ HeardIsRequested /\ WatcherEndsLast /\ GhciHears
CauseInv == Uncaused => Orderly

\* The invariants hold when main() starts.
LEMMA LifecycleInit == Init => FailInv /\ SetupInv /\ SpareInv /\ CauseInv
BY Names
   DEF Init, FailInv, FailuresReported, SetupInv, SpareInv, CauseInv, Orderly, NothingFailed,
       NoneConstructed, HeardIsRequested, WatcherEndsLast, GhciHears, Told, Ended, Constructing,
       Outside

\* Every step keeps FailInv: main() spawns its tasks one after the other, and
\* check_task_failures waits for the result of each.
LEMMA FailNext == TypeOK /\ FailInv /\ [Next]_vars => FailInv'
<1> SUFFICES ASSUME TypeOK, FailInv, [Next]_vars PROVE FailInv'
  OBVIOUS
<1> USE Names DEF TypeOK, TaskType, MainType
<1>1. CASE main.at # "exited" /\ SpawnWatcher
  BY <1>1 DEF SpawnWatcher, Spawn, FailInv, FailuresReported, Running
<1>2. CASE main.at # "exited" /\ WatcherReady
  <2>1. CASE main.ready
    BY <1>2, <2>1 DEF WatcherReady, FailInv, FailuresReported
  <2>2. CASE ~main.ready
    <3>1. /\ task[run_watcher] = "failed"
          /\ \A t \in Task \ {run_watcher} : task[t] = "none"
      BY <1>2, <2>2 DEF WatcherReady, FailInv, Running
    <3>2. main'.at = "exited" /\ main'.early /\ UNCHANGED <<task, collected>>
      BY <1>2, <2>2 DEF WatcherReady
    <3>3. FailuresReported'
      BY <3>1, <3>2 DEF FailuresReported, ReturnsError, Failed, Spawned
    <3> QED
      BY <1>2, <3>1, <3>2, <3>3 DEF FailInv
  <2> QED
    BY <2>1, <2>2
<1>3. CASE main.at # "exited" /\ SpawnGhci
  BY <1>3 DEF SpawnGhci, Spawn, FailInv, FailuresReported, Running
<1>4. CASE main.at # "exited" /\ SpawnParent
  BY <1>4 DEF SpawnParent, Spawn, FailInv, FailuresReported, Running
<1>5. CASE main.at # "exited" /\ ShutdownRequested
  BY <1>5 DEF ShutdownRequested, FailInv, FailuresReported, Running
<1>6. CASE main.at # "exited" /\ AllFinished
  BY <1>6 DEF AllFinished, cancel_tasks, Running, FailInv, FailuresReported
<1>7. CASE main.at # "exited" /\ check_task_failures
  <2>1. /\ main'.at = "exited" /\ ~main'.early /\ main'.failures = collected
        /\ UNCHANGED <<task, collected>>
    BY <1>7 DEF check_task_failures, FailInv
  <2>2. collected = Failed
    BY <1>7 DEF check_task_failures, Spawned, Running, FailInv, Failed
  <2>3. FailuresReported'
    BY <2>1, <2>2 DEF FailuresReported, ReturnsError, Failed
  <2> QED
    BY <1>7, <2>1, <2>3 DEF check_task_failures, FailInv
<1>8. CASE main.at # "exited" /\ ShutdownTimeout
  BY <1>8 DEF ShutdownTimeout, cancel_tasks, Running, FailInv, FailuresReported
<1>9. CASE main.at # "exited" /\ SpawnSetupWatcher
  BY <1>9 DEF SpawnSetupWatcher, At, Goto, Spawn, FailInv, FailuresReported, Running
<1>10. CASE main.at # "exited" /\ ConstructionTold
  BY <1>10 DEF ConstructionTold, Return, DropChild, End, Abort, FailInv, FailuresReported, Running
<1>11. CASE main.at # "exited" /\ SetupGivesUp
  BY <1>11 DEF SetupGivesUp, Return, DropChild, End, FailInv, FailuresReported, Running
<1>12. CASE main.at # "exited" /\ SpawnProcess
  <2>1. ghci_process(ghci.gen) \notin {run_watcher, run_ghci}
    BY SessionNames DEF GhciType
  <2>2. task' = [task EXCEPT ![ghci_process(ghci.gen)] = "run"] /\ UNCHANGED <<collected, main>>
    BY <1>12 DEF SpawnProcess, Spawn
  <2> QED
    BY <1>12, <2>1, <2>2 DEF SpawnProcess, At, Running, FailInv, FailuresReported
<1>13. CASE main.at # "exited" /\ InitBroken
  BY <1>13 DEF InitBroken, At, Return, DropChild, End, FailInv, FailuresReported, Running
<1>14. CASE main.at # "exited" /\ StopFails
  BY <1>14 DEF StopFails, At, Return, DropChild, End, Fails, FailInv, FailuresReported, Running
<1>14b. CASE main.at # "exited" /\ SessionFails
  BY <1>14b DEF SessionFails, At, Return, DropChild, End, Fails, FailInv, FailuresReported, Running
<1>15. CASE main.at # "exited" /\ StopInShutdown
  BY <1>15 DEF StopInShutdown, At, Return, DropChild, End, FailInv, FailuresReported, Running
<1>16. CASE main.at # "exited" /\ WatchesInstalled
  BY <1>16 DEF WatchesInstalled, Running, FailInv, FailuresReported
<1>17. CASE main.at # "exited" /\ WatcherEnds
  BY <1>17 DEF WatcherEnds, Running, End, FailInv, FailuresReported
<1>18. CASE main.at # "exited" /\ BystandersEnd
  BY <1>18 DEF BystandersEnd, Running, FailInv, FailuresReported
<1>19. ASSUME NEW i \in Sessions, main.at # "exited", ProcessStops(i) PROVE FailInv'
  BY <1>19, SessionNames, GenerationFacts
     DEF ProcessStops, Running, End, StopRequested, FailInv, FailuresReported
<1>20. ASSUME NEW i \in Sessions, main.at # "exited", StderrEnds(i) PROVE FailInv'
  BY <1>20, SessionNames, GenerationFacts DEF StderrEnds, Running, End, FailInv, FailuresReported
<1>21. ASSUME NEW t \in Task, main.at # "exited", manage_handle(t) PROVE FailInv'
  BY <1>21 DEF manage_handle, Broadcast, FailInv, FailuresReported, Running
<1>22. CASE main.at # "exited" /\ Launch
  <2>1. ghci.gen + 1 \in Generations
    BY <1>22, LifecycleAssumption DEF Launch, GhciType, Generations
  <2>2. stderr(ghci.gen + 1) \notin {run_watcher, run_ghci}
    BY <2>1, SessionNames
  <2>3. task' = [task EXCEPT ![stderr(ghci.gen + 1)] = "run"] /\ UNCHANGED <<collected, main>>
    BY <1>22 DEF Launch, Spawn
  <2> QED
    BY <1>22, <2>2, <2>3 DEF Launch, At, Running, FailInv, FailuresReported
<1>23. CASE main.at # "exited" /\ Retry
  BY <1>23 DEF Retry, At, Return, DropChild, End, FailInv, FailuresReported, Running
<1>24. CASE main.at # "exited" /\ CtrlC
  BY <1>24 DEF CtrlC, Broadcast, FailInv, FailuresReported, Running
<1>25. CASE main.at # "exited" /\ CtrlCAgain
  BY <1>25 DEF CtrlCAgain, cancel_tasks, Running, FailInv, FailuresReported
<1>26. CASE main.at # "exited" /\ ParentExits
  BY <1>26 DEF ParentExits, Running, FailInv, FailuresReported
<1>27. CASE main.at # "exited" /\ WatcherFails
  BY <1>27 DEF WatcherFails, Running, End, Fails, FailInv, FailuresReported
<1>28. ASSUME NEW i \in Sessions, main.at # "exited", ProcessCrashes(i) PROVE FailInv'
  BY <1>28, SessionNames, GenerationFacts
     DEF ProcessCrashes, Running, End, FailInv, FailuresReported
<1>29. CASE UNCHANGED <<task, collected, main>>
  BY <1>29 DEF FailInv, FailuresReported, ReturnsError, Failed, Spawned
<1> QED
  BY <1>1, <1>2, <1>3, <1>4, <1>5, <1>6, <1>7, <1>8, <1>9, <1>10, <1>11, <1>12, <1>13, <1>14, <1>14b,
     <1>15, <1>16, <1>17, <1>18, <1>19, <1>20, <1>21, <1>22, <1>23, <1>24, <1>25, <1>26, <1>27,
     <1>28, <1>29 DEF Next, MainSteps, Quick, RunGhci, SessionTask, Slow, vars, CloneHandle,
     SetupAttempt, SetupFails, SetupRetries, Construct, InitTold, ManagerTold, Stopped,
     ExitStatus, SetupRuns, Initialized, WatchError, Restart, Edit, Notify

\* A step that leaves the gate's state alone keeps both invariants if it stays where
\* it is, or goes to where no attempt is pending and none has failed.
LEMMA SetupLeft ==
    ASSUME TypeOK, SpareInv, UNCHANGED <<setup, hist>>,
           ghci'.at = ghci.at \/ ghci'.at \notin {"attempt", "log", "changed"}
    PROVE  SpareInv' /\ (SetupInv => SetupInv')
BY DEF TypeOK, SetupType, HistType, SpareInv, SetupInv

\* Every step keeps them: notifications are marked seen before the commands of an
\* attempt read the files, and only observed changes are notified.
LEMMA SetupNext ==
    ASSUME TypeOK, SpareInv, [Next]_vars
    PROVE  SpareInv' /\ (~Reverts /\ SetupInv => SetupInv')
<1> USE Names DEF TypeOK, GhciType, SetupType, HistType
<1>1. CASE SpawnGhci
  <2>1. UNCHANGED <<setup, hist>> /\ ghci'.at \notin {"attempt", "log", "changed"}
    BY <1>1 DEF SpawnGhci
  <2> QED
    BY <2>1, SetupLeft
<1>2. CASE AllFinished
  <2>1. UNCHANGED <<setup, hist>> /\ ghci'.at \notin {"attempt", "log", "changed"}
    BY <1>2 DEF AllFinished, cancel_tasks
  <2> QED
    BY <2>1, SetupLeft
<1>3. CASE ShutdownTimeout
  <2>1. UNCHANGED <<setup, hist>> /\ ghci'.at \notin {"attempt", "log", "changed"}
    BY <1>3 DEF ShutdownTimeout, cancel_tasks
  <2> QED
    BY <2>1, SetupLeft
<1>4. CASE SpawnSetupWatcher
  <2>1. UNCHANGED <<setup, hist>> /\ ghci'.at \notin {"attempt", "log", "changed"}
    BY <1>4 DEF SpawnSetupWatcher, Goto
  <2> QED
    BY <2>1, SetupLeft
<1>5. CASE ConstructionTold
  <2>1. UNCHANGED <<setup, hist>> /\ ghci'.at \notin {"attempt", "log", "changed"}
    BY <1>5, ReturnFacts, AbortFacts DEF ConstructionTold
  <2> QED
    BY <2>1, SetupLeft
<1>6. CASE SetupGivesUp
  <2>1. UNCHANGED <<setup, hist>> /\ ghci'.at \notin {"attempt", "log", "changed"}
    BY <1>6 DEF SetupGivesUp, Return
  <2> QED
    BY <2>1, SetupLeft
<1>7. CASE Construct
  <2>1. UNCHANGED <<setup, hist>> /\ ghci'.at \notin {"attempt", "log", "changed"}
    BY <1>7 DEF Construct
  <2> QED
    BY <2>1, SetupLeft
<1>8. CASE InitTold
  <2>1. UNCHANGED <<setup, hist>> /\ ghci'.at \notin {"attempt", "log", "changed"}
    BY <1>8 DEF InitTold, Abort
  <2> QED
    BY <2>1, SetupLeft
<1>9. CASE ManagerTold
  <2>1. UNCHANGED <<setup, hist>> /\ ghci'.at \notin {"attempt", "log", "changed"}
    BY <1>9 DEF ManagerTold, Abort
  <2> QED
    BY <2>1, SetupLeft
<1>10. CASE Stopped
  <2>1. UNCHANGED <<setup, hist>> /\ ghci'.at \notin {"attempt", "log", "changed"}
    BY <1>10 DEF Stopped
  <2> QED
    BY <2>1, SetupLeft
<1>11. CASE ExitStatus
  <2>1. UNCHANGED <<setup, hist>> /\ ghci'.at \notin {"attempt", "log", "changed"}
    BY <1>11 DEF ExitStatus
  <2> QED
    BY <2>1, SetupLeft
<1>12. CASE StopInShutdown
  <2>1. UNCHANGED <<setup, hist>> /\ ghci'.at \notin {"attempt", "log", "changed"}
    BY <1>12 DEF StopInShutdown, Return
  <2> QED
    BY <2>1, SetupLeft
<1>13. CASE Launch
  <2>1. UNCHANGED <<setup, hist>> /\ ghci'.at \notin {"attempt", "log", "changed"}
    BY <1>13 DEF Launch
  <2> QED
    BY <2>1, SetupLeft
<1>14. CASE Initialized
  <2>1. UNCHANGED <<setup, hist>> /\ ghci'.at \notin {"attempt", "log", "changed"}
    BY <1>14 DEF Initialized
  <2> QED
    BY <2>1, SetupLeft
<1>15. CASE Restart
  <2>1. UNCHANGED <<setup, hist>> /\ ghci'.at \notin {"attempt", "log", "changed"}
    BY <1>15 DEF Restart
  <2> QED
    BY <2>1, SetupLeft
<1>16. CASE InitBroken
  <2>1. UNCHANGED <<setup, hist>> /\ ghci'.at \notin {"attempt", "log", "changed"}
    BY <1>16, InitBrokenFacts DEF InitBroken
  <2> QED
    BY <2>1, SetupLeft
<1>17. CASE Retry
  <2>1. UNCHANGED <<setup, hist>> /\ ghci'.at \notin {"attempt", "log", "changed"}
    BY <1>17, RetryFacts DEF Retry
  <2> QED
    BY <2>1, SetupLeft
<1>18. CASE CloneHandle
  BY <1>18 DEF CloneHandle, Goto, SpareInv, SetupInv
<1>19. CASE SetupAttempt
  BY <1>19 DEF SetupAttempt, At, Goto, SpareInv, SetupInv
<1>20. CASE SetupFails
  BY <1>20 DEF SetupFails, At, Goto, SpareInv, SetupInv
<1>21. CASE SetupRetries
  BY <1>21 DEF SetupRetries, At, Goto, SpareInv, SetupInv
<1>22. CASE SetupRuns
  BY <1>22 DEF SetupRuns, Goto, Outside, SpareInv, SetupInv
<1>23. CASE SpawnProcess
  BY <1>23 DEF SpawnProcess, Goto, SpareInv, SetupInv
<1>24. CASE StopFails
  BY <1>24 DEF StopFails, Return, Fails, SpareInv, SetupInv
<1>24b. CASE SessionFails
  BY <1>24b DEF SessionFails, Return, Fails, SpareInv, SetupInv
<1>25. CASE CtrlC
  BY <1>25 DEF CtrlC, Broadcast, SpareInv, SetupInv
<1>26. CASE CtrlCAgain
  BY <1>26 DEF CtrlCAgain, cancel_tasks, SpareInv, SetupInv
<1>27. CASE ParentExits
  BY <1>27 DEF ParentExits, SpareInv, SetupInv
<1>28. CASE WatcherFails
  BY <1>28 DEF WatcherFails, Fails, SpareInv, SetupInv
<1>29. CASE WatchError
  BY <1>29 DEF WatchError, Broadcast, SpareInv, SetupInv
<1>30. CASE Edit
  <2>1. SpareInv'
    BY <1>30, EditFacts DEF SpareInv
  <2>2. ~Reverts /\ SetupInv => SetupInv'
    BY <1>30, EditFacts DEF SetupInv
  <2> QED
    BY <2>1, <2>2
<1>31. ASSUME NEW e \in {"edit", "log"}, Notify(e)
       PROVE  SpareInv' /\ (~Reverts /\ SetupInv => SetupInv')
  <2>1. /\ setup'.content = setup.content /\ setup'.read = setup.read
        /\ setup'.edits = setup.edits /\ UNCHANGED <<ghci, hist>>
    BY <1>31, NotifyFacts
  <2>2. CASE e = "edit" /\ setup.content # setup.known
    <3>1. setup'.known = setup.content /\ setup'.notified
      BY <1>31, <2>2, NotifyFacts
    <3> QED
      BY <2>1, <2>2, <3>1 DEF SpareInv, SetupInv
  <2>3. CASE ~(e = "edit" /\ setup.content # setup.known)
    <3>1. /\ setup'.known = setup.known /\ setup'.notified = setup.notified
          /\ "edit" \in setup.events \ setup'.events => setup.content = setup.known
      BY <1>31, <2>3, NotifyFacts
    <3> QED
      BY <2>1, <3>1 DEF SpareInv, SetupInv
  <2> QED
    BY <2>2, <2>3
<1>32. ASSUME NEW i \in Sessions, ProcessStops(i)
       PROVE  SpareInv' /\ (~Reverts /\ SetupInv => SetupInv')
  BY <1>32 DEF ProcessStops, SpareInv, SetupInv
<1>33. ASSUME NEW i \in Sessions, ProcessCrashes(i)
       PROVE  SpareInv' /\ (~Reverts /\ SetupInv => SetupInv')
  BY <1>33 DEF ProcessCrashes, SpareInv, SetupInv
<1>34. ASSUME NEW t \in Task, manage_handle(t)
       PROVE  SpareInv' /\ (~Reverts /\ SetupInv => SetupInv')
  BY <1>34 DEF manage_handle, Broadcast, SpareInv, SetupInv
<1>35. CASE UNCHANGED <<ghci, setup, hist>>
  BY <1>35, SetupLeft
<1> QED
  BY <1>1, <1>2, <1>3, <1>4, <1>5, <1>6, <1>7, <1>8, <1>9, <1>10, <1>11, <1>12, <1>13, <1>14,
     <1>15, <1>16, <1>17, <1>18, <1>19, <1>20, <1>21, <1>22, <1>23, <1>24, <1>24b, <1>25, <1>26,
     <1>27, <1>28, <1>29, <1>30, <1>31, <1>32, <1>33, <1>34, <1>35 DEF Next, MainSteps,
     Quick, RunGhci, SessionTask, Slow, vars, SpawnWatcher, WatcherReady, SpawnParent,
     ShutdownRequested, check_task_failures, WatchesInstalled, WatcherEnds, BystandersEnd,
     StderrEnds

\* Every step keeps CauseInv: a broadcast finds Ghci's handle subscribed, or it
\* strikes inside a construction.
LEMMA CauseNext == TypeOK /\ FailInv /\ CauseInv /\ [Next]_vars => CauseInv'
<1> SUFFICES ASSUME TypeOK, FailInv, CauseInv, [Next]_vars PROVE CauseInv'
  OBVIOUS
<1> USE Names DEF TypeOK, TaskType, InboxType, GhciType, HistType
<1>1. CASE SpawnWatcher
  BY <1>1
     DEF SpawnWatcher, Spawn, CauseInv, Uncaused, Orderly, NothingFailed, NoneConstructed,
         HeardIsRequested, WatcherEndsLast, GhciHears, Told, Constructing, Ended, Running
<1>2. CASE SpawnGhci
  <2> SUFFICES ASSUME Uncaused' PROVE Orderly'
    BY DEF CauseInv
  <2>1. Uncaused /\ Orderly
    BY <1>2 DEF SpawnGhci, Spawn, FailInv, Uncaused, CauseInv
  <2>2. NothingFailed'
    BY <1>2, <2>1 DEF SpawnGhci, Spawn, FailInv, Orderly, NothingFailed
  <2>3. NoneConstructed'
    BY <1>2, <2>1 DEF SpawnGhci, Spawn, FailInv, Orderly, NoneConstructed, Constructing
  <2>4. HeardIsRequested'
    BY <1>2, <2>1 DEF SpawnGhci, Spawn, FailInv, Orderly, HeardIsRequested, Told
  <2>5. WatcherEndsLast'
    BY <1>2, <2>1 DEF SpawnGhci, Spawn, FailInv, Orderly, WatcherEndsLast, Ended
  <2>6. GhciHears'
    BY <1>2, <2>1 DEF SpawnGhci, Spawn, FailInv, Orderly, GhciHears, Told
  <2> QED
    BY <2>2, <2>3, <2>4, <2>5, <2>6 DEF Orderly
<1>3. CASE SpawnParent
  BY <1>3
     DEF SpawnParent, Spawn, CauseInv, Uncaused, Orderly, NothingFailed, NoneConstructed,
         HeardIsRequested, WatcherEndsLast, GhciHears, Told, Constructing, Ended, Running
<1>4. CASE AllFinished
  <2> SUFFICES ASSUME Uncaused' PROVE Orderly'
    BY DEF CauseInv
  <2>1. Uncaused /\ Orderly
    BY <1>4 DEF AllFinished, cancel_tasks, Running, Uncaused, CauseInv
  <2>2. NothingFailed'
    BY <1>4, <2>1 DEF AllFinished, cancel_tasks, Running, Orderly, NothingFailed
  <2>3. NoneConstructed'
    BY <1>4, <2>1 DEF AllFinished, cancel_tasks, Running, Orderly, NoneConstructed, Constructing
  <2>4. HeardIsRequested'
    BY <1>4, <2>1 DEF AllFinished, cancel_tasks, Running, Orderly, HeardIsRequested, Told
  <2>5. WatcherEndsLast'
    BY <1>4, <2>1 DEF AllFinished, cancel_tasks, Running, Orderly, WatcherEndsLast, Ended, FailInv
  <2>6. GhciHears'
    BY <1>4, <2>1 DEF AllFinished, cancel_tasks, Running, Orderly, GhciHears, Told
  <2> QED
    BY <2>2, <2>3, <2>4, <2>5, <2>6 DEF Orderly
<1>5. CASE ShutdownTimeout
  <2> SUFFICES ASSUME Uncaused' PROVE Orderly'
    BY DEF CauseInv
  <2>1. Uncaused /\ Orderly
    BY <1>5 DEF ShutdownTimeout, cancel_tasks, Running, Uncaused, CauseInv
  <2>2. NothingFailed'
    BY <1>5, <2>1 DEF ShutdownTimeout, cancel_tasks, Running, Orderly, NothingFailed
  <2>3. NoneConstructed'
    BY <1>5, <2>1
       DEF ShutdownTimeout, cancel_tasks, Running, Orderly, NoneConstructed, Constructing
  <2>4. HeardIsRequested'
    BY <1>5, <2>1 DEF ShutdownTimeout, cancel_tasks, Running, Orderly, HeardIsRequested, Told
  <2>5. WatcherEndsLast'
    BY <1>5, <2>1
       DEF ShutdownTimeout, cancel_tasks, Running, Orderly, WatcherEndsLast, Ended, FailInv
  <2>6. GhciHears'
    BY <1>5, <2>1 DEF ShutdownTimeout, cancel_tasks, Running, Orderly, GhciHears, Told
  <2> QED
    BY <2>2, <2>3, <2>4, <2>5, <2>6 DEF Orderly
<1>6. CASE SpawnSetupWatcher
  BY <1>6
     DEF SpawnSetupWatcher, At, Goto, Spawn, CauseInv, Uncaused, Orderly, NothingFailed,
         NoneConstructed, HeardIsRequested, WatcherEndsLast, GhciHears, Told, Constructing, Ended,
         Running
<1>7. CASE CloneHandle
  BY <1>7
     DEF CloneHandle, At, Goto, CauseInv, Uncaused, Orderly, NothingFailed, NoneConstructed,
         HeardIsRequested, WatcherEndsLast, GhciHears, Told, Constructing, Ended, Running
<1>8. CASE ConstructionTold
  BY <1>8
     DEF ConstructionTold, Return, DropChild, End, Abort, CauseInv, Uncaused, Orderly,
         NothingFailed, NoneConstructed, HeardIsRequested, WatcherEndsLast, GhciHears, Told,
         Constructing, Ended, Running
<1>9. CASE SetupGivesUp
  BY <1>9
     DEF SetupGivesUp, Return, DropChild, End, CauseInv, Uncaused, Orderly, NothingFailed,
         NoneConstructed, HeardIsRequested, WatcherEndsLast, GhciHears, Told, Constructing, Ended,
         Running
<1>10. CASE SetupAttempt
  BY <1>10
     DEF SetupAttempt, At, Goto, CauseInv, Uncaused, Orderly, NothingFailed, NoneConstructed,
         HeardIsRequested, WatcherEndsLast, GhciHears, Told, Constructing, Ended, Running
<1>11. CASE SetupFails
  BY <1>11
     DEF SetupFails, At, Goto, CauseInv, Uncaused, Orderly, NothingFailed, NoneConstructed,
         HeardIsRequested, WatcherEndsLast, GhciHears, Told, Constructing, Ended, Running
<1>12. CASE SetupRetries
  BY <1>12
     DEF SetupRetries, At, Goto, CauseInv, Uncaused, Orderly, NothingFailed, NoneConstructed,
         HeardIsRequested, WatcherEndsLast, GhciHears, Told, Constructing, Ended, Running
<1>13. CASE SpawnProcess
  BY <1>13, SessionNames, GenerationFacts
     DEF SpawnProcess, At, Goto, Spawn, CauseInv, Uncaused, Orderly, NothingFailed,
         NoneConstructed, HeardIsRequested, WatcherEndsLast, GhciHears, Told, Constructing, Ended,
         Running
<1>14. CASE Construct
  BY <1>14
     DEF Construct, At, CauseInv, Uncaused, Orderly, NothingFailed, NoneConstructed,
         HeardIsRequested, WatcherEndsLast, GhciHears, Told, Constructing, Ended, Running
<1>15. CASE InitBroken
  <2> SUFFICES ASSUME Uncaused' PROVE Orderly'
    BY DEF CauseInv
  <2>1. Uncaused /\ Orderly
    BY <1>15 DEF InitBroken, At, Running, Return, DropChild, End, Uncaused, CauseInv
  <2>2. NothingFailed'
    BY <1>15, <2>1 DEF InitBroken, At, Running, Return, DropChild, End, Orderly, NothingFailed
  <2>3. NoneConstructed'
    <3>1. ghci'.at \in {"delay", "over"}
      BY <1>15, InitBrokenFacts
    <3> QED
      BY <3>1 DEF NoneConstructed, Constructing
  <2>4. HeardIsRequested'
    BY <1>15, <2>1
       DEF InitBroken, At, Running, Return, DropChild, End, Orderly, HeardIsRequested, Told
  <2>5. WatcherEndsLast'
    BY <1>15, <2>1
       DEF InitBroken, At, Running, Return, DropChild, End, Orderly, WatcherEndsLast, Ended
  <2>6. GhciHears'
    <3>1. CASE ghci'.at = "delay" /\ inbox' = inbox
      BY <1>15, <2>1, <3>1 DEF InitBroken, At, Orderly, GhciHears, Told
    <3>2. CASE ghci'.at = "over"
      BY <3>2 DEF GhciHears
    <3> QED
      BY <1>15, <3>1, <3>2, InitBrokenFacts
  <2> QED
    BY <2>2, <2>3, <2>4, <2>5, <2>6 DEF Orderly
<1>16. CASE InitTold
  BY <1>16
     DEF InitTold, At, Abort, DropChild, CauseInv, Uncaused, Orderly, NothingFailed,
         NoneConstructed, HeardIsRequested, WatcherEndsLast, GhciHears, Told, Constructing, Ended,
         Running
<1>17. CASE ManagerTold
  BY <1>17
     DEF ManagerTold, At, Abort, DropChild, CauseInv, Uncaused, Orderly, NothingFailed,
         NoneConstructed, HeardIsRequested, WatcherEndsLast, GhciHears, Told, Constructing, Ended,
         Running
<1>18. CASE Stopped
  BY <1>18
     DEF Stopped, At, StopHears, CauseInv, Uncaused, Orderly, NothingFailed, NoneConstructed,
         HeardIsRequested, WatcherEndsLast, GhciHears, Told, Constructing, Ended, Running
<1>19. CASE StopFails
  BY <1>19
     DEF StopFails, At, Return, DropChild, End, Fails, CauseInv, Uncaused, Orderly, NothingFailed,
         NoneConstructed, HeardIsRequested, WatcherEndsLast, GhciHears, Told, Constructing, Ended,
         Running
<1>19b. CASE SessionFails
  BY <1>19b
     DEF SessionFails, At, Return, DropChild, End, Fails, CauseInv, Uncaused, Orderly, NothingFailed,
         NoneConstructed, HeardIsRequested, WatcherEndsLast, GhciHears, Told, Constructing, Ended,
         Running
<1>20. CASE ExitStatus
  BY <1>20
     DEF ExitStatus, At, CauseInv, Uncaused, Orderly, NothingFailed, NoneConstructed,
         HeardIsRequested, WatcherEndsLast, GhciHears, Told, Constructing, Ended, Running
<1>21. CASE StopInShutdown
  <2> SUFFICES ASSUME Uncaused' PROVE Orderly'
    BY DEF CauseInv
  <2>1. Uncaused /\ Orderly
    BY <1>21
       DEF StopInShutdown, At, Running, Return, DropChild, End, StopSucceeds, Uncaused, CauseInv
  <2>2. NothingFailed'
    BY <1>21, <2>1
       DEF StopInShutdown, At, Running, Return, DropChild, End, StopSucceeds, Orderly,
           NothingFailed, GhciHears, Told
  <2>3. NoneConstructed'
    BY <1>21, <2>1
       DEF StopInShutdown, At, Running, Return, DropChild, End, StopSucceeds, Orderly,
           NoneConstructed, Constructing
  <2>4. HeardIsRequested'
    BY <1>21, <2>1
       DEF StopInShutdown, At, Running, Return, DropChild, End, StopSucceeds, Orderly,
           HeardIsRequested, Told
  <2>5. WatcherEndsLast'
    BY <1>21, <2>1
       DEF StopInShutdown, At, Running, Return, DropChild, End, StopSucceeds, Orderly,
           WatcherEndsLast, Ended
  <2>6. GhciHears'
    BY <1>21, <2>1
       DEF StopInShutdown, At, Running, Return, DropChild, End, StopSucceeds, Orderly, GhciHears,
           Told
  <2> QED
    BY <2>2, <2>3, <2>4, <2>5, <2>6 DEF Orderly
<1>22. CASE WatcherEnds
  BY <1>22
     DEF WatcherEnds, Running, End, CauseInv, Uncaused, Orderly, NothingFailed, NoneConstructed,
         HeardIsRequested, WatcherEndsLast, GhciHears, Told, Constructing, Ended
<1>23. CASE BystandersEnd
  BY <1>23
     DEF BystandersEnd, Running, CauseInv, Uncaused, Orderly, NothingFailed, NoneConstructed,
         HeardIsRequested, WatcherEndsLast, GhciHears, Told, Constructing, Ended
<1>24. ASSUME NEW i \in Sessions, ProcessStops(i) PROVE CauseInv'
  BY <1>24, SessionNames, GenerationFacts
     DEF ProcessStops, Running, End, StopRequested, CauseInv, Uncaused, Orderly, NothingFailed,
         NoneConstructed, HeardIsRequested, WatcherEndsLast, GhciHears, Told, Constructing, Ended
<1>25. ASSUME NEW i \in Sessions, StderrEnds(i) PROVE CauseInv'
  BY <1>25, SessionNames, GenerationFacts
     DEF StderrEnds, Running, End, CauseInv, Uncaused, Orderly, NothingFailed, NoneConstructed,
         HeardIsRequested, WatcherEndsLast, GhciHears, Told, Constructing, Ended
<1>26. ASSUME NEW t \in Task, manage_handle(t) PROVE CauseInv'
  BY <1>26
     DEF manage_handle, Broadcast, CauseInv, Uncaused, Orderly, NothingFailed, NoneConstructed,
         HeardIsRequested, WatcherEndsLast, GhciHears, Told, Constructing, Ended, Running
<1>27. CASE SetupRuns
  BY <1>27
     DEF SetupRuns, At, Goto, Outside, CauseInv, Uncaused, Orderly, NothingFailed,
         NoneConstructed, HeardIsRequested, WatcherEndsLast, GhciHears, Told, Constructing, Ended,
         Running
<1>28. CASE Launch
  BY <1>28, SessionNames, GenerationFacts
     DEF Launch, At, Spawn, CauseInv, Uncaused, Orderly, NothingFailed, NoneConstructed,
         HeardIsRequested, WatcherEndsLast, GhciHears, Told, Constructing, Ended, Running
<1>29. CASE Initialized
  BY <1>29
     DEF Initialized, At, CauseInv, Uncaused, Orderly, NothingFailed, NoneConstructed,
         HeardIsRequested, WatcherEndsLast, GhciHears, Told, Constructing, Ended, Running
<1>30. CASE Retry
  <2> SUFFICES ASSUME Uncaused' PROVE Orderly'
    BY DEF CauseInv
  <2>1. Uncaused /\ Orderly
    BY <1>30 DEF Retry, At, Running, Return, DropChild, End, Uncaused, CauseInv
  <2>2. NothingFailed'
    BY <1>30, <2>1 DEF Retry, At, Running, Return, DropChild, End, Orderly, NothingFailed
  <2>3. NoneConstructed'
    <3>1. ghci'.at \in {"clone", "over"}
      BY <1>30, RetryFacts
    <3> QED
      BY <1>30, <2>1, <3>1 DEF NoneConstructed, Constructing
  <2>4. HeardIsRequested'
    BY <1>30, <2>1 DEF Retry, At, Running, Return, DropChild, End, Orderly, HeardIsRequested, Told
  <2>5. WatcherEndsLast'
    BY <1>30, <2>1 DEF Retry, At, Running, Return, DropChild, End, Orderly, WatcherEndsLast, Ended
  <2>6. GhciHears'
    <3>1. ghci'.at \in {"clone", "over"}
      BY <1>30, RetryFacts
    <3> QED
      BY <3>1 DEF GhciHears
  <2> QED
    BY <2>2, <2>3, <2>4, <2>5, <2>6 DEF Orderly
<1>31. CASE CtrlC
  <2> SUFFICES ASSUME Uncaused' PROVE Orderly'
    BY DEF CauseInv
  <2>1. Uncaused /\ Orderly
    BY <1>31 DEF CtrlC, Broadcast, Unsettled, Uncaused, Uncaused, CauseInv
  <2>2. NothingFailed'
    BY <1>31, <2>1 DEF CtrlC, Broadcast, Unsettled, Uncaused, Orderly, NothingFailed
  <2>3. NoneConstructed'
    BY <1>31, <2>1
       DEF CtrlC, Broadcast, Unsettled, Uncaused, Orderly, NoneConstructed, Constructing
  <2>4. HeardIsRequested'
    BY <1>31, <2>1 DEF CtrlC, Broadcast, Unsettled, Uncaused, Orderly, HeardIsRequested, Told
  <2>5. WatcherEndsLast'
    BY <1>31, <2>1 DEF CtrlC, Broadcast, Unsettled, Uncaused, Orderly, WatcherEndsLast, Ended
  <2>6. GhciHears'
    BY <1>31, <2>1 DEF CtrlC, Broadcast, Unsettled, Uncaused, Orderly, GhciHears, Told
  <2> QED
    BY <2>2, <2>3, <2>4, <2>5, <2>6 DEF Orderly
<1>32. CASE CtrlCAgain
  <2> SUFFICES ASSUME Uncaused' PROVE Orderly'
    BY DEF CauseInv
  <2>1. Uncaused /\ Orderly
    BY <1>32 DEF CtrlCAgain, cancel_tasks, Running, Uncaused, CauseInv
  <2>2. NothingFailed'
    BY <1>32, <2>1 DEF CtrlCAgain, cancel_tasks, Running, Orderly, NothingFailed
  <2>3. NoneConstructed'
    BY <1>32, <2>1 DEF CtrlCAgain, cancel_tasks, Running, Orderly, NoneConstructed, Constructing
  <2>4. HeardIsRequested'
    BY <1>32, <2>1 DEF CtrlCAgain, cancel_tasks, Running, Orderly, HeardIsRequested, Told
  <2>5. WatcherEndsLast'
    BY <1>32, <2>1 DEF CtrlCAgain, cancel_tasks, Running, Orderly, WatcherEndsLast, Ended, FailInv
  <2>6. GhciHears'
    BY <1>32, <2>1 DEF CtrlCAgain, cancel_tasks, Running, Orderly, GhciHears, Told
  <2> QED
    BY <2>2, <2>3, <2>4, <2>5, <2>6 DEF Orderly
<1>33. CASE ParentExits
  <2> SUFFICES ASSUME Uncaused' PROVE Orderly'
    BY DEF CauseInv
  <2>1. Uncaused /\ Orderly
    BY <1>33 DEF ParentExits, Unsettled, Uncaused, Running, Uncaused, CauseInv
  <2>2. NothingFailed'
    BY <1>33, <2>1 DEF ParentExits, Unsettled, Uncaused, Running, Orderly, NothingFailed
  <2>3. NoneConstructed'
    BY <1>33, <2>1
       DEF ParentExits, Unsettled, Uncaused, Running, Orderly, NoneConstructed, Constructing
  <2>4. HeardIsRequested'
    BY <1>33, <2>1 DEF ParentExits, Unsettled, Uncaused, Running, Orderly, HeardIsRequested, Told
  <2>5. WatcherEndsLast'
    BY <1>33, <2>1 DEF ParentExits, Unsettled, Uncaused, Running, Orderly, WatcherEndsLast, Ended
  <2>6. GhciHears'
    BY <1>33, <2>1 DEF ParentExits, Unsettled, Uncaused, Running, Orderly, GhciHears, Told
  <2> QED
    BY <2>2, <2>3, <2>4, <2>5, <2>6 DEF Orderly
<1>34. CASE WatcherFails
  BY <1>34
     DEF WatcherFails, Running, End, Fails, CauseInv, Uncaused, Orderly, NothingFailed,
         NoneConstructed, HeardIsRequested, WatcherEndsLast, GhciHears, Told, Constructing, Ended
<1>35. CASE WatchError
  <2> SUFFICES ASSUME Uncaused' PROVE Orderly'
    BY DEF CauseInv
  <2>1. Uncaused /\ Orderly
    BY <1>35 DEF WatchError, Broadcast, Unsettled, Uncaused, Running, Uncaused, CauseInv
  <2>2. NothingFailed'
    BY <1>35, <2>1 DEF WatchError, Broadcast, Unsettled, Uncaused, Running, Orderly, NothingFailed
  <2>3. NoneConstructed'
    BY <1>35, <2>1
       DEF WatchError, Broadcast, Unsettled, Uncaused, Running, Orderly, NoneConstructed,
           Constructing
  <2>4. HeardIsRequested'
    BY <1>35, <2>1
       DEF WatchError, Broadcast, Unsettled, Uncaused, Running, Orderly, HeardIsRequested, Told
  <2>5. WatcherEndsLast'
    BY <1>35, <2>1
       DEF WatchError, Broadcast, Unsettled, Uncaused, Running, Orderly, WatcherEndsLast, Ended
  <2>6. GhciHears'
    BY <1>35, <2>1
       DEF WatchError, Broadcast, Unsettled, Uncaused, Running, Orderly, GhciHears, Told
  <2> QED
    BY <2>2, <2>3, <2>4, <2>5, <2>6 DEF Orderly
<1>36. CASE Restart
  BY <1>36
     DEF Restart, At, Running, CauseInv, Uncaused, Orderly, NothingFailed, NoneConstructed,
         HeardIsRequested, WatcherEndsLast, GhciHears, Told, Constructing, Ended
<1>37. CASE Edit
  <2>1. hist'.own = hist.own /\ hist'.struck = hist.struck /\ hist'.requested = hist.requested
    BY <1>37, EditFacts
  <2> QED
    BY <1>37, <2>1
       DEF Edit, CauseInv, Uncaused, Orderly, NothingFailed, NoneConstructed, HeardIsRequested,
           WatcherEndsLast, GhciHears, Told
<1>38. ASSUME NEW i \in Sessions, ProcessCrashes(i) PROVE CauseInv'
  BY <1>38, SessionNames, GenerationFacts
     DEF ProcessCrashes, Running, End, CauseInv, Uncaused, Orderly, NothingFailed,
         NoneConstructed, HeardIsRequested, WatcherEndsLast, GhciHears, Told, Constructing, Ended
<1>39. CASE UNCHANGED <<task, inbox, ghci, hist>>
  BY <1>39
     DEF CauseInv, Uncaused, Orderly, NothingFailed, NoneConstructed, HeardIsRequested,
         WatcherEndsLast, GhciHears, Told
<1> QED
  BY <1>1, <1>2, <1>3, <1>4, <1>5, <1>6, <1>7, <1>8, <1>9, <1>10, <1>11, <1>12, <1>13, <1>14,
     <1>15, <1>16, <1>17, <1>18, <1>19, <1>19b, <1>20, <1>21, <1>22, <1>23, <1>24, <1>25, <1>26, <1>27,
     <1>28, <1>29, <1>30, <1>31, <1>32, <1>33, <1>34, <1>35, <1>36, <1>37, <1>38, <1>39 DEF Next,
     MainSteps, Quick, RunGhci, SessionTask, Slow, vars, WatcherReady, ShutdownRequested,
     check_task_failures, WatchesInstalled, Notify

-----------------------------------------------------------------------------
(* The theorems.                                                           *)

\* The variables of main(), its tasks and the setup gate keep their types.
THEOREM LifecycleTypeCorrect == Spec => []TypeOK
BY TypeInit, TypeNext, PTL DEF Spec

\* main() returns an error exactly when a task failed, and names those that did, also
\* one whose result had not been sent (check_task_failures); when the watcher failed
\* before it was ready, main() names nothing and no other task has been spawned.
THEOREM MainReportsFailures == Spec => []FailuresReported
<1>1. FailInv => FailuresReported
  BY DEF FailInv
<1> QED
  BY <1>1, TypeInit, TypeNext, LifecycleInit, FailNext, PTL DEF Spec

\* A shutdown is not itself a failure: whenever main() returns an error, a task had
\* failed by itself, or the shutdown struck while run_ghci was not subscribed, cloned
\* its handle, constructed a session or stopped one to replace it (Ghci::new,
\* Ghci::stop, error_if_shutdown_requested).
THEOREM ShutdownIsNoFailure == Spec => []FailuresHaveACause
<1>1. TypeOK /\ FailInv /\ CauseInv => FailuresHaveACause
  BY
     DEF FailInv, FailuresReported, CauseInv, Uncaused, Orderly, NothingFailed, Failed,
         FailuresHaveACause
<1> QED
  BY <1>1, TypeInit, TypeNext, LifecycleInit, FailNext, CauseNext, PTL DEF Spec

\* Setup never waits for a change that has already been made, if no edit restores
\* earlier contents: one made during the attempt, or before its batch was delivered,
\* leads to another attempt (setup::run, ContentChanges::observe).
THEOREM RepairsAreSeen ==
    ASSUME ~Reverts
    PROVE  Spec => []NoMissedRepair
<1>1. TypeOK /\ SetupInv => NoMissedRepair
  BY DEF TypeOK, SetupType, SetupInv, NoMissedRepair, At
<1>2. TypeOK /\ SpareInv /\ SetupInv /\ [Next]_vars => SetupInv'
  BY SetupNext
<1> QED
  BY <1>1, <1>2, TypeInit, TypeNext, LifecycleInit, SetupNext, PTL DEF Spec

\* Setup is repeated for changed contents only, reverted ones included: its own error
\* log, touch, an identical rewrite or a change delivered twice does not wake it
\* (EventHandler::handle_event_inner, ContentChanges::observe).
THEOREM SetupRetriesForEdits == Spec => []RetriesAreEdits
<1>1. TypeOK /\ SpareInv => RetriesAreEdits
  BY DEF TypeOK, HistType, SpareInv, RetriesAreEdits
<1>2. TypeOK /\ SpareInv /\ [Next]_vars => SpareInv'
  BY SetupNext
<1> QED
  BY <1>1, <1>2, TypeInit, TypeNext, LifecycleInit, PTL DEF Spec
=============================================================================
