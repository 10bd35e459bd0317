----------------------- MODULE SessionRecoveryProofs -----------------------
(***************************************************************************)
(* SessionRecovery for every number of paths, contents, edits, failures,   *)
(* evals and sessions: first types and process exclusion, then what holds  *)
(* at rest and in the crash loop.                                          *)
(***************************************************************************)
EXTENDS SessionRecovery, WatcherEventProofs, TLAPS

\* An event about some of the paths, as one look at the files finds them, is an event.
LEMMA EventAboutType ==
    ASSUME NEW paths, disk \in [Path -> Contents] PROVE EventAbout(paths) \in Event
  BY DEF EventAbout, Event, EventKind, SourceSnapshot, FileState, Path, Haskell

\* What a replacement that died leaves behind is a well-formed retry state.
LEMMA AttemptedType ==
    ASSUME retry \in Retry, NEW w \in Seq(Event), Len(w) <= 1 PROVE Attempted(w) \in Retry
  <1> DEFINE r == IF retry.event = NoEvent THEN retry
                  ELSE [retry EXCEPT !.attempted = mark_applied(retry.event, @),
                                     !.snapshot = retry.event.snapshot, !.event = NoEvent]
  <1>1. r \in Retry
    <2>1. retry.event # NoEvent =>
            /\ retry.event \in Event /\ retry.event.snapshot \in SourceSnapshot
            /\ mark_applied(retry.event, retry.attempted) \in [Path -> FileState \union {Unknown}]
      BY MarkType DEF Retry, OptionEvent, Event
    <2> QED
      BY <2>1 DEF Retry, OptionEvent
  <1>2. w # <<>> => strip_applied(w[1], r.attempted) \in OptionEvent
    BY StripType DEF OptionEvent
  <1>3. w # <<>> => [r EXCEPT !.event = strip_applied(w[1], r.attempted)] \in Retry
    BY <1>1, <1>2 DEF Retry
  <1> HIDE DEF r
  <1>4. Attempted(w) = r \/ (w # <<>> /\ Attempted(w) = [r EXCEPT !.event = strip_applied(w[1], r.attempted)])
    BY DEF Attempted, r
  <1> QED
    BY <1>1, <1>3, <1>4

-----------------------------------------------------------------------------
(***************************************************************************)
(* TypeOK is not inductive: handle_event and its task dereference the      *)
(* event at hand, so EventAtHand records where there is one.               *)
(***************************************************************************)
EventAtHand ==
    /\ mpc \in {"start", "dispatch", "interrupted", "awaitTask"} => current \in Event
    /\ opc = "spawned" => mpc \in {"dispatch", "awaitTask"}

(***************************************************************************)
(* Sessions succeed each other.  Until a shutdown is requested:            *)
(*  - Generations: earlier sessions have been reaped, later ones not       *)
(*    started, and a process that runs is watched;                         *)
(*  - StatusIsCurrent: a status on its way is that of the session in use,  *)
(*    whose task has ended;                                                *)
(*  - Reaped: once the manager has the status in hand, or the task that    *)
(*    stops the process has answered, the session is gone and no status    *)
(*    is left behind: this is what makes it safe to launch the next one;   *)
(*  - Operations: which manager states allow an operation to get there.    *)
(***************************************************************************)
Generations ==
    /\ \A s \in Session : s > session => watch[s] = "none"
    /\ \A s \in Session : s < session => watch[s] = "gone"
    /\ \A s \in alive : watch[s] = "watching"

StatusIsCurrent == exitChan # <<>> => exitChan[1] = session /\ watch[session] = "gone"

SessionReaped == watch[session] = "gone" /\ exitChan = <<>>

Reaped ==
    /\ mpc \in {"awaitTask", "exited", "lost", "delay", "changed", "relaunch"} => SessionReaped
    /\ opc = "launch" => SessionReaped
    /\ opc = "stopping" => request = session /\ (ack = "acked" => SessionReaped)
    /\ opc = "stopping" /\ mpc = "awaitTask" => ack # "acked"

Operations ==
    /\ opc \in {"hooks", "stop", "stopping"} => mpc \in {"dispatch", "awaitTask"}
    /\ opc = "launch" => mpc \in {"dispatch", "recovering", "replacing"}

Succession == ~shutdown => Generations /\ StatusIsCurrent /\ Reaped /\ Operations

TypeInv == TypeOK /\ EventAtHand

\* The bounds are numbers.
LEMMA NatBounds ==
    /\ MaxEdits \in Nat /\ MaxFailures \in Nat /\ MaxEvals \in Nat
    /\ MaxSessions \in Nat /\ MaxSessions # 0
  BY RecoveryConstants

\* Startup hands the manager a live session and no event.
LEMMA TypeInit == Init => TypeInv
  <1> SUFFICES ASSUME Init PROVE TypeInv
    OBVIOUS
  <1>1. QueuesTypeOK
    BY NatBounds DEF Init, QueuesTypeOK, OptionEvent
  <1>2. ManagerTypeOK
    BY DEF Init, ManagerTypeOK, OptionEvent, NoRetry, Retry
  <1>3. OperationTypeOK
    <2>1. disk \in [Path -> Contents] /\ started = disk /\ loaded = disk /\ published = disk
      BY DEF Init
    <2>2. evals \in 0..MaxEvals
      BY NatBounds DEF Init
    <2> QED
      BY <2>1, <2>2 DEF Init, OperationTypeOK
  <1>4. ProcessTypeOK
    <2>1. 1 \in Session /\ session = 1 /\ alive = {1}
      BY NatBounds DEF Init, Session
    <2>2. watch \in [Session -> {"none", "watching", "exiting", "gone"}]
      BY DEF Init
    <2>3. exitChan \in Seq(Session) /\ Len(exitChan) <= 1
      BY DEF Init
    <2>4. failures \in 0..MaxFailures
      BY NatBounds DEF Init
    <2> QED
      BY <2>1, <2>2, <2>3, <2>4 DEF Init, ProcessTypeOK
  <1> QED
    BY <1>1, <1>2, <1>3, <1>4 DEF Init, TypeInv, TypeOK, EventAtHand

\* Every step of the watcher, the processes, the operations and the manager keeps the
\* types, and the event that handle_event and its task dereference.
LEMMA TypeNext == TypeInv /\ [Next]_vars => TypeInv'
  <1> SUFFICES ASSUME TypeInv, [Next]_vars PROVE TypeInv'
    OBVIOUS
  <1> USE DEF TypeInv, TypeOK, envVars, queueVars, eventVars, managerVars, lockVars,
          sessionVars, opVars, processVars, evalVars
  <1>1. ASSUME NEW p \in Path, NEW s \in Contents, Edit(p, s) PROVE TypeInv'
    <2>1. ManagerTypeOK' /\ OperationTypeOK' /\ ProcessTypeOK' /\ EventAtHand'
      BY <1>1 DEF Edit, ManagerTypeOK, OperationTypeOK, ProcessTypeOK, EventAtHand
    <2>2. QueuesTypeOK'
      BY <1>1, NatBounds DEF Edit, QueuesTypeOK
    <2> QED
      BY <2>1, <2>2
  <1>2. CASE Notify
    <2>1. EventAbout(notified) \in Event /\ merge_option(coalesced, EventAbout(notified)) \in Event
      BY EventAboutType, MergeOptionType DEF QueuesTypeOK
    <2>2. ManagerTypeOK' /\ OperationTypeOK' /\ ProcessTypeOK' /\ EventAtHand'
      BY <1>2 DEF Notify, ManagerTypeOK, OperationTypeOK, ProcessTypeOK, EventAtHand
    <2>3. QueuesTypeOK'
      BY <1>2, <2>1 DEF Notify, QueuesTypeOK, OptionEvent
    <2> QED
      BY <2>2, <2>3
  <1>3. CASE Forward
    <2>1. ManagerTypeOK' /\ OperationTypeOK' /\ ProcessTypeOK' /\ EventAtHand'
      BY <1>3 DEF Forward, ManagerTypeOK, OperationTypeOK, ProcessTypeOK, EventAtHand
    <2>2. QueuesTypeOK'
      BY <1>3 DEF Forward, QueuesTypeOK, OptionEvent
    <2> QED
      BY <2>1, <2>2
  <1>4. CASE TaskStart
    <2>1. current.snapshot \in SourceSnapshot
      BY <1>4 DEF TaskStart, EventAtHand, Event
    <2>2. QueuesTypeOK' /\ ManagerTypeOK' /\ ProcessTypeOK'
      BY <1>4 DEF TaskStart, QueuesTypeOK, ManagerTypeOK, ProcessTypeOK
    <2>3. OperationTypeOK'
      BY <1>4, <2>1 DEF TaskStart, OperationTypeOK
    <2>4. EventAtHand'
      BY <1>4 DEF TaskStart, EventAtHand, ManagerTypeOK
    <2> QED
      BY <2>2, <2>3, <2>4
  <1>5. CASE Compile
    <2>1. loaded' \in [Path -> Contents]
      BY <1>5 DEF Compile, QueuesTypeOK, OperationTypeOK
    <2>2. QueuesTypeOK' /\ ManagerTypeOK' /\ ProcessTypeOK'
      BY <1>5 DEF Compile, Goto, QueuesTypeOK, ManagerTypeOK, ProcessTypeOK
    <2>3. OperationTypeOK'
      BY <1>5, <2>1 DEF Compile, Goto, OperationTypeOK
    <2>4. EventAtHand'
      BY <1>5 DEF Compile, Goto, EventAtHand, ManagerTypeOK
    <2> QED
      BY <2>2, <2>3, <2>4
  <1>6. CASE CompileBroken
    <2>1. QueuesTypeOK' /\ ManagerTypeOK' /\ ProcessTypeOK'
      BY <1>6 DEF CompileBroken, QueuesTypeOK, ManagerTypeOK, ProcessTypeOK
    <2>2. OperationTypeOK'
      BY <1>6 DEF CompileBroken, OperationTypeOK
    <2>3. EventAtHand'
      BY <1>6 DEF CompileBroken, EventAtHand, ManagerTypeOK
    <2> QED
      BY <2>1, <2>2, <2>3
  <1>7. CASE Publish
    <2>1. EventAbout(Stale) \in Event /\ merge_option(coalesced, EventAbout(Stale)) \in Event
      BY EventAboutType, MergeOptionType DEF QueuesTypeOK
    <2>2. ManagerTypeOK' /\ ProcessTypeOK'
      BY <1>7 DEF Publish, PublishOrFollowUp, Goto, ManagerTypeOK, ProcessTypeOK
    <2>3. QueuesTypeOK'
      BY <1>7, <2>1 DEF Publish, PublishOrFollowUp, Goto, QueuesTypeOK, OptionEvent
    <2>4. OperationTypeOK'
      BY <1>7 DEF Publish, PublishOrFollowUp, Goto, OperationTypeOK
    <2>5. EventAtHand'
      BY <1>7 DEF Publish, PublishOrFollowUp, Goto, EventAtHand, ManagerTypeOK
    <2> QED
      BY <2>2, <2>3, <2>4, <2>5
  <1>8. CASE RunHooks
    <2>1. QueuesTypeOK' /\ ManagerTypeOK' /\ ProcessTypeOK'
      BY <1>8 DEF RunHooks, Goto, End, QueuesTypeOK, ManagerTypeOK, ProcessTypeOK
    <2>2. OperationTypeOK'
      BY <1>8 DEF RunHooks, Goto, End, OperationTypeOK
    <2>3. EventAtHand'
      BY <1>8 DEF RunHooks, Goto, End, EventAtHand, ManagerTypeOK
    <2> QED
      BY <2>1, <2>2, <2>3
  <1>9. CASE Stop
    <2>1. QueuesTypeOK' /\ ManagerTypeOK'
      BY <1>9 DEF Stop, Goto, QueuesTypeOK, ManagerTypeOK
    <2>2. OperationTypeOK'
      BY <1>9 DEF Stop, Goto, OperationTypeOK
    <2>3. ProcessTypeOK'
      BY <1>9 DEF Stop, Goto, ProcessTypeOK
    <2>4. EventAtHand'
      BY <1>9 DEF Stop, Goto, EventAtHand, ManagerTypeOK
    <2> QED
      BY <2>1, <2>2, <2>3, <2>4
  <1>10. CASE StopResult
    <2>1. QueuesTypeOK' /\ ManagerTypeOK' /\ ProcessTypeOK'
      BY <1>10 DEF StopResult, Goto, End, QueuesTypeOK, ManagerTypeOK, ProcessTypeOK
    <2>2. OperationTypeOK'
      BY <1>10 DEF StopResult, Goto, End, OperationTypeOK
    <2>3. EventAtHand'
      BY <1>10 DEF StopResult, Goto, End, EventAtHand, ManagerTypeOK
    <2> QED
      BY <2>1, <2>2, <2>3
  <1>11. CASE Launch
    <2>1. session + 1 \in Session
      BY <1>11, NatBounds DEF Launch, ProcessTypeOK, Session
    <2>2. QueuesTypeOK' /\ ManagerTypeOK'
      BY <1>11 DEF Launch, QueuesTypeOK, ManagerTypeOK
    <2>3. OperationTypeOK'
      BY <1>11 DEF Launch, OperationTypeOK, QueuesTypeOK
    <2>4. ProcessTypeOK'
      BY <1>11, <2>1 DEF Launch, ProcessTypeOK
    <2>5. EventAtHand'
      BY <1>11 DEF Launch, EventAtHand, ManagerTypeOK
    <2> QED
      BY <2>2, <2>3, <2>4, <2>5
  <1>12. CASE CompileStuck
    <2>1. QueuesTypeOK' /\ ManagerTypeOK'
      BY <1>12 DEF CompileStuck, ForceKill, Fail, QueuesTypeOK, ManagerTypeOK
    <2>2. OperationTypeOK'
      BY <1>12 DEF CompileStuck, ForceKill, Fail, OperationTypeOK
    <2>3. ProcessTypeOK'
      BY <1>12, NatBounds DEF CompileStuck, ForceKill, Fail, ProcessTypeOK
    <2>4. EventAtHand'
      BY <1>12 DEF CompileStuck, ForceKill, Fail, EventAtHand, ManagerTypeOK
    <2> QED
      BY <2>1, <2>2, <2>3, <2>4
  <1>13. CASE HookTimeout
    <2>1. QueuesTypeOK' /\ ManagerTypeOK'
      BY <1>13 DEF HookTimeout, ForceKill, Fail, End, QueuesTypeOK, ManagerTypeOK
    <2>2. OperationTypeOK'
      BY <1>13 DEF HookTimeout, ForceKill, Fail, End, OperationTypeOK
    <2>3. ProcessTypeOK'
      BY <1>13, NatBounds DEF HookTimeout, ForceKill, Fail, End, ProcessTypeOK
    <2>4. EventAtHand'
      BY <1>13 DEF HookTimeout, ForceKill, Fail, End, EventAtHand, ManagerTypeOK
    <2> QED
      BY <2>1, <2>2, <2>3, <2>4
  <1>14. CASE EvalTimeout
    <2>1. QueuesTypeOK' /\ ManagerTypeOK' /\ EventAtHand'
      BY <1>14 DEF EvalTimeout, ForceKill, Fail, QueuesTypeOK, ManagerTypeOK, EventAtHand
    <2>2. OperationTypeOK'
      BY <1>14 DEF EvalTimeout, ForceKill, Fail, OperationTypeOK
    <2>3. ProcessTypeOK'
      BY <1>14, NatBounds DEF EvalTimeout, ForceKill, Fail, ProcessTypeOK
    <2> QED
      BY <2>1, <2>2, <2>3
  <1>15. CASE EvalBegin
    <2>1. QueuesTypeOK' /\ ManagerTypeOK' /\ ProcessTypeOK' /\ EventAtHand'
      BY <1>15 DEF EvalBegin, QueuesTypeOK, ManagerTypeOK, ProcessTypeOK, EventAtHand
    <2>2. OperationTypeOK'
      BY <1>15, NatBounds DEF EvalBegin, OperationTypeOK
    <2> QED
      BY <2>1, <2>2
  <1>16. CASE EvalLock
    <2>1. QueuesTypeOK' /\ ManagerTypeOK' /\ ProcessTypeOK' /\ EventAtHand'
      BY <1>16 DEF EvalLock, QueuesTypeOK, ManagerTypeOK, ProcessTypeOK, EventAtHand
    <2>2. OperationTypeOK'
      BY <1>16 DEF EvalLock, OperationTypeOK
    <2> QED
      BY <2>1, <2>2
  <1>17. CASE EvalDone
    <2>1. QueuesTypeOK' /\ ManagerTypeOK' /\ ProcessTypeOK' /\ EventAtHand'
      BY <1>17 DEF EvalDone, QueuesTypeOK, ManagerTypeOK, ProcessTypeOK, EventAtHand
    <2>2. OperationTypeOK'
      BY <1>17 DEF EvalDone, OperationTypeOK
    <2> QED
      BY <2>1, <2>2
  <1>18. CASE wait_for_event
    <2>1. dispatchChan[1] \in Event /\ strip_applied(dispatchChan[1], applied) \in Event
      BY <1>18, StripType DEF wait_for_event, QueuesTypeOK
    <2>2. OperationTypeOK' /\ ProcessTypeOK'
      BY <1>18 DEF wait_for_event, OperationTypeOK, ProcessTypeOK
    <2>3. QueuesTypeOK'
      BY <1>18 DEF wait_for_event, QueuesTypeOK
    <2>4. ManagerTypeOK'
      BY <1>18, <2>1 DEF wait_for_event, ManagerTypeOK, OptionEvent
    <2>5. EventAtHand'
      BY <1>18, <2>1 DEF wait_for_event, EventAtHand, ManagerTypeOK
    <2> QED
      BY <2>2, <2>3, <2>4, <2>5
  <1>19. CASE handle_event
    <2>1. QueuesTypeOK' /\ ProcessTypeOK'
      BY <1>19 DEF handle_event, Goto, QueuesTypeOK, ProcessTypeOK
    <2>2. ManagerTypeOK'
      BY <1>19 DEF handle_event, Goto, ManagerTypeOK, OptionEvent
    <2>3. OperationTypeOK'
      BY <1>19 DEF handle_event, Goto, OperationTypeOK
    <2>4. EventAtHand'
      BY <1>19 DEF handle_event, Goto, EventAtHand, ManagerTypeOK
    <2> QED
      BY <2>1, <2>2, <2>3, <2>4
  <1>20. CASE ExitWhileDispatching
    <2>1. QueuesTypeOK' /\ OperationTypeOK'
      BY <1>20 DEF ExitWhileDispatching, Dispatching, QueuesTypeOK, OperationTypeOK
    <2>2. ManagerTypeOK'
      BY <1>20 DEF ExitWhileDispatching, Dispatching, ManagerTypeOK
    <2>3. ProcessTypeOK'
      BY <1>20 DEF ExitWhileDispatching, Dispatching, ProcessTypeOK
    <2>4. EventAtHand'
      BY <1>20 DEF ExitWhileDispatching, Dispatching, EventAtHand, ManagerTypeOK
    <2> QED
      BY <2>1, <2>2, <2>3, <2>4
  <1>21. CASE Accumulate
    <2>1. Received \in Event
      BY <1>21, MergeOptionType DEF Accumulate, Received, QueuesTypeOK, ManagerTypeOK
    <2>2. OperationTypeOK' /\ ProcessTypeOK'
      BY <1>21 DEF Accumulate, OperationTypeOK, ProcessTypeOK
    <2>3. QueuesTypeOK'
      BY <1>21 DEF Accumulate, QueuesTypeOK
    <2>4. ManagerTypeOK'
      BY <1>21, <2>1 DEF Accumulate, ManagerTypeOK, OptionEvent
    <2>5. EventAtHand'
      BY <1>21 DEF Accumulate, EventAtHand, ManagerTypeOK
    <2> QED
      BY <2>2, <2>3, <2>4, <2>5
  <1>22. CASE InterruptSucceeds
    <2>1. current \in Event /\ Received \in Event
      BY <1>22, MergeOptionType DEF InterruptSucceeds, Interrupt, Dispatching, Received,
         EventAtHand, QueuesTypeOK, ManagerTypeOK
    <2>2. merge(current, Received) \in Event
      BY <2>1, MergeType
    <2>3. ProcessTypeOK'
      BY <1>22 DEF InterruptSucceeds, Interrupt, ProcessTypeOK
    <2>4. QueuesTypeOK'
      BY <1>22 DEF InterruptSucceeds, Interrupt, QueuesTypeOK
    <2>5. ManagerTypeOK'
      BY <1>22, <2>2 DEF InterruptSucceeds, Interrupt, ManagerTypeOK, OptionEvent
    <2>6. OperationTypeOK'
      BY <1>22 DEF InterruptSucceeds, Interrupt, OperationTypeOK
    <2>7. EventAtHand'
      BY <1>22, <2>2 DEF InterruptSucceeds, Interrupt, EventAtHand, ManagerTypeOK
    <2> QED
      BY <2>3, <2>4, <2>5, <2>6, <2>7
  <1>23. CASE InterruptFails
    <2>1. current \in Event /\ Received \in Event
      BY <1>23, MergeOptionType DEF InterruptFails, Interrupt, Dispatching, Received,
         EventAtHand, QueuesTypeOK, ManagerTypeOK
    <2>2. merge(current, Received) \in Event
      BY <2>1, MergeType
    <2>3. QueuesTypeOK'
      BY <1>23 DEF InterruptFails, Interrupt, Fail, ForceKill, QueuesTypeOK
    <2>4. ManagerTypeOK'
      BY <1>23, <2>2 DEF InterruptFails, Interrupt, Fail, ForceKill, ManagerTypeOK, OptionEvent
    <2>5. OperationTypeOK'
      BY <1>23 DEF InterruptFails, Interrupt, Fail, ForceKill, OperationTypeOK
    <2>6. ProcessTypeOK'
      BY <1>23, NatBounds DEF InterruptFails, Interrupt, Fail, ForceKill, ProcessTypeOK
    <2>7. EventAtHand'
      BY <1>23, <2>2 DEF InterruptFails, Interrupt, Fail, ForceKill, EventAtHand, ManagerTypeOK
    <2> QED
      BY <2>3, <2>4, <2>5, <2>6, <2>7
  <1>24. CASE FinishInterrupted
    <2>1. QueuesTypeOK' /\ ProcessTypeOK'
      BY <1>24 DEF FinishInterrupted, QueuesTypeOK, ProcessTypeOK
    <2>2. ManagerTypeOK'
      BY <1>24 DEF FinishInterrupted, ManagerTypeOK, OptionEvent
    <2>3. OperationTypeOK'
      BY <1>24 DEF FinishInterrupted, OperationTypeOK
    <2>4. EventAtHand'
      BY <1>24 DEF FinishInterrupted, EventAtHand, ManagerTypeOK
    <2> QED
      BY <2>1, <2>2, <2>3, <2>4
  <1>25. CASE TaskEnded
    <2>1. current \in Event /\ current.snapshot \in SourceSnapshot
      BY <1>25 DEF TaskEnded, Dispatching, EventAtHand, Event
    <2>2. (IF pending = NoEvent THEN current ELSE merge(current, pending)) \in Event
      BY <2>1, MergeType DEF ManagerTypeOK, OptionEvent
    <2>3. mark_applied(current, applied) \in [Path -> FileState \union {Unknown}]
      BY <2>1, MarkType DEF ManagerTypeOK
    <2>4. QueuesTypeOK' /\ ProcessTypeOK'
      BY <1>25 DEF TaskEnded, Goto, SessionLost, preserve_recovery_event, QueuesTypeOK,
         ProcessTypeOK
    <2>5. ManagerTypeOK'
      BY <1>25, <2>1, <2>2, <2>3 DEF TaskEnded, Goto, SessionLost, preserve_recovery_event,
         ManagerTypeOK, OptionEvent
    <2>6. OperationTypeOK'
      BY <1>25 DEF TaskEnded, Goto, SessionLost, preserve_recovery_event, OperationTypeOK
    <2>7. EventAtHand'
      BY <1>25 DEF TaskEnded, Goto, SessionLost, preserve_recovery_event, EventAtHand,
         ManagerTypeOK
    <2> QED
      BY <2>4, <2>5, <2>6, <2>7
  <1>26. CASE TaskEndedAfterExit
    <2>1. current \in Event /\ current.snapshot \in SourceSnapshot
      BY <1>26 DEF TaskEndedAfterExit, EventAtHand, Event
    <2>2. (IF pending = NoEvent THEN current ELSE merge(current, pending)) \in Event
      BY <2>1, MergeType DEF ManagerTypeOK, OptionEvent
    <2>3. QueuesTypeOK' /\ ProcessTypeOK'
      BY <1>26 DEF TaskEndedAfterExit, Goto, SessionLost, preserve_recovery_event, QueuesTypeOK,
         ProcessTypeOK
    <2>4. ManagerTypeOK'
      BY <1>26, <2>1, <2>2 DEF TaskEndedAfterExit, Goto, SessionLost, preserve_recovery_event,
         ManagerTypeOK, OptionEvent
    <2>5. OperationTypeOK'
      BY <1>26 DEF TaskEndedAfterExit, Goto, SessionLost, preserve_recovery_event,
         OperationTypeOK
    <2>6. EventAtHand'
      BY <1>26 DEF TaskEndedAfterExit, Goto, SessionLost, preserve_recovery_event, EventAtHand,
         ManagerTypeOK
    <2> QED
      BY <2>3, <2>4, <2>5, <2>6
  <1>27. CASE ReceiveStatus
    <2>1. QueuesTypeOK'
      BY <1>27 DEF ReceiveStatus, QueuesTypeOK
    <2>2. ManagerTypeOK'
      BY <1>27 DEF ReceiveStatus, ManagerTypeOK
    <2>3. OperationTypeOK'
      BY <1>27 DEF ReceiveStatus, OperationTypeOK
    <2>4. ProcessTypeOK'
      BY <1>27 DEF ReceiveStatus, ProcessTypeOK
    <2>5. EventAtHand'
      BY <1>27 DEF ReceiveStatus, EventAtHand, ManagerTypeOK
    <2> QED
      BY <2>1, <2>2, <2>3, <2>4, <2>5
  <1>28. CASE DrainPending
    <2>1. pending # NoEvent => strip_applied(drain_pending(pending, dispatchChan), applied) \in Event
      BY DrainType, StripType DEF QueuesTypeOK, ManagerTypeOK, OptionEvent
    <2>2. dispatchChan' = dispatchChan \/ dispatchChan' = <<>>
      BY <1>28 DEF DrainPending
    <2>3. dispatchChan' \in Seq(Event) /\ Len(dispatchChan') <= 1
      <3>1. <<>> \in Seq(Event) /\ Len(<<>>) <= 1
        OBVIOUS
      <3>2. dispatchChan \in Seq(Event) /\ Len(dispatchChan) <= 1
        BY DEF QueuesTypeOK
      <3> QED
        BY <2>2, <3>1, <3>2
    <2>4. ProcessTypeOK'
      BY <1>28 DEF DrainPending, ProcessTypeOK
    <2>5. QueuesTypeOK'
      BY <1>28, <2>3 DEF DrainPending, QueuesTypeOK
    <2>6. ManagerTypeOK'
      BY <1>28, <2>1 DEF DrainPending, ManagerTypeOK, OptionEvent
    <2>7. OperationTypeOK'
      BY <1>28 DEF DrainPending, OperationTypeOK
    <2>8. EventAtHand'
      BY <1>28, <2>1 DEF DrainPending, EventAtHand, ManagerTypeOK
    <2> QED
      BY <2>4, <2>5, <2>6, <2>7, <2>8
  <1>29. CASE ExitWhileWaiting
    <2>1. QueuesTypeOK' /\ OperationTypeOK'
      BY <1>29 DEF ExitWhileWaiting, QueuesTypeOK, OperationTypeOK
    <2>2. ManagerTypeOK'
      BY <1>29 DEF ExitWhileWaiting, ManagerTypeOK
    <2>3. ProcessTypeOK'
      BY <1>29 DEF ExitWhileWaiting, ProcessTypeOK
    <2>4. EventAtHand'
      BY <1>29 DEF ExitWhileWaiting, EventAtHand, ManagerTypeOK
    <2> QED
      BY <2>1, <2>2, <2>3, <2>4
  <1>30. CASE restart_after_recovery_kill
    <2>1. retry' \in Retry
      BY <1>30 DEF restart_after_recovery_kill, ManagerTypeOK, Retry
    <2>2. QueuesTypeOK' /\ ProcessTypeOK'
      BY <1>30 DEF restart_after_recovery_kill, Goto, QueuesTypeOK, ProcessTypeOK
    <2>3. ManagerTypeOK'
      BY <1>30, <2>1 DEF restart_after_recovery_kill, Goto, ManagerTypeOK, OptionEvent
    <2>4. OperationTypeOK'
      BY <1>30 DEF restart_after_recovery_kill, Goto, OperationTypeOK
    <2>5. EventAtHand'
      BY <1>30 DEF restart_after_recovery_kill, Goto, EventAtHand, ManagerTypeOK
    <2> QED
      BY <2>2, <2>3, <2>4, <2>5
  <1>31. CASE Recovered
    <2>1. QueuesTypeOK' /\ ProcessTypeOK'
      BY <1>31 DEF Recovered, Goto, QueuesTypeOK, ProcessTypeOK
    <2>2. ManagerTypeOK'
      BY <1>31 DEF Recovered, Goto, ManagerTypeOK
    <2>3. OperationTypeOK'
      BY <1>31 DEF Recovered, Goto, OperationTypeOK
    <2>4. EventAtHand'
      BY <1>31 DEF Recovered, Goto, EventAtHand, ManagerTypeOK
    <2> QED
      BY <2>1, <2>2, <2>3, <2>4
  <1>32. CASE wait_and_restart
    <2>1. NoRetry \in Retry
      BY DEF NoRetry, Retry, OptionEvent
    <2>2. [NoRetry EXCEPT !.event = current, !.caller = "handle_event"] \in Retry
      BY <2>1 DEF Retry, ManagerTypeOK
    <2>3. retry' \in Retry
      BY <1>32, <2>1, <2>2 DEF wait_and_restart
    <2>4. QueuesTypeOK' /\ OperationTypeOK' /\ ProcessTypeOK'
      BY <1>32 DEF wait_and_restart, QueuesTypeOK, OperationTypeOK, ProcessTypeOK
    <2>5. ManagerTypeOK'
      BY <1>32, <2>3 DEF wait_and_restart, ManagerTypeOK
    <2>6. EventAtHand'
      BY <1>32 DEF wait_and_restart, EventAtHand, ManagerTypeOK
    <2> QED
      BY <2>4, <2>5, <2>6
  <1>33. CASE ReceiveWhileRetrying
    <2>1. merge_option(retry.event, dispatchChan[1]) \in Event
      BY <1>33, MergeOptionType DEF ReceiveWhileRetrying, QueuesTypeOK, ManagerTypeOK, Retry
    <2>2. retry' \in Retry
      BY <1>33, <2>1 DEF ReceiveWhileRetrying, ManagerTypeOK, Retry, OptionEvent
    <2>3. OperationTypeOK' /\ ProcessTypeOK' /\ EventAtHand'
      BY <1>33 DEF ReceiveWhileRetrying, OperationTypeOK, ProcessTypeOK, EventAtHand,
         ManagerTypeOK
    <2>4. QueuesTypeOK'
      BY <1>33 DEF ReceiveWhileRetrying, QueuesTypeOK
    <2>5. ManagerTypeOK'
      BY <1>33, <2>2 DEF ReceiveWhileRetrying, ManagerTypeOK
    <2> QED
      BY <2>3, <2>4, <2>5
  <1>34. CASE DelayOver
    <2>1. QueuesTypeOK' /\ OperationTypeOK' /\ ProcessTypeOK'
      BY <1>34 DEF DelayOver, QueuesTypeOK, OperationTypeOK, ProcessTypeOK
    <2>2. ManagerTypeOK'
      BY <1>34 DEF DelayOver, ManagerTypeOK
    <2>3. EventAtHand'
      BY <1>34 DEF DelayOver, EventAtHand, ManagerTypeOK
    <2> QED
      BY <2>1, <2>2, <2>3
  <1>35. CASE CheckChanged
    <2>1. strip_applied(drain_pending(retry.event, dispatchChan), retry.attempted) \in Event
      BY <1>35, DrainType, StripType DEF CheckChanged, QueuesTypeOK, ManagerTypeOK, Retry,
         OptionEvent
    <2>2. retry' \in Retry
      BY <1>35, <2>1 DEF CheckChanged, ManagerTypeOK, Retry, OptionEvent
    <2>3. OperationTypeOK' /\ ProcessTypeOK'
      BY <1>35 DEF CheckChanged, OperationTypeOK, ProcessTypeOK
    <2>4. QueuesTypeOK'
      BY <1>35 DEF CheckChanged, QueuesTypeOK
    <2>5. ManagerTypeOK'
      BY <1>35, <2>2 DEF CheckChanged, ManagerTypeOK
    <2>6. EventAtHand'
      BY <1>35 DEF CheckChanged, EventAtHand, ManagerTypeOK
    <2> QED
      BY <2>3, <2>4, <2>5, <2>6
  <1>36. CASE startup_restart
    <2>1. retry' \in Retry
      BY <1>36 DEF startup_restart, ManagerTypeOK, Retry
    <2>2. QueuesTypeOK' /\ ProcessTypeOK'
      BY <1>36 DEF startup_restart, Goto, QueuesTypeOK, ProcessTypeOK
    <2>3. ManagerTypeOK'
      BY <1>36, <2>1 DEF startup_restart, Goto, ManagerTypeOK
    <2>4. OperationTypeOK'
      BY <1>36 DEF startup_restart, Goto, OperationTypeOK
    <2>5. EventAtHand'
      BY <1>36 DEF startup_restart, Goto, EventAtHand, ManagerTypeOK
    <2> QED
      BY <2>2, <2>3, <2>4, <2>5
  <1>37. CASE ReplacementEnded
    <2>1. retry.event # NoEvent => /\ retry.event.snapshot \in SourceSnapshot
                                  /\ mark_applied(retry.event, applied) \in [Path -> FileState \union {Unknown}]
      BY MarkType DEF ManagerTypeOK, Retry, OptionEvent, Event
    <2>2. QueuesTypeOK' /\ ProcessTypeOK'
      BY <1>37 DEF ReplacementEnded, Goto, QueuesTypeOK, ProcessTypeOK
    <2>3. ManagerTypeOK'
      BY <1>37, <2>1 DEF ReplacementEnded, Goto, ManagerTypeOK
    <2>4. OperationTypeOK'
      BY <1>37 DEF ReplacementEnded, Goto, OperationTypeOK
    <2>5. EventAtHand'
      BY <1>37 DEF ReplacementEnded, Goto, EventAtHand, ManagerTypeOK
    <2> QED
      BY <2>2, <2>3, <2>4, <2>5
  <1>38. CASE ReplacementDied
    <2>1. Attempted(dispatchChan) \in Retry
      BY AttemptedType DEF QueuesTypeOK, ManagerTypeOK
    <2>2. OperationTypeOK'
      BY <1>38 DEF ReplacementDied, OperationTypeOK
    <2>3. QueuesTypeOK'
      BY <1>38 DEF ReplacementDied, QueuesTypeOK
    <2>4. ManagerTypeOK'
      BY <1>38, <2>1 DEF ReplacementDied, ManagerTypeOK
    <2>5. ProcessTypeOK'
      BY <1>38 DEF ReplacementDied, ProcessTypeOK
    <2>6. EventAtHand'
      BY <1>38 DEF ReplacementDied, EventAtHand, ManagerTypeOK
    <2> QED
      BY <2>2, <2>3, <2>4, <2>5, <2>6
  <1>39. CASE StopForShutdown
    <2>1. QueuesTypeOK' /\ ProcessTypeOK'
      BY <1>39 DEF StopForShutdown, Goto, QueuesTypeOK, ProcessTypeOK
    <2>2. ManagerTypeOK'
      BY <1>39 DEF StopForShutdown, Goto, ManagerTypeOK
    <2>3. OperationTypeOK'
      BY <1>39 DEF StopForShutdown, Goto, OperationTypeOK
    <2>4. EventAtHand'
      BY <1>39 DEF StopForShutdown, Goto, EventAtHand, ManagerTypeOK
    <2> QED
      BY <2>1, <2>2, <2>3, <2>4
  <1>40. CASE SessionStopped
    <2>1. QueuesTypeOK' /\ ProcessTypeOK'
      BY <1>40 DEF SessionStopped, QueuesTypeOK, ProcessTypeOK
    <2>2. ManagerTypeOK'
      BY <1>40 DEF SessionStopped, ManagerTypeOK
    <2>3. OperationTypeOK'
      BY <1>40 DEF SessionStopped, OperationTypeOK
    <2>4. EventAtHand'
      BY <1>40 DEF SessionStopped, EventAtHand, ManagerTypeOK
    <2> QED
      BY <2>1, <2>2, <2>3, <2>4
  <1>41. CASE ReturnForShutdown
    <2>1. QueuesTypeOK' /\ ProcessTypeOK'
      BY <1>41 DEF ReturnForShutdown, Goto, QueuesTypeOK, ProcessTypeOK
    <2>2. ManagerTypeOK'
      BY <1>41 DEF ReturnForShutdown, Goto, ManagerTypeOK
    <2>3. OperationTypeOK'
      BY <1>41 DEF ReturnForShutdown, Goto, OperationTypeOK
    <2>4. EventAtHand'
      BY <1>41 DEF ReturnForShutdown, Goto, EventAtHand, ManagerTypeOK
    <2> QED
      BY <2>1, <2>2, <2>3, <2>4
  <1>42. CASE RequestShutdown
    <2>1. QueuesTypeOK' /\ ManagerTypeOK' /\ OperationTypeOK' /\ EventAtHand'
      BY <1>42 DEF RequestShutdown, QueuesTypeOK, ManagerTypeOK, OperationTypeOK, EventAtHand
    <2>2. ProcessTypeOK'
      BY <1>42 DEF RequestShutdown, ProcessTypeOK
    <2> QED
      BY <2>1, <2>2
  <1>43. ASSUME NEW s \in Session, Crash(s) PROVE TypeInv'
    <2>1. QueuesTypeOK' /\ ManagerTypeOK' /\ OperationTypeOK' /\ EventAtHand'
      BY <1>43 DEF Crash, Fail, QueuesTypeOK, ManagerTypeOK, OperationTypeOK, EventAtHand
    <2>2. ProcessTypeOK'
      BY <1>43, NatBounds DEF Crash, Fail, ProcessTypeOK
    <2> QED
      BY <2>1, <2>2
  <1>44. ASSUME NEW s \in Session, ProcessStop(s) PROVE TypeInv'
    <2>1. QueuesTypeOK' /\ ManagerTypeOK' /\ OperationTypeOK' /\ EventAtHand'
      BY <1>44 DEF ProcessStop, QueuesTypeOK, ManagerTypeOK, OperationTypeOK, EventAtHand
    <2>2. ProcessTypeOK'
      BY <1>44 DEF ProcessStop, ProcessTypeOK
    <2> QED
      BY <2>1, <2>2
  <1>45. ASSUME NEW s \in Session, ProcessExited(s) PROVE TypeInv'
    <2>1. QueuesTypeOK' /\ ManagerTypeOK' /\ OperationTypeOK' /\ EventAtHand'
      BY <1>45 DEF ProcessExited, QueuesTypeOK, ManagerTypeOK, OperationTypeOK, EventAtHand
    <2>2. ProcessTypeOK'
      BY <1>45 DEF ProcessExited, ProcessTypeOK
    <2> QED
      BY <2>1, <2>2
  <1>46. ASSUME NEW s \in Session, Watchdog(s) PROVE TypeInv'
    <2>1. QueuesTypeOK' /\ ManagerTypeOK' /\ OperationTypeOK' /\ EventAtHand'
      BY <1>46 DEF Watchdog, Fail, QueuesTypeOK, ManagerTypeOK, OperationTypeOK, EventAtHand
    <2>2. ProcessTypeOK'
      BY <1>46, NatBounds DEF Watchdog, Fail, ProcessTypeOK
    <2> QED
      BY <2>1, <2>2
  <1>47. ASSUME NEW s \in Session, SendExit(s) PROVE TypeInv'
    <2>1. QueuesTypeOK' /\ ManagerTypeOK' /\ OperationTypeOK' /\ EventAtHand'
      BY <1>47 DEF SendExit, QueuesTypeOK, ManagerTypeOK, OperationTypeOK, EventAtHand
    <2>2. ProcessTypeOK'
      BY <1>47 DEF SendExit, ProcessTypeOK
    <2> QED
      BY <2>1, <2>2
  <1>48. CASE UNCHANGED vars
    BY <1>48 DEF vars, QueuesTypeOK, ManagerTypeOK, OperationTypeOK, ProcessTypeOK, EventAtHand
  <1> QED
    BY <1>1, <1>2, <1>3, <1>4, <1>5, <1>6, <1>7, <1>8, <1>9, <1>10, <1>11, <1>12, <1>13, <1>14,
       <1>15, <1>16, <1>17, <1>18, <1>19, <1>20, <1>21, <1>22, <1>23, <1>24, <1>25, <1>26,
       <1>27, <1>28, <1>29, <1>30, <1>31, <1>32, <1>33, <1>34, <1>35, <1>36, <1>37, <1>38,
       <1>39, <1>40, <1>41, <1>42, <1>43, <1>44, <1>45, <1>46, <1>47, <1>48 DEF Next,
       UserNext, WatcherNext, ManagerNext, OperationNext, StuckNext, EvalNext, ProcessNext,
       FailureNext

\* Theorem: every variable of the recovery model keeps its type, and the dispatch and
\* exit channels their capacity of one (setup_watcher, run_ghci's mpsc::channel(1)).
THEOREM RecoveryTypeCorrect == Spec => []TypeOK
  <1>1. TypeInv => TypeOK
    BY DEF TypeInv
  <1> QED
    BY TypeInit, TypeNext, <1>1, PTL DEF Spec

-----------------------------------------------------------------------------
\* The first session is watched, and nothing has been asked of it.
LEMMA SuccessionInit == Init => Succession
  BY NatBounds DEF Init, Succession, Generations, StatusIsCurrent, Reaped, Operations, Session

\* One step keeps Succession.
LEMMA SuccessionNext == TypeInv /\ Succession /\ [Next]_vars => Succession'
  <1> SUFFICES ASSUME TypeInv, Succession, [Next]_vars PROVE Succession'
    OBVIOUS
  <1> USE DEF TypeInv, TypeOK, ProcessTypeOK, OperationTypeOK, Succession, Generations, StatusIsCurrent, SessionReaped,
          Reaped, Operations, envVars, queueVars, eventVars, managerVars, lockVars,
          sessionVars, opVars, processVars, evalVars
  <1>1. ASSUME NEW p \in Path, NEW s \in Contents, Edit(p, s) PROVE Succession'
    BY <1>1 DEF Edit
  <1>2. CASE Notify
    BY <1>2 DEF Notify
  <1>3. CASE Forward
    BY <1>3 DEF Forward
  <1>4. CASE TaskStart
    <2>1. opc' \in {"hooks", "reload", "publish"} /\ mpc \in {"dispatch", "awaitTask"}
      BY <1>4 DEF TaskStart, EventAtHand
    <2> QED
      BY <1>4, <2>1 DEF TaskStart
  <1>5. CASE Compile
    BY <1>5 DEF Compile, Goto
  <1>6. CASE CompileBroken
    BY <1>6 DEF CompileBroken
  <1>7. CASE Publish
    BY <1>7 DEF Publish, PublishOrFollowUp, Goto
  <1>8. CASE RunHooks
    BY <1>8 DEF RunHooks, Goto, End
  <1>9. CASE Stop
    BY <1>9 DEF Stop, Goto
  <1>10. CASE StopResult
    BY <1>10 DEF StopResult, Goto, End
  <1>11. CASE Launch
    <2> SUFFICES ASSUME ~shutdown' PROVE Generations' /\ StatusIsCurrent' /\ Reaped' /\ Operations'
      OBVIOUS
    <2>1. SessionReaped /\ mpc \in {"dispatch", "recovering", "replacing"}
      BY <1>11 DEF Launch
    <2>2. session' = session + 1 /\ session' \in Session /\ exitChan' = <<>> /\ opc' = "init"
      BY <1>11, <2>1, NatBounds DEF Launch, Session
    <2>3. watch' = [watch EXCEPT ![session'] = "watching"] /\ alive' = alive \union {session'}
      BY <1>11 DEF Launch
    <2>4. Generations'
      BY <1>11, <2>1, <2>2, <2>3 DEF Launch, Session
    <2> QED
      BY <1>11, <2>1, <2>2, <2>4 DEF Launch
  <1>12. CASE CompileStuck
    BY <1>12 DEF CompileStuck, ForceKill
  <1>13. CASE HookTimeout
    BY <1>13 DEF HookTimeout, ForceKill, End
  <1>14. CASE EvalTimeout
    BY <1>14 DEF EvalTimeout, ForceKill
  <1>15. CASE EvalBegin
    BY <1>15 DEF EvalBegin
  <1>16. CASE EvalLock
    BY <1>16 DEF EvalLock
  <1>17. CASE EvalDone
    BY <1>17 DEF EvalDone
  <1>18. CASE wait_for_event
    BY <1>18 DEF wait_for_event
  <1>19. CASE handle_event
    BY <1>19 DEF handle_event, Goto
  <1>20. CASE ExitWhileDispatching
    BY <1>20 DEF ExitWhileDispatching, Dispatching
  <1>21. CASE Accumulate
    BY <1>21 DEF Accumulate, Dispatching
  <1>22. CASE InterruptSucceeds
    BY <1>22 DEF InterruptSucceeds, Interrupt, Dispatching
  <1>23. CASE InterruptFails
    BY <1>23 DEF InterruptFails, Interrupt, Dispatching, ForceKill
  <1>24. CASE FinishInterrupted
    BY <1>24 DEF FinishInterrupted
  <1>25. CASE TaskEnded
    BY <1>25 DEF TaskEnded, Goto, Dispatching
  <1>26. CASE TaskEndedAfterExit
    BY <1>26 DEF TaskEndedAfterExit, Goto
  <1>27. CASE ReceiveStatus
    BY <1>27 DEF ReceiveStatus
  <1>28. CASE DrainPending
    BY <1>28 DEF DrainPending
  <1>29. CASE ExitWhileWaiting
    BY <1>29 DEF ExitWhileWaiting
  <1>30. CASE restart_after_recovery_kill
    BY <1>30 DEF restart_after_recovery_kill, Goto
  <1>31. CASE Recovered
    BY <1>31 DEF Recovered, Goto
  <1>32. CASE wait_and_restart
    BY <1>32 DEF wait_and_restart
  <1>33. CASE ReceiveWhileRetrying
    BY <1>33 DEF ReceiveWhileRetrying
  <1>34. CASE DelayOver
    BY <1>34 DEF DelayOver
  <1>35. CASE CheckChanged
    BY <1>35 DEF CheckChanged
  <1>36. CASE startup_restart
    BY <1>36 DEF startup_restart, Goto
  <1>37. CASE ReplacementEnded
    BY <1>37 DEF ReplacementEnded, Goto
  <1>38. CASE ReplacementDied
    BY <1>38 DEF ReplacementDied
  <1>39. CASE StopForShutdown
    BY <1>39 DEF StopForShutdown, Goto
  <1>40. CASE SessionStopped
    BY <1>40 DEF SessionStopped
  <1>41. CASE ReturnForShutdown
    BY <1>41 DEF ReturnForShutdown, Goto
  <1>42. CASE RequestShutdown
    BY <1>42 DEF RequestShutdown
  <1>43. ASSUME NEW s \in Session, Crash(s) PROVE Succession'
    BY <1>43 DEF Crash
  <1>44. ASSUME NEW s \in Session, ProcessStop(s) PROVE Succession'
    BY <1>44 DEF ProcessStop
  <1>45. ASSUME NEW s \in Session, ProcessExited(s) PROVE Succession'
    BY <1>45 DEF ProcessExited
  <1>46. ASSUME NEW s \in Session, Watchdog(s) PROVE Succession'
    BY <1>46 DEF Watchdog
  <1>47. ASSUME NEW s \in Session, SendExit(s) PROVE Succession'
    BY <1>47 DEF SendExit
  <1>48. CASE UNCHANGED vars
    BY <1>48 DEF vars
  <1> QED
    BY <1>1, <1>2, <1>3, <1>4, <1>5, <1>6, <1>7, <1>8, <1>9, <1>10, <1>11, <1>12, <1>13, <1>14,
       <1>15, <1>16, <1>17, <1>18, <1>19, <1>20, <1>21, <1>22, <1>23, <1>24, <1>25, <1>26,
       <1>27, <1>28, <1>29, <1>30, <1>31, <1>32, <1>33, <1>34, <1>35, <1>36, <1>37, <1>38,
       <1>39, <1>40, <1>41, <1>42, <1>43, <1>44, <1>45, <1>46, <1>47, <1>48 DEF Next,
       UserNext, WatcherNext, ManagerNext, OperationNext, StuckNext, EvalNext, ProcessNext,
       FailureNext

\* Theorem: until a shutdown is requested at most one GHCi process runs, and it is the
\* one ghciwatch talks to, however crashes, watchdog kills, timeouts, interrupts, evals
\* and restarts interleave.
THEOREM AtMostOneProcess == Spec => []OneProcess
  <1>1. TypeInv /\ Succession => OneProcess
    BY DEF TypeInv, TypeOK, ProcessTypeOK, Succession, Generations, OneProcess, Session
  <1> QED
    BY TypeInit, TypeNext, SuccessionInit, SuccessionNext, <1>1, PTL DEF Spec

\* Theorem: the exit status the manager is about to receive is that of the session in
\* use, which is dead: wait_and_restart never replaces a session that lives.
THEOREM StatusBelongsToSession == Spec => []ExitBelongsToSession
  <1>1. TypeInv /\ Succession => ExitBelongsToSession
    BY DEF TypeInv, TypeOK, ProcessTypeOK, Succession, Generations, StatusIsCurrent,
       ExitBelongsToSession, Session
  <1> QED
    BY TypeInit, TypeNext, SuccessionInit, SuccessionNext, <1>1, PTL DEF Spec

-----------------------------------------------------------------------------
(***************************************************************************)
(* No edit is lost by a replacement or by the crash loop: what a session   *)
(* at rest has loaded and published, and what the crash loop has tried,    *)
(* for every value of the constants of SessionRecovery.                    *)
(*                                                                         *)
(* The argument is about one path at a time and the state it has on disk   *)
(* now.  States are never used twice, so an edit of the path makes every   *)
(* statement about its present state vacuous but one: the watcher is       *)
(* notified.  What is left is to follow that notification.                 *)
(***************************************************************************)

\* The event that waits in the dispatch channel, if any.
Queued == IF dispatchChan = <<>> THEN NoEvent ELSE dispatchChan[1]

\* Every state an event, applied_states or attempted_states holds was on disk.
Seen ==
    /\ \A p \in Path : disk[p] \in used[p]
    /\ OnceOnDisk(coalesced, used) /\ OnceOnDisk(Queued, used) /\ OnceOnDisk(pending, used)
    /\ OnceOnDisk(current, used) /\ OnceOnDisk(retry.event, used)
    /\ \A p \in Path : {applied[p], retry.attempted[p]} \subseteq used[p] \union {Unknown}
    /\ \A p \in Haskell : appliedSnap # NoSnapshot => appliedSnap[p] \in used[p]

\* Events leave the pipeline in the order they entered it.
Order(p) ==
    /\ Ordered(Queued, coalesced, p, disk[p])
    /\ Ordered(pending, Queued, p, disk[p]) /\ Ordered(pending, coalesced, p, disk[p])
    /\ Ordered(current, Queued, p, disk[p]) /\ Ordered(current, coalesced, p, disk[p])
    /\ mpc = "dispatch" => Ordered(current, pending, p, disk[p])
    /\ mpc \in {"delay", "changed", "relaunch", "replacing", "replacementDied"} =>
         Ordered(retry.event, Queued, p, disk[p]) /\ Ordered(retry.event, coalesced, p, disk[p])

\* The manager is on the way to a fresh session, or to the end of ghciwatch.
Replacing ==
    \/ mpc \in {"awaitTask", "awaitStatus", "awaitKilled", "exited", "lost", "delay",
                "changed", "relaunch", "replacementDied", "stopping", "down", "fatal"}
    \/ opc \in {"launch", "init"}
    \/ opc \in {"publish", "after", "end"} /\ result # "ok"

Before == {"spawned", "reload", "hooks", "stop", "stopping"}
Compiled == {"publish", "after", "end"}

\* A path that is not loaded as it is on disk is on its way to GHCi.
Covered(p) ==
    \/ loaded[p] = disk[p]
    \/ Replacing
    \/ p \in notified
    \/ Mentions(coalesced, p, disk[p])
    \/ Mentions(Queued, p, disk[p])
    \/ mpc \in {"dispatch", "drain"} /\ Mentions(pending, p, disk[p])
    \/ mpc \in {"start", "interrupted"} /\ Mentions(current, p, disk[p])
    \/ mpc = "dispatch" /\ opc \in Before /\ Mentions(current, p, disk[p])

\* What counts as applied is loaded.
AppliedIsLoaded(p) ==
    /\ applied[p] = disk[p] => loaded[p] = disk[p]
    /\ mpc = "dispatch" /\ opc \in Compiled /\ result = "ok" /\ Records(current, p, disk[p]) =>
         loaded[p] = disk[p]
    /\ mpc = "replacing" /\ opc \in Compiled /\ result = "ok" /\ Records(retry.event, p, disk[p]) =>
         loaded[p] = disk[p]

Hinted(p) ==
    /\ HintOr(coalesced, p, disk[p], loaded[p]) /\ HintOr(Queued, p, disk[p], loaded[p])
    /\ HintOr(pending, p, disk[p], loaded[p]) /\ HintOr(current, p, disk[p], loaded[p])

\* Operations run while the manager is busy with them; a reload has no restart hint.
Busy ==
    /\ opc # "idle" => mpc \in {"dispatch", "awaitTask", "recovering", "replacing"}
    /\ opc \in Before => mpc \in {"dispatch", "awaitTask"}
    /\ opc = "reload" => \A p \in Restarting : current.events[p] = "none"

LoadInv ==
    Seen /\ Busy /\ \A p \in Path : Order(p) /\ Covered(p) /\ AppliedIsLoaded(p) /\ Hinted(p)

\* The same for the files the last replacement was started with.
Tried == (mpc = "replacing" /\ opc # "launch") \/ mpc = "replacementDied"

Attempts(p) ==
    /\ retry.attempted[p] = disk[p] => started[p] = disk[p]
    /\ Tried /\ Records(retry.event, p, disk[p]) => started[p] = disk[p]
    /\ Tried \/ (mpc \in {"delay", "changed"} /\ ~retry.first) =>
         \/ started[p] = disk[p]
         \/ p \in notified
         \/ Mentions(coalesced, p, disk[p])
         \/ Mentions(Queued, p, disk[p])
         \/ Mentions(retry.event, p, disk[p])

CrashInv == (mpc = "changed" => ~retry.first) /\ \A p \in Path : Attempts(p)

\* Snapshots: the newer event has the newer one.
ShowsNow(e, p) == e # NoEvent /\ e.snapshot[p] = disk[p]
SnapshotOrdered(older, newer, p) == ShowsNow(older, p) /\ newer # NoEvent => ShowsNow(newer, p)

SnapshotOrder(p) ==
    /\ SnapshotOrdered(Queued, coalesced, p)
    /\ SnapshotOrdered(pending, Queued, p) /\ SnapshotOrdered(pending, coalesced, p)
    /\ SnapshotOrdered(current, Queued, p) /\ SnapshotOrdered(current, coalesced, p)

\* The snapshot to validate is that of the task's event, until it is published.
Expected ==
    expected # NoSnapshot =>
        \/ /\ mpc \in {"dispatch", "awaitTask"} /\ expected = current.snapshot
           /\ \/ opc \in (Before \ {"spawned"}) \union {"launch", "init", "publish"}
              \/ opc = "end" /\ result = "fatal"
        \/ mpc \in {"stopping", "down", "fatal"}

NotApplied(p) ==
    IF mpc = "dispatch" THEN current.snapshot[p] # disk[p]
    ELSE appliedSnap = NoSnapshot \/ appliedSnap[p] # disk[p]

\* The file changed since the snapshot was taken; a newer event is on its way.
FollowUp(p) ==
    /\ mpc \in {"wait", "dispatch", "drain"} /\ NotApplied(p)
    /\ \/ p \in notified
       \/ ShowsNow(coalesced, p)
       \/ ShowsNow(Queued, p)
       \/ mpc \in {"dispatch", "drain"} /\ ShowsNow(pending, p)

Publishing ==
    \/ published = loaded
    \/ Replacing
    \/ mpc \in {"start", "interrupted"}
    \/ opc \in Before \union {"publish"}
    \/ \E p \in Haskell : FollowUp(p)

PublishInv == Expected /\ Publishing /\ \A p \in Haskell : SnapshotOrder(p)

\* Every kind of path is a path, and a file on disk has a state.
LEMMA PathsOfKinds == Haskell \subseteq Path /\ Restarting \subseteq Path
  BY DEF Path, Haskell, Restarting

\* Nothing is said by an event that is not there.
LEMMA NoEventFacts ==
    ASSUME NEW p, NEW d, NEW z, NEW l, NEW u
    PROVE  /\ ~Records(NoEvent, p, d) /\ ~Mentions(NoEvent, p, d)
           /\ Ordered(NoEvent, z, p, d) /\ Ordered(z, NoEvent, p, d)
           /\ HintOr(NoEvent, p, d, l) /\ OnceOnDisk(NoEvent, u)
  BY DEF Records, Mentions, Ordered, HintOr, OnceOnDisk

\* An event about some paths says of them what is on disk, and nothing of the others.
LEMMA EventAboutFacts ==
    ASSUME NEW paths, disk \in [Path -> Contents], NEW p \in Path
    PROVE  /\ p \in paths => Mentions(EventAbout(paths), p, disk[p])
           /\ \A z : Ordered(z, EventAbout(paths), p, disk[p])
           /\ \A l : HintOr(EventAbout(paths), p, disk[p], l)
  <1>1. EventAbout(paths) # NoEvent /\ disk[p] # Unknown
    BY EventAboutType, OptionsDistinct, FileStatesDistinct DEF FileState
  <1> QED
    BY <1>1 DEF EventAbout, EventKind, Mentions, Records, Ordered, HintOr

\* ... and what is on disk has been seen there.
LEMMA EventAboutSeen ==
    ASSUME NEW paths, Seen PROVE OnceOnDisk(EventAbout(paths), used)
  BY PathsOfKinds DEF EventAbout, OnceOnDisk, Seen

\* What the loop knows after a replacement died: what it was started with has been
\* attempted, and only what came in meanwhile and differs is left to try.
LEMMA AttemptedFacts ==
    ASSUME retry \in Retry, NEW w \in Seq(Event), Len(w) <= 1
    PROVE  /\ \/ Attempted(w).event = NoEvent
              \/ w # <<>> /\ Attempted(w).event = strip_applied(w[1], Attempted(w).attempted)
           /\ w # <<>> => \/ is_applied(w[1], Attempted(w).attempted, Attempted(w).snapshot)
                         \/ Attempted(w).event = strip_applied(w[1], Attempted(w).attempted)
           /\ \A p \in Path : \/ Attempted(w).attempted[p] = retry.attempted[p]
                             \/ /\ retry.event \in Event
                                /\ Attempted(w).attempted[p] = retry.event.states[p]
           /\ Attempted(w).first = retry.first
  <1> DEFINE r == IF retry.event = NoEvent THEN retry
                  ELSE [retry EXCEPT !.attempted = mark_applied(retry.event, @),
                                     !.snapshot = retry.event.snapshot, !.event = NoEvent]
  <1>1. r.event = NoEvent /\ r.first = retry.first /\ r.attempted \in [Path -> FileState \union {Unknown}]
    BY MarkType DEF Retry, OptionEvent
  <1>2. \A p \in Path : \/ r.attempted[p] = retry.attempted[p]
                        \/ retry.event \in Event /\ r.attempted[p] = retry.event.states[p]
    BY MarkFacts DEF Retry, OptionEvent
  <1>3. r \in Retry
    <2>1. retry.event # NoEvent => retry.event.snapshot \in SourceSnapshot
      BY DEF Retry, OptionEvent, Event
    <2> QED
      BY <1>1, <2>1 DEF Retry, OptionEvent
  <1> HIDE DEF r
  <1>4. \/ /\ Attempted(w) = r
           /\ w = <<>> \/ is_applied(w[1], r.attempted, r.snapshot)
        \/ w # <<>> /\ Attempted(w) = [r EXCEPT !.event = strip_applied(w[1], r.attempted)]
    BY DEF Attempted, r
  <1> QED
    BY <1>1, <1>2, <1>3, <1>4 DEF Retry

\* At startup the first session has loaded what is on disk, and nothing is under way.
LEMMA LoadInit == Init => LoadInv
  <1> SUFFICES ASSUME Init PROVE LoadInv
    OBVIOUS
  <1>1. /\ coalesced = NoEvent /\ Queued = NoEvent /\ pending = NoEvent /\ current = NoEvent
        /\ retry.event = NoEvent /\ retry.attempted = [p \in Path |-> Unknown]
    BY DEF Init, NoRetry, Queued
  <1>2. /\ applied = [p \in Path |-> Unknown] /\ appliedSnap = NoSnapshot /\ loaded = disk
        /\ mpc = "wait" /\ opc = "idle" /\ \A p \in Path : disk[p] \in used[p] /\ disk[p] # Unknown
    BY FileStatesDistinct DEF Init, FileState
  <1>3. Seen
    BY <1>1, <1>2, NoEventFacts DEF Seen
  <1>4. Busy
    BY <1>2 DEF Busy, Before
  <1>5. ASSUME NEW p \in Path PROVE Order(p) /\ Covered(p) /\ AppliedIsLoaded(p) /\ Hinted(p)
    BY <1>1, <1>2, NoEventFacts DEF Order, Covered, AppliedIsLoaded, Hinted
  <1> QED
    BY <1>3, <1>4, <1>5 DEF LoadInv

\* One step keeps LoadInv.
LEMMA LoadNext == TypeInv /\ LoadInv /\ [Next]_vars => LoadInv'
  <1> SUFFICES ASSUME TypeInv, LoadInv, [Next]_vars PROVE LoadInv'
    OBVIOUS
  <1> USE DEF TypeInv, TypeOK, LoadInv, Seen, Busy, Order, Covered, AppliedIsLoaded, Hinted,
          Replacing, Before, Compiled, Queued, envVars, queueVars, eventVars, managerVars,
          lockVars, sessionVars, opVars, processVars, evalVars
  <1>1. ASSUME NEW p \in Path, NEW s \in Contents, Edit(p, s) PROVE LoadInv'
    <2>1. /\ disk' = [disk EXCEPT ![p] = s] /\ used' = [used EXCEPT ![p] = @ \union {s}]
          /\ s \notin used[p] /\ s # Unknown /\ notified' = notified \union {p}
      BY <1>1, FileStatesDistinct DEF Edit, FileState
    <2>2. /\ coalesced' = coalesced /\ Queued' = Queued /\ pending' = pending /\ current' = current
          /\ retry' = retry /\ applied' = applied /\ appliedSnap' = appliedSnap /\ loaded' = loaded
          /\ mpc' = mpc /\ opc' = opc /\ result' = result
      BY <1>1 DEF Edit
    <2>3. ASSUME NEW e, OnceOnDisk(e, used) PROVE OnceOnDisk(e, used') /\ ~Records(e, p, s)
      BY <2>1, <2>3, PathsOfKinds DEF OnceOnDisk, Records, QueuesTypeOK
    <2>4. Seen'
      <3>1. \A q \in Path : disk'[q] \in used'[q] /\ used[q] \subseteq used'[q]
        BY <2>1 DEF QueuesTypeOK
      <3> QED
        BY <2>2, <2>3, <3>1, PathsOfKinds
    <2>5. Busy'
      BY <2>2
    <2>6. ASSUME NEW q \in Path PROVE Order(q)' /\ Covered(q)' /\ AppliedIsLoaded(q)' /\ Hinted(q)'
      <3>1. CASE q = p
        <4>1. disk'[q] = s /\ q \in notified'
          BY <2>1, <3>1 DEF QueuesTypeOK
        <4>2. \A e \in {coalesced, Queued, pending, current, retry.event} : ~Records(e, q, s)
          BY <2>3, <3>1
        <4>3. applied[q] # s
          BY <2>1, <3>1
        <4> QED
          BY <2>2, <4>1, <4>2, <4>3 DEF Ordered, HintOr
      <3>2. CASE q # p
        <4>1. disk'[q] = disk[q] /\ (q \in notified => q \in notified')
          BY <2>1, <3>2 DEF QueuesTypeOK
        <4> QED
          BY <2>2, <4>1
      <3> QED
        BY <3>1, <3>2
    <2> QED
      BY <2>4, <2>5, <2>6
  <1>2. CASE Notify
    <2>1. coalesced \in OptionEvent /\ EventAbout(notified) \in Event
      BY EventAboutType DEF QueuesTypeOK
    <2>2. coalesced' = merge_option(coalesced, EventAbout(notified)) /\ OnceOnDisk(coalesced', used)
      BY <1>2, <2>1, EventAboutSeen, MergeSeen DEF Notify, QueuesTypeOK
    <2>3. Seen'
      BY <1>2, <2>2 DEF Notify
    <2>4. Busy'
      BY <1>2 DEF Notify
    <2>5. ASSUME NEW p \in Path PROVE Order(p)' /\ Covered(p)' /\ AppliedIsLoaded(p)' /\ Hinted(p)'
      <3>1. disk[p] \in FileState
        BY DEF QueuesTypeOK, FileState
      <3>2. /\ p \in notified => Mentions(coalesced', p, disk[p])
            /\ Mentions(coalesced, p, disk[p]) => Mentions(coalesced', p, disk[p])
        BY <2>1, <2>2, <3>1, MergeFacts, EventAboutFacts DEF QueuesTypeOK
      <3>3. \A z : Ordered(z, coalesced, p, disk[p]) => Ordered(z, coalesced', p, disk[p])
        BY <2>1, <2>2, <3>1, MergeOrder, EventAboutFacts DEF QueuesTypeOK
      <3>4. HintOr(coalesced', p, disk[p], loaded[p])
        BY <2>1, <2>2, <3>1, MergeHint, EventAboutFacts DEF QueuesTypeOK
      <3> QED
        BY <1>2, <3>2, <3>3, <3>4 DEF Notify
    <2> QED
      BY <2>3, <2>4, <2>5
  <1>3. CASE Forward
    <2>1. Queued = NoEvent /\ Queued' = coalesced /\ coalesced' = NoEvent
      BY <1>3 DEF Forward
    <2>2. Seen'
      BY <1>3, <2>1, NoEventFacts DEF Forward
    <2>3. Busy'
      BY <1>3 DEF Forward
    <2>4. ASSUME NEW p \in Path PROVE Order(p)' /\ Covered(p)' /\ AppliedIsLoaded(p)' /\ Hinted(p)'
      BY <1>3, <2>1, NoEventFacts DEF Forward
    <2> QED
      BY <2>2, <2>3, <2>4
  <1>4. CASE TaskStart
    <2>1. current \in Event /\ mpc \in {"dispatch", "awaitTask"}
      BY <1>4 DEF TaskStart, EventAtHand
    <2>2. opc' \in {"hooks", "reload", "publish"}
      BY <1>4 DEF TaskStart
    <2>3. opc' = "reload" => \A p \in Restarting : current.events[p] = "none"
      BY <1>4 DEF TaskStart, Hints, Path, Restarting
    <2>4. opc' = "publish" => \A p \in Path : current.events[p] = "none"
      BY <1>4 DEF TaskStart, Hints
    <2>5. Seen'
      BY <1>4 DEF TaskStart
    <2>6. Busy'
      BY <1>4, <2>1, <2>2, <2>3 DEF TaskStart
    <2>7. ASSUME NEW p \in Path PROVE Order(p)' /\ Covered(p)' /\ AppliedIsLoaded(p)' /\ Hinted(p)'
      BY <1>4, <2>1, <2>2, <2>4 DEF TaskStart, Mentions, HintOr
    <2> QED
      BY <2>5, <2>6, <2>7
  <1>5. CASE Compile
    <2>1. \A p \in Path : loaded'[p] = IF opc = "init" \/ p \notin Restarting THEN disk[p] ELSE loaded[p]
      BY <1>5 DEF Compile
    <2>2. Seen'
      BY <1>5 DEF Compile, Goto
    <2>3. Busy'
      BY <1>5 DEF Compile, Goto
    <2>4. ASSUME NEW p \in Path PROVE Order(p)' /\ Covered(p)' /\ AppliedIsLoaded(p)' /\ Hinted(p)'
      BY <1>5, <2>1 DEF Compile, Goto, HintOr, Mentions
    <2> QED
      BY <2>2, <2>3, <2>4
  <1>6. CASE CompileBroken
    BY <1>6 DEF CompileBroken
  <1>7. CASE Publish
    <2>1. coalesced \in OptionEvent /\ EventAbout(Stale) \in Event
      BY EventAboutType DEF QueuesTypeOK
    <2>2. coalesced' = coalesced \/ coalesced' = merge_option(coalesced, EventAbout(Stale))
      BY <1>7 DEF Publish, PublishOrFollowUp
    <2>3. OnceOnDisk(coalesced', used)
      BY <2>1, <2>2, EventAboutSeen, MergeSeen DEF QueuesTypeOK
    <2>4. Seen'
      BY <1>7, <2>3 DEF Publish, PublishOrFollowUp, Goto
    <2>5. Busy'
      BY <1>7 DEF Publish, PublishOrFollowUp, Goto
    <2>6. ASSUME NEW p \in Path PROVE Order(p)' /\ Covered(p)' /\ AppliedIsLoaded(p)' /\ Hinted(p)'
      <3>1. disk[p] \in FileState
        BY DEF QueuesTypeOK, FileState
      <3>2. Mentions(coalesced, p, disk[p]) => Mentions(coalesced', p, disk[p])
        BY <2>1, <2>2, <3>1, MergeFacts, EventAboutFacts DEF QueuesTypeOK
      <3>3. \A z : Ordered(z, coalesced, p, disk[p]) => Ordered(z, coalesced', p, disk[p])
        BY <2>1, <2>2, <3>1, MergeOrder, EventAboutFacts DEF QueuesTypeOK
      <3>4. HintOr(coalesced', p, disk[p], loaded[p])
        BY <2>1, <2>2, <3>1, MergeHint, EventAboutFacts DEF QueuesTypeOK
      <3> QED
        BY <1>7, <3>2, <3>3, <3>4 DEF Publish, PublishOrFollowUp, Goto
    <2> QED
      BY <2>4, <2>5, <2>6
  <1>8. CASE RunHooks
    BY <1>8 DEF RunHooks, Goto, End
  <1>9. CASE Stop
    BY <1>9 DEF Stop, Goto
  <1>10. CASE StopResult
    BY <1>10 DEF StopResult, Goto, End
  <1>11. CASE Launch
    BY <1>11 DEF Launch
  <1>12. CASE CompileStuck
    BY <1>12 DEF CompileStuck
  <1>13. CASE HookTimeout
    BY <1>13 DEF HookTimeout, End
  <1>14. CASE EvalTimeout
    BY <1>14 DEF EvalTimeout
  <1>15. CASE EvalBegin
    BY <1>15 DEF EvalBegin
  <1>16. CASE EvalLock
    BY <1>16 DEF EvalLock
  <1>17. CASE EvalDone
    BY <1>17 DEF EvalDone
  <1>18. CASE wait_for_event
    <2>1. Queued \in Event /\ Queued # NoEvent /\ Queued = dispatchChan[1] /\ Queued' = NoEvent
      BY <1>18, OptionsDistinct DEF wait_for_event, QueuesTypeOK
    <2>2. \/ is_applied(Queued, applied, appliedSnap) /\ mpc' = "wait" /\ current' = current
          \/ mpc' = "start" /\ current' = strip_applied(Queued, applied)
      BY <1>18, <2>1 DEF wait_for_event
    <2>3. mpc = "wait" /\ opc = "idle"
      BY <1>18 DEF wait_for_event
    <2>4. /\ disk' = disk /\ used' = used /\ notified' = notified /\ coalesced' = coalesced
              /\ pending' = pending
          /\ applied' = applied /\ appliedSnap' = appliedSnap /\ retry' = retry /\ loaded' = loaded
          /\ opc' = opc /\ result' = result
      BY <1>18 DEF wait_for_event
    <2>5. OnceOnDisk(current', used)
      BY <2>1, <2>2, StripSeen
    <2>6. Seen'
      BY <1>18, <2>1, <2>4, <2>5, NoEventFacts DEF wait_for_event
    <2>7. Busy'
      BY <1>18, <2>2, <2>3, <2>4 DEF wait_for_event
    <2>8. ASSUME NEW p \in Path PROVE Order(p)' /\ Covered(p)' /\ AppliedIsLoaded(p)' /\ Hinted(p)'
      <3>1. Mentions(Queued, p, disk[p]) =>
              loaded[p] = disk[p] \/ (mpc' = "start" /\ Mentions(current', p, disk[p]))
        <4>1. CASE is_applied(Queued, applied, appliedSnap)
          <5>1. Mentions(Queued, p, disk[p]) => applied[p] = disk[p]
            BY <2>1, <4>1 DEF is_applied, Hints, strip_applied, Records, Mentions, Event
          <5> QED
            BY <5>1
        <4>2. CASE mpc' = "start" /\ current' = strip_applied(Queued, applied)
          <5>1. applied[p] = disk[p] => loaded[p] = disk[p]
            OBVIOUS
          <5>2. Queued \in Event
            BY <2>1
          <5> HIDE DEF TypeInv, LoadInv, Queued
          <5>3. Mentions(Queued, p, disk[p])
                  => applied[p] = disk[p] \/ Mentions(strip_applied(Queued, applied), p, disk[p])
            BY <5>2, StripFacts
          <5> QED
            BY <4>2, <5>1, <5>3
        <4> QED
          BY <2>2, <4>1, <4>2
      <3>2. Ordered(current', coalesced, p, disk[p])
        BY <2>1, <2>2, StripOrder
      <3>3. HintOr(current', p, disk[p], loaded[p])
        BY <2>1, <2>2, StripHint
      <3>4. ~Replacing /\ mpc' \in {"wait", "start"} /\ opc' = "idle"
        BY <2>2, <2>3, <2>4
      <3> QED
        BY <2>1, <2>3, <2>4, <3>1, <3>2, <3>3, <3>4, NoEventFacts
    <2> QED
      BY <2>6, <2>7, <2>8
  <1>19. CASE handle_event
    <2>1. Seen'
      BY <1>19, NoEventFacts DEF handle_event, Goto
    <2>2. Busy'
      BY <1>19 DEF handle_event, Goto
    <2>3. ASSUME NEW p \in Path PROVE Order(p)' /\ Covered(p)' /\ AppliedIsLoaded(p)' /\ Hinted(p)'
      BY <1>19, NoEventFacts DEF handle_event, Goto
    <2> QED
      BY <2>1, <2>2, <2>3
  <1>20. CASE ExitWhileDispatching
    BY <1>20 DEF ExitWhileDispatching, Dispatching
  <1>21. CASE Accumulate
    <2>1. Queued \in Event /\ Queued = dispatchChan[1] /\ Queued' = NoEvent
      BY <1>21 DEF Accumulate, QueuesTypeOK
    <2>2. pending \in OptionEvent /\ Received = merge_option(pending, Queued) /\ Received \in Event
      BY <2>1, MergeOptionType DEF ManagerTypeOK, Received
    <2>3. OnceOnDisk(Received, used)
      BY <2>1, <2>2, MergeSeen
    <2>4. Seen'
      BY <1>21, <2>1, <2>3, NoEventFacts DEF Accumulate, Dispatching
    <2>5. Busy'
      BY <1>21 DEF Accumulate, Dispatching
    <2>6. ASSUME NEW p \in Path PROVE Order(p)' /\ Covered(p)' /\ AppliedIsLoaded(p)' /\ Hinted(p)'
      <3>1. disk[p] \in FileState
        BY DEF QueuesTypeOK, FileState
      <3>2. /\ Mentions(Queued, p, disk[p]) => Mentions(Received, p, disk[p])
            /\ Mentions(pending, p, disk[p]) => Mentions(Received, p, disk[p])
        BY <2>1, <2>2, <3>1, MergeFacts
      <3>3. /\ Ordered(current, Received, p, disk[p]) /\ Ordered(Received, coalesced, p, disk[p])
        BY <1>21, <2>1, <2>2, <3>1, MergeOrder DEF Accumulate, Dispatching
      <3>4. HintOr(Received, p, disk[p], loaded[p])
        BY <2>1, <2>2, <3>1, MergeHint
      <3> QED
        BY <1>21, <2>1, <3>2, <3>3, <3>4, NoEventFacts DEF Accumulate, Dispatching
    <2> QED
      BY <2>4, <2>5, <2>6
  <1>22. CASE InterruptSucceeds
    <2>1. Queued \in Event /\ Queued = dispatchChan[1] /\ Queued' = NoEvent
      BY <1>22 DEF InterruptSucceeds, Interrupt, QueuesTypeOK
    <2>2. pending \in OptionEvent /\ Received = merge_option(pending, Queued) /\ Received \in Event
      BY <2>1, MergeOptionType DEF ManagerTypeOK, Received
    <2>3. OnceOnDisk(Received, used)
      BY <2>1, <2>2, MergeSeen
    <2>4. current \in Event /\ current # NoEvent /\ mpc = "dispatch" /\ opc' = "idle"
      BY <1>22, OptionsDistinct DEF InterruptSucceeds, Interrupt, Dispatching, EventAtHand
    <2>5. current' = merge_option(current, Received) /\ OnceOnDisk(current', used)
      BY <1>22, <2>2, <2>3, <2>4, MergeSeen DEF InterruptSucceeds, Interrupt, merge_option,
         OptionEvent
    <2>6. Seen'
      BY <1>22, <2>1, <2>5, NoEventFacts DEF InterruptSucceeds, Interrupt, Dispatching,
         Deciding
    <2>7. Busy'
      BY <1>22, <2>4 DEF InterruptSucceeds, Interrupt, Dispatching, Deciding
    <2>8. ASSUME NEW p \in Path PROVE Order(p)' /\ Covered(p)' /\ AppliedIsLoaded(p)' /\ Hinted(p)'
      <3>1. disk[p] \in FileState
        BY DEF QueuesTypeOK, FileState
      <3>2. /\ Mentions(Queued, p, disk[p]) => Mentions(Received, p, disk[p])
            /\ Mentions(pending, p, disk[p]) => Mentions(Received, p, disk[p])
        BY <2>1, <2>2, <3>1, MergeFacts
      <3>3. /\ Ordered(current, Received, p, disk[p]) /\ Ordered(Received, coalesced, p, disk[p])
        BY <1>22, <2>1, <2>2, <3>1, MergeOrder DEF InterruptSucceeds, Interrupt, Dispatching
      <3>4. HintOr(Received, p, disk[p], loaded[p])
        BY <2>1, <2>2, <3>1, MergeHint
      <3>5. Mentions(current, p, disk[p]) \/ Mentions(Received, p, disk[p]) => Mentions(current', p, disk[p])
        BY <2>2, <2>4, <2>5, <3>1, <3>3, MergeFacts DEF OptionEvent
      <3>6. Ordered(current', coalesced, p, disk[p]) /\ HintOr(current', p, disk[p], loaded[p])
        BY <2>2, <2>4, <2>5, <3>1, <3>3, <3>4, MergeOrder, MergeHint DEF OptionEvent
      <3> QED
        BY <1>22, <2>1, <2>4, <3>2, <3>5, <3>6, NoEventFacts
           DEF InterruptSucceeds, Interrupt, Dispatching
    <2> QED
      BY <2>6, <2>7, <2>8
  <1>23. CASE InterruptFails
    <2>1. Queued \in Event /\ Queued = dispatchChan[1] /\ Queued' = NoEvent
      BY <1>23 DEF InterruptFails, Interrupt, QueuesTypeOK
    <2>2. pending \in OptionEvent /\ Received = merge_option(pending, Queued) /\ Received \in Event
      BY <2>1, MergeOptionType DEF ManagerTypeOK, Received
    <2>3. OnceOnDisk(Received, used)
      BY <2>1, <2>2, MergeSeen
    <2>4. current \in Event /\ current # NoEvent /\ mpc = "dispatch" /\ opc' = "idle"
      BY <1>23, OptionsDistinct DEF InterruptFails, Interrupt, Dispatching, EventAtHand
    <2>5. current' = merge_option(current, Received) /\ OnceOnDisk(current', used)
      BY <1>23, <2>2, <2>3, <2>4, MergeSeen DEF InterruptFails, Interrupt, merge_option,
         OptionEvent
    <2>6. Seen'
      BY <1>23, <2>1, <2>5, NoEventFacts DEF InterruptFails, Interrupt, Dispatching, Deciding
    <2>7. Busy'
      BY <1>23, <2>4 DEF InterruptFails, Interrupt, Dispatching, Deciding
    <2>8. ASSUME NEW p \in Path PROVE Order(p)' /\ Covered(p)' /\ AppliedIsLoaded(p)' /\ Hinted(p)'
      <3>1. disk[p] \in FileState
        BY DEF QueuesTypeOK, FileState
      <3>2. /\ Mentions(Queued, p, disk[p]) => Mentions(Received, p, disk[p])
            /\ Mentions(pending, p, disk[p]) => Mentions(Received, p, disk[p])
        BY <2>1, <2>2, <3>1, MergeFacts
      <3>3. /\ Ordered(current, Received, p, disk[p]) /\ Ordered(Received, coalesced, p, disk[p])
        BY <1>23, <2>1, <2>2, <3>1, MergeOrder DEF InterruptFails, Interrupt, Dispatching
      <3>4. HintOr(Received, p, disk[p], loaded[p])
        BY <2>1, <2>2, <3>1, MergeHint
      <3>5. Mentions(current, p, disk[p]) \/ Mentions(Received, p, disk[p]) => Mentions(current', p, disk[p])
        BY <2>2, <2>4, <2>5, <3>1, <3>3, MergeFacts DEF OptionEvent
      <3>6. Ordered(current', coalesced, p, disk[p]) /\ HintOr(current', p, disk[p], loaded[p])
        BY <2>2, <2>4, <2>5, <3>1, <3>3, <3>4, MergeOrder, MergeHint DEF OptionEvent
      <3> QED
        BY <1>23, <2>1, <2>4, <3>2, <3>5, <3>6, NoEventFacts
           DEF InterruptFails, Interrupt, Dispatching
    <2> QED
      BY <2>6, <2>7, <2>8
  <1>24. CASE FinishInterrupted
    <2>1. opc = "idle"
      BY <1>24 DEF FinishInterrupted
    <2>2. Seen'
      BY <1>24, NoEventFacts DEF FinishInterrupted
    <2>3. Busy'
      BY <1>24, <2>1 DEF FinishInterrupted
    <2>4. ASSUME NEW p \in Path PROVE Order(p)' /\ Covered(p)' /\ AppliedIsLoaded(p)' /\ Hinted(p)'
      BY <1>24, <2>1, NoEventFacts DEF FinishInterrupted
    <2> QED
      BY <2>2, <2>3, <2>4
  <1>25. CASE TaskEnded
    <2>1. current \in Event /\ current # NoEvent /\ pending \in OptionEvent
      BY <1>25, OptionsDistinct DEF TaskEnded, Dispatching, EventAtHand, ManagerTypeOK
    <2>2. pending' \in {pending, current} \/ (pending \in Event /\ pending' = merge_option(current, pending))
      BY <1>25, <2>1 DEF TaskEnded, SessionLost, preserve_recovery_event, merge_option,
         OptionEvent
    <2>3. OnceOnDisk(pending', used)
      BY <2>1, <2>2, MergeSeen DEF OptionEvent
    <2>4. applied' = applied
              \/ (mpc' = "drain" /\ result = "ok" /\ pending' = pending
                        /\ \A p \in Path : applied'[p] = IF current.states[p] # Unknown THEN current.states[p] ELSE applied[p])
      BY <1>25, <2>1, MarkFacts DEF TaskEnded
    <2>5. appliedSnap' = appliedSnap \/ appliedSnap' = current.snapshot
      BY <1>25 DEF TaskEnded
    <2>6. Seen'
      BY <1>25, <2>1, <2>3, <2>4, <2>5 DEF TaskEnded, Goto, Dispatching, SessionLost,
         preserve_recovery_event, OnceOnDisk
    <2>7. Busy'
      BY <1>25 DEF TaskEnded, Goto, Dispatching, SessionLost, preserve_recovery_event
    <2>8. ASSUME NEW p \in Path PROVE Order(p)' /\ Covered(p)' /\ AppliedIsLoaded(p)' /\ Hinted(p)'
      <3>1. disk[p] \in FileState
        BY DEF QueuesTypeOK, FileState
      <3>2. Ordered(pending', Queued, p, disk[p]) /\ Ordered(pending', coalesced, p, disk[p])
        BY <2>1, <2>2, <3>1, MergeOrder DEF OptionEvent
      <3>3. HintOr(pending', p, disk[p], loaded[p])
        BY <2>1, <2>2, <3>1, MergeHint DEF OptionEvent
      <3>4. applied'[p] = disk[p] => loaded[p] = disk[p]
        BY <1>25, <2>1, <2>4 DEF TaskEnded, Dispatching, Records
      <3> QED
        BY <1>25, <2>4, <3>2, <3>3, <3>4 DEF TaskEnded, Goto, Dispatching
    <2> QED
      BY <2>6, <2>7, <2>8
  <1>26. CASE TaskEndedAfterExit
    <2>1. current \in Event /\ current # NoEvent /\ pending \in OptionEvent
      BY <1>26, OptionsDistinct DEF TaskEndedAfterExit, EventAtHand, ManagerTypeOK
    <2>2. pending' \in {pending, current} \/ (pending \in Event /\ pending' = merge_option(current, pending))
      BY <1>26, <2>1 DEF TaskEndedAfterExit, SessionLost, preserve_recovery_event,
         merge_option, OptionEvent
    <2>3. OnceOnDisk(pending', used)
      BY <2>1, <2>2, MergeSeen DEF OptionEvent
    <2>4. Seen'
      BY <1>26, <2>3 DEF TaskEndedAfterExit, Goto, SessionLost, preserve_recovery_event
    <2>5. Busy'
      BY <1>26 DEF TaskEndedAfterExit, Goto, SessionLost, preserve_recovery_event
    <2>6. ASSUME NEW p \in Path PROVE Order(p)' /\ Covered(p)' /\ AppliedIsLoaded(p)' /\ Hinted(p)'
      <3>1. disk[p] \in FileState
        BY DEF QueuesTypeOK, FileState
      <3>2. Ordered(pending', Queued, p, disk[p]) /\ Ordered(pending', coalesced, p, disk[p])
        BY <2>1, <2>2, <3>1, MergeOrder DEF OptionEvent
      <3>3. HintOr(pending', p, disk[p], loaded[p])
        BY <2>1, <2>2, <3>1, MergeHint DEF OptionEvent
      <3> QED
        BY <1>26, <3>2, <3>3 DEF TaskEndedAfterExit, Goto
    <2> QED
      BY <2>4, <2>5, <2>6
  <1>27. CASE ReceiveStatus
    BY <1>27 DEF ReceiveStatus
  <1>28. CASE DrainPending
    <2>1. CASE pending = NoEvent
      BY <1>28, <2>1, NoEventFacts DEF DrainPending
    <2>2. CASE pending # NoEvent
      <3>1. pending \in Event /\ Queued \in OptionEvent /\ Queued' = NoEvent /\ pending' = NoEvent
        BY <1>28, <2>2 DEF DrainPending, QueuesTypeOK, ManagerTypeOK, OptionEvent
      <3> DEFINE e == drain_pending(pending, dispatchChan)
      <3>2. /\ e \in Event
            /\ (e = pending /\ Queued = NoEvent) \/ (e = merge_option(pending, Queued) /\ Queued \in Event)
        BY <2>2, <3>1, DrainType DEF drain_pending, merge_option, QueuesTypeOK
      <3>3. \/ is_applied(e, applied, appliedSnap) /\ mpc' = "wait" /\ current' = NoEvent
            \/ mpc' = "start" /\ current' = strip_applied(e, applied)
        BY <1>28, <2>2 DEF DrainPending
      <3> HIDE DEF e
      <3>4. opc = "idle" /\ opc' = opc
        BY <1>28 DEF DrainPending
      <3>5. Seen'
        <4>1. OnceOnDisk(e, used)
          BY <3>1, <3>2, MergeSeen DEF OptionEvent
        <4>2. OnceOnDisk(current', used)
          BY <3>2, <3>3, <4>1, StripSeen, NoEventFacts
        <4> QED
          BY <1>28, <3>1, <4>2, NoEventFacts DEF DrainPending
      <3>6. ASSUME NEW p \in Path PROVE Order(p)' /\ Covered(p)' /\ AppliedIsLoaded(p)' /\ Hinted(p)'
        <4>1. disk[p] \in FileState
          BY DEF QueuesTypeOK, FileState
        <4>2. Mentions(pending, p, disk[p]) \/ Mentions(Queued, p, disk[p]) => Mentions(e, p, disk[p])
          BY <3>1, <3>2, <4>1, MergeFacts, NoEventFacts DEF OptionEvent
        <4>3. Ordered(e, coalesced, p, disk[p]) /\ HintOr(e, p, disk[p], loaded[p])
          BY <3>1, <3>2, <4>1, MergeOrder, MergeHint DEF OptionEvent
        <4>4. Mentions(e, p, disk[p]) =>
                loaded[p] = disk[p] \/ (mpc' = "start" /\ Mentions(current', p, disk[p]))
          <5>1. CASE is_applied(e, applied, appliedSnap)
            <6>1. Mentions(e, p, disk[p]) => applied[p] = disk[p]
              BY <3>2, <5>1 DEF is_applied, Hints, strip_applied, Records, Mentions, Event
            <6> QED
              BY <6>1
          <5>2. CASE mpc' = "start" /\ current' = strip_applied(e, applied)
            BY <3>2, <5>2, StripFacts
          <5> QED
            BY <3>3, <5>1, <5>2
        <4>5. Ordered(current', coalesced, p, disk[p]) /\ HintOr(current', p, disk[p], loaded[p])
          <5>1. CASE current' = NoEvent
            BY <5>1, NoEventFacts
          <5>2. CASE current' = strip_applied(e, applied)
            BY <3>2, <4>3, <5>2, StripOrder, StripHint
          <5> QED
            BY <3>3, <5>1, <5>2
        <4> QED
          BY <1>28, <3>1, <3>3, <3>4, <4>2, <4>4, <4>5, NoEventFacts DEF DrainPending
      <3> QED
        BY <1>28, <3>3, <3>4, <3>5, <3>6 DEF DrainPending
    <2> QED
      BY <2>1, <2>2
  <1>29. CASE ExitWhileWaiting
    BY <1>29 DEF ExitWhileWaiting
  <1>30. CASE restart_after_recovery_kill
    <2>1. retry'.event = retry.event /\ retry'.attempted = retry.attempted
      BY <1>30 DEF restart_after_recovery_kill, ManagerTypeOK, Retry
    <2>2. Seen'
      BY <1>30, <2>1, NoEventFacts DEF restart_after_recovery_kill, Goto
    <2>3. Busy'
      BY <1>30 DEF restart_after_recovery_kill, Goto
    <2>4. ASSUME NEW p \in Path PROVE Order(p)' /\ Covered(p)' /\ AppliedIsLoaded(p)' /\ Hinted(p)'
      BY <1>30, <2>1, NoEventFacts DEF restart_after_recovery_kill, Goto
    <2> QED
      BY <2>2, <2>3, <2>4
  <1>31. CASE Recovered
    BY <1>31 DEF Recovered, Goto
  <1>32. CASE wait_and_restart
    <2>1. retry' \in {NoRetry, [NoRetry EXCEPT !.event = current, !.caller = "handle_event"]}
      BY <1>32 DEF wait_and_restart
    <2>2. retry'.event \in {NoEvent, current} /\ retry'.attempted = [p \in Path |-> Unknown]
      <3>1. CASE retry' = NoRetry
        BY <3>1 DEF NoRetry
      <3>2. CASE retry' = [NoRetry EXCEPT !.event = current, !.caller = "handle_event"]
        BY <3>2 DEF NoRetry
      <3> QED
        BY <2>1, <3>1, <3>2
    <2>3. opc = "idle"
      BY <1>32 DEF wait_and_restart
    <2>4. Seen'
      BY <1>32, <2>2, NoEventFacts DEF wait_and_restart
    <2>5. Busy'
      BY <1>32 DEF wait_and_restart
    <2>6. ASSUME NEW p \in Path PROVE Order(p)' /\ Covered(p)' /\ AppliedIsLoaded(p)' /\ Hinted(p)'
      <3>1. /\ mpc' = "delay" /\ opc' = "idle"
            /\ UNCHANGED <<disk, coalesced, dispatchChan, current, pending, applied, loaded>>
        BY <1>32, <2>3 DEF wait_and_restart
      <3>2. Ordered(retry'.event, Queued, p, disk[p]) /\ Ordered(retry'.event, coalesced, p, disk[p])
        <4>1. Ordered(current, Queued, p, disk[p]) /\ Ordered(current, coalesced, p, disk[p])
          OBVIOUS
        <4>2. CASE retry'.event = NoEvent
          BY <4>2, NoEventFacts
        <4>3. CASE retry'.event = current
          BY <4>1, <4>3
        <4> QED
          BY <2>2, <4>2, <4>3
      <3>3. Order(p)'
        BY <3>1, <3>2
      <3>4. Covered(p)' /\ AppliedIsLoaded(p)'
        BY <3>1
      <3>5. Hinted(p)'
        BY <3>1
      <3> QED
        BY <3>3, <3>4, <3>5
    <2> QED
      BY <2>4, <2>5, <2>6
  <1>33. CASE ReceiveWhileRetrying
    <2>1. Queued \in Event /\ Queued = dispatchChan[1] /\ Queued' = NoEvent /\ retry.event \in OptionEvent
      BY <1>33 DEF ReceiveWhileRetrying, QueuesTypeOK, ManagerTypeOK, Retry
    <2>2. retry'.event = merge_option(retry.event, Queued) /\ retry'.attempted = retry.attempted
      BY <1>33, <2>1 DEF ReceiveWhileRetrying, ManagerTypeOK, Retry
    <2>3. OnceOnDisk(retry'.event, used)
      BY <2>1, <2>2, MergeSeen
    <2>4. Seen'
      BY <1>33, <2>1, <2>2, <2>3, NoEventFacts DEF ReceiveWhileRetrying
    <2>5. Busy'
      BY <1>33 DEF ReceiveWhileRetrying
    <2>6. ASSUME NEW p \in Path PROVE Order(p)' /\ Covered(p)' /\ AppliedIsLoaded(p)' /\ Hinted(p)'
      <3>1. disk[p] \in FileState
        BY DEF QueuesTypeOK, FileState
      <3>2. Ordered(retry'.event, coalesced, p, disk[p])
        BY <1>33, <2>1, <2>2, <3>1, MergeOrder DEF ReceiveWhileRetrying
      <3>3. Ordered(retry'.event, NoEvent, p, disk[p])
        BY NoEventFacts
      <3> QED
        BY <1>33, <2>1, <2>2, <3>2, <3>3, NoEventFacts DEF ReceiveWhileRetrying
    <2> QED
      BY <2>4, <2>5, <2>6
  <1>34. CASE DelayOver
    BY <1>34 DEF DelayOver
  <1>35. CASE CheckChanged
    <2> DEFINE e == drain_pending(retry.event, dispatchChan)
    <2>1. retry.event \in Event /\ Queued' = NoEvent
      BY <1>35 DEF CheckChanged, ManagerTypeOK, Retry, OptionEvent
    <2>2. e \in Event /\ (e = retry.event \/ (Queued \in Event /\ e = merge_option(retry.event, Queued)))
      BY <2>1, DrainType, OptionsDistinct DEF drain_pending, merge_option, QueuesTypeOK
    <2>3. \/ retry' = [retry EXCEPT !.event = NoEvent]
          \/ retry' = [retry EXCEPT !.event = strip_applied(e, retry.attempted)]
      BY <1>35 DEF CheckChanged
    <2>4. /\ retry'.attempted = retry.attempted
          /\ retry'.event = NoEvent \/ retry'.event = strip_applied(e, retry.attempted)
      BY <2>3 DEF ManagerTypeOK, Retry
    <2> HIDE DEF e
    <2>5. OnceOnDisk(e, used)
      BY <2>1, <2>2, MergeSeen DEF OptionEvent
    <2>6. OnceOnDisk(retry'.event, used)
      BY <2>2, <2>4, <2>5, StripSeen, NoEventFacts
    <2>7. Seen'
      BY <1>35, <2>1, <2>4, <2>6, NoEventFacts DEF CheckChanged
    <2>8. Busy'
      BY <1>35 DEF CheckChanged
    <2>9. ASSUME NEW p \in Path PROVE Order(p)' /\ Covered(p)' /\ AppliedIsLoaded(p)' /\ Hinted(p)'
      <3>1. disk[p] \in FileState
        BY DEF QueuesTypeOK, FileState
      <3>2. Ordered(e, coalesced, p, disk[p])
        BY <1>35, <2>1, <2>2, <3>1, MergeOrder DEF CheckChanged, OptionEvent
      <3>3. Ordered(retry'.event, coalesced, p, disk[p])
        <4>1. CASE retry'.event = NoEvent
          BY <4>1, NoEventFacts
        <4>2. CASE retry'.event = strip_applied(e, retry.attempted)
          BY <2>2, <3>2, <4>2, StripOrder
        <4> QED
          BY <2>4, <4>1, <4>2
      <3> QED
        BY <1>35, <2>1, <2>4, <3>3, NoEventFacts DEF CheckChanged
    <2> QED
      BY <2>7, <2>8, <2>9
  <1>36. CASE startup_restart
    <2>1. retry'.event = retry.event /\ retry'.attempted = retry.attempted
      BY <1>36 DEF startup_restart, ManagerTypeOK, Retry
    <2>2. Seen'
      BY <1>36, <2>1 DEF startup_restart, Goto
    <2>3. Busy'
      BY <1>36 DEF startup_restart, Goto
    <2>4. ASSUME NEW p \in Path PROVE Order(p)' /\ Covered(p)' /\ AppliedIsLoaded(p)' /\ Hinted(p)'
      BY <1>36, <2>1 DEF startup_restart, Goto
    <2> QED
      BY <2>2, <2>3, <2>4
  <1>37. CASE ReplacementEnded
    <2>1. \/ applied' = applied /\ appliedSnap' = appliedSnap
          \/ /\ result = "ok" /\ retry.event \in Event /\ retry.event # NoEvent
             /\ appliedSnap' = retry.event.snapshot /\ applied' = mark_applied(retry.event, applied)
      BY <1>37 DEF ReplacementEnded, ManagerTypeOK, Retry, OptionEvent
    <2>2. applied' = applied
              \/ (retry.event \in Event
                        /\ \A p \in Path : applied'[p] = IF retry.event.states[p] # Unknown THEN retry.event.states[p] ELSE applied[p])
      BY <2>1, MarkFacts
    <2>3. Seen'
      BY <1>37, <2>1, <2>2 DEF ReplacementEnded, Goto, OnceOnDisk
    <2>4. Busy'
      BY <1>37 DEF ReplacementEnded, Goto
    <2>5. ASSUME NEW p \in Path PROVE Order(p)' /\ Covered(p)' /\ AppliedIsLoaded(p)' /\ Hinted(p)'
      <3>1. applied'[p] = disk[p] => loaded[p] = disk[p]
        BY <1>37, <2>1, <2>2 DEF ReplacementEnded, Records
      <3> QED
        BY <1>37, <3>1 DEF ReplacementEnded, Goto
    <2> QED
      BY <2>3, <2>4, <2>5
  <1>38. CASE ReplacementDied
    <2>1. Queued \in OptionEvent /\ Queued' = NoEvent
              /\ (dispatchChan # <<>> => Queued = dispatchChan[1] /\ Queued \in Event)
      BY <1>38 DEF ReplacementDied, QueuesTypeOK, OptionEvent
    <2>2. \/ retry'.event = NoEvent
          \/ Queued \in Event /\ retry'.event = strip_applied(Queued, retry'.attempted)
      BY <1>38, <2>1, AttemptedFacts DEF ReplacementDied, QueuesTypeOK, ManagerTypeOK
    <2>3. \A p \in Path : retry'.attempted[p] \in used[p] \union {Unknown}
      <3>1. retry.event \in Event => \A p \in Path : retry.event.states[p] \in used[p] \union {Unknown}
        BY OptionsDistinct DEF OnceOnDisk
      <3>2. \A p \in Path : \/ retry'.attempted[p] = retry.attempted[p]
                            \/ retry.event \in Event /\ retry'.attempted[p] = retry.event.states[p]
        BY <1>38, AttemptedFacts DEF ReplacementDied, QueuesTypeOK, ManagerTypeOK
      <3> QED
        BY <3>1, <3>2
    <2>4. OnceOnDisk(retry'.event, used)
      BY <2>2, StripSeen, NoEventFacts
    <2>5. Seen'
      BY <1>38, <2>1, <2>3, <2>4, NoEventFacts DEF ReplacementDied
    <2>6. Busy'
      BY <1>38 DEF ReplacementDied
    <2>7. ASSUME NEW p \in Path PROVE Order(p)' /\ Covered(p)' /\ AppliedIsLoaded(p)' /\ Hinted(p)'
      <3>1. Ordered(retry'.event, coalesced, p, disk[p])
        <4>1. CASE retry'.event = NoEvent
          BY <4>1, NoEventFacts
        <4>2. CASE Queued \in Event /\ retry'.event = strip_applied(Queued, retry'.attempted)
          BY <4>2, StripOrder
        <4> QED
          BY <2>2, <4>1, <4>2
      <3>2. mpc = "replacementDied" /\ mpc' = "delay"
        BY <1>38 DEF ReplacementDied
      <3>3. /\ disk' = disk /\ notified' = notified /\ coalesced' = coalesced /\ pending' = pending
            /\ current' = current /\ applied' = applied /\ loaded' = loaded /\ opc' = opc /\ result' = result
        BY <1>38 DEF ReplacementDied
      <3> QED
        BY <2>1, <3>1, <3>2, <3>3, NoEventFacts
    <2> QED
      BY <2>5, <2>6, <2>7
  <1>39. CASE StopForShutdown
    BY <1>39 DEF StopForShutdown, Goto
  <1>40. CASE SessionStopped
    BY <1>40 DEF SessionStopped
  <1>41. CASE ReturnForShutdown
    BY <1>41 DEF ReturnForShutdown, Goto
  <1>42. CASE RequestShutdown
    BY <1>42 DEF RequestShutdown
  <1>43. ASSUME NEW s \in Session, Crash(s) PROVE LoadInv'
    BY <1>43 DEF Crash
  <1>44. ASSUME NEW s \in Session, ProcessStop(s) PROVE LoadInv'
    BY <1>44 DEF ProcessStop
  <1>45. ASSUME NEW s \in Session, ProcessExited(s) PROVE LoadInv'
    BY <1>45 DEF ProcessExited
  <1>46. ASSUME NEW s \in Session, Watchdog(s) PROVE LoadInv'
    BY <1>46 DEF Watchdog
  <1>47. ASSUME NEW s \in Session, SendExit(s) PROVE LoadInv'
    BY <1>47 DEF SendExit
  <1>48. CASE UNCHANGED vars
    BY <1>48 DEF vars
  <1> QED
    BY <1>1, <1>2, <1>3, <1>4, <1>5, <1>6, <1>7, <1>8, <1>9, <1>10, <1>11, <1>12, <1>13, <1>14,
       <1>15, <1>16, <1>17, <1>18, <1>19, <1>20, <1>21, <1>22, <1>23, <1>24, <1>25, <1>26,
       <1>27, <1>28, <1>29, <1>30, <1>31, <1>32, <1>33, <1>34, <1>35, <1>36, <1>37, <1>38,
       <1>39, <1>40, <1>41, <1>42, <1>43, <1>44, <1>45, <1>46, <1>47, <1>48 DEF Next,
       UserNext, WatcherNext, ManagerNext, OperationNext, StuckNext, EvalNext, ProcessNext,
       FailureNext

\* The first session is not in the crash loop.
LEMMA CrashInit == Init => CrashInv
  <1> SUFFICES ASSUME Init PROVE CrashInv
    OBVIOUS
  <1>1. mpc = "wait" /\ retry.attempted = [p \in Path |-> Unknown]
    BY DEF Init, NoRetry
  <1>2. \A p \in Path : disk[p] # Unknown
    BY FileStatesDistinct DEF Init, FileState
  <1> QED
    BY <1>1, <1>2 DEF CrashInv, Attempts, Tried

\* One step keeps CrashInv.
LEMMA CrashNext == TypeInv /\ LoadInv /\ CrashInv /\ [Next]_vars => CrashInv'
  <1> SUFFICES ASSUME TypeInv, LoadInv, CrashInv, [Next]_vars PROVE CrashInv'
    OBVIOUS
  <1> USE DEF TypeInv, TypeOK, CrashInv, Attempts, Tried, Queued, envVars, queueVars, eventVars,
          managerVars, lockVars, sessionVars, opVars, processVars, evalVars
  <1>1. ASSUME NEW p \in Path, NEW s \in Contents, Edit(p, s) PROVE CrashInv'
    <2>1. /\ disk' = [disk EXCEPT ![p] = s] /\ s \notin used[p] /\ s # Unknown
          /\ notified' = notified \union {p}
      BY <1>1, FileStatesDistinct DEF Edit, FileState
    <2>2. /\ coalesced' = coalesced /\ dispatchChan' = dispatchChan /\ retry' = retry
          /\ started' = started /\ mpc' = mpc /\ opc' = opc
      BY <1>1 DEF Edit
    <2>3. retry.attempted[p] # s /\ ~Records(retry.event, p, s)
      BY <2>1 DEF LoadInv, Seen, OnceOnDisk, Records
    <2>4. ASSUME NEW q \in Path PROVE Attempts(q)'
      <3>1. CASE q = p
        <4>1. disk'[q] = s /\ q \in notified'
          BY <2>1, <3>1 DEF QueuesTypeOK
        <4> QED
          BY <2>2, <2>3, <3>1, <4>1
      <3>2. CASE q # p
        <4>1. disk'[q] = disk[q] /\ (q \in notified => q \in notified')
          BY <2>1, <3>2 DEF QueuesTypeOK
        <4> QED
          BY <2>2, <4>1
      <3> QED
        BY <3>1, <3>2
    <2> QED
      BY <2>2, <2>4
  <1>2. CASE Notify
    <2>1. coalesced \in OptionEvent /\ EventAbout(notified) \in Event
      BY EventAboutType DEF QueuesTypeOK
    <2>2. coalesced' = merge_option(coalesced, EventAbout(notified))
      BY <1>2 DEF Notify
    <2>3. mpc' = "changed" => ~retry'.first
      BY <1>2 DEF Notify
    <2>4. ASSUME NEW p \in Path PROVE Attempts(p)'
      <3>1. disk[p] \in FileState
        BY DEF QueuesTypeOK, FileState
      <3>2. /\ p \in notified => Mentions(coalesced', p, disk[p])
            /\ Mentions(coalesced, p, disk[p]) => Mentions(coalesced', p, disk[p])
        BY <2>1, <2>2, <3>1, MergeFacts, EventAboutFacts DEF QueuesTypeOK
      <3> QED
        BY <1>2, <3>2 DEF Notify
    <2> QED
      BY <2>3, <2>4
  <1>3. CASE Forward
    <2>1. Queued = NoEvent /\ Queued' = coalesced
      BY <1>3 DEF Forward
    <2>2. mpc' = "changed" => ~retry'.first
      BY <1>3 DEF Forward
    <2>3. ASSUME NEW p \in Path PROVE Attempts(p)'
      BY <1>3, <2>1, NoEventFacts DEF Forward
    <2> QED
      BY <2>2, <2>3
  <1>4. CASE TaskStart
    BY <1>4 DEF TaskStart
  <1>5. CASE Compile
    BY <1>5 DEF Compile, Goto
  <1>6. CASE CompileBroken
    BY <1>6 DEF CompileBroken
  <1>7. CASE Publish
    <2>1. coalesced \in OptionEvent /\ EventAbout(Stale) \in Event
      BY EventAboutType DEF QueuesTypeOK
    <2>2. coalesced' = coalesced \/ coalesced' = merge_option(coalesced, EventAbout(Stale))
      BY <1>7 DEF Publish, PublishOrFollowUp
    <2>3. mpc' = "changed" => ~retry'.first
      BY <1>7 DEF Publish, PublishOrFollowUp, Goto
    <2>4. ASSUME NEW p \in Path PROVE Attempts(p)'
      <3>1. disk[p] \in FileState
        BY DEF QueuesTypeOK, FileState
      <3>2. Mentions(coalesced, p, disk[p]) => Mentions(coalesced', p, disk[p])
        BY <2>1, <2>2, <3>1, MergeFacts, EventAboutFacts DEF QueuesTypeOK
      <3> QED
        BY <1>7, <3>2 DEF Publish, PublishOrFollowUp, Goto
    <2> QED
      BY <2>3, <2>4
  <1>8. CASE RunHooks
    BY <1>8 DEF RunHooks, Goto, End
  <1>9. CASE Stop
    BY <1>9 DEF Stop, Goto
  <1>10. CASE StopResult
    BY <1>10 DEF StopResult, Goto, End
  <1>11. CASE Launch
    BY <1>11 DEF Launch
  <1>12. CASE CompileStuck
    BY <1>12 DEF CompileStuck
  <1>13. CASE HookTimeout
    BY <1>13 DEF HookTimeout, End
  <1>14. CASE EvalTimeout
    BY <1>14 DEF EvalTimeout
  <1>15. CASE EvalBegin
    BY <1>15 DEF EvalBegin
  <1>16. CASE EvalLock
    BY <1>16 DEF EvalLock
  <1>17. CASE EvalDone
    BY <1>17 DEF EvalDone
  <1>18. CASE wait_for_event
    BY <1>18 DEF wait_for_event
  <1>19. CASE handle_event
    BY <1>19 DEF handle_event, Goto
  <1>20. CASE ExitWhileDispatching
    BY <1>20 DEF ExitWhileDispatching, Dispatching
  <1>21. CASE Accumulate
    BY <1>21 DEF Accumulate, Dispatching
  <1>22. CASE InterruptSucceeds
    BY <1>22 DEF InterruptSucceeds, Interrupt, Dispatching, Deciding
  <1>23. CASE InterruptFails
    BY <1>23 DEF InterruptFails, Interrupt, Dispatching, Deciding
  <1>24. CASE FinishInterrupted
    BY <1>24 DEF FinishInterrupted
  <1>25. CASE TaskEnded
    BY <1>25 DEF TaskEnded, Goto, Dispatching, SessionLost, preserve_recovery_event
  <1>26. CASE TaskEndedAfterExit
    BY <1>26 DEF TaskEndedAfterExit, Goto, SessionLost, preserve_recovery_event
  <1>27. CASE ReceiveStatus
    BY <1>27 DEF ReceiveStatus
  <1>28. CASE DrainPending
    BY <1>28 DEF DrainPending
  <1>29. CASE ExitWhileWaiting
    BY <1>29 DEF ExitWhileWaiting
  <1>30. CASE restart_after_recovery_kill
    <2>1. retry'.attempted = retry.attempted /\ mpc' = "recovering"
      BY <1>30 DEF restart_after_recovery_kill, ManagerTypeOK, Retry
    <2>2. mpc' = "changed" => ~retry'.first
      BY <2>1
    <2>3. ASSUME NEW p \in Path PROVE Attempts(p)'
      BY <1>30, <2>1 DEF restart_after_recovery_kill
    <2> QED
      BY <2>2, <2>3
  <1>31. CASE Recovered
    BY <1>31 DEF Recovered, Goto
  <1>32. CASE wait_and_restart
    <2>1. retry' = NoRetry \/ retry' = [NoRetry EXCEPT !.event = current, !.caller = "handle_event"]
      BY <1>32 DEF wait_and_restart
    <2>2. retry'.first /\ retry'.attempted = [p \in Path |-> Unknown]
      <3>1. CASE retry' = NoRetry
        BY <3>1 DEF NoRetry
      <3>2. CASE retry' = [NoRetry EXCEPT !.event = current, !.caller = "handle_event"]
        BY <3>2 DEF NoRetry
      <3> QED
        BY <2>1, <3>1, <3>2
    <2>3. mpc' = "delay" /\ disk' = disk
      BY <1>32 DEF wait_and_restart
    <2>4. mpc' = "changed" => ~retry'.first
      BY <2>3
    <2>5. ASSUME NEW p \in Path PROVE Attempts(p)'
      <3>1. disk[p] # Unknown
        BY FileStatesDistinct DEF QueuesTypeOK, FileState
      <3> QED
        BY <2>2, <2>3, <3>1
    <2> QED
      BY <2>4, <2>5
  <1>33. CASE ReceiveWhileRetrying
    <2>1. Queued \in Event /\ Queued = dispatchChan[1] /\ retry.event \in OptionEvent
      BY <1>33 DEF ReceiveWhileRetrying, QueuesTypeOK, ManagerTypeOK, Retry
    <2>2. /\ retry'.event = merge_option(retry.event, Queued) /\ retry'.attempted = retry.attempted
          /\ retry'.first = retry.first /\ mpc' = mpc /\ mpc \in {"delay", "changed"}
      BY <1>33, <2>1 DEF ReceiveWhileRetrying, ManagerTypeOK, Retry
    <2>3. mpc' = "changed" => ~retry'.first
      BY <2>2
    <2>4. ASSUME NEW p \in Path PROVE Attempts(p)'
      <3>1. disk[p] \in FileState
        BY DEF QueuesTypeOK, FileState
      <3>2. Ordered(retry.event, Queued, p, disk[p])
        BY <2>2 DEF LoadInv, Order
      <3>3. Mentions(retry.event, p, disk[p]) \/ Mentions(Queued, p, disk[p])
                => Mentions(retry'.event, p, disk[p])
        BY <2>1, <2>2, <3>1, <3>2, MergeFacts
      <3> QED
        BY <1>33, <2>2, <3>3 DEF ReceiveWhileRetrying
    <2> QED
      BY <2>3, <2>4
  <1>34. CASE DelayOver
    BY <1>34 DEF DelayOver
  <1>35. CASE CheckChanged
    <2> DEFINE e == drain_pending(retry.event, dispatchChan)
    <2>1. retry.event \in Event /\ retry.event # NoEvent /\ mpc = "changed"
      BY <1>35 DEF CheckChanged, ManagerTypeOK, Retry, OptionEvent
    <2>2. e \in Event
              /\ ((e = retry.event /\ Queued = NoEvent)
                        \/ (Queued \in Event /\ e = merge_option(retry.event, Queued)))
      BY <2>1, DrainType, OptionsDistinct DEF drain_pending, merge_option, QueuesTypeOK
    <2>3. \/ /\ is_applied(e, retry.attempted, retry.snapshot) /\ mpc' = "changed"
             /\ retry' = [retry EXCEPT !.event = NoEvent]
          \/ /\ mpc' = "relaunch" /\ retry' = [retry EXCEPT !.event = strip_applied(e, retry.attempted)]
      BY <1>35 DEF CheckChanged
    <2>4. retry'.attempted = retry.attempted /\ retry'.first = retry.first
      BY <2>3 DEF ManagerTypeOK, Retry
    <2>5. mpc' = "changed" => ~retry'.first
      BY <2>1, <2>4
    <2>6. ASSUME NEW p \in Path PROVE Attempts(p)'
      <3>1. disk[p] \in FileState
        BY DEF QueuesTypeOK, FileState
      <3>2. CASE mpc' = "relaunch"
        BY <1>35, <2>4, <3>2 DEF CheckChanged
      <3>3. CASE is_applied(e, retry.attempted, retry.snapshot) /\ mpc' = "changed"
        <4>1. Mentions(e, p, disk[p]) => retry.attempted[p] = disk[p]
          BY <2>2, <3>3 DEF is_applied, Hints, strip_applied, Records, Mentions, Event
        <4>2. Ordered(retry.event, Queued, p, disk[p])
          BY <2>1 DEF LoadInv, Order
        <4> HIDE DEF e
        <4>3. Mentions(retry.event, p, disk[p]) \/ Mentions(Queued, p, disk[p]) => Mentions(e, p, disk[p])
          BY <2>1, <2>2, <3>1, <4>2, MergeFacts, NoEventFacts DEF OptionEvent
        <4> QED
          BY <1>35, <2>1, <2>4, <3>3, <4>1, <4>3 DEF CheckChanged
      <3> QED
        BY <2>3, <3>2, <3>3
    <2> QED
      BY <2>5, <2>6
  <1>36. CASE startup_restart
    <2>1. retry'.attempted = retry.attempted /\ mpc' = "replacing" /\ opc' = "launch"
      BY <1>36 DEF startup_restart, ManagerTypeOK, Retry, Goto
    <2>2. mpc' = "changed" => ~retry'.first
      BY <2>1
    <2>3. ASSUME NEW p \in Path PROVE Attempts(p)'
      BY <1>36, <2>1 DEF startup_restart
    <2> QED
      BY <2>2, <2>3
  <1>37. CASE ReplacementEnded
    BY <1>37 DEF ReplacementEnded, Goto
  <1>38. CASE ReplacementDied
    <2> DEFINE r == Attempted(dispatchChan)
    <2>1. retry' = r /\ mpc = "replacementDied" /\ mpc' = "delay"
      BY <1>38 DEF ReplacementDied
    <2>2. dispatchChan # <<>> => Queued = dispatchChan[1] /\ Queued \in Event
      BY DEF QueuesTypeOK
    <2>3. dispatchChan # <<>> => \/ is_applied(dispatchChan[1], r.attempted, r.snapshot)
                                \/ r.event = strip_applied(dispatchChan[1], r.attempted)
      BY AttemptedFacts DEF QueuesTypeOK, ManagerTypeOK
    <2>4. \A p \in Path : \/ r.attempted[p] = retry.attempted[p]
                         \/ (retry.event \in Event /\ r.attempted[p] = retry.event.states[p])
      BY AttemptedFacts DEF QueuesTypeOK, ManagerTypeOK
    <2> HIDE DEF r
    <2>5. mpc' = "changed" => ~retry'.first
      BY <2>1
    <2>6. ASSUME NEW p \in Path PROVE Attempts(p)'
      <3>1. r.attempted[p] = disk[p] => started[p] = disk[p]
        BY <2>1, <2>4, OptionsDistinct DEF Records
      <3>2. Mentions(Queued, p, disk[p]) => r.attempted[p] = disk[p] \/ Mentions(r.event, p, disk[p])
        <4>1. CASE dispatchChan = <<>>
          BY <4>1, NoEventFacts
        <4>2. CASE dispatchChan # <<>> /\ is_applied(dispatchChan[1], r.attempted, r.snapshot)
          BY <2>2, <4>2 DEF is_applied, Hints, strip_applied, Records, Mentions, Event
        <4>3. CASE dispatchChan # <<>> /\ r.event = strip_applied(dispatchChan[1], r.attempted)
          BY <2>2, <4>3, StripType, OptionsDistinct DEF strip_applied, Records, Mentions, Event
        <4> QED
          BY <2>3, <4>1, <4>2, <4>3
      <3>3. Mentions(retry.event, p, disk[p]) => started[p] = disk[p]
        BY <2>1 DEF Mentions
      <3>4. disk' = disk /\ started' = started /\ notified' = notified /\ coalesced' = coalesced
        BY <1>38 DEF ReplacementDied
      <3> QED
        BY <2>1, <3>1, <3>2, <3>3, <3>4
    <2> QED
      BY <2>5, <2>6
  <1>39. CASE StopForShutdown
    BY <1>39 DEF StopForShutdown, Goto
  <1>40. CASE SessionStopped
    BY <1>40 DEF SessionStopped
  <1>41. CASE ReturnForShutdown
    BY <1>41 DEF ReturnForShutdown, Goto
  <1>42. CASE RequestShutdown
    BY <1>42 DEF RequestShutdown
  <1>43. ASSUME NEW s \in Session, Crash(s) PROVE CrashInv'
    BY <1>43 DEF Crash
  <1>44. ASSUME NEW s \in Session, ProcessStop(s) PROVE CrashInv'
    BY <1>44 DEF ProcessStop
  <1>45. ASSUME NEW s \in Session, ProcessExited(s) PROVE CrashInv'
    BY <1>45 DEF ProcessExited
  <1>46. ASSUME NEW s \in Session, Watchdog(s) PROVE CrashInv'
    BY <1>46 DEF Watchdog
  <1>47. ASSUME NEW s \in Session, SendExit(s) PROVE CrashInv'
    BY <1>47 DEF SendExit
  <1>48. CASE UNCHANGED vars
    BY <1>48 DEF vars
  <1> QED
    BY <1>1, <1>2, <1>3, <1>4, <1>5, <1>6, <1>7, <1>8, <1>9, <1>10, <1>11, <1>12, <1>13, <1>14,
       <1>15, <1>16, <1>17, <1>18, <1>19, <1>20, <1>21, <1>22, <1>23, <1>24, <1>25, <1>26,
       <1>27, <1>28, <1>29, <1>30, <1>31, <1>32, <1>33, <1>34, <1>35, <1>36, <1>37, <1>38,
       <1>39, <1>40, <1>41, <1>42, <1>43, <1>44, <1>45, <1>46, <1>47, <1>48 DEF Next,
       UserNext, WatcherNext, ManagerNext, OperationNext, StuckNext, EvalNext, ProcessNext,
       FailureNext

\* Theorem: when everything is at rest with a live session, that session has loaded the
\* files as they are.  No edit is lost between the watcher and GHCi, whichever sessions
\* died, were interrupted, killed or replaced on the way (GhciManager, Ghci::reload).
THEOREM NoEditLost == Spec => []QuiescentLoaded
  <1>1. TypeInv /\ LoadInv => QuiescentLoaded
    <2> SUFFICES ASSUME TypeInv, LoadInv, AtRest PROVE loaded = disk
      BY DEF QuiescentLoaded
    <2>1. /\ notified = {} /\ coalesced = NoEvent /\ Queued = NoEvent /\ mpc = "wait" /\ opc = "idle"
      BY DEF AtRest, Quiet, Queued, LoadInv, Busy
    <2>2. \A p \in Path : loaded[p] = disk[p]
      BY <2>1, NoEventFacts DEF LoadInv, Covered, Replacing
    <2> QED
      BY <2>2 DEF TypeInv, TypeOK, QueuesTypeOK, OperationTypeOK
  <1> QED
    BY TypeInit, TypeNext, LoadInit, LoadNext, <1>1, PTL DEF Spec

\* Theorem: wait_and_restart waits for a change only if the replacement that died last
\* was started after the last edit; no edit counts as attempted that was not.
THEOREM CrashLoopTriesEveryEdit == Spec => []CrashLoopIsCurrent
  <1>1. TypeInv /\ CrashInv => CrashLoopIsCurrent
    <2> SUFFICES ASSUME TypeInv, CrashInv, Quiet, mpc = "changed", retry.event = NoEvent
                 PROVE  started = disk
      BY DEF CrashLoopIsCurrent
    <2>1. notified = {} /\ coalesced = NoEvent /\ Queued = NoEvent
      BY DEF Quiet, Queued
    <2>2. \A p \in Path : started[p] = disk[p]
      BY <2>1, NoEventFacts DEF CrashInv, Attempts
    <2> QED
      BY <2>2 DEF TypeInv, TypeOK, QueuesTypeOK, OperationTypeOK
  <1> QED
    BY TypeInit, TypeNext, LoadInit, LoadNext, CrashInit, CrashNext, <1>1, PTL DEF Spec

\* The files the first session loaded are what the error log is about.
LEMMA PublishInit == Init => PublishInv
  BY DEF Init, PublishInv, Expected, Publishing, SnapshotOrder, SnapshotOrdered, ShowsNow, Queued

\* One step keeps PublishInv, if no hook is a GHCi command.
LEMMA PublishNext ==
    ASSUME ~GhciHooks PROVE TypeInv /\ LoadInv /\ PublishInv /\ [Next]_vars => PublishInv'
  <1> SUFFICES ASSUME TypeInv, LoadInv, PublishInv, [Next]_vars PROVE PublishInv'
    OBVIOUS
  <1>0. Busy /\ ~NeedsPrompt
    BY DEF LoadInv, NeedsPrompt
  <1> USE <1>0 DEF TypeInv, TypeOK, Busy, Before, PublishInv, Expected, Publishing, Replacing,
          FollowUp, NotApplied, SnapshotOrder, SnapshotOrdered, ShowsNow, Queued, envVars, queueVars,
          eventVars, managerVars, lockVars, sessionVars, opVars, processVars, evalVars
  <1>1. ASSUME NEW p \in Path, NEW s \in Contents, Edit(p, s) PROVE PublishInv'
    <2>1. /\ disk' = [disk EXCEPT ![p] = s] /\ s \notin used[p] /\ notified' = notified \union {p}
      BY <1>1 DEF Edit
    <2>2. /\ coalesced' = coalesced /\ Queued' = Queued /\ pending' = pending /\ current' = current
          /\ appliedSnap' = appliedSnap /\ expected' = expected /\ published' = published
          /\ loaded' = loaded /\ mpc' = mpc /\ opc' = opc /\ result' = result
      BY <1>1 DEF Edit
    <2>3. p \in Haskell =>
            /\ disk'[p] = s
            /\ \A e \in {coalesced, Queued, pending, current} : e # NoEvent => e.snapshot[p] # s
            /\ appliedSnap # NoSnapshot => appliedSnap[p] # s
      BY <2>1, PathsOfKinds DEF LoadInv, Seen, OnceOnDisk, QueuesTypeOK
    <2>4. \A q \in Haskell : q # p => disk'[q] = disk[q]
      BY <2>1, PathsOfKinds DEF QueuesTypeOK
    <2>5. ASSUME NEW q \in Haskell PROVE SnapshotOrder(q)' /\ (FollowUp(q) => FollowUp(q)')
      <3>1. CASE q = p
        <4>1. mpc = "dispatch" => current # NoEvent
          BY OptionsDistinct DEF EventAtHand
        <4> QED
          BY <2>1, <2>2, <2>3, <3>1, <4>1
      <3>2. CASE q # p
        BY <2>1, <2>2, <2>4, <3>2
      <3> QED
        BY <3>1, <3>2
    <2>6. Expected' /\ Publishing'
      BY <2>2, <2>5
    <2> QED
      BY <2>5, <2>6
  <1>2. CASE Notify
    <2>1. \A p \in Haskell : coalesced' # NoEvent /\ coalesced'.snapshot[p] = disk[p]
      <3>1. EventAbout(notified) \in Event /\ EventAbout(notified).snapshot = [p \in Haskell |-> disk[p]]
        BY EventAboutType DEF EventAbout, QueuesTypeOK
      <3>2. coalesced' \in Event /\ coalesced'.snapshot = EventAbout(notified).snapshot
        BY <1>2, <3>1, MergeOptionType DEF Notify, QueuesTypeOK, merge_option, merge
      <3> QED
        BY <3>1, <3>2, OptionsDistinct
    <2>2. Expected'
      BY <1>2 DEF Notify
    <2>3. Publishing'
      BY <1>2, <2>1 DEF Notify
    <2>4. ASSUME NEW p \in Haskell PROVE SnapshotOrder(p)'
      BY <1>2, <2>1 DEF Notify
    <2> QED
      BY <2>2, <2>3, <2>4
  <1>3. CASE Forward
    <2>1. Queued = NoEvent /\ Queued' = coalesced /\ coalesced' = NoEvent
      BY <1>3 DEF Forward
    <2>2. Expected'
      BY <1>3 DEF Forward
    <2>3. Publishing'
      BY <1>3, <2>1 DEF Forward
    <2>4. ASSUME NEW p \in Haskell PROVE SnapshotOrder(p)'
      BY <1>3, <2>1 DEF Forward
    <2> QED
      BY <2>2, <2>3, <2>4
  <1>4. CASE TaskStart
    <2>1. mpc \in {"dispatch", "awaitTask"} /\ opc' \in {"hooks", "reload", "publish"}
      BY <1>4 DEF TaskStart, EventAtHand
    <2>2. Expected'
      BY <1>4, <2>1 DEF TaskStart
    <2>3. Publishing'
      BY <1>4, <2>1 DEF TaskStart
    <2>4. ASSUME NEW p \in Haskell PROVE SnapshotOrder(p)'
      BY <1>4 DEF TaskStart
    <2> QED
      BY <2>2, <2>3, <2>4
  <1>5. CASE Compile
    <2>1. Expected'
      BY <1>5 DEF Compile, Goto
    <2>2. Publishing'
      BY <1>5 DEF Compile, Goto
    <2>3. ASSUME NEW p \in Haskell PROVE SnapshotOrder(p)'
      BY <1>5 DEF Compile, Goto
    <2> QED
      BY <2>1, <2>2, <2>3
  <1>6. CASE CompileBroken
    <2>1. Expected'
      BY <1>6 DEF CompileBroken
    <2>2. Publishing'
      BY <1>6 DEF CompileBroken
    <2>3. ASSUME NEW p \in Haskell PROVE SnapshotOrder(p)'
      BY <1>6 DEF CompileBroken
    <2> QED
      BY <2>1, <2>2, <2>3
  <1>7. CASE Publish
    <2>1. Stale # {} => \A p \in Haskell : coalesced' # NoEvent /\ coalesced'.snapshot[p] = disk[p]
      <3>1. EventAbout(Stale) \in Event /\ EventAbout(Stale).snapshot = [p \in Haskell |-> disk[p]]
        BY EventAboutType DEF EventAbout, QueuesTypeOK
      <3>2. Stale # {} => coalesced' \in Event /\ coalesced'.snapshot = EventAbout(Stale).snapshot
        BY <1>7, <3>1, MergeOptionType
           DEF Publish, PublishOrFollowUp, QueuesTypeOK, merge_option, merge
      <3> QED
        BY <3>1, <3>2, OptionsDistinct
    <2>2. Stale = {} => coalesced' = coalesced
      BY <1>7 DEF Publish, PublishOrFollowUp
    <2>3. disk' = disk /\ Queued' = Queued /\ pending' = pending /\ loaded' = loaded
              /\ result' = result /\ mpc' = mpc /\ current' = current
      BY <1>7 DEF Publish, PublishOrFollowUp, Goto
    <2>4. Expected'
      BY <1>7 DEF Publish, PublishOrFollowUp, Goto
    <2>5. Publishing'
      <3>1. CASE Stale = {}
        BY <1>7, <2>3, <3>1 DEF Publish, PublishOrFollowUp, Goto
      <3>2. CASE Stale # {} /\ ~Replacing
        <4>1. PICK p \in Haskell : expected # NoSnapshot /\ expected[p] # disk[p]
          BY <3>2 DEF Stale
        <4>2. mpc = "dispatch" /\ expected = current.snapshot
          BY <3>2, <4>1
        <4>3. FollowUp(p)'
          BY <2>1, <2>3, <3>2, <4>1, <4>2
        <4> QED
          BY <4>3
      <3>3. CASE Stale # {} /\ Replacing
        <4>1. opc = "publish" /\ opc' = "end"
          BY <1>7, <3>3 DEF Publish, PublishOrFollowUp, Goto
        <4> QED
          BY <2>3, <3>3, <4>1
      <3> QED
        BY <3>1, <3>2, <3>3
    <2>6. ASSUME NEW p \in Haskell PROVE SnapshotOrder(p)'
      BY <2>1, <2>2, <2>3
    <2> QED
      BY <2>4, <2>5, <2>6
  <1>8. CASE RunHooks
    <2>1. Expected'
      BY <1>8 DEF RunHooks, Goto, End
    <2>2. Publishing'
      BY <1>8 DEF RunHooks, Goto, End
    <2>3. ASSUME NEW p \in Haskell PROVE SnapshotOrder(p)'
      BY <1>8 DEF RunHooks, Goto, End
    <2> QED
      BY <2>1, <2>2, <2>3
  <1>9. CASE Stop
    <2>1. Expected'
      BY <1>9 DEF Stop, Goto
    <2>2. Publishing'
      BY <1>9 DEF Stop, Goto
    <2>3. ASSUME NEW p \in Haskell PROVE SnapshotOrder(p)'
      BY <1>9 DEF Stop, Goto
    <2> QED
      BY <2>1, <2>2, <2>3
  <1>10. CASE StopResult
    <2>1. Expected'
      BY <1>10 DEF StopResult, Goto, End
    <2>2. Publishing'
      BY <1>10 DEF StopResult, Goto, End
    <2>3. ASSUME NEW p \in Haskell PROVE SnapshotOrder(p)'
      BY <1>10 DEF StopResult, Goto, End
    <2> QED
      BY <2>1, <2>2, <2>3
  <1>11. CASE Launch
    <2>1. Expected'
      BY <1>11 DEF Launch
    <2>2. Publishing'
      BY <1>11 DEF Launch
    <2>3. ASSUME NEW p \in Haskell PROVE SnapshotOrder(p)'
      BY <1>11 DEF Launch
    <2> QED
      BY <2>1, <2>2, <2>3
  <1>12. CASE CompileStuck
    <2>1. Expected'
      BY <1>12 DEF CompileStuck
    <2>2. Publishing'
      BY <1>12 DEF CompileStuck
    <2>3. ASSUME NEW p \in Haskell PROVE SnapshotOrder(p)'
      BY <1>12 DEF CompileStuck
    <2> QED
      BY <2>1, <2>2, <2>3
  <1>13. CASE HookTimeout
    <2>1. Expected'
      BY <1>13 DEF HookTimeout, End
    <2>2. Publishing'
      BY <1>13 DEF HookTimeout, End
    <2>3. ASSUME NEW p \in Haskell PROVE SnapshotOrder(p)'
      BY <1>13 DEF HookTimeout, End
    <2> QED
      BY <2>1, <2>2, <2>3
  <1>14. CASE EvalTimeout
    <2>1. Expected'
      BY <1>14 DEF EvalTimeout
    <2>2. Publishing'
      BY <1>14 DEF EvalTimeout
    <2>3. ASSUME NEW p \in Haskell PROVE SnapshotOrder(p)'
      BY <1>14 DEF EvalTimeout
    <2> QED
      BY <2>1, <2>2, <2>3
  <1>15. CASE EvalBegin
    <2>1. Expected'
      BY <1>15 DEF EvalBegin
    <2>2. Publishing'
      BY <1>15 DEF EvalBegin
    <2>3. ASSUME NEW p \in Haskell PROVE SnapshotOrder(p)'
      BY <1>15 DEF EvalBegin
    <2> QED
      BY <2>1, <2>2, <2>3
  <1>16. CASE EvalLock
    <2>1. Expected'
      BY <1>16 DEF EvalLock
    <2>2. Publishing'
      BY <1>16 DEF EvalLock
    <2>3. ASSUME NEW p \in Haskell PROVE SnapshotOrder(p)'
      BY <1>16 DEF EvalLock
    <2> QED
      BY <2>1, <2>2, <2>3
  <1>17. CASE EvalDone
    <2>1. Expected'
      BY <1>17 DEF EvalDone
    <2>2. Publishing'
      BY <1>17 DEF EvalDone
    <2>3. ASSUME NEW p \in Haskell PROVE SnapshotOrder(p)'
      BY <1>17 DEF EvalDone
    <2> QED
      BY <2>1, <2>2, <2>3
  <1>18. CASE wait_for_event
    <2>1. Queued \in Event /\ Queued # NoEvent /\ Queued = dispatchChan[1] /\ Queued' = NoEvent
      BY <1>18, OptionsDistinct DEF wait_for_event, QueuesTypeOK
    <2>2. (appliedSnap = Queued.snapshot /\ appliedSnap # NoSnapshot /\ mpc' = "wait") \/ mpc' = "start"
      BY <1>18, <2>1, OptionsDistinct DEF wait_for_event, is_applied, Event
    <2>3. current' = current \/ current'.snapshot = Queued.snapshot
      BY <1>18, <2>1 DEF wait_for_event, strip_applied, Event
    <2>4. Expected'
      BY <1>18 DEF wait_for_event
    <2>5. Publishing'
      BY <1>18, <2>1, <2>2 DEF wait_for_event
    <2>6. ASSUME NEW p \in Haskell PROVE SnapshotOrder(p)'
      BY <1>18, <2>1, <2>3 DEF wait_for_event
    <2> QED
      BY <2>4, <2>5, <2>6
  <1>19. CASE handle_event
    <2>1. Expected'
      BY <1>19 DEF handle_event, Goto
    <2>2. Publishing'
      BY <1>19 DEF handle_event, Goto
    <2>3. ASSUME NEW p \in Haskell PROVE SnapshotOrder(p)'
      BY <1>19 DEF handle_event, Goto
    <2> QED
      BY <2>1, <2>2, <2>3
  <1>20. CASE ExitWhileDispatching
    <2>1. Expected'
      BY <1>20 DEF ExitWhileDispatching, Dispatching
    <2>2. Publishing'
      BY <1>20 DEF ExitWhileDispatching, Dispatching
    <2>3. ASSUME NEW p \in Haskell PROVE SnapshotOrder(p)'
      BY <1>20 DEF ExitWhileDispatching, Dispatching
    <2> QED
      BY <2>1, <2>2, <2>3
  <1>21. CASE Accumulate
    <2>1. Queued \in Event /\ Queued # NoEvent /\ Queued = dispatchChan[1] /\ Queued' = NoEvent
      BY <1>21, OptionsDistinct DEF Accumulate, QueuesTypeOK
    <2>2. pending' \in Event /\ pending' # NoEvent /\ pending'.snapshot = Queued.snapshot
      BY <1>21, <2>1, MergeOptionType, OptionsDistinct DEF Accumulate, Received, ManagerTypeOK,
         merge_option, merge
    <2>3. Expected'
      BY <1>21 DEF Accumulate, Dispatching
    <2>4. Publishing'
      BY <1>21, <2>1, <2>2 DEF Accumulate, Dispatching
    <2>5. ASSUME NEW p \in Haskell PROVE SnapshotOrder(p)'
      BY <1>21, <2>1, <2>2 DEF Accumulate, Dispatching
    <2> QED
      BY <2>3, <2>4, <2>5
  <1>22. CASE InterruptSucceeds
    <2>0. Queued # NoEvent /\ Queued \in Event /\ Queued' = NoEvent /\ current \in Event
      BY <1>22, OptionsDistinct DEF InterruptSucceeds, Interrupt, Dispatching, EventAtHand,
         QueuesTypeOK, ManagerTypeOK
    <2>1. Queued # NoEvent /\ Queued \in Event /\ Queued' = NoEvent /\ current \in Event
              /\ Received \in Event /\ Received.snapshot = Queued.snapshot
      BY <2>0, MergeOptionType, OptionsDistinct DEF EventAtHand, Received, ManagerTypeOK,
         merge_option, merge
    <2>2. current'.snapshot = Queued.snapshot
      BY <1>22, <2>1 DEF InterruptSucceeds, Interrupt, merge
    <2>3. Expected'
      BY <1>22 DEF InterruptSucceeds, Interrupt, Dispatching, Deciding
    <2>4. Publishing'
      BY <1>22 DEF InterruptSucceeds, Interrupt, Dispatching, Deciding
    <2>5. ASSUME NEW p \in Haskell PROVE SnapshotOrder(p)'
      BY <1>22, <2>1, <2>2 DEF InterruptSucceeds, Interrupt, Dispatching, Deciding
    <2> QED
      BY <2>3, <2>4, <2>5
  <1>23. CASE InterruptFails
    <2>0. Queued # NoEvent /\ Queued \in Event /\ Queued' = NoEvent /\ current \in Event
      BY <1>23, OptionsDistinct DEF InterruptFails, Interrupt, Dispatching, EventAtHand,
         QueuesTypeOK, ManagerTypeOK
    <2>1. Queued # NoEvent /\ Queued \in Event /\ Queued' = NoEvent /\ current \in Event
              /\ Received \in Event /\ Received.snapshot = Queued.snapshot
      BY <2>0, MergeOptionType, OptionsDistinct DEF EventAtHand, Received, ManagerTypeOK,
         merge_option, merge
    <2>2. pending' = current' /\ current'.snapshot = Queued.snapshot
      BY <1>23, <2>1 DEF InterruptFails, Interrupt, merge
    <2>3. Expected'
      BY <1>23 DEF InterruptFails, Interrupt, Dispatching, Deciding
    <2>4. Publishing'
      BY <1>23 DEF InterruptFails, Interrupt, Dispatching, Deciding
    <2>5. ASSUME NEW p \in Haskell PROVE SnapshotOrder(p)'
      BY <1>23, <2>1, <2>2 DEF InterruptFails, Interrupt, Dispatching, Deciding
    <2> QED
      BY <2>3, <2>4, <2>5
  <1>24. CASE FinishInterrupted
    <2>1. Expected'
      BY <1>24 DEF FinishInterrupted
    <2>2. Publishing'
      BY <1>24 DEF FinishInterrupted
    <2>3. ASSUME NEW p \in Haskell PROVE SnapshotOrder(p)'
      BY <1>24 DEF FinishInterrupted
    <2> QED
      BY <2>1, <2>2, <2>3
  <1>25. CASE TaskEnded
    <2>1. current \in Event /\ current # NoEvent /\ current.snapshot # NoSnapshot
      BY <1>25, OptionsDistinct DEF TaskEnded, Dispatching, EventAtHand, Event
    <2>2. \/ pending' = pending
          \/ pending' = current
          \/ pending # NoEvent /\ pending'.snapshot = pending.snapshot
      BY <1>25, <2>1 DEF TaskEnded, SessionLost, preserve_recovery_event, merge
    <2>3. Expected'
      BY <1>25 DEF TaskEnded, Goto, Dispatching, SessionLost, preserve_recovery_event
    <2>4. Publishing'
      BY <1>25, <2>1 DEF TaskEnded, Goto, Dispatching, SessionLost, preserve_recovery_event
    <2>5. ASSUME NEW p \in Haskell PROVE SnapshotOrder(p)'
      BY <1>25, <2>1, <2>2 DEF TaskEnded
    <2> QED
      BY <2>3, <2>4, <2>5
  <1>26. CASE TaskEndedAfterExit
    <2>1. current \in Event /\ current # NoEvent /\ current.snapshot # NoSnapshot
      BY <1>26, OptionsDistinct DEF TaskEndedAfterExit, EventAtHand, Event
    <2>2. \/ pending' = pending
          \/ pending' = current
          \/ pending # NoEvent /\ pending'.snapshot = pending.snapshot
      BY <1>26, <2>1 DEF TaskEndedAfterExit, SessionLost, preserve_recovery_event, merge
    <2>3. Expected'
      BY <1>26 DEF TaskEndedAfterExit, Goto, SessionLost, preserve_recovery_event
    <2>4. Publishing'
      BY <1>26, <2>1 DEF TaskEndedAfterExit, Goto, SessionLost, preserve_recovery_event
    <2>5. ASSUME NEW p \in Haskell PROVE SnapshotOrder(p)'
      BY <1>26, <2>1, <2>2 DEF TaskEndedAfterExit
    <2> QED
      BY <2>3, <2>4, <2>5
  <1>27. CASE ReceiveStatus
    <2>1. Expected'
      BY <1>27 DEF ReceiveStatus
    <2>2. Publishing'
      BY <1>27 DEF ReceiveStatus
    <2>3. ASSUME NEW p \in Haskell PROVE SnapshotOrder(p)'
      BY <1>27 DEF ReceiveStatus
    <2> QED
      BY <2>1, <2>2, <2>3
  <1>28. CASE DrainPending
    <2>1. /\ disk' = disk /\ notified' = notified /\ coalesced' = coalesced /\ appliedSnap' = appliedSnap
          /\ pending' = NoEvent /\ published' = published /\ loaded' = loaded /\ mpc = "drain"
          /\ opc' = opc /\ result' = result /\ Queued' \in {Queued, NoEvent}
      BY <1>28 DEF DrainPending
    <2>2. \/ pending = NoEvent /\ mpc' = "wait" /\ Queued' = Queued
          \/ mpc' = "start"
          \/ /\ pending # NoEvent /\ mpc' = "wait" /\ appliedSnap # NoSnapshot
             /\ appliedSnap = IF Queued = NoEvent THEN pending.snapshot ELSE Queued.snapshot
      <3>1. Queued = NoEvent <=> dispatchChan = <<>>
        BY OptionsDistinct DEF QueuesTypeOK
      <3>2. pending # NoEvent => drain_pending(pending, dispatchChan).snapshot =
                                   IF Queued = NoEvent THEN pending.snapshot ELSE Queued.snapshot
        BY <3>1 DEF drain_pending, merge
      <3>3. pending # NoEvent => drain_pending(pending, dispatchChan).snapshot # NoSnapshot
        <4>1. pending # NoEvent => drain_pending(pending, dispatchChan) \in Event
          BY DrainType DEF ManagerTypeOK, QueuesTypeOK, OptionEvent
        <4> QED
          BY <4>1, OptionsDistinct DEF Event
      <3> QED
        BY <1>28, <3>2, <3>3 DEF DrainPending, is_applied
    <2>3. Expected'
      BY <1>28 DEF DrainPending
    <2>4. Publishing'
      BY <2>1, <2>2
    <2>5. ASSUME NEW p \in Haskell PROVE SnapshotOrder(p)'
      <3>1. \/ current' = NoEvent
            \/ pending # NoEvent
                      /\ current'.snapshot = (IF Queued = NoEvent THEN pending.snapshot ELSE Queued.snapshot)
        <4>1. Queued = NoEvent <=> dispatchChan = <<>>
          BY OptionsDistinct DEF QueuesTypeOK
        <4>2. drain_pending(pending, dispatchChan).snapshot = (IF Queued = NoEvent THEN pending.snapshot ELSE Queued.snapshot)
          BY <4>1 DEF drain_pending, merge
        <4>3. pending # NoEvent => drain_pending(pending, dispatchChan) \in Event
          BY DrainType DEF ManagerTypeOK, QueuesTypeOK, OptionEvent
        <4> QED
          BY <1>28, <4>2, <4>3, StripFacts DEF DrainPending, strip_applied, Event
      <3> QED
        BY <1>28, <2>1, <3>1 DEF DrainPending
    <2> QED
      BY <2>3, <2>4, <2>5
  <1>29. CASE ExitWhileWaiting
    <2>1. Expected'
      BY <1>29 DEF ExitWhileWaiting
    <2>2. Publishing'
      BY <1>29 DEF ExitWhileWaiting
    <2>3. ASSUME NEW p \in Haskell PROVE SnapshotOrder(p)'
      BY <1>29 DEF ExitWhileWaiting
    <2> QED
      BY <2>1, <2>2, <2>3
  <1>30. CASE restart_after_recovery_kill
    <2>1. Expected'
      BY <1>30 DEF restart_after_recovery_kill, Goto
    <2>2. Publishing'
      BY <1>30 DEF restart_after_recovery_kill, Goto
    <2>3. ASSUME NEW p \in Haskell PROVE SnapshotOrder(p)'
      BY <1>30 DEF restart_after_recovery_kill, Goto
    <2> QED
      BY <2>1, <2>2, <2>3
  <1>31. CASE Recovered
    <2>1. Expected'
      BY <1>31 DEF Recovered, Goto
    <2>2. Publishing'
      BY <1>31 DEF Recovered, Goto
    <2>3. ASSUME NEW p \in Haskell PROVE SnapshotOrder(p)'
      BY <1>31 DEF Recovered, Goto
    <2> QED
      BY <2>1, <2>2, <2>3
  <1>32. CASE wait_and_restart
    <2>1. Expected'
      BY <1>32 DEF wait_and_restart
    <2>2. Publishing'
      BY <1>32 DEF wait_and_restart
    <2>3. ASSUME NEW p \in Haskell PROVE SnapshotOrder(p)'
      BY <1>32 DEF wait_and_restart
    <2> QED
      BY <2>1, <2>2, <2>3
  <1>33. CASE ReceiveWhileRetrying
    <2>1. Expected'
      BY <1>33 DEF ReceiveWhileRetrying
    <2>2. Publishing'
      BY <1>33 DEF ReceiveWhileRetrying
    <2>3. ASSUME NEW p \in Haskell PROVE SnapshotOrder(p)'
      BY <1>33 DEF ReceiveWhileRetrying
    <2> QED
      BY <2>1, <2>2, <2>3
  <1>34. CASE DelayOver
    <2>1. Expected'
      BY <1>34 DEF DelayOver
    <2>2. Publishing'
      BY <1>34 DEF DelayOver
    <2>3. ASSUME NEW p \in Haskell PROVE SnapshotOrder(p)'
      BY <1>34 DEF DelayOver
    <2> QED
      BY <2>1, <2>2, <2>3
  <1>35. CASE CheckChanged
    <2>1. Expected'
      BY <1>35 DEF CheckChanged
    <2>2. Publishing'
      BY <1>35 DEF CheckChanged
    <2>3. ASSUME NEW p \in Haskell PROVE SnapshotOrder(p)'
      BY <1>35 DEF CheckChanged
    <2> QED
      BY <2>1, <2>2, <2>3
  <1>36. CASE startup_restart
    <2>1. Expected'
      BY <1>36 DEF startup_restart, Goto
    <2>2. Publishing'
      BY <1>36 DEF startup_restart, Goto
    <2>3. ASSUME NEW p \in Haskell PROVE SnapshotOrder(p)'
      BY <1>36 DEF startup_restart, Goto
    <2> QED
      BY <2>1, <2>2, <2>3
  <1>37. CASE ReplacementEnded
    <2>1. Expected'
      BY <1>37 DEF ReplacementEnded, Goto
    <2>2. Publishing'
      BY <1>37 DEF ReplacementEnded, Goto
    <2>3. ASSUME NEW p \in Haskell PROVE SnapshotOrder(p)'
      BY <1>37 DEF ReplacementEnded, Goto
    <2> QED
      BY <2>1, <2>2, <2>3
  <1>38. CASE ReplacementDied
    <2>1. Expected'
      BY <1>38 DEF ReplacementDied
    <2>2. Publishing'
      BY <1>38 DEF ReplacementDied
    <2>3. ASSUME NEW p \in Haskell PROVE SnapshotOrder(p)'
      BY <1>38 DEF ReplacementDied
    <2> QED
      BY <2>1, <2>2, <2>3
  <1>39. CASE StopForShutdown
    <2>1. Expected'
      BY <1>39 DEF StopForShutdown, Goto
    <2>2. Publishing'
      BY <1>39 DEF StopForShutdown, Goto
    <2>3. ASSUME NEW p \in Haskell PROVE SnapshotOrder(p)'
      BY <1>39 DEF StopForShutdown, Goto
    <2> QED
      BY <2>1, <2>2, <2>3
  <1>40. CASE SessionStopped
    <2>1. Expected'
      BY <1>40 DEF SessionStopped
    <2>2. Publishing'
      BY <1>40 DEF SessionStopped
    <2>3. ASSUME NEW p \in Haskell PROVE SnapshotOrder(p)'
      BY <1>40 DEF SessionStopped
    <2> QED
      BY <2>1, <2>2, <2>3
  <1>41. CASE ReturnForShutdown
    <2>1. Expected'
      BY <1>41 DEF ReturnForShutdown, Goto
    <2>2. Publishing'
      BY <1>41 DEF ReturnForShutdown, Goto
    <2>3. ASSUME NEW p \in Haskell PROVE SnapshotOrder(p)'
      BY <1>41 DEF ReturnForShutdown, Goto
    <2> QED
      BY <2>1, <2>2, <2>3
  <1>42. CASE RequestShutdown
    <2>1. Expected'
      BY <1>42 DEF RequestShutdown
    <2>2. Publishing'
      BY <1>42 DEF RequestShutdown
    <2>3. ASSUME NEW p \in Haskell PROVE SnapshotOrder(p)'
      BY <1>42 DEF RequestShutdown
    <2> QED
      BY <2>1, <2>2, <2>3
  <1>43. ASSUME NEW s \in Session, Crash(s) PROVE PublishInv'
    <2>1. Expected'
      BY <1>43 DEF Crash
    <2>2. Publishing'
      BY <1>43 DEF Crash
    <2>3. ASSUME NEW p \in Haskell PROVE SnapshotOrder(p)'
      BY <1>43 DEF Crash
    <2> QED
      BY <2>1, <2>2, <2>3
  <1>44. ASSUME NEW s \in Session, ProcessStop(s) PROVE PublishInv'
    <2>1. Expected'
      BY <1>44 DEF ProcessStop
    <2>2. Publishing'
      BY <1>44 DEF ProcessStop
    <2>3. ASSUME NEW p \in Haskell PROVE SnapshotOrder(p)'
      BY <1>44 DEF ProcessStop
    <2> QED
      BY <2>1, <2>2, <2>3
  <1>45. ASSUME NEW s \in Session, ProcessExited(s) PROVE PublishInv'
    <2>1. Expected'
      BY <1>45 DEF ProcessExited
    <2>2. Publishing'
      BY <1>45 DEF ProcessExited
    <2>3. ASSUME NEW p \in Haskell PROVE SnapshotOrder(p)'
      BY <1>45 DEF ProcessExited
    <2> QED
      BY <2>1, <2>2, <2>3
  <1>46. ASSUME NEW s \in Session, Watchdog(s) PROVE PublishInv'
    <2>1. Expected'
      BY <1>46 DEF Watchdog
    <2>2. Publishing'
      BY <1>46 DEF Watchdog
    <2>3. ASSUME NEW p \in Haskell PROVE SnapshotOrder(p)'
      BY <1>46 DEF Watchdog
    <2> QED
      BY <2>1, <2>2, <2>3
  <1>47. ASSUME NEW s \in Session, SendExit(s) PROVE PublishInv'
    <2>1. Expected'
      BY <1>47 DEF SendExit
    <2>2. Publishing'
      BY <1>47 DEF SendExit
    <2>3. ASSUME NEW p \in Haskell PROVE SnapshotOrder(p)'
      BY <1>47 DEF SendExit
    <2> QED
      BY <2>1, <2>2, <2>3
  <1>48. CASE UNCHANGED vars
    BY <1>48 DEF vars
  <1> QED
    BY <1>1, <1>2, <1>3, <1>4, <1>5, <1>6, <1>7, <1>8, <1>9, <1>10, <1>11, <1>12, <1>13, <1>14,
       <1>15, <1>16, <1>17, <1>18, <1>19, <1>20, <1>21, <1>22, <1>23, <1>24, <1>25, <1>26,
       <1>27, <1>28, <1>29, <1>30, <1>31, <1>32, <1>33, <1>34, <1>35, <1>36, <1>37, <1>38,
       <1>39, <1>40, <1>41, <1>42, <1>43, <1>44, <1>45, <1>46, <1>47, <1>48 DEF Next,
       UserNext, WatcherNext, ManagerNext, OperationNext, StuckNext, EvalNext, ProcessNext,
       FailureNext

\* Theorem: as long as no hook is a GHCi command, the error log is about the files that
\* are loaded whenever everything is at rest: a publication that the validator
\* suppresses is always made up for (finish_compilation, publication_snapshot).
\* With GHCi hooks that is not so; see the run recovery_unpublished.
THEOREM PublicationCatchesUp ==
    ASSUME ~GhciHooks PROVE Spec => []QuiescentPublished
  <1>1. TypeInv /\ LoadInv /\ PublishInv => QuiescentPublished
    <2> SUFFICES ASSUME TypeInv, LoadInv, PublishInv, AtRest PROVE published = loaded
      BY DEF QuiescentPublished
    <2>1. /\ notified = {} /\ coalesced = NoEvent /\ Queued = NoEvent /\ mpc = "wait" /\ opc = "idle"
      BY DEF AtRest, Quiet, Queued, LoadInv, Busy
    <2> QED
      BY <2>1 DEF PublishInv, Publishing, Replacing, FollowUp, ShowsNow, Before
  <1>2. TypeInv /\ LoadInv /\ PublishInv /\ [Next]_vars => PublishInv'
    BY PublishNext
  <1> QED
    BY TypeInit, TypeNext, LoadInit, LoadNext, PublishInit, <1>1, <1>2, PTL DEF Spec
=============================================================================
