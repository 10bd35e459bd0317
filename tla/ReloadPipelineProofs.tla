------------------------ MODULE ReloadPipelineProofs ------------------------
(***************************************************************************)
(* Type correctness of ReloadPipeline for every value of its constants.    *)
(***************************************************************************)
EXTENDS ReloadPipeline, WatcherEventProofs, SequenceTheorems, TLAPS

\* A sender starts from an event with no hint and no state (send_event).
LEMMA BlankEventType ==
    ASSUME NEW s \in SourceSnapshot PROVE BlankEvent(s) \in Event
  BY DEF BlankEvent, Event

\* get_reload_actions only ever adds or removes sources that may be targets, for
\* every combination of --no-auto-reload, --restart-on-add and --replace-auto-add-shell.
LEMMA ActionsType ==
    ASSUME NEW h \in [Path -> {"none", "modify", "remove"}], NEW f \in SUBSET Haskell,
           NEW k \in SUBSET Haskell, NEW t \in SUBSET Source, NEW b \in BOOLEAN
    PROVE  get_reload_actions(h, f, k, t, b) \in Actions
  <1> DEFINE ev == reconcile(h, f)
             c  == classify(ev, t)
  <1>1. c \in Actions
    BY DEF classify, Actions, Path, Restarting
  <1> QED
    BY <1>1 DEF get_reload_actions, Actions, Path, Haskell

-----------------------------------------------------------------------------
(***************************************************************************)
(* Type correctness.  TypeOK is not inductive: the manager and the task    *)
(* dereference optional values, so Shape records where they are present.   *)
(***************************************************************************)
Working == {"before", "remove", "add", "commit", "restart", "sync", "compile",
            "finish", "validate"}

Shape ==
    /\ mpc # "wait" => current \in Event
    /\ mpc \in {"deciding", "abort"} => incoming \in Event
    /\ mpc \in {"wait", "start"} => tpc = "idle"
    /\ tpc \in Working => expected = current.snapshot
    /\ sender["validator"].pc # "idle" => vqueue # <<>>

TypeInv == TypeOK /\ Shape

\* What is left of a queue of requests once one is answered.
LEMMA TailType == ASSUME NEW q \in Seq(Request), q # <<>> PROVE Tail(q) \in Seq(Request)
OBVIOUS

\* Startup (run_ghci up to the manager loop) establishes the types.
LEMMA TypeInit == Init => TypeInv
  <1> SUFFICES ASSUME Init PROVE TypeInv
    OBVIOUS
  <1>1. [p \in Haskell |-> Missing] \in SourceSnapshot
    BY DEF SourceSnapshot, FileState
  <1>2. BlankEvent([p \in Haskell |-> Missing]) \in Event
    BY <1>1, BlankEventType
  <1>3. sender \in [Senders -> SenderState] /\ sender["validator"].pc = "idle"
    BY <1>2 DEF Init, SenderState, Senders
  <1>4. /\ targets \in SUBSET Source /\ gtargets \in SUBSET Source
        /\ loaded \in [Path -> FileState] /\ disk \in [Path -> FileState]
    BY PipelineConstants DEF Init, FileState
  <1>5. published \in ErrorLog
    BY <1>4 DEF Init, ErrorLog, SourceSnapshot, CompileResult, Path, Haskell
  <1>6. acts \in Actions
    BY DEF Init, NoActions, Actions
  <1>7. FilesTypeOK
    BY DEF Init, FilesTypeOK
  <1>8. QueuesTypeOK
    <2>1. /\ vqueue = <<>> /\ ghciChan = <<>> /\ dispatchChan = <<>>
          /\ coalesced \in OptionEvent
      BY DEF Init, OptionEvent
    <2>2. <<>> \in Seq(Request) /\ <<>> \in Seq(Event) /\ Len(<<>>) = 0
      OBVIOUS
    <2> QED
      BY <1>3, <2>1, <2>2 DEF QueuesTypeOK
  <1>9. ManagerTypeOK
    BY DEF Init, ManagerTypeOK, OptionEvent
  <1>10. TaskTypeOK
    BY <1>6 DEF Init, TaskTypeOK
  <1>11. GhciTypeOK
    BY <1>4, <1>5 DEF Init, GhciTypeOK
  <1> QED
    BY <1>3, <1>7, <1>8, <1>9, <1>10, <1>11 DEF Init, TypeInv, TypeOK, Shape, Working

\* Every step of the watcher, the coalescer, the manager and the dispatch task
\* keeps the types and the presence of the optional values it dereferences.
LEMMA TypeNext == TypeInv /\ [Next]_vars => TypeInv'
  <1> SUFFICES ASSUME TypeInv, [Next]_vars PROVE TypeInv'
    OBVIOUS
  <1> USE DEF TypeInv, TypeOK, envVars, watcherVars, queueVars, managerVars, taskVars, ghciVars
  <1>1. ASSUME NEW p \in Path, NEW s \in FileState, Edit(p, s)
        PROVE  TypeInv'
    BY <1>1 DEF Edit, Shape, Working, FilesTypeOK, QueuesTypeOK, ManagerTypeOK, TaskTypeOK,
       GhciTypeOK
  <1>2. ASSUME NEW batch \in SUBSET Path, DeliverBatch(batch)
        PROVE  TypeInv'
    BY <1>2, BlankEventType DEF DeliverBatch, SetSender, Senders, SenderState, SourceSnapshot,
       FileState, Shape, Working, FilesTypeOK, QueuesTypeOK, ManagerTypeOK, TaskTypeOK,
       GhciTypeOK
  <1>3. ASSUME NEW p \in Path, observe(p)
        PROVE  TypeInv'
    <2>1. sender["handler"] \in SenderState
      BY DEF QueuesTypeOK, Senders
    <2>2. disk[p] \in FileState
      BY DEF FilesTypeOK
    <2>3. EventKind(disk[p]) \in {"none", "modify", "remove"}
      BY DEF EventKind
    <2>4. sender' \in [Senders -> SenderState]
      BY <1>3, <2>1, <2>3 DEF QueuesTypeOK, observe, SetSender, Senders, SenderState, Event
    <2>5. ManagerTypeOK' /\ TaskTypeOK' /\ GhciTypeOK'
      BY <1>3 DEF observe, ManagerTypeOK, TaskTypeOK, GhciTypeOK
    <2>6. FilesTypeOK'
      BY <1>3, <2>1, <2>2, <2>3, <2>4 DEF FilesTypeOK, observe, OptionEvent
    <2>7. QueuesTypeOK'
      BY <1>3, <2>1, <2>2, <2>3, <2>4 DEF QueuesTypeOK, observe, OptionEvent
    <2>8. Shape'
      BY <1>3, <2>1, <2>2, <2>3, <2>4 DEF QueuesTypeOK, Shape, Working, observe, Done,
         SetSender, Senders, Submit
    <2> QED
      BY <2>5, <2>6, <2>7, <2>8
  <1>4. CASE TakeValidation
    <2>1. [p \in Haskell |-> Missing] \in SourceSnapshot
      BY DEF SourceSnapshot, FileState
    <2>2. BlankEvent([p \in Haskell |-> Missing]) \in Event
      BY <2>1, BlankEventType
    <2>3. sender' \in [Senders -> SenderState]
      BY <1>4, <2>2 DEF QueuesTypeOK, TakeValidation, SetSender, Senders, SenderState, Path,
         Haskell
    <2>4. FilesTypeOK' /\ ManagerTypeOK' /\ TaskTypeOK' /\ GhciTypeOK'
      BY <1>4 DEF TakeValidation, FilesTypeOK, ManagerTypeOK, TaskTypeOK, GhciTypeOK
    <2>5. QueuesTypeOK'
      BY <1>4, <2>1, <2>2, <2>3 DEF QueuesTypeOK, TakeValidation, OptionEvent
    <2>6. Shape'
      BY <1>4, <2>1, <2>2, <2>3 DEF QueuesTypeOK, Shape, Working, TakeValidation, Done,
         SetSender, Senders, Submit
    <2> QED
      BY <2>4, <2>5, <2>6
  <1>5. ASSUME NEW p \in Haskell, validate_source_snapshot(p)
        PROVE  TypeInv'
    <2>1. sender["validator"] \in SenderState /\ p \in Path
      BY DEF QueuesTypeOK, Senders, Path, Haskell
    <2>2. EventKind(disk[p]) \in {"none", "modify", "remove"}
      BY DEF EventKind
    <2>3. sender' \in [Senders -> SenderState]
      BY <1>5, <2>1, <2>2 DEF QueuesTypeOK, validate_source_snapshot, SetSender, Senders,
         SenderState, Event
    <2>4. FilesTypeOK' /\ ManagerTypeOK' /\ TaskTypeOK' /\ GhciTypeOK'
      BY <1>5 DEF validate_source_snapshot, FilesTypeOK, ManagerTypeOK, TaskTypeOK, GhciTypeOK
    <2>5. QueuesTypeOK'
      BY <1>5, <2>1, <2>2, <2>3 DEF QueuesTypeOK, validate_source_snapshot, OptionEvent
    <2>6. Shape'
      BY <1>5, <2>1, <2>2, <2>3 DEF QueuesTypeOK, Shape, Working, validate_source_snapshot,
         Done, SetSender, Senders, Submit
    <2> QED
      BY <2>4, <2>5, <2>6
  <1>6. ASSUME NEW s \in Senders, LookDone(s)
        PROVE  TypeInv'
    <2>1. sender[s] \in SenderState /\ Hints(sender[s].event) \in SUBSET Path
      BY <1>6 DEF QueuesTypeOK, Hints
    <2>2. [sender[s] EXCEPT !.pc = "idle"] \in SenderState /\ [sender[s] EXCEPT !.pc = "states",
       !.todo = Hints(sender[s].event)] \in SenderState
      BY <2>1 DEF SenderState
    <2>3. s = "validator" => vqueue # <<>>
      BY <1>6 DEF Shape, LookDone, Done
    <2>4. vqueue' = vqueue \/ (vqueue # <<>> /\ vqueue' = Tail(vqueue))
      BY <1>6, <2>3 DEF LookDone, Answer
    <2>5. vqueue' \in Seq(Request)
      BY <2>4, TailType DEF QueuesTypeOK
    <2>6. reply' \in {"none", "current", "superseded"}
      BY <1>6 DEF TaskTypeOK, LookDone, Answer
    <2>7. sender'["validator"].pc # "idle" => vqueue' # <<>>
      BY <1>6, <2>1, <2>3 DEF QueuesTypeOK, Shape, LookDone, Done, SetSender, Senders,
         SenderState
    <2>8. sender' \in [Senders -> SenderState]
      BY <1>6, <2>2 DEF QueuesTypeOK, LookDone, SetSender
    <2>9. FilesTypeOK' /\ ManagerTypeOK' /\ GhciTypeOK'
      BY <1>6 DEF LookDone, FilesTypeOK, ManagerTypeOK, GhciTypeOK
    <2>10. QueuesTypeOK'
      BY <1>6, <2>1, <2>2, <2>3, <2>4, <2>5, <2>6, <2>7, <2>8 DEF QueuesTypeOK, LookDone,
         OptionEvent
    <2>11. TaskTypeOK'
      BY <1>6, <2>1, <2>2, <2>3, <2>4, <2>5, <2>6, <2>7, <2>8 DEF TaskTypeOK, LookDone,
         OptionEvent
    <2>12. Shape'
      BY <1>6, <2>1, <2>2, <2>3, <2>4, <2>5, <2>6, <2>7, <2>8 DEF QueuesTypeOK, Shape, Working,
         LookDone, Done, SetSender, Senders, Submit
    <2> QED
      BY <2>9, <2>10, <2>11, <2>12
  <1>7. ASSUME NEW s \in Senders, StartScan(s)
        PROVE  TypeInv'
    <2>1. sender[s] \in SenderState
      BY <1>7 DEF QueuesTypeOK
    <2>2. sender' \in [Senders -> SenderState]
      BY <1>7, <2>1 DEF QueuesTypeOK, StartScan, SetSender, SenderState, Path, Haskell
    <2>3. FilesTypeOK' /\ ManagerTypeOK' /\ TaskTypeOK' /\ GhciTypeOK'
      BY <1>7 DEF StartScan, FilesTypeOK, ManagerTypeOK, TaskTypeOK, GhciTypeOK
    <2>4. QueuesTypeOK'
      BY <1>7, <2>1, <2>2 DEF QueuesTypeOK, StartScan, OptionEvent
    <2>5. Shape'
      BY <1>7, <2>1, <2>2 DEF QueuesTypeOK, Shape, Working, StartScan, Done, SetSender, Senders,
         Submit
    <2> QED
      BY <2>3, <2>4, <2>5
  <1>8. ASSUME NEW s \in Senders, send_event(s)
        PROVE  TypeInv'
    <2>1. sender[s] \in SenderState
      BY <1>8 DEF QueuesTypeOK
    <2>2. sender' \in [Senders -> SenderState]
      BY <1>8, <2>1 DEF QueuesTypeOK, send_event, SetSender, SenderState
    <2>3. s = "validator" => vqueue # <<>>
      BY <1>8 DEF Shape, send_event, Done
    <2>4. vqueue' = vqueue \/ (vqueue # <<>> /\ vqueue' = Tail(vqueue))
      BY <1>8, <2>3 DEF send_event, Answer
    <2>5. vqueue' \in Seq(Request)
      BY <2>4, TailType DEF QueuesTypeOK
    <2>6. reply' \in {"none", "current", "superseded"}
      BY <1>8 DEF TaskTypeOK, send_event, Answer
    <2>7. ghciChan' \in Seq(Event)
      BY <1>8, <2>1 DEF QueuesTypeOK, send_event, SenderState
    <2>8. FilesTypeOK' /\ ManagerTypeOK' /\ GhciTypeOK'
      BY <1>8 DEF send_event, FilesTypeOK, ManagerTypeOK, GhciTypeOK
    <2>9. QueuesTypeOK'
      BY <1>8, <2>1, <2>2, <2>3, <2>4, <2>5, <2>6, <2>7 DEF QueuesTypeOK, send_event,
         OptionEvent
    <2>10. TaskTypeOK'
      BY <1>8, <2>1, <2>2, <2>3, <2>4, <2>5, <2>6, <2>7 DEF TaskTypeOK, send_event, OptionEvent
    <2>11. Shape'
      BY <1>8, <2>1, <2>2, <2>3, <2>4, <2>5, <2>6, <2>7 DEF QueuesTypeOK, Shape, Working,
         send_event, Done, SetSender, Senders, Submit
    <2> QED
      BY <2>8, <2>9, <2>10, <2>11
  <1>9. ASSUME NEW s \in Senders, NEW p \in Path, CaptureState(s, p)
        PROVE  TypeInv'
    <2>1. sender[s] \in SenderState
      BY <1>9 DEF QueuesTypeOK
    <2>2. sender' \in [Senders -> SenderState]
      BY <1>9, <2>1 DEF QueuesTypeOK, FilesTypeOK, CaptureState, SetSender, SenderState, Event
    <2>3. FilesTypeOK' /\ ManagerTypeOK' /\ TaskTypeOK' /\ GhciTypeOK'
      BY <1>9 DEF CaptureState, FilesTypeOK, ManagerTypeOK, TaskTypeOK, GhciTypeOK
    <2>4. QueuesTypeOK'
      BY <1>9, <2>1, <2>2 DEF QueuesTypeOK, CaptureState, OptionEvent
    <2>5. Shape'
      BY <1>9, <2>1, <2>2 DEF QueuesTypeOK, Shape, Working, CaptureState, Done, SetSender,
         Senders, Submit
    <2> QED
      BY <2>3, <2>4, <2>5
  <1>10. ASSUME NEW s \in Senders, NEW p \in Path, scan_haskell_files(s, p)
        PROVE  TypeInv'
    <2>1. sender[s] \in SenderState
      BY <1>10 DEF QueuesTypeOK
    <2>2. sender' \in [Senders -> SenderState]
      BY <1>10, <2>1 DEF QueuesTypeOK, FilesTypeOK, scan_haskell_files, SetSender, SenderState,
         Event, SourceSnapshot
    <2>3. FilesTypeOK' /\ ManagerTypeOK' /\ TaskTypeOK' /\ GhciTypeOK'
      BY <1>10 DEF scan_haskell_files, FilesTypeOK, ManagerTypeOK, TaskTypeOK, GhciTypeOK
    <2>4. QueuesTypeOK'
      BY <1>10, <2>1, <2>2 DEF QueuesTypeOK, scan_haskell_files, OptionEvent
    <2>5. Shape'
      BY <1>10, <2>1, <2>2 DEF QueuesTypeOK, Shape, Working, scan_haskell_files, Done,
         SetSender, Senders, Submit
    <2> QED
      BY <2>3, <2>4, <2>5
  <1>11. CASE Coalesce
    <2>1. Head(ghciChan) \in Event /\ ghciChan' \in Seq(Event)
      BY <1>11 DEF QueuesTypeOK, Coalesce
    <2>2. coalesced' \in OptionEvent
      BY <1>11, <2>1, MergeOptionType DEF QueuesTypeOK, Coalesce, OptionEvent
    <2>3. FilesTypeOK' /\ ManagerTypeOK' /\ TaskTypeOK' /\ GhciTypeOK'
      BY <1>11 DEF Coalesce, FilesTypeOK, ManagerTypeOK, TaskTypeOK, GhciTypeOK
    <2>4. QueuesTypeOK'
      BY <1>11, <2>1, <2>2 DEF QueuesTypeOK, Coalesce, OptionEvent
    <2>5. Shape'
      BY <1>11, <2>1, <2>2 DEF QueuesTypeOK, Shape, Working, Coalesce, Done, SetSender, Senders,
         Submit
    <2> QED
      BY <2>3, <2>4, <2>5
  <1>12. CASE Forward
    BY <1>12 DEF Forward, OptionEvent, Shape, Working, FilesTypeOK, QueuesTypeOK, ManagerTypeOK,
       TaskTypeOK, GhciTypeOK
  <1>13. CASE wait_for_event
    BY <1>13, StripType DEF wait_for_event, OptionEvent, Shape, Working, FilesTypeOK,
       QueuesTypeOK, ManagerTypeOK, TaskTypeOK, GhciTypeOK
  <1>14. CASE handle_event
    BY <1>14 DEF handle_event, BeforeReload, OptionEvent, Shape, Working, FilesTypeOK,
       QueuesTypeOK, ManagerTypeOK, TaskTypeOK, GhciTypeOK
  <1>15. CASE ReceiveWhileDispatching
    <2>1. dispatchChan[1] \in Event /\ dispatchChan' \in Seq(Event) /\ Len(dispatchChan') <= 1
      BY <1>15 DEF QueuesTypeOK, ReceiveWhileDispatching
    <2>2. pending' \in OptionEvent /\ incoming' \in OptionEvent
      BY <1>15, <2>1, MergeOptionType DEF ManagerTypeOK, ReceiveWhileDispatching, Accumulate,
         OptionEvent
    <2>3. FilesTypeOK' /\ TaskTypeOK' /\ GhciTypeOK'
      BY <1>15 DEF ReceiveWhileDispatching, FilesTypeOK, TaskTypeOK, GhciTypeOK
    <2>4. QueuesTypeOK'
      BY <1>15, <2>1, <2>2 DEF QueuesTypeOK, ReceiveWhileDispatching, OptionEvent
    <2>5. ManagerTypeOK'
      BY <1>15, <2>1, <2>2 DEF ManagerTypeOK, ReceiveWhileDispatching, OptionEvent
    <2>6. Shape'
      BY <1>15, <2>1, <2>2 DEF QueuesTypeOK, Shape, Working, ReceiveWhileDispatching, Done,
         SetSender, Senders, Submit
    <2> QED
      BY <2>3, <2>4, <2>5, <2>6
  <1>16. CASE should_interrupt
    <2>1. incoming \in Event
      BY <1>16 DEF Shape, should_interrupt
    <2>2. pending' \in OptionEvent /\ incoming' \in OptionEvent
      BY <1>16, <2>1, MergeOptionType DEF ManagerTypeOK, should_interrupt, Accumulate,
         OptionEvent
    <2>3. FilesTypeOK' /\ QueuesTypeOK' /\ TaskTypeOK' /\ GhciTypeOK'
      BY <1>16 DEF should_interrupt, FilesTypeOK, QueuesTypeOK, TaskTypeOK, GhciTypeOK
    <2>4. ManagerTypeOK'
      BY <1>16, <2>1, <2>2 DEF ManagerTypeOK, should_interrupt, OptionEvent
    <2>5. Shape'
      BY <1>16, <2>1, <2>2 DEF QueuesTypeOK, Shape, Working, should_interrupt, Done, SetSender,
         Senders, Submit
    <2> QED
      BY <2>3, <2>4, <2>5
  <1>17. CASE InterruptReload
    <2>1. current \in Event /\ incoming \in Event /\ pending \in OptionEvent
      BY <1>17 DEF ManagerTypeOK, Shape, InterruptReload
    <2>2. current' \in Event
      BY <1>17, <2>1, MergeType DEF InterruptReload, RetryEvent, OptionEvent
    <2>3. \A i \in DOMAIN vqueue : vqueue[i] \in Request
      BY DEF QueuesTypeOK
    <2>4. \A i \in DOMAIN vqueue : [vqueue[i] EXCEPT !.awaited = FALSE] \in Request
      BY <2>3 DEF Request
    <2>5. vqueue' \in Seq(Request) /\ Len(vqueue') = Len(vqueue)
      <3>1. DOMAIN vqueue = 1..Len(vqueue) /\ Len(vqueue) \in Nat
        BY DEF QueuesTypeOK
      <3>2. vqueue' = [i \in 1..Len(vqueue) |-> [vqueue[i] EXCEPT !.awaited = FALSE]]
        BY <1>17, <3>1 DEF InterruptReload
      <3> QED
        BY <2>4, <3>1, <3>2
    <2>6. FilesTypeOK' /\ GhciTypeOK'
      BY <1>17 DEF InterruptReload, FilesTypeOK, GhciTypeOK
    <2>7. QueuesTypeOK'
      BY <1>17, <2>1, <2>2, <2>3, <2>4, <2>5 DEF QueuesTypeOK, InterruptReload, OptionEvent
    <2>8. ManagerTypeOK'
      BY <1>17, <2>1, <2>2, <2>3, <2>4, <2>5 DEF ManagerTypeOK, InterruptReload, AfterReload,
         OptionEvent
    <2>9. TaskTypeOK'
      BY <1>17, <2>1, <2>2, <2>3, <2>4, <2>5 DEF TaskTypeOK, InterruptReload, OptionEvent
    <2>10. Shape'
      BY <1>17, <2>1, <2>2, <2>3, <2>4, <2>5 DEF QueuesTypeOK, Shape, Working, InterruptReload,
         Done, SetSender, Senders, Submit
    <2> QED
      BY <2>6, <2>7, <2>8, <2>9, <2>10
  <1>18. CASE FinishDispatch
    <2>1. current \in Event /\ pending \in OptionEvent /\ dispatchChan \in Seq(Event)
      BY <1>18 DEF ManagerTypeOK, QueuesTypeOK, Shape, FinishDispatch
    <2>2. applied' \in [Path -> FileState \union {Unknown}] /\ appliedSnap' \in SourceSnapshot
      BY <1>18, <2>1, MarkType DEF ManagerTypeOK, FinishDispatch, Event
    <2>3. pending # NoEvent => strip_applied(drain_pending(pending, dispatchChan),
       mark_applied(current, applied)) \in Event
      BY <2>1, DrainType, StripType DEF OptionEvent
    <2>4. current' \in OptionEvent /\ (mpc' # "wait" => current' \in Event) /\ mpc' \in {"wait",
       "start"}
      BY <1>18, <2>3 DEF FinishDispatch, OptionEvent
    <2>5. dispatchChan' = <<>> \/ dispatchChan' = dispatchChan
      BY <1>18 DEF FinishDispatch
    <2>6. dispatchChan \in Seq(Event) /\ Len(dispatchChan) <= 1
      BY DEF QueuesTypeOK
    <2>7. dispatchChan' \in Seq(Event) /\ Len(dispatchChan') <= 1
      <3>1. CASE dispatchChan' = <<>>
        <4>1. <<>> \in Seq(Event) /\ Len(<<>>) <= 1
          OBVIOUS
        <4> QED
          BY <3>1, <4>1
      <3>2. CASE dispatchChan' = dispatchChan
        BY <3>2, <2>6
      <3> QED
        BY <3>1, <3>2, <2>5
    <2>8. FilesTypeOK' /\ GhciTypeOK'
      BY <1>18 DEF FinishDispatch, FilesTypeOK, GhciTypeOK
    <2>9. QueuesTypeOK'
      BY <1>18, <2>1, <2>2, <2>3, <2>4, <2>5, <2>6, <2>7 DEF QueuesTypeOK, FinishDispatch,
         OptionEvent
    <2>10. ManagerTypeOK'
      BY <1>18, <2>1, <2>2, <2>3, <2>4, <2>5, <2>6, <2>7 DEF ManagerTypeOK, FinishDispatch,
         OptionEvent
    <2>11. TaskTypeOK'
      BY <1>18, <2>1, <2>2, <2>3, <2>4, <2>5, <2>6, <2>7 DEF TaskTypeOK, FinishDispatch,
         OptionEvent
    <2>12. Shape'
      BY <1>18, <2>1, <2>2, <2>3, <2>4, <2>5, <2>6, <2>7 DEF QueuesTypeOK, Shape, Working,
         FinishDispatch, Done, SetSender, Senders, Submit
    <2> QED
      BY <2>8, <2>9, <2>10, <2>11, <2>12
  <1>19. CASE reload
    <2>1. current \in Event
      BY <1>19 DEF ManagerTypeOK, Shape, reload
    <2>2. current.snapshot \in SourceSnapshot /\ Files \in SUBSET Haskell
      BY <2>1, FilesType DEF Event, Files
    <2>3. get_reload_actions(current.events, Files, known, targets, initFailed) \in Actions
      BY <2>1, <2>2, ActionsType DEF GhciTypeOK, Event
    <2>4. FilesTypeOK' /\ QueuesTypeOK' /\ ManagerTypeOK'
      BY <1>19 DEF reload, FilesTypeOK, QueuesTypeOK, ManagerTypeOK
    <2>5. TaskTypeOK'
      BY <1>19, <2>1, <2>2, <2>3 DEF TaskTypeOK, reload, OptionEvent
    <2>6. GhciTypeOK'
      BY <1>19, <2>1, <2>2, <2>3 DEF GhciTypeOK, reload, OptionEvent
    <2>7. Shape'
      BY <1>19, <2>1, <2>2, <2>3 DEF QueuesTypeOK, Shape, Working, reload, Done, SetSender,
         Senders, Submit
    <2> QED
      BY <2>4, <2>5, <2>6, <2>7
  <1>20. CASE RunBeforeHooks
    <2>1. acts' \in Actions
      BY <1>20 DEF TaskTypeOK, RunBeforeHooks, Actions, Path
    <2>2. FilesTypeOK' /\ QueuesTypeOK' /\ ManagerTypeOK' /\ GhciTypeOK'
      BY <1>20 DEF RunBeforeHooks, FilesTypeOK, QueuesTypeOK, ManagerTypeOK, GhciTypeOK
    <2>3. TaskTypeOK'
      BY <1>20, <2>1 DEF TaskTypeOK, RunBeforeHooks, OptionEvent
    <2>4. Shape'
      BY <1>20, <2>1 DEF QueuesTypeOK, Shape, Working, RunBeforeHooks, Done, SetSender, Senders,
         Submit
    <2> QED
      BY <2>2, <2>3, <2>4
  <1>21. CASE SubmitRemove
    BY <1>21 DEF SubmitRemove, Submit, Path, FileState, Shape, Working, FilesTypeOK,
       QueuesTypeOK, ManagerTypeOK, TaskTypeOK, GhciTypeOK
  <1>22. CASE SubmitAdd
    BY <1>22 DEF SubmitAdd, Submit, Actions, Path, FileState, Shape, Working, FilesTypeOK,
       QueuesTypeOK, ManagerTypeOK, TaskTypeOK, GhciTypeOK
  <1>23. CASE CommitAndReload
    BY <1>23 DEF CommitAndReload, Submit, Path, FileState, Shape, Working, FilesTypeOK,
       QueuesTypeOK, ManagerTypeOK, TaskTypeOK, GhciTypeOK
  <1>24. CASE restart
    <2>1. loaded' \in [Path -> FileState]
      BY <1>24 DEF FilesTypeOK, GhciTypeOK, restart, FileState
    <2>2. gtargets' \in SUBSET Source /\ unread' \in SUBSET Path
      BY <1>24, PipelineConstants DEF restart, Path
    <2>3. FilesTypeOK' /\ QueuesTypeOK' /\ ManagerTypeOK'
      BY <1>24 DEF restart, FilesTypeOK, QueuesTypeOK, ManagerTypeOK
    <2>4. TaskTypeOK'
      BY <1>24, <2>1, <2>2 DEF TaskTypeOK, restart, OptionEvent
    <2>5. GhciTypeOK'
      BY <1>24, <2>1, <2>2 DEF GhciTypeOK, restart, OptionEvent
    <2>6. Shape'
      BY <1>24, <2>1, <2>2 DEF QueuesTypeOK, Shape, Working, restart, Done, SetSender, Senders,
         Submit
    <2> QED
      BY <2>3, <2>4, <2>5, <2>6
  <1>25. CASE synchronize_haskell_files
    <2>1. loaded' \in [Path -> FileState]
      BY <1>25 DEF GhciTypeOK, synchronize_haskell_files, Submit, FileState
    <2>2. gtargets' \in SUBSET Source /\ unread' \in SUBSET Path
      BY <1>25 DEF GhciTypeOK, TaskTypeOK, synchronize_haskell_files, Submit, Path
    <2>3. initFailed' \in BOOLEAN /\ known' \in SUBSET Haskell
      BY <1>25 DEF GhciTypeOK, TaskTypeOK, synchronize_haskell_files
    <2>4. FilesTypeOK' /\ QueuesTypeOK' /\ ManagerTypeOK'
      BY <1>25 DEF synchronize_haskell_files, FilesTypeOK, QueuesTypeOK, ManagerTypeOK
    <2>5. TaskTypeOK'
      BY <1>25, <2>1, <2>2, <2>3 DEF TaskTypeOK, synchronize_haskell_files, Submit, OptionEvent
    <2>6. GhciTypeOK'
      BY <1>25, <2>1, <2>2, <2>3 DEF GhciTypeOK, synchronize_haskell_files, Submit, OptionEvent
    <2>7. Shape'
      BY <1>25, <2>1, <2>2, <2>3 DEF QueuesTypeOK, Shape, Working, synchronize_haskell_files,
         Done, SetSender, Senders, Submit
    <2> QED
      BY <2>4, <2>5, <2>6, <2>7
  <1>26. ASSUME NEW p \in Path, ReadFile(p)
        PROVE  TypeInv'
    BY <1>26 DEF ReadFile, Shape, Working, FilesTypeOK, QueuesTypeOK, ManagerTypeOK, TaskTypeOK,
       GhciTypeOK
  <1>27. CASE CompileDone
    <2>1. log' \in {"ok", "err"} /\ untested' \in BOOLEAN
      BY <1>27 DEF CompileDone, CompileResult
    <2>2. initFailed' \in BOOLEAN
      BY <1>27 DEF GhciTypeOK, CompileDone
    <2>3. targets' \in SUBSET Source /\ known' \in SUBSET Haskell /\ synced' \in SUBSET Haskell
      BY <1>27 DEF GhciTypeOK, TaskTypeOK, CompileDone
    <2>4. tpc' \in {"add", "commit", "finish", "sync", "validate"}
      BY <1>27 DEF CompileDone
    <2>5. FilesTypeOK' /\ QueuesTypeOK' /\ ManagerTypeOK'
      BY <1>27 DEF CompileDone, FilesTypeOK, QueuesTypeOK, ManagerTypeOK
    <2>6. TaskTypeOK'
      BY <1>27, <2>1, <2>2, <2>3, <2>4 DEF TaskTypeOK, CompileDone, OptionEvent
    <2>7. GhciTypeOK'
      BY <1>27, <2>1, <2>2, <2>3, <2>4 DEF GhciTypeOK, CompileDone, OptionEvent
    <2>8. Shape'
      BY <1>27, <2>1, <2>2, <2>3, <2>4 DEF QueuesTypeOK, Shape, Working, CompileDone, Done,
         SetSender, Senders, Submit
    <2> QED
      BY <2>5, <2>6, <2>7, <2>8
  <1>28. CASE AnnounceNone
    BY <1>28 DEF AnnounceNone, Shape, Working, FilesTypeOK, QueuesTypeOK, ManagerTypeOK,
       TaskTypeOK, GhciTypeOK
  <1>29. CASE compilation_snapshot_is_current
    <2>1. expected \in SourceSnapshot
      BY <1>29 DEF ManagerTypeOK, Shape, Working, OptionEvent, Event,
         compilation_snapshot_is_current
    <2>2. vqueue' \in Seq(Request) /\ vqueue' # <<>>
      BY <1>29, <2>1 DEF QueuesTypeOK, compilation_snapshot_is_current, Request
    <2>3. FilesTypeOK' /\ ManagerTypeOK' /\ GhciTypeOK'
      BY <1>29 DEF compilation_snapshot_is_current, FilesTypeOK, ManagerTypeOK, GhciTypeOK
    <2>4. QueuesTypeOK'
      BY <1>29, <2>1, <2>2 DEF QueuesTypeOK, compilation_snapshot_is_current, OptionEvent
    <2>5. TaskTypeOK'
      BY <1>29, <2>1, <2>2 DEF TaskTypeOK, compilation_snapshot_is_current, OptionEvent
    <2>6. Shape'
      BY <1>29, <2>1, <2>2 DEF QueuesTypeOK, Shape, Working, compilation_snapshot_is_current,
         Done, SetSender, Senders, Submit
    <2> QED
      BY <2>3, <2>4, <2>5, <2>6
  <1>30. CASE write_error_log
    BY <1>30 DEF write_error_log, ErrorLog, OptionEvent, Event, Shape, Working, FilesTypeOK,
       QueuesTypeOK, ManagerTypeOK, TaskTypeOK, GhciTypeOK
  <1>31. CASE RunAfterHooks
    BY <1>31 DEF RunAfterHooks, AfterReload, Shape, Working, FilesTypeOK, QueuesTypeOK,
       ManagerTypeOK, TaskTypeOK, GhciTypeOK
  <1>32. CASE finish_compilation
    BY <1>32 DEF finish_compilation, Shape, Working, FilesTypeOK, QueuesTypeOK, ManagerTypeOK,
       TaskTypeOK, GhciTypeOK
  <1>33. CASE UNCHANGED vars
    BY <1>33 DEF vars, Shape, Working, FilesTypeOK, QueuesTypeOK, ManagerTypeOK, TaskTypeOK,
       GhciTypeOK
  <1> QED
    BY <1>1, <1>2, <1>3, <1>4, <1>5, <1>6, <1>7, <1>8, <1>9, <1>10, <1>11, <1>12, <1>13, <1>14,
       <1>15, <1>16, <1>17, <1>18, <1>19, <1>20, <1>21, <1>22, <1>23, <1>24, <1>25, <1>26,
       <1>27, <1>28, <1>29, <1>30, <1>31, <1>32, <1>33 DEF Next, UserNext, WatcherNext,
       ManagerNext, TaskNext

\* Theorem: every variable keeps its type in every behaviour, and the dispatch
\* channel its capacity (setup_watcher's mpsc::channel(1)).
THEOREM TypeCorrect == Spec => []TypeOK
  <1>1. TypeInv => TypeOK
    BY DEF TypeInv
  <1> QED
    BY TypeInit, TypeNext, <1>1, PTL DEF Spec
=============================================================================
