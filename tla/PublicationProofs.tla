------------------------- MODULE PublicationProofs -------------------------
EXTENDS ReloadPipelineProofs

-----------------------------------------------------------------------------
(***************************************************************************)
(* Publication.  The error log may claim a snapshot only if GHCi compiled  *)
(* exactly those contents.  The argument is about one path p at a time:    *)
(*  - Seen: every snapshot under way holds states that p really had, so a  *)
(*    fresh edit never coincides with the snapshot of the dispatch;        *)
(*  - Compiled: once GHCi has read p in this dispatch, p either differs    *)
(*    from the dispatch's snapshot or is loaded as it is on disk;          *)
(*  - Validated: where the validator found p equal to the snapshot, the    *)
(*    loaded contents equal the snapshot, whatever happens to p later.     *)
(***************************************************************************)
SeenIn(e, u) == \A p \in Haskell : e.snapshot[p] \in u[p]

Seen ==
    /\ \A p \in Path : disk[p] \in used[p]
    /\ \A e \in {current, incoming, pending, coalesced} : e # NoEvent => SeenIn(e, used)
    /\ \A i \in DOMAIN ghciChan : SeenIn(ghciChan[i], used)
    /\ \A i \in DOMAIN dispatchChan : SeenIn(dispatchChan[i], used)
    /\ \A s \in Senders : sender[s].pc = "scan" =>
          \A p \in Haskell \ sender[s].todo : sender[s].event.snapshot[p] \in used[p]

ReadSince(p) == current.snapshot[p] = disk[p] => loaded[p] = disk[p]

Compiled ==
    /\ tpc \in {"before", "remove", "restart"} => log = "empty"
    /\ tpc = "compile" => \A p \in gtargets \ unread : ReadSince(p)
    /\ tpc \in {"add", "commit", "sync", "finish", "validate", "awaiting"} /\ log # "empty" =>
          \A p \in gtargets : ReadSince(p)

Asked ==
    /\ tpc \in Working \union {"classify"} => reply = "none"
    /\ \A i \in DOMAIN vqueue : vqueue[i].awaited =>
          /\ tpc = "awaiting" /\ reply = "none"
          /\ vqueue[i].expected = current.snapshot
          /\ \A j \in DOMAIN vqueue : vqueue[j].awaited => j = i

LoadedAsClaimed(p) == loaded[p] = current.snapshot[p]

Validated ==
    log # "empty" =>
      /\ sender["validator"].pc = "look" /\ vqueue[1].awaited =>
            \A p \in gtargets \ sender["validator"].todo :
               sender["validator"].event.events[p] = "none" => LoadedAsClaimed(p)
      /\ tpc = "awaiting" /\ reply = "current" => \A p \in gtargets : LoadedAsClaimed(p)

PublicationInv ==
    TypeInv /\ Seen /\ Compiled /\ Asked /\ Validated /\ PublishedIsWhatWasCompiled

-----------------------------------------------------------------------------
\* A watcher step touches the manager and the session only by sending an event or
\* answering a validation request (send_event, Answer).
LEMMA WatcherFrame ==
    WatcherNext => /\ UNCHANGED <<envVars, coalesced, dispatchChan, managerVars, hooks, tpc, op,
                                  kind, acts, synced, unread, expected, log, ghciVars, published>>
                   /\ (UNCHANGED ghciChan \/ \E s \in Senders : send_event(s))
  BY DEF WatcherNext, DeliverBatch, observe, TakeValidation, validate_source_snapshot, LookDone,
         StartScan, send_event, CaptureState, scan_haskell_files, envVars, watcherVars, queueVars,
         managerVars, taskVars, ghciVars

\* A step of the dispatch task (Ghci::reload) leaves files, watcher queues and the
\* manager's own state alone.
LEMMA TaskFrame ==
    TaskNext => UNCHANGED <<envVars, notified, content, sender, queueVars, managerVars>>
  BY DEF TaskNext, reload, RunBeforeHooks, SubmitRemove, SubmitAdd, CommitAndReload, restart,
         synchronize_haskell_files, ReadFile, CompileDone, AnnounceNone,
         compilation_snapshot_is_current, write_error_log, RunAfterHooks, finish_compilation,
         envVars, watcherVars, queueVars, managerVars, taskVars, ghciVars

\* A manager step leaves files, the watcher, the session and the error log alone.
LEMMA ManagerFrame ==
    ManagerNext => UNCHANGED <<envVars, notified, content, sender, ghciVars, published,
                             log, op, acts, synced>>
  BY DEF ManagerNext, Coalesce, Forward, wait_for_event, handle_event, ReceiveWhileDispatching,
         should_interrupt, InterruptReload, FinishDispatch,
         envVars, watcherVars, queueVars, managerVars, taskVars, ghciVars

-----------------------------------------------------------------------------
\* What the operations on events do to the snapshot: the newest one wins.
LEMMA MergeSnapshot ==
    ASSUME NEW a, NEW b PROVE merge(a, b).snapshot = b.snapshot
  BY DEF merge

\* The same for an optional older event.
LEMMA MergeOptionSnapshot ==
    ASSUME NEW a, NEW b PROVE merge_option(a, b).snapshot = b.snapshot
  BY DEF merge_option, merge

\* discard_applied strips hints, never the snapshot.
LEMMA StripSnapshot ==
    ASSUME NEW e \in Event, NEW a PROVE strip_applied(e, a).snapshot = e.snapshot
  BY DEF strip_applied, Event

\* An edit only adds to the states a file has had.
LEMMA SeenEdit ==
    ASSUME TypeInv, Seen, NEW p \in Path, NEW s \in FileState, Edit(p, s)
    PROVE  Seen'
  <1>1. \A q \in Path : used[q] \subseteq used'[q] /\ disk'[q] \in used'[q]
    BY DEF Edit, Seen, TypeInv, TypeOK, FilesTypeOK
  <1>2. \A e : SeenIn(e, used) => SeenIn(e, used')
    BY <1>1 DEF SeenIn, Haskell, Path
  <1>3. UNCHANGED <<current, incoming, pending, coalesced, ghciChan, dispatchChan, sender>>
    BY DEF Edit, queueVars, managerVars
  <1>4. \A t \in Senders : sender'[t].pc = "scan" =>
          \A q \in Haskell \ sender'[t].todo : sender'[t].event.snapshot[q] \in used'[q]
    BY <1>1, <1>3 DEF Seen, Haskell, Path
  <1> QED
    BY <1>1, <1>2, <1>3, <1>4 DEF Seen

\* What scan_haskell_files puts in a snapshot is a state the file has had.
LEMMA SeenWatcher ==
    ASSUME TypeInv, Seen, WatcherNext PROVE Seen'
  <1>1. UNCHANGED <<disk, used, coalesced, dispatchChan, current, incoming, pending>>
    BY WatcherFrame DEF envVars, managerVars
  <1>2. sender \in [Senders -> SenderState] /\ ghciChan \in Seq(Event)
    BY DEF TypeInv, TypeOK, QueuesTypeOK
  <1>3. \A i \in DOMAIN ghciChan' : SeenIn(ghciChan'[i], used)
    <2>1. CASE UNCHANGED ghciChan
      BY <2>1 DEF Seen
    <2>2. ASSUME NEW s \in Senders, send_event(s)
          PROVE  \A i \in DOMAIN ghciChan' : SeenIn(ghciChan'[i], used)
      <3>1. SeenIn(sender[s].event, used)
        BY <2>2 DEF Seen, SeenIn, send_event, Done
      <3>2. sender[s].event \in Event
        BY <1>2 DEF SenderState
      <3> QED
        BY <1>2, <2>2, <3>1, <3>2 DEF Seen, send_event
    <2> QED
      BY <2>1, <2>2, WatcherFrame
  <1>4. ASSUME NEW t \in Senders, sender'[t].pc = "scan", NEW q \in Haskell \ sender'[t].todo
        PROVE  sender'[t].event.snapshot[q] \in used[q]
    <2>1. CASE UNCHANGED sender
      BY <1>4, <2>1 DEF Seen
    <2>2. ASSUME NEW s \in Senders, StartScan(s)
          PROVE  sender'[t].event.snapshot[q] \in used[q]
      BY <1>2, <1>4, <2>2 DEF Seen, StartScan, SetSender, SenderState
    <2>3. ASSUME NEW s \in Senders, NEW p \in Path, scan_haskell_files(s, p)
          PROVE  sender'[t].event.snapshot[q] \in used[q]
      <3>1. disk[q] \in used[q] /\ q \in Path
        BY DEF Seen, Haskell, Path
      <3>2. sender[s].event.snapshot \in [Haskell -> FileState]
        BY <1>2 DEF SenderState, Event, SourceSnapshot
      <3> QED
        BY <1>2, <1>4, <2>3, <3>1, <3>2 DEF Seen, scan_haskell_files, SetSender, SenderState, Event
    <2>4. ASSUME NEW s \in Senders, LookDone(s) \/ send_event(s)
          PROVE  sender'[t].event.snapshot[q] \in used[q]
      BY <1>2, <1>4, <2>4 DEF Seen, LookDone, send_event, Done, SetSender, SenderState
    <2>5. ASSUME NEW s \in Senders, NEW p \in Path, CaptureState(s, p)
          PROVE  sender'[t].event.snapshot[q] \in used[q]
      BY <1>2, <1>4, <2>5 DEF Seen, CaptureState, SetSender, SenderState, Event
    <2>6. ASSUME NEW p \in Path, observe(p)
          PROVE  sender'[t].event.snapshot[q] \in used[q]
      BY <1>2, <1>4, <2>6 DEF Seen, observe, SetSender, SenderState, Event
    <2>7. ASSUME NEW p \in Haskell, validate_source_snapshot(p)
          PROVE  sender'[t].event.snapshot[q] \in used[q]
      BY <1>2, <1>4, <2>7 DEF Seen, validate_source_snapshot, SetSender, SenderState, Event
    <2>8. ASSUME TakeValidation \/ \E batch \in SUBSET Path : DeliverBatch(batch)
          PROVE  sender'[t].event.snapshot[q] \in used[q]
      BY <1>2, <1>4, <2>8 DEF Seen, TakeValidation, DeliverBatch, SetSender, SenderState
    <2> QED
      BY <2>2, <2>3, <2>4, <2>5, <2>6, <2>7, <2>8 DEF WatcherNext
  <1> QED
    BY <1>1, <1>3, <1>4 DEF Seen

\* The coalescer and the manager pass snapshots on without inventing states.
LEMMA SeenManager ==
    ASSUME TypeInv, Seen, ManagerNext PROVE Seen'
  <1>1. UNCHANGED <<disk, used, sender>>
    BY ManagerFrame DEF envVars
  <1>2. /\ ghciChan \in Seq(Event) /\ dispatchChan \in Seq(Event)
        /\ pending \in OptionEvent /\ coalesced \in OptionEvent
    BY DEF TypeInv, TypeOK, QueuesTypeOK, ManagerTypeOK
  <1> SUFFICES /\ \A e \in {current', incoming', pending', coalesced'} :
                     e # NoEvent => SeenIn(e, used)
               /\ \A i \in DOMAIN ghciChan' : SeenIn(ghciChan'[i], used)
               /\ \A i \in DOMAIN dispatchChan' : SeenIn(dispatchChan'[i], used)
    BY <1>1 DEF Seen
  <1>3. CASE Coalesce
    <2>1. SeenIn(Head(ghciChan), used) /\ SeenIn(coalesced', used)
      BY <1>2, <1>3, MergeOptionSnapshot DEF Seen, SeenIn, Coalesce
    <2>2. \A i \in DOMAIN ghciChan' : SeenIn(ghciChan'[i], used)
      BY <1>2, <1>3 DEF Seen, Coalesce
    <2> QED
      BY <1>3, <2>1, <2>2 DEF Seen, Coalesce, managerVars
  <1>4. CASE Forward
    BY <1>4 DEF Seen, Forward, managerVars
  <1>5. CASE wait_for_event
    <2>1. dispatchChan[1] \in Event /\ SeenIn(dispatchChan[1], used)
      BY <1>2, <1>5 DEF Seen, wait_for_event
    <2>2. SeenIn(strip_applied(dispatchChan[1], applied), used)
      BY <2>1, StripSnapshot DEF SeenIn
    <2>3. dispatchChan' = <<>> /\ DOMAIN <<>> = {}
      BY <1>5 DEF wait_for_event
    <2> QED
      BY <1>5, <2>2, <2>3 DEF Seen, wait_for_event
  <1>6. CASE handle_event
    BY <1>6 DEF Seen, handle_event, queueVars
  <1>7. CASE ReceiveWhileDispatching
    <2>1. SeenIn(dispatchChan[1], used)
      BY <1>2, <1>7 DEF Seen, ReceiveWhileDispatching
    <2>2. SeenIn(merge_option(pending, dispatchChan[1]), used)
      BY <2>1, MergeOptionSnapshot DEF SeenIn
    <2>3. dispatchChan' = <<>> /\ DOMAIN <<>> = {}
      BY <1>7 DEF ReceiveWhileDispatching
    <2> QED
      BY <1>7, <2>1, <2>2, <2>3 DEF Seen, ReceiveWhileDispatching, Accumulate
  <1>8. CASE should_interrupt
    <2>1. incoming # NoEvent
      BY <1>8, OptionsDistinct DEF TypeInv, Shape, should_interrupt
    <2>2. SeenIn(merge_option(pending, incoming), used)
      BY <2>1, MergeOptionSnapshot DEF Seen, SeenIn
    <2> QED
      BY <1>8, <2>1, <2>2 DEF Seen, should_interrupt, Accumulate, queueVars
  <1>9. CASE InterruptReload
    <2>1. incoming # NoEvent
      BY <1>9, OptionsDistinct DEF TypeInv, Shape, InterruptReload
    <2>2. SeenIn(current', used)
      BY <1>9, <2>1, MergeSnapshot DEF Seen, SeenIn, InterruptReload, RetryEvent
    <2> QED
      BY <1>9, <2>2 DEF Seen, InterruptReload, queueVars
  <1>10. CASE FinishDispatch
    <2> DEFINE next == drain_pending(pending, dispatchChan)
    <2>1. ASSUME pending # NoEvent
          PROVE  next \in Event /\ SeenIn(next, used)
      <3>1. pending \in Event /\ SeenIn(pending, used)
        BY <1>2, <2>1 DEF Seen, OptionEvent
      <3>2. dispatchChan # <<>> => SeenIn(dispatchChan[1], used)
        BY <1>2 DEF Seen
      <3> QED
        BY <1>2, <3>1, <3>2, DrainType, MergeSnapshot DEF drain_pending, SeenIn
    <2>2. ASSUME pending # NoEvent, NEW a
          PROVE  SeenIn(strip_applied(next, a), used)
      BY <2>1, <2>2, StripSnapshot DEF SeenIn
    <2>3. current' # NoEvent => SeenIn(current', used)
      BY <1>10, <2>2 DEF FinishDispatch
    <2>4. \A i \in DOMAIN dispatchChan' : SeenIn(dispatchChan'[i], used)
      <3>1. DOMAIN <<>> = {}
        OBVIOUS
      <3> QED
        BY <1>10, <3>1 DEF FinishDispatch, Seen
    <2> QED
      BY <1>10, <2>3, <2>4 DEF Seen, FinishDispatch
  <1> QED
    BY <1>3, <1>4, <1>5, <1>6, <1>7, <1>8, <1>9, <1>10 DEF ManagerNext

\* Seen is kept by every step.
LEMMA SeenNext == TypeInv /\ Seen /\ [Next]_vars => Seen'
  <1> SUFFICES ASSUME TypeInv, Seen, [Next]_vars PROVE Seen'
    OBVIOUS
  <1>1. CASE UserNext
    BY <1>1, SeenEdit DEF UserNext
  <1>2. CASE TaskNext
    BY <1>2, TaskFrame DEF Seen, envVars, queueVars, managerVars
  <1>3. CASE UNCHANGED vars
    BY <1>3 DEF Seen, vars, envVars, watcherVars, queueVars, managerVars
  <1> QED
    BY <1>1, <1>2, <1>3, SeenWatcher, SeenManager DEF Next

-----------------------------------------------------------------------------
\* While a dispatch runs, its event is there and its snapshot is fixed.
LEMMA DispatchFixed ==
    ASSUME TypeInv, [Next]_vars, tpc' \notin {"idle", "classify"}
    PROVE  /\ current \in Event /\ current' = current
           /\ tpc # "idle"
  <1>1. tpc # "idle" /\ current' = current
    <2>1. CASE ManagerNext
      BY <2>1 DEF TypeInv, Shape, ManagerNext, Coalesce, Forward, wait_for_event, handle_event,
         ReceiveWhileDispatching, should_interrupt, InterruptReload, FinishDispatch,
         managerVars, taskVars
    <2>2. CASE TaskNext
      BY <2>2, TaskFrame DEF managerVars, TaskNext, reload, RunBeforeHooks, SubmitRemove,
         SubmitAdd, CommitAndReload, restart, synchronize_haskell_files, ReadFile, CompileDone,
         AnnounceNone, compilation_snapshot_is_current, write_error_log, RunAfterHooks,
         finish_compilation
    <2>3. CASE UserNext \/ UNCHANGED vars
      BY <2>3 DEF UserNext, Edit, vars, managerVars, taskVars
    <2>4. CASE WatcherNext
      BY <2>4, WatcherFrame DEF managerVars
    <2> QED
      BY <2>1, <2>2, <2>3, <2>4 DEF Next
  <1> QED
    BY <1>1 DEF TypeInv, TypeOK, ManagerTypeOK, Shape

\* A compilation of the dispatch task (:unadd, :add, :reload, a restart) reads every
\* target before the prompt is back.
LEMMA CompiledTask ==
    ASSUME TypeInv, Seen, Compiled, TaskNext PROVE Compiled'
  <1>1. UNCHANGED <<disk, current>>
    BY TaskFrame DEF envVars, managerVars
  <1>2. /\ gtargets \subseteq Source /\ loaded \in [Path -> FileState]
        /\ Source \subseteq Path
    BY DEF TypeInv, TypeOK, GhciTypeOK, Path
  <1>3. CASE reload
    BY <1>3 DEF reload, Compiled
  <1>4. CASE RunBeforeHooks
    BY <1>4 DEF RunBeforeHooks, Compiled, ghciVars
  <1>5. ASSUME SubmitRemove \/ SubmitAdd \/ CommitAndReload \/ synchronize_haskell_files
        PROVE  Compiled'
    <2>1. /\ UNCHANGED log
          /\ \/ /\ tpc' = "compile" /\ gtargets' \subseteq unread'
             \/ /\ UNCHANGED <<gtargets, loaded>>
                /\ \/ tpc = "remove" /\ tpc' = "add"
                   \/ tpc = "add" /\ tpc' = "commit"
                   \/ tpc = "commit" /\ tpc' = "finish"
                   \/ tpc = "sync" /\ tpc' = "validate"
      BY <1>5 DEF SubmitRemove, SubmitAdd, CommitAndReload, synchronize_haskell_files, Submit
    <2> QED
      BY <1>1, <2>1 DEF Compiled, ReadSince
  <1>6. CASE restart
    BY <1>6 DEF restart, Compiled
  <1>7. ASSUME NEW p \in Path, ReadFile(p) PROVE Compiled'
    BY <1>1, <1>2, <1>7 DEF ReadFile, Compiled, ReadSince
  <1>8. CASE CompileDone
    <2>1. /\ tpc = "compile" /\ unread = {}
          /\ tpc' \in {"add", "commit", "finish", "sync", "validate"}
          /\ UNCHANGED <<gtargets, loaded>>
      BY <1>8 DEF CompileDone
    <2> QED
      BY <1>1, <2>1 DEF Compiled, ReadSince
  <1>9. CASE AnnounceNone \/ compilation_snapshot_is_current
    BY <1>1, <1>9 DEF AnnounceNone, compilation_snapshot_is_current, Compiled, ReadSince, ghciVars
  <1>10. CASE write_error_log \/ RunAfterHooks \/ finish_compilation
    BY <1>10 DEF write_error_log, RunAfterHooks, finish_compilation, Compiled
  <1> QED
    BY <1>3, <1>4, <1>5, <1>6, <1>7, <1>8, <1>9, <1>10 DEF TaskNext

\* Without reverts no edit makes a file equal to the dispatch's snapshot again after
\* GHCi read something else: ReadSince survives the edits during a dispatch.
LEMMA CompiledNext ==
    (Reverts = FALSE) => (TypeInv /\ Seen /\ Compiled /\ [Next]_vars => Compiled')
  <1> SUFFICES ASSUME Reverts = FALSE, TypeInv, Seen, Compiled, [Next]_vars PROVE Compiled'
    OBVIOUS
  <1>1. CASE UserNext
    <2>1. PICK p \in Path, s \in FileState : Edit(p, s)
      BY <1>1 DEF UserNext
    <2>2. UNCHANGED <<tpc, current, log, gtargets, unread, loaded>>
      BY <2>1 DEF Edit, managerVars, taskVars, ghciVars
    <2>3. ASSUME tpc \notin {"idle", "classify"}, NEW q \in Source, ReadSince(q)
          PROVE  ReadSince(q)'
      <3>1. current \in Event /\ current # NoEvent
        BY <2>2, <2>3, DispatchFixed, OptionsDistinct
      <3>2. current.snapshot[q] \in used[q]
        BY <3>1 DEF Seen, SeenIn, Haskell
      <3>3. s \notin used[p] /\ disk' = [disk EXCEPT ![p] = s]
        BY <2>1 DEF Edit
      <3>4. q \in Path /\ disk \in [Path -> FileState]
        BY DEF TypeInv, TypeOK, FilesTypeOK, Path
      <3> QED
        BY <2>2, <2>3, <3>2, <3>3, <3>4 DEF ReadSince
    <2>4. gtargets \subseteq Source
      BY DEF TypeInv, TypeOK, GhciTypeOK
    <2> QED
      BY <2>2, <2>3, <2>4 DEF Compiled
  <1>2. CASE WatcherNext
    BY <1>2, WatcherFrame DEF Compiled, ReadSince, envVars, managerVars, ghciVars
  <1>3. CASE ManagerNext
    <2>1. CASE UNCHANGED <<tpc, current, unread>>
      BY <1>3, <2>1, ManagerFrame DEF Compiled, ReadSince, envVars, ghciVars
    <2>2. CASE tpc' \in {"idle", "classify"}
      BY <2>2 DEF Compiled
    <2> QED
      BY <1>3, <2>1, <2>2 DEF TypeInv, Shape, ManagerNext, Coalesce, Forward, wait_for_event,
         handle_event, ReceiveWhileDispatching, should_interrupt, InterruptReload,
         FinishDispatch, managerVars, taskVars
  <1>4. CASE UNCHANGED vars
    BY <1>4 DEF Compiled, ReadSince, vars, envVars, managerVars, taskVars, ghciVars
  <1> QED
    BY <1>1, <1>2, <1>3, <1>4, CompiledTask DEF Next

-----------------------------------------------------------------------------
\* The validator takes requests off the front of its queue.
LEMMA VqueueWatcher ==
    ASSUME TypeInv, WatcherNext
    PROVE  \/ UNCHANGED <<vqueue, reply>>
           \/ /\ vqueue # <<>> /\ vqueue' = Tail(vqueue)
              /\ reply' = reply \/ vqueue[1].awaited
  <1>1. ASSUME NEW s \in Senders, LookDone(s) \/ send_event(s)
        PROVE  \/ UNCHANGED <<vqueue, reply>>
               \/ /\ vqueue # <<>> /\ vqueue' = Tail(vqueue)
                  /\ reply' = reply \/ vqueue[1].awaited
    <2>1. s = "validator" => vqueue # <<>>
      BY <1>1 DEF TypeInv, Shape, LookDone, send_event, Done
    <2>2. vqueue \in Seq(Request)
      BY DEF TypeInv, TypeOK, QueuesTypeOK
    <2>3. vqueue # <<>> => Head(vqueue) = vqueue[1]
      BY <2>2
    <2> QED
      BY <1>1, <2>1, <2>3 DEF LookDone, send_event, Answer
  <1>2. CASE UNCHANGED <<vqueue, reply>>
    BY <1>2
  <1> QED
    BY <1>1, <1>2 DEF WatcherNext, DeliverBatch, observe, TakeValidation,
       validate_source_snapshot, StartScan, CaptureState, scan_haskell_files, taskVars

\* At most one request in the command channel is awaited, and it carries the snapshot
\* of the running dispatch; an aborted dispatch's requests are answered to nobody.
LEMMA AskedNext == TypeInv /\ Asked /\ [Next]_vars => Asked'
  <1> SUFFICES ASSUME TypeInv, Asked, [Next]_vars PROVE Asked'
    OBVIOUS
  <1>1. vqueue \in Seq(Request)
    BY DEF TypeInv, TypeOK, QueuesTypeOK
  <1>2. CASE UserNext \/ UNCHANGED vars
    BY <1>2 DEF Asked, UserNext, Edit, vars, watcherVars, managerVars, taskVars
  <1>3. CASE WatcherNext
    <2>1. UNCHANGED <<tpc, current>>
      BY <1>3, WatcherFrame DEF managerVars
    <2>2. CASE UNCHANGED <<vqueue, reply>>
      BY <2>1, <2>2 DEF Asked
    <2>3. ASSUME vqueue # <<>>, vqueue' = Tail(vqueue), reply' = reply \/ vqueue[1].awaited
          PROVE  Asked'
      <3>1. \A i \in DOMAIN vqueue' : i + 1 \in DOMAIN vqueue /\ vqueue'[i] = vqueue[i + 1]
                                      /\ i + 1 # 1 /\ i \in Nat
        BY <1>1, <2>3
      <3>2. 1 \in DOMAIN vqueue
        BY <1>1, <2>3
      <3>3. tpc \in Working \union {"classify"} => reply' = "none"
        BY <2>3, <3>2 DEF Asked, Working
      <3>4. ASSUME NEW i \in DOMAIN vqueue', vqueue'[i].awaited
            PROVE  /\ tpc = "awaiting" /\ reply' = "none"
                   /\ vqueue'[i].expected = current.snapshot
                   /\ \A j \in DOMAIN vqueue' : vqueue'[j].awaited => j = i
        <4>1. i + 1 \in DOMAIN vqueue /\ vqueue[i + 1].awaited /\ ~vqueue[1].awaited
          BY <3>1, <3>2, <3>4 DEF Asked
        <4>2. \A j \in DOMAIN vqueue' : vqueue'[j].awaited => j + 1 = i + 1
          BY <3>1, <4>1 DEF Asked
        <4>3. \A j \in DOMAIN vqueue' : vqueue'[j].awaited => j = i
          BY <3>1, <4>2
        <4> QED
          BY <2>3, <3>1, <4>1, <4>3 DEF Asked
      <3> QED
        BY <2>1, <3>3, <3>4 DEF Asked
    <2> QED
      BY <1>3, <2>2, <2>3, VqueueWatcher
  <1>4. CASE ManagerNext
    <2>1. CASE InterruptReload
      <3>1. tpc' = "idle" /\ DOMAIN vqueue' = DOMAIN vqueue
        BY <2>1 DEF InterruptReload
      <3>2. \A i \in DOMAIN vqueue' : ~vqueue'[i].awaited
        <4>1. \A i \in DOMAIN vqueue : vqueue[i] \in Request
          BY <1>1
        <4>2. \A i \in DOMAIN vqueue : [vqueue[i] EXCEPT !.awaited = FALSE].awaited = FALSE
          BY <4>1 DEF Request
        <4> QED
          BY <2>1, <3>1, <4>2 DEF InterruptReload
      <3> QED
        BY <3>1, <3>2 DEF Asked, Working
    <2>2. CASE wait_for_event \/ handle_event \/ FinishDispatch
      <3>1. tpc \in {"idle", "done"} /\ UNCHANGED vqueue
        BY <2>2 DEF TypeInv, Shape, wait_for_event, handle_event, FinishDispatch, watcherVars
      <3>2. tpc' \in {"idle", "done"} \/ (tpc' = "classify" /\ reply' = "none")
        BY <2>2, <3>1 DEF wait_for_event, handle_event, FinishDispatch, taskVars
      <3> QED
        BY <3>1, <3>2 DEF Asked, Working
    <2>3. CASE Coalesce \/ Forward \/ ReceiveWhileDispatching \/ should_interrupt
      BY <2>3 DEF Asked, Coalesce, Forward, ReceiveWhileDispatching, should_interrupt,
         watcherVars, managerVars, taskVars
    <2> QED
      BY <1>4, <2>1, <2>2, <2>3 DEF ManagerNext
  <1>5. CASE TaskNext
    <2>1. UNCHANGED current
      BY <1>5, TaskFrame DEF managerVars
    <2>2. CASE compilation_snapshot_is_current
      <3>1. /\ tpc = "validate" /\ tpc' = "awaiting" /\ UNCHANGED reply
            /\ vqueue' = Append(vqueue, [expected |-> expected, awaited |-> TRUE])
        BY <2>2 DEF compilation_snapshot_is_current
      <3>2. reply = "none" /\ expected = current.snapshot
        BY <3>1 DEF Asked, TypeInv, Shape, Working
      <3>3. \A i \in DOMAIN vqueue : ~vqueue[i].awaited
        BY <3>1 DEF Asked
      <3>4. /\ \A i \in DOMAIN vqueue' : i \in DOMAIN vqueue \/ i = Len(vqueue) + 1
            /\ \A i \in DOMAIN vqueue : vqueue'[i] = vqueue[i]
            /\ vqueue'[Len(vqueue) + 1] = [expected |-> expected, awaited |-> TRUE]
        BY <1>1, <3>1
      <3>5. \A i \in DOMAIN vqueue' : vqueue'[i].awaited =>
                i = Len(vqueue) + 1 /\ vqueue'[i].expected = current.snapshot
        BY <3>2, <3>3, <3>4
      <3> QED
        BY <2>1, <3>1, <3>2, <3>5 DEF Asked, Working
    <2>3. ASSUME UNCHANGED <<vqueue, reply>>, tpc # "awaiting", tpc' # "awaiting",
                 tpc' \in Working => tpc \in Working \union {"classify"}, tpc' # "classify"
          PROVE  Asked'
      BY <2>3 DEF Asked
    <2>4. CASE write_error_log \/ RunAfterHooks \/ finish_compilation
      BY <2>4 DEF Asked, Working, write_error_log, RunAfterHooks, finish_compilation, watcherVars
    <2>5. CASE reload \/ RunBeforeHooks \/ SubmitRemove \/ SubmitAdd \/ CommitAndReload \/ restart
                 \/ synchronize_haskell_files \/ (\E p \in Path : ReadFile(p)) \/ CompileDone
                 \/ AnnounceNone
      BY <2>3, <2>5 DEF Working, reload, RunBeforeHooks, SubmitRemove, SubmitAdd, CommitAndReload,
         restart, synchronize_haskell_files, ReadFile, CompileDone, AnnounceNone, Submit,
         watcherVars
    <2> QED
      BY <1>5, <2>2, <2>4, <2>5 DEF TaskNext
  <1> QED
    BY <1>2, <1>3, <1>4, <1>5 DEF Next

-----------------------------------------------------------------------------
\* validate_source_snapshot: a path found equal to the expected snapshot is loaded
\* with exactly those contents.
LEMMA ValidatedWatcher ==
    ASSUME TypeInv, Compiled, Asked, Validated, WatcherNext PROVE Validated'
  <1>1. UNCHANGED <<disk, tpc, log, current, gtargets, loaded>>
    BY WatcherFrame DEF envVars, managerVars, ghciVars
  <1>2. /\ sender \in [Senders -> SenderState] /\ vqueue \in Seq(Request)
        /\ sender["validator"].pc # "idle" => vqueue # <<>>
        /\ gtargets \subseteq Source
    BY DEF TypeInv, TypeOK, QueuesTypeOK, Shape, GhciTypeOK
  <1> SUFFICES ASSUME log # "empty"
               PROVE  /\ sender'["validator"].pc = "look" /\ vqueue'[1].awaited =>
                            \A q \in gtargets \ sender'["validator"].todo :
                               sender'["validator"].event.events[q] = "none" => LoadedAsClaimed(q)
                      /\ tpc = "awaiting" /\ reply' = "current" =>
                            \A q \in gtargets : LoadedAsClaimed(q)
    BY <1>1 DEF Validated, LoadedAsClaimed
  <1>3. CASE LookDone("validator")
    <2>1. sender'["validator"].pc # "look"
      BY <1>2, <1>3 DEF LookDone, Done, SetSender, Senders, SenderState
    <2>2. ASSUME tpc = "awaiting", reply' = "current", reply # "current"
          PROVE  \A q \in gtargets : LoadedAsClaimed(q)
      <3>1. /\ sender["validator"].pc = "look" /\ sender["validator"].todo = {}
            /\ Hints(sender["validator"].event) = {} /\ vqueue # <<>>
            /\ Head(vqueue).awaited
        BY <1>2, <1>3, <2>2 DEF LookDone, Done, Answer
      <3>2. vqueue[1].awaited
        BY <1>2, <3>1
      <3>3. \A q \in gtargets : sender["validator"].event.events[q] = "none"
        BY <1>2, <3>1 DEF Hints, Path
      <3> QED
        BY <3>1, <3>2, <3>3 DEF Validated
    <2> QED
      BY <2>1, <2>2 DEF Validated
  <1>4. CASE send_event("validator")
    <2>1. sender'["validator"].pc # "look"
      BY <1>2, <1>4 DEF send_event, SetSender, Senders, SenderState
    <2>2. reply' = "current" => reply = "current"
      BY <1>4 DEF send_event, Answer
    <2> QED
      BY <2>1, <2>2 DEF Validated
  <1>5. ASSUME NEW p \in Haskell, validate_source_snapshot(p)
        PROVE  /\ sender'["validator"].pc = "look" /\ vqueue'[1].awaited =>
                     \A q \in gtargets \ sender'["validator"].todo :
                        sender'["validator"].event.events[q] = "none" => LoadedAsClaimed(q)
               /\ tpc = "awaiting" /\ reply' = "current" =>
                     \A q \in gtargets : LoadedAsClaimed(q)
    <2> DEFINE r == sender["validator"]
    <2>1. /\ UNCHANGED <<vqueue, reply>> /\ r.pc = "look" /\ vqueue # <<>>
          /\ sender'["validator"] = [r EXCEPT !.todo = @ \ {p}, !.event.events[p] =
                IF disk[p] # Head(vqueue).expected[p] /\ is_potentially_relevant(p)
                THEN EventKind(disk[p]) ELSE "none"]
      BY <1>2, <1>5 DEF validate_source_snapshot, SetSender, Senders, taskVars
    <2>2. /\ r \in SenderState /\ p \in Path
      BY <1>2 DEF Senders, Haskell, Path
    <2>3. /\ sender'["validator"].todo = r.todo \ {p}
          /\ \A q \in Path \ {p} :
                sender'["validator"].event.events[q] = r.event.events[q]
          /\ sender'["validator"].event.events[p] = "none" /\ p \in Source =>
                disk[p] = Head(vqueue).expected[p]
      BY <2>1, <2>2, PathKindsDisjoint
         DEF SenderState, Event, EventKind, is_potentially_relevant
    <2>4. Head(vqueue) = vqueue[1] /\ 1 \in DOMAIN vqueue
      BY <1>2, <2>1
    <2>5. ASSUME vqueue[1].awaited, NEW q \in gtargets \ sender'["validator"].todo,
                 sender'["validator"].event.events[q] = "none"
          PROVE  LoadedAsClaimed(q)
      <3>1. CASE q = p
        <4>1. vqueue[1].expected = current.snapshot /\ tpc = "awaiting"
          BY <2>4, <2>5 DEF Asked
        <4>2. ReadSince(q)
          BY <4>1 DEF Compiled
        <4> QED
          BY <1>2, <2>3, <2>4, <2>5, <3>1, <4>1, <4>2 DEF ReadSince, LoadedAsClaimed
      <3>2. CASE q # p
        BY <1>2, <2>1, <2>3, <2>5, <3>2 DEF Validated, Path
      <3> QED
        BY <3>1, <3>2
    <2> QED
      BY <2>1, <2>5 DEF Validated
  <1>6. CASE TakeValidation
    <2>1. sender'["validator"].todo = Haskell /\ UNCHANGED reply
      BY <1>2, <1>6 DEF TakeValidation, SetSender, Senders, taskVars
    <2> QED
      BY <1>2, <2>1 DEF Validated, Haskell
  <1>7. CASE UNCHANGED <<vqueue, reply>> /\ sender'["validator"].pc # "look"
    BY <1>7 DEF Validated
  <1>8. CASE UNCHANGED <<vqueue, reply>> /\ sender'["validator"] = sender["validator"]
    BY <1>8 DEF Validated
  <1>9. ASSUME NEW s \in Senders, s = "handler" /\ (LookDone(s) \/ send_event(s))
        PROVE  UNCHANGED <<vqueue, reply>> /\ sender'["validator"] = sender["validator"]
    BY <1>2, <1>9 DEF LookDone, send_event, SetSender, Senders
  <1>10. ASSUME \/ \E batch \in SUBSET Path : DeliverBatch(batch)
                \/ \E p \in Path : observe(p)
         PROVE  UNCHANGED <<vqueue, reply>> /\ sender'["validator"] = sender["validator"]
    BY <1>2, <1>10 DEF DeliverBatch, observe, SetSender, Senders, taskVars
  <1>11. ASSUME NEW s \in Senders, NEW p \in Path,
                CaptureState(s, p) \/ scan_haskell_files(s, p)
         PROVE  /\ UNCHANGED <<vqueue, reply>>
                /\ \/ sender'["validator"] = sender["validator"]
                   \/ sender'["validator"].pc # "look"
    <2>1. sender \in [Senders -> SenderState]
      BY <1>2
    <2>3. CASE CaptureState(s, p)
      <3>1. \E e : sender' = [sender EXCEPT ![s] = [sender[s] EXCEPT !.todo = @ \ {p},
                                                                  !.event = e]]
        BY <2>3 DEF CaptureState, SetSender
      <3>2. sender[s].pc # "look"
        BY <2>3 DEF CaptureState
      <3> QED
        BY <2>1, <2>3, <3>1, <3>2 DEF CaptureState, Senders, SenderState, taskVars
    <2>4. CASE scan_haskell_files(s, p)
      <3>1. \E e : sender' = [sender EXCEPT ![s] = [sender[s] EXCEPT !.todo = @ \ {p},
                                                                  !.event = e]]
        BY <2>4 DEF scan_haskell_files, SetSender
      <3>2. sender[s].pc # "look"
        BY <2>4 DEF scan_haskell_files
      <3> QED
        BY <2>1, <2>4, <3>1, <3>2 DEF scan_haskell_files, Senders, SenderState, taskVars
    <2> QED
      BY <1>11, <2>3, <2>4
  <1>12. ASSUME NEW s \in Senders, StartScan(s)
         PROVE  /\ UNCHANGED <<vqueue, reply>>
                /\ \/ sender'["validator"] = sender["validator"]
                   \/ sender'["validator"].pc # "look"
    BY <1>2, <1>12 DEF StartScan, SetSender, Senders, SenderState, taskVars
  <1> QED
    BY <1>3, <1>4, <1>5, <1>6, <1>7, <1>8, <1>9, <1>10, <1>11, <1>12 DEF WatcherNext, Senders

\* No later step, an edit included, invalidates what the validator established.
LEMMA ValidatedNext == TypeInv /\ Compiled /\ Asked /\ Validated /\ [Next]_vars => Validated'
  <1> SUFFICES ASSUME TypeInv, Compiled, Asked, Validated, [Next]_vars PROVE Validated'
    OBVIOUS
  <1>1. CASE UserNext \/ UNCHANGED vars
    BY <1>1 DEF Validated, LoadedAsClaimed, UserNext, Edit, vars, watcherVars, managerVars,
       taskVars, ghciVars
  <1>2. vqueue \in Seq(Request) /\ (sender["validator"].pc # "idle" => vqueue # <<>>)
    BY DEF TypeInv, TypeOK, QueuesTypeOK, Shape
  <1>3. sender["validator"].pc = "look" /\ tpc # "awaiting" => ~vqueue[1].awaited
    <2>1. sender["validator"].pc = "look" => 1 \in DOMAIN vqueue
      BY <1>2
    <2> QED
      BY <2>1 DEF Asked
  <1>4. CASE ManagerNext
    <2>1. UNCHANGED <<sender, log, gtargets, loaded>>
      BY <1>4, ManagerFrame DEF ghciVars
    <2>2. CASE UNCHANGED <<vqueue, tpc, reply, current>>
      BY <2>1, <2>2 DEF Validated, LoadedAsClaimed
    <2>3. CASE UNCHANGED vqueue /\ tpc # "awaiting" /\ tpc' # "awaiting"
      BY <1>3, <2>1, <2>3 DEF Validated
    <2>4. CASE InterruptReload
      <3>1. sender["validator"].pc = "look" => 1 \in DOMAIN vqueue /\ vqueue[1] \in Request
        BY <1>2
      <3>2. sender["validator"].pc = "look" => ~vqueue'[1].awaited
        BY <2>4, <3>1 DEF InterruptReload, Request
      <3>3. tpc' = "idle"
        BY <2>4 DEF InterruptReload
      <3> QED
        BY <2>1, <3>2, <3>3 DEF Validated
    <2> QED
      BY <1>4, <2>2, <2>3, <2>4 DEF TypeInv, Shape, ManagerNext, Coalesce, Forward,
         wait_for_event, handle_event, ReceiveWhileDispatching, should_interrupt,
         FinishDispatch, watcherVars, managerVars, taskVars
  <1>5. CASE TaskNext
    <2>1. UNCHANGED <<sender, current>>
      BY <1>5, TaskFrame DEF managerVars
    <2>2. CASE compilation_snapshot_is_current
      <3>1. tpc = "validate" /\ UNCHANGED <<reply, gtargets, loaded, log>>
        BY <2>2 DEF compilation_snapshot_is_current, ghciVars
      <3>2. reply = "none"
        BY <3>1 DEF Asked, Working
      <3>3. sender["validator"].pc = "look" => vqueue'[1] = vqueue[1]
        BY <1>2, <2>2 DEF compilation_snapshot_is_current
      <3> QED
        BY <1>3, <2>1, <3>1, <3>2, <3>3 DEF Validated
    <2>3. ASSUME UNCHANGED vqueue, tpc # "awaiting", tpc' # "awaiting" PROVE Validated'
      BY <1>3, <2>1, <2>3 DEF Validated
    <2>4. CASE write_error_log
      BY <2>1, <2>4 DEF Validated, LoadedAsClaimed, write_error_log, watcherVars, ghciVars
    <2>5. ASSUME TaskNext, ~compilation_snapshot_is_current, ~write_error_log
          PROVE  UNCHANGED vqueue /\ tpc # "awaiting" /\ tpc' # "awaiting"
      BY <2>5 DEF TaskNext, reload, RunBeforeHooks, SubmitRemove, SubmitAdd, CommitAndReload,
         restart, synchronize_haskell_files, ReadFile, CompileDone, AnnounceNone, RunAfterHooks,
         finish_compilation, Submit, watcherVars
    <2> QED
      BY <1>5, <2>2, <2>3, <2>4, <2>5
  <1> QED
    BY <1>1, <1>4, <1>5, ValidatedWatcher DEF Next

\* write_error_log publishes only on the answer "current".
LEMMA PublishedNext ==
    TypeInv /\ Validated /\ PublishedIsWhatWasCompiled /\ [Next]_vars => PublishedIsWhatWasCompiled'
  <1> SUFFICES ASSUME TypeInv, Validated, PublishedIsWhatWasCompiled, [Next]_vars
               PROVE  PublishedIsWhatWasCompiled'
    OBVIOUS
  <1>1. CASE UNCHANGED published
    BY <1>1 DEF PublishedIsWhatWasCompiled
  <1>2. CASE write_error_log
    BY <1>1, <1>2 DEF write_error_log, PublishedIsWhatWasCompiled, Validated, LoadedAsClaimed
  <1>3. ASSUME TaskNext, ~write_error_log PROVE UNCHANGED published
    BY <1>3 DEF TaskNext, reload, RunBeforeHooks, SubmitRemove, SubmitAdd, CommitAndReload,
       restart, synchronize_haskell_files, ReadFile, CompileDone, AnnounceNone,
       compilation_snapshot_is_current, RunAfterHooks, finish_compilation
  <1> QED
    BY <1>1, <1>2, <1>3, WatcherFrame, ManagerFrame DEF Next, UserNext, Edit, vars

\* The first error log, of the startup compilation, satisfies the invariant.
LEMMA PublicationInit == Init => PublicationInv
  <1> SUFFICES ASSUME Init PROVE PublicationInv
    OBVIOUS
  <1>1. Seen
    BY DEF Init, Seen, Senders
  <1>2. Compiled /\ Asked
    BY DEF Init, Compiled, Asked, Working
  <1>3. Validated
    BY DEF Init, Validated
  <1>4. PublishedIsWhatWasCompiled
    <2>1. /\ published.targets = gtargets /\ published.compiled = loaded
          /\ published.claimed = [p \in Haskell |-> disk[p]]
          /\ loaded = [p \in Path |-> IF p \in Source \ gtargets THEN Missing ELSE disk[p]]
      BY DEF Init
    <2>2. gtargets \subseteq Haskell /\ gtargets \subseteq Path
      BY TypeInit DEF TypeInv, TypeOK, GhciTypeOK, Haskell, Path
    <2> QED
      BY <2>1, <2>2 DEF PublishedIsWhatWasCompiled
  <1> QED
    BY <1>1, <1>2, <1>3, <1>4, TypeInit DEF PublicationInv

\* Theorem: a published result describes exactly the contents it claims, for any
\* number of files, edits and queue slots and every option of the program, as long
\* as no edit restores contents that the file had before. Between the compilation's
\* reads and the validator's reads the file may change at any point; the validator
\* (validate_source_snapshot) then suppresses the publication in write_error_log.
THEOREM PublicationCorrect == (Reverts = FALSE) => (Spec => []PublishedIsWhatWasCompiled)
  <1> SUFFICES ASSUME Reverts = FALSE PROVE Spec => []PublishedIsWhatWasCompiled
    OBVIOUS
  <1>1. PublicationInv /\ [Next]_vars => PublicationInv'
    BY TypeNext, SeenNext, CompiledNext, AskedNext, ValidatedNext, PublishedNext
       DEF PublicationInv
  <1>2. PublicationInv => PublishedIsWhatWasCompiled
    BY DEF PublicationInv
  <1> QED
    BY PublicationInit, <1>1, <1>2, PTL DEF Spec

-----------------------------------------------------------------------------
(***************************************************************************)
(* Follow-ups.  At rest, the snapshot the manager applied last is that of  *)
(* the files.  Without reverts a file never returns to a state that a      *)
(* snapshot holds, so of a path p it matters only whether a snapshot holds *)
(* its present state.  CaughtUp says that as long as the newest event sent *)
(* does not, p is still to be noticed: the debouncer has not told of the   *)
(* last edit, a sender has p in hand, the dispatch is not validated yet,   *)
(* or an event is waiting that will be dispatched and validated in turn.   *)
(***************************************************************************)
\* The snapshot taken up last: that of the dispatch, or the one applied.
Base == IF mpc # "wait" THEN current.snapshot
        ELSE IF appliedSnap # NoSnapshot THEN appliedSnap ELSE published.claimed

\* The snapshot of the newest event sent; merging keeps the newest snapshot.
Newest == IF ghciChan # <<>> THEN ghciChan[Len(ghciChan)].snapshot
          ELSE IF coalesced # NoEvent THEN coalesced.snapshot
          ELSE IF dispatchChan # <<>> THEN dispatchChan[1].snapshot
          ELSE IF incoming # NoEvent THEN incoming.snapshot
          ELSE IF pending # NoEvent THEN pending.snapshot
          ELSE Base

Undispatched == \/ ghciChan # <<>> \/ coalesced # NoEvent \/ dispatchChan # <<>>
                \/ incoming # NoEvent \/ pending # NoEvent

\* Events are waiting that discard_applied cannot discard.
WillDispatch == Undispatched /\ (Newest # Base \/ (mpc = "wait" /\ appliedSnap = NoSnapshot))

\* The dispatch has not asked for validation yet; or it has, and the validator has
\* not come to p.
Unvalidated == mpc = "start" \/ tpc \in Working \union {"classify"}
Queued(p) ==
    /\ tpc = "awaiting"
    /\ \E i \in DOMAIN vqueue :
          /\ vqueue[i].awaited
          /\ i = 1 => \/ sender["validator"].pc = "idle"
                      \/ sender["validator"].pc = "look" /\ p \in sender["validator"].todo
DetectionAhead(p) ==
    mpc # "wait" /\ current.snapshot[p] # disk[p] /\ (Unvalidated \/ Queued(p))

\* The sender has noticed p, and its event will hold p as it is.
Seeing(s, p) ==
    /\ sender[s].event.events[p] # "none"
    /\ \/ sender[s].pc \in {"look", "states"}
       \/ sender[s].pc = "scan" /\ (p \in sender[s].todo \/ sender[s].event.snapshot[p] = disk[p])

CaughtUp(p) ==
    \/ Newest[p] = disk[p]
    \/ content[p] # disk[p]
    \/ \E s \in Senders : Seeing(s, p)
    \/ DetectionAhead(p)
    \/ WillDispatch

Relevant == Haskell \ Ignored
CatchUp == \A p \in Relevant : CaughtUp(p)

\* When the manager holds a second event.
AtHand ==
    /\ incoming # NoEvent => mpc \in {"deciding", "abort"}
    /\ pending # NoEvent => mpc \in {"dispatch", "deciding", "abort"}

\* What the program remembers of a file was on disk, and the debouncer still holds
\* a notification for a file that changed since it was observed.
Remembered ==
    /\ \A p \in Path : content[p] \in used[p]
    /\ \A p \in Path : content[p] # disk[p] =>
          \/ p \in notified
          \/ sender["handler"].pc = "look" /\ p \in sender["handler"].todo
    /\ appliedSnap # NoSnapshot => \A p \in Haskell : appliedSnap[p] \in used[p]
    /\ \A i \in DOMAIN vqueue : \A p \in Haskell : vqueue[i].expected[p] \in used[p]

\* A look starts from no hints, and never hints an irrelevant path.
Looking == \A s \in Senders : \A p \in Path :
    /\ sender[s].pc = "look" /\ p \in sender[s].todo => sender[s].event.events[p] = "none"
    /\ sender[s].pc # "idle" /\ p \in Ignored => sender[s].event.events[p] = "none"

\* A file that changed since the handler scanned it has not been observed since.
HandlerLate == \A p \in Haskell :
    /\ sender["handler"].pc = "scan" /\ p \notin sender["handler"].todo
    /\ sender["handler"].event.snapshot[p] # disk[p]
    => content[p] # disk[p]

\* What the validator noticed differs from the snapshot it was asked about, and so
\* will the snapshot of its follow-up.
Differs ==
    /\ sender["validator"].pc = "look" => \A q \in Path :
         sender["validator"].event.events[q] # "none" =>
            q \in Haskell /\ disk[q] # vqueue[1].expected[q]
    /\ sender["validator"].pc \in {"states", "scan"} => \E q \in Relevant :
          /\ disk[q] # vqueue[1].expected[q]
          /\ sender["validator"].pc = "scan" =>
                \/ q \in sender["validator"].todo
                \/ sender["validator"].event.snapshot[q] # vqueue[1].expected[q]

\* The request of the running dispatch is the last in the queue; while a request of
\* an aborted dispatch is left, the running one is not validated.
Orphans ==
    /\ \A i \in DOMAIN vqueue : vqueue[i].awaited => i = Len(vqueue)
    /\ \A i \in DOMAIN vqueue : ~vqueue[i].awaited =>
          /\ mpc # "wait"
          /\ Unvalidated \/ (tpc = "awaiting" /\ \E j \in DOMAIN vqueue : vqueue[j].awaited)

\* A superseded dispatch left a file that is not as it took it.
Outdated == reply = "superseded" /\ mpc # "start" =>
    /\ mpc = "wait" => appliedSnap # NoSnapshot
    /\ \E q \in Relevant : disk[q] # Base[q]

\* Any other dispatch published what GHCi has loaded, under the snapshot applied.
UpToDate ==
    /\ mpc = "wait" /\ reply # "superseded" =>
          /\ published.compiled = loaded
          /\ appliedSnap # NoSnapshot => published.claimed = appliedSnap
    /\ tpc \in {"after", "post", "done"} /\ reply # "superseded" =>
          published.compiled = loaded /\ published.claimed = current.snapshot

FollowUpInv ==
    /\ TypeInv /\ Seen /\ Asked /\ AtHand /\ Remembered /\ Looking /\ HandlerLate /\ Differs
    /\ Orphans /\ CatchUp /\ Outdated /\ UpToDate

-----------------------------------------------------------------------------
\* What a step of the debouncer thread or the validator does to the two senders.
LEMMA SetSenderFacts ==
    ASSUME TypeInv, NEW s \in Senders, NEW r, SetSender(s, r)
    PROVE  sender'[s] = r /\ \A t \in Senders : t # s => sender'[t] = sender[t]
  BY DEF TypeInv, TypeOK, QueuesTypeOK, SetSender

LEMMA SenderTypes ==
    ASSUME TypeInv
    PROVE  /\ \A s \in Senders : sender[s] \in SenderState
           /\ "handler" \in Senders /\ "validator" \in Senders
           /\ Haskell \subseteq Path /\ Relevant \subseteq Haskell
           /\ vqueue \in Seq(Request) /\ ghciChan \in Seq(Event)
           /\ sender["validator"].pc # "idle" => vqueue # <<>>
  BY DEF TypeInv, TypeOK, QueuesTypeOK, Shape, Senders, Haskell, Path, Relevant

\* EventHandler::handle_event takes a batch; no path is hinted yet.
LEMMA DeliverFacts ==
    ASSUME TypeInv, NEW batch \in SUBSET Path, DeliverBatch(batch)
    PROVE  /\ sender["handler"].pc = "idle" /\ batch \subseteq notified
           /\ notified' = notified \ batch
           /\ sender'["validator"] = sender["validator"]
           /\ sender'["handler"].pc = "look" /\ sender'["handler"].todo = batch
           /\ \A p \in Path : sender'["handler"].event.events[p] = "none"
           /\ UNCHANGED <<content, vqueue, ghciChan, reply>>
  <1>1. /\ SetSender("handler", [pc |-> "look", todo |-> batch,
                                 event |-> BlankEvent([p \in Haskell |-> Missing])])
        /\ sender["handler"].pc = "idle" /\ batch \subseteq notified
        /\ notified' = notified \ batch
        /\ UNCHANGED <<content, vqueue, ghciChan, reply>>
    BY DEF DeliverBatch, queueVars, taskVars
  <1>2. /\ sender'["handler"] = [pc |-> "look", todo |-> batch,
                                 event |-> BlankEvent([p \in Haskell |-> Missing])]
        /\ sender'["validator"] = sender["validator"]
    BY <1>1, SetSenderFacts DEF Senders
  <1>3. \A p \in Path : BlankEvent([q \in Haskell |-> Missing]).events[p] = "none"
    BY DEF BlankEvent
  <1> QED
    BY <1>1, <1>2, <1>3

\* ContentChanges::observe hints a relevant path that changed, and remembers it.
LEMMA ObserveFacts ==
    ASSUME TypeInv, NEW p \in Path, observe(p)
    PROVE  /\ sender["handler"].pc = "look" /\ p \in sender["handler"].todo
           /\ content'[p] = disk[p] /\ \A q \in Path : q # p => content'[q] = content[q]
           /\ sender'["validator"] = sender["validator"]
           /\ sender'["handler"].pc = "look"
           /\ sender'["handler"].todo = sender["handler"].todo \ {p}
           /\ p \in Ignored => sender'["handler"].event.events[p] = "none"
           /\ p \notin Ignored /\ disk[p] # content[p] =>
                sender'["handler"].event.events[p] # "none"
           /\ \A q \in Path : q # p =>
                sender'["handler"].event.events[q] = sender["handler"].event.events[q]
           /\ UNCHANGED <<notified, vqueue, ghciChan, reply>>
  <1> DEFINE r == sender["handler"]
             v == IF disk[p] # content[p] /\ is_potentially_relevant(p)
                  THEN EventKind(disk[p]) ELSE "none"
             n == [r EXCEPT !.todo = @ \ {p}, !.event.events[p] = v]
  <1>1. /\ SetSender("handler", n) /\ r.pc = "look" /\ p \in r.todo
        /\ content' = [content EXCEPT ![p] = disk[p]]
        /\ UNCHANGED <<notified, vqueue, ghciChan, reply>>
    BY DEF observe, queueVars, taskVars
  <1>2. content \in [Path -> FileState] /\ r \in SenderState
    BY SenderTypes DEF TypeInv, TypeOK, FilesTypeOK
  <1>3. sender'["handler"] = n /\ sender'["validator"] = sender["validator"]
    BY <1>1, SetSenderFacts DEF Senders
  <1>4. /\ p \in Ignored => v = "none"
        /\ p \notin Ignored /\ disk[p] # content[p] => v # "none"
    BY DEF is_potentially_relevant, EventKind
  <1> HIDE DEF v
  <1>5. /\ n.pc = r.pc /\ n.todo = r.todo \ {p} /\ n.event.events[p] = v
        /\ \A q \in Path : q # p => n.event.events[q] = r.event.events[q]
    <2>1. r.event.events \in [Path -> {"none", "modify", "remove"}]
      BY <1>2 DEF SenderState, Event
    <2>2. /\ n.pc = r.pc /\ n.todo = r.todo \ {p}
          /\ n.event.events = [r.event.events EXCEPT ![p] = v]
      BY <1>2 DEF SenderState, Event
    <2> QED
      BY <2>1, <2>2
  <1> HIDE DEF n
  <1> QED
    BY <1>1, <1>2, <1>3, <1>4, <1>5

\* run_debouncer takes a validation request; no path is hinted yet.
LEMMA TakeFacts ==
    ASSUME TypeInv, TakeValidation
    PROVE  /\ sender["validator"].pc = "idle"
           /\ sender'["handler"] = sender["handler"]
           /\ sender'["validator"].pc = "look" /\ sender'["validator"].todo = Haskell
           /\ \A p \in Path : sender'["validator"].event.events[p] = "none"
           /\ UNCHANGED <<notified, content, vqueue, ghciChan, reply>>
  <1>1. /\ SetSender("validator", [pc |-> "look", todo |-> Haskell,
                                   event |-> BlankEvent([p \in Haskell |-> Missing])])
        /\ sender["validator"].pc = "idle"
        /\ UNCHANGED <<notified, content, vqueue, ghciChan, reply>>
    BY DEF TakeValidation, queueVars, taskVars
  <1>2. /\ sender'["validator"] = [pc |-> "look", todo |-> Haskell,
                                   event |-> BlankEvent([p \in Haskell |-> Missing])]
        /\ sender'["handler"] = sender["handler"]
    BY <1>1, SetSenderFacts DEF Senders
  <1>3. \A p \in Path : BlankEvent([q \in Haskell |-> Missing]).events[p] = "none"
    BY DEF BlankEvent
  <1> QED
    BY <1>1, <1>2, <1>3

\* validate_source_snapshot hints a relevant path that is not as expected.
LEMMA ValidateFacts ==
    ASSUME TypeInv, NEW p \in Haskell, validate_source_snapshot(p)
    PROVE  /\ sender["validator"].pc = "look" /\ p \in sender["validator"].todo
           /\ sender'["handler"] = sender["handler"]
           /\ sender'["validator"].pc = "look"
           /\ sender'["validator"].todo = sender["validator"].todo \ {p}
           /\ p \in Ignored \/ disk[p] = vqueue[1].expected[p] =>
                sender'["validator"].event.events[p] = "none"
           /\ p \notin Ignored /\ disk[p] # vqueue[1].expected[p] =>
                sender'["validator"].event.events[p] # "none"
           /\ \A q \in Path : q # p =>
                sender'["validator"].event.events[q] = sender["validator"].event.events[q]
           /\ UNCHANGED <<notified, content, vqueue, ghciChan, reply>>
  <1> DEFINE r == sender["validator"]
             v == IF disk[p] # Head(vqueue).expected[p] /\ is_potentially_relevant(p)
                  THEN EventKind(disk[p]) ELSE "none"
             n == [r EXCEPT !.todo = @ \ {p}, !.event.events[p] = v]
  <1>1. /\ SetSender("validator", n) /\ r.pc = "look" /\ p \in r.todo
        /\ UNCHANGED <<notified, content, vqueue, ghciChan, reply>>
    BY DEF validate_source_snapshot, queueVars, taskVars
  <1>2. r \in SenderState /\ p \in Path
    BY SenderTypes
  <1>3. sender'["validator"] = n /\ sender'["handler"] = sender["handler"]
    BY <1>1, SetSenderFacts DEF Senders
  <1>4. Head(vqueue) = vqueue[1]
    BY <1>1, SenderTypes
  <1>5. /\ p \in Ignored \/ disk[p] = vqueue[1].expected[p] => v = "none"
        /\ p \notin Ignored /\ disk[p] # vqueue[1].expected[p] => v # "none"
    BY <1>4 DEF is_potentially_relevant, EventKind
  <1> HIDE DEF v
  <1>6. /\ n.pc = r.pc /\ n.todo = r.todo \ {p} /\ n.event.events[p] = v
        /\ \A q \in Path : q # p => n.event.events[q] = r.event.events[q]
    <2>1. r.event.events \in [Path -> {"none", "modify", "remove"}]
      BY <1>2 DEF SenderState, Event
    <2>2. /\ n.pc = r.pc /\ n.todo = r.todo \ {p}
          /\ n.event.events = [r.event.events EXCEPT ![p] = v]
      BY <1>2 DEF SenderState, Event
    <2> QED
      BY <1>2, <2>1, <2>2
  <1> HIDE DEF n
  <1> QED
    BY <1>1, <1>3, <1>5, <1>6

\* The look of sender s is over: with no hint it is idle again, else it captures
\* the states of the hinted paths.
LEMMA LookDoneFacts ==
    ASSUME TypeInv, NEW s \in Senders, LookDone(s)
    PROVE  /\ sender[s].pc = "look" /\ sender[s].todo = {}
           /\ \A t \in Senders : t # s => sender'[t] = sender[t]
           /\ \/ /\ Hints(sender[s].event) = {} /\ sender'[s].pc = "idle"
                 /\ IF s = "validator" THEN Answer("current") ELSE UNCHANGED <<vqueue, reply>>
              \/ /\ Hints(sender[s].event) # {} /\ sender'[s].pc = "states"
                 /\ UNCHANGED <<vqueue, reply>>
           /\ sender'[s].event = sender[s].event
           /\ UNCHANGED <<notified, content, ghciChan>>
  <1>1. sender[s] \in SenderState
    BY SenderTypes
  <1>2. /\ sender[s].pc = "look" /\ sender[s].todo = {}
        /\ UNCHANGED <<notified, content, ghciChan>>
    BY DEF LookDone, Done, queueVars
  <1>3. CASE Hints(sender[s].event) = {}
    <2>1. /\ SetSender(s, [sender[s] EXCEPT !.pc = "idle"])
          /\ IF s = "validator" THEN Answer("current") ELSE UNCHANGED <<vqueue, reply>>
      BY <1>3 DEF LookDone
    <2>2. /\ sender'[s] = [sender[s] EXCEPT !.pc = "idle"]
          /\ \A t \in Senders : t # s => sender'[t] = sender[t]
      BY <2>1, SetSenderFacts
    <2>3. sender'[s].pc = "idle" /\ sender'[s].event = sender[s].event
      BY <1>1, <2>2 DEF SenderState
    <2> QED
      BY <1>2, <1>3, <2>1, <2>2, <2>3
  <1>4. CASE Hints(sender[s].event) # {}
    <2>1. /\ SetSender(s, [sender[s] EXCEPT !.pc = "states", !.todo = Hints(sender[s].event)])
          /\ UNCHANGED <<vqueue, reply>>
      BY <1>4 DEF LookDone
    <2>2. /\ sender'[s] = [sender[s] EXCEPT !.pc = "states", !.todo = Hints(sender[s].event)]
          /\ \A t \in Senders : t # s => sender'[t] = sender[t]
      BY <2>1, SetSenderFacts
    <2>3. sender'[s].pc = "states" /\ sender'[s].event = sender[s].event
      BY <1>1, <2>2 DEF SenderState
    <2> QED
      BY <1>2, <1>4, <2>1, <2>2, <2>3
  <1> QED
    BY <1>3, <1>4

\* file_states adds a state; the hints stay as they are.
LEMMA CaptureFacts ==
    ASSUME TypeInv, NEW s \in Senders, NEW p \in Path, CaptureState(s, p)
    PROVE  /\ sender[s].pc = "states" /\ sender'[s].pc = "states"
           /\ \A t \in Senders : t # s => sender'[t] = sender[t]
           /\ sender'[s].event.events = sender[s].event.events
           /\ UNCHANGED <<notified, content, vqueue, ghciChan, reply>>
  <1> DEFINE n == [sender[s] EXCEPT !.todo = @ \ {p}, !.event.states[p] = disk[p]]
  <1>1. /\ SetSender(s, n) /\ sender[s].pc = "states"
        /\ UNCHANGED <<notified, content, vqueue, ghciChan, reply>>
    BY DEF CaptureState, queueVars, taskVars
  <1>2. sender[s] \in SenderState
    BY SenderTypes
  <1>3. sender'[s] = n /\ \A t \in Senders : t # s => sender'[t] = sender[t]
    BY <1>1, SetSenderFacts
  <1>4. n.pc = sender[s].pc /\ n.event.events = sender[s].event.events
    BY <1>2 DEF SenderState, Event
  <1> HIDE DEF n
  <1> QED
    BY <1>1, <1>3, <1>4

\* scan_haskell_files starts with every Haskell source to visit.
LEMMA StartScanFacts ==
    ASSUME TypeInv, NEW s \in Senders, StartScan(s)
    PROVE  /\ sender[s].pc = "states"
           /\ \A t \in Senders : t # s => sender'[t] = sender[t]
           /\ sender'[s].pc = "scan" /\ sender'[s].todo = Haskell
           /\ sender'[s].event = sender[s].event
           /\ UNCHANGED <<notified, content, vqueue, ghciChan, reply>>
  <1>1. /\ SetSender(s, [sender[s] EXCEPT !.pc = "scan", !.todo = Haskell])
        /\ sender[s].pc = "states"
        /\ UNCHANGED <<notified, content, vqueue, ghciChan, reply>>
    BY DEF StartScan, Done, queueVars, taskVars
  <1>2. sender[s] \in SenderState
    BY SenderTypes
  <1>3. /\ sender'[s] = [sender[s] EXCEPT !.pc = "scan", !.todo = Haskell]
        /\ \A t \in Senders : t # s => sender'[t] = sender[t]
    BY <1>1, SetSenderFacts
  <1> QED
    BY <1>1, <1>2, <1>3 DEF SenderState

\* ... and records each as it is on disk.
LEMMA ScanFacts ==
    ASSUME TypeInv, NEW s \in Senders, NEW p \in Path, scan_haskell_files(s, p)
    PROVE  /\ sender[s].pc = "scan" /\ sender'[s].pc = "scan" /\ p \in sender[s].todo
           /\ \A t \in Senders : t # s => sender'[t] = sender[t]
           /\ sender'[s].todo = sender[s].todo \ {p}
           /\ sender'[s].event.events = sender[s].event.events
           /\ p \in Haskell => sender'[s].event.snapshot[p] = disk[p]
           /\ \A q \in Haskell : q # p =>
                sender'[s].event.snapshot[q] = sender[s].event.snapshot[q]
           /\ UNCHANGED <<notified, content, vqueue, ghciChan, reply>>
  <1> DEFINE n == [sender[s] EXCEPT !.todo = @ \ {p}, !.event.snapshot[p] = disk[p]]
  <1>1. /\ SetSender(s, n) /\ sender[s].pc = "scan" /\ p \in sender[s].todo
        /\ UNCHANGED <<notified, content, vqueue, ghciChan, reply>>
    BY DEF scan_haskell_files, queueVars, taskVars
  <1>2. sender[s] \in SenderState
    BY SenderTypes
  <1>3. sender'[s] = n /\ \A t \in Senders : t # s => sender'[t] = sender[t]
    BY <1>1, SetSenderFacts
  <1>4. /\ n.pc = sender[s].pc /\ n.todo = sender[s].todo \ {p}
        /\ n.event.events = sender[s].event.events
        /\ n.event.snapshot = [sender[s].event.snapshot EXCEPT ![p] = disk[p]]
    BY <1>2 DEF SenderState, Event
  <1>5. sender[s].event.snapshot \in [Haskell -> FileState]
    BY <1>2 DEF SenderState, Event, SourceSnapshot
  <1> HIDE DEF n
  <1> QED
    BY <1>1, <1>3, <1>4, <1>5

\* send_event: the event of sender s is the newest one sent.
LEMMA SendFacts ==
    ASSUME TypeInv, NEW s \in Senders, send_event(s)
    PROVE  /\ sender[s].pc = "scan" /\ sender[s].todo = {} /\ sender'[s].pc = "idle"
           /\ \A t \in Senders : t # s => sender'[t] = sender[t]
           /\ ghciChan' # <<>> /\ ghciChan'[Len(ghciChan')] = sender[s].event
           /\ IF s = "validator" THEN Answer("superseded") ELSE UNCHANGED <<vqueue, reply>>
           /\ UNCHANGED <<notified, content>>
  <1>1. /\ SetSender(s, [sender[s] EXCEPT !.pc = "idle"])
        /\ sender[s].pc = "scan" /\ sender[s].todo = {}
        /\ ghciChan' = Append(ghciChan, sender[s].event)
        /\ IF s = "validator" THEN Answer("superseded") ELSE UNCHANGED <<vqueue, reply>>
        /\ UNCHANGED <<notified, content>>
    BY DEF send_event, Done
  <1>2. sender[s] \in SenderState /\ ghciChan \in Seq(Event)
    BY SenderTypes
  <1>3. /\ sender'[s] = [sender[s] EXCEPT !.pc = "idle"]
        /\ \A t \in Senders : t # s => sender'[t] = sender[t]
    BY <1>1, SetSenderFacts
  <1>4. sender'[s].pc = "idle"
    BY <1>2, <1>3 DEF SenderState
  <1>5. sender[s].event \in Event
    BY <1>2 DEF SenderState
  <1>6. ghciChan' # <<>> /\ ghciChan'[Len(ghciChan')] = sender[s].event
    BY <1>1, <1>2, <1>5
  <1> QED
    BY <1>1, <1>3, <1>4, <1>6

\* What is left of the command channel once its first request is answered.
LEMMA AnsweredFacts ==
    ASSUME NEW q \in Seq(Request), q # <<>>, NEW t, t = Tail(q)
    PROVE  /\ Len(t) = Len(q) - 1 /\ Len(q) \in Nat /\ 1 \in DOMAIN q /\ Head(q) = q[1]
           /\ \A i \in DOMAIN t : i \in Nat /\ i + 1 \in DOMAIN q /\ t[i] = q[i + 1]
           /\ \A i \in DOMAIN q : i # 1 => i - 1 \in DOMAIN t /\ t[i - 1] = q[i]
OBVIOUS

\* An aborted dispatch's requests stay in the command channel, but nobody awaits them.
LEMMA AbandonedFacts ==
    ASSUME NEW q \in Seq(Request), NEW t,
           t = [i \in DOMAIN q |-> [q[i] EXCEPT !.awaited = FALSE]]
    PROVE  DOMAIN t = DOMAIN q /\ \A i \in DOMAIN q : ~t[i].awaited /\ t[i].expected = q[i].expected
  <1>1. ASSUME NEW i \in DOMAIN q PROVE ~t[i].awaited /\ t[i].expected = q[i].expected
    <2>1. q[i] \in Request /\ t[i] = [q[i] EXCEPT !.awaited = FALSE]
      OBVIOUS
    <2> QED
      BY <2>1 DEF Request
  <1> QED
    BY <1>1

\* Only the watcher's own steps touch the senders and the observed contents.
LEMMA SenderFrame ==
    ASSUME [Next]_vars, ~WatcherNext PROVE UNCHANGED <<sender, content>>
  BY TaskFrame, ManagerFrame DEF Next, UserNext, Edit, vars, watcherVars

\* ... only an edit touches the files.
LEMMA DiskFrame ==
    ASSUME [Next]_vars, ~UserNext PROVE UNCHANGED <<disk, used>>
  BY TaskFrame, ManagerFrame, WatcherFrame DEF Next, vars, envVars

\* An edit leaves all but the files and their notifications alone; without reverts
\* it makes a state that the file never had.
LEMMA EditFacts ==
    ASSUME TypeInv, NEW p \in Path, NEW s \in FileState, Edit(p, s)
    PROVE  /\ disk'[p] = s /\ \A q \in Path : q # p => disk'[q] = disk[q]
           /\ \A q \in Path : used[q] \subseteq used'[q]
           /\ Reverts \/ s \notin used[p]
           /\ notified' = notified \union {p}
           /\ UNCHANGED <<content, sender, vqueue, ghciChan, coalesced, dispatchChan, mpc,
                          current, incoming, pending, appliedSnap, tpc, reply, loaded, published,
                          hooks, log, acts, pendingTest, untested>>
  BY DEF Edit, TypeInv, TypeOK, FilesTypeOK, queueVars, managerVars, taskVars, ghciVars

-----------------------------------------------------------------------------
\* observe and validate_source_snapshot look at each path once.
LEMMA LookingNext == TypeInv /\ Looking /\ [Next]_vars => Looking'
  <1> SUFFICES ASSUME TypeInv, Looking, [Next]_vars PROVE Looking'
    OBVIOUS
  <1>1. CASE ~WatcherNext
    BY <1>1, SenderFrame DEF Looking
  <1> DEFINE Fine(r) == \A p \in Path :
                /\ r.pc = "look" /\ p \in r.todo => r.event.events[p] = "none"
                /\ r.pc # "idle" /\ p \in Ignored => r.event.events[p] = "none"
  <1>2. \A s \in Senders : Fine(sender[s])
    BY DEF Looking
  <1>3. Senders = {"handler", "validator"}
    BY DEF Senders
  <1> SUFFICES ASSUME WatcherNext PROVE \A s \in Senders : Fine(sender'[s])
    BY <1>1 DEF Looking
  <1>4. ASSUME NEW batch \in SUBSET Path, DeliverBatch(batch)
        PROVE \A s \in Senders : Fine(sender'[s])
    BY <1>2, <1>3, <1>4, DeliverFacts
  <1>5. ASSUME NEW p \in Path, observe(p) PROVE \A s \in Senders : Fine(sender'[s])
    BY <1>2, <1>3, <1>5, ObserveFacts
  <1>6. CASE TakeValidation
    BY <1>2, <1>3, <1>6, TakeFacts
  <1>7. ASSUME NEW p \in Haskell, validate_source_snapshot(p)
        PROVE \A s \in Senders : Fine(sender'[s])
    <2>1. p \in Path
      BY SenderTypes
    <2> QED
      BY <1>2, <1>3, <1>7, <2>1, ValidateFacts
  <1>8. ASSUME NEW s \in Senders, LookDone(s) PROVE \A t \in Senders : Fine(sender'[t])
    BY <1>2, <1>8, LookDoneFacts
  <1>9. ASSUME NEW s \in Senders, NEW p \in Path, CaptureState(s, p)
        PROVE  \A t \in Senders : Fine(sender'[t])
    BY <1>2, <1>9, CaptureFacts
  <1>10. ASSUME NEW s \in Senders, StartScan(s) PROVE \A t \in Senders : Fine(sender'[t])
    BY <1>2, <1>10, StartScanFacts
  <1>11. ASSUME NEW s \in Senders, NEW p \in Path, scan_haskell_files(s, p)
         PROVE  \A t \in Senders : Fine(sender'[t])
    BY <1>2, <1>11, ScanFacts
  <1>12. ASSUME NEW s \in Senders, send_event(s) PROVE \A t \in Senders : Fine(sender'[t])
    BY <1>2, <1>12, SendFacts
  <1> QED
    BY <1>4, <1>5, <1>6, <1>7, <1>8, <1>9, <1>10, <1>11, <1>12 DEF WatcherNext

\* A file that changes after the handler scanned it will be observed again.
LEMMA HandlerLateNext ==
    Reverts = FALSE /\ TypeInv /\ Remembered /\ HandlerLate /\ [Next]_vars => HandlerLate'
  <1> SUFFICES ASSUME Reverts = FALSE, TypeInv, Remembered, HandlerLate, [Next]_vars,
                      NEW q \in Haskell, sender'["handler"].pc = "scan",
                      q \notin sender'["handler"].todo,
                      sender'["handler"].event.snapshot[q] # disk'[q]
               PROVE  content'[q] # disk'[q]
    BY DEF HandlerLate
  <1>1. q \in Path /\ "handler" \in Senders /\ Senders = {"handler", "validator"}
    BY SenderTypes DEF Senders
  <1>2. ASSUME NEW p \in Path, NEW s \in FileState, Edit(p, s) PROVE content'[q] # disk'[q]
    <2>1. content[q] \in used[q]
      BY <1>1 DEF Remembered
    <2> QED
      BY <1>1, <1>2, <2>1, EditFacts DEF HandlerLate
  <1>3. CASE UNCHANGED <<sender, content, disk>>
    BY <1>3 DEF HandlerLate
  <1>4. CASE WatcherNext
    <2>1. UNCHANGED disk
      BY <1>4, WatcherFrame DEF envVars
    <2>2. CASE sender'["handler"] = sender["handler"] /\ UNCHANGED content
      BY <2>1, <2>2 DEF HandlerLate
    <2>3. ASSUME NEW s \in Senders, NEW p \in Path, scan_haskell_files(s, p)
          PROVE  content'[q] # disk'[q]
      <3>1. CASE s = "handler"
        BY <1>1, <2>1, <2>3, <3>1, ScanFacts DEF HandlerLate
      <3>2. CASE s = "validator"
        BY <1>1, <2>2, <2>3, <3>2, ScanFacts
      <3> QED
        BY <1>1, <3>1, <3>2
    <2>4. ASSUME NEW s \in Senders, LookDone(s) PROVE content'[q] # disk'[q]
      BY <1>1, <2>2, <2>4, LookDoneFacts
    <2>5. ASSUME NEW s \in Senders, NEW p \in Path, CaptureState(s, p) PROVE content'[q] # disk'[q]
      BY <1>1, <2>2, <2>5, CaptureFacts
    <2>6. ASSUME NEW s \in Senders, StartScan(s) PROVE content'[q] # disk'[q]
      BY <1>1, <2>2, <2>6, StartScanFacts
    <2>7. ASSUME NEW s \in Senders, send_event(s) PROVE content'[q] # disk'[q]
      BY <1>1, <2>2, <2>7, SendFacts
    <2>8. ASSUME \/ \E batch \in SUBSET Path : DeliverBatch(batch)
                 \/ \E p \in Path : observe(p)
          PROVE  content'[q] # disk'[q]
      BY <2>8, DeliverFacts, ObserveFacts
    <2>9. ASSUME TakeValidation \/ \E p \in Haskell : validate_source_snapshot(p)
          PROVE  content'[q] # disk'[q]
      BY <2>2, <2>9, TakeFacts, ValidateFacts
    <2> QED
      BY <1>4, <2>3, <2>4, <2>5, <2>6, <2>7, <2>8, <2>9 DEF WatcherNext
  <1> QED
    BY <1>2, <1>3, <1>4, SenderFrame, DiskFrame DEF UserNext

\* The validator's follow-up differs from the snapshot it was asked about.
LEMMA DiffersNext ==
    Reverts = FALSE /\ TypeInv /\ Remembered /\ Looking /\ Differs /\ [Next]_vars => Differs'
  <1> SUFFICES ASSUME Reverts = FALSE, TypeInv, Remembered, Looking, Differs, [Next]_vars
               PROVE  Differs'
    OBVIOUS
  <1>1. /\ Senders = {"handler", "validator"} /\ Haskell \subseteq Path
        /\ Relevant \subseteq Haskell
        /\ vqueue \in Seq(Request) /\ (sender["validator"].pc # "idle" => vqueue # <<>>)
        /\ (vqueue # <<>> => 1 \in DOMAIN vqueue)
    BY SenderTypes DEF Senders
  <1>2. ASSUME NEW p \in Path, NEW s \in FileState, Edit(p, s) PROVE Differs'
    <2>1. sender["validator"].pc # "idle" =>
            \A q \in Haskell : disk[q] # vqueue[1].expected[q] => disk'[q] # vqueue[1].expected[q]
      <3> SUFFICES ASSUME sender["validator"].pc # "idle", NEW q \in Haskell,
                          disk[q] # vqueue[1].expected[q]
                   PROVE  disk'[q] # vqueue[1].expected[q]
        OBVIOUS
      <3>1. vqueue[1].expected[q] \in used[q]
        BY <1>1 DEF Remembered
      <3> QED
        BY <1>1, <1>2, <3>1, EditFacts
    <2>2. UNCHANGED <<sender, vqueue>>
      BY <1>2, EditFacts
    <2> QED
      BY <1>1, <2>1, <2>2 DEF Differs
  <1>3. CASE UNCHANGED <<sender, disk>>
           /\ (vqueue # <<>> => vqueue'[1].expected = vqueue[1].expected)
    BY <1>1, <1>3 DEF Differs
  <1>4. CASE ManagerNext \/ TaskNext
    <2>1. UNCHANGED <<sender, disk>>
      BY <1>4, ManagerFrame, TaskFrame DEF envVars
    <2>2. CASE UNCHANGED vqueue
      BY <1>3, <2>1, <2>2
    <2>3. CASE InterruptReload
      <3>1. vqueue' = [i \in DOMAIN vqueue |-> [vqueue[i] EXCEPT !.awaited = FALSE]]
        BY <2>3 DEF InterruptReload
      <3>2. vqueue # <<>> => vqueue[1] \in Request
                               /\ vqueue'[1] = [vqueue[1] EXCEPT !.awaited = FALSE]
        BY <1>1, <3>1
      <3> QED
        BY <1>3, <2>1, <3>2 DEF Request
    <2>4. CASE compilation_snapshot_is_current
      <3>1. vqueue # <<>> => vqueue'[1] = vqueue[1]
        BY <1>1, <2>4 DEF compilation_snapshot_is_current
      <3> QED
        BY <1>3, <2>1, <3>1
    <2> QED
      BY <1>4, <2>2, <2>3, <2>4 DEF ManagerNext, Coalesce, Forward, wait_for_event, handle_event,
         ReceiveWhileDispatching, should_interrupt, FinishDispatch, TaskNext, reload,
         RunBeforeHooks, SubmitRemove, SubmitAdd, CommitAndReload, restart,
         synchronize_haskell_files, ReadFile, CompileDone, AnnounceNone, write_error_log,
         RunAfterHooks, finish_compilation, watcherVars
  <1>5. CASE WatcherNext
    <2>1. UNCHANGED disk
      BY <1>5, WatcherFrame DEF envVars
    <2>2. CASE sender'["validator"] = sender["validator"] /\ UNCHANGED vqueue
      BY <2>1, <2>2 DEF Differs
    <2>3. CASE sender'["validator"].pc = "idle"
      BY <2>3 DEF Differs
    <2>4. ASSUME NEW s \in Senders, NEW p \in Path, scan_haskell_files(s, p) PROVE Differs'
      <3>1. CASE s = "handler"
        BY <1>1, <2>2, <2>4, <3>1, ScanFacts
      <3>2. CASE s = "validator"
        <4>1. PICK q \in Relevant :
                 /\ disk[q] # vqueue[1].expected[q]
                 /\ \/ q \in sender["validator"].todo
                    \/ sender["validator"].event.snapshot[q] # vqueue[1].expected[q]
          BY <2>4, <3>2, ScanFacts DEF Differs
        <4>2. \/ q \in sender'["validator"].todo
              \/ sender'["validator"].event.snapshot[q] # vqueue[1].expected[q]
          BY <1>1, <2>4, <3>2, <4>1, ScanFacts
        <4> QED
          BY <2>1, <2>4, <3>2, <4>1, <4>2, ScanFacts DEF Differs
      <3> QED
        BY <1>1, <3>1, <3>2
    <2>5. ASSUME NEW s \in Senders, LookDone(s) PROVE Differs'
      <3>1. CASE s = "handler"
        BY <1>1, <2>2, <2>5, <3>1, LookDoneFacts
      <3>2. CASE s = "validator" /\ Hints(sender["validator"].event) # {}
        <4>1. PICK q \in Path : sender["validator"].event.events[q] # "none"
          BY <3>2 DEF Hints
        <4>2. q \in Relevant /\ disk[q] # vqueue[1].expected[q]
          BY <1>1, <2>5, <3>2, <4>1, LookDoneFacts DEF Differs, Looking, Relevant
        <4>3. sender'["validator"].pc = "states" /\ UNCHANGED vqueue
          BY <2>5, <3>2, LookDoneFacts
        <4> QED
          BY <2>1, <4>2, <4>3 DEF Differs
      <3>3. CASE s = "validator" /\ Hints(sender["validator"].event) = {}
        BY <2>3, <2>5, <3>3, LookDoneFacts
      <3> QED
        BY <1>1, <3>1, <3>2, <3>3
    <2>6. ASSUME NEW s \in Senders, NEW p \in Path, CaptureState(s, p) PROVE Differs'
      <3>1. CASE s = "handler"
        BY <1>1, <2>2, <2>6, <3>1, CaptureFacts
      <3>2. CASE s = "validator"
        BY <2>1, <2>6, <3>2, CaptureFacts DEF Differs
      <3> QED
        BY <1>1, <3>1, <3>2
    <2>7. ASSUME NEW s \in Senders, StartScan(s) PROVE Differs'
      <3>1. CASE s = "handler"
        BY <1>1, <2>2, <2>7, <3>1, StartScanFacts
      <3>2. CASE s = "validator"
        BY <1>1, <2>1, <2>7, <3>2, StartScanFacts DEF Differs
      <3> QED
        BY <1>1, <3>1, <3>2
    <2>8. ASSUME NEW s \in Senders, send_event(s) PROVE Differs'
      BY <1>1, <2>2, <2>3, <2>8, SendFacts
    <2>9. ASSUME \/ \E batch \in SUBSET Path : DeliverBatch(batch)
                 \/ \E p \in Path : observe(p)
          PROVE  Differs'
      BY <2>2, <2>9, DeliverFacts, ObserveFacts
    <2>10. CASE TakeValidation
      BY <2>10, TakeFacts DEF Differs
    <2>11. ASSUME NEW p \in Haskell, validate_source_snapshot(p) PROVE Differs'
      BY <1>1, <2>1, <2>11, ValidateFacts DEF Differs
    <2> QED
      BY <1>5, <2>4, <2>5, <2>6, <2>7, <2>8, <2>9, <2>10, <2>11 DEF WatcherNext
  <1>6. CASE UNCHANGED vars
    BY <1>3, <1>6 DEF vars, envVars, watcherVars
  <1> QED
    BY <1>2, <1>4, <1>5, <1>6 DEF Next, UserNext

\* Everything remembered was on disk once, and a change not yet observed is announced.
LEMMA RememberedNext ==
    TypeInv /\ Seen /\ Remembered /\ [Next]_vars => Remembered'
  <1> SUFFICES ASSUME TypeInv, Seen, Remembered, [Next]_vars PROVE Remembered'
    OBVIOUS
  <1> DEFINE Late(p) == \/ p \in notified
                        \/ sender["handler"].pc = "look" /\ p \in sender["handler"].todo
             Kept == /\ appliedSnap # NoSnapshot => \A p \in Haskell : appliedSnap[p] \in used[p]
                     /\ \A i \in DOMAIN vqueue :
                            \A p \in Haskell : vqueue[i].expected[p] \in used[p]
  <1>1. /\ Senders = {"handler", "validator"} /\ Haskell \subseteq Path /\ vqueue \in Seq(Request)
        /\ content \in [Path -> FileState] /\ \A p \in Path : disk[p] \in used[p]
    BY SenderTypes DEF Senders, Seen, TypeInv, TypeOK, FilesTypeOK
  <1>2. Remembered' <=> /\ \A p \in Path : content'[p] \in used'[p]
                        /\ \A p \in Path : content'[p] # disk'[p] => Late(p)'
                        /\ Kept'
    BY DEF Remembered
  <1>3. ASSUME NEW p \in Path, NEW s \in FileState, Edit(p, s) PROVE Remembered'
    <2>1. /\ \A q \in Path : used[q] \subseteq used'[q]
          /\ UNCHANGED <<content, appliedSnap, vqueue>>
      BY <1>3, EditFacts
    <2>2. \A q \in Path : content'[q] # disk'[q] => Late(q)'
      BY <1>3, EditFacts DEF Remembered
    <2> QED
      BY <1>1, <1>2, <2>1, <2>2 DEF Remembered
  <1>4. CASE WatcherNext
    <2>1. UNCHANGED <<disk, used, appliedSnap>>
      BY <1>4, WatcherFrame DEF envVars, managerVars
    <2>2. Kept'
      <3>1. CASE UNCHANGED vqueue
        BY <2>1, <3>1 DEF Remembered
      <3>2. CASE vqueue # <<>> /\ vqueue' = Tail(vqueue)
        <4>1. \A i \in DOMAIN vqueue' : i + 1 \in DOMAIN vqueue /\ vqueue'[i] = vqueue[i + 1]
          BY <1>1, <3>2, AnsweredFacts
        <4> QED
          BY <2>1, <4>1 DEF Remembered
      <3> QED
        BY <1>4, <3>1, <3>2, VqueueWatcher
    <2>3. ASSUME UNCHANGED content, \A p \in Path : content[p] # disk[p] => Late(p)'
          PROVE  Remembered'
      BY <1>2, <2>1, <2>2, <2>3 DEF Remembered
    <2>4. CASE UNCHANGED <<notified, content>> /\ sender'["handler"] = sender["handler"]
      BY <2>3, <2>4 DEF Remembered
    <2>5. CASE /\ UNCHANGED <<notified, content>>
               /\ sender["handler"].pc # "look" \/ sender["handler"].todo = {}
      BY <2>3, <2>5 DEF Remembered
    <2>6. ASSUME NEW batch \in SUBSET Path, DeliverBatch(batch) PROVE Remembered'
      <3>1. \A p \in Path : content[p] # disk[p] => Late(p)'
        BY <2>6, DeliverFacts DEF Remembered
      <3> QED
        BY <2>3, <2>6, <3>1, DeliverFacts
    <2>7. ASSUME NEW p \in Path, observe(p) PROVE Remembered'
      <3>1. \A q \in Path : content'[q] \in used'[q]
        BY <1>1, <2>1, <2>7, ObserveFacts DEF Remembered
      <3>2. \A q \in Path : content'[q] # disk'[q] => Late(q)'
        BY <2>1, <2>7, ObserveFacts DEF Remembered
      <3> QED
        BY <1>2, <2>2, <3>1, <3>2
    <2>8. ASSUME NEW s \in Senders,
                 \/ LookDone(s) \/ StartScan(s) \/ send_event(s)
                 \/ \E p \in Path : CaptureState(s, p) \/ scan_haskell_files(s, p)
          PROVE  /\ UNCHANGED <<notified, content>>
                 /\ s # "handler" => sender'["handler"] = sender["handler"]
                 /\ sender[s].pc # "look" \/ sender[s].todo = {}
      BY <1>1, <2>8, LookDoneFacts, StartScanFacts, SendFacts, CaptureFacts, ScanFacts
    <2>9. ASSUME TakeValidation \/ \E p \in Haskell : validate_source_snapshot(p)
          PROVE  Remembered'
      BY <2>4, <2>9, TakeFacts, ValidateFacts
    <2> QED
      BY <1>4, <2>4, <2>5, <2>6, <2>7, <2>8, <2>9 DEF WatcherNext
  <1>5. CASE ManagerNext \/ TaskNext \/ UNCHANGED vars
    <2>1. UNCHANGED <<disk, used, notified, content, sender>>
      BY <1>5, ManagerFrame, TaskFrame DEF envVars, vars, watcherVars
    <2>2. ASSUME Kept' PROVE Remembered'
      BY <1>2, <2>1, <2>2 DEF Remembered
    <2>3. CASE UNCHANGED <<appliedSnap, vqueue>>
      BY <2>1, <2>2, <2>3 DEF Remembered
    <2>4. CASE InterruptReload
      <3>1. /\ vqueue' = [i \in DOMAIN vqueue |-> [vqueue[i] EXCEPT !.awaited = FALSE]]
            /\ UNCHANGED appliedSnap
        BY <2>4 DEF InterruptReload
      <3>2. /\ DOMAIN vqueue' = DOMAIN vqueue
            /\ \A i \in DOMAIN vqueue : vqueue'[i].expected = vqueue[i].expected
        BY <1>1, <3>1, AbandonedFacts
      <3> QED
        BY <2>1, <2>2, <3>1, <3>2 DEF Remembered
    <2>5. CASE FinishDispatch
      <3>1. current # NoEvent /\ appliedSnap' = current.snapshot /\ UNCHANGED vqueue
        BY <2>5, OptionsDistinct DEF FinishDispatch, TypeInv, Shape, watcherVars
      <3>2. \A p \in Haskell : current.snapshot[p] \in used[p]
        BY <3>1 DEF Seen, SeenIn
      <3> QED
        BY <2>1, <2>2, <3>1, <3>2 DEF Remembered
    <2>6. CASE compilation_snapshot_is_current
      <3>1. /\ vqueue' = Append(vqueue, [expected |-> expected, awaited |-> TRUE])
            /\ UNCHANGED <<appliedSnap, mpc>> /\ tpc = "validate"
        BY <2>6 DEF compilation_snapshot_is_current, managerVars
      <3>2. mpc # "wait" /\ expected = current.snapshot
        BY <3>1 DEF TypeInv, Shape, Working
      <3>3. \A p \in Haskell : expected[p] \in used[p]
        BY <3>2, OptionsDistinct DEF TypeInv, Shape, Seen, SeenIn
      <3>4. \A i \in DOMAIN vqueue' : \/ i \in DOMAIN vqueue /\ vqueue'[i] = vqueue[i]
                                      \/ vqueue'[i].expected = expected
        BY <1>1, <3>1
      <3> QED
        BY <2>1, <2>2, <3>1, <3>3, <3>4 DEF Remembered
    <2> QED
      BY <1>5, <2>3, <2>4, <2>5, <2>6 DEF ManagerNext, Coalesce, Forward, wait_for_event,
         handle_event, ReceiveWhileDispatching, should_interrupt, TaskNext, reload,
         RunBeforeHooks, SubmitRemove, SubmitAdd, CommitAndReload, restart,
         synchronize_haskell_files, ReadFile, CompileDone, AnnounceNone, write_error_log,
         RunAfterHooks, finish_compilation, watcherVars, managerVars, vars
  <1> QED
    BY <1>3, <1>4, <1>5 DEF Next, UserNext

\* handle_event holds a second event only in its own phases.
LEMMA AtHandNext == TypeInv /\ AtHand /\ [Next]_vars => AtHand'
  <1> SUFFICES ASSUME TypeInv, AtHand, [Next]_vars PROVE AtHand'
    OBVIOUS
  <1>1. CASE UNCHANGED <<mpc, incoming, pending>>
    BY <1>1 DEF AtHand
  <1>2. CASE ManagerNext
    <2>1. mpc \in {"wait", "start", "dispatch", "deciding", "abort"}
      BY DEF TypeInv, TypeOK, ManagerTypeOK
    <2> QED
      BY <1>1, <1>2, <2>1 DEF AtHand, ManagerNext, Coalesce, Forward, wait_for_event,
         handle_event, ReceiveWhileDispatching, should_interrupt, InterruptReload,
         FinishDispatch, managerVars
  <1> QED
    BY <1>1, <1>2, WatcherFrame, TaskFrame DEF Next, UserNext, Edit, vars, managerVars

\* A dispatch asks for validation once; what an aborted one asked is answered to nobody
\* before the next one is validated.
LEMMA OrphansNext == TypeInv /\ Asked /\ Orphans /\ [Next]_vars => Orphans'
  <1> SUFFICES ASSUME TypeInv, Asked, Orphans, [Next]_vars PROVE Orphans'
    OBVIOUS
  <1>1. /\ vqueue \in Seq(Request) /\ \A i \in DOMAIN vqueue : vqueue[i].awaited \in BOOLEAN
        /\ mpc \in {"wait", "start"} => tpc = "idle"
    <2>1. vqueue \in Seq(Request)
      BY SenderTypes
    <2>2. \A i \in DOMAIN vqueue : vqueue[i] \in Request
      BY <2>1
    <2> QED
      BY <2>1, <2>2 DEF TypeInv, Shape, Request
  <1>2. CASE UNCHANGED <<vqueue, mpc, tpc>>
    BY <1>2 DEF Orphans, Unvalidated
  <1>3. CASE UNCHANGED vqueue /\ mpc' # "wait" /\ Unvalidated'
    BY <1>3 DEF Orphans
  <1>4. ASSUME ~Unvalidated, \A i \in DOMAIN vqueue : ~vqueue[i].awaited PROVE vqueue = <<>>
    <2>1. \A i \in DOMAIN vqueue : FALSE
      BY <1>1, <1>4 DEF Orphans
    <2> QED
      BY <1>1, <2>1
  <1>5. CASE vqueue = <<>> /\ UNCHANGED vqueue
    BY <1>5 DEF Orphans
  <1>6. CASE WatcherNext
    <2>1. UNCHANGED <<mpc, tpc>>
      BY <1>6, WatcherFrame DEF managerVars
    <2>2. CASE vqueue # <<>> /\ vqueue' = Tail(vqueue)
      <3>1. /\ Len(vqueue') = Len(vqueue) - 1 /\ Len(vqueue) \in Nat /\ 1 \in DOMAIN vqueue
            /\ \A i \in DOMAIN vqueue' :
                  i \in Nat /\ i + 1 \in DOMAIN vqueue /\ vqueue'[i] = vqueue[i + 1]
            /\ \A i \in DOMAIN vqueue : i # 1 =>
                     i - 1 \in DOMAIN vqueue' /\ vqueue'[i - 1] = vqueue[i]
        BY <1>1, <2>2, AnsweredFacts
      <3>2. \A i \in DOMAIN vqueue' : vqueue'[i].awaited => i = Len(vqueue')
        BY <3>1 DEF Orphans
      <3>3. ASSUME NEW i \in DOMAIN vqueue', ~vqueue'[i].awaited
            PROVE  /\ mpc' # "wait"
                   /\ \/ Unvalidated'
                      \/ tpc' = "awaiting" /\ \E j \in DOMAIN vqueue' : vqueue'[j].awaited
        <4>1. /\ mpc # "wait"
              /\ (Unvalidated \/ (tpc = "awaiting" /\ \E j \in DOMAIN vqueue : vqueue[j].awaited))
          BY <3>1, <3>3 DEF Orphans
        <4>2. CASE Unvalidated
          BY <2>1, <4>1, <4>2 DEF Unvalidated
        <4>3. ASSUME tpc = "awaiting", NEW j \in DOMAIN vqueue, vqueue[j].awaited
              PROVE  tpc' = "awaiting" /\ \E k \in DOMAIN vqueue' : vqueue'[k].awaited
          <5>1. j = Len(vqueue)
            BY <4>3 DEF Orphans
          <5>2. j # 1
            BY <3>1, <3>3, <5>1
          <5> QED
            BY <2>1, <3>1, <4>3, <5>2
        <4> QED
          BY <2>1, <4>1, <4>2, <4>3
      <3> QED
        BY <3>2, <3>3 DEF Orphans
    <2> QED
      BY <1>2, <1>6, <2>1, <2>2, VqueueWatcher
  <1>7. CASE ManagerNext
    <2>1. CASE wait_for_event
      <3>1. mpc = "wait" /\ tpc = "idle" /\ UNCHANGED vqueue
        BY <1>1, <2>1 DEF wait_for_event, watcherVars
      <3>2. vqueue = <<>>
        BY <1>4, <3>1 DEF Asked, Unvalidated, Working
      <3> QED
        BY <1>5, <3>1, <3>2
    <2>2. CASE FinishDispatch
      <3>1. mpc = "dispatch" /\ tpc = "done" /\ UNCHANGED vqueue
        BY <2>2 DEF FinishDispatch, watcherVars
      <3>2. vqueue = <<>>
        BY <1>4, <3>1 DEF Asked, Unvalidated, Working
      <3> QED
        BY <1>5, <3>1, <3>2
    <2>3. CASE handle_event
      BY <1>3, <2>3 DEF handle_event, watcherVars, Unvalidated
    <2>4. CASE InterruptReload
      <3>1. /\ vqueue' = [i \in DOMAIN vqueue |-> [vqueue[i] EXCEPT !.awaited = FALSE]]
            /\ mpc' = "start"
        BY <2>4 DEF InterruptReload
      <3>2. \A i \in DOMAIN vqueue' : ~vqueue'[i].awaited
        BY <1>1, <3>1, AbandonedFacts
      <3> QED
        BY <3>1, <3>2 DEF Orphans, Unvalidated
    <2>5. CASE Coalesce \/ Forward
      BY <1>2, <2>5 DEF Coalesce, Forward, watcherVars, managerVars, taskVars
    <2>6. CASE ReceiveWhileDispatching \/ should_interrupt
      <3>1. /\ UNCHANGED <<vqueue, tpc>>
            /\ mpc \notin {"wait", "start"} /\ mpc' \notin {"wait", "start"}
        BY <2>6 DEF ReceiveWhileDispatching, should_interrupt, watcherVars, taskVars
      <3> QED
        BY <3>1 DEF Orphans, Unvalidated
    <2> QED
      BY <1>7, <2>1, <2>2, <2>3, <2>4, <2>5, <2>6 DEF ManagerNext
  <1>8. CASE TaskNext
    <2>1. UNCHANGED mpc
      BY <1>8, TaskFrame DEF managerVars
    <2>2. mpc \notin {"wait", "start"}
      BY <1>1, <1>8 DEF TaskNext, reload, RunBeforeHooks, SubmitRemove, SubmitAdd,
         CommitAndReload, restart, synchronize_haskell_files, ReadFile, CompileDone,
         AnnounceNone, compilation_snapshot_is_current, write_error_log, RunAfterHooks,
         finish_compilation
    <2>3. CASE UNCHANGED vqueue /\ tpc' \in Working
      BY <1>3, <2>1, <2>2, <2>3 DEF Unvalidated
    <2>4. CASE compilation_snapshot_is_current
      <3>1. /\ tpc = "validate" /\ tpc' = "awaiting"
            /\ vqueue' = Append(vqueue, [expected |-> expected, awaited |-> TRUE])
        BY <2>4 DEF compilation_snapshot_is_current
      <3>2. \A i \in DOMAIN vqueue : ~vqueue[i].awaited
        BY <3>1 DEF Asked
      <3>3. /\ Len(vqueue') = Len(vqueue) + 1 /\ Len(vqueue') \in DOMAIN vqueue'
            /\ vqueue'[Len(vqueue')].awaited
            /\ \A i \in DOMAIN vqueue' :
                  (i \in DOMAIN vqueue /\ vqueue'[i] = vqueue[i]) \/ i = Len(vqueue')
        BY <1>1, <3>1
      <3> QED
        BY <2>1, <2>2, <3>1, <3>2, <3>3 DEF Orphans
    <2>5. CASE write_error_log \/ RunAfterHooks \/ finish_compilation
      <3>1. /\ UNCHANGED vqueue
            /\ \/ tpc = "awaiting" /\ reply # "none"
               \/ tpc \in {"after", "post"}
        BY <2>5 DEF write_error_log, RunAfterHooks, finish_compilation, watcherVars
      <3>2. vqueue = <<>>
        BY <1>4, <2>2, <3>1 DEF Asked, Unvalidated, Working
      <3> QED
        BY <1>5, <3>1, <3>2
    <2>6. CASE reload \/ RunBeforeHooks \/ SubmitRemove \/ SubmitAdd \/ CommitAndReload \/ restart
                 \/ synchronize_haskell_files \/ (\E p \in Path : ReadFile(p)) \/ CompileDone
                 \/ AnnounceNone
      BY <2>3, <2>6 DEF Working, reload, RunBeforeHooks, SubmitRemove, SubmitAdd, CommitAndReload,
         restart, synchronize_haskell_files, ReadFile, CompileDone, AnnounceNone, Submit,
         watcherVars
    <2> QED
      BY <1>8, <2>4, <2>5, <2>6 DEF TaskNext
  <1>9. CASE UserNext \/ UNCHANGED vars
    BY <1>2, <1>9 DEF UserNext, Edit, vars, watcherVars, managerVars, taskVars
  <1> QED
    BY <1>6, <1>7, <1>8, <1>9 DEF Next

-----------------------------------------------------------------------------
\* While a dispatch has not asked for validation, every change is caught up: the
\* validation will find it, or else a newer event waits.
LEMMA UnvalidatedIsCaughtUp ==
    ASSUME NEW p, mpc' # "wait", Unvalidated' PROVE CaughtUp(p)'
  <1>1. CASE Newest' = Base'
    BY <1>1 DEF CaughtUp, DetectionAhead, Base
  <1>2. CASE Newest' # Base'
    BY <1>2 DEF CaughtUp, WillDispatch, Undispatched, Newest
  <1> QED
    BY <1>1, <1>2

\* What the newest event holds depends on the queues and the manager only.
LEMMA NewestFrame ==
    ASSUME UNCHANGED <<ghciChan, coalesced, dispatchChan, incoming, pending, mpc, current,
                       appliedSnap>>, mpc # "wait" \/ UNCHANGED published
    PROVE  UNCHANGED <<Newest, Base, Undispatched, WillDispatch>>
  <1>1. UNCHANGED Base
    BY DEF Base
  <1>2. UNCHANGED Newest
    BY <1>1 DEF Newest
  <1>3. UNCHANGED Undispatched
    BY DEF Undispatched
  <1> QED
    BY <1>1, <1>2, <1>3 DEF WillDispatch

\* What is caught up stays so when the queues, the files and the dispatch do not change
\* and no sender loses it.
LEMMA CaughtUpFrame ==
    ASSUME NEW p,
           UNCHANGED <<disk, ghciChan, coalesced, dispatchChan, incoming, pending, mpc, current,
                       appliedSnap, published>>,
           CaughtUp(p),
           content[p] # disk[p] => content'[p] # disk[p] \/ \E s \in Senders : Seeing(s, p)',
           \A s \in Senders : Seeing(s, p) => Seeing(s, p)',
           DetectionAhead(p) => DetectionAhead(p)' \/ \E s \in Senders : Seeing(s, p)'
    PROVE  CaughtUp(p)'
  <1>1. UNCHANGED <<Newest, Base, Undispatched, WillDispatch>>
    BY NewestFrame
  <1> QED
    BY <1>1 DEF CaughtUp

\* An edit is not caught up by accident: the state is new, so it is to be observed.
LEMMA CatchUpUser ==
    ASSUME Reverts = FALSE, TypeInv, Remembered, CatchUp,
           NEW q \in Path, NEW s \in FileState, Edit(q, s)
    PROVE  CatchUp'
  <1> SUFFICES ASSUME NEW p \in Relevant PROVE CaughtUp(p)'
    BY DEF CatchUp
  <1>1. p \in Path /\ content[p] \in used[p]
    BY SenderTypes DEF Remembered
  <1>2. CASE p = q
    BY <1>1, <1>2, EditFacts DEF CaughtUp
  <1>3. CASE p # q
    <2>1. /\ disk'[p] = disk[p]
          /\ UNCHANGED <<content, sender, vqueue, ghciChan, coalesced, dispatchChan, mpc, current,
                         incoming, pending, appliedSnap, tpc, published>>
      BY <1>1, <1>3, EditFacts
    <2>2. UNCHANGED <<Newest, WillDispatch>>
      BY <2>1, NewestFrame
    <2>3. \A t \in Senders : Seeing(t, p)' = Seeing(t, p)
      BY <2>1 DEF Seeing
    <2>4. DetectionAhead(p)' = DetectionAhead(p)
      BY <2>1 DEF DetectionAhead, Unvalidated, Queued
    <2>5. CaughtUp(p)
      BY DEF CatchUp
    <2> QED
      BY <2>1, <2>2, <2>3, <2>4, <2>5 DEF CaughtUp
  <1> QED
    BY <1>2, <1>3

\* The event that send_event sends is up to date, or the debouncer is about to notice
\* again, or the event differs from the snapshot at hand and will be dispatched.
LEMMA CatchUpSend ==
    ASSUME TypeInv, Asked, HandlerLate, Differs, Orphans, NEW s \in Senders, send_event(s),
           NEW p \in Relevant
    PROVE  CaughtUp(p)'
  <1>1. /\ sender[s].pc = "scan" /\ sender[s].todo = {} /\ sender'[s].pc = "idle"
        /\ ghciChan' # <<>> /\ ghciChan'[Len(ghciChan')] = sender[s].event
        /\ UNCHANGED content
    BY SendFacts
  <1>2. UNCHANGED <<disk, mpc, tpc, current, appliedSnap, published>>
    BY DEF send_event, envVars, managerVars
  <1>3. Newest' = sender[s].event.snapshot /\ Undispatched'
    BY <1>1 DEF Newest, Undispatched
  <1>4. p \in Haskell /\ Senders = {"handler", "validator"} /\ vqueue \in Seq(Request)
    BY SenderTypes DEF Senders
  <1>5. CASE s = "handler"
    BY <1>1, <1>2, <1>3, <1>4, <1>5 DEF HandlerLate, CaughtUp
  <1>6. CASE s = "validator"
    <2>1. /\ vqueue # <<>> /\ 1 \in DOMAIN vqueue /\ vqueue' = Tail(vqueue)
          /\ \A i \in DOMAIN vqueue : i # 1 =>
                 i - 1 \in DOMAIN vqueue' /\ vqueue'[i - 1] = vqueue[i]
      <3>1. vqueue # <<>>
        BY <1>1, <1>6, SenderTypes
      <3>2. vqueue' = Tail(vqueue)
        BY <1>6, SendFacts DEF Answer
      <3> QED
        BY <1>4, <3>1, <3>2, AnsweredFacts
    <2>2. CASE Newest' # Base'
      BY <1>3, <2>2 DEF CaughtUp, WillDispatch
    <2>3. CASE Newest' = Base' /\ vqueue[1].awaited
      <3>1. tpc = "awaiting" /\ vqueue[1].expected = current.snapshot
        BY <2>1, <2>3 DEF Asked
      <3>2. Base' = current.snapshot
        BY <1>2, <3>1 DEF Base, TypeInv, Shape
      <3>3. \E q \in Relevant : sender["validator"].event.snapshot[q] # vqueue[1].expected[q]
        BY <1>1, <1>6 DEF Differs
      <3> QED
        BY <1>3, <1>6, <2>3, <3>1, <3>2, <3>3
    <2>4. CASE Newest' = Base' /\ ~vqueue[1].awaited
      <3>1. /\ mpc # "wait"
            /\ Unvalidated \/ (tpc = "awaiting" /\ \E j \in DOMAIN vqueue : vqueue[j].awaited)
        BY <2>1, <2>4 DEF Orphans
      <3>2. CASE Unvalidated
        <4>1. mpc' # "wait" /\ Unvalidated'
          BY <1>2, <3>1, <3>2 DEF Unvalidated
        <4> QED
          BY <4>1, UnvalidatedIsCaughtUp
      <3>3. ASSUME tpc = "awaiting", NEW j \in DOMAIN vqueue, vqueue[j].awaited
            PROVE  CaughtUp(p)'
        <4>1. j - 1 \in DOMAIN vqueue' /\ vqueue'[j - 1].awaited
          BY <2>1, <2>4, <3>3
        <4>2. Queued(p)'
          BY <1>1, <1>2, <1>6, <3>3, <4>1 DEF Queued
        <4>3. Base' = current'.snapshot /\ mpc' # "wait"
          BY <1>2, <3>1 DEF Base
        <4> QED
          BY <2>4, <4>2, <4>3 DEF CaughtUp, DetectionAhead
      <3> QED
        BY <3>1, <3>2, <3>3
    <2> QED
      BY <2>2, <2>3, <2>4
  <1> QED
    BY <1>4, <1>5, <1>6

\* The steps of a sender on the way to its event lose nothing it has noticed, and the
\* validator notices what is not as the snapshot of the dispatch has it.
LEMMA CatchUpWatcher ==
    ASSUME TypeInv, Asked, Looking, HandlerLate, Differs, Orphans, CatchUp, WatcherNext
    PROVE  CatchUp'
  <1> SUFFICES ASSUME NEW p \in Relevant PROVE CaughtUp(p)'
    BY DEF CatchUp
  <1>1. CASE \E s \in Senders : send_event(s)
    BY <1>1, CatchUpSend
  <1> SUFFICES ASSUME ~\E s \in Senders : send_event(s) PROVE CaughtUp(p)'
    BY <1>1
  <1>2. /\ UNCHANGED <<disk, ghciChan, coalesced, dispatchChan, incoming, pending, mpc, current,
                       appliedSnap, published>>
        /\ UNCHANGED tpc
    BY WatcherFrame DEF envVars, managerVars
  <1>3. CaughtUp(p)
    BY DEF CatchUp
  <1>4. /\ p \in Path /\ p \in Haskell /\ p \notin Ignored /\ Senders = {"handler", "validator"}
        /\ vqueue \in Seq(Request)
    BY SenderTypes DEF Senders, Relevant
  <1> DEFINE Kept(s) == Seeing(s, p) => Seeing(s, p)'
             Ahead == DetectionAhead(p) => DetectionAhead(p)' \/ \E s \in Senders : Seeing(s, p)'
             Noticed == content[p] # disk[p] =>
                           content'[p] # disk[p] \/ \E s \in Senders : Seeing(s, p)'
  <1>5. ASSUME Kept("handler"), Kept("validator"), Ahead, Noticed PROVE CaughtUp(p)'
    BY <1>2, <1>3, <1>4, <1>5, CaughtUpFrame
  <1>6. ASSUME UNCHANGED vqueue, sender'["validator"] = sender["validator"]
        PROVE  Ahead /\ Kept("validator")
    BY <1>2, <1>6 DEF DetectionAhead, Unvalidated, Queued, Seeing
  <1>7. ASSUME UNCHANGED vqueue, sender["validator"].pc \notin {"idle", "look"} PROVE Ahead
    BY <1>2, <1>7 DEF DetectionAhead, Unvalidated, Queued
  <1>8. ASSUME sender'["handler"] = sender["handler"] PROVE Kept("handler")
    BY <1>2, <1>8 DEF Seeing
  <1>9. UNCHANGED content => Noticed
    OBVIOUS
  <1> HIDE DEF Noticed
  <1>10. ASSUME NEW batch \in SUBSET Path, DeliverBatch(batch) PROVE CaughtUp(p)'
    <2>1. Kept("handler")
      BY <1>10, DeliverFacts DEF Seeing
    <2> QED
      BY <1>5, <1>6, <1>9, <1>10, <2>1, DeliverFacts
  <1>11. ASSUME NEW q \in Path, observe(q) PROVE CaughtUp(p)'
    <2>1. Kept("handler")
      <3> SUFFICES ASSUME Seeing("handler", p) PROVE Seeing("handler", p)'
        OBVIOUS
      <3>1. sender["handler"].event.events[p] # "none"
        BY DEF Seeing
      <3>2. q # p
        BY <1>4, <1>11, <3>1, ObserveFacts DEF Looking
      <3> QED
        BY <1>4, <1>11, <3>1, <3>2, ObserveFacts DEF Seeing
    <2>2. Noticed
      <3>1. CASE q = p
        BY <1>4, <1>11, <3>1, ObserveFacts DEF Noticed, Seeing
      <3>2. CASE q # p
        BY <1>4, <1>11, <3>2, ObserveFacts DEF Noticed
      <3> QED
        BY <3>1, <3>2
    <2> QED
      BY <1>5, <1>6, <1>11, <2>1, <2>2, ObserveFacts
  <1>12. CASE TakeValidation
    <2>1. Ahead
      BY <1>2, <1>4, <1>12, TakeFacts DEF DetectionAhead, Unvalidated, Queued
    <2>2. Kept("validator")
      BY <1>12, TakeFacts DEF Seeing
    <2> QED
      BY <1>5, <1>8, <1>9, <1>12, <2>1, <2>2, TakeFacts
  <1>13. ASSUME NEW q \in Haskell, validate_source_snapshot(q) PROVE CaughtUp(p)'
    <2>1. Kept("validator")
      <3> SUFFICES ASSUME Seeing("validator", p) PROVE Seeing("validator", p)'
        OBVIOUS
      <3>1. sender["validator"].event.events[p] # "none"
        BY DEF Seeing
      <3>2. q # p
        BY <1>4, <1>13, <3>1, ValidateFacts DEF Looking
      <3> QED
        BY <1>4, <1>13, <3>1, <3>2, ValidateFacts DEF Seeing
    <2>2. Ahead
      <3> SUFFICES ASSUME DetectionAhead(p), ~DetectionAhead(p)'
                   PROVE  Seeing("validator", p)'
        BY <1>4
      <3>1. mpc # "wait" /\ current.snapshot[p] # disk[p] /\ UNCHANGED vqueue
        BY <1>13, ValidateFacts DEF DetectionAhead
      <3>2. Queued(p) /\ ~Queued(p)'
        BY <1>2, <3>1 DEF DetectionAhead, Unvalidated
      <3>3. vqueue[1].awaited /\ 1 \in DOMAIN vqueue /\ q = p /\ tpc = "awaiting"
        BY <1>2, <1>4, <1>13, <3>1, <3>2, ValidateFacts DEF Queued
      <3>4. vqueue[1].expected = current.snapshot
        BY <3>3 DEF Asked
      <3> QED
        BY <1>4, <1>13, <3>1, <3>3, <3>4, ValidateFacts DEF Seeing
    <2> QED
      BY <1>5, <1>8, <1>9, <1>13, <2>1, <2>2, ValidateFacts
  <1>14. ASSUME NEW s \in Senders, LookDone(s) PROVE CaughtUp(p)'
    <2>1. Kept(s)
      <3> SUFFICES ASSUME Seeing(s, p) PROVE Seeing(s, p)'
        OBVIOUS
      <3>1. sender[s].event.events[p] # "none"
        BY DEF Seeing
      <3>2. Hints(sender[s].event) # {}
        BY <1>4, <3>1 DEF Hints
      <3> QED
        BY <1>14, <3>1, <3>2, LookDoneFacts DEF Seeing
    <2>2. CASE s = "handler"
      BY <1>4, <1>5, <1>6, <1>9, <1>14, <2>1, <2>2, LookDoneFacts
    <2>3. CASE s = "validator"
      <3>1. Ahead
        <4>1. sender["validator"].pc = "look" /\ sender["validator"].todo = {}
          BY <1>14, <2>3, LookDoneFacts
        <4>2. CASE UNCHANGED vqueue
          BY <1>2, <4>1, <4>2 DEF DetectionAhead, Unvalidated, Queued
        <4>3. CASE vqueue' = Tail(vqueue) /\ sender'["validator"].pc = "idle"
          <5>1. vqueue # <<>>
            BY <4>1, SenderTypes
          <5>2. \A i \in DOMAIN vqueue : i # 1 =>
                   i - 1 \in DOMAIN vqueue' /\ vqueue'[i - 1] = vqueue[i]
            BY <1>4, <4>3, <5>1, AnsweredFacts
          <5>3. ASSUME Queued(p) PROVE Queued(p)'
            <6>1. PICK i \in DOMAIN vqueue : vqueue[i].awaited /\ i # 1
              BY <4>1, <5>3 DEF Queued
            <6>2. i - 1 \in DOMAIN vqueue' /\ vqueue'[i - 1].awaited
              BY <5>2, <6>1
            <6>3. tpc' = "awaiting"
              BY <1>2, <5>3 DEF Queued
            <6> QED
              BY <4>3, <6>2, <6>3 DEF Queued
          <5> QED
            BY <1>2, <5>3 DEF DetectionAhead, Unvalidated
        <4> QED
          BY <1>14, <2>3, <4>2, <4>3, LookDoneFacts DEF Answer
      <3> QED
        BY <1>4, <1>5, <1>8, <1>9, <1>14, <2>1, <2>3, <3>1, LookDoneFacts
    <2> QED
      BY <1>4, <2>2, <2>3
  <1>15. ASSUME NEW s \in Senders, NEW q \in Path, CaptureState(s, q) PROVE CaughtUp(p)'
    <2>1. Kept(s)
      BY <1>2, <1>15, CaptureFacts DEF Seeing
    <2>2. CASE s = "handler"
      BY <1>4, <1>5, <1>6, <1>9, <1>15, <2>1, <2>2, CaptureFacts
    <2>3. CASE s = "validator"
      BY <1>4, <1>5, <1>7, <1>8, <1>9, <1>15, <2>1, <2>3, CaptureFacts
    <2> QED
      BY <1>4, <2>2, <2>3
  <1>16. ASSUME NEW s \in Senders, StartScan(s) PROVE CaughtUp(p)'
    <2>1. Kept(s)
      BY <1>2, <1>4, <1>16, StartScanFacts DEF Seeing
    <2>2. CASE s = "handler"
      BY <1>4, <1>5, <1>6, <1>9, <1>16, <2>1, <2>2, StartScanFacts
    <2>3. CASE s = "validator"
      BY <1>4, <1>5, <1>7, <1>8, <1>9, <1>16, <2>1, <2>3, StartScanFacts
    <2> QED
      BY <1>4, <2>2, <2>3
  <1>17. ASSUME NEW s \in Senders, NEW q \in Path, scan_haskell_files(s, q) PROVE CaughtUp(p)'
    <2>1. Kept(s)
      <3>1. CASE q = p
        BY <1>2, <1>4, <1>17, <3>1, ScanFacts DEF Seeing
      <3>2. CASE q # p
        BY <1>2, <1>4, <1>17, <3>2, ScanFacts DEF Seeing
      <3> QED
        BY <3>1, <3>2
    <2>2. CASE s = "handler"
      BY <1>4, <1>5, <1>6, <1>9, <1>17, <2>1, <2>2, ScanFacts
    <2>3. CASE s = "validator"
      BY <1>4, <1>5, <1>7, <1>8, <1>9, <1>17, <2>1, <2>3, ScanFacts
    <2> QED
      BY <1>4, <2>2, <2>3
  <1> QED
    BY <1>10, <1>11, <1>12, <1>13, <1>14, <1>15, <1>16, <1>17 DEF WatcherNext

\* A manager step that takes up or discards events passes the newest snapshot on.
LEMMA PassedOn ==
    ASSUME NEW p, UNCHANGED <<disk, content, sender>>, CaughtUp(p),
           UNCHANGED <<Newest, Base>>, WillDispatch => WillDispatch',
           DetectionAhead(p) => DetectionAhead(p)'
    PROVE  CaughtUp(p)'
  BY DEF CaughtUp, Seeing

\* An event that is being merged with an older one is the newest of the two.
LEMMA LastOfTail ==
    ASSUME NEW q \in Seq(Event), q # <<>>
    PROVE  /\ q[1] \in Event /\ Head(q) = q[1]
           /\ Tail(q) = <<>> => Len(q) = 1
           /\ Tail(q) # <<>> => Tail(q)[Len(Tail(q))] = q[Len(q)]
  <1>1. Len(q) \in Nat /\ Len(q) # 0
    OBVIOUS
  <1>2. /\ Tail(q) \in Seq(Event) /\ Len(Tail(q)) = Len(q) - 1
        /\ \A i \in 1..Len(Tail(q)) : Tail(q)[i] = q[i + 1]
    BY HeadTailProperties
  <1>3. Tail(q) = <<>> => Len(q) = 1
    <2>1. Tail(q) = <<>> => Len(Tail(q)) = 0
      BY <1>2, EmptySeq
    <2> QED
      BY <1>1, <1>2, <2>1
  <1>4. Tail(q) # <<>> => Len(Tail(q)) \in 1..Len(Tail(q))
    BY <1>1, <1>2
  <1>5. Tail(q) # <<>> => Tail(q)[Len(Tail(q))] = q[Len(q)]
    BY <1>1, <1>2, <1>4
  <1>6. q[1] \in Event /\ Head(q) = q[1]
    BY <1>1
  <1> QED
    BY <1>3, <1>5, <1>6

\* The coalescer, wait_for_event and handle_event drop an event only if the last
\* dispatch had its snapshot; a dispatch that starts is validated in the end.
LEMMA CatchUpManager ==
    ASSUME TypeInv, AtHand, CatchUp, ManagerNext PROVE CatchUp'
  <1> SUFFICES ASSUME NEW p \in Relevant PROVE CaughtUp(p)'
    BY DEF CatchUp
  <1>1. UNCHANGED <<disk, content, sender, published>> /\ CaughtUp(p)
    BY ManagerFrame DEF envVars, CatchUp
  <1>2. /\ ghciChan \in Seq(Event) /\ coalesced \in OptionEvent
        /\ dispatchChan \in Seq(Event) /\ Len(dispatchChan) <= 1
        /\ current \in OptionEvent /\ incoming \in OptionEvent /\ pending \in OptionEvent
        /\ NoEvent \notin Event /\ NoSnapshot \notin SourceSnapshot
    BY OptionsDistinct DEF TypeInv, TypeOK, QueuesTypeOK, ManagerTypeOK
  <1>3. dispatchChan # <<>> => dispatchChan[1] \in Event
    BY <1>2
  <1>4. \A e, f : merge_option(e, f).snapshot = f.snapshot
    BY MergeOptionSnapshot
  <1>5. CASE Coalesce
    <2>1. UNCHANGED <<dispatchChan, incoming, pending, mpc, current, appliedSnap, tpc, vqueue>>
      BY <1>5 DEF Coalesce, watcherVars, managerVars, taskVars
    <2>2. /\ ghciChan # <<>>
          /\ coalesced' = merge_option(coalesced, ghciChan[1])
          /\ ghciChan' = Tail(ghciChan)
      BY <1>2, <1>5, LastOfTail DEF Coalesce
    <2>3. coalesced' \in Event /\ coalesced'.snapshot = ghciChan[1].snapshot
      BY <1>2, <1>4, <2>2, LastOfTail, MergeOptionType
    <2>4. UNCHANGED Base
      BY <1>1, <2>1 DEF Base
    <2>5. UNCHANGED Newest
      BY <1>2, <2>2, <2>3, LastOfTail DEF Newest
    <2>6. Undispatched'
      BY <1>2, <2>3 DEF Undispatched
    <2>7. DetectionAhead(p) => DetectionAhead(p)'
      BY <1>1, <2>1 DEF DetectionAhead, Unvalidated, Queued
    <2> QED
      BY <1>1, <2>1, <2>4, <2>5, <2>6, <2>7, PassedOn DEF WillDispatch
  <1>6. CASE Forward
    <2>1. UNCHANGED <<ghciChan, incoming, pending, mpc, current, appliedSnap, tpc, vqueue>>
      BY <1>6 DEF Forward, watcherVars, managerVars, taskVars
    <2>2. /\ coalesced # NoEvent /\ dispatchChan' # <<>> /\ dispatchChan'[1] = coalesced
          /\ coalesced' = NoEvent
      BY <1>6 DEF Forward
    <2>3. UNCHANGED Base
      BY <1>1, <2>1 DEF Base
    <2>4. UNCHANGED Newest
      BY <2>1, <2>2 DEF Newest
    <2>5. Undispatched'
      BY <2>2 DEF Undispatched
    <2>6. DetectionAhead(p) => DetectionAhead(p)'
      BY <1>1, <2>1 DEF DetectionAhead, Unvalidated, Queued
    <2> QED
      BY <1>1, <2>1, <2>3, <2>4, <2>5, <2>6, PassedOn DEF WillDispatch
  <1>7. CASE wait_for_event
    <2> DEFINE e == dispatchChan[1]
    <2>1. /\ mpc = "wait" /\ dispatchChan # <<>> /\ dispatchChan' = <<>>
          /\ UNCHANGED <<ghciChan, coalesced, incoming, pending, appliedSnap>>
      BY <1>7 DEF wait_for_event
    <2>2. CASE is_applied(e, applied, appliedSnap)
      <3>1. UNCHANGED <<mpc, current>> /\ appliedSnap = e.snapshot
        BY <1>7, <2>2 DEF wait_for_event, is_applied
      <3>2. e.snapshot \in SourceSnapshot
        BY <1>3, <2>1 DEF Event
      <3>3. UNCHANGED Base /\ Base = e.snapshot /\ appliedSnap # NoSnapshot
        BY <1>1, <1>2, <2>1, <3>1, <3>2 DEF Base
      <3>4. incoming = NoEvent /\ pending = NoEvent
        BY <2>1 DEF AtHand
      <3>5. UNCHANGED Newest
        BY <2>1, <3>3, <3>4 DEF Newest
      <3>6. ASSUME WillDispatch PROVE Undispatched'
        <4>1. Newest # Base
          BY <3>3, <3>6 DEF WillDispatch
        <4> QED
          BY <2>1, <3>3, <4>1 DEF Newest, Undispatched
      <3>7. WillDispatch => WillDispatch'
        BY <3>1, <3>3, <3>5, <3>6, <2>1 DEF WillDispatch
      <3>8. ~DetectionAhead(p)
        BY <2>1 DEF DetectionAhead
      <3> QED
        BY <1>1, <3>3, <3>5, <3>7, <3>8, PassedOn
    <2>3. CASE ~is_applied(e, applied, appliedSnap)
      <3>1. mpc' = "start"
        BY <1>7, <2>3 DEF wait_for_event
      <3> QED
        BY <3>1, UnvalidatedIsCaughtUp DEF Unvalidated
    <2> QED
      BY <2>2, <2>3
  <1>8. CASE handle_event
    <2>1. mpc' # "wait" /\ Unvalidated'
      BY <1>8 DEF handle_event, Unvalidated
    <2> QED
      BY <2>1, UnvalidatedIsCaughtUp
  <1>9. CASE ReceiveWhileDispatching
    <2> DEFINE e == dispatchChan[1]
    <2>1. /\ mpc = "dispatch" /\ dispatchChan # <<>> /\ dispatchChan' = <<>>
          /\ mpc' \in {"dispatch", "deciding"}
          /\ UNCHANGED <<ghciChan, coalesced, current, appliedSnap, tpc, vqueue>>
          /\ \/ incoming' = e
             \/ pending' = merge_option(pending, e) /\ UNCHANGED incoming
      BY <1>9 DEF ReceiveWhileDispatching, Accumulate, watcherVars, taskVars
    <2>2. e \in Event /\ incoming = NoEvent
      BY <1>3, <2>1 DEF AtHand
    <2>3. \/ incoming' \in Event /\ incoming'.snapshot = e.snapshot
          \/ incoming' = NoEvent /\ pending' \in Event /\ pending'.snapshot = e.snapshot
      BY <1>2, <1>4, <2>1, <2>2, MergeOptionType
    <2>4. UNCHANGED Base
      BY <2>1 DEF Base
    <2>5. UNCHANGED Newest
      BY <1>2, <2>1, <2>3 DEF Newest
    <2>6. Undispatched' /\ (DetectionAhead(p) => DetectionAhead(p)')
      BY <1>1, <1>2, <2>1, <2>3 DEF Undispatched, DetectionAhead, Unvalidated, Queued
    <2> QED
      BY <1>1, <2>1, <2>4, <2>5, <2>6, PassedOn DEF WillDispatch
  <1>10. CASE should_interrupt
    <2>1. /\ mpc = "deciding" /\ mpc' \in {"abort", "dispatch"}
          /\ UNCHANGED <<ghciChan, coalesced, dispatchChan, current, appliedSnap, tpc, vqueue>>
          /\ \/ UNCHANGED <<incoming, pending>>
             \/ pending' = merge_option(pending, incoming) /\ incoming' = NoEvent
      BY <1>10 DEF should_interrupt, Accumulate, watcherVars, queueVars, taskVars
    <2>2. incoming \in Event
      BY <2>1 DEF TypeInv, Shape
    <2>3. \/ incoming' \in Event /\ incoming'.snapshot = incoming.snapshot
          \/ incoming' = NoEvent /\ pending' \in Event /\ pending'.snapshot = incoming.snapshot
      BY <1>2, <1>4, <2>1, <2>2, MergeOptionType
    <2>4. UNCHANGED Base
      BY <2>1 DEF Base
    <2>5. UNCHANGED Newest
      BY <1>2, <2>1, <2>2, <2>3 DEF Newest
    <2>6. Undispatched' /\ (DetectionAhead(p) => DetectionAhead(p)')
      BY <1>1, <1>2, <2>1, <2>3 DEF Undispatched, DetectionAhead, Unvalidated, Queued
    <2> QED
      BY <1>1, <2>1, <2>4, <2>5, <2>6, PassedOn DEF WillDispatch
  <1>11. CASE InterruptReload
    <2>1. mpc' = "start"
      BY <1>11 DEF InterruptReload
    <2> QED
      BY <2>1, UnvalidatedIsCaughtUp DEF Unvalidated
  <1>12. CASE FinishDispatch
    <2> DEFINE next == drain_pending(pending, dispatchChan)
    <2>1. /\ mpc = "dispatch" /\ tpc = "done" /\ appliedSnap' = current.snapshot
          /\ pending' = NoEvent /\ UNCHANGED <<ghciChan, coalesced, incoming>>
      BY <1>12 DEF FinishDispatch
    <2>2. /\ incoming = NoEvent /\ current \in Event /\ current.snapshot \in SourceSnapshot
          /\ ~DetectionAhead(p)
      BY <2>1 DEF AtHand, TypeInv, Shape, Event, DetectionAhead, Unvalidated, Queued, Working
    <2>3. CASE mpc' = "start"
      BY <2>3, UnvalidatedIsCaughtUp DEF Unvalidated
    <2>4. CASE mpc' = "wait"
      <3>1. Base = current.snapshot /\ Base' = Base
        BY <1>2, <2>1, <2>2, <2>4 DEF Base
      <3>2. \/ pending = NoEvent /\ UNCHANGED dispatchChan
            \/ /\ pending # NoEvent /\ dispatchChan' = <<>>
               /\ next.snapshot = current.snapshot
        BY <1>12, <2>4 DEF FinishDispatch, is_applied
      <3>3. pending # NoEvent =>
              next.snapshot = IF dispatchChan # <<>> THEN dispatchChan[1].snapshot
                                                     ELSE pending.snapshot
        BY MergeSnapshot DEF drain_pending
      <3>4. UNCHANGED Newest
        <4>1. CASE pending = NoEvent
          BY <2>1, <2>2, <3>1, <3>2, <4>1 DEF Newest
        <4>2. CASE pending # NoEvent
          BY <2>1, <2>2, <3>1, <3>2, <3>3, <4>2 DEF Newest
        <4> QED
          BY <4>1, <4>2
      <3>5. WillDispatch => Newest' # Base'
        BY <2>1, <3>1, <3>4 DEF WillDispatch
      <3>6. Newest' # Base' => WillDispatch'
        BY DEF WillDispatch, Undispatched, Newest
      <3> QED
        BY <1>1, <2>2, <3>1, <3>4, <3>5, <3>6, PassedOn
    <2> QED
      BY <1>12, <2>3, <2>4 DEF FinishDispatch
  <1> QED
    BY <1>5, <1>6, <1>7, <1>8, <1>9, <1>10, <1>11, <1>12 DEF ManagerNext

\* The dispatch task asks for validation when its work is done, and does not go on to
\* publish before it has the answer.
LEMMA CatchUpTask ==
    ASSUME TypeInv, Asked, CatchUp, TaskNext PROVE CatchUp'
  <1> SUFFICES ASSUME NEW p \in Relevant PROVE CaughtUp(p)'
    BY DEF CatchUp
  <1>1. /\ UNCHANGED <<disk, content, sender, ghciChan, coalesced, dispatchChan, mpc, current,
                       incoming, pending, appliedSnap>>
        /\ CaughtUp(p)
    BY TaskFrame DEF envVars, queueVars, managerVars, CatchUp
  <1>2. mpc \notin {"wait", "start"}
    BY DEF TypeInv, Shape, TaskNext, reload, RunBeforeHooks, SubmitRemove, SubmitAdd,
       CommitAndReload, restart, synchronize_haskell_files, ReadFile, CompileDone, AnnounceNone,
       compilation_snapshot_is_current, write_error_log, RunAfterHooks, finish_compilation
  <1>3. UNCHANGED <<Newest, Base, Undispatched, WillDispatch>>
    BY <1>1, <1>2, NewestFrame
  <1>4. CASE tpc' \in Working
    BY <1>1, <1>2, <1>4, UnvalidatedIsCaughtUp DEF Unvalidated
  <1>5. CASE compilation_snapshot_is_current
    <2>1. CASE Newest' = Base'
      <3>1. /\ tpc' = "awaiting" /\ vqueue \in Seq(Request)
            /\ vqueue' = Append(vqueue, [expected |-> expected, awaited |-> TRUE])
        BY <1>5, SenderTypes DEF compilation_snapshot_is_current
      <3>2. Len(vqueue) + 1 \in DOMAIN vqueue' /\ vqueue'[Len(vqueue) + 1].awaited
        BY <3>1
      <3>3. Len(vqueue) + 1 = 1 => sender'["validator"].pc = "idle"
        BY <1>1, <3>1, SenderTypes
      <3>4. Queued(p)'
        BY <3>1, <3>2, <3>3 DEF Queued
      <3> QED
        BY <1>1, <1>2, <2>1, <3>4 DEF CaughtUp, DetectionAhead, Base
    <2>2. CASE Newest' # Base'
      BY <2>2 DEF CaughtUp, WillDispatch, Undispatched, Newest
    <2> QED
      BY <2>1, <2>2
  <1>6. CASE write_error_log \/ RunAfterHooks \/ finish_compilation
    <2>1. \/ tpc = "awaiting" /\ reply # "none"
          \/ tpc \in {"after", "post"}
      BY <1>6 DEF write_error_log, RunAfterHooks, finish_compilation
    <2>2. ~DetectionAhead(p)
      BY <1>2, <2>1 DEF DetectionAhead, Unvalidated, Queued, Asked, Working
    <2> QED
      BY <1>1, <1>3, <2>2, PassedOn
  <1>7. CASE reload \/ RunBeforeHooks \/ SubmitRemove \/ SubmitAdd \/ CommitAndReload \/ restart
               \/ synchronize_haskell_files \/ (\E q \in Path : ReadFile(q)) \/ CompileDone
               \/ AnnounceNone
    BY <1>4, <1>7 DEF Working, reload, RunBeforeHooks, SubmitRemove, SubmitAdd, CommitAndReload,
       restart, synchronize_haskell_files, ReadFile, CompileDone, AnnounceNone, Submit
  <1> QED
    BY <1>5, <1>6, <1>7 DEF TaskNext

\* The answer "superseded" has a reason, and no later edit takes it back.
LEMMA OutdatedNext ==
    Reverts = FALSE /\ TypeInv /\ Seen /\ Asked /\ Remembered /\ Differs /\ Outdated /\ [Next]_vars
        => Outdated'
  <1> SUFFICES ASSUME Reverts = FALSE, TypeInv, Seen, Asked, Remembered, Differs, Outdated,
                      [Next]_vars
               PROVE  Outdated'
    OBVIOUS
  <1>1. Relevant \subseteq Haskell /\ Haskell \subseteq Path /\ NoSnapshot \notin SourceSnapshot
    BY SenderTypes, OptionsDistinct
  <1>2. ASSUME NEW p \in Path, NEW s \in FileState, Edit(p, s) PROVE Outdated'
    <2> SUFFICES ASSUME reply = "superseded", mpc # "start"
                 PROVE  /\ mpc = "wait" => appliedSnap # NoSnapshot
                        /\ \E q \in Relevant : disk'[q] # Base[q]
      BY <1>2, EditFacts DEF Outdated, Base
    <2>1. PICK q \in Relevant : disk[q] # Base[q]
      BY DEF Outdated
    <2>2. Base[q] \in used[q]
      <3>1. CASE mpc = "wait"
        BY <1>1, <3>1 DEF Base, Outdated, Remembered
      <3>2. CASE mpc # "wait"
        <4>1. current # NoEvent
          BY <3>2, OptionsDistinct DEF TypeInv, Shape
        <4> QED
          BY <1>1, <3>2, <4>1 DEF Base, Seen, SeenIn
      <3> QED
        BY <3>1, <3>2
    <2>3. disk'[q] # Base[q]
      BY <1>1, <1>2, <2>1, <2>2, EditFacts
    <2> QED
      BY <2>3 DEF Outdated
  <1>3. CASE WatcherNext
    <2>1. UNCHANGED <<disk, mpc, tpc, current, appliedSnap, published>>
      BY <1>3, WatcherFrame DEF envVars, managerVars
    <2>2. UNCHANGED Base
      BY <2>1 DEF Base
    <2>3. CASE reply' = reply \/ reply' # "superseded"
      BY <2>1, <2>2, <2>3 DEF Outdated
    <2>4. CASE send_event("validator") /\ reply' # reply
      <3>1. /\ sender["validator"].pc = "scan" /\ sender["validator"].todo = {}
            /\ Answer("superseded")
        BY <2>4, SendFacts DEF Senders
      <3>2. vqueue # <<>> /\ vqueue \in Seq(Request)
        BY <3>1, SenderTypes
      <3>3. 1 \in DOMAIN vqueue /\ Head(vqueue) = vqueue[1]
        BY <3>2
      <3>4. vqueue[1].awaited
        BY <2>4, <3>1, <3>3 DEF Answer
      <3>5. tpc = "awaiting" /\ vqueue[1].expected = current.snapshot
        BY <3>3, <3>4 DEF Asked
      <3>6. mpc \notin {"wait", "start"} /\ Base = current.snapshot
        BY <3>5 DEF TypeInv, Shape, Base
      <3>7. \E q \in Relevant : disk[q] # vqueue[1].expected[q]
        BY <3>1 DEF Differs
      <3> QED
        BY <2>1, <2>2, <3>5, <3>6, <3>7 DEF Outdated
    <2>5. ASSUME NEW s \in Senders, s = "handler", send_event(s) PROVE UNCHANGED reply
      BY <2>5, SendFacts
    <2>6. ASSUME NEW s \in Senders, LookDone(s) PROVE reply' = reply \/ reply' # "superseded"
      BY <2>6, LookDoneFacts DEF Answer
    <2>7. ASSUME ~\E s \in Senders : send_event(s) \/ LookDone(s) PROVE UNCHANGED reply
      BY <1>3, <2>7 DEF WatcherNext, DeliverBatch, observe, TakeValidation,
         validate_source_snapshot, StartScan, CaptureState, scan_haskell_files, taskVars
    <2> QED
      BY <2>3, <2>4, <2>5, <2>6, <2>7 DEF Senders
  <1>4. CASE ManagerNext
    <2>1. UNCHANGED <<disk, published>>
      BY <1>4, ManagerFrame DEF envVars
    <2>2. CASE mpc' = "start" \/ reply' = "none"
      BY <2>2 DEF Outdated
    <2>3. CASE UNCHANGED <<mpc, current, appliedSnap, reply>>
      <3>1. UNCHANGED Base
        BY <2>1, <2>3 DEF Base
      <3> QED
        BY <2>1, <2>3, <3>1 DEF Outdated
    <2>4. CASE ReceiveWhileDispatching \/ should_interrupt
      <3>1. /\ UNCHANGED <<current, reply>>
            /\ mpc \notin {"wait", "start"} /\ mpc' \notin {"wait", "start"}
        BY <2>4 DEF ReceiveWhileDispatching, should_interrupt, taskVars
      <3> QED
        BY <2>1, <3>1 DEF Outdated, Base
    <2>5. CASE FinishDispatch
      <3>1. /\ mpc = "dispatch" /\ mpc' \in {"wait", "start"} /\ UNCHANGED reply
            /\ appliedSnap' = current.snapshot
        BY <2>5 DEF FinishDispatch
      <3>2. current.snapshot # NoSnapshot
        BY <1>1, <3>1 DEF TypeInv, Shape, Event
      <3> QED
        BY <2>1, <3>1, <3>2 DEF Outdated, Base
    <2>6. CASE Coalesce \/ Forward
      BY <2>3, <2>6 DEF Coalesce, Forward, managerVars, taskVars
    <2>7. CASE wait_for_event \/ handle_event \/ InterruptReload
      BY <2>2, <2>3, <2>7 DEF wait_for_event, handle_event, InterruptReload, taskVars
    <2> QED
      BY <1>4, <2>4, <2>5, <2>6, <2>7 DEF ManagerNext
  <1>5. CASE TaskNext
    <2>1. UNCHANGED <<disk, mpc, current, appliedSnap>>
      BY <1>5, TaskFrame DEF envVars, managerVars
    <2>2. mpc # "wait" /\ UNCHANGED reply
      BY <1>5 DEF TypeInv, Shape, TaskNext, reload, RunBeforeHooks, SubmitRemove, SubmitAdd,
         CommitAndReload, restart, synchronize_haskell_files, ReadFile, CompileDone, AnnounceNone,
         compilation_snapshot_is_current, write_error_log, RunAfterHooks, finish_compilation
    <2> QED
      BY <2>1, <2>2 DEF Outdated, Base
  <1>6. CASE UNCHANGED vars
    BY <1>6 DEF Outdated, Base, vars, envVars, managerVars, taskVars
  <1> QED
    BY <1>2, <1>3, <1>4, <1>5, <1>6 DEF Next, UserNext

\* A dispatch that was not superseded has published what GHCi has loaded.
LEMMA UpToDateNext == TypeInv /\ Asked /\ UpToDate /\ [Next]_vars => UpToDate'
  <1> SUFFICES ASSUME TypeInv, Asked, UpToDate, [Next]_vars PROVE UpToDate'
    OBVIOUS
  <1>1. CASE UserNext \/ UNCHANGED vars
    BY <1>1 DEF UpToDate, UserNext, Edit, vars, managerVars, taskVars, ghciVars
  <1>2. CASE WatcherNext
    <2>1. UNCHANGED <<mpc, tpc, current, appliedSnap, loaded, published>>
      BY <1>2, WatcherFrame DEF managerVars, ghciVars
    <2>2. CASE reply' = reply
      BY <2>1, <2>2 DEF UpToDate
    <2>3. CASE vqueue # <<>> /\ vqueue[1].awaited
      <3>1. 1 \in DOMAIN vqueue
        BY <2>3, SenderTypes
      <3>2. tpc = "awaiting"
        BY <2>3, <3>1 DEF Asked
      <3> QED
        BY <2>1, <3>2 DEF UpToDate, TypeInv, Shape
    <2> QED
      BY <1>2, <2>2, <2>3, VqueueWatcher
  <1>3. CASE ManagerNext
    <2>1. UNCHANGED <<loaded, published>>
      BY <1>3, ManagerFrame DEF ghciVars
    <2>2. CASE FinishDispatch
      BY <2>1, <2>2 DEF FinishDispatch, UpToDate
    <2>3. CASE wait_for_event
      BY <2>1, <2>3 DEF wait_for_event, UpToDate, TypeInv, Shape, taskVars
    <2>4. CASE handle_event \/ InterruptReload
      BY <2>4 DEF handle_event, InterruptReload, UpToDate
    <2>5. CASE Coalesce \/ Forward
      BY <2>1, <2>5 DEF Coalesce, Forward, UpToDate, managerVars, taskVars
    <2>6. CASE ReceiveWhileDispatching \/ should_interrupt
      BY <2>1, <2>6 DEF ReceiveWhileDispatching, should_interrupt, UpToDate, taskVars
    <2> QED
      BY <1>3, <2>2, <2>3, <2>4, <2>5, <2>6 DEF ManagerNext
  <1>4. CASE TaskNext
    <2>1. UNCHANGED <<mpc, current, appliedSnap>>
      BY <1>4, TaskFrame DEF managerVars
    <2>2. mpc # "wait"
      BY <1>4 DEF TypeInv, Shape, TaskNext, reload, RunBeforeHooks, SubmitRemove, SubmitAdd,
         CommitAndReload, restart, synchronize_haskell_files, ReadFile, CompileDone, AnnounceNone,
         compilation_snapshot_is_current, write_error_log, RunAfterHooks, finish_compilation
    <2>3. CASE write_error_log
      BY <2>1, <2>2, <2>3 DEF write_error_log, UpToDate, ghciVars, TypeInv, TypeOK, TaskTypeOK
    <2>4. CASE RunAfterHooks \/ finish_compilation
      BY <2>1, <2>2, <2>4 DEF RunAfterHooks, finish_compilation, UpToDate, ghciVars
    <2>5. ASSUME tpc' \notin {"after", "post", "done"} PROVE UpToDate'
      BY <2>1, <2>2, <2>5 DEF UpToDate
    <2> QED
      BY <1>4, <2>3, <2>4, <2>5 DEF TaskNext, reload, RunBeforeHooks, SubmitRemove, SubmitAdd,
         CommitAndReload, restart, synchronize_haskell_files, ReadFile, CompileDone,
         AnnounceNone, compilation_snapshot_is_current, Submit
  <1> QED
    BY <1>1, <1>2, <1>3, <1>4 DEF Next

\* Startup leaves nothing to be noticed: the error log is about the files as they are.
LEMMA FollowUpInit == Init => FollowUpInv
  <1> SUFFICES ASSUME Init PROVE FollowUpInv
    OBVIOUS
  <1>1. TypeInv /\ Seen /\ Asked
    BY TypeInit, PublicationInit DEF PublicationInv
  <1>2. /\ Senders = {"handler", "validator"} /\ Relevant \subseteq Haskell
        /\ Haskell \subseteq Path
        /\ sender["handler"].pc = "idle" /\ sender["validator"].pc = "idle"
    BY DEF Init, Senders, Relevant, Haskell, Path
  <1>3. vqueue = <<>> /\ DOMAIN vqueue = {}
    BY DEF Init
  <1>4. AtHand /\ Looking /\ HandlerLate /\ Differs
    BY <1>2, OptionsDistinct DEF Init, AtHand, Looking, HandlerLate, Differs
  <1>5. Remembered /\ Orphans
    BY <1>3 DEF Init, Remembered, Orphans
  <1>6. CatchUp
    <2>1. Newest = published.claimed
      BY DEF Init, Newest, Base
    <2>2. \A p \in Haskell : published.claimed[p] = disk[p]
      BY DEF Init
    <2> QED
      BY <1>2, <2>1, <2>2 DEF CatchUp, CaughtUp
  <1>7. Outdated /\ UpToDate
    BY DEF Init, Outdated, UpToDate
  <1> QED
    BY <1>1, <1>4, <1>5, <1>6, <1>7 DEF FollowUpInv

\* No step, in any interleaving, loses an edit's follow-up.
LEMMA FollowUpNext == Reverts = FALSE /\ FollowUpInv /\ [Next]_vars => FollowUpInv'
  <1> SUFFICES ASSUME Reverts = FALSE, FollowUpInv, [Next]_vars PROVE FollowUpInv'
    OBVIOUS
  <1>1. TypeInv /\ Seen /\ Asked /\ AtHand /\ Remembered /\ Looking /\ HandlerLate /\ Differs
        /\ Orphans /\ CatchUp /\ Outdated /\ UpToDate
    BY DEF FollowUpInv
  <1>2. TypeInv' /\ Seen' /\ Asked'
    BY <1>1, TypeNext, SeenNext, AskedNext
  <1>3. AtHand' /\ Remembered' /\ Looking' /\ HandlerLate' /\ Differs' /\ Orphans'
    BY <1>1, AtHandNext, RememberedNext, LookingNext, HandlerLateNext, DiffersNext, OrphansNext
  <1>4. Outdated' /\ UpToDate'
    BY <1>1, OutdatedNext, UpToDateNext
  <1>5. CatchUp'
    <2>1. CASE UserNext
      BY <1>1, <2>1, CatchUpUser DEF UserNext
    <2>2. CASE WatcherNext
      BY <1>1, <2>2, CatchUpWatcher
    <2>3. CASE ManagerNext
      BY <1>1, <2>3, CatchUpManager
    <2>4. CASE TaskNext
      BY <1>1, <2>4, CatchUpTask
    <2>5. CASE UNCHANGED vars
      <3>1. UNCHANGED <<Newest, WillDispatch>>
        BY <2>5, NewestFrame DEF vars, queueVars, managerVars
      <3>2. \A p : CaughtUp(p)' = CaughtUp(p)
        BY <2>5, <3>1 DEF CaughtUp, Seeing, DetectionAhead, Unvalidated, Queued, vars, envVars,
           watcherVars, managerVars, taskVars
      <3> QED
        BY <1>1, <3>2 DEF CatchUp
    <2> QED
      BY <2>1, <2>2, <2>3, <2>4, <2>5 DEF Next
  <1> QED
    BY <1>2, <1>3, <1>4, <1>5 DEF FollowUpInv

\* At rest the snapshot applied last is that of the files: all other ways to be caught
\* up need work in progress.
LEMMA CaughtUpAtRest ==
    ASSUME FollowUpInv, Rest
    PROVE  reply # "superseded" /\ \A p \in Relevant : Base[p] = disk[p]
  <1>1. /\ mpc = "wait" /\ notified = {} /\ \A s \in Senders : sender[s].pc = "idle"
        /\ "handler" \in Senders
        /\ ghciChan = <<>> /\ coalesced = NoEvent /\ dispatchChan = <<>>
    BY DEF Rest, Senders
  <1>2. incoming = NoEvent /\ pending = NoEvent
    BY <1>1 DEF FollowUpInv, AtHand
  <1>3. Newest = Base /\ ~WillDispatch
    BY <1>1, <1>2 DEF Newest, WillDispatch, Undispatched
  <1>4. \A p \in Path : content[p] = disk[p]
    BY <1>1 DEF FollowUpInv, Remembered
  <1>5. \A p \in Relevant : Base[p] = disk[p]
    <2> SUFFICES ASSUME NEW p \in Relevant PROVE Base[p] = disk[p]
      OBVIOUS
    <2>1. p \in Path
      BY SenderTypes DEF FollowUpInv
    <2>2. CaughtUp(p)
      BY DEF FollowUpInv, CatchUp
    <2>3. ~DetectionAhead(p) /\ \A s \in Senders : ~Seeing(s, p)
      BY <1>1 DEF DetectionAhead, Seeing
    <2> QED
      BY <1>3, <1>4, <2>1, <2>2, <2>3 DEF CaughtUp
  <1> QED
    BY <1>1, <1>5 DEF FollowUpInv, Outdated

\* Theorem: a dispatch whose publication was suppressed is never the last one, for any
\* number of files, edits and queue slots and every option of the program, as long as
\* no edit restores a state that the file had before (finish_compilation: "so this
\* attempt cannot be the final result").
THEOREM FollowUpCorrect == (Reverts = FALSE) => (Spec => []SupersededIsFollowedUp)
  <1> SUFFICES ASSUME Reverts = FALSE PROVE Spec => []SupersededIsFollowedUp
    OBVIOUS
  <1>1. FollowUpInv /\ [Next]_vars => FollowUpInv'
    BY FollowUpNext
  <1>2. FollowUpInv => SupersededIsFollowedUp
    BY CaughtUpAtRest DEF SupersededIsFollowedUp
  <1> QED
    BY FollowUpInit, <1>1, <1>2, PTL DEF Spec

\* Theorem: at rest the error log claims the Haskell files as they are on disk and holds
\* the result of what GHCi has loaded, for any number of files, edits and queue slots
\* and every option, as long as no edit restores a state that the file had before.
THEOREM FinalPublicationCorrect == (Reverts = FALSE) => (Spec => []QuiescentPublished)
  <1> SUFFICES ASSUME Reverts = FALSE PROVE Spec => []QuiescentPublished
    OBVIOUS
  <1>1. FollowUpInv /\ [Next]_vars => FollowUpInv'
    BY FollowUpNext
  <1>2. FollowUpInv => QuiescentPublished
    <2> SUFFICES ASSUME FollowUpInv, Rest PROVE QuiescentPublished
      BY DEF QuiescentPublished
    <2>1. /\ mpc = "wait" /\ reply # "superseded" /\ \A p \in Relevant : Base[p] = disk[p]
      BY CaughtUpAtRest DEF Rest
    <2>2. /\ published.compiled = loaded
          /\ (appliedSnap # NoSnapshot => published.claimed = appliedSnap)
      BY <2>1 DEF FollowUpInv, UpToDate
    <2>3. Base = published.claimed
      BY <2>1, <2>2 DEF Base
    <2> QED
      BY <2>1, <2>2, <2>3 DEF QuiescentPublished, Relevant
  <1> QED
    BY FollowUpInit, <1>1, <1>2, PTL DEF Spec

-----------------------------------------------------------------------------
(***************************************************************************)
(* Hooks.  Without interrupts the manager never leaves a dispatch under    *)
(* way: the before-reload hooks are open from handle_event until the       *)
(* dispatch task has run its after-reload hooks.  The test-hook debt is    *)
(* recorded when a superseded attempt compiled something and carried over  *)
(* by dispatches that do not test, so it is outstanding only while the     *)
(* last answer is "superseded".                                            *)
(***************************************************************************)
Uninterrupted == mpc \notin {"deciding", "abort"}

Balanced ==
    /\ Uninterrupted
    /\ hooks = IF mpc = "dispatch" /\ tpc \notin {"post", "done"} THEN "open" ELSE "closed"

Owed ==
    /\ log = "err" => ~untested
    /\ tpc \in Working \ {"validate"} => RunPostActions
    /\ tpc \in {"idle", "classify", "done"} /\ untested => pendingTest
    /\ untested => pendingTest \/ RunPostActions
    /\ tpc \in {"after", "post", "done"} => reply # "none"
    /\ mpc = "wait" \/ tpc = "done" => (pendingTest => reply = "superseded")

\* Without --interrupt-reloads no step of the manager enters the interrupt.
LEMMA UninterruptedNext ==
    ASSUME ~InterruptReloads, Uninterrupted, [Next]_vars PROVE Uninterrupted'
  <1>1. CASE UNCHANGED mpc
    BY <1>1 DEF Uninterrupted
  <1>2. CASE ManagerNext
    BY <1>2 DEF ManagerNext, Coalesce, Forward, wait_for_event, handle_event,
       ReceiveWhileDispatching, should_interrupt, InterruptReload, FinishDispatch, managerVars,
       Uninterrupted
  <1> QED
    BY <1>1, <1>2, WatcherFrame, TaskFrame DEF Next, UserNext, Edit, vars, managerVars

\* The dispatch task runs the after-reload hooks exactly once per dispatch, after the
\* publication and before its post actions (finish_compilation).
LEMMA BalancedNext ==
    ASSUME TypeInv, ~InterruptReloads, Balanced, [Next]_vars PROVE Balanced'
  <1>1. Uninterrupted'
    BY UninterruptedNext DEF Balanced
  <1>2. CASE UNCHANGED <<mpc, tpc, hooks>>
    BY <1>1, <1>2 DEF Balanced
  <1>3. CASE ManagerNext
    BY <1>1, <1>3 DEF ManagerNext, Coalesce, Forward, wait_for_event, handle_event,
       ReceiveWhileDispatching, should_interrupt, InterruptReload, FinishDispatch, managerVars,
       taskVars, Balanced, Uninterrupted, BeforeReload, TypeInv, Shape
  <1>4. CASE TaskNext
    <2>1. tpc # "idle" /\ mpc = "dispatch" /\ UNCHANGED mpc
      <3>1. tpc # "idle" /\ UNCHANGED mpc
        BY <1>4, TaskFrame DEF TaskNext, reload, RunBeforeHooks, SubmitRemove, SubmitAdd,
           CommitAndReload, restart, synchronize_haskell_files, ReadFile, CompileDone,
           AnnounceNone, compilation_snapshot_is_current, write_error_log, RunAfterHooks,
           finish_compilation, managerVars
      <3> QED
        BY <3>1 DEF Balanced, Uninterrupted, TypeInv, TypeOK, ManagerTypeOK, Shape
    <2>2. CASE RunAfterHooks
      BY <1>1, <2>1, <2>2 DEF RunAfterHooks, AfterReload, Balanced
    <2>3. CASE finish_compilation
      BY <1>1, <2>1, <2>3 DEF finish_compilation, Balanced
    <2>4. CASE ~RunAfterHooks /\ ~finish_compilation
      <3>1. tpc \notin {"post", "done"} /\ tpc' \notin {"post", "done"} /\ UNCHANGED hooks
        BY <1>4, <2>4 DEF TaskNext, reload, RunBeforeHooks, SubmitRemove, SubmitAdd,
           CommitAndReload, restart, synchronize_haskell_files, ReadFile, CompileDone,
           AnnounceNone, compilation_snapshot_is_current, write_error_log, Submit
      <3> QED
        BY <1>1, <2>1, <3>1 DEF Balanced
    <2> QED
      BY <2>2, <2>3, <2>4
  <1> QED
    BY <1>2, <1>3, <1>4, WatcherFrame DEF Next, UserNext, Edit, vars, managerVars, taskVars

\* Theorem: without --interrupt-reloads every before-reload hook run is closed by exactly
\* one after-reload hook run, whatever the edits and the answers of the validator.
THEOREM HooksCorrect == (InterruptReloads = FALSE) => (Spec => []HooksBalanced)
  <1> SUFFICES ASSUME InterruptReloads = FALSE PROVE Spec => []HooksBalanced
    OBVIOUS
  <1>1. Init => TypeInv /\ Balanced
    BY TypeInit DEF Init, Balanced, Uninterrupted
  <1>2. TypeInv /\ Balanced /\ [Next]_vars => TypeInv' /\ Balanced'
    BY TypeNext, BalancedNext
  <1>3. Balanced => HooksBalanced
    BY DEF Balanced, HooksBalanced
  <1> QED
    BY <1>1, <1>2, <1>3, PTL DEF Spec

\* Every step keeps the test-hook debt: a compilation may incur it, a restart drops it
\* with the session, and finish_compilation pays it or records it.
LEMMA OwedNext ==
    ASSUME TypeInv, Asked, Uninterrupted, ~InterruptReloads, Owed, [Next]_vars PROVE Owed'
  <1> USE DEF Working
  <1>1. CASE UNCHANGED <<mpc, tpc, acts, log, reply, pendingTest, untested>>
    BY <1>1 DEF Owed, RunPostActions
  <1>2. CASE WatcherNext
    <2>1. UNCHANGED <<mpc, tpc, acts, log, pendingTest, untested>>
      BY <1>2, WatcherFrame DEF managerVars, ghciVars
    <2>2. CASE vqueue # <<>> /\ vqueue[1].awaited
      <3>1. 1 \in DOMAIN vqueue
        BY <2>2, SenderTypes
      <3>2. tpc = "awaiting"
        BY <2>2, <3>1 DEF Asked
      <3> QED
        BY <2>1, <3>2 DEF Owed, RunPostActions, TypeInv, Shape
    <2> QED
      BY <1>1, <1>2, <2>1, <2>2, VqueueWatcher
  <1>3. CASE ManagerNext
    <2>1. UNCHANGED <<log, acts, pendingTest, untested>>
      BY <1>3, ManagerFrame DEF ghciVars
    <2>2. CASE handle_event \/ FinishDispatch
      BY <2>1, <2>2 DEF handle_event, FinishDispatch, Owed, RunPostActions, TypeInv, Shape
    <2>3. CASE wait_for_event
      BY <2>1, <2>3 DEF wait_for_event, Owed, RunPostActions, TypeInv, Shape, taskVars
    <2>4. CASE Coalesce \/ Forward
      BY <1>1, <2>1, <2>4 DEF Coalesce, Forward, managerVars, taskVars
    <2>5. CASE ReceiveWhileDispatching
      BY <2>1, <2>5 DEF ReceiveWhileDispatching, Owed, RunPostActions, taskVars
    <2> QED
      BY <1>3, <2>2, <2>3, <2>4, <2>5
         DEF ManagerNext, should_interrupt, InterruptReload, Uninterrupted
  <1>4. CASE TaskNext
    <2>1. tpc # "idle" /\ mpc # "wait" /\ UNCHANGED mpc
      BY <1>4, TaskFrame DEF TypeInv, Shape, managerVars, TaskNext, reload, RunBeforeHooks,
         SubmitRemove, SubmitAdd, CommitAndReload, restart, synchronize_haskell_files, ReadFile,
         CompileDone, AnnounceNone, compilation_snapshot_is_current, write_error_log,
         RunAfterHooks, finish_compilation
    <2>2. CASE reload
      BY <2>1, <2>2 DEF reload, Owed, RunPostActions
    <2>3. CASE RunBeforeHooks
      BY <2>1, <2>3 DEF RunBeforeHooks, Owed, RunPostActions, needs_restart, needs_modify,
         ghciVars, TypeInv, TypeOK, TaskTypeOK, Actions
    <2>4. CASE CompileDone
      BY <2>1, <2>4 DEF CompileDone, Owed, RunPostActions
    <2>5. CASE finish_compilation
      BY <2>1, <2>5 DEF finish_compilation, Owed, RunPostActions, TypeInv, TypeOK, TaskTypeOK
    <2>6. CASE restart
      BY <2>1, <2>6 DEF restart, Owed, RunPostActions
    <2>7. CASE write_error_log \/ RunAfterHooks
      BY <2>1, <2>7 DEF write_error_log, RunAfterHooks, Owed, RunPostActions, ghciVars
    <2>8. ASSUME SubmitRemove \/ SubmitAdd \/ CommitAndReload \/ synchronize_haskell_files
                   \/ (\E p \in Path : ReadFile(p)) \/ AnnounceNone
                   \/ compilation_snapshot_is_current
          PROVE Owed'
      <3>1. /\ tpc \in Working \union {"validate"} /\ tpc' \in Working \union {"awaiting"}
            /\ (tpc' \in Working \ {"validate"} => tpc \in Working \ {"validate"})
            /\ UNCHANGED <<acts, log, pendingTest, untested>>
        BY <2>8 DEF SubmitRemove, SubmitAdd, CommitAndReload, synchronize_haskell_files, ReadFile,
           AnnounceNone, compilation_snapshot_is_current, Submit, ghciVars
      <3> QED
        BY <2>1, <3>1 DEF Owed, RunPostActions
    <2> QED
      BY <1>4, <2>2, <2>3, <2>4, <2>5, <2>6, <2>7, <2>8 DEF TaskNext
  <1> QED
    BY <1>1, <1>2, <1>3, <1>4 DEF Next, UserNext, Edit, vars, managerVars, taskVars, ghciVars

\* Theorem: no successful compilation is left without its test hooks, for every choice of
\* the other options, as long as reloads are not interrupted and no edit restores a state
\* the file had before: the debt of a superseded attempt is outstanding only while its
\* follow-up is to come (SupersededIsFollowedUp), and the follow-up pays it.
THEOREM TestDebtPaid ==
    Reverts = FALSE /\ InterruptReloads = FALSE => (Spec => []QuiescentTested)
  <1> SUFFICES ASSUME Reverts = FALSE, InterruptReloads = FALSE PROVE Spec => []QuiescentTested
    OBVIOUS
  <1> DEFINE Inv == FollowUpInv /\ Uninterrupted /\ Owed
  <1>1. Init => Inv
    <2>1. Init => Uninterrupted /\ Owed
      BY DEF Init, Uninterrupted, Owed, Working
    <2> QED
      BY <2>1, FollowUpInit
  <1>2. Inv /\ [Next]_vars => Inv'
    BY FollowUpNext, UninterruptedNext, OwedNext DEF FollowUpInv
  <1>3. Inv => QuiescentTested
    <2> SUFFICES ASSUME FollowUpInv, Owed, Rest PROVE ~untested
      BY DEF QuiescentTested
    <2>1. mpc = "wait" /\ tpc = "idle" /\ reply # "superseded"
      BY CaughtUpAtRest DEF Rest, FollowUpInv, TypeInv, Shape
    <2> QED
      BY <2>1 DEF Owed
  <1> HIDE DEF Inv
  <1> QED
    BY <1>1, <1>2, <1>3, PTL DEF Spec
=============================================================================
