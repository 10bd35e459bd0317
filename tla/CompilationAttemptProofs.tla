---------------------- MODULE CompilationAttemptProofs ----------------------
(***************************************************************************)
(* For every value of the constants of CompilationAttempt: the lifecycle   *)
(* hooks of compilation attempts nest, a successful attempt runs the eval  *)
(* comments of the snapshot it validated, and at rest the error file tells *)
(* the truth about the files on disk.                                      *)
(***************************************************************************)
EXTENDS CompilationAttempt, SequenceTheorems, TLAPS

\* Where an attempt is: before a restart's own hooks, at work, or past its hooks.
Working == {"classify", "remove", "named", "path", "commit", "reload", "read", "sync",
            "initialized", "publish"}
Stage == Working \union {"restart", "launch", "after", "eval", "none"}

\* The after-hooks a restart owes once its before-hooks have all run.
RestartAfter == <<"startup", "restart", "reload">>

\* The after-hooks that are left close the lifecycle events that are open.
Owed(after) ==
    \/ after = <<"reload">> /\ open = <<"reload">>
    \/ after = <<"restart", "reload">> /\ open = <<"reload", "restart">>
    \/ after = RestartAfter /\ open = Nesting

HookInv ==
    /\ {"pc", "after", "next"} \subseteq DOMAIN att /\ att.pc \in Stage
    /\ barrier = "free" <=> att.pc = "none"
    /\ att.pc \in {"none", "eval"} => open = <<>>
    /\ att.pc \in Working \union {"after"} => Owed(att.after)
    /\ att.pc = "classify" => att.after = <<"reload">>
    /\ att.pc = "restart" => att.after = RestartAfter /\ open = <<"reload">>
    /\ att.pc = "launch" => att.after = RestartAfter /\ open = <<"reload", "restart">>
    /\ att.pc = "read" => att.next \in {"sync", "initialized", "commit", "publish"}

HookEvent == {"reload", "restart", "startup"}

\* Two short sequences of lifecycle events are equal if their elements are.
LEMMA SameEvents ==
    ASSUME NEW s \in Seq(HookEvent), NEW t \in Seq(HookEvent), Len(s) = Len(t), Len(s) \in 1..3,
           s[1] = t[1], Len(s) >= 2 => s[2] = t[2], Len(s) = 3 => s[3] = t[3]
    PROVE  s = t
  <1>1. \A i \in 1..Len(s) : s[i] = t[i]
    OBVIOUS
  <1> QED
    BY <1>1, SeqEqual

\* What run_hooks makes of the stack when it pushes an event.
LEMMA AppendFacts ==
    ASSUME NEW s \in Seq(HookEvent), NEW e \in HookEvent
    PROVE  /\ Append(s, e) \in Seq(HookEvent) /\ Len(Append(s, e)) = Len(s) + 1
           /\ Append(s, e)[Len(s) + 1] = e
           /\ \A i \in 1..Len(s) : Append(s, e)[i] = s[i]
  BY AppendProperties

\* run_hooks pushes and pops the events the way the restart sequence nests them.
LEMMA HookStack ==
    /\ Before(<<>>, "reload") = <<"reload">>
    /\ Before(<<"reload">>, "restart") = <<"reload", "restart">>
    /\ Before(<<"reload", "restart">>, "startup") = Nesting
    /\ After(<<"reload">>, "reload") = <<>>
    /\ After(<<"reload", "restart">>, "restart") = <<"reload">>
    /\ After(Nesting, "startup") = <<"reload", "restart">>
  <1> DEFINE one == <<"reload">>
             two == <<"reload", "restart">>
  <1>a. one \in Seq(HookEvent) /\ Len(one) = 1 /\ one[1] = "reload"
    BY DEF HookEvent
  <1>b. two \in Seq(HookEvent) /\ Len(two) = 2 /\ two[1] = "reload" /\ two[2] = "restart"
    BY DEF HookEvent
  <1>c. /\ Nesting \in Seq(HookEvent) /\ Len(Nesting) = 3
        /\ Nesting[1] = "reload" /\ Nesting[2] = "restart" /\ Nesting[3] = "startup"
    BY DEF Nesting, HookEvent
  <1>1. Before(<<>>, "reload") = one
    BY DEF Before
  <1>4. After(one, "reload") = <<>>
    BY DEF After, Last, Front
  <1> HIDE DEF one, two
  <1>2. Before(one, "restart") = two
    <2>1. /\ Append(one, "restart") \in Seq(HookEvent) /\ Len(Append(one, "restart")) = 2
          /\ Append(one, "restart")[1] = "reload" /\ Append(one, "restart")[2] = "restart"
      BY <1>a, AppendProperties DEF HookEvent
    <2> QED
      BY <1>b, <2>1, SameEvents DEF Before
  <1>3. Before(two, "startup") = Nesting
    <2>0. "startup" \in HookEvent /\ Len(two) + 1 = 3 /\ 1 \in 1..Len(two) /\ 2 \in 1..Len(two)
      BY <1>b DEF HookEvent
    <2>1. two \in Seq(HookEvent)
      BY <1>b
    <2>2. Append(two, "startup") \in Seq(HookEvent) /\ Len(Append(two, "startup")) = 3
      BY <2>0, <2>1, AppendFacts
    <2>3. Append(two, "startup")[1] = two[1] /\ Append(two, "startup")[2] = two[2]
      BY <2>0, <2>1, AppendFacts
    <2>4. Append(two, "startup")[3] = "startup"
      BY <2>0, <2>1, AppendFacts
    <2> QED
      BY <1>b, <1>c, <2>2, <2>3, <2>4, SameEvents DEF Before
  <1>5. After(two, "restart") = one
    <2>1. /\ SubSeq(two, 1, 1) \in Seq(HookEvent) /\ Len(SubSeq(two, 1, 1)) = 1
          /\ SubSeq(two, 1, 1)[1] = "reload"
      BY <1>a, <1>b, <1>c, SubSeqProperties DEF HookEvent
    <2> QED
      BY <1>a, <1>b, <1>c, <2>1, SameEvents DEF After, Last, Front
  <1>6. After(Nesting, "startup") = two
    <2>1. /\ SubSeq(Nesting, 1, 2) \in Seq(HookEvent) /\ Len(SubSeq(Nesting, 1, 2)) = 2
          /\ SubSeq(Nesting, 1, 2)[1] = "reload" /\ SubSeq(Nesting, 1, 2)[2] = "restart"
      BY <1>a, <1>b, <1>c, SubSeqProperties DEF HookEvent
    <2> QED
      BY <1>a, <1>b, <1>c, <2>1, SameEvents DEF After, Last, Front
  <1> QED
    BY <1>1, <1>2, <1>3, <1>4, <1>5, <1>6 DEF one, two

\* What is open at the stages of a restart is a prefix of the nesting.
LEMMA NestingPrefixes ==
    \A s \in {<<>>, <<"reload">>, <<"reload", "restart">>, Nesting} : s = SubSeq(Nesting, 1, Len(s))
  <1>1. /\ Nesting \in Seq(HookEvent) /\ Len(Nesting) = 3
        /\ Nesting[1] = "reload" /\ Nesting[2] = "restart" /\ Nesting[3] = "startup"
    BY DEF Nesting, HookEvent
  <1>2. <<>> = SubSeq(Nesting, 1, Len(<<>>))
    BY <1>1, SubSeqEmpty
  <1>3. <<"reload">> = SubSeq(Nesting, 1, Len(<<"reload">>))
    <2> DEFINE one == <<"reload">>
    <2>1. one \in Seq(HookEvent) /\ Len(one) = 1 /\ one[1] = "reload"
      BY DEF HookEvent
    <2> HIDE DEF one
    <2>2. SubSeq(Nesting, 1, 1) \in Seq(HookEvent) /\ Len(SubSeq(Nesting, 1, 1)) = 1
              /\ SubSeq(Nesting, 1, 1)[1] = "reload"
      BY <1>1, SubSeqProperties DEF HookEvent
    <2>3. one = SubSeq(Nesting, 1, Len(one))
      BY <2>1, <2>2, SameEvents
    <2> QED
      BY <2>3 DEF one
  <1>4. <<"reload", "restart">> = SubSeq(Nesting, 1, Len(<<"reload", "restart">>))
    <2> DEFINE two == <<"reload", "restart">>
    <2>1. two \in Seq(HookEvent) /\ Len(two) = 2 /\ two[1] = "reload" /\ two[2] = "restart"
      BY DEF HookEvent
    <2> HIDE DEF two
    <2>2. /\ SubSeq(Nesting, 1, 2) \in Seq(HookEvent) /\ Len(SubSeq(Nesting, 1, 2)) = 2
          /\ SubSeq(Nesting, 1, 2)[1] = "reload" /\ SubSeq(Nesting, 1, 2)[2] = "restart"
      BY <1>1, SubSeqProperties DEF HookEvent
    <2>3. two = SubSeq(Nesting, 1, Len(two))
      BY <2>1, <2>2, SameEvents
    <2> QED
      BY <2>3 DEF two
  <1>5. Nesting = SubSeq(Nesting, 1, Len(Nesting))
    BY <1>1, SubSeqFull
  <1> QED
    BY <1>2, <1>3, <1>4, <1>5

\* At startup nothing is open and the barrier is free.
LEMMA HookInit == Init => HookInv
  BY DEF Init, HookInv, NewAttempt, Stage, Working

\* One step keeps HookInv.
LEMMA HookNext == HookInv /\ [Next]_vars => HookInv'
  <1> SUFFICES ASSUME HookInv, [Next]_vars PROVE HookInv'
    OBVIOUS
  <1> USE HookStack DEF HookInv, Owed, RestartAfter, Stage, Working, envVars, actorVars, ghciVars
  <1>1. ASSUME NEW p \in Path, NEW s \in FileState, Edit(p, s) PROVE HookInv'
    BY <1>1 DEF Edit
  <1>2. CASE Request
    BY <1>2 DEF Request
  <1>3. CASE wait_for_event
    BY <1>3 DEF wait_for_event
  <1>4. CASE handle_event
    BY <1>4 DEF handle_event, NewAttempt
  <1>5. CASE reload_from_eval
    BY <1>5 DEF reload_from_eval, NewAttempt
  <1>6. CASE reload
    <2>1. \/ att'.pc = "restart" /\ att'.after = RestartAfter
          \/ att'.pc \in {"publish", "remove"} /\ att'.after = att.after
      BY <1>6 DEF reload
    <2>2. DOMAIN att' = DOMAIN att
      BY <1>6 DEF reload
    <2> QED
      BY <1>6, <2>1, <2>2 DEF reload
  <1>7. CASE remove_modules
    BY <1>7 DEF remove_modules
  <1>8. CASE add_modules
    BY <1>8 DEF add_modules, Accept, Refresh, AddDone
  <1>9. CASE Commit
    BY <1>9 DEF Commit
  <1>10. ASSUME NEW names \in SUBSET Source, add_named_modules(names) PROVE HookInv'
    <2>1. DOMAIN att' = DOMAIN att /\ att'.after = att.after
      BY <1>10 DEF add_named_modules, Accept, Refresh
    <2>2. \/ att'.pc \in {"path", "initialized", "commit"}
          \/ att'.pc = "read" /\ att'.next \in {"initialized", "commit"}
      BY <1>10 DEF add_named_modules, Accept, Refresh, AddDone
    <2> QED
      BY <1>10, <2>1, <2>2 DEF add_named_modules
  <1>11. CASE reload_targets
    BY <1>11 DEF reload_targets, Refresh
  <1>12. CASE restart
    BY <1>12 DEF restart
  <1>13. CASE initialize_inner
    BY <1>13 DEF initialize_inner, Refresh
  <1>14. CASE synchronize_haskell_files
    BY <1>14 DEF synchronize_haskell_files
  <1>15. CASE Initialized
    BY <1>15 DEF Initialized
  <1>16. CASE RefreshDone
    BY <1>16 DEF RefreshDone
  <1>17. CASE write_error_log
    BY <1>17 DEF write_error_log
  <1>18. CASE RunAfterHooks
    <2>1. open' = After(open, Head(att.after)) /\ barrier' = barrier /\ att.pc = "after"
      BY <1>18 DEF RunAfterHooks
    <2>2. DOMAIN att' = DOMAIN att
      BY <1>18 DEF RunAfterHooks
    <2>3. CASE att.after = <<"reload">> /\ open = <<"reload">>
      <3>1. att'.pc = "eval" /\ Head(att.after) = "reload"
        BY <1>18, <2>3 DEF RunAfterHooks
      <3> QED
        BY <2>1, <2>2, <2>3, <3>1
    <2>4. CASE att.after = <<"restart", "reload">> /\ open = <<"reload", "restart">>
      <3>1. /\ att'.pc = "after" /\ Head(att.after) = "restart" /\ att'.after = Tail(att.after)
            /\ Tail(att.after) = <<"reload">>
        BY <1>18, <2>4 DEF RunAfterHooks
      <3> QED
        BY <2>1, <2>2, <2>4, <3>1
    <2>5. CASE att.after = RestartAfter /\ open = Nesting
      <3>1. /\ att'.pc = "after" /\ Head(att.after) = "startup" /\ att'.after = Tail(att.after)
            /\ Tail(att.after) = <<"restart", "reload">>
        BY <1>18, <2>5 DEF RunAfterHooks
      <3> QED
        BY <2>1, <2>2, <2>5, <3>1
    <2> QED
      BY <2>1, <2>3, <2>4, <2>5
  <1>19. ASSUME NEW p \in Source, refresh_eval_commands(p) PROVE HookInv'
    BY <1>19 DEF refresh_eval_commands
  <1>20. ASSUME NEW p \in Source, eval(p) PROVE HookInv'
    BY <1>20 DEF eval
  <1>21. CASE FinishDispatch
    BY <1>21 DEF FinishDispatch
  <1>22. CASE Respond
    BY <1>22 DEF Respond
  <1>23. CASE UNCHANGED vars
    BY <1>23 DEF vars
  <1> QED
    BY <1>1, <1>2, <1>3, <1>4, <1>5, <1>6, <1>7, <1>8, <1>9, <1>10, <1>11, <1>12, <1>13, <1>14,
       <1>15, <1>16, <1>17, <1>18, <1>19, <1>20, <1>21, <1>22, <1>23 DEF Next

\* Theorem: before- and after-hooks nest, reload around restart around startup, one
\* attempt at a time; every before run is closed by exactly one after run, and none is
\* left open when the operation barrier is free (Ghci::finish_compilation, EvalBarrier).
THEOREM LifecycleHooksNest == Spec => []HooksNest
  <1>1. HookInv => HooksNest
    BY NestingPrefixes DEF HookInv, HooksNest, Owed, Stage
  <1> QED
    BY HookInit, HookNext, <1>1, PTL DEF Spec

-----------------------------------------------------------------------------
(***************************************************************************)
(* Eval comments and the error file.  The argument is about one source at  *)
(* a time: unless a change of it is waiting (Noticed), or the attempt has  *)
(* still to deal with it (TargetTodo, CommentTodo), it is a target exactly *)
(* if it exists, and its entry in eval_commands is what is on disk.        *)
(* Contents do not come back, so a snapshot that is found current at the   *)
(* end was current throughout (Captured).                                  *)
(***************************************************************************)
Errors == Source \union {Lookup(p) : p \in Source} \union {<<"failed", "startup">>}
Log == [summary : {"none", "ok", "err"}, diagnostics : SUBSET Errors,
        stdout : SUBSET Errors, stderr : SUBSET Errors]
Attempt == [by : {"manager", "eval"}, pc : Stage, acts : Actions, log : Log,
            expected : SourceSnapshot \union {NoSnapshot}, synced : SUBSET Haskell,
            add : SUBSET Source, after : Seq(HookEvent), unread : SUBSET Source,
            all : BOOLEAN, fresh : [Source -> FileState],
            next : {"none", "sync", "initialized", "commit", "publish"},
            ok : BOOLEAN, post : BOOLEAN, current : BOOLEAN,
            comments : SUBSET (Source \X FileState)]

AttemptType ==
    /\ disk \in [Path -> FileState] /\ used \in [Path -> SUBSET FileState]
    /\ dirty \in SUBSET Path /\ interrupts \in BOOLEAN
    /\ mpc \in {"wait", "queued", "dispatch", "dead"} /\ event \in OptionEvent
    /\ epc \in {"idle", "queued", "run"} /\ barrier \in {"free", "manager", "eval"}
    /\ known \in SUBSET Haskell /\ targets \in SUBSET Source
    /\ evals \in [Source -> FileState]
    /\ att \in Attempt

\* The manager and the eval socket take turns behind the barrier.
Holder ==
    /\ mpc = "dispatch" <=> barrier = "manager"
    /\ epc = "run" <=> barrier = "eval"
    /\ barrier = "free" <=> att.pc = "none"
    /\ mpc \in {"queued", "dispatch"} => event \in Event
    /\ barrier = "manager" => att.by = "manager" /\ att.expected = event.snapshot
    /\ barrier = "eval" =>
          /\ att.by = "eval" /\ att.expected = NoSnapshot /\ att.acts = NoActions
          /\ att.pc \in {"reload", "read", "publish", "after", "eval"}
          /\ att.pc = "read" => att.all /\ att.next = "publish"

\* Exactly the dirty paths have changed since the event was captured.
Captured ==
    /\ \A p \in Path : disk[p] \in used[p]
    /\ mpc \in {"queued", "dispatch"} => \A p \in Haskell :
          /\ event.snapshot[p] \in used[p]
          /\ event.snapshot[p] = disk[p] <=> p \notin dirty

Reading(next) == att.pc = "read" /\ att.next = next

\* What the stages of an attempt may rely on.
Work ==
    /\ att.pc \in {"classify", "restart", "launch", "sync", "remove", "named", "path", "commit",
                   "initialized"} \/ Reading("sync") => mpc = "dispatch"
    /\ att.pc \in {"classify", "restart", "launch", "sync", "initialized"}
          \/ Reading("sync") \/ Reading("initialized") => att.acts = NoActions
    /\ att.pc \in {"restart", "launch", "sync"} \/ Reading("sync") =>
          att.synced = haskell_files(att.expected)
    /\ att.pc \in {"remove", "named", "path"} => att.add \subseteq haskell_files(att.expected)
    /\ att.pc = "remove" => att.acts.remove \intersect haskell_files(att.expected) = {}
    /\ att.pc = "remove" =>
          att.acts.reload \intersect Source \subseteq targets \ att.acts.remove
    /\ att.pc \in {"named", "path", "commit", "reload"} \/ (att.pc = "read" /\ ~att.all) =>
          att.acts.reload \intersect Source \subseteq targets
    /\ att.pc = "read" => att.unread \subseteq targets
    /\ att.pc = "read" /\ att.all => att.next \in {"sync", "publish"}
    /\ Reading("sync") => att.all
    /\ att.pc \in {"classify", "restart", "launch"} \/ (barrier = "eval" /\ att.pc = "reload") =>
          att.fresh = [p \in Source |-> Missing]
    /\ att.pc \notin {"eval", "none"} => executed = {}

-----------------------------------------------------------------------------
\* A record of an attempt has these fields.
LEMMA AttemptFields ==
    ASSUME NEW a \in Attempt
    PROVE  /\ DOMAIN a = {"by", "pc", "acts", "log", "expected", "synced", "add", "after",
                          "unread", "all", "fresh", "next", "ok", "post", "current", "comments"}
           /\ a.by \in {"manager", "eval"} /\ a.pc \in Stage /\ a.acts \in Actions
           /\ a.log \in Log /\ a.expected \in SourceSnapshot \union {NoSnapshot}
           /\ a.synced \in SUBSET Haskell /\ a.add \in SUBSET Source
           /\ a.after \in Seq(HookEvent) /\ a.unread \in SUBSET Source /\ a.all \in BOOLEAN
           /\ a.fresh \in [Source -> FileState]
           /\ a.next \in {"none", "sync", "initialized", "commit", "publish"}
           /\ a.ok \in BOOLEAN /\ a.post \in BOOLEAN /\ a.current \in BOOLEAN
           /\ a.comments \in SUBSET (Source \X FileState)
  BY DEF Attempt

\* A compiling command reports sources that do not compile, some if there are any, and
\* all unless it is interrupted.
LEMMA OutcomeFacts ==
    ASSUME AttemptType, NEW ts \in SUBSET Source, NEW o \in Outcomes(ts)
    PROVE  /\ o.errors \subseteq Broken(ts) /\ Broken(ts) \subseteq ts /\ o.stopped \in BOOLEAN
           /\ o.errors = {} <=> Broken(ts) = {}
           /\ ~interrupts => o.errors = Broken(ts) /\ ~o.stopped
  <1>1. Broken(ts) \subseteq ts
    BY DEF Broken
  <1>2. CASE o = Stopless(ts)
    BY <1>1, <1>2 DEF Stopless
  <1>3. ASSUME NEW es \in SUBSET Broken(ts), interrupts, es \ Forwarded # {},
               o = [errors |-> es, stopped |-> TRUE]
        PROVE  /\ o.errors \subseteq Broken(ts) /\ o.stopped \in BOOLEAN
               /\ o.errors = {} <=> Broken(ts) = {}
               /\ ~interrupts => o.errors = Broken(ts) /\ ~o.stopped
    <2>1. o.errors = es /\ o.stopped = TRUE /\ es # {}
      BY <1>3
    <2> QED
      BY <1>3, <2>1
  <1> QED
    BY <1>1, <1>2, <1>3 DEF Outcomes

LEMMA StoplessFacts ==
    ASSUME NEW ts \in SUBSET Source
    PROVE  Stopless(ts) \in Outcomes(ts) /\ Stopless(ts).errors = Broken(ts)
  BY DEF Outcomes, Stopless

\* `new' is `old' and some more errors.
Adds(new, old, errors) ==
    /\ new.diagnostics = old.diagnostics \union errors
    /\ new.stdout \union new.stderr = old.stdout \union old.stderr \union errors

\* CompilationLog keeps what its streams were told, and says which came last.
LEMMA ExtendFacts ==
    ASSUME NEW log \in Log, NEW es \in SUBSET Errors, NEW summary \in {"none", "ok", "err"},
           NEW new, new = extend(log, es, summary)
    PROVE  new \in Log /\ new.summary = summary /\ Adds(new, log, es)
  BY DEF extend, Log, Adds

LEMMA CompiledFacts ==
    ASSUME AttemptType, NEW log \in Log, NEW ts \in SUBSET Source, NEW o \in Outcomes(ts),
           NEW new, new = Compiled(log, o)
    PROVE  /\ new \in Log /\ Adds(new, log, o.errors)
           /\ new.summary = IF Broken(ts) = {} THEN "ok" ELSE "err"
  <1>1. o.errors \in SUBSET Errors /\ (o.errors = {} <=> Broken(ts) = {})
    BY OutcomeFacts DEF Errors
  <1>2. new = extend(log, o.errors, IF o.errors = {} THEN "ok" ELSE "err")
    BY DEF Compiled
  <1> QED
    BY <1>1, <1>2, ExtendFacts

LEMMA LogOperators ==
    ASSUME NEW log \in Log, NEW named \in Log
    PROVE  /\ EmptyLog \in Log /\ append_log(log, named) \in Log
           /\ fill_empty_summary(log) \in Log /\ mark_failed(log) \in Log
           /\ mark_failed_with_diagnostic(log) \in Log
  <1>1. EmptyLog \in Log /\ append_log(log, named) \in Log /\ fill_empty_summary(log) \in Log
    BY DEF EmptyLog, append_log, fill_empty_summary, Log
  <1>2. mark_failed(log) \in Log
    BY DEF mark_failed, Log
  <1>3. ASSUME NEW l \in Log, NEW ds \in SUBSET Errors
        PROVE  [l EXCEPT !.diagnostics = ds] \in Log
    BY DEF Log
  <1>4. /\ mark_failed(log).diagnostics \in SUBSET Errors
        /\ {<<"failed", "startup">>} \in SUBSET Errors
    BY <1>2 DEF Log, Errors
  <1> QED
    BY <1>1, <1>2, <1>3, <1>4 DEF mark_failed_with_diagnostic

\* What get_reload_actions asks for, in terms of the files and the target set.
AsksFor(a, hints, files, ts) ==
    /\ a.add \subseteq files \ ts /\ a.remove \subseteq ts \ files
    /\ a.reload \intersect Source \subseteq ts \intersect files
    /\ ~needs_restart(a) => \A p \in Source : hints[p] # "none" =>
          p \in a.add \/ p \in a.remove \/ p \in a.reload \/ (p \notin files /\ p \notin ts)

LEMMA ReloadActionsFacts ==
    ASSUME NEW h \in [Path -> {"none", "modify", "remove"}], NEW f \in SUBSET Haskell,
           NEW k \in SUBSET Haskell, NEW t \in SUBSET Source,
           NEW a, a = get_reload_actions(h, f, k, t, FALSE)
    PROVE  a \in Actions /\ AsksFor(a, h, f, t)
  <1> DEFINE ev  == reconcile(h, f)
             c   == classify(ev, t)
             add == c.add \union (((f \intersect Source) \ k) \ t)
  <1>1. \A p \in Source : ev[p] = IF h[p] # "none" THEN IF p \in f THEN "modify" ELSE "remove"
                                                  ELSE "none"
    BY DEF reconcile, Haskell, Path
  <1>2. Source \subseteq Path /\ Source \intersect Extra = {} /\ f \subseteq Path
    BY PathKindsDisjoint DEF Path, Haskell
  <1>3. /\ c.add = {p \in Source : ev[p] = "modify"} \ t
        /\ c.remove = {p \in Path : ev[p] = "remove"} \intersect t
        /\ c.reload = ({p \in Path : ev[p] = "modify"} \intersect t)
                          \union {p \in Extra : ev[p] # "none"}
        /\ c.restart \in SUBSET Path
    BY <1>2 DEF classify, Restarting, Path
  <1> HIDE DEF c, ev
  <1>4. /\ a.restart = c.restart \union (IF RestartOnAdd THEN add ELSE {})
        /\ a.reload = c.reload /\ a.add = (IF RestartOnAdd THEN {} ELSE add)
        /\ a.remove = c.remove \union ((k \ f) \intersect t)
        /\ a = [restart |-> a.restart, reload |-> a.reload, add |-> a.add, remove |-> a.remove]
    BY AttemptConstants DEF get_reload_actions, c, ev
  <1>5. add \subseteq (f \intersect Source) \ t
    BY <1>1, <1>3
  <1>6. c.remove \subseteq t \ f /\ c.reload \intersect Source \subseteq t \intersect f
    BY <1>1, <1>2, <1>3
  <1>7. c.reload \subseteq Path
    BY <1>3 DEF Path
  <1> HIDE DEF add
  <1>8. a \in Actions
    BY <1>2, <1>3, <1>4, <1>5, <1>6, <1>7 DEF Actions
  <1>9. ASSUME ~needs_restart(a), NEW p \in Source, h[p] # "none"
        PROVE  p \in a.add \/ p \in a.remove \/ p \in a.reload \/ (p \notin f /\ p \notin t)
    <2>1. p \in f /\ p \notin t => p \in add
      BY <1>1, <1>3, <1>9 DEF add
    <2>2. a.add = add
      BY <1>4, <1>9, <2>1, <1>5 DEF needs_restart
    <2> QED
      BY <1>1, <1>2, <1>3, <1>4, <1>9, <2>1, <2>2
  <1> QED
    BY <1>4, <1>5, <1>6, <1>8, <1>9 DEF AsksFor

LEMMA NewAttemptType ==
    ASSUME NEW by \in {"manager", "eval"}, NEW e \in SourceSnapshot \union {NoSnapshot}
    PROVE  NewAttempt(by, e) \in Attempt
  BY DEF NewAttempt, Attempt, Stage, Working, NoActions, Actions, EmptyLog, Log, FileState,
     HookEvent

-----------------------------------------------------------------------------
\* Startup establishes the types of the attempt and of the session's bookkeeping.
LEMMA AttemptTypeInit == Init => AttemptType
  <1> SUFFICES ASSUME Init PROVE AttemptType
    OBVIOUS
  <1>1. att \in Attempt
    <2>1. NewAttempt("manager", NoSnapshot) \in Attempt
      BY NewAttemptType
    <2> QED
      BY <2>1 DEF Init, Attempt, Stage
  <1>2. targets \in SUBSET Source /\ known \in SUBSET Haskell /\ Source \subseteq Path
    BY AttemptConstants DEF Init, Path
  <1>3. evals \in [Source -> FileState]
    BY <1>2 DEF Init, Comment, FileState
  <1> QED
    BY <1>1, <1>2, <1>3 DEF Init, AttemptType, OptionEvent

\* What get_reload_actions is asked by Ghci::reload, and what it answers.
LEMMA ReloadFacts ==
    ASSUME AttemptType, Holder, Work, reload
    PROVE  LET files == haskell_files(att.expected)
               a     == get_reload_actions(event.events, files, known, targets, FALSE)
           IN
           /\ mpc = "dispatch" /\ att.pc = "classify" /\ event \in Event
           /\ att.expected = event.snapshot /\ files \in SUBSET Haskell
           /\ a \in Actions /\ AsksFor(a, event.events, files, targets)
           /\ \/ /\ needs_restart(a)
                 /\ att' = [att EXCEPT !.pc = "restart", !.synced = files,
                                       !.after = <<"startup", "restart", "reload">>]
                 /\ UNCHANGED known
              \/ /\ ~needs_restart(a) /\ ~needs_modify(a)
                 /\ att' = [att EXCEPT !.pc = "publish", !.post = FALSE]
                 /\ known' = files
              \/ /\ ~needs_restart(a) /\ needs_modify(a)
                 /\ att' = [att EXCEPT !.pc = "remove", !.acts = a, !.synced = files,
                                       !.add = a.add]
                 /\ UNCHANGED known
           /\ UNCHANGED <<envVars, actorVars, open, targets, evals, executed, file>>
  <1> DEFINE files == haskell_files(att.expected)
             a     == get_reload_actions(event.events, files, known, targets, FALSE)
  <1>1. att.pc = "classify" /\ mpc = "dispatch"
    BY DEF reload, Work
  <1>2. event \in Event /\ att.expected = event.snapshot
    BY <1>1 DEF Holder
  <1>3. /\ files \in SUBSET Haskell /\ known \in SUBSET Haskell /\ targets \in SUBSET Source
        /\ event.events \in [Path -> {"none", "modify", "remove"}]
    BY <1>2 DEF haskell_files, AttemptType, Event
  <1> HIDE DEF files
  <1>3a. a = get_reload_actions(event.events, files, known, targets, FALSE)
    OBVIOUS
  <1> HIDE DEF a
  <1>4. a \in Actions /\ AsksFor(a, event.events, files, targets)
    BY <1>3, <1>3a, ReloadActionsFacts
  <1> QED
    BY <1>1, <1>2, <1>3, <1>4 DEF reload, a, files

\* `b' is `a', about to read comments.
StartsReading(b, a, all, paths, next) ==
    /\ b \in Attempt /\ b.pc = "read" /\ b.all = all /\ b.unread = paths /\ b.next = next
    /\ b.by = a.by /\ b.expected = a.expected /\ b.acts = a.acts /\ b.log = a.log
    /\ b.synced = a.synced /\ b.add = a.add /\ b.after = a.after /\ b.fresh = a.fresh
    /\ b.ok = a.ok /\ b.post = a.post /\ b.current = a.current /\ b.comments = a.comments

LEMMA RefreshFacts ==
    ASSUME NEW a \in Attempt, NEW all \in BOOLEAN, NEW paths \in SUBSET Source,
           NEW next \in {"none", "sync", "initialized", "commit", "publish"},
           NEW b, b = Refresh(a, all, paths, next)
    PROVE  StartsReading(b, a, all, paths, next)
  <1>1. b = [a EXCEPT !.pc = "read", !.all = all, !.unread = paths, !.next = next]
    BY DEF Refresh
  <1>2. "read" \in Stage
    BY DEF Stage, Working
  <1> DEFINE c == [a EXCEPT !.pc = "read", !.all = all]
             d == [c EXCEPT !.unread = paths]
  <1>3. b \in Attempt
    <2>1. c \in Attempt
      BY <1>2 DEF Attempt
    <2>2. b = [d EXCEPT !.next = next]
      BY <1>1, AttemptFields
    <2> HIDE DEF c
    <2>3. d \in Attempt
      BY <2>1 DEF Attempt
    <2> HIDE DEF d
    <2> QED
      BY <2>2, <2>3 DEF Attempt
  <1> QED
    BY <1>1, <1>3, AttemptFields DEF StartsReading

\* The end of add_modules, for the additions in ts.
Accepts(b, a, log, ts) ==
    /\ b \in Attempt /\ b.pc = "read" /\ ~b.all /\ b.unread = a.add \intersect ts
    /\ b.next = IF a.acts = NoActions THEN "initialized" ELSE "commit"
    /\ b.log = IF a.add \subseteq ts THEN fill_empty_summary(log) ELSE mark_failed(log)
    /\ b.by = a.by /\ b.expected = a.expected /\ b.acts = a.acts
    /\ b.synced = a.synced \ (a.add \ ts) /\ b.add = a.add /\ b.after = a.after
    /\ b.fresh = a.fresh /\ b.ok = a.ok /\ b.post = a.post /\ b.current = a.current
    /\ b.comments = a.comments

LEMMA AcceptFacts ==
    ASSUME NEW a \in Attempt, NEW log \in Log, NEW ts \in SUBSET Source,
           NEW b, b = Accept(a, log, ts)
    PROVE  Accepts(b, a, log, ts)
  <1> DEFINE l == IF a.add \ ts = {} THEN fill_empty_summary(log) ELSE mark_failed(log)
             s == a.synced \ (a.add \ ts)
             u == a.add \intersect ts
             n == AddDone(a)
             c == [a EXCEPT !.log = l, !.synced = s]
  <1>1. l \in Log
    BY LogOperators
  <1>2. n = IF a.acts = NoActions THEN "initialized" ELSE "commit"
    BY DEF AddDone
  <1>3. l = IF a.add \subseteq ts THEN fill_empty_summary(log) ELSE mark_failed(log)
    OBVIOUS
  <1>4. b = Refresh(c, FALSE, u, n)
    BY AttemptFields DEF Accept
  <1>5. s \in SUBSET Haskell /\ u \in SUBSET Source /\ n \in {"initialized", "commit"}
    BY <1>2, AttemptFields
  <1> HIDE DEF l, s, u, n
  <1>6. c \in Attempt
    BY <1>1, <1>5 DEF Attempt
  <1>7. /\ c.log = l /\ c.synced = s /\ c.by = a.by /\ c.expected = a.expected
        /\ c.acts = a.acts /\ c.add = a.add /\ c.after = a.after /\ c.fresh = a.fresh
        /\ c.ok = a.ok /\ c.post = a.post /\ c.current = a.current /\ c.comments = a.comments
    BY AttemptFields
  <1> HIDE DEF c
  <1>8. StartsReading(b, c, FALSE, u, n)
    BY <1>4, <1>5, <1>6, RefreshFacts
  <1> QED
    BY <1>2, <1>3, <1>7, <1>8 DEF StartsReading, Accepts, u, s

\* add_named_modules, in its three outcomes.
LEMMA NamedFacts ==
    ASSUME AttemptType, NEW names \in SUBSET Source, add_named_modules(names)
    PROVE  LET ts == targets \union names IN
           /\ att.pc = "named" /\ names \subseteq att.add /\ names \subseteq Present
           /\ ts \in SUBSET Source
           /\ \/ /\ att.add = {} /\ att' = [att EXCEPT !.pc = AddDone(att)]
                 /\ UNCHANGED targets
              \/ /\ att.add # {} /\ ~(att.add \subseteq ts) /\ targets' = ts
                 /\ att' = [att EXCEPT !.pc = "path", !.log = att.log]
              \/ /\ att.add # {} /\ att.add \subseteq ts /\ targets' = ts
                 /\ \E log \in Log :
                       /\ att' = Accept(att, log, ts)
                       /\ log.summary = IF Broken(ts) = {} THEN "ok" ELSE "err"
                       /\ Adds(log, att.log, Broken(ts))
           /\ UNCHANGED <<envVars, actorVars, open, known, evals, executed, file>>
  <1> DEFINE ts    == targets \union names
             o     == Stopless(ts)
             lost  == {Lookup(p) : p \in att.add \ ts}
             named == extend(Compiled(EmptyLog, o), lost, Compiled(EmptyLog, o).summary)
             log   == append_log(att.log, named)
  <1>1. ts \in SUBSET Source /\ att.log \in Log /\ att.add \in SUBSET Source
    BY AttemptFields DEF AttemptType
  <1>2. /\ EmptyLog \in Log /\ EmptyLog.diagnostics = {} /\ EmptyLog.stdout = {}
        /\ EmptyLog.stderr = {}
    BY LogOperators, <1>1 DEF EmptyLog
  <1>3. lost \in SUBSET Errors /\ (att.add \subseteq ts => lost = {})
    BY <1>1 DEF Errors
  <1> DEFINE first == Compiled(EmptyLog, o)
  <1>4. /\ first \in Log /\ Adds(first, EmptyLog, Broken(ts))
        /\ first.summary = IF Broken(ts) = {} THEN "ok" ELSE "err"
    <2>1. o \in Outcomes(ts) /\ o.errors = Broken(ts) /\ first = Compiled(EmptyLog, o)
      BY <1>1, StoplessFacts
    <2> HIDE DEF o, ts, first
    <2>2. /\ first \in Log /\ Adds(first, EmptyLog, o.errors)
          /\ first.summary = IF Broken(ts) = {} THEN "ok" ELSE "err"
      BY <1>1, <1>2, <2>1, CompiledFacts
    <2> QED
      BY <2>1, <2>2
  <1>5. named \in Log /\ named.summary = first.summary /\ Adds(named, first, lost)
    <2>1. first.summary \in {"none", "ok", "err"}
      BY <1>4
    <2> HIDE DEF lost, first
    <2>2. named = extend(first, lost, first.summary)
      BY DEF first
    <2> HIDE DEF named
    <2> QED
      BY <1>3, <1>4, <2>1, <2>2, ExtendFacts
  <1>6. att.add \subseteq ts =>
          /\ log \in Log /\ log.summary = IF Broken(ts) = {} THEN "ok" ELSE "err"
          /\ Adds(log, att.log, Broken(ts))
    <2> HIDE DEF named, first, lost, ts
    <2>1. att.add \subseteq ts => Adds(named, EmptyLog, Broken(ts))
      BY <1>3, <1>4, <1>5 DEF Adds
    <2>2. log.summary = named.summary
      BY <1>4, <1>5 DEF append_log
    <2>3. /\ log.diagnostics = att.log.diagnostics \union named.diagnostics
          /\ log.stdout = att.log.stdout \union named.stdout
          /\ log.stderr = att.log.stderr \union named.stderr
      BY DEF append_log
    <2>4. log \in Log
      BY <1>1, <1>5, LogOperators
    <2> HIDE DEF log
    <2>5. ASSUME Adds(named, EmptyLog, Broken(ts)) PROVE Adds(log, att.log, Broken(ts))
      <3>1. /\ named.diagnostics = Broken(ts)
            /\ named.stdout \union named.stderr = Broken(ts)
        BY <1>2, <2>5 DEF Adds
      <3> QED
        BY <2>3, <3>1 DEF Adds
    <2> QED
      BY <1>4, <1>5, <2>1, <2>2, <2>4, <2>5
  <1> HIDE DEF first
  <1>7. /\ att.pc = "named" /\ names \subseteq att.add /\ names \subseteq Present
        /\ \/ att.add = {} /\ att' = [att EXCEPT !.pc = AddDone(att)] /\ UNCHANGED targets
           \/ /\ att.add # {} /\ targets' = ts
              /\ att' = IF att.add \subseteq ts
                        THEN Accept(att, IF KeepsNamedLog(ts) THEN log ELSE att.log, ts)
                        ELSE [att EXCEPT !.pc = "path",
                                         !.log = IF KeepsNamedLog(ts) THEN log ELSE att.log]
        /\ UNCHANGED <<envVars, actorVars, open, known, evals, executed, file>>
    BY DEF add_named_modules
  <1> HIDE DEF named, log, lost, o
  <1> QED
    BY <1>1, <1>6, <1>7 DEF KeepsNamedLog

-----------------------------------------------------------------------------
\* What a compiling command on the targets ts makes of the log.
Compiles(new, old, ts) ==
    /\ new \in Log /\ new.summary = IF Broken(ts) = {} THEN "ok" ELSE "err"
    /\ \E es \in SUBSET Broken(ts) :
          /\ es = {} <=> Broken(ts) = {}
          /\ ~interrupts => es = Broken(ts)
          /\ Adds(new, old, es)

LEMMA CompilesFacts ==
    ASSUME AttemptType, NEW log \in Log, NEW ts \in SUBSET Source, NEW o \in Outcomes(ts),
           NEW new, new = Compiled(log, o)
    PROVE  Compiles(new, log, ts)
  <1>1. /\ o.errors \in SUBSET Broken(ts) /\ (o.errors = {} <=> Broken(ts) = {})
        /\ ~interrupts => o.errors = Broken(ts)
    BY OutcomeFacts
  <1>2. /\ new \in Log /\ Adds(new, log, o.errors)
        /\ new.summary = IF Broken(ts) = {} THEN "ok" ELSE "err"
    BY CompiledFacts
  <1> QED
    BY <1>1, <1>2 DEF Compiles

\* The parts of an attempt that steps change together: whose it is, its work, how
\* far the reading of comments is, and how it ended.
Owner   == <<att.by, att.expected>>
Job     == <<att.acts, att.synced, att.add, att.after, att.post>>
Reads   == <<att.unread, att.all, att.fresh, att.next>>
Outcome == <<att.ok, att.current, att.comments>>

\* An attempt begins: handle_event for the manager, reload_from_eval for a client.
Begins(by, pc, snapshot) ==
    /\ att' \in Attempt /\ att'.by = by /\ att'.pc = pc /\ att'.expected = snapshot
    /\ att'.acts = NoActions /\ att'.log = EmptyLog /\ att'.synced = {} /\ att'.add = {}
    /\ att'.fresh = [p \in Source |-> Missing] /\ att'.ok /\ att'.post /\ ~att'.current
    /\ att'.comments = {}

LEMMA HandleEventEffect ==
    ASSUME AttemptType, Holder, handle_event
    PROVE  /\ mpc = "queued" /\ barrier = "free" /\ barrier' = "manager" /\ mpc' = "dispatch"
           /\ event \in Event /\ Begins("manager", "classify", event.snapshot)
           /\ executed' = {} /\ UNCHANGED <<envVars, epc, event, ghciVars, file>>
  <1>1. event \in Event /\ event.snapshot \in SourceSnapshot
    BY DEF handle_event, Holder, Event
  <1>2. NewAttempt("manager", event.snapshot) \in Attempt
    BY <1>1, NewAttemptType
  <1>3. att' = NewAttempt("manager", event.snapshot)
    BY DEF handle_event
  <1>4. Begins("manager", "classify", event.snapshot)
    BY <1>2, <1>3 DEF NewAttempt, Begins
  <1> QED
    BY <1>1, <1>4 DEF handle_event

LEMMA ReloadFromEvalEffect ==
    ASSUME AttemptType, reload_from_eval
    PROVE  /\ epc = "queued" /\ barrier = "free" /\ barrier' = "eval" /\ epc' = "run"
           /\ Begins("eval", "reload", NoSnapshot)
           /\ executed' = {} /\ UNCHANGED <<envVars, mpc, event, ghciVars, file>>
  <1> DEFINE new == NewAttempt("eval", NoSnapshot)
  <1>1. new \in Attempt
    BY NewAttemptType
  <1>2. /\ new.by = "eval" /\ new.expected = NoSnapshot /\ new.acts = NoActions
        /\ new.log = EmptyLog /\ new.synced = {} /\ new.add = {}
        /\ new.fresh = [p \in Source |-> Missing] /\ new.ok /\ new.post /\ ~new.current
        /\ new.comments = {}
    BY DEF NewAttempt
  <1>3. att' = [new EXCEPT !.pc = "reload"]
    BY DEF reload_from_eval
  <1> HIDE DEF new
  <1>4. att' \in Attempt
    BY <1>1, <1>3 DEF Attempt, Stage, Working
  <1>5. Begins("eval", "reload", NoSnapshot)
    BY <1>1, <1>2, <1>3, <1>4, AttemptFields DEF Begins
  <1> QED
    BY <1>5 DEF reload_from_eval

\* Ghci::reload: one of its three branches, with the work it found.
LEMMA ReloadEffect ==
    ASSUME AttemptType, Holder, Work, reload
    PROVE  /\ mpc = "dispatch" /\ att.pc = "classify" /\ event \in Event
           /\ att.expected = event.snapshot /\ haskell_files(att.expected) \in SUBSET Haskell
           /\ att' \in Attempt
           /\ \E a \in Actions :
                 /\ AsksFor(a, event.events, haskell_files(att.expected), targets)
                 /\ \/ /\ needs_restart(a) /\ att'.pc = "restart"
                       /\ att'.synced = haskell_files(att.expected)
                       /\ UNCHANGED <<att.acts, att.post, known>>
                    \/ /\ ~needs_restart(a) /\ ~needs_modify(a) /\ att'.pc = "publish"
                       /\ ~att'.post /\ UNCHANGED att.acts
                    \/ /\ ~needs_restart(a) /\ needs_modify(a) /\ att'.pc = "remove"
                       /\ att'.acts = a /\ att'.synced = haskell_files(att.expected)
                       /\ att'.add = a.add /\ UNCHANGED <<att.post, known>>
           /\ known' \in SUBSET Haskell
           /\ UNCHANGED <<Owner, Reads, Outcome, att.log>>
           /\ UNCHANGED <<envVars, actorVars, targets, evals, executed, file>>
  <1> DEFINE files == haskell_files(att.expected)
             a     == get_reload_actions(event.events, files, known, targets, FALSE)
             owed  == <<"startup", "restart", "reload">>
  <1>1. /\ mpc = "dispatch" /\ att.pc = "classify" /\ event \in Event
        /\ att.expected = event.snapshot /\ files \in SUBSET Haskell
        /\ a \in Actions /\ AsksFor(a, event.events, files, targets)
    BY ReloadFacts
  <1>2. \/ /\ needs_restart(a)
           /\ att' = [att EXCEPT !.pc = "restart", !.synced = files, !.after = owed]
           /\ UNCHANGED known
        \/ /\ ~needs_restart(a) /\ ~needs_modify(a)
           /\ att' = [att EXCEPT !.pc = "publish", !.post = FALSE]
           /\ known' = files
        \/ /\ ~needs_restart(a) /\ needs_modify(a)
           /\ att' = [att EXCEPT !.pc = "remove", !.acts = a, !.synced = files, !.add = a.add]
           /\ UNCHANGED known
    BY ReloadFacts
  <1>3. UNCHANGED <<envVars, actorVars, targets, evals, executed, file>>
    BY ReloadFacts
  <1>4. owed \in Seq(HookEvent) /\ att \in Attempt /\ known \in SUBSET Haskell
    BY DEF HookEvent, AttemptType
  <1>5. files = haskell_files(att.expected)
    OBVIOUS
  <1> HIDE DEF files, a, owed
  <1>6. a.add \in SUBSET Source
    BY <1>1 DEF Actions
  <1> DEFINE add == a.add
  <1> HIDE DEF add
  <1>7. add \in SUBSET Source /\ add = a.add
    BY <1>6 DEF add
  <1>8. CASE needs_restart(a) /\ UNCHANGED known
             /\ att' = [att EXCEPT !.pc = "restart", !.synced = files, !.after = owed]
    <2>1. att' \in Attempt
      BY <1>1, <1>4, <1>8 DEF Attempt, Stage
    <2>2. /\ att'.pc = "restart" /\ att'.synced = files /\ UNCHANGED <<att.acts, att.post>>
          /\ UNCHANGED <<Owner, Reads, Outcome, att.log>>
      BY <1>4, <1>8, AttemptFields DEF Owner, Reads, Outcome
    <2> QED
      BY <1>1, <1>3, <1>4, <1>5, <1>8, <2>1, <2>2
  <1>9. CASE ~needs_restart(a) /\ ~needs_modify(a) /\ known' = files
             /\ att' = [att EXCEPT !.pc = "publish", !.post = FALSE]
    <2>1. att' \in Attempt
      BY <1>1, <1>4, <1>9 DEF Attempt, Stage, Working
    <2>2. /\ att'.pc = "publish" /\ ~att'.post /\ UNCHANGED att.acts
          /\ UNCHANGED <<Owner, Reads, Outcome, att.log>>
      BY <1>4, <1>9, AttemptFields DEF Owner, Reads, Outcome
    <2> QED
      BY <1>1, <1>3, <1>4, <1>5, <1>9, <2>1, <2>2
  <1>10. CASE ~needs_restart(a) /\ needs_modify(a) /\ UNCHANGED known
              /\ att' = [att EXCEPT !.pc = "remove", !.acts = a, !.synced = files, !.add = add]
    <2>1. att' \in Attempt
      BY <1>1, <1>4, <1>7, <1>10 DEF Attempt, Stage, Working
    <2>2. /\ att'.pc = "remove" /\ att'.acts = a /\ att'.synced = files /\ att'.add = add
          /\ UNCHANGED <<Owner, Reads, Outcome, att.log, att.post>>
      BY <1>4, <1>10, AttemptFields DEF Owner, Reads, Outcome
    <2> QED
      BY <1>1, <1>3, <1>4, <1>5, <1>7, <1>10, <2>1, <2>2
  <1> QED
    BY <1>2, <1>8, <1>9, <1>10 DEF add

\* remove_modules: nothing to remove, or `:unadd' compiles what is left.
LEMMA RemoveEffect ==
    ASSUME AttemptType, remove_modules
    PROVE  /\ att.pc = "remove" /\ att'.pc = "named" /\ att' \in Attempt
           /\ UNCHANGED <<Owner, Job, Reads, Outcome>>
           /\ \/ att.acts.remove = {} /\ UNCHANGED <<att.log, targets, evals>>
              \/ /\ att.acts.remove # {} /\ targets' = targets \ att.acts.remove
                 /\ Compiles(att'.log, att.log, targets')
                 /\ evals' = [p \in Source |-> IF p \in att.acts.remove THEN Missing
                                                                        ELSE evals[p]]
           /\ UNCHANGED <<envVars, actorVars, known, executed, file>>
  <1> DEFINE gone == att.acts.remove
             left == targets \ att.acts.remove
  <1>1. att \in Attempt /\ att.log \in Log /\ left \in SUBSET Source
    BY AttemptFields DEF AttemptType
  <1>2. CASE gone = {} /\ att' = [att EXCEPT !.pc = "named"] /\ UNCHANGED <<targets, evals>>
    <2>1. att' \in Attempt
      BY <1>1, <1>2 DEF Attempt, Stage, Working
    <2>2. att'.pc = "named" /\ UNCHANGED <<Owner, Job, Reads, Outcome, att.log>>
      BY <1>1, <1>2, AttemptFields DEF Owner, Job, Reads, Outcome
    <2> QED
      BY <1>2, <2>1, <2>2 DEF remove_modules
  <1> DEFINE Named(log) == [att EXCEPT !.pc = "named", !.log = log]
  <1>3. /\ att.pc = "remove" /\ UNCHANGED <<envVars, actorVars, known, executed, file>>
        /\ \/ gone = {} /\ att' = [att EXCEPT !.pc = "named"] /\ UNCHANGED <<targets, evals>>
           \/ /\ gone # {} /\ targets' = left
              /\ \E o \in Outcomes(left) : att' = Named(Compiled(att.log, o))
              /\ evals' = [p \in Source |-> IF p \in gone THEN Missing ELSE evals[p]]
    BY Zenon DEF remove_modules
  <1>4. left = targets \ att.acts.remove
    OBVIOUS
  <1> HIDE DEF Named, left
  <1>5. CASE /\ gone # {} /\ targets' = left
             /\ \E o \in Outcomes(left) : att' = Named(Compiled(att.log, o))
             /\ evals' = [p \in Source |-> IF p \in gone THEN Missing ELSE evals[p]]
    <2>1. PICK o \in Outcomes(left) : att' = Named(Compiled(att.log, o))
      BY <1>5
    <2> DEFINE log == Compiled(att.log, o)
    <2>2. log = Compiled(att.log, o) /\ att' = [att EXCEPT !.pc = "named", !.log = log]
      BY <2>1 DEF Named
    <2> HIDE DEF log
    <2>3. Compiles(log, att.log, left)
      BY <1>1, <2>2, CompilesFacts
    <2>4. log \in Log
      BY <2>3 DEF Compiles
    <2>5. att' \in Attempt
      <3>1. "named" \in Stage
        BY DEF Stage, Working
      <3> QED
        BY <1>1, <2>2, <2>4, <3>1 DEF Attempt
    <2>6. att'.pc = "named" /\ att'.log = log /\ UNCHANGED <<Owner, Job, Reads, Outcome>>
      BY <1>1, <2>2, AttemptFields DEF Owner, Job, Reads, Outcome
    <2> QED
      BY <1>3, <1>4, <1>5, <2>3, <2>5, <2>6
  <1> QED
    BY <1>2, <1>3, <1>5

\* What is left to read and to know once add_modules has accepted some additions.
Accepted(ts) ==
    /\ att'.pc = "read" /\ ~att'.all /\ att'.unread = att.add \intersect ts
    /\ att'.next = IF att.acts = NoActions THEN "initialized" ELSE "commit"
    /\ att'.synced = att.synced \ (att.add \ ts)
    /\ UNCHANGED <<Owner, att.acts, att.add, att.after, att.post, att.fresh, Outcome>>

LEMMA AcceptEffect ==
    ASSUME att \in Attempt, NEW log \in Log, NEW ts \in SUBSET Source, att' = Accept(att, log, ts)
    PROVE  /\ att' \in Attempt /\ Accepted(ts)
           /\ att'.log = IF att.add \subseteq ts THEN fill_empty_summary(log)
                                                 ELSE mark_failed(log)
  <1>1. Accepts(att', att, log, ts)
    BY AcceptFacts
  <1> QED
    BY <1>1 DEF Accepts, Accepted, Owner, Outcome

\* add_named_modules in its outcomes: nothing to add, not everything known by name, or
\* all accepted.
LEMMA NamedEffect ==
    ASSUME AttemptType, NEW names \in SUBSET Source, add_named_modules(names)
    PROVE  /\ att.pc = "named" /\ names \subseteq att.add /\ names \subseteq Present
           /\ att' \in Attempt
           /\ \/ /\ att.add = {} /\ att'.pc \in {"initialized", "commit"}
                 /\ att'.pc = "initialized" <=> att.acts = NoActions
                 /\ UNCHANGED <<Owner, Job, Reads, Outcome, att.log, targets>>
              \/ /\ att.add # {} /\ targets' = targets \union names /\ att'.pc = "path"
                 /\ UNCHANGED <<Owner, Job, Reads, Outcome, att.log>>
              \/ /\ att.add # {} /\ targets' = targets \union names
                 /\ att.add \subseteq targets' /\ Accepted(targets')
                 /\ Compiles(att'.log, att.log, targets')
           /\ UNCHANGED <<envVars, actorVars, known, evals, executed, file>>
  <1> DEFINE ts == targets \union names
  <1>1. /\ att.pc = "named" /\ names \subseteq att.add /\ names \subseteq Present
        /\ ts \in SUBSET Source
        /\ UNCHANGED <<envVars, actorVars, known, evals, executed, file>>
    BY NamedFacts
  <1>2. \/ /\ att.add = {} /\ att' = [att EXCEPT !.pc = AddDone(att)] /\ UNCHANGED targets
        \/ /\ att.add # {} /\ targets' = ts /\ att' = [att EXCEPT !.pc = "path", !.log = att.log]
        \/ /\ att.add # {} /\ att.add \subseteq ts /\ targets' = ts
           /\ \E log \in Log : /\ att' = Accept(att, log, ts)
                               /\ log.summary = IF Broken(ts) = {} THEN "ok" ELSE "err"
                               /\ Adds(log, att.log, Broken(ts))
    BY NamedFacts
  <1>3. att \in Attempt /\ att.log \in Log
    BY AttemptFields DEF AttemptType
  <1> HIDE DEF ts
  <1>4. CASE att.add = {} /\ att' = [att EXCEPT !.pc = AddDone(att)] /\ UNCHANGED targets
    <2>1. AddDone(att) = IF att.acts = NoActions THEN "initialized" ELSE "commit"
      BY DEF AddDone
    <2>2. att' \in Attempt
      BY <1>3, <1>4, <2>1 DEF Attempt, Stage, Working
    <2>3. att'.pc = AddDone(att) /\ UNCHANGED <<Owner, Job, Reads, Outcome, att.log>>
      BY <1>3, <1>4, AttemptFields DEF Owner, Job, Reads, Outcome
    <2> QED
      BY <1>1, <1>4, <2>1, <2>2, <2>3
  <1>5. CASE att.add # {} /\ targets' = ts /\ att' = [att EXCEPT !.pc = "path", !.log = att.log]
    <2>1. att' \in Attempt
      BY <1>3, <1>5 DEF Attempt, Stage, Working
    <2>2. att'.pc = "path" /\ UNCHANGED <<Owner, Job, Reads, Outcome, att.log>>
      BY <1>3, <1>5, AttemptFields DEF Owner, Job, Reads, Outcome
    <2> QED
      BY <1>1, <1>5, <2>1, <2>2 DEF ts
  <1>6. ASSUME att.add # {}, att.add \subseteq ts, targets' = ts, NEW log \in Log,
               att' = Accept(att, log, ts), Adds(log, att.log, Broken(ts)),
               log.summary = IF Broken(ts) = {} THEN "ok" ELSE "err"
        PROVE  /\ att' \in Attempt /\ Accepted(targets') /\ Compiles(att'.log, att.log, targets')
    <2>1. att' \in Attempt /\ Accepted(ts) /\ att'.log = fill_empty_summary(log)
      BY <1>1, <1>3, <1>6, AcceptEffect DEF ts
    <2>2. fill_empty_summary(log) = log
      BY <1>6 DEF fill_empty_summary, Log
    <2>3. Compiles(log, att.log, ts)
      BY <1>6 DEF Compiles
    <2> QED
      BY <1>6, <2>1, <2>2, <2>3
  <1> QED
    BY <1>1, <1>2, <1>4, <1>5, <1>6 DEF ts

\* add_modules: the rest is added by path, as far as it exists.
LEMMA PathEffect ==
    ASSUME AttemptType, add_modules
    PROVE  /\ att.pc = "path" /\ att' \in Attempt
           /\ targets' = targets \union ((att.add \ targets) \intersect Present)
           /\ Accepted(targets')
           /\ att.add \subseteq targets' => Compiles(att'.log, att.log, targets')
           /\ ~(att.add \subseteq targets') => att'.log.summary = "err"
           /\ UNCHANGED <<envVars, actorVars, known, evals, executed, file>>
  <1> DEFINE rest == att.add \ targets
             ts   == targets \union (rest \intersect Present)
             lost == {Lookup(p) : p \in rest \ ts}
  <1>1. /\ att \in Attempt /\ att.log \in Log /\ ts \in SUBSET Source
        /\ lost \in SUBSET Errors
    BY AttemptFields DEF AttemptType, Errors
  <1>2. PICK o \in Outcomes(ts) :
           att' = Accept(att, extend(Compiled(att.log, o), lost, Compiled(att.log, o).summary), ts)
    BY DEF add_modules
  <1>3. att.add \subseteq ts => lost = {}
    OBVIOUS
  <1>4. targets' = ts /\ att.pc = "path"
           /\ UNCHANGED <<envVars, actorVars, known, evals, executed, file>>
    BY DEF add_modules
  <1> DEFINE c   == Compiled(att.log, o)
             log == extend(Compiled(att.log, o), lost, Compiled(att.log, o).summary)
  <1>5. c = Compiled(att.log, o) /\ log = extend(c, lost, c.summary) /\ att' = Accept(att, log, ts)
    BY <1>2
  <1>6. ts = targets \union ((att.add \ targets) \intersect Present)
    OBVIOUS
  <1> HIDE DEF ts, lost, c, log
  <1>7. Compiles(c, att.log, ts)
    BY <1>1, <1>5, CompilesFacts
  <1>8. c \in Log /\ c.summary \in {"ok", "err"}
    BY <1>7 DEF Compiles
  <1>9. log \in Log /\ log.summary = c.summary /\ Adds(log, c, lost)
    BY <1>1, <1>5, <1>8, ExtendFacts
  <1>10. Accepted(ts) /\ att' \in Attempt
         /\ att'.log = IF att.add \subseteq ts THEN fill_empty_summary(log) ELSE mark_failed(log)
    BY <1>1, <1>5, <1>9, AcceptEffect
  <1>11. ASSUME att.add \subseteq ts PROVE Compiles(att'.log, att.log, ts)
    <2>1. Adds(log, c, {}) /\ fill_empty_summary(log) = log
      BY <1>3, <1>8, <1>9, <1>11 DEF fill_empty_summary, Log
    <2>2. \A es : Adds(c, att.log, es) => Adds(log, att.log, es)
      BY <2>1 DEF Adds
    <2>3. att'.log = log
      BY <1>10, <1>11, <2>1
    <2> QED
      BY <1>7, <1>9, <2>2, <2>3 DEF Compiles
  <1>12. ASSUME ~(att.add \subseteq ts) PROVE att'.log.summary = "err"
    BY <1>9, <1>10, <1>12 DEF mark_failed, Log
  <1> QED
    BY <1>4, <1>6, <1>10, <1>11, <1>12

\* Ghci::reload commits what add_modules accepted.
LEMMA CommitEffect ==
    ASSUME AttemptType, Commit
    PROVE  /\ att.pc = "commit" /\ att' \in Attempt /\ att'.pc \in {"publish", "reload"}
           /\ att'.pc = "publish" <=> att.acts.reload = {}
           /\ known' \in SUBSET Haskell /\ UNCHANGED <<Owner, Job, Reads, Outcome, att.log>>
           /\ UNCHANGED <<envVars, actorVars, targets, evals, executed, file>>
  <1>1. att \in Attempt
    BY DEF AttemptType
  <1>2. /\ att' = [att EXCEPT !.pc = IF att.acts.reload = {} THEN "publish" ELSE "reload"]
        /\ att.pc = "commit" /\ known' = att.synced
        /\ UNCHANGED <<envVars, actorVars, targets, evals, executed, file>>
    BY <1>1, AttemptFields DEF Commit
  <1>3. att' \in Attempt
    BY <1>1, <1>2 DEF Attempt, Stage, Working
  <1>4. /\ att'.pc = IF att.acts.reload = {} THEN "publish" ELSE "reload"
        /\ UNCHANGED <<Owner, Job, Reads, Outcome, att.log>>
    BY <1>1, <1>2, AttemptFields DEF Owner, Job, Reads, Outcome
  <1> QED
    BY <1>1, <1>2, <1>3, <1>4, AttemptFields

\* `:reload' compiles the targets; unless it is stopped, comments are read.
LEMMA ReloadTargetsEffect ==
    ASSUME AttemptType, reload_targets
    PROVE  /\ att.pc = "reload" /\ att' \in Attempt /\ Compiles(att'.log, att.log, targets)
           /\ UNCHANGED <<Owner, Job, Outcome, att.fresh>>
           /\ \/ interrupts /\ att'.pc = "publish"
              \/ /\ att.by = "eval" /\ att'.pc = "read" /\ att'.all /\ att'.unread = targets
                 /\ att'.next = "publish"
              \/ /\ att.by # "eval" /\ att'.pc = "read" /\ ~att'.all
                 /\ att'.unread = att.acts.reload \intersect Source /\ att'.next = "publish"
           /\ UNCHANGED <<envVars, actorVars, ghciVars, executed, file>>
  <1>1. /\ att \in Attempt /\ att.log \in Log /\ targets \in SUBSET Source
        /\ att.acts.reload \intersect Source \in SUBSET Source
    BY AttemptFields DEF AttemptType
  <1>2. PICK o \in Outcomes(targets) :
           LET a == [att EXCEPT !.log = Compiled(att.log, o)] IN
           att' = CASE o.stopped -> [a EXCEPT !.pc = "publish"]
                    [] ~o.stopped /\ att.by = "eval" -> Refresh(a, TRUE, targets, "publish")
                    [] OTHER -> Refresh(a, FALSE, att.acts.reload \intersect Source, "publish")
    BY Zenon DEF reload_targets
  <1>3. att.pc = "reload" /\ UNCHANGED <<envVars, actorVars, ghciVars, executed, file>>
    BY DEF reload_targets
  <1> DEFINE log == Compiled(att.log, o)
             r   == att.acts.reload \intersect Source
  <1>4. Compiles(log, att.log, targets)
    BY <1>1, CompilesFacts
  <1>5. log \in Log
    BY <1>4 DEF Compiles
  <1>6. o.stopped \in BOOLEAN /\ (o.stopped => interrupts)
    BY <1>1, OutcomeFacts DEF AttemptType
  <1> DEFINE ReadFrom(all, paths) == [att EXCEPT !.log = log, !.pc = "read", !.all = all,
                                                !.unread = paths, !.next = "publish"]
  <1>7. \/ o.stopped /\ att' = [att EXCEPT !.log = log, !.pc = "publish"]
        \/ att.by = "eval" /\ att' = ReadFrom(TRUE, targets)
        \/ att.by # "eval" /\ att' = ReadFrom(FALSE, r)
    BY <1>2, <1>6 DEF Refresh
  <1>8. r = att.acts.reload \intersect Source /\ r \in SUBSET Source
    BY <1>1
  <1> HIDE DEF log, r, ReadFrom
  <1> USE DEF Owner, Job, Outcome
  <1>9. CASE o.stopped /\ att' = [att EXCEPT !.log = log, !.pc = "publish"]
    <2>1. att' \in Attempt
      BY <1>1, <1>5, <1>9 DEF Attempt, Stage, Working
    <2>2. att'.pc = "publish" /\ att'.log = log /\ UNCHANGED <<Owner, Job, Outcome, att.fresh>>
      BY <1>1, <1>9, AttemptFields
    <2> QED
      BY <1>3, <1>4, <1>6, <1>9, <2>1, <2>2
  <1>10. ASSUME NEW all \in BOOLEAN, NEW paths \in SUBSET Source,
                att' = ReadFrom(all, paths)
         PROVE  /\ att' \in Attempt /\ att'.pc = "read" /\ att'.log = log /\ att'.all = all
                /\ att'.unread = paths /\ att'.next = "publish"
                /\ UNCHANGED <<Owner, Job, Outcome, att.fresh>>
    <2>1. att' \in Attempt
      <3>1. "read" \in Stage
        BY DEF Stage, Working
      <3> QED
        BY <1>1, <1>5, <1>10, <3>1 DEF Attempt, ReadFrom
    <2> QED
      BY <1>1, <1>10, <2>1, AttemptFields DEF ReadFrom
  <1>11. CASE att.by = "eval" /\ att' = ReadFrom(TRUE, targets)
    BY <1>1, <1>3, <1>4, <1>10, <1>11
  <1>12. CASE att.by # "eval" /\ att' = ReadFrom(FALSE, r)
    BY <1>3, <1>4, <1>8, <1>10, <1>12
  <1> QED
    BY <1>7, <1>9, <1>11, <1>12

\* Ghci::restart: the old session is stopped.
LEMMA RestartEffect ==
    ASSUME AttemptType, restart
    PROVE  /\ att.pc = "restart" /\ att'.pc = "launch" /\ att' \in Attempt
           /\ UNCHANGED <<Owner, Job, Reads, Outcome, att.log>>
           /\ UNCHANGED <<envVars, actorVars, ghciVars, executed, file>>
  <1>1. att \in Attempt /\ "launch" \in Stage
    BY DEF AttemptType, Stage
  <1>2. att' = [att EXCEPT !.pc = "launch"]
    BY DEF restart
  <1>3. att' \in Attempt
    BY <1>1, <1>2 DEF Attempt
  <1> QED
    BY <1>1, <1>2, <1>3, AttemptFields DEF restart, Owner, Job, Reads, Outcome

\* initialize_inner: the new session compiles its own targets.
LEMMA InitializeEffect ==
    ASSUME AttemptType, initialize_inner
    PROVE  /\ att.pc = "launch" /\ targets' = CmdTargets \intersect Present
           /\ targets' \in SUBSET Source
           /\ att' \in Attempt /\ att'.pc = "read" /\ att'.all /\ att'.unread = targets'
           /\ att'.next = "sync" /\ UNCHANGED <<Owner, Job, Outcome, att.fresh>>
           /\ \/ targets' = {} /\ UNCHANGED att.log
              \/ targets' # {} /\ Compiles(att'.log, att.log, targets')
           /\ known' = {} /\ evals' = [p \in Source |-> Missing]
           /\ UNCHANGED <<envVars, actorVars, executed, file>>
  <1> DEFINE ts  == CmdTargets \intersect Present
             log == IF ts = {} THEN att.log ELSE Compiled(att.log, Stopless(ts))
             a   == [att EXCEPT !.log = log]
  <1>1. att \in Attempt /\ att.log \in Log /\ ts \in SUBSET Source
    BY AttemptConstants, AttemptFields DEF AttemptType
  <1>2. Stopless(ts) \in Outcomes(ts)
    BY <1>1, StoplessFacts
  <1>3. ts # {} => Compiles(log, att.log, ts)
    BY <1>1, <1>2, CompilesFacts
  <1>4. log \in Log /\ (ts = {} => log = att.log)
    BY <1>1, <1>3 DEF Compiles
  <1>5. att' = Refresh(a, TRUE, ts, "sync")
    BY Zenon DEF initialize_inner
  <1>6. /\ att.pc = "launch" /\ targets' = ts /\ known' = {}
        /\ evals' = [p \in Source |-> Missing]
        /\ UNCHANGED <<envVars, actorVars, executed, file>>
    BY DEF initialize_inner
  <1>7. ts = CmdTargets \intersect Present
    OBVIOUS
  <1> HIDE DEF ts, log
  <1>8. a \in Attempt
    BY <1>1, <1>4 DEF Attempt
  <1>9. /\ a.log = log /\ a.synced = att.synced /\ a.by = att.by /\ a.expected = att.expected
        /\ a.acts = att.acts /\ a.add = att.add /\ a.after = att.after /\ a.fresh = att.fresh
        /\ a.ok = att.ok /\ a.post = att.post /\ a.current = att.current
        /\ a.comments = att.comments
    BY <1>1, AttemptFields
  <1> HIDE DEF a
  <1>10. StartsReading(att', a, TRUE, ts, "sync")
    BY <1>1, <1>5, <1>8, RefreshFacts
  <1>11. /\ att' \in Attempt /\ att'.pc = "read" /\ att'.all /\ att'.unread = ts
         /\ att'.next = "sync" /\ UNCHANGED <<Owner, Job, Outcome, att.fresh>>
         /\ att'.log = log
    BY <1>9, <1>10 DEF StartsReading, Owner, Job, Outcome
  <1> QED
    BY <1>1, <1>3, <1>4, <1>6, <1>7, <1>11

\* synchronize_haskell_files: what is to be added to the new session.
LEMMA SynchronizeEffect ==
    ASSUME AttemptType, synchronize_haskell_files
    PROVE  /\ att.pc = "sync" /\ att'.pc = "named" /\ att' \in Attempt
           /\ att'.add = (att.synced \intersect Source) \ targets
           /\ UNCHANGED <<Owner, att.acts, att.synced, att.after, att.post>>
           /\ UNCHANGED <<Reads, Outcome, att.log>>
           /\ UNCHANGED <<envVars, actorVars, ghciVars, executed, file>>
  <1> DEFINE add == (att.synced \intersect Source) \ targets
  <1>1. att \in Attempt /\ "named" \in Stage /\ add \in SUBSET Source
    BY DEF AttemptType, Stage, Working
  <1>2. att' = [att EXCEPT !.pc = "named", !.add = add]
    BY AttemptFields, <1>1 DEF synchronize_haskell_files
  <1>3. add = (att.synced \intersect Source) \ targets
    OBVIOUS
  <1> HIDE DEF add
  <1>4. att' \in Attempt
    BY <1>1, <1>2 DEF Attempt
  <1>5. /\ att'.pc = "named" /\ att'.add = add
        /\ UNCHANGED <<Owner, att.acts, att.synced, att.after, att.post>>
        /\ UNCHANGED <<Reads, Outcome, att.log>>
    BY <1>1, <1>2, AttemptFields DEF Owner, Reads, Outcome
  <1> QED
    BY <1>3, <1>4, <1>5 DEF synchronize_haskell_files

\* initialize: the synchronization succeeded.
LEMMA InitializedEffect ==
    ASSUME AttemptType, Initialized
    PROVE  /\ att.pc = "initialized" /\ att'.pc = "publish" /\ att' \in Attempt
           /\ att'.log = fill_empty_summary(att.log) /\ known' \in SUBSET Haskell
           /\ UNCHANGED <<Owner, Job, Reads, Outcome>>
           /\ UNCHANGED <<envVars, actorVars, targets, evals, executed, file>>
  <1> DEFINE log == fill_empty_summary(att.log)
  <1>1. att \in Attempt /\ "publish" \in Stage /\ log \in Log /\ att.synced \in SUBSET Haskell
    BY AttemptFields, LogOperators DEF AttemptType, Stage, Working
  <1>2. att' = [att EXCEPT !.pc = "publish", !.log = log] /\ log = fill_empty_summary(att.log)
    BY Zenon DEF Initialized
  <1> HIDE DEF log
  <1>3. att' \in Attempt
    BY <1>1, <1>2 DEF Attempt
  <1>4. att'.pc = "publish" /\ att'.log = log /\ UNCHANGED <<Owner, Job, Reads, Outcome>>
    BY <1>1, <1>2, AttemptFields DEF Owner, Job, Reads, Outcome
  <1>5. /\ att.pc = "initialized" /\ known' = att.synced
        /\ UNCHANGED <<envVars, actorVars, targets, evals, executed, file>>
    BY DEF Initialized
  <1> QED
    BY <1>1, <1>2, <1>3, <1>4, <1>5

\* refresh_eval_commands: the comments of one file are read, into the map or into the
\* new one, or the file is gone.
LEMMA RefreshEffect ==
    ASSUME AttemptType, NEW p \in Source, refresh_eval_commands(p)
    PROVE  /\ att.pc = "read" /\ p \in att.unread /\ att' \in Attempt
           /\ UNCHANGED <<Owner, Job, att.all, att.next, att.current, att.comments>>
           /\ \/ /\ disk[p] # Missing /\ att'.pc = "read" /\ att'.unread = att.unread \ {p}
                 /\ UNCHANGED <<att.ok, att.log>>
                 /\ \/ att.all /\ att'.fresh = UpdateEntry(att.fresh, p) /\ UNCHANGED evals
                    \/ ~att.all /\ evals' = UpdateEntry(evals, p) /\ UNCHANGED att.fresh
              \/ /\ disk[p] = Missing /\ att'.pc = "publish" /\ ~att'.ok
                 /\ UNCHANGED <<evals, att.fresh>>
           /\ UNCHANGED <<envVars, actorVars, known, targets, executed, file>>
  <1> DEFINE log   == IF att.after = <<"reload">> THEN att.log
                      ELSE mark_failed_with_diagnostic(att.log)
             fresh == UpdateEntry(att.fresh, p)
             left  == att.unread \ {p}
  <1>1. att \in Attempt /\ att.log \in Log /\ att.fresh \in [Source -> FileState]
           /\ left \in SUBSET Source /\ disk[p] \in FileState /\ Source \subseteq Path
           /\ att.all \in BOOLEAN
    BY AttemptFields DEF AttemptType, Path
  <1>2. log \in Log
    BY <1>1, LogOperators
  <1>3. fresh \in [Source -> FileState]
    BY <1>1 DEF UpdateEntry, Comment, FileState
  <1>4. "publish" \in Stage
    BY DEF Stage, Working
  <1>5. /\ \/ /\ disk[p] # Missing
              /\ IF att.all
                 THEN /\ att' = [att EXCEPT !.unread = left, !.fresh = fresh]
                      /\ UNCHANGED evals
                 ELSE /\ att' = [att EXCEPT !.unread = left]
                      /\ evals' = UpdateEntry(evals, p)
           \/ /\ disk[p] = Missing
              /\ att' = [att EXCEPT !.pc = "publish", !.ok = FALSE, !.log = log]
              /\ UNCHANGED evals
        /\ att.pc = "read" /\ p \in att.unread
        /\ UNCHANGED <<envVars, actorVars, known, targets, executed, file>>
    BY Zenon DEF refresh_eval_commands
  <1>6. fresh = UpdateEntry(att.fresh, p) /\ left = att.unread \ {p}
    OBVIOUS
  <1> HIDE DEF log, fresh, left
  <1> USE DEF Owner, Job
  <1>7. CASE /\ disk[p] # Missing /\ att.all /\ UNCHANGED evals
             /\ att' = [att EXCEPT !.unread = left, !.fresh = fresh]
    <2>1. att' \in Attempt
      BY <1>1, <1>3, <1>7 DEF Attempt
    <2>2. /\ UNCHANGED <<Owner, Job, att.all, att.next, att.current, att.comments, att.pc>>
          /\ UNCHANGED <<att.ok, att.log>> /\ att'.unread = left /\ att'.fresh = fresh
      BY <1>1, <1>7, AttemptFields
    <2> QED
      BY <1>1, <1>4, <1>5, <1>6, <1>7, <2>1, <2>2
  <1>8. CASE /\ disk[p] # Missing /\ ~att.all /\ evals' = UpdateEntry(evals, p)
             /\ att' = [att EXCEPT !.unread = left]
    <2>1. att' \in Attempt
      BY <1>1, <1>8 DEF Attempt
    <2>2. /\ UNCHANGED <<Owner, Job, att.all, att.next, att.current, att.comments, att.pc>>
          /\ UNCHANGED <<att.ok, att.log, att.fresh>> /\ att'.unread = left
      BY <1>1, <1>8, AttemptFields
    <2> QED
      BY <1>1, <1>4, <1>5, <1>6, <1>8, <2>1, <2>2
  <1>9. CASE /\ disk[p] = Missing /\ UNCHANGED evals
             /\ att' = [att EXCEPT !.pc = "publish", !.ok = FALSE, !.log = log]
    <2>1. att' \in Attempt
      BY <1>1, <1>2, <1>4, <1>9 DEF Attempt
    <2>2. /\ UNCHANGED <<Owner, Job, att.all, att.next, att.current, att.comments, att.fresh>>
          /\ att'.pc = "publish" /\ ~att'.ok
      BY <1>1, <1>9, AttemptFields
    <2> QED
      BY <1>1, <1>4, <1>5, <1>6, <1>9, <2>1, <2>2
  <1> QED
    BY <1>5, <1>7, <1>8, <1>9

LEMMA RefreshDoneEffect ==
    ASSUME AttemptType, HookInv, RefreshDone
    PROVE  /\ att.pc = "read" /\ att.unread = {} /\ att'.pc = att.next /\ att' \in Attempt
           /\ att.next \in {"sync", "initialized", "commit", "publish"}
           /\ UNCHANGED <<Owner, Job, Reads, Outcome, att.log>>
           /\ evals' = IF att.all THEN att.fresh ELSE evals
           /\ evals' \in [Source -> FileState]
           /\ UNCHANGED <<envVars, actorVars, known, targets, executed, file>>
  <1>1. /\ att \in Attempt /\ att.pc = "read" /\ att.fresh \in [Source -> FileState]
        /\ att' = [att EXCEPT !.pc = att.next]
    BY AttemptFields DEF AttemptType, RefreshDone
  <1>2. att.next \in {"sync", "initialized", "commit", "publish"} /\ att.next \in Stage
    BY <1>1 DEF HookInv, Stage, Working
  <1>3. att' \in Attempt
    BY <1>1, <1>2 DEF Attempt
  <1>4. att'.pc = att.next /\ UNCHANGED <<Owner, Job, Reads, Outcome, att.log>>
    BY <1>1, AttemptFields DEF Owner, Job, Reads, Outcome
  <1> QED
    BY <1>1, <1>2, <1>3, <1>4 DEF RefreshDone, AttemptType

\* finish_compilation: validate, write the error file.
LEMMA WriteEffect ==
    ASSUME AttemptType, write_error_log
    PROVE  /\ att.pc = "publish" /\ att'.pc = "after" /\ att' \in Attempt
           /\ att'.current = Current /\ UNCHANGED <<att.ok, att.comments>>
           /\ UNCHANGED <<Owner, Job, Reads, att.log>>
           /\ file' = IF Current THEN write(att.log) ELSE file
           /\ UNCHANGED <<envVars, actorVars, ghciVars, executed>>
  <1> DEFINE current == Current
  <1>1. att \in Attempt /\ "after" \in Stage /\ current \in BOOLEAN
    BY DEF AttemptType, Stage, Current
  <1>2. att' = [att EXCEPT !.pc = "after", !.current = current]
    BY DEF write_error_log
  <1>3. /\ att.pc = "publish" /\ file' = IF Current THEN write(att.log) ELSE file
        /\ UNCHANGED <<envVars, actorVars, ghciVars, executed>>
    BY DEF write_error_log
  <1>4. current = Current
    OBVIOUS
  <1> HIDE DEF current
  <1>5. att' \in Attempt
    BY <1>1, <1>2 DEF Attempt
  <1>6. /\ att'.pc = "after" /\ att'.current = current /\ UNCHANGED <<att.ok, att.comments>>
        /\ UNCHANGED <<Owner, Job, Reads, att.log>>
    BY <1>1, <1>2, AttemptFields DEF Owner, Job, Reads
  <1> QED
    BY <1>3, <1>4, <1>5, <1>6

\* Comments to run after a successful attempt.
Recorded == {<<p, evals[p]>> : p \in {q \in Source : evals[q] # Missing}}

LEMMA AfterHooksEffect ==
    ASSUME AttemptType, RunAfterHooks
    PROVE  /\ att.pc = "after" /\ att' \in Attempt
           /\ UNCHANGED <<Owner, Reads, att.log, att.ok, att.current, att.post, att.acts>>
           /\ \/ att'.pc = "after" /\ UNCHANGED att.comments
              \/ /\ att'.pc = "eval"
                 /\ att'.comments = IF Succeeded(att) /\ att.post THEN Recorded ELSE {}
           /\ UNCHANGED <<envVars, actorVars, ghciVars, executed, file>>
  <1> DEFINE cs == {<<p, evals[p]>> : p \in {q \in Source :
                         Succeeded(att) /\ att.post /\ evals[q] # Missing}}
             rest == Tail(att.after)
  <1>1. att \in Attempt /\ "eval" \in Stage /\ cs \in SUBSET (Source \X FileState)
    BY DEF AttemptType, Stage
  <1>2. /\ att.pc = "after"
        /\ att' = IF Len(att.after) > 1 THEN [att EXCEPT !.after = rest]
                  ELSE [att EXCEPT !.pc = "eval", !.comments = cs]
        /\ UNCHANGED <<envVars, actorVars, ghciVars, executed, file>>
    BY Zenon DEF RunAfterHooks
  <1>3. Len(att.after) > 1 => rest \in Seq(HookEvent)
    BY <1>1, AttemptFields
  <1>4. cs = IF Succeeded(att) /\ att.post THEN Recorded ELSE {}
    BY DEF Recorded
  <1> HIDE DEF cs, rest
  <1> USE DEF Owner, Reads
  <1>5. CASE Len(att.after) > 1
    <2>1. att' = [att EXCEPT !.after = rest] /\ rest \in Seq(HookEvent)
      BY <1>2, <1>3, <1>5
    <2>2. att' \in Attempt
      BY <1>1, <2>1 DEF Attempt
    <2>3. /\ UNCHANGED <<Owner, Reads, att.log, att.ok, att.current, att.post, att.acts>>
          /\ UNCHANGED <<att.pc, att.comments>>
      BY <1>1, <2>1, AttemptFields
    <2> QED
      BY <1>2, <2>2, <2>3
  <1>6. CASE ~(Len(att.after) > 1)
    <2>1. att' = [att EXCEPT !.pc = "eval", !.comments = cs]
      BY <1>2, <1>6
    <2>2. att' \in Attempt
      BY <1>1, <2>1 DEF Attempt
    <2>3. /\ UNCHANGED <<Owner, Reads, att.log, att.ok, att.current, att.post, att.acts>>
          /\ att'.pc = "eval" /\ att'.comments = cs
      BY <1>1, <2>1, AttemptFields
    <2> QED
      BY <1>2, <1>4, <2>2, <2>3
  <1> QED
    BY <1>5, <1>6

\* Ghci::eval for one comment, or its failure when the file is gone.
LEMMA EvalEffect ==
    ASSUME AttemptType, NEW p \in Source, eval(p)
    PROVE  /\ att.pc = "eval" /\ att'.pc = "eval" /\ att' \in Attempt
           /\ UNCHANGED <<Owner, Job, Reads, att.log, att.current>>
           /\ \/ /\ disk[p] # Missing /\ UNCHANGED att.ok /\ targets' = targets \union {p}
                 /\ evals' = UpdateEntry(evals, p)
                 /\ \E c \in att.comments : /\ att'.comments = att.comments \ {c}
                                            /\ executed' = executed \union {c}
              \/ /\ disk[p] = Missing /\ att'.comments = {} /\ ~att'.ok
                 /\ UNCHANGED <<executed, targets, evals>>
           /\ UNCHANGED <<envVars, actorVars, known, file>>
  <1> DEFINE Left(c) == [att EXCEPT !.comments = att.comments \ {c}]
  <1>1. /\ att.pc = "eval" /\ UNCHANGED <<envVars, actorVars, known, file>>
        /\ \E c \in att.comments :
              \/ /\ disk[p] # Missing /\ att' = Left(c) /\ executed' = executed \union {c}
                 /\ targets' = targets \union {p} /\ evals' = UpdateEntry(evals, p)
              \/ /\ disk[p] = Missing
                 /\ att' = [att EXCEPT !.comments = {}, !.ok = FALSE]
                 /\ UNCHANGED <<executed, targets, evals>>
    BY Zenon DEF eval
  <1> DEFINE Failed == [att EXCEPT !.comments = {}, !.ok = FALSE]
  <1>2. att \in Attempt /\ Failed = [att EXCEPT !.comments = {}, !.ok = FALSE]
    BY DEF AttemptType
  <1>3. \E c \in att.comments :
              \/ /\ disk[p] # Missing /\ att' = Left(c) /\ executed' = executed \union {c}
                 /\ targets' = targets \union {p} /\ evals' = UpdateEntry(evals, p)
              \/ /\ disk[p] = Missing /\ att' = Failed
                 /\ UNCHANGED <<executed, targets, evals>>
    BY Zenon, <1>1
  <1> HIDE DEF Left, Failed
  <1> USE DEF Owner, Job, Reads
  <1>4. PICK c \in att.comments :
              \/ /\ disk[p] # Missing /\ att' = Left(c) /\ executed' = executed \union {c}
                 /\ targets' = targets \union {p} /\ evals' = UpdateEntry(evals, p)
              \/ /\ disk[p] = Missing /\ att' = Failed
                 /\ UNCHANGED <<executed, targets, evals>>
    BY <1>3
  <1>5. CASE disk[p] # Missing
    <2> DEFINE left == att.comments \ {c}
    <2>1. att' = [att EXCEPT !.comments = left] /\ left \in SUBSET (Source \X FileState)
      BY <1>2, <1>4, <1>5, AttemptFields DEF Left
    <2>2. left = att.comments \ {c}
      OBVIOUS
    <2> HIDE DEF left
    <2>3. att' \in Attempt
      BY <1>2, <2>1 DEF Attempt
    <2>4. /\ UNCHANGED <<Owner, Job, Reads, att.log, att.current, att.ok, att.pc>>
          /\ att'.comments = left
      BY <1>2, <2>1, AttemptFields
    <2>5. /\ executed' = executed \union {c} /\ targets' = targets \union {p}
          /\ evals' = UpdateEntry(evals, p)
      BY <1>4, <1>5
    <2> QED
      BY <1>1, <1>5, <2>2, <2>3, <2>4, <2>5
  <1>6. CASE disk[p] = Missing
    <2>1. att' = Failed /\ UNCHANGED <<executed, targets, evals>>
      BY <1>4, <1>6
    <2>2. att' \in Attempt
      BY <1>2, <2>1 DEF Attempt, Failed
    <2>3. /\ UNCHANGED <<Owner, Job, Reads, att.log, att.current, att.pc>>
          /\ att'.comments = {} /\ ~att'.ok
      BY <1>2, <2>1, AttemptFields DEF Failed
    <2> QED
      BY <1>1, <1>6, <2>1, <2>2, <2>3
  <1> QED
    BY <1>5, <1>6

\* FinishDispatch and Respond release the barrier.
LEMMA EndEffect ==
    ASSUME AttemptType, FinishDispatch \/ Respond
    PROVE  /\ att.pc = "eval" /\ att.comments = {} /\ att'.pc = "none" /\ att' \in Attempt
           /\ UNCHANGED <<Owner, Job, Reads, Outcome, att.log>> /\ barrier' = "free"
           /\ \/ /\ att.by = "manager" /\ mpc' = IF att.ok THEN "wait" ELSE "dead"
                 /\ event' = NoEvent /\ UNCHANGED epc
              \/ att.by = "eval" /\ epc' = "idle" /\ UNCHANGED <<mpc, event>>
           /\ UNCHANGED <<envVars, ghciVars, executed, file>>
  <1>1. att \in Attempt /\ "none" \in Stage
    BY DEF AttemptType, Stage
  <1>2. att' = [att EXCEPT !.pc = "none"]
    BY DEF FinishDispatch, Respond
  <1>3. att' \in Attempt
    BY <1>1, <1>2 DEF Attempt
  <1>4. att'.pc = "none" /\ UNCHANGED <<Owner, Job, Reads, Outcome, att.log>>
    BY <1>1, <1>2, AttemptFields DEF Owner, Job, Reads, Outcome
  <1> QED
    BY <1>3, <1>4 DEF FinishDispatch, Respond

-----------------------------------------------------------------------------
\* Every step keeps the types.
LEMMA AttemptTypeNext ==
    ASSUME AttemptType, HookInv, Holder, Work, [Next]_vars PROVE AttemptType'
  <1> USE DEF AttemptType, envVars, actorVars, ghciVars
  <1>0. Source \subseteq Path /\ disk \in [Path -> FileState] /\ evals \in [Source -> FileState]
    BY DEF Path
  <1>1. ASSUME NEW p \in Path, NEW s \in FileState, Edit(p, s) PROVE AttemptType'
    BY <1>1 DEF Edit
  <1>2. CASE Request
    BY <1>2 DEF Request
  <1>3. CASE wait_for_event
    <2>1. event' \in Event
      BY <1>3 DEF wait_for_event, Event, SourceSnapshot, EventKind, FileState, Haskell, Path
    <2> QED
      BY <1>3, <2>1 DEF wait_for_event, OptionEvent
  <1>4. CASE handle_event
    BY <1>4, HandleEventEffect DEF Begins
  <1>5. CASE reload_from_eval
    BY <1>5, ReloadFromEvalEffect DEF Begins
  <1>6. CASE reload
    <2>1. /\ att' \in Attempt /\ known' \in SUBSET Haskell
          /\ UNCHANGED <<envVars, actorVars, targets, evals, executed, file>>
      BY <1>6, ReloadEffect
    <2> QED
      BY <2>1
  <1>7. CASE remove_modules
    <2>1. /\ att' \in Attempt /\ evals' \in [Source -> FileState] /\ targets' \in SUBSET Source
          /\ UNCHANGED <<envVars, actorVars, known, executed, file>>
      BY <1>7, RemoveEffect DEF FileState
    <2> QED
      BY <2>1
  <1>8. ASSUME NEW names \in SUBSET Source, add_named_modules(names) PROVE AttemptType'
    <2>1. /\ att' \in Attempt /\ targets' \in {targets, targets \union names}
          /\ UNCHANGED <<envVars, actorVars, known, evals, executed, file>>
      BY <1>8, NamedEffect
    <2> QED
      BY <2>1
  <1>9. CASE add_modules
    <2>1. /\ att' \in Attempt /\ targets' = targets \union ((att.add \ targets) \intersect Present)
          /\ att.add \in SUBSET Source
          /\ UNCHANGED <<envVars, actorVars, known, evals, executed, file>>
      BY <1>9, PathEffect, AttemptFields
    <2> QED
      BY <2>1
  <1>10. CASE Commit
    BY <1>10, CommitEffect
  <1>11. CASE reload_targets
    BY <1>11, ReloadTargetsEffect
  <1>12. CASE restart
    BY <1>12, RestartEffect
  <1>13. CASE initialize_inner
    <2>1. /\ att' \in Attempt /\ targets' \in SUBSET Source /\ known' = {}
          /\ evals' \in [Source -> FileState]
          /\ UNCHANGED <<envVars, actorVars, executed, file>>
      BY <1>13, InitializeEffect DEF FileState
    <2> QED
      BY <2>1
  <1>14. CASE synchronize_haskell_files
    BY <1>14, SynchronizeEffect
  <1>15. CASE Initialized
    BY <1>15, InitializedEffect
  <1>16. CASE RefreshDone
    BY <1>16, RefreshDoneEffect
  <1>17. CASE write_error_log
    BY <1>17, WriteEffect
  <1>18. CASE RunAfterHooks
    BY <1>18, AfterHooksEffect
  <1>19. ASSUME NEW p \in Source, refresh_eval_commands(p) PROVE AttemptType'
    <2>1. UpdateEntry(evals, p) \in [Source -> FileState]
      BY <1>0, <1>19 DEF UpdateEntry, Comment, FileState
    <2>2. /\ att' \in Attempt /\ evals' \in [Source -> FileState]
          /\ UNCHANGED <<envVars, actorVars, known, targets, executed, file>>
      BY <1>19, <2>1, RefreshEffect
    <2> QED
      BY <2>2
  <1>20. ASSUME NEW p \in Source, eval(p) PROVE AttemptType'
    <2>1. UpdateEntry(evals, p) \in [Source -> FileState]
      BY <1>0, <1>20 DEF UpdateEntry, Comment, FileState
    <2>2. /\ att' \in Attempt /\ evals' \in [Source -> FileState] /\ targets' \in SUBSET Source
          /\ UNCHANGED <<envVars, actorVars, known, file>>
      BY <1>20, <2>1, EvalEffect
    <2> QED
      BY <2>2
  <1>21. CASE FinishDispatch \/ Respond
    BY <1>21, EndEffect DEF OptionEvent
  <1>22. CASE UNCHANGED vars
    BY <1>22 DEF vars
  <1> QED
    BY <1>1, <1>2, <1>3, <1>4, <1>5, <1>6, <1>7, <1>8, <1>9, <1>10, <1>11, <1>12, <1>13, <1>14,
       <1>15, <1>16, <1>17, <1>18, <1>19, <1>20, <1>21, <1>22 DEF Next

\* The manager and the eval socket keep to the barrier.
LEMMA HolderNext ==
    ASSUME AttemptType, HookInv, Holder, Work, [Next]_vars PROVE Holder'
  <1> USE DEF Holder, envVars, actorVars, ghciVars, Owner, Job, Reads
  <1>1. ASSUME NEW p \in Path, NEW s \in FileState, Edit(p, s) PROVE Holder'
    BY <1>1 DEF Edit
  <1>2. CASE Request
    BY <1>2 DEF Request
  <1>3. CASE wait_for_event
    <2>1. event' \in Event
      BY <1>3 DEF wait_for_event, Event, SourceSnapshot, EventKind, FileState, Haskell, Path,
         AttemptType
    <2>2. barrier # "manager" /\ mpc' = "queued" /\ UNCHANGED <<barrier, epc, att>>
      BY <1>3 DEF wait_for_event
    <2> QED
      BY <2>1, <2>2
  <1>4. CASE handle_event
    BY <1>4, HandleEventEffect DEF Begins
  <1>5. CASE reload_from_eval
    BY <1>5, ReloadFromEvalEffect DEF Begins
  <1>6. CASE reload
    <2>1. /\ mpc = "dispatch" /\ att'.pc \in {"restart", "publish", "remove"}
          /\ UNCHANGED <<actorVars, Owner>>
      BY <1>6, ReloadEffect
    <2> QED
      BY <2>1
  <1>7. CASE remove_modules
    <2>1. /\ att.pc = "remove" /\ att'.pc = "named" /\ UNCHANGED <<actorVars, Owner>>
      BY <1>7, RemoveEffect
    <2> QED
      BY <2>1
  <1>8. ASSUME NEW names \in SUBSET Source, add_named_modules(names) PROVE Holder'
    <2>1. /\ att.pc = "named" /\ att'.pc # "none" /\ UNCHANGED <<actorVars, Owner>>
      BY <1>8, NamedEffect DEF Accepted
    <2> QED
      BY <2>1
  <1>9. CASE add_modules
    <2>1. /\ att.pc = "path" /\ att'.pc # "none" /\ UNCHANGED <<actorVars, Owner>>
      BY <1>9, PathEffect DEF Accepted
    <2> QED
      BY <2>1
  <1>10. CASE Commit
    <2>1. /\ att.pc = "commit" /\ att'.pc # "none" /\ UNCHANGED <<actorVars, Owner>>
      BY <1>10, CommitEffect
    <2> QED
      BY <2>1
  <1>11. CASE reload_targets
    <2>1. /\ att.pc = "reload" /\ UNCHANGED <<actorVars, Owner, att.acts>>
          /\ \/ att'.pc = "publish"
             \/ att.by = "eval" /\ att'.pc = "read" /\ att'.all /\ att'.next = "publish"
             \/ att.by # "eval" /\ att'.pc = "read"
      BY <1>11, ReloadTargetsEffect
    <2> QED
      BY <2>1
  <1>12. CASE restart
    <2>1. att.pc = "restart" /\ att'.pc = "launch" /\ UNCHANGED <<actorVars, Owner>>
      BY <1>12, RestartEffect
    <2> QED
      BY <2>1
  <1>13. CASE initialize_inner
    <2>1. att.pc = "launch" /\ att'.pc = "read" /\ UNCHANGED <<actorVars, Owner>>
      BY <1>13, InitializeEffect
    <2> QED
      BY <2>1
  <1>14. CASE synchronize_haskell_files
    <2>1. att.pc = "sync" /\ att'.pc = "named" /\ UNCHANGED <<actorVars, Owner>>
      BY <1>14, SynchronizeEffect
    <2> QED
      BY <2>1
  <1>15. CASE Initialized
    <2>1. att.pc = "initialized" /\ att'.pc = "publish" /\ UNCHANGED <<actorVars, Owner>>
      BY <1>15, InitializedEffect
    <2> QED
      BY <2>1
  <1>16. CASE RefreshDone
    <2>1. /\ att.pc = "read" /\ att'.pc = att.next /\ att'.pc # "none" /\ att'.pc # "read"
          /\ UNCHANGED <<actorVars, Owner, att.acts>>
      BY <1>16, RefreshDoneEffect
    <2> QED
      BY <2>1
  <1>17. CASE write_error_log
    <2>1. att.pc = "publish" /\ att'.pc = "after" /\ UNCHANGED <<actorVars, Owner, att.acts>>
      BY <1>17, WriteEffect
    <2> QED
      BY <2>1
  <1>18. CASE RunAfterHooks
    <2>1. /\ att.pc = "after" /\ att'.pc \in {"after", "eval"}
          /\ UNCHANGED <<actorVars, Owner, att.acts>>
      BY <1>18, AfterHooksEffect
    <2> QED
      BY <2>1
  <1>19. ASSUME NEW p \in Source, refresh_eval_commands(p) PROVE Holder'
    <2>1. /\ att.pc = "read" /\ att'.pc \in {"read", "publish"}
          /\ UNCHANGED <<actorVars, Owner, att.acts, att.all, att.next>>
      BY <1>19, RefreshEffect
    <2> QED
      BY <2>1
  <1>20. ASSUME NEW p \in Source, eval(p) PROVE Holder'
    <2>1. att.pc = "eval" /\ att'.pc = "eval" /\ UNCHANGED <<actorVars, Owner, att.acts>>
      BY <1>20, EvalEffect
    <2> QED
      BY <2>1
  <1>21. CASE FinishDispatch \/ Respond
    <2>1. /\ att.pc = "eval" /\ att'.pc = "none" /\ barrier' = "free"
          /\ \/ /\ att.by = "manager" /\ mpc' \in {"wait", "dead"} /\ UNCHANGED epc
             \/ att.by = "eval" /\ epc' = "idle" /\ UNCHANGED <<mpc, event>>
      BY <1>21, EndEffect
    <2>2. barrier \in {"free", "manager", "eval"}
      BY DEF AttemptType
    <2> QED
      BY <2>1, <2>2
  <1>22. CASE UNCHANGED vars
    BY <1>22 DEF vars
  <1> QED
    BY <1>1, <1>2, <1>3, <1>4, <1>5, <1>6, <1>7, <1>8, <1>9, <1>10, <1>11, <1>12, <1>13, <1>14,
       <1>15, <1>16, <1>17, <1>18, <1>19, <1>20, <1>21, <1>22 DEF Next

\* The steps of an attempt between its start and its end.
AttemptStep ==
    \/ reload \/ remove_modules \/ add_modules \/ Commit
    \/ \E names \in SUBSET Source : add_named_modules(names)
    \/ reload_targets \/ restart \/ initialize_inner \/ synchronize_haskell_files
    \/ Initialized \/ RefreshDone \/ write_error_log \/ RunAfterHooks
    \/ \E p \in Source : refresh_eval_commands(p) \/ eval(p)

\* They leave the files, the manager and the eval-socket handler alone.
LEMMA Frame == AttemptStep => UNCHANGED <<envVars, actorVars>>
  BY Zenon DEF AttemptStep, reload, remove_modules, add_modules, Commit, add_named_modules,
     reload_targets, restart, initialize_inner, synchronize_haskell_files, Initialized,
     RefreshDone, write_error_log, RunAfterHooks, refresh_eval_commands, eval

\* Contents do not come back, so an event tells which files changed since.
LEMMA CapturedNext ==
    ASSUME AttemptType, Holder, Work, Captured, [Next]_vars PROVE Captured'
  <1> USE DEF Captured, envVars, actorVars, ghciVars
  <1>0. Haskell \subseteq Path
    BY DEF Path, Haskell
  <1>1. ASSUME NEW p \in Path, NEW s \in FileState, Edit(p, s) PROVE Captured'
    <2>1. /\ disk' = [disk EXCEPT ![p] = s] /\ used' = [used EXCEPT ![p] = used[p] \union {s}]
          /\ s \notin used[p] /\ dirty' = dirty \union {p} /\ UNCHANGED actorVars
      BY <1>1 DEF Edit
    <2>2. disk \in [Path -> FileState] /\ used \in [Path -> SUBSET FileState]
      BY DEF AttemptType
    <2>3. \A q \in Path : disk'[q] \in used'[q]
      BY <2>1, <2>2
    <2>4. \A q \in Path : used[q] \subseteq used'[q]
      BY <2>1, <2>2
    <2>5. \A q \in Path : q # p => disk'[q] = disk[q] /\ (q \in dirty' <=> q \in dirty)
      BY <2>1, <2>2
    <2>6. disk'[p] = s /\ p \in dirty'
      BY <2>1, <2>2
    <2>7. ASSUME mpc \in {"queued", "dispatch"}, NEW q \in Haskell
          PROVE  /\ event.snapshot[q] \in used'[q]
                 /\ event.snapshot[q] = disk'[q] <=> q \notin dirty'
      BY <1>0, <2>1, <2>4, <2>5, <2>6, <2>7
    <2> QED
      BY <2>1, <2>3, <2>7
  <1>2. CASE Request
    BY <1>2 DEF Request
  <1>3. CASE wait_for_event
    <2>1. /\ event'.snapshot = [p \in Haskell |-> disk[p]] /\ dirty' = {} /\ mpc' = "queued"
          /\ UNCHANGED <<disk, used>>
      BY <1>3 DEF wait_for_event
    <2> QED
      BY <1>0, <2>1
  <1>4. CASE handle_event
    <2>1. mpc = "queued" /\ UNCHANGED <<envVars, event>>
      BY <1>4, HandleEventEffect
    <2> QED
      BY <2>1
  <1>5. CASE reload_from_eval
    BY <1>5 DEF reload_from_eval
  <1>6. CASE FinishDispatch \/ Respond
    <2>1. /\ UNCHANGED envVars
          /\ mpc' \notin {"queued", "dispatch"} \/ UNCHANGED <<mpc, event>>
      BY <1>6, EndEffect
    <2> QED
      BY <2>1
  <1>7. CASE UNCHANGED <<envVars, actorVars>>
    BY <1>7
  <1>8. CASE AttemptStep
    BY <1>7, <1>8, Frame
  <1> QED
    BY <1>1, <1>2, <1>3, <1>4, <1>5, <1>6, <1>7, <1>8 DEF Next, vars, AttemptStep

\* Every step keeps what the stages rely on.
LEMMA WorkNext ==
    ASSUME AttemptType, HookInv, Holder, Work, [Next]_vars PROVE Work'
  <1> USE DEF Owner, Job, Reads
  <1>0. /\ att \in Attempt /\ targets \in SUBSET Source
        /\ NoActions.reload = {} /\ NoActions.remove = {}
    BY DEF AttemptType, NoActions
  <1>1. ASSUME NEW p \in Path, NEW s \in FileState, Edit(p, s) PROVE Work'
    <2>1. UNCHANGED <<mpc, barrier, att, targets, executed>>
      BY <1>1 DEF Edit, actorVars, ghciVars
    <2> QED
      BY <2>1 DEF Work, Reading
  <1>2. CASE Request
    <2>1. UNCHANGED <<mpc, barrier, att, targets, executed>>
      BY <1>2 DEF Request, actorVars, ghciVars
    <2> QED
      BY <2>1 DEF Work, Reading
  <1>3. CASE wait_for_event
    <2>1. mpc = "wait" /\ UNCHANGED <<barrier, att, targets, executed>>
      BY <1>3 DEF wait_for_event, ghciVars
    <2> QED
      BY <2>1 DEF Work, Reading
  <1>4. CASE handle_event
    <2>1. /\ mpc' = "dispatch" /\ barrier' = "manager" /\ att'.pc = "classify"
          /\ att'.acts = NoActions /\ att'.fresh = [p \in Source |-> Missing] /\ executed' = {}
      BY <1>4, HandleEventEffect DEF Begins
    <2> QED
      BY <2>1 DEF Work, Reading
  <1>5. CASE reload_from_eval
    <2>1. /\ barrier' = "eval" /\ att'.pc = "reload"
          /\ att'.acts = NoActions /\ att'.fresh = [p \in Source |-> Missing] /\ executed' = {}
      BY <1>5, ReloadFromEvalEffect DEF Begins
    <2> QED
      BY <1>0, <2>1 DEF Work, Reading
  <1>6. CASE reload
    <2> DEFINE files == haskell_files(att.expected)
    <2>1. /\ mpc' = "dispatch" /\ att.pc = "classify" /\ barrier' = barrier
          /\ att'.expected = att.expected /\ UNCHANGED <<targets, executed, att.fresh>>
          /\ \E a \in Actions :
                /\ AsksFor(a, event.events, files, targets)
                /\ \/ /\ att'.pc = "restart" /\ att'.synced = files /\ UNCHANGED att.acts
                   \/ att'.pc = "publish"
                   \/ /\ att'.pc = "remove" /\ att'.acts = a /\ att'.add = a.add
      BY <1>6, ReloadEffect DEF actorVars
    <2>2. PICK a \in Actions :
             /\ AsksFor(a, event.events, files, targets)
             /\ \/ /\ att'.pc = "restart" /\ att'.synced = files /\ UNCHANGED att.acts
                \/ att'.pc = "publish"
                \/ /\ att'.pc = "remove" /\ att'.acts = a /\ att'.add = a.add
      BY <2>1
    <2>3. /\ a.add \subseteq files /\ a.remove \intersect files = {}
          /\ a.reload \intersect Source \subseteq targets \ a.remove
      BY <2>2 DEF AsksFor
    <2>4. files = haskell_files(att'.expected)
      BY <2>1
    <2> HIDE DEF files
    <2> QED
      BY <2>1, <2>2, <2>3, <2>4 DEF Work, Reading
  <1>7. CASE remove_modules
    <2>1. /\ att.pc = "remove" /\ att'.pc = "named" /\ UNCHANGED <<mpc, barrier, executed>>
          /\ UNCHANGED <<att.expected, att.acts, att.add>>
          /\ targets' \in {targets, targets \ att.acts.remove}
      BY <1>7, RemoveEffect DEF actorVars
    <2> QED
      BY <2>1 DEF Work, Reading
  <1>8. ASSUME NEW names \in SUBSET Source, add_named_modules(names) PROVE Work'
    <2>1. /\ att.pc = "named" /\ targets \subseteq targets'
          /\ UNCHANGED <<mpc, barrier, executed, att.expected, att.acts, att.add>>
          /\ \/ /\ att'.pc \in {"initialized", "commit"}
                /\ att'.pc = "initialized" <=> att.acts = NoActions
             \/ att'.pc = "path"
             \/ /\ att'.pc = "read" /\ ~att'.all /\ att'.unread \subseteq targets'
                /\ att'.next = IF att.acts = NoActions THEN "initialized" ELSE "commit"
      BY <1>8, NamedEffect DEF actorVars, Accepted
    <2> QED
      BY <2>1 DEF Work, Reading
  <1>9. CASE add_modules
    <2>1. /\ att.pc = "path" /\ targets \subseteq targets'
          /\ UNCHANGED <<mpc, barrier, executed, att.expected, att.acts, att.add>>
          /\ att'.pc = "read" /\ ~att'.all /\ att'.unread \subseteq targets'
          /\ att'.next = IF att.acts = NoActions THEN "initialized" ELSE "commit"
      BY <1>9, PathEffect DEF actorVars, Accepted
    <2> QED
      BY <2>1 DEF Work, Reading
  <1>10. CASE Commit
    <2>1. /\ att.pc = "commit" /\ att'.pc \in {"publish", "reload"}
          /\ UNCHANGED <<mpc, barrier, executed, att.expected, att.acts, targets>>
      BY <1>10, CommitEffect DEF actorVars
    <2> QED
      BY <2>1 DEF Work, Reading, Holder
  <1>11. CASE reload_targets
    <2>1. /\ att.pc = "reload" /\ UNCHANGED <<mpc, barrier, executed, targets, att.acts>>
          /\ \/ att'.pc = "publish"
             \/ /\ att'.pc = "read" /\ att'.next = "publish"
                /\ \/ att'.unread = targets /\ att'.all
                   \/ att'.unread = att.acts.reload \intersect Source /\ ~att'.all
      BY <1>11, ReloadTargetsEffect DEF actorVars, ghciVars
    <2> QED
      BY <2>1 DEF Work, Reading
  <1>12. CASE restart
    <2>1. /\ att.pc = "restart" /\ att'.pc = "launch"
          /\ UNCHANGED <<mpc, barrier, executed, att.expected, att.acts, att.synced, att.fresh>>
      BY <1>12, RestartEffect DEF actorVars
    <2> QED
      BY <2>1 DEF Work, Reading
  <1>13. CASE initialize_inner
    <2>1. /\ att.pc = "launch" /\ att'.pc = "read" /\ att'.next = "sync" /\ att'.all
          /\ att'.unread = targets'
          /\ UNCHANGED <<mpc, barrier, executed, att.expected, att.acts, att.synced>>
      BY <1>13, InitializeEffect DEF actorVars
    <2> QED
      BY <2>1 DEF Work, Reading
  <1>14. CASE synchronize_haskell_files
    <2>1. /\ att.pc = "sync" /\ att'.pc = "named" /\ att'.add \subseteq att.synced
          /\ UNCHANGED <<mpc, barrier, executed, targets, att.expected, att.acts>>
      BY <1>14, SynchronizeEffect DEF actorVars, ghciVars
    <2> QED
      BY <1>0, <2>1 DEF Work, Reading
  <1>15. CASE Initialized
    <2>1. att'.pc = "publish" /\ att.pc = "initialized" /\ UNCHANGED executed
      BY <1>15, InitializedEffect
    <2> QED
      BY <2>1 DEF Work, Reading
  <1>16. CASE RefreshDone
    <2>1. /\ att.pc = "read" /\ att'.pc = att.next
          /\ att.next \in {"sync", "initialized", "commit", "publish"}
          /\ UNCHANGED <<mpc, barrier, executed, targets, att.expected, att.acts, att.synced>>
      BY <1>16, RefreshDoneEffect DEF actorVars
    <2>2. att.next = "initialized" => mpc = "dispatch"
      BY <2>1, <1>0, AttemptFields DEF Holder, AttemptType
    <2>3. att.next = "commit" => mpc = "dispatch" /\ ~att.all
      BY <2>1, <1>0, AttemptFields DEF Holder, AttemptType, Work
    <2> QED
      BY <2>1, <2>2, <2>3 DEF Work, Reading
  <1>17. CASE write_error_log
    <2>1. att.pc = "publish" /\ att'.pc = "after" /\ UNCHANGED executed
      BY <1>17, WriteEffect
    <2> QED
      BY <2>1 DEF Work, Reading
  <1>18. CASE RunAfterHooks
    <2>1. att.pc = "after" /\ att'.pc \in {"after", "eval"} /\ UNCHANGED executed
      BY <1>18, AfterHooksEffect
    <2> QED
      BY <2>1 DEF Work, Reading
  <1>19. ASSUME NEW p \in Source, refresh_eval_commands(p) PROVE Work'
    <2>1. /\ att.pc = "read" /\ UNCHANGED <<mpc, barrier, executed, targets>>
          /\ UNCHANGED <<att.expected, att.acts, att.synced, att.all, att.next>>
          /\ att'.pc = "publish" \/ (att'.pc = "read" /\ att'.unread \subseteq att.unread)
      BY <1>19, RefreshEffect DEF actorVars
    <2> QED
      BY <2>1 DEF Work, Reading
  <1>20. ASSUME NEW p \in Source, eval(p) PROVE Work'
    <2>1. att'.pc = "eval"
      BY <1>20, EvalEffect
    <2> QED
      BY <2>1 DEF Work, Reading
  <1>21. CASE FinishDispatch \/ Respond
    <2>1. att'.pc = "none"
      BY <1>21, EndEffect
    <2> QED
      BY <2>1 DEF Work, Reading
  <1>22. CASE UNCHANGED vars
    <2>1. UNCHANGED <<mpc, barrier, att, targets, executed>>
      BY <1>22 DEF vars, actorVars, ghciVars
    <2> QED
      BY <2>1 DEF Work, Reading
  <1> QED
    BY <1>1, <1>2, <1>3, <1>4, <1>5, <1>6, <1>7, <1>8, <1>9, <1>10, <1>11, <1>12, <1>13, <1>14,
       <1>15, <1>16, <1>17, <1>18, <1>19, <1>20, <1>21, <1>22 DEF Next

-----------------------------------------------------------------------------
(***************************************************************************)
(* Targets.  Once the manager has found a file missing while it worked,    *)
(* the program ends (Abandoned).  Else every source is a target exactly if *)
(* it exists, unless the manager has not taken up its last change          *)
(* (Noticed) or the attempt has still to deal with it (TargetTodo).        *)
(***************************************************************************)
Abandoned == mpc = "dead" \/ (mpc = "dispatch" /\ ~att.ok)

Noticed(p) == p \in dirty \/ (mpc = "queued" /\ event.events[p] # "none")

TargetTodo(p) ==
    \/ att.pc = "classify" /\ p \in Hints(event)
    \/ att.pc \in {"restart", "launch"}
    \/ att.pc = "remove" /\ p \in att.acts.remove
    \/ att.pc \in {"remove", "named", "path"} /\ p \in att.add \ targets
    \/ (att.pc = "sync" \/ Reading("sync")) /\ p \in att.synced \ targets

TargetsRight ==
    ~Abandoned => \A p \in Source :
        Noticed(p) \/ TargetTodo(p) \/ (p \in targets <=> disk[p] # Missing)

\* What has been abandoned stays so.
LEMMA AbandonedNext ==
    ASSUME AttemptType, HookInv, Holder, Work, [Next]_vars, Abandoned PROVE Abandoned'
  <1> USE DEF Abandoned, Outcome
  <1>1. CASE mpc = "dead"
    BY <1>1 DEF Next, vars, actorVars
  <1>2. CASE mpc = "dispatch" /\ ~att.ok
    <2>1. ASSUME NEW p \in Path, NEW s \in FileState, Edit(p, s) PROVE Abandoned'
      BY <1>2, <2>1 DEF Edit, actorVars
    <2>2. CASE Request
      BY <1>2, <2>2 DEF Request
    <2>3. CASE wait_for_event \/ handle_event
      BY <1>2, <2>3 DEF wait_for_event, handle_event
    <2>4. CASE reload_from_eval
      BY <1>2, <2>4 DEF Holder, reload_from_eval
    <2>5. CASE reload
      BY <1>2, <2>5, ReloadEffect DEF actorVars
    <2>6. CASE remove_modules
      BY <1>2, <2>6, RemoveEffect DEF actorVars
    <2>7. ASSUME NEW names \in SUBSET Source, add_named_modules(names) PROVE Abandoned'
      BY <1>2, <2>7, NamedEffect DEF actorVars, Accepted
    <2>8. CASE add_modules
      BY <1>2, <2>8, PathEffect DEF actorVars, Accepted
    <2>9. CASE Commit
      BY <1>2, <2>9, CommitEffect DEF actorVars
    <2>10. CASE reload_targets
      BY <1>2, <2>10, ReloadTargetsEffect DEF actorVars
    <2>11. CASE restart
      BY <1>2, <2>11, RestartEffect DEF actorVars
    <2>12. CASE initialize_inner
      BY <1>2, <2>12, InitializeEffect DEF actorVars
    <2>13. CASE synchronize_haskell_files
      BY <1>2, <2>13, SynchronizeEffect DEF actorVars
    <2>14. CASE Initialized
      BY <1>2, <2>14, InitializedEffect DEF actorVars
    <2>15. CASE RefreshDone
      BY <1>2, <2>15, RefreshDoneEffect DEF actorVars
    <2>16. CASE write_error_log
      BY <1>2, <2>16, WriteEffect DEF actorVars
    <2>17. CASE RunAfterHooks
      BY <1>2, <2>17, AfterHooksEffect DEF actorVars
    <2>18. ASSUME NEW p \in Source, refresh_eval_commands(p) PROVE Abandoned'
      BY <1>2, <2>18, RefreshEffect DEF actorVars
    <2>19. ASSUME NEW p \in Source, eval(p) PROVE Abandoned'
      BY <1>2, <2>19, EvalEffect DEF actorVars
    <2>20. CASE FinishDispatch \/ Respond
      BY <1>2, <2>20, EndEffect
    <2>21. CASE UNCHANGED vars
      BY <1>2, <2>21 DEF vars, actorVars
    <2> QED
      BY <2>1, <2>2, <2>3, <2>4, <2>5, <2>6, <2>7, <2>8, <2>9, <2>10, <2>11, <2>12, <2>13,
         <2>14, <2>15, <2>16, <2>17, <2>18, <2>19, <2>20, <2>21 DEF Next
  <1> QED
    BY <1>1, <1>2

\* While the manager works, a path whose change it has received exists exactly if it
\* is among the files of the event.
LEMMA FilesFacts ==
    ASSUME AttemptType, Holder, Captured, mpc = "dispatch", NEW p \in Source, ~Noticed(p)
    PROVE  /\ p \in haskell_files(att.expected) <=> disk[p] # Missing
           /\ att.expected[p] = disk[p]
  <1>1. p \in Haskell
    BY DEF Haskell
  <1>2. event.snapshot[p] = disk[p] /\ att.expected = event.snapshot
    BY <1>1 DEF Captured, Noticed, Holder
  <1> QED
    BY <1>1, <1>2 DEF haskell_files

\* Every step keeps the target set right.
LEMMA TargetsRightNext ==
    ASSUME AttemptType, HookInv, Holder, Work, Captured, TargetsRight, [Next]_vars
    PROVE  TargetsRight'
  <1> SUFFICES ASSUME ~Abandoned', NEW p \in Source
               PROVE  \/ Noticed(p)' \/ TargetTodo(p)'
                      \/ (p \in targets' <=> disk'[p] # Missing)
    BY DEF TargetsRight
  <1>a. ~Abandoned /\ (Noticed(p) \/ TargetTodo(p) \/ (p \in targets <=> disk[p] # Missing))
    BY AbandonedNext DEF TargetsRight
  <1> DEFINE Right == Noticed(p) \/ TargetTodo(p) \/ (p \in targets <=> disk[p] # Missing)
  <1>b. p \in Path /\ Right /\ disk \in [Path -> FileState]
    BY <1>a DEF Path, AttemptType
  <1>c. AttemptStep => UNCHANGED <<disk, dirty, mpc, event>> /\ (Noticed(p)' <=> Noticed(p))
    BY Frame DEF envVars, actorVars, Noticed
  <1>1. ASSUME NEW q \in Path, NEW s \in FileState, Edit(q, s) PROVE Right'
    <2>1. /\ disk' = [disk EXCEPT ![q] = s] /\ dirty' = dirty \union {q}
          /\ UNCHANGED <<mpc, event, att, targets>>
      BY <1>1 DEF Edit, actorVars, ghciVars
    <2> QED
      BY <1>b, <2>1 DEF Noticed, TargetTodo, Reading
  <1>2. CASE Request
    <2>1. UNCHANGED <<disk, dirty, mpc, event, att, targets>>
      BY <1>2 DEF Request, ghciVars
    <2> QED
      BY <1>b, <2>1 DEF Noticed, TargetTodo, Reading
  <1>3. CASE wait_for_event
    <2>1. /\ mpc = "wait" /\ mpc' = "queued" /\ UNCHANGED <<disk, att, targets>>
          /\ p \in dirty => event'.events[p] # "none"
      BY <1>3, <1>b DEF wait_for_event, ghciVars, EventKind
    <2>2. att.pc # "classify" /\ (Noticed(p) => p \in dirty)
      BY <2>1 DEF Work, Noticed
    <2>3. TargetTodo(p)' <=> TargetTodo(p)
      BY <2>1, <2>2 DEF TargetTodo, Reading
    <2> QED
      BY <1>b, <2>1, <2>2, <2>3 DEF Noticed
  <1>4. CASE handle_event
    <2>1. /\ mpc = "queued" /\ att.pc = "none" /\ att'.pc = "classify"
          /\ UNCHANGED <<disk, dirty, event, targets>>
      BY <1>4, HandleEventEffect DEF Holder, Begins, envVars, ghciVars
    <2> QED
      BY <1>b, <2>1 DEF Noticed, TargetTodo, Reading, Hints
  <1>5. CASE reload_from_eval
    <2>1. /\ att.pc = "none" /\ att'.pc = "reload"
          /\ UNCHANGED <<disk, dirty, mpc, event, targets>>
      BY <1>5, ReloadFromEvalEffect DEF Holder, Begins, envVars, ghciVars
    <2> QED
      BY <1>b, <2>1 DEF Noticed, TargetTodo, Reading
  <1>6. CASE reload
    <2> DEFINE files == haskell_files(att.expected)
    <2>1. /\ mpc = "dispatch" /\ att.pc = "classify" /\ AttemptStep
          /\ UNCHANGED targets
          /\ \E a \in Actions :
                /\ AsksFor(a, event.events, files, targets)
                /\ \/ att'.pc = "restart"
                   \/ /\ ~needs_restart(a) /\ ~needs_modify(a) /\ att'.pc = "publish"
                   \/ /\ ~needs_restart(a) /\ att'.pc = "remove" /\ att'.acts = a
                      /\ att'.add = a.add
      BY <1>6, ReloadEffect DEF AttemptStep
    <2>2. PICK a \in Actions :
             /\ AsksFor(a, event.events, files, targets)
             /\ \/ att'.pc = "restart"
                \/ /\ ~needs_restart(a) /\ ~needs_modify(a) /\ att'.pc = "publish"
                \/ /\ ~needs_restart(a) /\ att'.pc = "remove" /\ att'.acts = a
                   /\ att'.add = a.add
      BY <2>1
    <2>3. ~Noticed(p) => (p \in files <=> disk[p] # Missing)
      BY <2>1, FilesFacts
    <2>4. /\ a.add \subseteq files \ targets
          /\ a.reload \intersect Source \subseteq targets \intersect files
          /\ ~needs_restart(a) /\ event.events[p] # "none" =>
                \/ p \in a.add \/ p \in a.remove \/ p \in a.reload
                \/ p \notin files /\ p \notin targets
      BY <2>2 DEF AsksFor
    <2> HIDE DEF files
    <2>5. TargetTodo(p) => event.events[p] # "none"
      BY <2>1 DEF TargetTodo, Hints, Reading
    <2>6. CASE att'.pc = "restart"
      BY <2>6 DEF TargetTodo
    <2>7. CASE ~needs_restart(a) /\ ~needs_modify(a)
      BY <1>b, <1>c, <2>1, <2>3, <2>4, <2>5, <2>7 DEF needs_modify
    <2>8. CASE ~needs_restart(a) /\ att'.pc = "remove" /\ att'.acts = a /\ att'.add = a.add
      <3>1. TargetTodo(p)' <=> p \in a.remove \/ p \in a.add \ targets
        BY <2>1, <2>8 DEF TargetTodo, Reading
      <3> QED
        BY <1>b, <1>c, <2>1, <2>3, <2>4, <2>5, <2>8, <3>1
    <2> QED
      BY <2>2, <2>6, <2>7, <2>8
  <1>7. CASE remove_modules
    <2>1. /\ att.pc = "remove" /\ att'.pc = "named" /\ AttemptStep
          /\ UNCHANGED <<att.expected, att.acts, att.add>>
          /\ targets' = targets \ att.acts.remove
      BY <1>7, RemoveEffect DEF AttemptStep, Owner, Job
    <2>2. mpc = "dispatch" /\ att.acts.remove \intersect haskell_files(att.expected) = {}
      BY <2>1 DEF Work
    <2>3. p \in att.acts.remove => Noticed(p) \/ disk[p] = Missing
      BY <2>2, FilesFacts
    <2>4. /\ TargetTodo(p) <=> p \in att.acts.remove \/ p \in att.add \ targets
          /\ TargetTodo(p)' <=> p \in att.add \ targets'
      BY <2>1 DEF TargetTodo, Reading
    <2> QED
      BY <1>b, <1>c, <2>1, <2>3, <2>4
  <1>8. ASSUME NEW names \in SUBSET Source, add_named_modules(names) PROVE Right'
    <2>1. /\ att.pc = "named" /\ AttemptStep /\ names \subseteq Present
          /\ UNCHANGED att.add
          /\ \/ /\ att.add = {} /\ att'.pc \in {"initialized", "commit"} /\ UNCHANGED targets
             \/ targets' = targets \union names /\ att'.pc = "path"
             \/ targets' = targets \union names /\ att.add \subseteq targets' /\ att'.pc = "read"
      BY <1>8, NamedEffect DEF AttemptStep, Job, Accepted
    <2>2. TargetTodo(p) <=> p \in att.add \ targets
      BY <2>1 DEF TargetTodo, Reading
    <2>3. att'.pc = "path" => (TargetTodo(p)' <=> p \in att.add \ targets')
      BY <2>1 DEF TargetTodo, Reading
    <2>4. p \in names => disk[p] # Missing
      BY <2>1 DEF Present
    <2> QED
      BY <1>b, <1>c, <2>1, <2>2, <2>3, <2>4
  <1>9. CASE add_modules
    <2>1. /\ att.pc = "path" /\ AttemptStep
          /\ targets' = targets \union ((att.add \ targets) \intersect Present)
      BY <1>9, PathEffect DEF AttemptStep
    <2>2. mpc = "dispatch" /\ att.add \subseteq haskell_files(att.expected)
      BY <2>1 DEF Work
    <2>3. p \in att.add => Noticed(p) \/ disk[p] # Missing
      BY <2>2, FilesFacts
    <2>4. TargetTodo(p) <=> p \in att.add \ targets
      BY <2>1 DEF TargetTodo, Reading
    <2> QED
      BY <1>b, <1>c, <2>1, <2>3, <2>4 DEF Present
  <1>10. CASE initialize_inner
    <2>1. /\ att.pc = "launch" /\ AttemptStep /\ targets' = CmdTargets \intersect Present
          /\ att'.pc = "read" /\ att'.next = "sync" /\ UNCHANGED att.synced
      BY <1>10, InitializeEffect DEF AttemptStep, Job
    <2>2. mpc = "dispatch" /\ att.synced = haskell_files(att.expected)
      BY <2>1 DEF Work
    <2>3. ~Noticed(p) => (p \in att.synced <=> disk[p] # Missing)
      BY <2>2, FilesFacts
    <2>4. TargetTodo(p)' <=> p \in att.synced \ targets'
      BY <2>1 DEF TargetTodo, Reading
    <2> QED
      BY <1>b, <1>c, <2>1, <2>3, <2>4 DEF Present
  <1>11. CASE synchronize_haskell_files
    <2>1. /\ att.pc = "sync" /\ att'.pc = "named" /\ AttemptStep /\ UNCHANGED targets
          /\ att'.add = (att.synced \intersect Source) \ targets
      BY <1>11, SynchronizeEffect DEF AttemptStep, ghciVars
    <2>2. /\ TargetTodo(p) <=> p \in att.synced \ targets
          /\ TargetTodo(p)' <=> p \in att'.add \ targets
      BY <2>1 DEF TargetTodo, Reading
    <2> QED
      BY <1>b, <1>c, <2>1, <2>2
  <1>12. CASE restart
    <2>1. att'.pc = "launch"
      BY <1>12, RestartEffect
    <2> QED
      BY <2>1 DEF TargetTodo
  <1>13. ASSUME NEW q \in Source, refresh_eval_commands(q) PROVE Right'
    <2>1. /\ att.pc = "read" /\ AttemptStep /\ UNCHANGED <<targets, att.next, att.synced>>
          /\ att'.pc = "read" \/ (att'.pc = "publish" /\ ~att'.ok)
      BY <1>13, RefreshEffect DEF AttemptStep, Job
    <2>2. CASE att'.pc = "read"
      BY <1>b, <1>c, <2>1, <2>2 DEF TargetTodo, Reading
    <2>3. CASE att'.pc = "publish" /\ ~att'.ok
      <3>1. mpc # "dispatch"
        BY <1>c, <2>1, <2>3 DEF Abandoned
      <3>2. att.next = "publish"
        BY <2>1, <3>1 DEF Holder, AttemptType
      <3> QED
        BY <1>b, <1>c, <2>1, <2>3, <3>2 DEF TargetTodo, Reading
    <2> QED
      BY <2>1, <2>2, <2>3
  <1>14. CASE RefreshDone
    <2>1. /\ att.pc = "read" /\ AttemptStep /\ UNCHANGED <<targets, att.synced>>
          /\ att'.pc = att.next /\ att.next \in {"sync", "initialized", "commit", "publish"}
      BY <1>14, RefreshDoneEffect DEF AttemptStep, Job
    <2> QED
      BY <1>b, <1>c, <2>1 DEF TargetTodo, Reading
  <1>15. ASSUME NEW q \in Source, eval(q) PROVE Right'
    <2>1. /\ att.pc = "eval" /\ att'.pc = "eval" /\ AttemptStep
          /\ UNCHANGED targets \/ (targets' = targets \union {q} /\ disk[q] # Missing)
      BY <1>15, EvalEffect DEF AttemptStep
    <2> QED
      BY <1>b, <1>c, <2>1 DEF TargetTodo, Reading
  <1>16. CASE Commit \/ reload_targets \/ Initialized \/ write_error_log \/ RunAfterHooks
    <2>1. /\ AttemptStep /\ UNCHANGED targets
          /\ att.pc \in {"commit", "reload", "initialized", "publish", "after"}
      BY <1>16, CommitEffect, ReloadTargetsEffect, InitializedEffect, WriteEffect,
         AfterHooksEffect DEF AttemptStep, ghciVars
    <2> QED
      BY <1>b, <1>c, <2>1 DEF TargetTodo, Reading
  <1>17. CASE FinishDispatch \/ Respond
    <2>1. /\ att.pc = "eval" /\ att'.pc = "none" /\ UNCHANGED <<disk, dirty, targets>>
          /\ mpc' # "queued" \/ UNCHANGED <<mpc, event>>
      BY <1>17, EndEffect DEF envVars, ghciVars
    <2>2. att.by = "eval" \/ mpc # "queued"
      BY <2>1 DEF Holder, AttemptType
    <2>3. Noticed(p) => Noticed(p)'
      BY <1>17, <2>1, <2>2, EndEffect DEF Noticed
    <2> QED
      BY <1>b, <2>1, <2>3 DEF TargetTodo, Reading
  <1>18. CASE UNCHANGED vars
    <2>1. UNCHANGED <<disk, dirty, mpc, event, att, targets>>
      BY <1>18 DEF vars, envVars, actorVars, ghciVars
    <2> QED
      BY <1>b, <2>1 DEF Noticed, TargetTodo, Reading
  <1> QED
    BY <1>1, <1>2, <1>3, <1>4, <1>5, <1>6, <1>7, <1>8, <1>9, <1>10, <1>11, <1>12, <1>13, <1>14,
       <1>15, <1>16, <1>17, <1>18 DEF Next

-----------------------------------------------------------------------------
(***************************************************************************)
(* Eval comments.  A source that is no target has no entry; an entry is    *)
(* the comment on disk unless a change of the file is waiting (Noticed),   *)
(* or the attempt is going to read or to drop it (CommentTodo).            *)
(***************************************************************************)
NoEntry == \A p \in Source \ targets :
    evals[p] = Missing /\ (att.pc = "read" /\ att.all => att.fresh[p] = Missing)

FreshRight == att.pc = "read" /\ att.all =>
    \A p \in targets \ att.unread : Noticed(p) \/ att.fresh[p] = Comment(disk[p])

CommentTodo(p) ==
    \/ TargetTodo(p) \/ Reading("sync")
    \/ att.pc \in {"remove", "named", "path"} /\ p \in att.add
    \/ att.pc \in {"remove", "named", "path", "commit", "reload"} /\ p \in att.acts.reload
    \/ /\ att.pc = "read" /\ ~att.all
       /\ p \in att.unread \/ (att.next # "publish" /\ p \in att.acts.reload)

CommentsRight == ~interrupts /\ ~Abandoned => \A p \in Source :
    Noticed(p) \/ CommentTodo(p) \/ evals[p] = Comment(disk[p])

\* A file that is gone has no comment.
LEMMA NoComment == Comment(Missing) = Missing
  BY DEF Comment

\* Entries are inserted and removed as the files say.
LEMMA EntryFacts ==
    ASSUME NEW map \in [Source -> FileState], NEW p \in Source,
           NEW new, new = UpdateEntry(map, p)
    PROVE  new[p] = Comment(disk[p]) /\ \A q \in Source : q # p => new[q] = map[q]
  BY DEF UpdateEntry

\* No step leaves an entry for a source that is no target.
LEMMA NoEntryNext ==
    ASSUME AttemptType, HookInv, Holder, Work, NoEntry, [Next]_vars PROVE NoEntry'
  <1> SUFFICES ASSUME NEW p \in Source, p \notin targets'
               PROVE  evals'[p] = Missing
                      /\ (att'.pc = "read" /\ att'.all => att'.fresh[p] = Missing)
    BY DEF NoEntry
  <1> DEFINE None == evals[p] = Missing /\ (att.pc = "read" /\ att.all => att.fresh[p] = Missing)
  <1>a. p \notin targets => None
    BY DEF NoEntry
  <1>b. evals \in [Source -> FileState] /\ att.fresh \in [Source -> FileState]
    BY AttemptFields DEF AttemptType
  <1>1. CASE UNCHANGED <<evals, targets, att>>
    BY <1>1, <1>a
  <1>2. CASE handle_event
    BY <1>2, <1>a, HandleEventEffect DEF Begins, ghciVars
  <1>3. CASE reload_from_eval
    BY <1>3, <1>a, ReloadFromEvalEffect DEF Begins, ghciVars
  <1>4. CASE reload
    BY <1>4, <1>a, ReloadEffect
  <1>5. CASE remove_modules
    <2>1. /\ att'.pc = "named"
          /\ \/ UNCHANGED <<targets, evals>>
             \/ /\ targets' = targets \ att.acts.remove
                /\ evals' = [q \in Source |-> IF q \in att.acts.remove THEN Missing ELSE evals[q]]
      BY <1>5, RemoveEffect
    <2> QED
      BY <1>a, <2>1
  <1>6. ASSUME NEW names \in SUBSET Source, add_named_modules(names) PROVE None'
    <2>1. /\ targets \subseteq targets' /\ UNCHANGED evals
          /\ att'.pc # "read" \/ ~att'.all
      BY <1>6, NamedEffect DEF Accepted
    <2> QED
      BY <1>a, <2>1
  <1>7. CASE add_modules
    <2>1. targets \subseteq targets' /\ UNCHANGED evals /\ ~att'.all
      BY <1>7, PathEffect DEF Accepted
    <2> QED
      BY <1>a, <2>1
  <1>8. CASE Commit
    BY <1>8, <1>a, CommitEffect
  <1>9. CASE reload_targets
    <2>1. /\ att.pc = "reload" /\ UNCHANGED <<targets, evals, att.fresh>>
          /\ att.by = "eval" \/ att'.pc = "publish" \/ ~att'.all
      BY <1>9, ReloadTargetsEffect DEF ghciVars
    <2>2. att.by = "eval" => barrier = "eval"
      BY <2>1 DEF Holder, AttemptType
    <2>3. att.by = "eval" => att.fresh[p] = Missing
      BY <2>1, <2>2 DEF Work
    <2> QED
      BY <1>a, <2>1, <2>3
  <1>10. CASE restart
    BY <1>10, <1>a, RestartEffect DEF ghciVars
  <1>11. CASE initialize_inner
    <2>1. /\ att.pc = "launch" /\ UNCHANGED att.fresh /\ evals' = [q \in Source |-> Missing]
      BY <1>11, InitializeEffect
    <2>2. att.fresh[p] = Missing
      BY <2>1 DEF Work
    <2> QED
      BY <2>1, <2>2
  <1>12. CASE synchronize_haskell_files
    BY <1>12, <1>a, SynchronizeEffect DEF ghciVars
  <1>13. CASE Initialized
    BY <1>13, <1>a, InitializedEffect
  <1>14. ASSUME NEW q \in Source, refresh_eval_commands(q) PROVE None'
    <2>1. /\ att.pc = "read" /\ q \in att.unread /\ UNCHANGED <<targets, att.all>>
          /\ \/ att.all /\ att'.fresh = UpdateEntry(att.fresh, q) /\ UNCHANGED evals
             \/ ~att.all /\ evals' = UpdateEntry(evals, q)
             \/ UNCHANGED <<evals, att.fresh>>
      BY <1>14, RefreshEffect DEF Job
    <2>2. p # q /\ None
      BY <1>a, <2>1 DEF Work
    <2>3. att'.fresh = UpdateEntry(att.fresh, q) => att'.fresh[p] = att.fresh[p]
      BY <1>b, <2>2, EntryFacts
    <2>4. evals' = UpdateEntry(evals, q) => evals'[p] = evals[p]
      BY <1>b, <2>2, EntryFacts
    <2> QED
      BY <2>1, <2>2, <2>3, <2>4
  <1>15. CASE RefreshDone
    <2>1. /\ att.pc = "read" /\ att'.pc # "read" /\ UNCHANGED targets
          /\ evals' = IF att.all THEN att.fresh ELSE evals
      BY <1>15, RefreshDoneEffect
    <2> QED
      BY <1>a, <2>1
  <1>16. CASE write_error_log
    BY <1>16, <1>a, WriteEffect DEF ghciVars
  <1>17. CASE RunAfterHooks
    BY <1>17, <1>a, AfterHooksEffect DEF ghciVars
  <1>18. ASSUME NEW q \in Source, eval(q) PROVE None'
    <2>1. /\ att'.pc = "eval"
          /\ \/ UNCHANGED <<targets, evals>>
             \/ targets' = targets \union {q} /\ evals' = UpdateEntry(evals, q)
      BY <1>18, EvalEffect
    <2>2. targets' = targets \union {q} => p # q /\ p \notin targets
      OBVIOUS
    <2>3. p # q /\ evals' = UpdateEntry(evals, q) => evals'[p] = evals[p]
      BY <1>b, EntryFacts
    <2> QED
      BY <1>a, <2>1, <2>2, <2>3
  <1>19. CASE FinishDispatch \/ Respond
    BY <1>19, <1>a, EndEffect DEF ghciVars
  <1> QED
    BY <1>1, <1>2, <1>3, <1>4, <1>5, <1>6, <1>7, <1>8, <1>9, <1>10, <1>11, <1>12, <1>13, <1>14,
       <1>15, <1>16, <1>17, <1>18, <1>19 DEF Next, vars, ghciVars, Edit, Request, wait_for_event

\* A change is noticed until handle_event takes it up.
LEMMA NoticedNext ==
    ASSUME AttemptType, Holder, [Next]_vars, NEW p \in Source
    PROVE  /\ Noticed(p)' \/ disk'[p] = disk[p]
           /\ Noticed(p) => Noticed(p)' \/ (handle_event /\ p \in Hints(event))
  <1> USE DEF envVars, actorVars, Noticed
  <1>0. p \in Path /\ disk \in [Path -> FileState]
    BY DEF Path, AttemptType
  <1>1. ASSUME NEW q \in Path, NEW s \in FileState, Edit(q, s)
        PROVE  Noticed(p)' \/ (disk'[p] = disk[p] /\ (Noticed(p) => Noticed(p)'))
    BY <1>0, <1>1 DEF Edit
  <1>2. CASE Request
    BY <1>2 DEF Request
  <1>3. CASE wait_for_event
    BY <1>0, <1>3 DEF wait_for_event, EventKind
  <1>4. CASE handle_event
    BY <1>0, <1>4 DEF handle_event, Hints
  <1>5. CASE reload_from_eval
    BY <1>5 DEF reload_from_eval
  <1>6. CASE FinishDispatch \/ Respond
    <2>1. /\ UNCHANGED <<disk, dirty>> /\ att.pc = "eval"
          /\ att.by = "manager" \/ UNCHANGED <<mpc, event>>
      BY <1>6, EndEffect
    <2>2. att.by = "manager" => mpc = "dispatch"
      BY <2>1 DEF Holder, AttemptType
    <2> QED
      BY <2>1, <2>2
  <1>7. CASE AttemptStep
    BY <1>7, Frame
  <1>8. CASE UNCHANGED vars
    BY <1>8 DEF vars
  <1> QED
    BY <1>1, <1>2, <1>3, <1>4, <1>5, <1>6, <1>7, <1>8 DEF Next, AttemptStep

\* A new map of comments fills up with what is on disk.
LEMMA FreshRightNext ==
    ASSUME AttemptType, HookInv, Holder, Work, FreshRight, [Next]_vars PROVE FreshRight'
  <1> SUFFICES ASSUME att'.pc = "read", att'.all, NEW p \in Source, p \in targets',
                      p \notin att'.unread
               PROVE  Noticed(p)' \/ att'.fresh[p] = Comment(disk'[p])
    <2>1. AttemptType'
      BY AttemptTypeNext
    <2> QED
      BY <2>1 DEF FreshRight, AttemptType
  <1>1. Noticed(p)' \/ (disk'[p] = disk[p] /\ (Noticed(p) => handle_event))
    BY NoticedNext
  <1>2. CASE UNCHANGED <<att, targets>> /\ ~handle_event
    BY <1>1, <1>2 DEF FreshRight
  <1>3. CASE handle_event
    BY <1>3, HandleEventEffect DEF Begins
  <1>4. CASE reload_from_eval
    BY <1>4, ReloadFromEvalEffect DEF Begins
  <1>5. CASE reload
    BY <1>5, ReloadEffect
  <1>6. CASE remove_modules
    BY <1>6, RemoveEffect
  <1>7. ASSUME NEW names \in SUBSET Source, add_named_modules(names) PROVE FALSE
    BY <1>7, NamedEffect DEF Accepted
  <1>8. CASE add_modules
    BY <1>8, PathEffect DEF Accepted
  <1>9. CASE Commit
    BY <1>9, CommitEffect
  <1>10. CASE reload_targets
    BY <1>10, ReloadTargetsEffect DEF ghciVars
  <1>11. CASE restart
    BY <1>11, RestartEffect
  <1>12. CASE initialize_inner
    BY <1>12, InitializeEffect
  <1>13. CASE synchronize_haskell_files
    BY <1>13, SynchronizeEffect
  <1>14. CASE Initialized
    BY <1>14, InitializedEffect
  <1>15. ASSUME NEW q \in Source, refresh_eval_commands(q)
         PROVE  Noticed(p)' \/ att'.fresh[p] = Comment(disk'[p])
    <2>1. /\ att.pc = "read" /\ att.all /\ att'.unread = att.unread \ {q} /\ p \in targets
          /\ att'.fresh = UpdateEntry(att.fresh, q)
      BY <1>15, RefreshEffect
    <2>2. att.fresh \in [Source -> FileState] /\ ~handle_event
      BY <2>1, AttemptFields DEF AttemptType, handle_event, Holder
    <2>3. /\ p = q => att'.fresh[p] = Comment(disk[p])
          /\ p # q => att'.fresh[p] = att.fresh[p]
      BY <2>1, <2>2, EntryFacts
    <2> QED
      BY <1>1, <2>1, <2>2, <2>3 DEF FreshRight
  <1>16. CASE RefreshDone
    BY <1>16, RefreshDoneEffect
  <1>17. CASE write_error_log
    BY <1>17, WriteEffect
  <1>18. CASE RunAfterHooks
    BY <1>18, AfterHooksEffect
  <1>19. ASSUME NEW q \in Source, eval(q) PROVE FALSE
    BY <1>19, EvalEffect
  <1>20. CASE FinishDispatch \/ Respond
    BY <1>20, EndEffect
  <1> QED
    BY <1>1, <1>2, <1>3, <1>4, <1>5, <1>6, <1>7, <1>8, <1>9, <1>10, <1>11, <1>12, <1>13, <1>14,
       <1>15, <1>16, <1>17, <1>18, <1>19, <1>20
       DEF Next, vars, ghciVars, Edit, Request, wait_for_event

\* --interrupt-on-error is given once for all.
LEMMA OptionFixed == [Next]_vars => UNCHANGED interrupts
  <1>1. AttemptStep => UNCHANGED interrupts
    BY Frame DEF envVars
  <1>2. Request \/ wait_for_event \/ (\E p \in Path, s \in FileState : Edit(p, s)) =>
           UNCHANGED interrupts
    BY Zenon DEF Request, wait_for_event, Edit
  <1>3. handle_event \/ reload_from_eval \/ FinishDispatch \/ Respond => UNCHANGED interrupts
    BY Zenon DEF handle_event, reload_from_eval, FinishDispatch, Respond, envVars
  <1>4. UNCHANGED vars => UNCHANGED interrupts
    BY DEF vars, envVars
  <1> QED
    BY <1>1, <1>2, <1>3, <1>4 DEF Next, AttemptStep

\* Every step keeps the entries right.
LEMMA CommentsRightNext ==
    ASSUME AttemptType, HookInv, Holder, Work, Captured, TargetsRight, NoEntry, FreshRight,
           CommentsRight, [Next]_vars
    PROVE  CommentsRight'
  <1> SUFFICES ASSUME ~interrupts', ~Abandoned', NEW p \in Source
               PROVE  Noticed(p)' \/ CommentTodo(p)' \/ evals'[p] = Comment(disk'[p])
    BY DEF CommentsRight
  <1> DEFINE Right == Noticed(p) \/ CommentTodo(p) \/ evals[p] = Comment(disk[p])
  <1>a. ~interrupts /\ ~Abandoned
    BY AbandonedNext, OptionFixed
  <1>b. /\ Right /\ (p \notin targets => evals[p] = Missing)
        /\ Noticed(p) \/ TargetTodo(p) \/ (p \in targets <=> disk[p] # Missing)
    BY <1>a DEF CommentsRight, NoEntry, TargetsRight
  <1>c. Noticed(p)' \/ (disk'[p] = disk[p] /\ (Noticed(p) => handle_event /\ p \in Hints(event)))
    BY NoticedNext
  <1>d. /\ evals \in [Source -> FileState] /\ att.fresh \in [Source -> FileState]
        /\ NoActions.reload = {}
    BY AttemptFields DEF AttemptType, NoActions
  <1>e. att.pc # "none" => ~handle_event
    BY DEF Holder, handle_event
  <1>1. CASE UNCHANGED <<evals, att, targets>> /\ (att.pc = "classify" => UNCHANGED event)
             /\ ~handle_event
    <2>1. CommentTodo(p)' <=> CommentTodo(p)
      BY <1>1 DEF CommentTodo, TargetTodo, Reading, Hints
    <2> QED
      BY <1>1, <1>b, <1>c, <2>1
  <1>2. CASE handle_event
    <2>1. /\ att.pc = "none" /\ att'.pc = "classify" /\ UNCHANGED <<disk, event, evals>>
      BY <1>2, HandleEventEffect DEF Holder, Begins, envVars, ghciVars
    <2>2. ~CommentTodo(p)
      BY <2>1 DEF CommentTodo, TargetTodo, Reading
    <2>3. p \in Hints(event) => CommentTodo(p)'
      BY <2>1 DEF CommentTodo, TargetTodo, Hints
    <2> QED
      BY <1>b, <1>c, <2>1, <2>2, <2>3
  <1>3. CASE reload_from_eval
    <2>1. /\ att.pc = "none" /\ UNCHANGED evals
      BY <1>3, ReloadFromEvalEffect DEF Holder, ghciVars
    <2>2. ~CommentTodo(p)
      BY <2>1 DEF CommentTodo, TargetTodo, Reading
    <2>3. ~handle_event
      BY <1>3 DEF reload_from_eval, handle_event
    <2> QED
      BY <1>b, <1>c, <2>1, <2>2, <2>3
  <1>4. CASE reload
    <2> DEFINE files == haskell_files(att.expected)
    <2>1. /\ mpc = "dispatch" /\ att.pc = "classify" /\ UNCHANGED evals
          /\ \E a \in Actions :
                /\ AsksFor(a, event.events, files, targets)
                /\ \/ att'.pc = "restart"
                   \/ /\ ~needs_restart(a) /\ ~needs_modify(a) /\ att'.pc = "publish"
                   \/ /\ ~needs_restart(a) /\ att'.pc = "remove" /\ att'.acts = a
                      /\ att'.add = a.add
      BY <1>4, ReloadEffect
    <2>2. PICK a \in Actions :
             /\ AsksFor(a, event.events, files, targets)
             /\ \/ att'.pc = "restart"
                \/ /\ ~needs_restart(a) /\ ~needs_modify(a) /\ att'.pc = "publish"
                \/ /\ ~needs_restart(a) /\ att'.pc = "remove" /\ att'.acts = a
                   /\ att'.add = a.add
      BY <2>1
    <2>3. ~Noticed(p) => (p \in files <=> disk[p] # Missing)
      BY <2>1, FilesFacts
    <2>4. ~needs_restart(a) /\ event.events[p] # "none" =>
             p \in a.add \/ p \in a.remove \/ p \in a.reload \/ (p \notin files /\ p \notin targets)
      BY <2>2 DEF AsksFor
    <2>5. CommentTodo(p) => event.events[p] # "none"
      BY <2>1 DEF CommentTodo, TargetTodo, Hints, Reading
    <2> HIDE DEF files
    <2>6. CASE att'.pc = "restart"
      BY <2>6 DEF CommentTodo, TargetTodo
    <2>7. CASE ~needs_restart(a) /\ ~needs_modify(a)
      <3>1. CommentTodo(p) => p \notin files /\ evals[p] = Missing
        BY <1>b, <2>4, <2>5, <2>7 DEF needs_modify
      <3> QED
        BY <1>b, <1>c, <1>e, <2>1, <2>3, <3>1, NoComment
    <2>8. CASE ~needs_restart(a) /\ att'.pc = "remove" /\ att'.acts = a /\ att'.add = a.add
      <3>1. p \in a.add \/ p \in a.remove \/ p \in a.reload => CommentTodo(p)'
        BY <2>8 DEF CommentTodo, TargetTodo
      <3>2. CommentTodo(p) => CommentTodo(p)' \/ (p \notin files /\ evals[p] = Missing)
        BY <1>b, <2>4, <2>5, <2>8, <3>1
      <3> QED
        BY <1>b, <1>c, <1>e, <2>1, <2>3, <3>2, NoComment
    <2> QED
      BY <2>2, <2>6, <2>7, <2>8
  <1>5. CASE remove_modules
    <2>1. /\ att.pc = "remove" /\ att'.pc = "named" /\ UNCHANGED <<att.acts, att.add>>
          /\ \/ att.acts.remove = {} /\ UNCHANGED evals
             \/ evals' = [q \in Source |-> IF q \in att.acts.remove THEN Missing ELSE evals[q]]
      BY <1>5, RemoveEffect DEF Job
    <2>2. mpc = "dispatch" /\ att.acts.remove \intersect haskell_files(att.expected) = {}
      BY <2>1 DEF Work
    <2>3. p \in att.acts.remove => Noticed(p) \/ disk[p] = Missing
      BY <2>2, FilesFacts
    <2>4. CommentTodo(p) => p \in att.acts.remove \/ CommentTodo(p)'
      BY <2>1 DEF CommentTodo, TargetTodo, Reading
    <2>5. IF p \in att.acts.remove THEN evals'[p] = Missing ELSE evals'[p] = evals[p]
      BY <2>1
    <2> QED
      BY <1>b, <1>c, <1>e, <2>1, <2>3, <2>4, <2>5, NoComment
  <1>6. ASSUME NEW names \in SUBSET Source, add_named_modules(names) PROVE Right'
    <2>1. /\ att.pc = "named" /\ UNCHANGED <<evals, att.acts, att.add>>
          /\ \/ /\ att.add = {} /\ att'.pc \in {"initialized", "commit"}
                /\ att'.pc = "initialized" <=> att.acts = NoActions
             \/ att'.pc = "path"
             \/ /\ att'.pc = "read" /\ ~att'.all /\ att'.unread = att.add
                /\ att'.next = IF att.acts = NoActions THEN "initialized" ELSE "commit"
      <3>1. Accepted(targets') /\ att.add \subseteq targets' =>
               /\ att'.pc = "read" /\ ~att'.all /\ att'.unread = att.add
               /\ att'.next = IF att.acts = NoActions THEN "initialized" ELSE "commit"
               /\ UNCHANGED <<att.acts, att.add>>
        BY DEF Accepted
      <3>2. /\ att.pc = "named" /\ UNCHANGED evals
            /\ \/ /\ att.add = {} /\ att'.pc \in {"initialized", "commit"}
                  /\ att'.pc = "initialized" <=> att.acts = NoActions
                  /\ UNCHANGED Job
               \/ att'.pc = "path" /\ UNCHANGED Job
               \/ att.add \subseteq targets' /\ Accepted(targets')
        BY <1>6, NamedEffect
      <3> QED
        BY <3>1, <3>2 DEF Job
    <2>2. CommentTodo(p) => p \in att.add \/ p \in att.acts.reload
      BY <2>1 DEF CommentTodo, TargetTodo, Reading
    <2>3. p \in att.add \/ p \in att.acts.reload => CommentTodo(p)'
      BY <1>d, <2>1 DEF CommentTodo
    <2> QED
      BY <1>b, <1>c, <1>e, <2>1, <2>2, <2>3
  <1>7. CASE add_modules
    <2>1. /\ att.pc = "path" /\ UNCHANGED <<evals, att.acts, att.add>>
          /\ targets' = targets \union ((att.add \ targets) \intersect Present)
          /\ att'.pc = "read" /\ ~att'.all /\ att'.unread = att.add \intersect targets'
          /\ att'.next = IF att.acts = NoActions THEN "initialized" ELSE "commit"
      BY <1>7, PathEffect DEF Accepted
    <2>2. CommentTodo(p) => p \in att.add \/ p \in att.acts.reload
      BY <2>1 DEF CommentTodo, TargetTodo, Reading
    <2>3. p \in att.add =>
             p \in att.add \intersect targets' \/ (evals[p] = Missing /\ disk[p] = Missing)
      BY <1>b, <2>1 DEF Present, Path
    <2>4. p \in att.add \intersect targets' \/ p \in att.acts.reload => CommentTodo(p)'
      BY <1>d, <2>1 DEF CommentTodo
    <2> QED
      BY <1>b, <1>c, <1>e, <2>1, <2>2, <2>3, <2>4, NoComment
  <1>8. CASE Commit
    <2>1. /\ att.pc = "commit" /\ UNCHANGED <<evals, att.acts>> /\ att'.pc \in {"publish", "reload"}
          /\ att'.pc = "publish" <=> att.acts.reload = {}
      BY <1>8, CommitEffect DEF Job
    <2>2. CommentTodo(p) => p \in att.acts.reload
      BY <2>1 DEF CommentTodo, TargetTodo, Reading
    <2>3. p \in att.acts.reload => CommentTodo(p)'
      BY <2>1 DEF CommentTodo
    <2> QED
      BY <1>b, <1>c, <1>e, <2>1, <2>2, <2>3
  <1>9. CASE reload_targets
    <2>1. /\ att.pc = "reload" /\ UNCHANGED <<evals, att.acts>>
          /\ \/ att.by = "eval"
             \/ /\ att'.pc = "read" /\ ~att'.all /\ att'.unread = att.acts.reload \intersect Source
      BY <1>9, <1>a, ReloadTargetsEffect DEF ghciVars, Job
    <2>2. CommentTodo(p) => p \in att.acts.reload
      BY <2>1 DEF CommentTodo, TargetTodo, Reading
    <2>3. att.by = "eval" => p \notin att.acts.reload
      BY <1>d, <2>1 DEF Holder, AttemptType
    <2>4. p \in att.acts.reload => CommentTodo(p)'
      BY <2>1, <2>3 DEF CommentTodo
    <2> QED
      BY <1>b, <1>c, <1>e, <2>1, <2>2, <2>4
  <1>10. CASE restart
    BY <1>10, RestartEffect DEF CommentTodo, TargetTodo
  <1>11. CASE initialize_inner
    BY <1>11, InitializeEffect DEF CommentTodo, Reading
  <1>12. CASE synchronize_haskell_files
    <2>1. /\ att.pc = "sync" /\ att'.pc = "named" /\ UNCHANGED <<evals, targets>>
          /\ att'.add = (att.synced \intersect Source) \ targets
      BY <1>12, SynchronizeEffect DEF ghciVars
    <2>2. CommentTodo(p) => CommentTodo(p)'
      BY <2>1 DEF CommentTodo, TargetTodo, Reading
    <2> QED
      BY <1>b, <1>c, <1>e, <2>1, <2>2
  <1>13. CASE Initialized
    <2>1. att.pc = "initialized" /\ UNCHANGED evals
      BY <1>13, InitializedEffect
    <2>2. ~CommentTodo(p)
      BY <2>1 DEF CommentTodo, TargetTodo, Reading
    <2> QED
      BY <1>b, <1>c, <1>e, <2>1, <2>2
  <1>14. ASSUME NEW q \in Source, refresh_eval_commands(q) PROVE Right'
    <2>1. /\ att.pc = "read" /\ q \in att.unread /\ AttemptStep
          /\ UNCHANGED <<targets, att.all, att.next, att.acts, att.synced>>
          /\ \/ /\ att'.pc = "read" /\ att'.unread = att.unread \ {q}
                /\ \/ att.all /\ UNCHANGED evals
                   \/ ~att.all /\ evals' = UpdateEntry(evals, q)
             \/ att'.pc = "publish" /\ ~att'.ok /\ UNCHANGED evals
      BY <1>14, RefreshEffect DEF AttemptStep, Job
    <2>2. CASE att'.pc = "read" /\ att.all /\ UNCHANGED evals
      <3>1. CommentTodo(p) => CommentTodo(p)'
        BY <2>1, <2>2 DEF CommentTodo, TargetTodo, Reading
      <3> QED
        BY <1>b, <1>c, <1>e, <2>1, <2>2, <3>1
    <2>3. CASE /\ att'.pc = "read" /\ att'.unread = att.unread \ {q} /\ ~att.all
               /\ evals' = UpdateEntry(evals, q)
      <3>1. p # q => (CommentTodo(p) => CommentTodo(p)')
        BY <2>1, <2>3 DEF CommentTodo, TargetTodo, Reading
      <3>2. IF p = q THEN evals'[p] = Comment(disk[p]) ELSE evals'[p] = evals[p]
        BY <1>d, <2>3, EntryFacts
      <3> QED
        BY <1>b, <1>c, <1>e, <2>1, <3>1, <3>2
    <2>4. CASE att'.pc = "publish" /\ ~att'.ok /\ UNCHANGED evals
      <3>1. mpc' = mpc /\ mpc # "dispatch"
        BY <2>1, <2>4, Frame DEF Abandoned, actorVars
      <3>2. att.next = "publish" /\ att.all
        BY <2>1, <3>1 DEF Holder, AttemptType
      <3>3. ~CommentTodo(p)
        BY <2>1, <3>2 DEF CommentTodo, TargetTodo, Reading
      <3> QED
        BY <1>b, <1>c, <1>e, <2>1, <2>4, <3>3
    <2> QED
      BY <2>1, <2>2, <2>3, <2>4
  <1>15. CASE RefreshDone
    <2>1. /\ att.pc = "read" /\ att.unread = {} /\ UNCHANGED <<targets, att.acts, att.synced>>
          /\ att'.pc = att.next /\ att.next \in {"sync", "initialized", "commit", "publish"}
          /\ evals' = IF att.all THEN att.fresh ELSE evals
      BY <1>15, RefreshDoneEffect DEF Job
    <2>2. CASE ~att.all
      <3>1. att.next # "sync" /\ (att.next = "initialized" => att.acts.reload = {})
        BY <1>d, <2>1, <2>2 DEF Work, Reading
      <3>2. CommentTodo(p) => CommentTodo(p)'
        BY <2>1, <3>1 DEF CommentTodo, TargetTodo, Reading
      <3> QED
        BY <1>b, <1>c, <1>e, <2>1, <2>2, <3>2
    <2>3. CASE att.all
      <3>1. p \in targets => Noticed(p) \/ evals'[p] = Comment(disk[p])
        BY <2>1, <2>3 DEF FreshRight
      <3>2. p \notin targets => evals'[p] = Missing
        BY <2>1, <2>3 DEF NoEntry
      <3>3. p \notin targets => Noticed(p) \/ disk[p] = Missing \/ CommentTodo(p)'
        <4>1. CASE att.next = "sync"
          <5>1. mpc = "dispatch" /\ att.synced = haskell_files(att.expected)
            BY <2>1, <4>1 DEF Work, Reading
          <5>2. ~Noticed(p) => (p \in att.synced <=> disk[p] # Missing)
            BY <5>1, FilesFacts
          <5>3. p \notin targets /\ p \in att.synced => CommentTodo(p)'
            BY <2>1, <4>1 DEF CommentTodo, TargetTodo
          <5> QED
            BY <5>2, <5>3
        <4>2. CASE att.next = "publish"
          <5>1. ~TargetTodo(p)
            BY <2>1, <4>2 DEF TargetTodo, Reading
          <5> QED
            BY <1>b, <5>1
        <4> QED
          BY <2>1, <2>3, <4>1, <4>2 DEF Work
      <3> QED
        BY <1>c, <1>e, <2>1, <3>1, <3>2, <3>3, NoComment
    <2> QED
      BY <2>2, <2>3
  <1>16. CASE write_error_log \/ RunAfterHooks
    <2>1. att.pc \in {"publish", "after"} /\ UNCHANGED evals
      BY <1>16, WriteEffect, AfterHooksEffect DEF ghciVars
    <2>2. ~CommentTodo(p)
      BY <2>1 DEF CommentTodo, TargetTodo, Reading
    <2> QED
      BY <1>b, <1>c, <1>e, <2>1, <2>2
  <1>17. ASSUME NEW q \in Source, eval(q) PROVE Right'
    <2>1. att.pc = "eval" /\ (UNCHANGED evals \/ evals' = UpdateEntry(evals, q))
      BY <1>17, EvalEffect
    <2>2. ~CommentTodo(p)
      BY <2>1 DEF CommentTodo, TargetTodo, Reading
    <2>3. evals' = UpdateEntry(evals, q) => evals'[p] = IF p = q THEN Comment(disk[p]) ELSE evals[p]
      BY <1>d, EntryFacts
    <2> QED
      BY <1>b, <1>c, <1>e, <2>1, <2>2, <2>3
  <1>18. CASE FinishDispatch \/ Respond
    <2>1. att.pc = "eval" /\ UNCHANGED evals
      BY <1>18, EndEffect DEF ghciVars
    <2>2. ~CommentTodo(p)
      BY <2>1 DEF CommentTodo, TargetTodo, Reading
    <2> QED
      BY <1>b, <1>c, <1>e, <2>1, <2>2
  <1>19. ASSUME wait_for_event \/ Request \/ \E q \in Path, s \in FileState : Edit(q, s)
         PROVE  /\ UNCHANGED <<evals, att, targets>> /\ (att.pc = "classify" => UNCHANGED event)
                /\ ~handle_event
    <2>1. UNCHANGED <<evals, att, targets>> /\ ~handle_event
      BY <1>19 DEF wait_for_event, Request, Edit, actorVars, ghciVars, handle_event
    <2>2. wait_for_event => att.pc # "classify"
      BY DEF wait_for_event, Work
    <2> QED
      BY <1>19, <2>1, <2>2 DEF Request, Edit, actorVars
  <1>20. CASE UNCHANGED vars
    <2>1. UNCHANGED <<evals, att, targets, event>> /\ ~handle_event
      BY <1>20 DEF vars, ghciVars, actorVars, handle_event
    <2> QED
      BY <1>1, <2>1
  <1> QED
    BY <1>1, <1>2, <1>3, <1>4, <1>5, <1>6, <1>7, <1>8, <1>9, <1>10, <1>11, <1>12, <1>13, <1>14,
       <1>15, <1>16, <1>17, <1>18, <1>19, <1>20 DEF Next

-----------------------------------------------------------------------------
(***************************************************************************)
(* What a successful attempt of the manager runs.                          *)
(***************************************************************************)
Wanted == {<<p, Comment(att.expected[p])>> :
              p \in {q \in Source : Comment(att.expected[q]) # Missing}}

EvalsWanted ==
    ~interrupts /\ att.by = "manager" /\ Succeeded(att) =>
        /\ att.pc = "after" => \A p \in Source : evals[p] = Comment(att.expected[p])
        /\ att.pc \in {"eval", "none"} /\ att.post => att.comments \union executed = Wanted
        /\ att.pc = "none" => att.comments = {}

\* A step that is not one of the last ones of an attempt leads to none of their stages.
LEMMA BeforeTheEnd ==
    ASSUME AttemptType, HookInv, Holder, Work, [Next]_vars
    PROVE  \/ UNCHANGED <<att, evals, executed, file>>
           \/ write_error_log \/ RunAfterHooks \/ FinishDispatch \/ Respond
           \/ \E p \in Source : eval(p)
           \/ att'.pc \notin {"after", "eval", "none"}
  <1> DEFINE Early == att'.pc \notin {"after", "eval", "none"}
  <1>1. CASE handle_event
    BY <1>1, HandleEventEffect DEF Begins, Holder
  <1>2. CASE reload_from_eval
    BY <1>2, ReloadFromEvalEffect DEF Begins
  <1>3. CASE reload
    BY <1>3, ReloadEffect
  <1>4. CASE remove_modules
    BY <1>4, RemoveEffect
  <1>5. CASE add_modules
    BY <1>5, PathEffect DEF Accepted
  <1>6. CASE Commit
    BY <1>6, CommitEffect
  <1>7. CASE reload_targets
    BY <1>7, ReloadTargetsEffect
  <1>8. CASE restart
    BY <1>8, RestartEffect
  <1>9. CASE initialize_inner
    BY <1>9, InitializeEffect
  <1>10. CASE synchronize_haskell_files
    BY <1>10, SynchronizeEffect
  <1>11. CASE Initialized
    BY <1>11, InitializedEffect
  <1>12. CASE RefreshDone
    BY <1>12, RefreshDoneEffect
  <1>13. ASSUME NEW names \in SUBSET Source, add_named_modules(names) PROVE Early
    BY <1>13, NamedEffect DEF Accepted
  <1>14. ASSUME NEW p \in Source, refresh_eval_commands(p) PROVE Early
    BY <1>14, RefreshEffect
  <1>15. ASSUME wait_for_event \/ Request \/ UNCHANGED vars
                \/ \E p \in Path, s \in FileState : Edit(p, s)
         PROVE  UNCHANGED <<att, evals, executed, file>>
    BY <1>15 DEF wait_for_event, Request, vars, Edit, ghciVars
  <1> QED
    BY <1>1, <1>2, <1>3, <1>4, <1>5, <1>6, <1>7, <1>8, <1>9, <1>10, <1>11, <1>12, <1>13,
       <1>14, <1>15 DEF Next

\* Every step of the manager's attempts keeps to the comments of the snapshot.
LEMMA EvalsWantedNext ==
    ASSUME AttemptType, HookInv, Holder, Work, Captured, CommentsRight, EvalsWanted, [Next]_vars
    PROVE  EvalsWanted'
  <1>1. CASE UNCHANGED <<att, evals, executed, file>>
    BY <1>1, OptionFixed DEF EvalsWanted, Wanted, Succeeded
  <1>2. CASE att'.pc \notin {"after", "eval", "none"}
    BY <1>2 DEF EvalsWanted
  <1>3. CASE write_error_log
    <2>1. /\ att.pc = "publish" /\ att'.pc = "after" /\ att'.current = Current
          /\ UNCHANGED <<att.by, att.expected, att.ok, evals>>
      BY <1>3, WriteEffect DEF Owner, ghciVars
    <2>2. SUFFICES ASSUME ~interrupts, att.by = "manager", Current, att.ok, NEW p \in Source
                   PROVE  evals[p] = Comment(att.expected[p])
      BY <2>1, OptionFixed DEF EvalsWanted, Succeeded
    <2>3. mpc = "dispatch" /\ event \in Event /\ att.expected = event.snapshot
      BY <2>1, <2>2 DEF Holder, AttemptType
    <2>4. p \in Haskell \ Ignored
      BY PathKindsDisjoint DEF Haskell
    <2>5. att.expected[p] = disk[p]
      BY <2>2, <2>3, <2>4, OptionsDistinct DEF Current, Event
    <2>6. ~Noticed(p) /\ ~Abandoned
      BY <2>2, <2>3, <2>4, <2>5 DEF Captured, Noticed, Abandoned
    <2>7. ~CommentTodo(p)
      BY <2>1 DEF CommentTodo, TargetTodo, Reading
    <2> QED
      BY <2>2, <2>5, <2>6, <2>7 DEF CommentsRight
  <1>4. CASE RunAfterHooks
    <2>1. /\ att.pc = "after" /\ UNCHANGED <<att.by, att.expected, evals, executed>>
          /\ UNCHANGED <<att.log, att.ok, att.current, att.post>>
          /\ \/ att'.pc = "after"
             \/ /\ att'.pc = "eval"
                /\ att'.comments = IF Succeeded(att) /\ att.post THEN Recorded ELSE {}
      BY <1>4, AfterHooksEffect DEF Owner, ghciVars
    <2>2. (Succeeded(att)' <=> Succeeded(att)) /\ Wanted' = Wanted /\ executed = {}
      BY <2>1 DEF Succeeded, Wanted, Work
    <2>3. (\A p \in Source : evals[p] = Comment(att.expected[p])) => Recorded = Wanted
      BY DEF Recorded, Wanted
    <2> QED
      BY <2>1, <2>2, <2>3, OptionFixed DEF EvalsWanted
  <1>5. ASSUME NEW p \in Source, eval(p) PROVE EvalsWanted'
    <2>1. /\ att.pc = "eval" /\ att'.pc = "eval"
          /\ UNCHANGED <<att.by, att.expected, att.log, att.current, att.post>>
          /\ \/ /\ UNCHANGED att.ok
                /\ \E c \in att.comments : /\ att'.comments = att.comments \ {c}
                                           /\ executed' = executed \union {c}
             \/ ~att'.ok
      BY <1>5, EvalEffect DEF Owner, Job
    <2>2. Wanted' = Wanted
      BY <2>1 DEF Wanted
    <2>3. CASE ~att'.ok
      BY <2>1, <2>3 DEF EvalsWanted, Succeeded
    <2>4. CASE att'.ok
      <3>1. /\ Succeeded(att)' <=> Succeeded(att)
            /\ att'.comments \union executed' = att.comments \union executed
        BY <2>1, <2>4 DEF Succeeded
      <3> QED
        BY <2>1, <2>2, <3>1, OptionFixed DEF EvalsWanted
    <2> QED
      BY <2>3, <2>4
  <1>6. CASE FinishDispatch \/ Respond
    <2>1. /\ att.pc = "eval" /\ att'.pc = "none" /\ att.comments = {}
          /\ UNCHANGED <<att.by, att.expected, att.log, att.current, att.ok, att.post>>
          /\ UNCHANGED <<att.comments, executed>>
      BY <1>6, EndEffect DEF Owner, Job, Outcome
    <2>2. (Succeeded(att)' <=> Succeeded(att)) /\ Wanted' = Wanted
      BY <2>1 DEF Succeeded, Wanted
    <2> QED
      BY <2>1, <2>2, OptionFixed DEF EvalsWanted
  <1> QED
    BY <1>1, <1>2, <1>3, <1>4, <1>5, <1>6, BeforeTheEnd

\* The invariants behind EvalsAreValidated, as one.
EvalsInv == /\ AttemptType /\ HookInv /\ Holder /\ Work /\ Captured /\ TargetsRight /\ NoEntry
            /\ FreshRight /\ CommentsRight /\ EvalsWanted

\* Startup establishes them.
LEMMA EvalsInvInit == Init => EvalsInv
  <1> SUFFICES ASSUME Init PROVE EvalsInv
    OBVIOUS
  <1>1. AttemptType /\ HookInv
    BY AttemptTypeInit, HookInit
  <1>2. att \in Attempt /\ targets \in SUBSET Source
    BY <1>1 DEF AttemptType
  <1>3. /\ att.pc = "none" /\ att.by = "manager" /\ ~att.current /\ mpc = "wait" /\ epc = "idle"
        /\ barrier = "free" /\ dirty = {} /\ targets = CmdTargets \intersect Present
        /\ used = [p \in Path |-> {disk[p]}] /\ disk \in [Path -> FileState]
        /\ evals = [p \in Source |-> IF p \in targets THEN Comment(disk[p]) ELSE Missing]
        /\ \A p \in Source : disk[p] # Missing => p \in CmdTargets
    BY AttemptFields DEF Init, NewAttempt
  <1>4. Holder /\ Work /\ Captured
    BY <1>3 DEF Holder, Work, Reading, Captured
  <1>5. ASSUME NEW p \in Source
        PROVE  (p \in targets <=> disk[p] # Missing) /\ evals[p] = Comment(disk[p])
    <2>1. p \in Present <=> disk[p] # Missing
      BY DEF Present, Path
    <2>2. targets = CmdTargets \intersect Present /\ (disk[p] # Missing => p \in CmdTargets)
      BY <1>3
    <2>3. evals[p] = IF p \in targets THEN Comment(disk[p]) ELSE Missing
      BY <1>3
    <2> QED
      BY <2>1, <2>2, <2>3, NoComment
  <1>6. NoEntry /\ FreshRight /\ EvalsWanted /\ TargetsRight
    BY <1>3, <1>5 DEF NoEntry, FreshRight, EvalsWanted, Succeeded, TargetsRight
  <1>7. CommentsRight
    BY <1>5, Zenon DEF CommentsRight
  <1> QED
    BY <1>1, <1>4, <1>6, <1>7 DEF EvalsInv

\* Every step keeps them.
LEMMA EvalsInvNext == EvalsInv /\ [Next]_vars => EvalsInv'
  <1> SUFFICES ASSUME EvalsInv, [Next]_vars PROVE EvalsInv'
    OBVIOUS
  <1> USE DEF EvalsInv
  <1>1. AttemptType' /\ HookInv' /\ Holder' /\ Work' /\ Captured'
    BY AttemptTypeNext, HookNext, HolderNext, WorkNext, CapturedNext
  <1>2. TargetsRight' /\ NoEntry' /\ FreshRight'
    BY TargetsRightNext, NoEntryNext, FreshRightNext
  <1>3. CommentsRight' /\ EvalsWanted'
    BY CommentsRightNext, EvalsWantedNext
  <1> QED
    BY <1>1, <1>2, <1>3

\* A successful attempt of the manager runs exactly the eval comments of the snapshot
\* it validated: eval_commands may have been filled by earlier versions of the files, by
\* attempts that failed, and for eval-socket clients, but by the time the snapshot is
\* found current it says what the snapshot says, and it is cloned before the evals that
\* change it again (finish_compilation, refresh_eval_commands, Ghci::eval).
THEOREM EvalsCorrect == Spec => []EvalsAreValidated
  <1>1. EvalsInv => EvalsAreValidated
    BY DEF EvalsInv, EvalsWanted, EvalsAreValidated, Wanted
  <1> QED
    BY <1>1, EvalsInvInit, EvalsInvNext, PTL DEF Spec

-----------------------------------------------------------------------------
(***************************************************************************)
(* The error file.  When no change is waiting, the log of an attempt holds *)
(* errors of bad sources only, and once a command has compiled the targets *)
(* it tells whether they compile (Tells), until it is written.             *)
(***************************************************************************)
Quiet == dirty = {} /\ mpc # "queued" /\ ~Abandoned

BadSources == {p \in Source : disk[p] \in Bad}

Sound(log) ==
    /\ log.diagnostics \subseteq BadSources
    /\ log.stdout \union log.stderr = log.diagnostics

Tells(log, ts) ==
    IF log.summary = "none" THEN log.diagnostics = {}
    ELSE /\ log.summary = "ok" <=> Broken(ts) = {}
         /\ Broken(ts) # {} => log.diagnostics # {}
         /\ ~interrupts => Broken(ts) \subseteq log.diagnostics

\* An attempt that has compiled nothing yet has something to compile ahead, or
\* nothing to tell about.
CompilesLater ==
    /\ att.pc = "named" /\ att.acts # NoActions => att.add # {} \/ att.acts.reload # {}
    /\ att.pc = "commit" => att.acts.reload # {}
    /\ att.pc \in {"sync", "named", "read", "initialized"} /\ att.acts = NoActions =>
          targets = {}
    /\ att.pc = "read" => att.next = "sync"
    /\ att.pc = "publish" => ~att.post

LogTrue ==
    Quiet /\ att.pc \notin {"after", "eval", "none"} =>
        /\ Sound(att.log)
        /\ att.pc \in {"classify", "restart", "launch", "remove"} => att.log = EmptyLog
        /\ att.pc # "path" => Tells(att.log, targets)
        /\ att.pc = "remove" => att.acts # NoActions
              /\ (att.acts.remove # {} \/ att.add # {} \/ att.acts.reload # {})
        /\ att.log.summary = "none" => CompilesLater

Truthful(f) ==
    /\ f.headline <=> BadSources = {}
    /\ f.errors \subseteq BadSources
    /\ BadSources # {} => f.errors # {}
    /\ interrupts \/ f.errors = BadSources

FileTrue == Quiet /\ att.pc \in {"after", "eval", "none"} /\ att.post => Truthful(file)

\* Only a new change disturbs the quiet.
LEMMA QuietNext ==
    ASSUME AttemptType, HookInv, Holder, Work, [Next]_vars, Quiet'
    PROVE  /\ UNCHANGED <<disk, interrupts>> /\ (Quiet \/ handle_event)
           /\ \A p \in Source : ~Noticed(p)'
  <1> USE DEF Quiet, envVars, actorVars
  <1>1. ASSUME NEW q \in Path, NEW s \in FileState, Edit(q, s) PROVE FALSE
    BY <1>1 DEF Edit
  <1>2. Request \/ wait_for_event \/ handle_event \/ reload_from_eval \/ UNCHANGED vars =>
           UNCHANGED disk /\ (handle_event \/ (dirty = {} /\ mpc # "queued"))
    BY DEF Request, wait_for_event, handle_event, reload_from_eval, vars
  <1>3. FinishDispatch \/ Respond => UNCHANGED disk /\ dirty = {} /\ mpc # "queued"
    <2>1. FinishDispatch \/ Respond =>
             /\ UNCHANGED <<disk, dirty>> /\ att.pc = "eval"
             /\ att.by = "manager" \/ UNCHANGED mpc
      BY EndEffect
    <2>2. att.pc = "eval" /\ att.by = "manager" => mpc = "dispatch"
      BY DEF Holder, AttemptType
    <2> QED
      BY <2>1, <2>2
  <1>4. AttemptStep => UNCHANGED disk /\ dirty = {} /\ mpc # "queued"
    BY Frame
  <1>5. ~Abandoned
    BY AbandonedNext
  <1>6. \A p \in Source : ~Noticed(p)'
    BY DEF Noticed
  <1> QED
    BY <1>1, <1>2, <1>3, <1>4, <1>5, <1>6, OptionFixed DEF Next, AttemptStep

\* In the quiet, the targets that are not to be dealt with are the files that exist.
LEMMA QuietTargets ==
    ASSUME TargetsRight, Quiet, NEW p \in Source, ~TargetTodo(p)
    PROVE  p \in targets <=> disk[p] # Missing
  BY DEF TargetsRight, Quiet, Noticed

\* Targets that exist and do not compile are bad.
LEMMA BrokenFacts ==
    ASSUME NEW ts \in SUBSET Source, \A p \in ts : disk[p] # Missing
    PROVE  Broken(ts) = ts \intersect BadSources
  BY AttemptConstants, FileStatesDistinct DEF Broken, BadSources

\* A command that compiles files that exist leaves a log that tells about them.
LEMMA CompilesTells ==
    ASSUME NEW old, NEW new, NEW ts, Sound(old), Compiles(new, old, ts),
           Broken(ts) \subseteq BadSources
    PROVE  Sound(new) /\ Tells(new, ts) /\ new.summary # "none"
  <1>1. PICK es \in SUBSET Broken(ts) :
           (es = {} <=> Broken(ts) = {}) /\ (~interrupts => es = Broken(ts)) /\ Adds(new, old, es)
    BY DEF Compiles
  <1>2. new.summary = IF Broken(ts) = {} THEN "ok" ELSE "err"
    BY DEF Compiles
  <1>3. new.diagnostics = old.diagnostics \union es
        /\ new.stdout \union new.stderr = old.diagnostics \union es
    BY <1>1 DEF Adds, Sound
  <1> QED
    BY <1>1, <1>2, <1>3 DEF Sound, Tells

\* The error file says what the log of an attempt tells.
LEMMA WriteFacts ==
    ASSUME NEW log \in Log, Sound(log), log.summary # "none", NEW ts, Tells(log, ts),
           Broken(ts) = BadSources
    PROVE  Truthful(write(log))
  <1>1. write(log).headline = (log.summary = "ok") /\ write(log).errors = log.diagnostics
    BY DEF write, Sound, Log
  <1> QED
    BY <1>1 DEF Truthful, Sound, Tells

\* Every step keeps the log of the attempt true.
LEMMA LogTrueNext ==
    ASSUME AttemptType, HookInv, Holder, Work, Captured, TargetsRight, LogTrue, [Next]_vars
    PROVE  LogTrue'
  <1> SUFFICES ASSUME Quiet', att'.pc \notin {"after", "eval", "none"} PROVE LogTrue'
    BY DEF LogTrue
  <1> DEFINE Good ==
        /\ Sound(att'.log)
        /\ att'.pc \in {"classify", "restart", "launch", "remove"} => att'.log = EmptyLog
        /\ att'.pc # "path" => Tells(att'.log, targets')
        /\ att'.pc = "remove" => att'.acts # NoActions
              /\ (att'.acts.remove # {} \/ att'.add # {} \/ att'.acts.reload # {})
        /\ att'.log.summary = "none" => CompilesLater'
  <1>a. UNCHANGED <<disk, interrupts>> /\ (Quiet \/ handle_event)
    BY QuietNext
  <1>b. /\ Sound(att.log)' <=> Sound(att'.log)
        /\ Tells(att.log, targets)' <=> Tells(att'.log, targets')
    BY <1>a DEF Sound, Tells, BadSources, Broken
  <1>c. SUFFICES Good
    BY <1>b DEF LogTrue
  <1>d. /\ Sound(EmptyLog) /\ EmptyLog.summary = "none"
        /\ \A ts \in SUBSET Source : Tells(EmptyLog, ts)
    BY DEF Sound, Tells, EmptyLog
  <1>e. /\ att \in Attempt /\ att.log \in Log
        /\ targets \in SUBSET Source /\ targets' \in SUBSET Source
        /\ NoActions.reload = {} /\ NoActions.add = {} /\ NoActions.remove = {}
    BY AttemptTypeNext, AttemptFields DEF AttemptType, NoActions
  <1>f. ASSUME Quiet, att.pc \notin {"after", "eval", "none"}
        PROVE  /\ Sound(att.log)
               /\ att.pc \in {"classify", "restart", "launch", "remove"} => att.log = EmptyLog
               /\ att.pc # "path" => Tells(att.log, targets)
               /\ att.pc = "remove" => att.acts # NoActions
                     /\ (att.acts.remove # {} \/ att.add # {} \/ att.acts.reload # {})
               /\ att.log.summary = "none" => CompilesLater
    BY <1>f DEF LogTrue
  <1>g. ASSUME Sound(att.log), Compiles(att'.log, att.log, targets'),
               \A p \in targets' : disk[p] # Missing
        PROVE  Sound(att'.log) /\ Tells(att'.log, targets') /\ att'.log.summary # "none"
    <2>1. Broken(targets') \subseteq BadSources
      BY <1>e, <1>g, BrokenFacts
    <2> QED
      BY <1>g, <2>1, CompilesTells
  <1>h. Quiet => \A p \in Source : ~TargetTodo(p) => (p \in targets <=> disk[p] # Missing)
    BY QuietTargets
  <1>i. att.pc # "none" => ~handle_event
    BY DEF Holder, handle_event
  <1>1. CASE handle_event
    <2>1. att'.log = EmptyLog /\ att'.pc = "classify"
      BY <1>1, HandleEventEffect DEF Begins
    <2> QED
      BY <1>d, <1>e, <2>1 DEF CompilesLater
  <1>2. CASE reload_from_eval
    <2>1. att'.log = EmptyLog /\ att'.pc = "reload"
      BY <1>2, ReloadFromEvalEffect DEF Begins
    <2> QED
      BY <1>d, <1>e, <2>1 DEF CompilesLater
  <1>3. CASE reload
    <2>1. /\ att.pc = "classify" /\ UNCHANGED <<targets, att.log>>
          /\ \E a \in Actions :
                \/ att'.pc = "restart"
                \/ att'.pc = "publish" /\ ~att'.post
                \/ needs_modify(a) /\ att'.pc = "remove" /\ att'.acts = a /\ att'.add = a.add
      BY <1>3, ReloadEffect
    <2>2. PICK a \in Actions :
             \/ att'.pc = "restart"
             \/ att'.pc = "publish" /\ ~att'.post
             \/ needs_modify(a) /\ att'.pc = "remove" /\ att'.acts = a /\ att'.add = a.add
      BY <2>1
    <2>3. needs_modify(a) => a # NoActions /\ (a.remove # {} \/ a.add # {} \/ a.reload # {})
      BY <1>e DEF needs_modify
    <2>4. att'.log = EmptyLog
      BY <1>a, <1>f, <1>i, <2>1
    <2> QED
      BY <1>d, <1>e, <2>2, <2>3, <2>4 DEF CompilesLater
  <1>4. CASE remove_modules
    <2>1. /\ att.pc = "remove" /\ att'.pc = "named" /\ UNCHANGED <<att.acts, att.add>>
          /\ \/ att.acts.remove = {} /\ UNCHANGED <<att.log, targets>>
             \/ /\ targets' = targets \ att.acts.remove
                /\ Compiles(att'.log, att.log, targets')
      BY <1>4, RemoveEffect DEF Job
    <2>2. Quiet
      BY <1>a, <1>i, <2>1
    <2>3. CASE att.acts.remove = {} /\ UNCHANGED <<att.log, targets>>
      BY <1>f, <2>1, <2>2, <2>3 DEF CompilesLater
    <2>4. CASE targets' = targets \ att.acts.remove /\ Compiles(att'.log, att.log, targets')
      <3>1. ASSUME NEW p \in targets' PROVE disk[p] # Missing
        <4>1. ~TargetTodo(p) /\ p \in Source /\ p \in targets
          BY <1>e, <2>1, <2>4 DEF TargetTodo, Reading
        <4> QED
          BY <1>h, <2>2, <4>1
      <3> QED
        BY <1>f, <1>g, <2>1, <2>2, <2>4, <3>1
    <2> QED
      BY <2>1, <2>3, <2>4
  <1>5. ASSUME NEW names \in SUBSET Source, add_named_modules(names) PROVE Good
    <2>1. /\ att.pc = "named" /\ names \subseteq Present
          /\ \/ /\ att.add = {} /\ att'.pc \in {"initialized", "commit"}
                /\ att'.pc = "initialized" <=> att.acts = NoActions
                /\ UNCHANGED <<att.acts, att.log, targets>>
             \/ att'.pc = "path" /\ UNCHANGED att.log
             \/ /\ targets' = targets \union names /\ att'.pc = "read"
                /\ Compiles(att'.log, att.log, targets')
      BY <1>5, NamedEffect DEF Job, Accepted
    <2>2. Quiet
      BY <1>a, <1>i, <2>1
    <2>3. CASE /\ att.add = {} /\ att'.pc \in {"initialized", "commit"}
               /\ att'.pc = "initialized" <=> att.acts = NoActions
               /\ UNCHANGED <<att.acts, att.log, targets>>
      BY <1>f, <2>1, <2>2, <2>3 DEF CompilesLater
    <2>4. CASE att'.pc = "path" /\ UNCHANGED att.log
      BY <1>f, <2>1, <2>2, <2>4 DEF CompilesLater
    <2>5. CASE /\ targets' = targets \union names /\ att'.pc = "read"
               /\ Compiles(att'.log, att.log, targets')
      <3>1. ASSUME NEW p \in targets' PROVE disk[p] # Missing
        <4>1. p \in targets => ~TargetTodo(p) /\ p \in Source
          BY <1>e, <2>1 DEF TargetTodo, Reading
        <4>2. p \in targets \/ p \in Present
          BY <2>1, <2>5
        <4> QED
          BY <1>h, <2>2, <4>1, <4>2 DEF Present
      <3> QED
        BY <1>f, <1>g, <2>1, <2>2, <2>5, <3>1
    <2> QED
      BY <2>1, <2>3, <2>4, <2>5
  <1>6. CASE add_modules
    <2>1. /\ att.pc = "path" /\ att'.pc = "read"
          /\ targets' = targets \union ((att.add \ targets) \intersect Present)
          /\ att.add \subseteq targets' => Compiles(att'.log, att.log, targets')
      BY <1>6, PathEffect DEF Accepted
    <2>2. Quiet /\ mpc = "dispatch" /\ att.add \subseteq haskell_files(att.expected)
      BY <1>a, <1>i, <2>1 DEF Work
    <2>3. ASSUME NEW p \in att.add PROVE p \in targets'
      <3>1. p \in Source /\ p \in Path /\ p \in haskell_files(att.expected)
        BY <1>e, <2>2, AttemptFields DEF Path
      <3>2. ~Noticed(p)
        BY <2>2 DEF Quiet, Noticed
      <3>3. disk[p] # Missing
        BY <2>2, <3>1, <3>2, FilesFacts
      <3> QED
        BY <2>1, <3>1, <3>3 DEF Present
    <2>4. ASSUME NEW p \in targets' PROVE disk[p] # Missing
      <3>1. p \in targets => ~TargetTodo(p) /\ p \in Source
        BY <1>e, <2>1 DEF TargetTodo, Reading
      <3>2. p \in targets \/ p \in Present
        BY <2>1
      <3> QED
        BY <1>h, <2>2, <3>1, <3>2 DEF Present
    <2> QED
      BY <1>f, <1>g, <2>1, <2>2, <2>3, <2>4
  <1>7. CASE Commit
    <2>1. /\ att.pc = "commit" /\ att'.pc \in {"publish", "reload"}
          /\ UNCHANGED <<att.log, targets>>
          /\ att'.pc = "publish" <=> att.acts.reload = {}
      BY <1>7, CommitEffect
    <2> QED
      BY <1>a, <1>f, <1>i, <2>1 DEF CompilesLater
  <1>8. CASE reload_targets
    <2>1. /\ att.pc = "reload" /\ att'.pc \in {"publish", "read"} /\ UNCHANGED targets
          /\ Compiles(att'.log, att.log, targets')
      BY <1>8, ReloadTargetsEffect DEF ghciVars
    <2>2. Quiet
      BY <1>a, <1>i, <2>1
    <2>3. ASSUME NEW p \in targets' PROVE disk[p] # Missing
      <3>1. ~TargetTodo(p) /\ p \in Source /\ p \in targets
        BY <1>e, <2>1 DEF TargetTodo, Reading
      <3> QED
        BY <1>h, <2>2, <3>1
    <2> QED
      BY <1>f, <1>g, <2>1, <2>2, <2>3
  <1>9. CASE restart
    <2>1. att.pc = "restart" /\ att'.pc = "launch" /\ UNCHANGED <<att.log, targets>>
      BY <1>9, RestartEffect DEF ghciVars
    <2> QED
      BY <1>a, <1>d, <1>e, <1>f, <1>i, <2>1 DEF CompilesLater
  <1>10. CASE initialize_inner
    <2>1. /\ att.pc = "launch" /\ att'.pc = "read" /\ att'.next = "sync"
          /\ targets' = CmdTargets \intersect Present
          /\ \/ targets' = {} /\ UNCHANGED att.log
             \/ Compiles(att'.log, att.log, targets')
      BY <1>10, InitializeEffect
    <2>2. Quiet
      BY <1>a, <1>i, <2>1
    <2>3. CASE targets' = {} /\ UNCHANGED att.log
      BY <1>d, <1>e, <1>f, <2>1, <2>2, <2>3 DEF CompilesLater
    <2>4. CASE Compiles(att'.log, att.log, targets')
      <3>1. \A p \in targets' : disk[p] # Missing
        BY <2>1 DEF Present
      <3> QED
        BY <1>f, <1>g, <2>1, <2>2, <2>4, <3>1
    <2> QED
      BY <2>1, <2>3, <2>4
  <1>11. CASE synchronize_haskell_files
    <2>1. /\ att.pc = "sync" /\ att'.pc = "named" /\ UNCHANGED <<att.acts, att.log, targets>>
      BY <1>11, SynchronizeEffect DEF ghciVars
    <2>2. att.acts = NoActions
      BY <2>1 DEF Work
    <2> QED
      BY <1>a, <1>f, <1>i, <2>1, <2>2 DEF CompilesLater
  <1>12. CASE Initialized
    <2>1. /\ att.pc = "initialized" /\ att'.pc = "publish" /\ UNCHANGED targets
          /\ att'.log = fill_empty_summary(att.log)
      BY <1>12, InitializedEffect
    <2>2. Quiet /\ att.acts = NoActions
      BY <1>a, <1>i, <2>1 DEF Work
    <2>3. /\ att'.log.diagnostics = att.log.diagnostics /\ att'.log.stdout = att.log.stdout
          /\ att'.log.stderr = att.log.stderr
          /\ att.log.summary # "none" => att'.log.summary = att.log.summary
          /\ att.log.summary = "none" /\ att.log.diagnostics = {} => att'.log.summary = "ok"
      BY <1>e, <2>1 DEF fill_empty_summary, Log
    <2>4. att.log.summary = "none" => targets = {} /\ att.log.diagnostics = {}
      BY <1>f, <2>1, <2>2 DEF CompilesLater, Tells
    <2>5. Sound(att.log) /\ Tells(att.log, targets)
      BY <1>f, <2>1, <2>2
    <2>6. targets = {} => Broken(targets) = {}
      BY DEF Broken
    <2>7. Sound(att'.log)
      BY <2>3, <2>5 DEF Sound
    <2>8. Tells(att'.log, targets) /\ att'.log.summary # "none"
      BY <2>3, <2>4, <2>5, <2>6 DEF Tells
    <2> QED
      BY <2>1, <2>7, <2>8
  <1>13. ASSUME NEW q \in Source, refresh_eval_commands(q) PROVE Good
    <2>1. /\ att.pc = "read" /\ q \in att.unread /\ AttemptStep
          /\ UNCHANGED <<targets, att.acts, att.next>>
          /\ \/ att'.pc = "read" /\ UNCHANGED att.log
             \/ disk[q] = Missing /\ ~att'.ok
      BY <1>13, RefreshEffect DEF AttemptStep, Job
    <2>2. Quiet /\ mpc' = mpc
      BY <1>a, <1>i, <2>1, Frame DEF actorVars
    <2>3. CASE att'.pc = "read" /\ UNCHANGED att.log
      BY <1>f, <2>1, <2>2, <2>3 DEF CompilesLater
    <2>4. CASE disk[q] = Missing /\ ~att'.ok
      <3>1. mpc # "dispatch"
        BY <2>2, <2>4 DEF Quiet, Abandoned
      <3>2. att.next = "publish"
        BY <2>1, <3>1 DEF Holder, AttemptType
      <3>3. q \in targets /\ ~TargetTodo(q)
        BY <2>1, <3>2 DEF Work, TargetTodo, Reading
      <3> QED
        BY <1>h, <2>2, <2>4, <3>3
    <2> QED
      BY <2>1, <2>3, <2>4
  <1>14. CASE RefreshDone
    <2>1. /\ att.pc = "read" /\ UNCHANGED <<targets, att.acts, att.log>> /\ att'.pc = att.next
          /\ att.next \in {"sync", "initialized", "commit", "publish"}
      BY <1>14, RefreshDoneEffect DEF Job
    <2> QED
      BY <1>a, <1>f, <1>i, <2>1 DEF CompilesLater
  <1>15. CASE write_error_log \/ RunAfterHooks \/ FinishDispatch \/ Respond
    BY <1>15, WriteEffect, AfterHooksEffect, EndEffect
  <1>16. ASSUME NEW q \in Source, eval(q) PROVE FALSE
    BY <1>16, EvalEffect
  <1>17. CASE UNCHANGED <<att, targets>> /\ ~handle_event
    BY <1>a, <1>f, <1>17 DEF CompilesLater
  <1>18. ASSUME Request \/ wait_for_event \/ UNCHANGED vars
                \/ \E q \in Path, s \in FileState : Edit(q, s)
         PROVE  UNCHANGED <<att, targets>> /\ ~handle_event
    BY <1>18 DEF Request, wait_for_event, Edit, vars, actorVars, ghciVars, handle_event
  <1> QED
    BY <1>1, <1>2, <1>3, <1>4, <1>5, <1>6, <1>7, <1>8, <1>9, <1>10, <1>11, <1>12, <1>13, <1>14,
       <1>15, <1>16, <1>17, <1>18 DEF Next

\* Every step keeps the error file true.
LEMMA FileTrueNext ==
    ASSUME AttemptType, HookInv, Holder, Work, Captured, TargetsRight, LogTrue, FileTrue,
           [Next]_vars
    PROVE  FileTrue'
  <1> SUFFICES ASSUME Quiet', att'.pc \in {"after", "eval", "none"}, att'.post PROVE FileTrue'
    BY DEF FileTrue
  <1>a. UNCHANGED <<disk, interrupts>> /\ (Quiet \/ handle_event)
    BY QuietNext
  <1>b. Truthful(file)' <=> Truthful(file')
    BY <1>a DEF Truthful, BadSources
  <1>c. SUFFICES Truthful(file')
    BY <1>b DEF FileTrue
  <1>d. ~handle_event
    BY HandleEventEffect DEF Begins
  <1>1. CASE UNCHANGED <<att, evals, executed, file>>
    BY <1>1, <1>a, <1>d DEF FileTrue
  <1>2. CASE write_error_log
    <2>1. /\ att.pc = "publish" /\ UNCHANGED att.post
          /\ file' = IF Current THEN write(att.log) ELSE file
      BY <1>2, WriteEffect DEF Job
    <2>2. Quiet /\ dirty = {}
      BY <1>a, <1>d DEF Quiet
    <2>3. Current
      <3>1. CASE att.by = "eval"
        <4>1. barrier = "eval"
          BY <2>1, <3>1 DEF Holder, AttemptType
        <4> QED
          BY <4>1 DEF Holder, Current
      <3>2. CASE att.by # "eval"
        <4>1. mpc = "dispatch" /\ att.expected = event.snapshot
          BY <2>1, <3>2 DEF Holder, AttemptType
        <4> QED
          BY <2>2, <4>1 DEF Captured, Current
      <3> QED
        BY <3>1, <3>2
    <2>4. att.log \in Log /\ targets \in SUBSET Source
      BY AttemptFields DEF AttemptType
    <2>5. Sound(att.log) /\ Tells(att.log, targets) /\ att.log.summary # "none"
      BY <2>1, <2>2 DEF LogTrue, CompilesLater
    <2>6. \A p \in Source : p \in targets <=> disk[p] # Missing
      BY <2>1, <2>2, QuietTargets DEF TargetTodo, Reading
    <2>7. Broken(targets) = targets \intersect BadSources /\ BadSources \subseteq targets
      BY <2>4, <2>6, BrokenFacts, AttemptConstants, FileStatesDistinct DEF BadSources
    <2> QED
      BY <2>1, <2>3, <2>4, <2>5, <2>7, WriteFacts
  <1>3. ASSUME RunAfterHooks \/ FinishDispatch \/ Respond \/ \E p \in Source : eval(p)
        PROVE  Truthful(file')
    <2>1. att.pc \in {"after", "eval"} /\ UNCHANGED <<file, att.post>>
      BY <1>3, AfterHooksEffect, EndEffect, EvalEffect DEF Job
    <2> QED
      BY <1>a, <1>d, <2>1 DEF FileTrue
  <1> QED
    BY <1>1, <1>2, <1>3, BeforeTheEnd

\* The invariants behind ErrorFileIsTrue, as one.
FileInv == EvalsInv /\ LogTrue /\ FileTrue

\* Startup writes an error file that tells the truth.
LEMMA FileInvInit == Init => FileInv
  <1> SUFFICES ASSUME Init PROVE FileInv
    OBVIOUS
  <1>1. EvalsInv /\ AttemptType
    BY EvalsInvInit DEF EvalsInv
  <1>2. att.pc = "none" /\ targets \in SUBSET Source /\ Quiet
    BY <1>1, AttemptFields DEF EvalsInv, Init, AttemptType, Holder, Quiet, Abandoned
  <1>3. LogTrue
    BY <1>2 DEF LogTrue
  <1> DEFINE log == IF targets = {} THEN EmptyLog ELSE Compiled(EmptyLog, Stopless(targets))
             new == fill_empty_summary(log)
  <1>4. file = write(new)
    BY DEF Init
  <1>5. ASSUME NEW p \in Source PROVE p \in targets <=> disk[p] # Missing
    <2>1. ~TargetTodo(p)
      BY <1>2 DEF TargetTodo, Reading
    <2>2. TargetsRight
      BY <1>1 DEF EvalsInv
    <2> QED
      BY <1>2, <2>1, <2>2, QuietTargets
  <1>6. Broken(targets) = targets \intersect BadSources /\ BadSources \subseteq targets
    BY <1>2, <1>5, BrokenFacts, AttemptConstants, FileStatesDistinct DEF BadSources
  <1>7. /\ log \in Log /\ Sound(log) /\ Tells(log, targets)
        /\ log.summary = "none" => targets = {}
    <2>1. EmptyLog \in Log /\ Sound(EmptyLog) /\ Tells(EmptyLog, targets)
      BY LogOperators DEF EmptyLog, Log, Sound, Tells
    <2>2. CASE targets = {}
      BY <2>1, <2>2
    <2>3. CASE targets # {}
      <3>1. log = Compiled(EmptyLog, Stopless(targets))
        BY <2>3
      <3>2. Stopless(targets) \in Outcomes(targets)
        BY <1>2, StoplessFacts
      <3> HIDE DEF log
      <3>3. Compiles(log, EmptyLog, targets)
        BY <1>1, <1>2, <2>1, <3>1, <3>2, CompilesFacts
      <3>4. Sound(log) /\ Tells(log, targets) /\ log.summary # "none"
        BY <1>6, <2>1, <3>3, CompilesTells
      <3> QED
        BY <3>3, <3>4 DEF Compiles
    <2> QED
      BY <2>2, <2>3
  <1> HIDE DEF log
  <1>8. /\ new \in Log /\ new.diagnostics = log.diagnostics /\ new.stdout = log.stdout
        /\ new.stderr = log.stderr
        /\ log.summary # "none" => new.summary = log.summary
        /\ log.summary = "none" /\ log.diagnostics = {} => new.summary = "ok"
    BY <1>7, LogOperators DEF fill_empty_summary, Log
  <1> HIDE DEF new
  <1>9. Sound(new) /\ Tells(new, targets) /\ new.summary # "none"
    <2>1. log.summary = "none" => Broken(targets) = {} /\ log.diagnostics = {}
      BY <1>6, <1>7 DEF Tells
    <2> QED
      BY <1>7, <1>8, <2>1 DEF Sound, Tells
  <1>10. Truthful(file)
    BY <1>4, <1>6, <1>8, <1>9, WriteFacts
  <1> QED
    BY <1>1, <1>3, <1>10 DEF FileInv, FileTrue

\* Every step keeps all of it.
LEMMA FileInvNext == FileInv /\ [Next]_vars => FileInv'
  BY EvalsInvNext, LogTrueNext, FileTrueNext DEF FileInv, EvalsInv

\* At rest the error file tells the truth about the files on disk: the log of an attempt
\* is written only if its snapshot is current, every path through Ghci::reload compiles
\* the targets as they are then, :unadd, :add and :reload included, and the errors of a
\* speculative :add that was not the whole addition do not count (add_modules, ErrorLog).
THEOREM ErrorFileCorrect == Spec => []ErrorFileIsTrue
  <1>1. FileInv => ErrorFileIsTrue
    <2> SUFFICES ASSUME FileInv, Rest, att.post PROVE Truthful(file)
      BY DEF ErrorFileIsTrue, Truthful, BadSources
    <2>1. AttemptType /\ Holder
      BY DEF FileInv, EvalsInv
    <2>2. att.pc = "none"
      BY <2>1 DEF Rest, Holder, AttemptType
    <2> QED
      BY <2>2 DEF FileInv, FileTrue, Quiet, Rest, Abandoned
  <1> QED
    BY <1>1, FileInvInit, FileInvNext, PTL DEF Spec
=============================================================================
