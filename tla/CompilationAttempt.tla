------------------------- MODULE CompilationAttempt -------------------------
(***************************************************************************)
(* One compilation attempt from its before-hooks to its eval comments, as  *)
(* the GHCi manager (Ghci::reload, Ghci::restart) and the eval socket      *)
(* (Ghci::reload_from_eval) run it behind the operation barrier: lifecycle *)
(* hooks, the CompilationLog that the commands of the attempt fill, the    *)
(* error file written from it, and the eval comments read from the files.  *)
(*                                                                         *)
(* ReloadPipeline has the watcher, the interruption of reloads and the     *)
(* file-by-file reads of a compilation; here an event is captured, and a   *)
(* target set compiled, in one step, and reloads are not interrupted.  No  *)
(* state of a file comes back, so no event is discarded as applied.  A     *)
(* session that dies is the matter of SessionRecovery.                     *)
(***************************************************************************)
EXTENDS ReloadActions, Sequences, SequencesExt, Naturals

CONSTANTS
    Bad,          \* contents that do not compile
    Mute,         \* contents without eval comments
    CmdTargets,   \* sources the configured command loads by itself
    Forwarded,    \* sources whose diagnostics are forwarded on stdout
    MaxEdits,     \* bound: number of edits
    MaxRequests   \* bound: number of reloads asked for on the eval socket

\* The other policies for edits and additions are in ReloadPipeline.
ASSUME AttemptConstants ==
    /\ Bad \subseteq Contents /\ Mute \subseteq Contents
    /\ {CmdTargets, Forwarded} \subseteq SUBSET Source
    /\ MaxEdits \in Nat /\ MaxRequests \in Nat
    /\ AutoReload /\ ~ReplaceAutoAdd

VARIABLES
    disk,        \* [Path -> FileState]: the file system
    used,        \* [Path -> SUBSET FileState]: every state a file ever had
    edits,       \* number of edits so far
    dirty,       \* paths whose change the manager has not received
    requests,    \* number of reload requests so far
    barrier,     \* holder of the operation barrier, or "free"
    mpc, epc,    \* where the manager and the eval-socket handler are
    event,       \* the manager's event
    open,        \* lifecycle events whose before-hooks ran and after-hooks did not
    att,         \* the attempt in progress, or the last one
    known,       \* known_haskell_files
    targets,     \* the target set, GHCi's and Ghci.targets
    evals,       \* eval_commands: the comment to run for a source, Missing if none
    executed,    \* comments this attempt has run: pairs of source and comment
    file,        \* the error file
    interrupts   \* --interrupt-on-error

envVars == <<disk, used, edits, dirty, requests, interrupts>>
actorVars == <<barrier, mpc, epc, event>>
ghciVars == <<known, targets, evals>>
vars == <<envVars, actorVars, open, att, ghciVars, executed, file>>

Present == {p \in Path : disk[p] # Missing}

\* parse_eval_commands: the contents stand for the comments found in them.
Comment(state) == IF state \in Mute THEN Missing ELSE state

-----------------------------------------------------------------------------
(***************************************************************************)
(* CompilationLog and the error file.  An error is the source it is about, *)
(* or Lookup(p): GHCi does not know p by the name or path it was given.    *)
(***************************************************************************)
EmptyLog == [summary |-> "none", diagnostics |-> {}, stdout |-> {}, stderr |-> {}]

Lookup(p) == <<"lookup", p>>

\* extend, extend_stdout and append_stderr: what one command wrote to the pipes.
extend(log, errors, summary) ==
    [summary     |-> summary,
     diagnostics |-> log.diagnostics \union errors,
     stdout      |-> log.stdout \union (errors \intersect Forwarded),
     stderr      |-> log.stderr \union (errors \ Forwarded)]

mark_failed(log) == [log EXCEPT !.summary = "err"]

\* mark_failed_with_diagnostic: the message stands in where no error was parsed.
mark_failed_with_diagnostic(log) ==
    [mark_failed(log) EXCEPT !.diagnostics = IF @ = {} THEN {<<"failed", "startup">>} ELSE @]

fill_empty_summary(log) ==
    [log EXCEPT !.summary = CASE log.summary # "none" -> log.summary
                              [] log.summary = "none" /\ log.diagnostics # {} -> "err"
                              [] OTHER -> "ok"]

\* The named :add was the whole addition: its output joins the attempt's.
append_log(log, named) ==
    [summary     |-> IF named.summary # "none" THEN named.summary ELSE log.summary,
     diagnostics |-> log.diagnostics \union named.diagnostics,
     stdout      |-> log.stdout \union named.stdout,
     stderr      |-> log.stderr \union named.stderr]

\* ErrorLog::write: raw stderr covers the diagnostics parsed from it, not the
\* ones parsed from stdout.
write(log) ==
    [headline |-> log.summary = "ok",
     errors   |-> IF log.stderr = {} THEN log.diagnostics ELSE log.stdout \union log.stderr]

\* Sources of the target set that do not compile as they are on disk.
Broken(targetSet) == {p \in targetSet : disk[p] \in Bad \union {Missing}}

\* A compiling command ends at its prompt with all errors, or is interrupted
\* after an error line on stderr and whatever else came out (external: GHCi).
Stopless(targetSet) == [errors |-> Broken(targetSet), stopped |-> FALSE]
Outcomes(targetSet) ==
    {Stopless(targetSet)} \union
    {[errors |-> es, stopped |-> TRUE] :
        es \in {s \in SUBSET Broken(targetSet) : interrupts /\ s \ Forwarded # {}}}

\* The log after a compiling command; an interrupted one is marked failed.
Compiled(log, o) == extend(log, o.errors, IF o.errors = {} THEN "ok" ELSE "err")

-----------------------------------------------------------------------------
(***************************************************************************)
(* Lifecycle hooks.  A hook command that fails is logged and skipped over, *)
(* and what GHCi prints for a hook goes to a log of its own, so all that   *)
(* is left to see is which events are announced, and in which order.       *)
(***************************************************************************)
Nesting == <<"reload", "restart", "startup">>

\* run_shell_hooks for the before-hooks of an event.
Before(stack, e) == Append(stack, e)

\* run_shell_hooks or run_hooks for the after-hooks of an event.
After(stack, e) ==
    IF stack # <<>> /\ Last(stack) = e THEN Front(stack) ELSE Append(stack, "broken")

-----------------------------------------------------------------------------
NewAttempt(by, expected) ==
    [by |-> by, pc |-> "classify", acts |-> NoActions, log |-> EmptyLog,
     expected |-> expected, synced |-> {}, add |-> {}, after |-> <<"reload">>,
     unread |-> {}, all |-> FALSE, fresh |-> [p \in Source |-> Missing], next |-> "none",
     ok |-> TRUE, post |-> TRUE, current |-> FALSE, comments |-> {}]

Init ==
    /\ disk \in [Path -> FileState]
    /\ \A p \in Source : disk[p] # Missing => p \in CmdTargets
    /\ \A p \in RestartGlob : disk[p] \in Contents \ (Bad \union Mute)
    /\ used = [p \in Path |-> {disk[p]}]
    /\ edits = 0 /\ dirty = {} /\ requests = 0 /\ interrupts \in BOOLEAN
    /\ barrier = "free" /\ mpc = "wait" /\ epc = "idle" /\ event = NoEvent
    /\ open = <<>> /\ att = [NewAttempt("manager", NoSnapshot) EXCEPT !.pc = "none"]
    /\ known = {} /\ targets = CmdTargets \intersect Present
    /\ evals = [p \in Source |-> IF p \in targets THEN Comment(disk[p]) ELSE Missing]
    /\ executed = {}
    /\ file = write(fill_empty_summary(
                  IF targets = {} THEN EmptyLog
                  ELSE Compiled(EmptyLog, Stopless(targets))))

\* The user writes, creates or deletes a file; no earlier state comes back.
Edit(p, s) ==
    /\ edits < MaxEdits /\ s \notin used[p]
    /\ disk' = [disk EXCEPT ![p] = s]
    /\ used' = [used EXCEPT ![p] = @ \union {s}]
    /\ edits' = edits + 1 /\ dirty' = dirty \union {p}
    /\ UNCHANGED <<requests, interrupts, actorVars, open, att, ghciVars, executed, file>>

\* A client asks for `:reload' on the eval socket.
Request ==
    /\ epc = "idle" /\ requests < MaxRequests
    /\ epc' = "queued" /\ requests' = requests + 1
    /\ UNCHANGED <<disk, used, edits, dirty, interrupts, barrier, mpc, event,
                   open, att, ghciVars, executed, file>>

\* wait_for_event: the manager receives what has changed.
wait_for_event ==
    LET e == [events   |-> [p \in Path |-> IF p \in dirty THEN EventKind(disk[p]) ELSE "none"],
              states   |-> [p \in Path |-> IF p \in dirty THEN disk[p] ELSE Unknown],
              snapshot |-> [p \in Haskell |-> disk[p]]]
    IN
    /\ mpc = "wait" /\ dirty # {}
    /\ dirty' = {} /\ mpc' = "queued" /\ event' = e
    /\ UNCHANGED <<disk, used, edits, requests, interrupts, barrier, epc, open, att,
                   ghciVars, executed, file>>

-----------------------------------------------------------------------------
\* Fault: the before-reload hooks run before the barrier is acquired.
HandleEventFault ==
    \/ /\ mpc = "queued"
       /\ mpc' = "hooked" /\ open' = Before(open, "reload")
       /\ UNCHANGED <<envVars, barrier, epc, event, att, ghciVars, executed, file>>
    \/ /\ mpc = "hooked" /\ barrier = "free"
       /\ barrier' = "manager" /\ mpc' = "dispatch"
       /\ att' = NewAttempt("manager", event.snapshot) /\ executed' = {}
       /\ UNCHANGED <<envVars, epc, event, open, ghciVars, file>>

\* handle_event: wait for the barrier, run the before-reload shell hooks, spawn
\* the dispatch task.
handle_event ==
    /\ mpc = "queued" /\ barrier = "free"
    /\ barrier' = "manager" /\ mpc' = "dispatch"
    /\ open' = Before(open, "reload")
    /\ att' = NewAttempt("manager", event.snapshot) /\ executed' = {}
    /\ UNCHANGED <<envVars, epc, event, ghciVars, file>>

\* reload_from_eval, behind the same barrier: the before-reload hooks, then
\* `:reload'.  No snapshot is there to be validated.
reload_from_eval ==
    /\ epc = "queued" /\ barrier = "free"
    /\ barrier' = "eval" /\ epc' = "run"
    /\ open' = Before(open, "reload")
    /\ att' = [NewAttempt("eval", NoSnapshot) EXCEPT !.pc = "reload"] /\ executed' = {}
    /\ UNCHANGED <<envVars, mpc, event, ghciVars, file>>

\* Ghci::reload: classify the event and choose the branch.  An attempt without
\* work publishes an empty log and runs no post actions.
reload ==
    LET files == haskell_files(event.snapshot)
        a     == get_reload_actions(event.events, files, known, targets, FALSE)
    IN
    /\ att.pc = "classify"
    /\ \/ /\ needs_restart(a)
          /\ att' = [att EXCEPT !.pc = "restart", !.synced = files,
                                !.after = <<"startup", "restart", "reload">>]
          /\ UNCHANGED known
       \/ /\ ~needs_restart(a) /\ ~needs_modify(a)
          /\ att' = [att EXCEPT !.pc = "publish", !.post = FALSE]
          /\ known' = files
       \/ /\ ~needs_restart(a) /\ needs_modify(a)
          /\ att' = [att EXCEPT !.pc = "remove", !.acts = a, !.synced = files, !.add = a.add]
          /\ UNCHANGED known
    /\ UNCHANGED <<envVars, actorVars, open, targets, evals, executed, file>>

-----------------------------------------------------------------------------
\* Read the eval comments of some paths into the map, or those of all targets
\* into a new one, then go on.
Refresh(a, all, paths, next) ==
    [a EXCEPT !.pc = "read", !.all = all, !.unread = paths, !.next = next]

\* remove_modules: `:unadd', its implicit reload, and the bookkeeping.
remove_modules ==
    LET gone == att.acts.remove IN
    /\ att.pc = "remove"
    /\ \/ /\ gone = {}
          /\ att' = [att EXCEPT !.pc = "named"] /\ UNCHANGED <<targets, evals>>
       \/ /\ gone # {}
          /\ \E o \in Outcomes(targets \ gone) :
                att' = [att EXCEPT !.pc = "named", !.log = Compiled(@, o)]
          /\ targets' = targets \ gone
          /\ evals' = [p \in Source |-> IF p \in gone THEN Missing ELSE evals[p]]
    /\ UNCHANGED <<envVars, actorVars, open, known, executed, file>>

\* Where add_modules returns to, and what is known then.
AddDone(a) == IF a.acts = NoActions THEN "initialized" ELSE "commit"

\* add_modules, its end: unresolved paths fail the attempt and stay unknown, the
\* comments of the accepted ones are read.
Accept(a, log, ts) ==
    LET refused == a.add \ ts IN
    Refresh([a EXCEPT !.log = IF refused = {} THEN fill_empty_summary(log)
                              ELSE mark_failed(log),
                      !.synced = @ \ refused],
            FALSE, a.add \intersect ts, AddDone(a))

\* Fault: the lookup errors of the speculative :add stay in the log.
KeepsNamedLogFault(ts) == TRUE

\* The output of the named :add counts only if every name was resolved.
KeepsNamedLog(ts) == att.add \subseteq ts

\* add_modules: the speculative :add by module name. The session's package graph
\* knows some of the names.
add_named_modules(names) ==
    LET ts    == targets \union names
        o     == Stopless(ts)
        named == extend(Compiled(EmptyLog, o), {Lookup(p) : p \in att.add \ ts},
                        Compiled(EmptyLog, o).summary)
        log   == IF KeepsNamedLog(ts) THEN append_log(att.log, named) ELSE att.log
    IN
    /\ att.pc = "named" /\ names \subseteq att.add \intersect Present
    /\ \/ /\ att.add = {}
          /\ att' = [att EXCEPT !.pc = AddDone(att)] /\ UNCHANGED targets
       \/ /\ att.add # {}
          /\ att' = IF att.add \subseteq ts THEN Accept(att, log, ts)
                    ELSE [att EXCEPT !.pc = "path", !.log = log]
          /\ targets' = ts
    /\ UNCHANGED <<envVars, actorVars, open, known, evals, executed, file>>

\* add_modules: what the names did not resolve is added by path.
add_modules ==
    LET rest == att.add \ targets
        ts   == targets \union (rest \intersect Present)
    IN
    /\ att.pc = "path"
    /\ \E o \in Outcomes(ts) :
          att' = Accept(att, extend(Compiled(att.log, o), {Lookup(p) : p \in rest \ ts},
                                    Compiled(att.log, o).summary), ts)
    /\ targets' = ts
    /\ UNCHANGED <<envVars, actorVars, open, known, evals, executed, file>>

\* Ghci::reload: commit the accepted files, then :reload if anything asks for it.
Commit ==
    /\ att.pc = "commit"
    /\ known' = att.synced
    /\ att' = [att EXCEPT !.pc = IF att.acts.reload = {} THEN "publish" ELSE "reload"]
    /\ UNCHANGED <<envVars, actorVars, open, targets, evals, executed, file>>

\* reload_targets, and the comments to re-read unless the command was stopped:
\* the edited files' for a dispatched reload, all targets' for the eval socket's.
reload_targets ==
    /\ att.pc = "reload"
    /\ \E o \in Outcomes(targets) :
          LET a == [att EXCEPT !.log = Compiled(@, o)] IN
          att' = CASE o.stopped -> [a EXCEPT !.pc = "publish"]
                   [] ~o.stopped /\ att.by = "eval" ->
                         Refresh(a, TRUE, targets, "publish")
                   [] OTHER -> Refresh(a, FALSE, att.acts.reload \intersect Source, "publish")
    /\ UNCHANGED <<envVars, actorVars, open, ghciVars, executed, file>>

-----------------------------------------------------------------------------
\* Ghci::restart: the before-restart hooks; the old process is stopped.
restart ==
    /\ att.pc = "restart"
    /\ open' = Before(open, "restart")
    /\ att' = [att EXCEPT !.pc = "launch"]
    /\ UNCHANGED <<envVars, actorVars, ghciVars, executed, file>>

\* Ghci::new and initialize_inner: before-startup hooks, the new session compiles
\* its own targets (external: GHCi), then all their comments are read.
initialize_inner ==
    LET ts == CmdTargets \intersect Present IN
    /\ att.pc = "launch"
    /\ open' = Before(open, "startup")
    /\ att' = Refresh([att EXCEPT !.log = IF ts = {} THEN @ ELSE Compiled(@, Stopless(ts))],
                      TRUE, ts, "sync")
    /\ targets' = ts /\ known' = {} /\ evals' = [p \in Source |-> Missing]
    /\ UNCHANGED <<envVars, actorVars, executed, file>>

\* synchronize_haskell_files: add what the command did not load by itself.
synchronize_haskell_files ==
    /\ att.pc = "sync"
    /\ att' = [att EXCEPT !.pc = "named",
                          !.add = (att.synced \intersect Source) \ targets]
    /\ UNCHANGED <<envVars, actorVars, open, ghciVars, executed, file>>

\* initialize, after a successful synchronization.
Initialized ==
    /\ att.pc = "initialized"
    /\ known' = att.synced
    /\ att' = [att EXCEPT !.pc = "publish", !.log = fill_empty_summary(@)]
    /\ UNCHANGED <<envVars, actorVars, open, targets, evals, executed, file>>

-----------------------------------------------------------------------------
\* Fault: a source that has lost its comments keeps its entry.
UpdateEntryFault(map, p) ==
    [map EXCEPT ![p] = IF disk[p] \in Mute THEN @ ELSE disk[p]]

\* eval_commands.insert, or remove when the file has no comment.
UpdateEntry(map, p) == [map EXCEPT ![p] = Comment(disk[p])]

\* refresh_eval_commands(_for_paths), one file.  One that is gone fails the
\* operation; a failed initialization is given a diagnostic.
refresh_eval_commands(p) ==
    /\ att.pc = "read" /\ p \in att.unread
    /\ \/ /\ disk[p] # Missing
          /\ IF att.all
             THEN /\ att' = [att EXCEPT !.unread = @ \ {p}, !.fresh = UpdateEntry(@, p)]
                  /\ UNCHANGED evals
             ELSE /\ att' = [att EXCEPT !.unread = @ \ {p}]
                  /\ evals' = UpdateEntry(evals, p)
       \/ /\ disk[p] = Missing
          /\ att' = [att EXCEPT !.pc = "publish", !.ok = FALSE,
                                !.log = IF att.after = <<"reload">> THEN @
                                        ELSE mark_failed_with_diagnostic(@)]
          /\ UNCHANGED evals
    /\ UNCHANGED <<envVars, actorVars, open, known, targets, executed, file>>

RefreshDone ==
    /\ att.pc = "read" /\ att.unread = {}
    /\ evals' = IF att.all THEN att.fresh ELSE evals
    /\ att' = [att EXCEPT !.pc = att.next]
    /\ UNCHANGED <<envVars, actorVars, open, known, targets, executed, file>>

-----------------------------------------------------------------------------
(***************************************************************************)
(* Ghci::finish_compilation.                                               *)
(***************************************************************************)
\* compilation_snapshot_is_current: an attempt without a snapshot is current.
Current ==
    att.expected = NoSnapshot
        \/ \A p \in Haskell \ Ignored : att.expected[p] = disk[p]

\* compilation_succeeded.
Succeeded(a) == a.current /\ a.ok /\ a.log.summary # "err"

\* Validate the snapshot and write the error file, unless it is superseded.
write_error_log ==
    /\ att.pc = "publish"
    /\ att' = [att EXCEPT !.pc = "after", !.current = Current]
    /\ file' = IF Current THEN write(att.log) ELSE file
    /\ UNCHANGED <<envVars, actorVars, open, ghciVars, executed>>

\* The after-hooks of each event in turn, however the attempt went; then clone
\* the comments to run, if this was a successful compilation.
RunAfterHooks ==
    /\ att.pc = "after"
    /\ open' = After(open, Head(att.after))
    /\ att' = IF Len(att.after) > 1
              THEN [att EXCEPT !.after = Tail(@)]
              ELSE [att EXCEPT !.pc = "eval",
                       !.comments = {<<p, evals[p]>> : p \in {q \in Source :
                           Succeeded(att) /\ att.post /\ evals[q] # Missing}}]
    /\ UNCHANGED <<envVars, actorVars, ghciVars, executed, file>>

\* Ghci::eval, one source: interpret_module (`:add *', then re-read the comment),
\* bring its scope in, run the comment as it was cloned.
eval(p) ==
    /\ att.pc = "eval"
    /\ \E c \in att.comments :
          /\ c[1] = p
          /\ \/ /\ disk[p] # Missing
                /\ att' = [att EXCEPT !.comments = @ \ {c}]
                /\ executed' = executed \union {c}
                /\ targets' = targets \union {p}
                /\ evals' = UpdateEntry(evals, p)
             \/ /\ disk[p] = Missing
                /\ att' = [att EXCEPT !.comments = {}, !.ok = FALSE]
                /\ UNCHANGED <<executed, targets, evals>>
    /\ UNCHANGED <<envVars, actorVars, open, known, file>>

\* The test hooks change nothing here; the attempt returns to handle_event.  An
\* error that is neither a broken pipe nor a failed recovery ends ghciwatch.
FinishDispatch ==
    /\ att.pc = "eval" /\ att.comments = {} /\ att.by = "manager"
    /\ att' = [att EXCEPT !.pc = "none"]
    /\ barrier' = "free" /\ event' = NoEvent
    /\ mpc' = IF att.ok THEN "wait" ELSE "dead"
    /\ UNCHANGED <<envVars, epc, open, ghciVars, executed, file>>

\* The eval-socket handler answers, with an error if there was one, and lets go
\* of the barrier before it writes to the client.
Respond ==
    /\ att.pc = "eval" /\ att.comments = {} /\ att.by = "eval"
    /\ att' = [att EXCEPT !.pc = "none"]
    /\ barrier' = "free" /\ epc' = "idle"
    /\ UNCHANGED <<envVars, mpc, event, open, ghciVars, executed, file>>

-----------------------------------------------------------------------------
\* When the manager is dead the program is gone.
Next ==
    /\ mpc # "dead"
    /\ \/ \E p \in Path, s \in FileState : Edit(p, s)
       \/ Request
       \/ wait_for_event \/ handle_event \/ reload_from_eval
       \/ reload \/ remove_modules \/ add_modules \/ Commit
       \/ \E names \in SUBSET Source : add_named_modules(names)
       \/ reload_targets \/ restart \/ initialize_inner \/ synchronize_haskell_files
       \/ Initialized \/ RefreshDone \/ write_error_log \/ RunAfterHooks
       \/ \E p \in Source : refresh_eval_commands(p) \/ eval(p)
       \/ FinishDispatch \/ Respond

Spec == Init /\ [][Next]_vars

-----------------------------------------------------------------------------
\* Nothing is queued or under way.
Rest == mpc = "wait" /\ epc = "idle" /\ dirty = {}

\* Before- and after-hooks nest: reload around restart around startup, one attempt
\* at a time although the manager and eval-socket clients start them on their own,
\* each before run closed by exactly one after run on every path, failures
\* included, and none left open when the barrier is free ("a before-reload hook
\* which removes an error file must not run while an eval can delay the operation
\* that will publish its replacement", manager.rs).
HooksNest ==
    /\ open = SubSeq(Nesting, 1, Len(open))
    /\ barrier = "free" => open = <<>>

\* A successful attempt of the manager runs exactly the eval comments of the
\* snapshot it validated: none left over from an earlier version of a file or
\* of a removed one, none of a version newer than what was compiled, although
\* files are re-read one by one, by attempts that failed or were superseded and
\* on behalf of eval-socket clients.  (Not with --interrupt-on-error, which skips
\* the re-reading.)
EvalsAreValidated ==
    ~interrupts /\ att.by = "manager" /\ att.pc = "none" /\ Succeeded(att) /\ att.post =>
        executed = {<<p, Comment(att.expected[p])>> :
                       p \in {q \in Source : Comment(att.expected[q]) # Missing}}

\* At rest the error file tells the truth about the files on disk: the headline
\* exactly if all sources compile, otherwise errors of sources that do not (all of
\* them unless compilations are interrupted), and no leftover of a speculative
\* :add.  (Unless the last attempt found no work and published an empty log.)
ErrorFileIsTrue ==
    LET bad == {p \in Source : disk[p] \in Bad} IN
    Rest /\ att.post =>
        /\ file.headline <=> bad = {}
        /\ file.errors \subseteq bad
        /\ bad # {} => file.errors # {}
        /\ interrupts \/ file.errors = bad
=============================================================================
