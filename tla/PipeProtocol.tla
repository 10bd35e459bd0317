---------------------------- MODULE PipeProtocol ----------------------------
(***************************************************************************)
(* The protocol ghciwatch speaks over the three pipes of one GHCi session: *)
(* GhciStdin (src/ghci/stdin.rs), GhciStdout (stdout.rs), the stderr task  *)
(* (stderr.rs), SIGINT recovery and its sync barrier (mod.rs) and the eval *)
(* socket's use of the same pipes (my.rs).  One caller at a time holds the *)
(* session (the Ghci mutex); its remaining work is the sequence "todo" of  *)
(* await points, which cancellation throws away.  GHCi itself is external. *)
(***************************************************************************)
EXTENDS Naturals, Sequences, SequencesExt, FiniteSetsExt

CONSTANTS
    Kinds,          \* operations callers start: subset of OpKinds
    MaxOps,         \* bound: operations after start-up
    MaxFaults,      \* bound: cancellations, hung or wedged commands, process exits
    MaxSigints      \* bound: SIGINTs per recovery (max_elapsed_time of the backoff)

OpKinds == {"hook", "show", "compile", "named", "eval"}

ASSUME PipeAssumption ==
    /\ Kinds \subseteq OpKinds
    /\ MaxOps \in Nat /\ MaxFaults \in Nat /\ MaxSigints \in Nat \ {0}

VARIABLES
    \* The caller that holds the Ghci mutex:
    \*   op, ops     kind and number of the current (or last) operation
    \*   todo        await points the operation still has to pass
    \*   mode        "normal", or "interrupt" from send_sigint to the end of recovery
    \*   session     "up", or "lost" once the session is to be replaced
    \*   log, reply  what the operation has read so far; what the last one reported
    \*   got         the stderr text that is awaited on a oneshot
    \*   errorSeen   the oneshot of InterruptOnError has fired
    \*   nonce       stderr_sync_nonce and EVAL_NONCE
    \*   sigints     SIGINTs sent in this recovery
    caller,
    \* The three pipes, and what IncrementalReader has taken from stdout but not returned.
    pipe,
    \* GhciStderr: its channel, what it is doing, buffer, forwarding, suppressed_buffer,
    \* interrupt_on_error ("no", "live" or "dead" sender), and what the user was shown
    task,
    \* GHCi (external): the line it executes, its prompt, whether it lives, a pending SIGINT,
    \* the command line whose logger outlived an interrupt, lines read, faults injected
    ghci,
    \* History: output of the current attempt, and of the whole operation
    hist

vars == <<caller, pipe, task, ghci, hist>>

-----------------------------------------------------------------------------
(* Tokens on the pipes.  Complete lines of output carry the command line    *)
(* they belong to; prompts and the logger's fragments end without newline. *)

PROMPT == "PROMPT"
Sync == "SYNC"                      \* the prompt of a sync barrier
Prompt(p) == <<"prompt", p>>
EndsLine(t) == t[1] \notin {"prompt", "fragment"}
Diagnostic(t) == t[1] = "error"

\* mpsc::channel(8) of StderrEvent
ChanCap == 8
NoReply == [is |-> "none"]
Dropped == [is |-> "dropped"]
Text(data) == [is |-> "text", data |-> data]
Loop == [is |-> "loop"]
Backoff == [is |-> "backoff"]
Idle == [eff |-> "idle"]
NoStray == 0 - 1

-----------------------------------------------------------------------------
(* Operations as sequences of await points.                                *)

\* GhciStdout::stderr_buffer_through_marker, and my.rs stderr_through_marker:
\* the collector is waiting before the marker is written, and the marker
\* command's own prompt is consumed.
stderr_buffer_through_marker ==
    << <<"collect">>, <<"write", "mark">>, <<"skip", PROMPT, "Anywhere">>, <<"marker">> >>

\* GhciStdout::prompt with parse_into_log
prompt_at(find) == << <<"read", PROMPT, find>> >> \o stderr_buffer_through_marker

\* GhciStdin::write_line_with_prompt_at
write_line(line) == << <<"clear">>, <<"write", line>> >> \o prompt_at("LineStart")

\* GhciStdin::write_line_with_progress_timeout up to the select; what follows
\* depends on its outcome.  :add by name is submitted without interrupt_on_error.
write_line_with_progress_timeout(arm, attempt) ==
    << <<"clear">>, <<"write", "command">> >>
    \o (IF arm THEN << <<"arm">> >> ELSE <<>>)
    \o << <<"wait", attempt>> >>

\* GhciStdin::show_paths and show_targets read no stderr.
show == << <<"write", "query">>, <<"read", PROMPT, "LineStart">> >>

\* Ghci::initialize_inner: GhciStdout::initialize, GhciStdin::initialize (which
\* does not clear stderr before its first prompt) and refresh_targets
initialize ==
    << <<"banner">>, <<"write", PROMPT>> >> \o prompt_at("Anywhere") \o write_line(PROMPT) \o show

\* Ghci::add_modules: a named :add with forwarding off, then :show targets
named_add ==
    << <<"forward", FALSE, FALSE>> >> \o write_line_with_progress_timeout(FALSE, "first")
    \o show \o << <<"resolved">> >>

\* my.rs eval_socket_command_inner for a request of two lines, :module first
eval_socket_command_inner ==
    << <<"clear">>, <<"write", "command">>, <<"read", PROMPT, "LineStart">> >>
    \o stderr_buffer_through_marker \o << <<"module">>, <<"clear">>, <<"write", "command">>,
       <<"read", PROMPT, "LineStart">> >> \o stderr_buffer_through_marker

\* Fault: only restore the prompt and trust the first one that appears.
SyncBarrierFault == << <<"write", PROMPT>> >> \o prompt_at("LineStart")

\* Ghci::sync_barrier: change the prompt, read until that prompt, restore it.
sync_barrier ==
    << <<"write", Sync>>, <<"skip", Sync, "Anywhere">>, <<"write", PROMPT>> >>
    \o prompt_at("LineStart")

\* Ghci::send_sigint_inner
send_sigint_inner == << <<"forward", TRUE, FALSE>>, <<"sigint">> >> \o sync_barrier

Script(kind) ==
    CASE kind = "hook" -> write_line("command")
      [] kind = "show" -> show
      [] kind = "compile" -> write_line_with_progress_timeout(TRUE, "first")
      [] kind = "named" -> named_add
      [] kind = "eval" -> eval_socket_command_inner


\* GhciStdin, GhciStdout and my.rs submit a command line; GHCi (external) answers
\* it, is slow (it may answer too late or not at all), or is wedged for good.
Line(id, kind, fate) ==
    [eff |-> "command", id |-> id, kind |-> kind, fate |-> fate, out |-> FALSE, err |-> FALSE]

Init ==
    /\ caller = [op |-> "initialize", ops |-> 0, todo |-> initialize \o << <<"report">> >>,
                 mode |-> "normal", session |-> "up", log |-> <<>>, reply |-> <<>>,
                 got |-> NoReply, errorSeen |-> FALSE, nonce |-> 0, sigints |-> 0]
    /\ pipe = [stdin |-> <<>>, stdout |-> <<>>, stderr |-> <<>>, buffered |-> <<>>]
    /\ task = [chan |-> <<>>, doing |-> Loop, buffer |-> <<>>, forwarding |-> TRUE,
               suppressed |-> {}, armed |-> "no", shown |-> {}]
    /\ ghci = [exec |-> Line(0, "boot", "answers"), prompt |-> "default", alive |-> TRUE,
               sig |-> FALSE, stray |-> NoStray, lines |-> 0, faults |-> 0]
    /\ hist = [due |-> {}, own |-> {}]

-----------------------------------------------------------------------------
(* The caller.                                                             *)

todo == caller.todo
Doing(step) == todo # <<>> /\ Head(todo)[1] = step
Rest == Tail(todo)

\* Whoever obtains the mutex next.  A named :add that GHCi did not resolve is
\* followed by :add with source paths before the mutex is released.
Begin(kind) ==
    /\ todo = <<>> /\ caller.session = "up" /\ caller.ops < MaxOps
    /\ caller.op = "unresolved" => kind = "compile"
    /\ caller' = [caller EXCEPT !.op = kind, !.ops = @ + 1, !.log = <<>>, !.reply = <<>>,
                                !.todo = Script(kind) \o << <<"report">> >>]
    /\ task' = [task EXCEPT !.shown = {}]
    /\ hist' = [due |-> {}, own |-> {}]
    /\ UNCHANGED <<pipe, ghci>>

\* Send a StderrEvent.  Clearing, forwarding and collecting await an
\* acknowledgement, DrainBuffer its answer, arming and disarming nothing.
SendStderrEvent ==
    /\ todo # <<>> /\ Head(todo)[1] \in {"clear", "forward", "collect", "arm", "disarm", "drain"}
    /\ Len(task.chan) < ChanCap
    /\ LET n == IF Doing("collect") THEN caller.nonce + 1 ELSE caller.nonce
           then == CASE Doing("arm") \/ Doing("disarm") -> <<>>
                     [] Doing("drain") -> << <<"marker">> >>
                     [] OTHER -> << <<"ack">> >>
       IN /\ task' = [task EXCEPT !.chan = Append(@, [what |-> Head(todo), n |-> n, live |-> TRUE])]
          /\ caller' = [caller EXCEPT !.todo = then \o Rest, !.got = NoReply, !.nonce = n]
    /\ UNCHANGED <<pipe, ghci, hist>>

WriteStdin ==
    /\ Doing("write") /\ ghci.alive
    /\ LET what == Head(todo)[2]
           line == CASE what = "command" -> Line(ghci.lines + 1, "command", "answers")
                     [] what = "query" -> Line(ghci.lines + 1, "query", "answers")
                     [] what = "mark" -> [eff |-> "mark", n |-> caller.nonce]
                     [] OTHER -> [eff |-> "prompt", p |-> what]
       IN /\ pipe' = [pipe EXCEPT !.stdin = Append(@, line)]
          /\ ghci' = [ghci EXCEPT !.lines = IF line.eff = "command" THEN @ + 1 ELSE @]
    /\ caller' = [caller EXCEPT !.todo = Rest]
    /\ UNCHANGED <<task, hist>>

\* IncrementalReader::take_chunk_from_buffer on whole tokens: the line that
\* holds the marker is consumed entirely, what precedes the line is returned.
LineStart(buf, i) == i = 1 \/ EndsLine(buf[i - 1])
Matches(buf, marker, find) ==
    {i \in DOMAIN buf : buf[i] = marker /\ (find = "LineStart" => LineStart(buf, i))}
LineOf(buf, i) ==
    [first |-> Max({j \in 1..i : LineStart(buf, j)}),
     last |-> Min({j \in i..Len(buf) : EndsLine(buf[j])} \union {Len(buf)})]
CompleteLines(buf) == SubSeq(buf, 1, Max({j \in DOMAIN buf : EndsLine(buf[j])} \union {0}))
Chunk(buf, i) == SubSeq(buf, 1, LineOf(buf, i).first - 1)
After(buf, i) == SubSeq(buf, LineOf(buf, i).last + 1, Len(buf))

\* The next read(2) takes any number of the tokens that are in the pipe.
Take(n) == pipe.buffered \o SubSeq(pipe.stdout, 1, n)
Drop(n) == SubSeq(pipe.stdout, n + 1, Len(pipe.stdout))

\* read_until: from the buffer first, then one read at a time; end of file ends
\* the wait as if the marker had been seen, and drops an unfinished line.  The set
\* of what may come of it: more has been buffered, or a chunk found and the rest left.
More(buf, out) == [found |-> FALSE, chunk |-> <<>>, buffered |-> buf, stdout |-> out]
Search(buf, out, marker, find) ==
    LET at == Matches(buf, marker, find)
    IN IF at = {} THEN More(buf, out)
       ELSE [found |-> TRUE, chunk |-> Chunk(buf, Min(at)), buffered |-> After(buf, Min(at)), stdout |-> out]
ReadUntil(marker, find) ==
    LET have == Search(pipe.buffered, pipe.stdout, marker, find)
    IN IF have.found THEN {have}
       ELSE IF pipe.stdout = <<>> /\ ~ghci.alive
       THEN {[More(<<>>, <<>>) EXCEPT !.found = TRUE, !.chunk = CompleteLines(pipe.buffered)]}
       ELSE {Search(Take(n), Drop(n), marker, find) : n \in 1..Len(pipe.stdout)}
Buffer(read) == pipe' = [pipe EXCEPT !.buffered = read.buffered, !.stdout = read.stdout]

\* GhciStdout::prompt, show_paths, show_targets and read_until_marker
ReadPrompt ==
    /\ Doing("read") \/ Doing("skip") \/ Doing("banner")
    /\ LET marker == IF Doing("banner") THEN <<"banner", 0>> ELSE Prompt(Head(todo)[2])
           find == IF Doing("banner") THEN "LineStart" ELSE Head(todo)[3]
       IN \E read \in ReadUntil(marker, find) :
            /\ Buffer(read)
            /\ caller' = IF read.found
                         THEN [caller EXCEPT !.todo = Rest,
                                 !.log = IF Doing("read") THEN @ \o read.chunk ELSE @]
                         ELSE caller
    /\ UNCHANGED <<task, ghci, hist>>

\* The receiving halves of the oneshots a finished or cancelled future drops
Forget(t) ==
    [t EXCEPT !.chan = [i \in DOMAIN @ |-> [@[i] EXCEPT !.live = FALSE]],
              !.armed = IF @ = "live" THEN "dead" ELSE @,
              !.doing = IF @.is \in {"collect", "drain"} THEN [@ EXCEPT !.live = FALSE] ELSE @]

\* Timers are long compared with everything but a command that does not answer.
Slow == ghci.exec.eff = "command" /\ ghci.exec.fate # "answers"

\* The result of stderr_buffer_through_marker, or of drain_stderr_after_exit
ReceiveMarker ==
    /\ Doing("marker") /\ caller.got.is = "text"
    /\ caller' = [caller EXCEPT !.todo = Rest, !.log = @ \o caller.got.data]
    /\ UNCHANGED <<pipe, task, ghci, hist>>

\* The caller is told the result.
Report ==
    /\ Doing("report")
    /\ caller' = [caller EXCEPT !.todo = Rest, !.reply = caller.log]
    /\ UNCHANGED <<pipe, task, ghci, hist>>

\* eval_socket_command_inner stops after a :module line that failed.
ModuleLine ==
    /\ Doing("module")
    /\ \/ caller' = [caller EXCEPT !.todo = Rest]
       \/ /\ \E i \in DOMAIN caller.log : caller.log[i][1] = "error"
          /\ caller' = [caller EXCEPT !.todo = << <<"report">> >>]
    /\ UNCHANGED <<pipe, task, ghci, hist>>

\* Fault: forwarding is switched on again without replaying what was suppressed.
NamesResolvedFault ==
    /\ Doing("resolved")
    /\ \E all \in BOOLEAN :
         caller' = [caller EXCEPT !.todo = << <<"forward", TRUE, FALSE>> >> \o Rest,
                                  !.op = IF all THEN @ ELSE "unresolved"]
    /\ UNCHANGED <<pipe, task, ghci, hist>>

\* add_modules after the named attempt: what was suppressed is replayed when
\* every name entered the target set, and thrown away otherwise.
NamesResolved ==
    /\ Doing("resolved")
    /\ \E all \in BOOLEAN :
         caller' = [caller EXCEPT !.todo = << <<"forward", TRUE, all>> >> \o Rest,
                                  !.op = IF all THEN @ ELSE "unresolved"]
    /\ UNCHANGED <<pipe, task, ghci, hist>>

\* Leave the operation for send_sigint; "after" follows the recovery.
Interrupted(before, after) ==
    /\ caller' = [caller EXCEPT !.todo = before \o send_sigint_inner \o after, !.mode = "interrupt",
                                !.sigints = 0, !.errorSeen = FALSE, !.got = NoReply]
    /\ task' = Forget(task)
    /\ hist' = [hist EXCEPT !.due = {}]

\* What an operation that fails has still to do: add_modules has forwarding
\* switched on again and shows what the named attempt has held back.
Unwind == IF Contains(todo, <<"resolved">>) THEN << <<"forward", TRUE, TRUE>> >> ELSE <<>>

\* Ghci::force_kill_for_recovery: no caller may go on using the session.
ForceKill ==
    /\ caller' = [caller EXCEPT !.todo = Unwind, !.session = "lost", !.mode = "normal"]
    /\ ghci' = [ghci EXCEPT !.alive = FALSE, !.exec = Idle, !.sig = FALSE, !.stray = NoStray]
    /\ task' = Forget(task)
    /\ UNCHANGED <<pipe, hist>>

\* GhciStdout::prompt_with_progress_timeout: the prompt (or end of file) ...
CompilationComplete ==
    /\ Doing("wait")
    /\ \E read \in ReadUntil(Prompt(PROMPT), "LineStart") :
         /\ Buffer(read)
         /\ caller' = IF read.found
                      THEN [caller EXCEPT !.log = @ \o read.chunk, !.errorSeen = FALSE,
                              !.todo = << <<"disarm">> >> \o stderr_buffer_through_marker \o Rest]
                      ELSE caller
         /\ task' = IF read.found THEN Forget(task) ELSE task
    /\ UNCHANGED <<ghci, hist>>

\* ... an error diagnostic, when the read has nothing more to offer: SIGINT and
\* capture_interrupted_stderr ...
CompilationError ==
    /\ Doing("wait") /\ caller.errorSeen
    /\ Matches(pipe.buffered \o pipe.stdout, Prompt(PROMPT), "LineStart") = {}
    /\ Interrupted(<< <<"disarm">> >>, stderr_buffer_through_marker \o << <<"recovered">> >> \o Rest)
    /\ UNCHANGED <<pipe, ghci>>

\* ... or silence: interrupt_and_retry_reload.  The retry is not retried.
CompilationInactive ==
    /\ Doing("wait")
    /\ pipe.stdout = <<>> /\ ghci.alive
    /\ Matches(pipe.buffered, Prompt(PROMPT), "LineStart") = {}
    /\ Slow
    /\ \/ /\ Head(todo)[2] = "first"
          /\ Interrupted(<< <<"disarm">> >>, << <<"recovered">> >>
                         \o write_line_with_progress_timeout(FALSE, "retry") \o Rest)
          /\ UNCHANGED <<pipe, ghci>>
       \/ Head(todo)[2] = "retry" /\ ForceKill

\* send_sigint has returned: the operation goes on, or was abandoned.
Recovered ==
    /\ Doing("recovered") \/ Doing("abandon")
    /\ caller' = [caller EXCEPT !.todo = Rest, !.mode = "normal",
                                !.op = IF Doing("abandon") THEN "abandoned" ELSE @]
    /\ UNCHANGED <<pipe, task, ghci, hist>>

\* The manager aborts the task that is in the middle of a reload, or the eval
\* socket drops an evaluation after 60 seconds; both call send_sigint.  A read
\* that was forwarding what it had taken from the pipe loses the rest of it.
Cancel ==
    /\ caller.mode = "normal" /\ caller.session = "up" /\ todo # <<>> /\ ~Doing("report")
    /\ caller.op # "initialize"
    /\ (caller.op = "eval" /\ Slow) \/ ghci.faults < MaxFaults
    /\ ghci' = [ghci EXCEPT !.faults = IF caller.op = "eval" /\ Slow THEN @ ELSE @ + 1]
    /\ \/ UNCHANGED pipe
       \/ /\ Doing("read") \/ Doing("wait")
          /\ pipe.stdout # <<>>
          /\ \E n \in 1..Len(pipe.stdout) : pipe' = [pipe EXCEPT !.stdout = Drop(n)]
    /\ Interrupted(<<>>, << <<"abandon">> >>)

\* send_sigint_inner: SIGINT until a prompt is seen
SendSigint ==
    /\ Doing("sigint") /\ ghci.alive /\ caller.sigints < MaxSigints
    /\ ghci' = [ghci EXCEPT !.sig = TRUE]
    /\ caller' = [caller EXCEPT !.sigints = @ + 1, !.todo = << <<"prompts">> >> \o @]
    /\ UNCHANGED <<pipe, task, hist>>

\* GhciStdout::buffer_and_drain_prompts: whatever arrives before the delay ends,
\* minus everything up to the last prompt in it
DrainPrompts ==
    /\ Doing("prompts")
    /\ \E n \in 0..Len(pipe.stdout) :
         LET buf == Take(n)
             found == Matches(buf, Prompt(PROMPT), "Anywhere")
         IN /\ pipe' = [pipe EXCEPT !.stdout = Drop(n),
                                    !.buffered = IF found = {} THEN buf ELSE After(buf, Max(found))]
            /\ caller' = [caller EXCEPT !.todo = IF found = {} THEN Rest ELSE Tail(Rest)]
    /\ UNCHANGED <<task, ghci, hist>>

\* The backoff is exhausted, killpg fails, or one of sync_barrier's timeouts (or
\* INTERRUPT_CLEANUP_TIMEOUT, for the capture that follows it) expires.
RecoveryTimeout ==
    /\ caller.mode = "interrupt" /\ caller.session = "up"
    /\ IF \E i \in DOMAIN todo : todo[i][1] = "sigint"
       THEN Doing("sigint") /\ (caller.sigints = MaxSigints \/ ~ghci.alive)
       ELSE ~Doing("recovered") /\ ~Doing("abandon")
    /\ ForceKill

\* Ghci::run_hook_command: GHCI_HOOK_TIMEOUT
HookTimeout ==
    /\ caller.op = "hook" /\ caller.mode = "normal" /\ todo # <<>> /\ ~Doing("report")
    /\ Slow
    /\ ForceKill

\* Fault: the failure is reported without collecting the stderr of the process.
BrokenPipeFault ==
    /\ Doing("write") /\ ~ghci.alive
    /\ caller' = [caller EXCEPT !.session = "lost", !.todo = << <<"report">> >>,
                    !.op = IF @ = "initialize" THEN "failed" ELSE @, !.got = NoReply]
    /\ task' = Forget(task)
    /\ UNCHANGED <<pipe, ghci, hist>>

\* Errors: writing to a dead process is a broken pipe, and the stderr task drops
\* its answer at end of file.  Initialization collects the dead command's stderr.
BrokenPipe ==
    /\ Doing("write") /\ ~ghci.alive
    /\ caller' = [caller EXCEPT !.session = "lost",
                    !.todo = IF caller.op = "initialize" THEN << <<"drain">>, <<"report">> >>
                             ELSE Unwind,
                    !.op = IF @ = "initialize" THEN "failed" ELSE @, !.got = NoReply]
    /\ task' = Forget(task)
    /\ UNCHANGED <<pipe, ghci, hist>>

\* A dropped answer is no broken pipe: initialization then reports "GHCi
\* initialization failed" with what it has read so far, and drains nothing.
ReplyDropped ==
    /\ Doing("marker") /\ caller.got.is = "dropped"
    /\ caller' = [caller EXCEPT !.session = "lost",
                    !.todo = IF caller.op = "initialize" THEN << <<"report">> >> ELSE Unwind,
                    !.op = IF @ = "initialize" THEN "undrained" ELSE @, !.got = NoReply]
    /\ task' = Forget(task)
    /\ UNCHANGED <<pipe, ghci, hist>>

-----------------------------------------------------------------------------
(* The stderr task.                                                        *)

\* GhciStderr::ingest_line
ingest_line(t, line) ==
    [t EXCEPT !.buffer = Append(@, line),
              !.shown = IF t.forwarding THEN @ \union {line} ELSE @,
              !.suppressed = IF t.forwarding THEN @ ELSE @ \union {line},
              !.armed = IF line[1] = "error" THEN "no" ELSE @]
NotifiesError(line) == line[1] = "error" /\ task.armed = "live"

\* GhciStderr::run_inner and get_buffer_through: the next line, unless it is the
\* marker that is being waited for
IngestLine ==
    /\ task.doing.is \in {"loop", "collect", "drain"}
    /\ pipe.stderr # <<>>
    /\ LET line == Head(pipe.stderr)
       IN /\ ~(task.doing.is = "collect" /\ line[1] = "mark" /\ line[2] = task.doing.n)
          /\ task' = ingest_line(task, line)
          /\ pipe' = [pipe EXCEPT !.stderr = Tail(@)]
          /\ caller' = [caller EXCEPT !.errorSeen = @ \/ NotifiesError(line)]
    /\ UNCHANGED <<ghci, hist>>

\* GhciStderr::get_buffer_through: the marker, alone on its line or spliced into
\* a diagnostic whose text is kept.  The buffer is handed over, not copied
\* (Fault: copied).
TakeBufferFault(t) == [t EXCEPT !.doing = Loop]
TakeBuffer(t) == [t EXCEPT !.doing = Loop, !.buffer = <<>>]
get_buffer_through ==
    /\ task.doing.is = "collect"
    /\ pipe.stderr # <<>>
    /\ LET line == Head(pipe.stderr)
           spliced == IF Len(line) = 3 THEN << line[3] >> ELSE <<>>
           t == IF spliced = <<>> THEN task ELSE ingest_line(task, spliced[1])
       IN /\ line[1] = "mark" /\ line[2] = task.doing.n
          /\ task' = TakeBuffer(t)
          /\ pipe' = [pipe EXCEPT !.stderr = Tail(@)]
          /\ caller' = [caller EXCEPT !.got = IF task.doing.live THEN Text(t.buffer) ELSE @]
    /\ UNCHANGED <<ghci, hist>>

\* Fault: the task does not notice that nobody waits for the marker any more.
CallerClosedFault ==
    /\ task.doing.is = "collect" /\ ~task.doing.live /\ pipe.stderr # <<>>
    /\ task' = [task EXCEPT !.doing = Loop]
    /\ UNCHANGED <<caller, pipe, ghci, hist>>

\* The caller went away after registering the marker.
CallerClosed ==
    /\ task.doing.is = "collect" /\ ~task.doing.live
    /\ task' = [task EXCEPT !.doing = Loop]
    /\ UNCHANGED <<caller, pipe, ghci, hist>>

\* End of file: an error for a marker, which run() retries after a backoff, and
\* the end of drain_buffer.
StderrEof ==
    /\ pipe.stderr = <<>> /\ ~ghci.alive
    /\ \/ /\ task.doing.is = "collect"
          /\ task' = [task EXCEPT !.doing = Backoff]
          /\ caller' = [caller EXCEPT !.got = IF task.doing.live THEN Dropped ELSE @]
       \/ /\ task.doing.is = "drain"
          /\ task' = [task EXCEPT !.doing = Loop]
          /\ caller' = [caller EXCEPT !.got = IF task.doing.live THEN Text(task.buffer) ELSE @]
    /\ UNCHANGED <<pipe, ghci, hist>>

RetryRun ==
    /\ task.doing.is = "backoff"
    /\ task' = [task EXCEPT !.doing = Loop]
    /\ UNCHANGED <<caller, pipe, ghci, hist>>

\* GhciStderr::dispatch; an acknowledgement lets the caller that waits for it go on.
dispatch(t, event) ==
    LET what == event.what[1]
    IN CASE what = "clear" -> [t EXCEPT !.buffer = <<>>]
         [] what = "forward" ->
              [t EXCEPT !.forwarding = event.what[2],
                        !.suppressed = IF event.what[2] # t.forwarding THEN {} ELSE @,
                        !.shown = IF event.what[2] /\ ~t.forwarding /\ event.what[3]
                                  THEN @ \union t.suppressed ELSE @]
         [] what = "arm" -> [t EXCEPT !.armed = IF event.live THEN "live" ELSE "dead"]
         [] what = "disarm" -> [t EXCEPT !.armed = "no"]
         [] OTHER -> [t EXCEPT !.doing = [is |-> what, n |-> event.n, live |-> event.live]]

Dispatch ==
    /\ task.doing = Loop /\ task.chan # <<>>
    /\ LET event == Head(task.chan)
       IN /\ task' = dispatch([task EXCEPT !.chan = Tail(@)], event)
          /\ caller' = [caller EXCEPT !.todo =
                IF event.live /\ event.what[1] \in {"clear", "forward", "collect"}
                THEN Rest ELSE @]
    /\ UNCHANGED <<pipe, ghci, hist>>

-----------------------------------------------------------------------------
(* GHCi (external): one input line at a time, in order.  A pending SIGINT   *)
(* is handled before the next line is read.                                *)

Fates(line) ==
    IF line.eff = "command" /\ line.kind = "command" /\ ghci.faults < MaxFaults
    THEN {"answers", "slow", "wedged"} ELSE {"answers"}

GhciReads ==
    /\ ghci.alive /\ ghci.exec = Idle /\ ~ghci.sig /\ pipe.stdin # <<>>
    /\ LET line == Head(pipe.stdin)
       IN \E fate \in Fates(line) :
            ghci' = [ghci EXCEPT
                       !.exec = IF line.eff = "command" THEN [line EXCEPT !.fate = fate] ELSE line,
                       !.faults = IF fate = "answers" THEN @ ELSE @ + 1]
    /\ pipe' = [pipe EXCEPT !.stdin = Tail(@)]
    /\ UNCHANGED <<caller, task, hist>>

Produced(x) ==
    hist' = [own |-> hist.own \union {x},
             due |-> IF caller.mode = "normal" THEN hist.due \union {x} ELSE hist.due]

GhciPrints ==
    /\ ghci.alive /\ ghci.exec.eff = "command" /\ ghci.exec.fate # "wedged"
    /\ \/ /\ ~ghci.exec.out
          /\ ghci' = [ghci EXCEPT !.exec.out = TRUE]
          /\ LET boot == ghci.exec.kind = "boot"
                 x == <<IF boot THEN "banner" ELSE "text", ghci.exec.id>>
             IN /\ pipe' = [pipe EXCEPT !.stdout = Append(@, x)]
                /\ IF boot THEN UNCHANGED hist ELSE Produced(x)
       \/ /\ ~ghci.exec.err /\ ghci.exec.kind # "query"
          /\ ghci' = [ghci EXCEPT !.exec.err = TRUE]
          /\ LET x == <<"error", ghci.exec.id>>
             IN pipe' = [pipe EXCEPT !.stderr = Append(@, x)] /\ Produced(x)
    /\ UNCHANGED <<caller, task>>

\* The command is over: GHCi prints its prompt.  The marker's shell command can
\* meet the logger of an interrupted compilation on the same line of stderr.
GhciAnswers ==
    /\ ghci.alive /\ ghci.exec # Idle
    /\ ghci.exec.eff = "command" =>
         ghci.exec.fate # "wedged" /\ (ghci.exec.kind = "boot" => ghci.exec.out)
    /\ LET now == IF ghci.exec.eff = "prompt" THEN ghci.exec.p ELSE ghci.prompt
       IN /\ ghci' = [ghci EXCEPT !.exec = Idle, !.prompt = now,
                                  !.stray = IF ghci.exec.eff = "mark" THEN NoStray ELSE @]
          /\ IF ghci.exec.eff = "mark"
             THEN \/ /\ pipe' = [pipe EXCEPT !.stdout = Append(@, Prompt(now)),
                                             !.stderr = Append(@, <<"mark", ghci.exec.n>>)]
                     /\ UNCHANGED hist
                  \/ /\ ghci.stray # NoStray
                     /\ LET x == <<"error", ghci.stray, "spliced">>
                        IN /\ pipe' = [pipe EXCEPT !.stdout = Append(@, Prompt(now)),
                                         !.stderr = Append(@, <<"mark", ghci.exec.n, x>>)]
                           /\ Produced(x)
             ELSE /\ pipe' = [pipe EXCEPT !.stdout = Append(@, Prompt(now))]
                  /\ UNCHANGED hist
    /\ UNCHANGED <<caller, task>>

\* SIGINT abandons the command and prints the prompt; at the prompt it prints
\* another one, or nothing.
GhciInterrupted ==
    /\ ghci.alive /\ ghci.sig
    /\ ghci.exec.eff = "command" => ghci.exec.fate # "wedged"
    /\ ghci.exec.eff \in {"command", "idle"}
    /\ ghci' = [ghci EXCEPT !.sig = FALSE, !.exec = Idle,
                            !.stray = IF ghci.exec = Idle THEN @ ELSE ghci.exec.id]
    /\ \/ pipe' = [pipe EXCEPT !.stdout = Append(@, Prompt(ghci.prompt))]
       \/ ghci.exec = Idle /\ UNCHANGED pipe
    /\ UNCHANGED <<caller, task, hist>>

\* The logging thread of an interrupted compilation is not stopped: it can still
\* print, without a newline on stdout, until the prompt has been restored.
LoggerPrints ==
    /\ ghci.alive /\ ghci.stray # NoStray
    /\ ghci' = [ghci EXCEPT !.stray = NoStray]
    /\ \E x \in {<<"fragment", ghci.stray>>, <<"error", ghci.stray, "late">>} :
         /\ pipe' = IF x[1] = "fragment" THEN [pipe EXCEPT !.stdout = Append(@, x)]
                    ELSE [pipe EXCEPT !.stderr = Append(@, x)]
         /\ Produced(x)
    /\ UNCHANGED <<caller, task>>

GhciExits ==
    /\ ghci.alive /\ ghci.faults < MaxFaults
    /\ ghci' = [ghci EXCEPT !.alive = FALSE, !.exec = Idle, !.sig = FALSE, !.stray = NoStray,
                            !.faults = @ + 1]
    /\ UNCHANGED <<caller, pipe, task, hist>>

-----------------------------------------------------------------------------
Caller ==
    \/ SendStderrEvent \/ WriteStdin \/ ReadPrompt \/ ReceiveMarker \/ Report
    \/ ModuleLine \/ NamesResolved \/ CompilationComplete \/ CompilationError \/ Recovered
    \/ SendSigint \/ DrainPrompts \/ BrokenPipe \/ ReplyDropped
Timeouts == CompilationInactive \/ RecoveryTimeout \/ HookTimeout
EvalTimeout == caller.op = "eval" /\ Slow /\ Cancel
StderrTask ==
    IngestLine \/ get_buffer_through \/ CallerClosed \/ StderrEof \/ RetryRun \/ Dispatch
Ghci == GhciReads \/ GhciPrints \/ GhciAnswers \/ GhciInterrupted

Next ==
    \/ \E kind \in Kinds : Begin(kind)
    \/ Caller \/ Timeouts \/ Cancel \/ StderrTask
    \/ Ghci \/ LoggerPrints \/ GhciExits

Spec == Init /\ [][Next]_vars

-----------------------------------------------------------------------------
(* Properties.                                                             *)

TypeOK ==
    /\ caller.mode \in {"normal", "interrupt"} /\ caller.session \in {"up", "lost"}
    /\ caller.op \in OpKinds \union {"initialize", "failed", "undrained", "unresolved", "abandoned"}
    /\ caller.ops \in 0..MaxOps /\ caller.sigints \in 0..MaxSigints
    /\ caller.errorSeen \in BOOLEAN
    /\ caller.got.is \in {"none", "dropped", "text"}
    /\ Len(task.chan) <= ChanCap
    /\ task.doing.is \in {"loop", "backoff", "collect", "drain"}
    /\ task.armed \in {"no", "live", "dead"} /\ task.forwarding \in BOOLEAN
    /\ ghci.prompt \in {"default", PROMPT, Sync}
    /\ ghci.faults \in 0..MaxFaults /\ hist.due \subseteq hist.own

\* Whenever the mutex is free and GHCi lives, the pipes are where the next
\* operation assumes them to be: no unread prompt or input line, the prompt that
\* is searched for is set, no diagnostic of an earlier operation is under way,
\* and the user sees stderr again (sync_barrier, send_sigint_inner).
IdleInSync ==
    (todo = <<>> /\ caller.session = "up" /\ ghci.alive) =>
        /\ pipe.stdin = <<>> /\ ghci.exec = Idle /\ ~ghci.sig
        /\ pipe.stdout = <<>> /\ pipe.buffered = <<>>
        /\ pipe.stderr = <<>> /\ task.buffer = <<>>
        /\ ghci.prompt = PROMPT /\ ghci.stray = NoStray
        /\ task.forwarding

\* What GHCi printed on stderr for an operation that was answered, or that failed
\* with the session, has been written to the user, or will be as soon as it is
\* read, also when it was first suppressed (add_modules and its error path).
Unread == ToSet(pipe.stderr) \union {line[3] : line \in {l \in ToSet(pipe.stderr) : l[1] = "mark" /\ Len(l) = 3}}
DiagnosticsShown ==
    (todo = <<>> /\ caller.op \notin {"unresolved", "abandoned"}) =>
        /\ task.forwarding
        /\ {x \in hist.due : Diagnostic(x)} \subseteq
               (IF caller.session = "up" THEN task.shown ELSE task.shown \union Unread)

\* A command that is found dead by a write before GHCi is initialized is reported
\* with everything it wrote to stderr (Ghci::initialize, drain_stderr_after_exit).
\* It is not when the stderr task drops its answer, the command having died between
\* marker and answer ("undrained"): that error is no broken pipe, nothing is drained.
StartupFailureReported ==
    (todo = <<>> /\ caller.op = "failed") =>
        {x \in hist.own : Diagnostic(x)} \subseteq ToSet(caller.reply)

\* Nobody waits for somebody who waits for him: as long as an operation is under
\* way the caller, the stderr task, GHCi or a timer can take a step, whatever was
\* cancelled before (CallerClosed: "do not strand the stderr task").
NoStall ==
    todo # <<>> => ENABLED (Caller \/ Timeouts \/ EvalTimeout \/ StderrTask \/ (~Slow /\ Ghci))

\* The session implements the service the rest of ghciwatch relies on.
Phase ==
    IF caller.session = "lost" THEN "lost"
    ELSE IF todo = <<>> THEN "ready"
    ELSE IF caller.mode = "interrupt" THEN "recovering" ELSE "busy"
Service == INSTANCE CommandSession
           WITH phase <- Phase, due <- hist.due, own <- hist.own, answer <- caller.reply
\* PipeProtocol implements CommandSession: an answer is the complete output of
\* its own command, once (stdin.rs, stdout.rs, stderr.rs, sync_barrier).
ImplementsCommandSession == Service!Spec
=============================================================================
