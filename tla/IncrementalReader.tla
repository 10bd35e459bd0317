-------------------------- MODULE IncrementalReader --------------------------
(***************************************************************************)
(* IncrementalReader (src/incremental_reader.rs): bytes arrive from GHCi's *)
(* stdout in arbitrary pieces and become decoded lines, until a line holds *)
(* an end marker.  Every await of the code is a state of this module, so a *)
(* timeout or a cancelled caller can strike at each of them.  The calls    *)
(* are those of GhciStdout: reads of a response, and after an interrupted  *)
(* one buffer_and_drain_prompts and the read of the sync barrier's marker. *)
(***************************************************************************)
EXTENDS Naturals, Sequences, SequencesExt, FiniteSetsExt

CONSTANTS
    Responses,      \* what GHCi may print before the first prompt: sequences of bytes
    FollowUps,      \* what it may print before the next one
    ProgressTimeout \* ticks without the progress marker before a read is Inactive

(* Bytes: text "t", newline "n", a two-byte character "u1" "u2", an ANSI     *)
(* escape "e", a byte that is never valid "x", and two bytes of each marker. *)
Bytes == {"t", "n", "u1", "u2", "e", "x", "p1", "p2", "s1", "s2", "c1", "c2"}
Prompt == <<"p1", "p2">>
Sync == <<"s1", "s2">>
Progress == <<"c1", "c2">>

ASSUME ReaderAssumption ==
    /\ Responses \subseteq Seq(Bytes) /\ FollowUps \subseteq Seq(Bytes)
    /\ ProgressTimeout \in Nat \ {0}

VARIABLES
    reader,     \* the fields of IncrementalReader: lines, line, non_utf8, pending
    call,       \* the call under way: what, at (its await point), back, data, ret
    feed,       \* bytes in the pipe or still to be printed; "closed" ends them
    clock,      \* ticks since last_progress, and since a progress marker was read
    result,     \* what the last read returned, and what was forwarded meanwhile
    stage       \* the response that is read, "first" or "next"

vars == <<reader, call, feed, clock, result, stage>>

-----------------------------------------------------------------------------
(* Text.                                                                   *)

Holds(s, word) ==
    \E i \in 1..(Len(s) + 1 - Len(word)) : SubSeq(s, i, i + Len(word) - 1) = word

\* strip_ansi_escapes (external)
strip_str(s) == SelectSeq(s, LAMBDA c : c # "e")

\* Fault: every marker is looked for at the start of the line.
FindFault(opts, s) == IsPrefix(opts.marker, s)

\* AhoCorasickExt::find_at_start and find_anywhere, ReadOpts::find
find(opts, s) ==
    IF opts.find = "LineStart" THEN IsPrefix(opts.marker, s) ELSE Holds(s, opts.marker)

NewlineAt(s) == Min({i \in DOMAIN s : s[i] = "n"} \union {Len(s) + 1})
HasNewline(s) == NewlineAt(s) <= Len(s)
FirstLine(s) == SubSeq(s, 1, NewlineAt(s) - 1)
AfterLine(s) == SubSeq(s, NewlineAt(s) + 1, Len(s))

\* String::from_utf8_lossy: "?" stands for the replacement character.
Char(b, i) ==
    CASE b[i] = "u1" -> IF i < Len(b) /\ b[i + 1] = "u2" THEN <<"u">> ELSE <<"?">>
      [] b[i] = "u2" -> IF i > 1 /\ b[i - 1] = "u1" THEN <<>> ELSE <<"?">>
      [] b[i] = "x" -> <<"?">>
      [] OTHER -> <<b[i]>>
Lossy(b) == FlattenSeq([i \in DOMAIN b |-> Char(b, i)])

\* IncrementalReader::decode: an incomplete character at the end waits for more,
\* unless an earlier byte made the decoding lossy.
decode(held, bytes) ==
    LET b == held \o bytes
        whole == SubSeq(b, 1, Len(b) - 1)
    IN IF Last(b) = "u1" /\ ~Holds(Lossy(whole), <<"?">>)
       THEN [text |-> Lossy(whole), held |-> <<"u1">>]
       ELSE [text |-> Lossy(b), held |-> <<>>]

-----------------------------------------------------------------------------
(* The buffers.                                                            *)

\* ReadOpts of GhciStdout's callers
Opts(what) ==
    CASE what = "boot" -> [marker |-> Prompt, find |-> "LineStart", writing |-> "Write"]
      [] what = "show" -> [marker |-> Prompt, find |-> "LineStart", writing |-> "Hide"]
      [] what \in {"prompt", "progress"} ->
           [marker |-> Prompt, find |-> "LineStart", writing |-> "NoFinalLine"]
      [] what = "sync" -> [marker |-> Sync, find |-> "Anywhere", writing |-> "NoFinalLine"]
      [] OTHER -> [marker |-> Prompt, find |-> "Anywhere", writing |-> "NoFinalLine"]
Reads == {"boot", "show", "prompt", "progress"}

Matching(r, opts) == {i \in DOMAIN r.lines : find(opts, r.lines[i])}

\* IncrementalReader::take_chunk_from_buffer
take_chunk_from_buffer(r, opts) ==
    LET i == Min(Matching(r, opts))
    IN CASE Matching(r, opts) # {} ->
              [found |-> TRUE, chunk |-> SubSeq(r.lines, 1, i - 1),
               rest |-> [r EXCEPT !.lines = SubSeq(@, i + 1, Len(@))]]
         [] Matching(r, opts) = {} /\ find(opts, r.line) ->
              [found |-> TRUE, chunk |-> r.lines,
               rest |-> [r EXCEPT !.lines = <<>>, !.line = <<>>]]
         [] OTHER -> [found |-> FALSE, chunk |-> <<>>, rest |-> r]

\* IncrementalReader::drain_buffered_chunks, the loop over take_chunk_from_buffer
drain_buffered_chunks(r, opts) ==
    IF find(opts, r.line) THEN [r EXCEPT !.lines = <<>>, !.line = <<>>]
    ELSE [r EXCEPT !.lines = SubSeq(@, Max(Matching(r, opts) \union {0}) + 1, Len(@))]

Empty == [lines |-> <<>>, line |-> <<>>, non_utf8 |-> <<>>, pending |-> <<>>]
NoChunk == <<"none">>
Chunk(lines) == <<"chunk", lines>>

Idle == [what |-> "idle", at |-> "idle", back |-> "idle", data |-> <<>>, ret |-> NoChunk]
Start(what) == [Idle EXCEPT !.what = what, !.at = "pending"]

Init ==
    /\ reader = Empty
    /\ \E r \in Responses, what \in Reads :
         /\ stage = [name |-> "first", response |-> r]
         /\ call = Start(what)
         /\ feed = [bytes |-> r \o Prompt, closed |-> FALSE]
    /\ clock = [progress |-> 0, marker |-> 0]
    /\ result = [is |-> "none", chunk |-> <<>>, forwarded |-> <<>>]

opts == Opts(call.what)
At(place) == call.at = place

-----------------------------------------------------------------------------
(* read_until, read_until_with_progress_timeout and buffer_available.      *)

Return(chunk) ==
    /\ call' = [Idle EXCEPT !.back = call.what]
    /\ result' = [result EXCEPT !.is = "complete", !.chunk = chunk]

\* drain_pending: the next complete line leaves pending before it is forwarded.
DrainLine ==
    /\ At("pending") /\ HasNewline(reader.pending)
    /\ reader' = [reader EXCEPT !.line = @ \o FirstLine(reader.pending),
                                !.pending = AfterLine(@)]
    /\ call' = [call EXCEPT !.at = "finish", !.back = "pending"]
    /\ UNCHANGED <<feed, clock, result, stage>>

\* drain_pending is over: buffer_available reads again, drain_buffered_chunks
\* drops stale prompts, a read looks into the buffer before it waits for bytes.
Drained ==
    /\ At("pending") /\ ~HasNewline(reader.pending)
    /\ LET r == [reader EXCEPT !.line = @ \o reader.pending, !.pending = <<>>]
           taken == take_chunk_from_buffer(r, opts)
       IN CASE call.what = "buffer" ->
                 /\ reader' = r /\ call' = [call EXCEPT !.at = "read"]
                 /\ UNCHANGED <<feed, result>>
            [] call.what = "drain" ->
                 /\ reader' = drain_buffered_chunks(r, opts)
                 /\ call' = Start("sync")
                 /\ feed' = [feed EXCEPT !.bytes = @ \o Sync]
                 /\ UNCHANGED result
            [] OTHER ->
                 /\ reader' = taken.rest
                 /\ IF taken.found THEN Return(taken.chunk)
                    ELSE call' = [call EXCEPT !.at = "read"] /\ UNCHANGED result
                 /\ UNCHANGED feed
    /\ UNCHANGED <<clock, stage>>

\* Fault: a marker is looked for in the bytes of one read only.
SeesProgressFault(line, text) == Holds(text, Progress)

\* try_read_until_with_progress_timeout
SeesProgress(line, text) ==
    Holds(line, Progress) \/ Holds(text, Progress) \/ Holds(line \o text, Progress)

\* One read of n bytes.
Read(n) ==
    /\ At("read")
    /\ LET d == decode(reader.non_utf8, SubSeq(feed.bytes, 1, n))
       IN /\ IF call.what = "buffer"
             THEN /\ reader' = [reader EXCEPT !.non_utf8 = d.held, !.pending = @ \o d.text]
                  /\ call' = [call EXCEPT !.at = "pending"]
             ELSE /\ reader' = [reader EXCEPT !.non_utf8 = d.held]
                  /\ call' = [call EXCEPT !.at = "split", !.data = d.text]
          /\ clock' = [progress |-> IF SeesProgress(reader.line, d.text) THEN 0 ELSE clock.progress,
                       marker |-> IF Holds(reader.line \o d.text, Progress) /\ ~Holds(reader.line, Progress)
                                  THEN 0 ELSE clock.marker]
    /\ feed' = [feed EXCEPT !.bytes = SubSeq(@, n + 1, Len(@))]
    /\ UNCHANGED <<result, stage>>

\* Ok(0): GHCi closed its stdout.
Eof ==
    /\ At("read") /\ feed.bytes = <<>> /\ feed.closed
    /\ IF call.what = "buffer" THEN call' = Start("drain")
       ELSE call' = [call EXCEPT !.at = "take", !.data = <<>>]
    /\ UNCHANGED <<reader, feed, clock, result, stage>>

\* One iteration of consume_str, up to the writer it awaits.  Escapes are
\* stripped only from a line that has no newline yet.
consume_str ==
    /\ At("split")
    /\ LET more == HasNewline(call.data)
           line == reader.line \o FirstLine(call.data)
           found == find(opts, IF more THEN line ELSE strip_str(line))
           rest == AfterLine(call.data)
       IN /\ reader' = [reader EXCEPT !.line = line]
          /\ CASE call.ret = NoChunk /\ found ->
                    call' = [call EXCEPT !.at = "take", !.data = rest] /\ UNCHANGED result
               [] more /\ ~(call.ret = NoChunk /\ found) ->
                    /\ call' = [call EXCEPT !.at = "finish", !.back = "split", !.data = rest]
                    /\ UNCHANGED result
               [] ~more /\ call.ret # NoChunk -> Return(call.ret[2])
               [] ~more /\ call.ret = NoChunk /\ ~found ->
                    call' = [call EXCEPT !.at = "pending", !.data = <<>>] /\ UNCHANGED result
    /\ UNCHANGED <<feed, clock, stage>>

\* Fault: the line that is complete is forwarded but not kept.
FinishLineFault(r) == [r EXCEPT !.line = <<>>]

\* IncrementalReader::finish_line once the writer has taken the line
finish_line(r) == [r EXCEPT !.lines = Append(@, r.line), !.line = <<>>]
FinishLine ==
    /\ At("finish")
    /\ reader' = finish_line(reader)
    /\ result' = IF opts.writing = "Hide" THEN result
                 ELSE [result EXCEPT !.forwarded = Append(@, reader.line)]
    /\ call' = [call EXCEPT !.at = call.back]
    /\ UNCHANGED <<feed, clock, stage>>

\* Fault: the line with the marker stays in the buffer.
TakeLinesFault ==
    /\ At("take")
    /\ reader' = [reader EXCEPT !.lines = <<>>]
    /\ call' = [call EXCEPT !.ret = Chunk(reader.lines), !.at = "split"]
    /\ result' = IF opts.writing = "Write"
                 THEN [result EXCEPT !.forwarded = Append(@, reader.line)] ELSE result
    /\ UNCHANGED <<feed, clock, stage>>

\* IncrementalReader::take_lines once the writer has taken the line
take_lines ==
    /\ At("take")
    /\ reader' = [reader EXCEPT !.lines = <<>>, !.line = <<>>]
    /\ call' = [call EXCEPT !.ret = Chunk(reader.lines), !.at = "split"]
    /\ result' = IF opts.writing = "Write"
                 THEN [result EXCEPT !.forwarded = Append(@, reader.line)] ELSE result
    /\ UNCHANGED <<feed, clock, stage>>

-----------------------------------------------------------------------------
(* Timers, cancellation and GHCi.                                          *)

\* Await points: the read, and a writer that has something to write.
Awaiting ==
    \/ At("read")
    \/ At("finish") /\ opts.writing # "Hide"
    \/ At("take") /\ opts.writing = "Write"

Tick ==
    /\ call.what = "progress" /\ At("read")
    /\ clock.progress < ProgressTimeout
    /\ clock' = [progress |-> clock.progress + 1, marker |-> clock.marker + 1]
    /\ UNCHANGED <<reader, call, feed, result, stage>>

\* A read that ends without its marker leaves the reader as it is; "data" and
\* "ret" are gone.  GHCi is interrupted: it drops a suffix of its output and
\* prints up to one more prompt.
Abandon(why) ==
    /\ call' = Start("buffer")
    /\ result' = [result EXCEPT !.is = why]
    /\ \E k \in 0..Len(feed.bytes), again \in {<<>>, Prompt} :
         feed' = [feed EXCEPT !.bytes = SubSeq(@, 1, k) \o again]
    /\ UNCHANGED <<reader, clock, stage>>

Inactive ==
    /\ call.what = "progress" /\ At("read") /\ clock.progress = ProgressTimeout
    /\ Abandon("inactive")

Cancel ==
    /\ call.what \in Reads /\ stage.name = "first" /\ Awaiting /\ ~feed.closed
    /\ Abandon("cancelled")

\* buffer_available: its timeout drops the future at any of its awaits.
BufferTimeout ==
    /\ call.what = "buffer" /\ Awaiting
    /\ call' = Start("drain")
    /\ UNCHANGED <<reader, feed, clock, result, stage>>

\* GHCi exits: what it did not print is never read.
Close ==
    /\ call.what \in Reads /\ stage.name = "first" /\ ~feed.closed
    /\ \E k \in 0..(Len(feed.bytes) - 1) :
         /\ feed' = [bytes |-> SubSeq(feed.bytes, 1, k), closed |-> TRUE]
         /\ stage' = [stage EXCEPT !.response =
                        SubSeq(@ \o Prompt, 1, Len(@) + Len(Prompt) - Len(feed.bytes) + k)]
    /\ UNCHANGED <<reader, call, clock, result>>

\* The next command, after a complete read or after the sync barrier.
NextCommand ==
    /\ call.what = "idle" /\ ~feed.closed
    /\ stage.name = "first"
    /\ \E r \in FollowUps, what \in Reads :
         /\ stage' = [name |-> "next", response |-> r]
         /\ call' = Start(what)
         /\ feed' = [feed EXCEPT !.bytes = @ \o r \o Prompt]
    /\ clock' = [progress |-> 0, marker |-> 0]
    /\ result' = [is |-> "none", chunk |-> <<>>, forwarded |-> <<>>]
    /\ UNCHANGED reader

Next ==
    \/ DrainLine \/ Drained \/ Eof \/ consume_str \/ FinishLine \/ take_lines
    \/ \E n \in 1..Len(feed.bytes) : Read(n)
    \/ Tick \/ Inactive \/ Cancel \/ BufferTimeout \/ Close \/ NextCommand

Spec == Init /\ [][Next]_vars

-----------------------------------------------------------------------------
(* Properties.                                                             *)

Chars == (Bytes \ {"u1", "u2", "x"}) \union {"u", "?"}
TypeOK ==
    /\ reader.lines \in Seq(Seq(Chars)) /\ reader.line \in Seq(Chars)
    /\ reader.pending \in Seq(Chars) /\ reader.non_utf8 \in {<<>>, <<"u1">>}
    /\ call.what \in Reads \union {"buffer", "drain", "sync", "idle"}
    /\ call.at \in {"pending", "read", "split", "finish", "take", "idle"}
    /\ clock.progress \in 0..ProgressTimeout
    /\ result.is \in {"none", "complete", "inactive", "cancelled"}

(* The reference: the whole response at once, cut at its newlines.          *)
Newlines(s) == SetToSortSeq({i \in DOMAIN s : s[i] = "n"}, <)
CompleteLines(s) ==
    LET at == <<0>> \o Newlines(s)
    IN [i \in 1..(Len(at) - 1) |-> SubSeq(s, at[i] + 1, at[i + 1] - 1)]
Partial(s) == SubSeq(s, Max({i \in DOMAIN s : s[i] = "n"} \union {0}) + 1, Len(s))
Valid(bytes) == ~Holds(Lossy(bytes), <<"?">>)

\* A read returns the complete lines of its response and forwards them (Write:
\* with the marker's line), however the bytes were cut into reads, in the middle
\* of a character, a marker or a line, and whatever happened to the read before
\* (decode, consume_str, take_lines; sync_barrier after a cancelled one).
ReadIsReference ==
    (call.what = "idle" /\ call.back \in Reads /\ result.is = "complete" /\ Valid(stage.response)) =>
        LET lines == CompleteLines(Lossy(stage.response))
            all == IF feed.closed THEN Lossy(stage.response) ELSE Lossy(stage.response \o Prompt)
        IN /\ result.chunk = lines
           /\ result.forwarded = CASE call.back = "show" -> <<>>
                                   [] call.back = "boot" -> Append(lines, Partial(all))
                                   [] OTHER -> lines

\* No read waits for a marker that has already arrived: not when it was split, not
\* behind escapes or undecodable bytes, and not when it was buffered by an earlier
\* call that timed out (try_read_until, buffer_available, read_until_marker).
NoMissedMarker ==
    ~(At("read") /\ call.what \in Reads \union {"sync"} /\ feed.bytes = <<>> /\ ~feed.closed)

\* A compilation is given up as inactive only when no progress marker was
\* completed for the whole timeout, also when its bytes came in two reads.
InactiveHasNoProgress ==
    (call.what = "progress" /\ clock.progress = ProgressTimeout) => clock.marker >= ProgressTimeout

\* Between two commands nothing is left in the buffers.
IdleIsEmpty == (call.what = "idle" /\ ~feed.closed) => reader = Empty
=============================================================================
