----------------------- MODULE IncrementalReaderProofs -----------------------
(***************************************************************************)
(* The progress timeout of IncrementalReader for every value of its        *)
(* constants.  What a read returns is a matter of induction over the bytes *)
(* and stays with TLC.                                                     *)
(***************************************************************************)
EXTENDS IncrementalReader, TLAPS

\* The inductive invariant: the timer of a read never runs ahead of the time that
\* has really passed since a progress marker was completed.
ClockInv ==
    /\ clock \in [progress : Nat, marker : Nat]
    /\ clock.progress <= clock.marker

\* A marker that the bytes of a read complete is seen, wherever it was cut: the
\* line and the new text are searched together (try_read_until_with_progress_timeout).
LEMMA CompletedIsSeen ==
    ASSUME NEW line, NEW text, Holds(line \o text, Progress) PROVE SeesProgress(line, text)
  BY DEF SeesProgress

\* A read resets the timer whenever a marker is completed, so it keeps the order.
LEMMA ReadClock ==
    ASSUME ClockInv, NEW n, Read(n) PROVE ClockInv'
  <1> DEFINE d == decode(reader.non_utf8, SubSeq(feed.bytes, 1, n))
             seen == SeesProgress(reader.line, d.text)
             completed == /\ Holds(reader.line \o d.text, Progress)
                          /\ ~Holds(reader.line, Progress)
             p == IF seen THEN 0 ELSE clock.progress
             m == IF completed THEN 0 ELSE clock.marker
  <1>1. clock' = [progress |-> p, marker |-> m]
    BY DEF Read
  <1>2. completed => seen
    BY CompletedIsSeen
  <1>3. p \in Nat /\ m \in Nat /\ p <= m
    <2> HIDE DEF d, seen, completed
    <2> QED  BY <1>2 DEF ClockInv
  <1> HIDE DEF p, m
  <1> QED  BY <1>1, <1>3 DEF ClockInv

\* A tick passes for both; a new command starts both; nothing else touches them.
LEMMA ClockInvariant == Spec => []ClockInv
  <1>1. Init => ClockInv
    BY DEF Init, ClockInv
  <1>2. ClockInv /\ [Next]_vars => ClockInv'
    <2> SUFFICES ASSUME ClockInv, [Next]_vars PROVE ClockInv'
      OBVIOUS
    <2>1. ASSUME UNCHANGED clock PROVE ClockInv'
      BY <2>1 DEF ClockInv
    <2>2. CASE \E n \in 1..Len(feed.bytes) : Read(n)
      BY <2>2, ReadClock
    <2>3. CASE Tick
      <3>1. clock' = [progress |-> clock.progress + 1, marker |-> clock.marker + 1]
        BY <2>3 DEF Tick
      <3> QED  BY <3>1 DEF ClockInv
    <2>4. CASE NextCommand
      <3>1. clock' = [progress |-> 0, marker |-> 0]
        BY <2>4 DEF NextCommand
      <3> QED  BY <3>1 DEF ClockInv
    <2>5. CASE DrainLine \/ Drained \/ Eof \/ consume_str \/ FinishLine \/ take_lines
      BY <2>1, <2>5 DEF DrainLine, Drained, Eof, consume_str, FinishLine, take_lines
    <2>6. CASE Inactive \/ Cancel \/ BufferTimeout \/ Close
      BY <2>1, <2>6 DEF Inactive, Cancel, Abandon, BufferTimeout, Close
    <2>7. CASE UNCHANGED vars
      BY <2>1, <2>7 DEF vars
    <2> QED  BY <2>2, <2>3, <2>4, <2>5, <2>6, <2>7 DEF Next
  <1> QED  BY <1>1, <1>2, PTL DEF Spec

\* A compilation is given up as inactive only when no progress marker was completed
\* for the whole timeout, for all that GHCi may print, however it is cut into reads,
\* and for every timeout (read_until_with_progress_timeout).
THEOREM InactivityIsReal == Spec => []InactiveHasNoProgress
  <1>1. ClockInv => InactiveHasNoProgress
    BY ReaderAssumption DEF ClockInv, InactiveHasNoProgress, ReaderAssumption
  <1> QED  BY <1>1, ClockInvariant, PTL
=============================================================================
