------------------------- MODULE WatcherEventProofs -------------------------
(***************************************************************************)
(* What the operations on watcher events return and preserve.  The proofs  *)
(* about the pipeline and about session recovery cite these lemmas.        *)
(***************************************************************************)
EXTENDS WatcherEvent, Sequences, TLAPS

\* WatcherEvent::merge of two events is an event.
LEMMA MergeType ==
    ASSUME NEW a \in Event, NEW b \in Event PROVE merge(a, b) \in Event
  BY DEF merge, Event

\* The coalescer's and handle_event's Option<WatcherEvent> merges yield an event.
LEMMA MergeOptionType ==
    ASSUME NEW a \in OptionEvent, NEW b \in Event PROVE merge_option(a, b) \in Event
  BY MergeType DEF merge_option, OptionEvent

\* drain_pending yields an event, whatever the dispatch channel holds.
LEMMA DrainType ==
    ASSUME NEW e \in Event, NEW c \in Seq(Event) PROVE drain_pending(e, c) \in Event
  BY MergeType DEF drain_pending

\* discard_applied leaves an event behind.
LEMMA StripType ==
    ASSUME NEW e \in Event, NEW a PROVE strip_applied(e, a) \in Event
  BY DEF strip_applied, Event

\* mark_applied keeps applied_states a map from paths to file states.
LEMMA MarkType ==
    ASSUME NEW e \in Event, NEW a \in [Path -> FileState \union {Unknown}]
    PROVE  mark_applied(e, a) \in [Path -> FileState \union {Unknown}]
  BY DEF mark_applied, Event

\* haskell_files picks Haskell paths of a snapshot.
LEMMA FilesType ==
    ASSUME NEW s PROVE haskell_files(s) \in SUBSET Haskell
  BY DEF haskell_files

-----------------------------------------------------------------------------
(***************************************************************************)
(* What an event says of a path p whose present state is d.                *)
(***************************************************************************)
\* The event holds the present state; and it also asks for work on the path.
Records(e, p, d) == e # NoEvent /\ e.states[p] = d
Mentions(e, p, d) == Records(e, p, d) /\ e.events[p] # "none"

\* Once an event records the present state, no newer event records another.
Ordered(older, newer, p, d) ==
    Records(older, p, d) /\ newer # NoEvent => newer.states[p] \in {Unknown, d}

\* An event that records the present state has lost its hint only if that state is l.
HintOr(e, p, d, l) == Records(e, p, d) /\ e.events[p] = "none" => l = d

\* Every state and snapshot in the event was on disk: u holds the states seen.
OnceOnDisk(e, u) ==
    e # NoEvent => /\ \A p \in Path : e.states[p] \in u[p] \union {Unknown}
                   /\ \A p \in Haskell : e.snapshot[p] \in u[p]

\* WatcherEvent::merge keeps what the newer event says, and what the older one says
\* where the newer one is not against it.
LEMMA MergeFacts ==
    ASSUME NEW a \in OptionEvent, NEW b \in Event, NEW p \in Path, NEW d \in FileState
    PROVE  /\ merge_option(a, b).snapshot = b.snapshot
           /\ Records(merge_option(a, b), p, d) => Records(a, p, d) \/ Records(b, p, d)
           /\ Mentions(b, p, d) => Mentions(merge_option(a, b), p, d)
           /\ Mentions(a, p, d) /\ Ordered(a, b, p, d) => Mentions(merge_option(a, b), p, d)
  BY FileStatesDistinct, OptionsDistinct, MergeOptionType, MergeType
     DEF merge_option, merge, Records, Mentions, Ordered, OptionEvent, Event

\* Merging keeps the order of events: with an event before both, with one after both.
LEMMA MergeOrder ==
    ASSUME NEW a \in OptionEvent, NEW b \in Event, NEW p \in Path, NEW d \in FileState, NEW z
    PROVE  /\ Ordered(z, a, p, d) /\ Ordered(z, b, p, d) => Ordered(z, merge_option(a, b), p, d)
           /\ Ordered(a, z, p, d) /\ Ordered(b, z, p, d) => Ordered(merge_option(a, b), z, p, d)
  BY FileStatesDistinct, OptionsDistinct, MergeOptionType, MergeType
     DEF merge_option, merge, Records, Ordered, OptionEvent, Event

\* Merging drops no hint that either event has.
LEMMA MergeHint ==
    ASSUME NEW a \in OptionEvent, NEW b \in Event, NEW p \in Path, NEW d \in FileState, NEW l,
           HintOr(a, p, d, l), HintOr(b, p, d, l)
    PROVE  HintOr(merge_option(a, b), p, d, l)
  BY FileStatesDistinct, OptionsDistinct DEF merge_option, merge, Records, HintOr, OptionEvent, Event

\* Merging invents no state.
LEMMA MergeSeen ==
    ASSUME NEW a \in OptionEvent, NEW b \in Event, NEW u, OnceOnDisk(a, u), OnceOnDisk(b, u)
    PROVE  OnceOnDisk(merge_option(a, b), u)
  BY OptionsDistinct DEF merge_option, merge, OnceOnDisk, OptionEvent, Event

\* discard_applied drops a hint only where the state counts as applied.
LEMMA StripFacts ==
    ASSUME NEW e \in Event, NEW a, NEW p \in Path, NEW d
    PROVE  /\ strip_applied(e, a).snapshot = e.snapshot
           /\ Records(strip_applied(e, a), p, d) = Records(e, p, d)
           /\ Mentions(e, p, d) => Mentions(strip_applied(e, a), p, d) \/ a[p] = d
           /\ e.events[p] = "none" => strip_applied(e, a).events[p] = "none"
  BY OptionsDistinct, StripType DEF strip_applied, Records, Mentions, Event

\* discard_applied leaves the states alone, and with them the order of events.
LEMMA StripOrder ==
    ASSUME NEW e \in Event, NEW a, NEW p \in Path, NEW d, NEW z, Ordered(e, z, p, d)
    PROVE  Ordered(strip_applied(e, a), z, p, d)
  BY OptionsDistinct, StripType DEF strip_applied, Records, Ordered, Event

\* discard_applied drops the hint of a present state only if that is applied.
LEMMA StripHint ==
    ASSUME NEW e \in Event, NEW a, NEW p \in Path, NEW d, NEW l,
           HintOr(e, p, d, l), a[p] = d => l = d
    PROVE  HintOr(strip_applied(e, a), p, d, l)
  BY OptionsDistinct, StripType DEF strip_applied, Records, HintOr, Event

\* discard_applied invents no state.
LEMMA StripSeen ==
    ASSUME NEW e \in Event, NEW a, NEW u, OnceOnDisk(e, u)
    PROVE  OnceOnDisk(strip_applied(e, a), u)
  BY OptionsDistinct, StripType DEF strip_applied, OnceOnDisk, Event

\* discard_applied reports an event as applied only if each state it asks work for is,
\* and its snapshot is the applied one.
LEMMA AppliedFacts ==
    ASSUME NEW e \in Event, NEW a, NEW s, NEW p \in Path, NEW d
    PROVE  is_applied(e, a, s) => (Mentions(e, p, d) => a[p] = d) /\ s = e.snapshot
  BY DEF is_applied, Hints, strip_applied, Records, Mentions, Event

\* mark_applied takes the event's states and keeps the others.
LEMMA MarkFacts ==
    ASSUME NEW e \in Event, NEW a, NEW p \in Path
    PROVE  mark_applied(e, a)[p] = IF e.states[p] # Unknown THEN e.states[p] ELSE a[p]
  BY DEF mark_applied
=============================================================================
