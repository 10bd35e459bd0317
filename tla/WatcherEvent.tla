---------------------------- MODULE WatcherEvent ----------------------------
(***************************************************************************)
(* The watcher events that flow from the file watcher to the GHCi manager  *)
(* (src/ghci/manager.rs), and the operations on them: merge,               *)
(* discard_applied and mark_applied.                                       *)
(*                                                                         *)
(* A partial map of the code is a total function here: a path that is not  *)
(* a key has the value "none" (no event hint), Unknown (no captured state) *)
(* or Missing (no such file in a source snapshot).                         *)
(***************************************************************************)

CONSTANTS
    Source,       \* Haskell sources that may become GHCi targets
    Ignored,      \* Haskell sources a negated --reload-glob excludes: scanned only
    Package,      \* Haskell sources matched by --restart-glob: never targets
    RestartGlob,  \* .cabal/.ghci files and other --restart-glob matches
    Extra,        \* --reload-glob matches that are not Haskell sources
    Contents,     \* contents of a file, told apart by their hash
    Missing,      \* FileStateKind::Missing
    Unknown,      \* no FileState recorded for the path
    NoEvent,      \* Option<WatcherEvent>::None
    NoSnapshot    \* Option<SourceSnapshot>::None

Path == Source \union Ignored \union Package \union RestartGlob \union Extra
Haskell == Source \union Ignored \union Package
Restarting == Package \union RestartGlob
FileState == Contents \union {Missing}

\* is_haskell_source_file and the globs tell the five kinds of path apart.
ASSUME PathKindsDisjoint ==
    /\ Source \intersect (Ignored \union Package) = {} /\ Ignored \intersect Package = {}
    /\ Haskell \intersect (RestartGlob \union Extra) = {}
    /\ RestartGlob \intersect Extra = {}

ASSUME FileStatesDistinct == Missing \notin Contents /\ Unknown \notin FileState

SourceSnapshot == [Haskell -> FileState]
Event == [events   : [Path -> {"none", "modify", "remove"}],
          states   : [Path -> FileState \union {Unknown}],
          snapshot : SourceSnapshot]
OptionEvent == Event \union {NoEvent}

ASSUME OptionsDistinct == NoEvent \notin Event /\ NoSnapshot \notin SourceSnapshot

-----------------------------------------------------------------------------
\* FileClassifier::is_potentially_relevant: which changes are worth a hint.
is_potentially_relevant(p) == p \notin Ignored

\* FileEvent::Modify or FileEvent::Remove, from what a look at the file found.
EventKind(state) == IF state = Missing THEN "remove" ELSE "modify"

Hints(event) == {p \in Path : event.events[p] # "none"}

haskell_files(snapshot) == {p \in Haskell : snapshot[p] # Missing}

\* Fault: the newer event replaces the older one.
NewerOnly(older, newer) == newer

\* WatcherEvent::merge: the newer hint and state of each path win, and the
\* newer snapshot replaces the older one.
merge(older, newer) ==
    [events   |-> [p \in Path |-> IF newer.events[p] # "none"
                                  THEN newer.events[p] ELSE older.events[p]],
     states   |-> [p \in Path |-> IF newer.states[p] # Unknown
                                  THEN newer.states[p] ELSE older.states[p]],
     snapshot |-> newer.snapshot]

merge_option(older, newer) ==
    IF older = NoEvent THEN newer ELSE merge(older, newer)

\* drain_pending merges what the channel holds, oldest first; the dispatch
\* channel holds at most one event.
drain_pending(event, chan) ==
    IF chan = <<>> THEN event ELSE merge(event, chan[1])

\* WatcherEvent::discard_applied, in its two effects: the hints it strips, and
\* whether it reports the event as applied already.
strip_applied(event, applied) ==
    [event EXCEPT !.events = [p \in Path |->
        IF event.states[p] = applied[p] THEN "none" ELSE event.events[p]]]

\* Fault: a path that was applied once counts as applied, whatever its state.
IsAppliedByPath(event, applied, appliedSnapshot) ==
    \A p \in Hints(event) : applied[p] # Unknown

is_applied(event, applied, appliedSnapshot) ==
    /\ Hints(strip_applied(event, applied)) = {}
    /\ appliedSnapshot = event.snapshot

\* WatcherEvent::mark_applied on applied_states (applied_source_snapshot simply
\* becomes the event's snapshot).
mark_applied(event, applied) ==
    [p \in Path |-> IF event.states[p] # Unknown THEN event.states[p] ELSE applied[p]]
=============================================================================
