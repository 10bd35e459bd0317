--------------------------- MODULE ReloadActions ---------------------------
(***************************************************************************)
(* Which GHCi work a watcher event asks for: Ghci::get_reload_actions and  *)
(* FileClassifier::classify (src/ghci/mod.rs, src/ghci/file_classifier.rs).*)
(***************************************************************************)
EXTENDS WatcherEvent

CONSTANTS
    AutoReload,      \* ~ --no-auto-reload
    RestartOnAdd,    \* --restart-on-add
    ReplaceAutoAdd   \* --replace-auto-add-shell is given

ASSUME OptionsBoolean == {AutoReload, RestartOnAdd, ReplaceAutoAdd} \subseteq BOOLEAN

Actions == [restart : SUBSET Path, reload : SUBSET Path,
            add : SUBSET Source, remove : SUBSET Source]

NoActions == [restart |-> {}, reload |-> {}, add |-> {}, remove |-> {}]

\* Haskell hints follow the snapshot; other hints keep their own kind.
reconcile(events, files) ==
    [p \in Path |-> IF p \in Haskell /\ events[p] # "none"
                    THEN IF p \in files THEN "modify" ELSE "remove"
                    ELSE events[p]]

\* FileClassifier::classify. A removed source that is no target matches no arm:
\* it asks for nothing.
classify(events, targets) ==
    LET Hinted(kind) == {p \in Path : events[p] = kind}
    IN  [restart |-> {p \in Restarting : events[p] # "none"},
         remove  |-> Hinted("remove") \intersect targets,
         reload  |-> (Hinted("modify") \intersect targets)
                         \union {p \in Extra : events[p] # "none"},
         add     |-> (Hinted("modify") \intersect Source) \ targets]

get_reload_actions(hints, files, known, targets, initFailed) ==
    LET events  == reconcile(hints, files)
        hinted  == classify(events, targets)
        recover == IF initFailed /\ ~AutoReload
                   THEN {p \in Haskell : events[p] # "none"} ELSE {}
        reload  == IF AutoReload THEN hinted.reload ELSE {}
        add     == hinted.add \union (((files \intersect Source) \ known) \ targets)
        remove  == hinted.remove \union ((known \ files) \intersect targets)
    IN  CASE ReplaceAutoAdd ->
                 [restart |-> hinted.restart \union recover,
                  reload  |-> reload \union (add \intersect known),
                  add     |-> add \ known, remove |-> remove]
          [] ~ReplaceAutoAdd /\ RestartOnAdd ->
                 [restart |-> hinted.restart \union recover \union add,
                  reload  |-> reload, add |-> {}, remove |-> remove]
          [] OTHER ->
                 [restart |-> hinted.restart \union recover,
                  reload  |-> reload, add |-> add, remove |-> remove]

needs_restart(a) == a.restart # {}
needs_modify(a) == a.reload # {} \/ a.add # {} \/ a.remove # {}
=============================================================================
