--------------------------- MODULE CommandSession ---------------------------
(***************************************************************************)
(* What the pipe protocol promises to the rest of ghciwatch: a GHCi        *)
(* session behaves like a service that takes one command at a time and     *)
(* answers it with what GHCi printed for that command -- all of it, once,  *)
(* and nothing else -- although the answer travels over two unordered      *)
(* pipes, commands are cancelled half way and GHCi prints prompts nobody   *)
(* asked for.  PipeProtocol is checked to implement this specification.    *)
(***************************************************************************)
EXTENDS Naturals, Sequences, SequencesExt

VARIABLES
    phase,      \* "ready", "busy", "recovering" (SIGINT and resynchronisation) or "lost"
    due,        \* output of the current attempt at the command
    own,        \* output of every attempt at the command
    answer      \* what the last answered command was told

vars == <<phase, due, own, answer>>

\* GHCi starts up by itself; its start-up output is the answer to no command
\* line, but initialization waits for it like for any other command.
Init ==
    /\ phase = "busy"
    /\ due = {}
    /\ own = {}
    /\ answer = <<>>

Submit ==
    /\ phase = "ready"
    /\ phase' = "busy"
    /\ due' = {}
    /\ own' = {}
    /\ answer' = <<>>

\* GHCi prints something for the command (also after a SIGINT was sent to it).
Produce ==
    /\ phase \in {"busy", "recovering"}
    /\ \E x \in own' \ own : own' = own \union {x} /\ due' \in {due, due \union {x}}
    /\ phase = "busy" => due' # due
    /\ UNCHANGED <<phase, answer>>

Answer ==
    /\ phase = "busy"
    /\ phase' = "ready"
    /\ due \subseteq ToSet(answer') /\ ToSet(answer') \subseteq own
    /\ IsInjective(answer')
    /\ UNCHANGED <<due, own>>

\* The session is told to give the command up ...
Interrupt ==
    /\ phase = "busy"
    /\ phase' = "recovering"
    /\ due' = {}
    /\ UNCHANGED <<own, answer>>

\* ... and is usable again: for the next command, or for the rest of this one (a
\* second attempt, or the answer that its first error has made possible).
Recover ==
    /\ phase = "recovering"
    /\ phase' \in {"ready", "busy"}
    /\ UNCHANGED <<due, own, answer>>

\* The process is gone or can no longer be trusted and is replaced.
Lose ==
    /\ phase \in {"ready", "busy", "recovering"}
    /\ phase' = "lost"
    /\ UNCHANGED <<due, own, answer>>

\* A start-up failure is reported with the diagnostics of the dead process.
Report ==
    /\ phase = "lost"
    /\ ToSet(answer') \subseteq own /\ IsInjective(answer')
    /\ UNCHANGED <<phase, due, own>>

Next == Submit \/ Produce \/ Answer \/ Interrupt \/ Recover \/ Lose \/ Report

Spec == Init /\ [][Next]_vars
=============================================================================
