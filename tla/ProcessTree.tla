---------------------------- MODULE ProcessTree ----------------------------
(***************************************************************************)
(* The processes of one GHCi session (src/ghci/process.rs) and its memory  *)
(* watchdog (src/ghci/memory.rs): the command, the Cabal and the           *)
(* interactive GHC below it, and whatever the session starts.  /proc is    *)
(* read one process at a time while they fork, leave their group, exec and *)
(* exit, and while the kernel gives their PIDs to others.                  *)
(***************************************************************************)
EXTENDS Integers, FiniteSets, FiniteSetsExt

CONSTANTS
    MaxPid,         \* bound: PIDs are 1..MaxPid
    MaxBirths,      \* bound: processes created after the session
    Limit           \* GHCI_MEMORY_LIMIT_BYTES

ASSUME ProcessAssumption == MaxPid \in Nat /\ MaxPid > 4 /\ MaxBirths \in Nat /\ Limit \in Nat \ {0}

Pids == 1..MaxPid
\* The session: PID 1 stays free for what it starts.  The command leads its group.
Command == 2
Cabal == 3
Ghc == 4
Images == {"cabal", "ghci", "other"}        \* "ghci": a GHC with --interactive
Init1 == 0                                  \* the parent of orphans

VARIABLES
    table,      \* [Pids -> None or a process], the kernel's process table
    load,       \* [Pids -> the executable and the memory held], while the watchdog watches
    births,     \* processes created so far: their start times
    at,         \* where run_with_watchdog or kill_process_tree is
    caller,     \* who kills: "watcher" (GhciProcess::stop) or "recovery" (force_kill)
    snapshot,   \* the processes read from /proc so far
    cursor,     \* the next PID to read
    todo,       \* processes of this pass that are still to be tracked
    captured,   \* processes pinned by track_process; a process here is <<PID, start time>>
    usage,      \* MemoryUsage of the current sample
    error,      \* first_kill_error
    hist        \* history: an unrelated process was signalled; the command was reaped during
                \* the kill; the sample began over the limit; the sample tripped on its own memory

vars == <<table, load, births, at, caller, snapshot, cursor, todo, captured, usage, error, hist>>

None == [start |-> 0, ppid |-> 0]
Nobody == [p \in Pids |-> None]
Process(start, ppid, pgid, kin) ==
    [start |-> start, ppid |-> ppid, pgid |-> pgid, state |-> "run", kin |-> kin]
Load(image, mem) == [image |-> image, mem |-> mem]
InitialLoad == [p \in Pids |-> CASE p = Cabal -> Load("cabal", 0) [] p = Ghc -> Load("ghci", 0)
                                  [] OTHER -> Load("other", 0)]
Present(t) == {p \in Pids : t[p] # None}
Live(t) == {p \in Present(t) : t[p].state # "zombie"}

NoUsage == [cabal |-> 0, ghc |-> 0, bytes |-> 0, lazy |-> 0, swap |-> 0]
Init ==
    /\ table = [p \in Pids |-> CASE p = Command -> Process(1, Init1, Command, "kin")
                                 [] p = Cabal -> Process(2, Command, Command, "kin")
                                 [] p = Ghc -> Process(3, Cabal, Command, "kin")
                                 [] OTHER -> None]
    /\ load = InitialLoad
    /\ births = 3 /\ at = "watch" /\ caller = "none"
    /\ snapshot = Nobody /\ cursor = 1 /\ todo = {} /\ captured = {}
    /\ usage = NoUsage
    /\ error = FALSE
    /\ hist = [hit |-> FALSE, reaped |-> FALSE, due |-> FALSE, missed |-> FALSE, unfair |-> FALSE]

-----------------------------------------------------------------------------
(* Walking a snapshot.                                                     *)

\* The chain of parents from pid upwards
Ancestor(pid, t) ==
    LET above[n \in 0..MaxPid] ==
            IF n = 0 THEN pid
            ELSE LET q == above[n - 1]
                 IN  IF q \in Pids /\ t[q] # None /\ t[q].ppid # q THEN t[q].ppid ELSE Init1
    IN  above

\* process_tree: the least set with the command, every member of its group and the
\* children of its members; of it, what the snapshot has
Families(t) ==
    {f \in SUBSET (Present(t) \union {Command}) :
        /\ Command \in f
        /\ \A p \in Present(t) : t[p].pgid = Command \/ t[p].ppid \in f => p \in f}
process_tree(t) == {p \in Present(t) : \A f \in Families(t) : p \in f}

\* descendant_depth: parents are followed for as many steps as there are processes
descendant_depth(pid, ancestor, t) ==
    LET above == Ancestor(pid, t)
        depths == {n \in 0..(Cardinality(Present(t)) - 1) : above[n] = ancestor}
    IN  IF depths = {} THEN -1 ELSE Min(depths)

\* Fault: any interactive GHC below the command is taken for the session.
CandidatesFault(t) ==
    {g \in Present(t) :
        /\ t[g].image = "ghci"
        /\ descendant_depth(g, Command, t) > 0
        /\ t[g].ppid \in Present(t)}
\* select_repl_processes: an interactive GHC two below the command whose parent,
\* one below it, is a Cabal
Candidates(t) ==
    {g \in Present(t) :
        /\ Command \in Present(t) /\ t[Command].pgid = Command
        /\ t[g].image = "ghci"
        /\ descendant_depth(g, Command, t) = 2
        /\ t[g].ppid \in Present(t) /\ t[t[g].ppid].image = "cabal"
        /\ descendant_depth(t[g].ppid, Command, t) = 1}
select_repl_processes(t) ==
    LET g == Min(Candidates(t))
    IN  IF Candidates(t) = {} THEN NoUsage ELSE [NoUsage EXCEPT !.cabal = t[g].ppid, !.ghc = g]

-----------------------------------------------------------------------------
(* The operating system.                                                   *)

\* A descendant that is neither in the group nor below a known process is lost.
Relabel(t) ==
    LET lost == {p \in Live(t) : t[p].kin = "kin"} \ process_tree(t)
    IN  [p \in Pids |-> IF p \in lost THEN [t[p] EXCEPT !.kin = "lost"] ELSE t[p]]
\* Orphans are adopted; ghciwatch's child stays a zombie until it is waited for.
Remove(t, dead) ==
    [p \in Pids |-> CASE p \in dead /\ t[p].start = 1 ->
                           [t[p] EXCEPT !.state = "zombie"]
                      [] p \in dead /\ t[p].start # 1 -> None
                      [] p \notin dead /\ t[p] # None /\ t[p].ppid \in dead ->
                           [t[p] EXCEPT !.ppid = Init1]
                      [] OTHER -> t[p]]
\* A PID is free when neither a process nor a group has it.
Free(p) == table[p] = None /\ \A q \in Present(table) : table[q].pgid # p

Watching == {"watch", "sample", "rollup"}
Unrelated == <<at, caller, snapshot, cursor, todo, captured, usage, error, hist>>
Active == {p \in Live(table) : table[p].state = "run"}

\* The session's GHC runs tests and commands, which fork in turn.
Fork(p, q) ==
    /\ p \in Active /\ table[p].start > 2 /\ table[p].kin # "other" /\ Free(q)
    /\ births < 3 + MaxBirths /\ births' = births + 1
    /\ table' = [table EXCEPT ![q] = [table[p] EXCEPT !.start = births + 1, !.ppid = p]]
    /\ load' = IF at \in Watching THEN [load EXCEPT ![q] = load[p]] ELSE load
    /\ UNCHANGED Unrelated
\* What the session starts execs once, and is a large test, compiler or GHCi.
Exec(p, image) ==
    /\ at \in Watching /\ p \in Active /\ table[p].start > 3 /\ table[p].ppid # Init1
    /\ load[p].image = load[table[p].ppid].image /\ load[p].image # image
    /\ load' = [load EXCEPT ![p] = Load(image, Limit)]
    /\ UNCHANGED <<table, births, Unrelated>>
Grow(p) ==
    /\ at \in Watching /\ p \in Active /\ table[p].start <= 3 /\ load[p].mem < Limit
    /\ load' = [load EXCEPT ![p].mem = @ + 1]
    /\ UNCHANGED <<table, births, Unrelated>>
\* Leaving the group makes no difference to a sample, and can as well happen later.
SetPgid(p) ==
    /\ at \notin Watching /\ p \in Active /\ table[p].start > 3 /\ table[p].pgid # p
    /\ table' = Relabel([table EXCEPT ![p].pgid = p])
    /\ UNCHANGED <<load, births, Unrelated>>
Exit(p) ==
    /\ p \in Active
    /\ table' = Relabel(Remove(table, {p}))
    /\ load' = [load EXCEPT ![p] = InitialLoad[p]]
    /\ UNCHANGED <<births, Unrelated>>
\* Another process of the machine is given a PID: a large GHCi of somebody else, say.
Arrives(q) ==
    /\ Free(q) /\ births < 3 + MaxBirths /\ births' = births + 1
    /\ table' = [table EXCEPT ![q] = Process(births + 1, Init1, q, "other")]
    /\ load' = IF at \in Watching THEN [load EXCEPT ![q] = Load("ghci", Limit)] ELSE load
    /\ UNCHANGED Unrelated

-----------------------------------------------------------------------------
(* The memory watchdog: repl_resident_memory and memory_limit_exceeded.    *)

Start(p) == table[p].start
\* The session's two processes are still themselves, and what they hold together
Intact == \A i \in {Command, Cabal, Ghc} : Start(i) = i - 1 /\ i \in Live(table)
OwnMemory == load[Cabal].mem + load[Ghc].mem

BeginSample ==
    /\ at = "watch" /\ at' = "sample"
    /\ snapshot' = Nobody /\ cursor' = 1
    /\ hist' = [hist EXCEPT !.due = Intact /\ OwnMemory >= Limit]
    /\ UNCHANGED <<table, load, births, caller, todo, captured, usage, error>>
\* process_snapshot, one entry of /proc: parse_process_stat, parse_process_status and
\* the executable
Stat(p) == IF table[p] = None THEN None
           ELSE IF at = "sample" THEN [ppid |-> table[p].ppid, pgid |-> table[p].pgid, image |-> load[p].image]
           ELSE [ppid |-> table[p].ppid, pgid |-> table[p].pgid, start |-> Start(p)]
NoSample == snapshot' = Nobody /\ cursor' = 1 /\ usage' = NoUsage
Read ==
    /\ cursor \in Pids
    /\ snapshot' = [snapshot EXCEPT ![cursor] = Stat(cursor)]
    /\ cursor' = cursor + 1
SampleReads ==
    /\ at = "sample" /\ Read
    /\ UNCHANGED <<table, load, births, at, caller, todo, captured, usage, error, hist>>
\* The watchdog goes back to sleep.
Over(below) ==
    /\ at' = "watch" /\ NoSample
    /\ hist' = [hist EXCEPT !.due = FALSE, !.missed = @ \/ (below /\ hist.due /\ Intact)]
Select ==
    /\ at = "sample" /\ cursor \notin Pids
    /\ LET selected == select_repl_processes(snapshot)
       IN  IF selected = NoUsage THEN Over(TRUE)
           ELSE /\ usage' = selected /\ snapshot' = Nobody /\ cursor' = 1
                /\ at' = "rollup" /\ UNCHANGED hist
    /\ UNCHANGED <<table, load, births, caller, todo, captured, error>>

\* parse_rollup: what smaps_rollup says of a process that holds mem; a walk of a
\* changing address space can be inconsistent.
Reports(mem) == {r \in [rss : 0..(Limit + 1), lazy : 0..1, swap : 0..1] : r.rss - r.lazy + r.swap = mem}
Consistent(r) == r.lazy <= r.rss
\* The first and then the second selected process
Selected == IF cursor = 1 THEN usage.cabal ELSE usage.ghc
\* Fault: swapped-out pages are not charged.
ChargedBytesFault(u) == u.bytes - u.lazy
\* MemoryUsage::charged_bytes
charged_bytes(u) == (u.bytes - u.lazy) + u.swap
Rollup ==
    /\ at = "rollup" /\ cursor \in {1, 2} /\ Selected \in Live(table)
    /\ \E r \in Reports(load[Selected].mem) :
         IF Consistent(r)
         THEN /\ usage' = [usage EXCEPT !.bytes = @ + r.rss, !.lazy = @ + r.lazy, !.swap = @ + r.swap]
              /\ cursor' = cursor + 1 /\ UNCHANGED <<at, snapshot, hist>>
         ELSE Over(FALSE)
    /\ UNCHANGED <<table, load, births, caller, todo, captured, error>>
\* The process is gone: the sample fails.
RollupFails ==
    /\ at = "rollup" /\ cursor \in {1, 2} /\ Selected \notin Live(table)
    /\ Over(FALSE)
    /\ UNCHANGED <<table, load, births, caller, todo, captured, error>>
memory_limit_exceeded ==
    /\ at = "rollup" /\ cursor = 3
    /\ IF charged_bytes(usage) >= Limit
       THEN /\ at' = "before" /\ caller' = "watcher" /\ NoSample /\ load' = InitialLoad
            /\ hist' = [hist EXCEPT !.due = FALSE, !.unfair = Intact /\ OwnMemory < Limit]
       ELSE Over(TRUE) /\ UNCHANGED <<caller, load>>
    /\ UNCHANGED <<table, births, todo, captured, error>>

-----------------------------------------------------------------------------
(* Killing the tree.                                                       *)

\* A request to stop, a shutdown or a failed recovery; a sample under way is dropped.
Kill(who) ==
    /\ at \in Watching \/ (at = "over" /\ who = "recovery")
    /\ at' = "before" /\ caller' = who
    /\ NoSample /\ load' = InitialLoad
    /\ hist' = [hist EXCEPT !.due = FALSE]
    /\ UNCHANGED <<table, births, todo, captured, error>>
\* wait: the watcher reaps its child when it does not kill it itself
Reap ==
    /\ Start(Command) = 1 /\ table[Command].state = "zombie"
    /\ table' = [table EXCEPT ![Command] = None]
    /\ hist' = [hist EXCEPT !.reaped = TRUE, !.due = FALSE]
    /\ \/ /\ at \in Watching /\ at' = "over"
          /\ NoSample /\ load' = InitialLoad
       \/ /\ at \notin Watching /\ caller = "recovery"
          /\ UNCHANGED <<at, load, snapshot, cursor, usage>>
    /\ UNCHANGED <<births, caller, todo, captured, error>>

Signal(ps, to) ==
    /\ table' = IF to = "stop"
                THEN [p \in Pids |-> IF p \in ps /\ p \in Active THEN [table[p] EXCEPT !.state = "stop"]
                                                                 ELSE table[p]]
                ELSE Remove(table, ps)
    /\ hist' = [hist EXCEPT !.hit = @ \/ \E p \in ps : table[p].kin = "other"]
Group == {p \in Live(table) : table[p].pgid = Command}

\* run_before_signal_commands has ended, one way or another; the group is frozen.
Freeze ==
    /\ at = "before" /\ at' = "scan"
    /\ Signal(Group, "stop")
    /\ UNCHANGED <<load, births, caller, snapshot, cursor, todo, captured, usage, error>>

KillReads ==
    /\ at = "scan" /\ Read
    /\ UNCHANGED <<table, load, births, at, caller, todo, captured, usage, error, hist>>
\* /proc cannot be listed: only the group is killed, and the error is reported.
SnapshotFails ==
    /\ at = "scan" /\ cursor = 1
    /\ at' = "kill" /\ error' = TRUE
    /\ UNCHANGED <<table, load, births, caller, snapshot, cursor, todo, captured, usage, hist>>

\* process_tree of this pass, without the PIDs that are captured already; discovery
\* is complete when nothing is new.
Discovered ==
    LET new == {p \in process_tree(snapshot) : \A c \in captured : c[1] # p}
    IN  /\ at = "scan" /\ cursor \notin Pids
        /\ todo' = {<<p, snapshot[p].start>> : p \in new}
        /\ at' = IF new = {} THEN "kill" ELSE "track"
        /\ snapshot' = Nobody /\ cursor' = 1
        /\ UNCHANGED <<table, load, births, caller, captured, usage, error, hist>>

\* Fault: the PID alone identifies a process.
IdentityMatchesFault(c) == table[c[1]] # None
\* process_identity_matches; a pidfd opened before pins the process
process_identity_matches(c) == table[c[1]].start = c[2]
\* Fault: the tree is discovered in a single pass.
TrackFault(c) ==
    /\ at = "track" /\ c \in todo
    /\ todo' = todo \ {c}
    /\ IF process_identity_matches(c)
       THEN Signal({c[1]}, "stop") /\ captured' = captured \union {c}
       ELSE UNCHANGED <<table, hist, captured>>
    /\ at' = IF todo' = {} THEN "kill" ELSE at
    /\ UNCHANGED <<load, births, caller, snapshot, cursor, usage, error>>
\* track_process and SIGSTOP
Track(c) ==
    /\ at = "track" /\ c \in todo
    /\ todo' = todo \ {c}
    /\ IF process_identity_matches(c)
       THEN Signal({c[1]}, "stop") /\ captured' = captured \union {c}
       ELSE UNCHANGED <<table, hist, captured>>
    /\ at' = IF todo' = {} THEN "scan" ELSE at
    /\ UNCHANGED <<load, births, caller, snapshot, cursor, usage, error>>

\* SIGKILL through the pidfds
KillCaptured ==
    /\ at = "kill" /\ at' = "group"
    /\ Signal({c[1] : c \in {c \in captured : process_identity_matches(c)}}, "kill")
    /\ UNCHANGED <<load, births, caller, snapshot, cursor, todo, captured, usage, error>>
KillGroup ==
    /\ at = "group" /\ at' = "done"
    /\ Signal(Group, "kill")
    /\ UNCHANGED <<load, births, caller, snapshot, cursor, todo, captured, usage, error>>

-----------------------------------------------------------------------------
System ==
    \/ \E p, q \in Pids : Fork(p, q)
    \/ \E p \in Pids : SetPgid(p) \/ Exit(p) \/ Arrives(p) \/ Grow(p) \/ \E i \in Images : Exec(p, i)
Watchdog == BeginSample \/ SampleReads \/ Select \/ Rollup \/ RollupFails \/ memory_limit_exceeded
kill_process_tree ==
    \/ \E who \in {"watcher", "recovery"} : Kill(who)
    \/ Freeze \/ KillReads \/ SnapshotFails \/ Discovered \/ KillCaptured \/ KillGroup
    \/ \E c \in todo : Track(c)
Next == at # "done" /\ (System \/ Watchdog \/ kill_process_tree \/ Reap)
Spec == Init /\ [][Next]_vars

-----------------------------------------------------------------------------
(* Properties.                                                             *)

TypeOK ==
    /\ \A p \in Present(table) :
         /\ table[p].ppid \in 0..MaxPid /\ table[p].pgid \in Pids
         /\ table[p].state \in {"run", "stop", "zombie"} /\ table[p].kin \in {"kin", "lost", "other"}
    /\ load \in [Pids -> [image : Images, mem : 0..Limit]]
    /\ cursor \in 1..(MaxPid + 1)
    /\ todo \subseteq Pids \X (1..births) /\ captured \subseteq Pids \X (1..births)
    /\ usage.lazy <= usage.bytes

\* A tree that was killed without an error is gone, although it was read one process
\* at a time while it went on forking: only what had left both the group and every
\* known process's offspring can remain (kill_process_tree).
NoSurvivor ==
    (at = "done" /\ ~error) => \A p \in Live(table) : table[p].kin # "kin"

\* No signal reaches a process of somebody else, whatever PIDs are reused between
\* discovery and delivery, as long as the command has not been reaped (track_process,
\* process_identity_matches).
BystandersSpared == hist.hit => hist.reaped

\* A sample that trips finds the session's own two processes over the limit, or
\* already gone: tests, compilers and other sessions are never charged to it.
ChargedForItself == ~hist.unfair

\* A session over the limit when a sample begins is not found below it, whatever it
\* starts in the meantime (select_repl_processes, charged_bytes).
LimitNotMissed == ~hist.missed
=============================================================================
