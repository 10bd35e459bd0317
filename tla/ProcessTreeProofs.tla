------------------------- MODULE ProcessTreeProofs -------------------------
(***************************************************************************)
(* Proofs about ProcessTree, for every number of PIDs and births: however  *)
(* PIDs are given to other processes while a tree is discovered, stopped   *)
(* and killed, no signal reaches a process of somebody else unless the     *)
(* command has been reaped; and however the tree forks, leaves its group   *)
(* and exits meanwhile, nothing of it survives a kill without an error.    *)
(***************************************************************************)
EXTENDS ProcessTree, TLAPS

States == {"run", "stop", "zombie"}
Kinds == {"kin", "lost", "other"}
Processes == [start : Nat \ {0}, ppid : 0..MaxPid, pgid : Pids, state : States, kin : Kinds]
Tables == [Pids -> Processes \union {None}]
Histories == [hit : BOOLEAN, reaped : BOOLEAN, due : BOOLEAN, missed : BOOLEAN, unfair : BOOLEAN]

\* The entry at PID p is a process of somebody else.
Stranger(t, p) == t[p] # None /\ t[p].kin = "other"

-----------------------------------------------------------------------------
(* Facts about the kernel's tables.                                        *)

\* A free entry is told from a process by its start time.
LEMMA NoneFacts == None.start = 0 /\ None \notin Processes
BY DEF None, Processes

\* The session's PIDs are PIDs, and orphans have no parent among them.
LEMMA PidFacts ==
    Command \in Pids /\ Init1 \notin Pids /\ Init1 \in 0..MaxPid /\ Pids \subseteq 0..MaxPid
BY ProcessAssumption DEF Command, Pids, Init1

\* A process that changes its state, its parent or what is known of it stays a process
\* and keeps the rest.
LEMMA UpdateFacts ==
    ASSUME NEW r \in Processes
    PROVE  /\ \A k \in Kinds : LET q == [r EXCEPT !.kin = k] IN
                q \in Processes /\ q.start = r.start /\ q.kin = k
           /\ LET q == [r EXCEPT !.state = "zombie"] IN
                /\ q \in Processes /\ q.start = r.start /\ q.kin = r.kin
                /\ q.pgid = r.pgid /\ q.ppid = r.ppid
           /\ LET q == [r EXCEPT !.ppid = Init1] IN
                /\ q \in Processes /\ q.start = r.start /\ q.kin = r.kin
                /\ q.pgid = r.pgid /\ q.ppid = Init1
<1>1. \A k \in Kinds : LET q == [r EXCEPT !.kin = k] IN
        q \in Processes /\ q.start = r.start /\ q.kin = k
  BY DEF Processes
<1>2. LET q == [r EXCEPT !.state = "zombie"] IN
        /\ q \in Processes /\ q.start = r.start /\ q.kin = r.kin
        /\ q.pgid = r.pgid /\ q.ppid = r.ppid
  BY DEF Processes, States
<1>3. LET q == [r EXCEPT !.ppid = Init1] IN
        /\ q \in Processes /\ q.start = r.start /\ q.kin = r.kin
        /\ q.pgid = r.pgid /\ q.ppid = Init1
  BY PidFacts DEF Processes
<1> QED
  BY <1>1, <1>2, <1>3

\* From t to u no process is new: what is left is what it was, and a stranger keeps
\* its group and has at most become an orphan.
Ages(t, u) ==
    /\ \A p \in Pids : u[p] # None =>
         /\ t[p] # None /\ u[p].start = t[p].start
         /\ u[p].kin = "other" <=> t[p].kin = "other"
         /\ t[p].kin = "other" => u[p].pgid = t[p].pgid /\ u[p].ppid \in {t[p].ppid, Init1}
    /\ t[Command].start = 1 => u[Command].start = 1

\* Aging twice is aging.
LEMMA AgesTwice ==
    ASSUME NEW t, NEW u, NEW v, Ages(t, u), Ages(u, v)
    PROVE  Ages(t, v)
BY PidFacts DEF Ages

\* Relabel changes nothing but what the model knows of a lost process.
LEMMA RelabelAges == ASSUME NEW t \in Tables PROVE Relabel(t) \in Tables /\ Ages(t, Relabel(t))
<1> DEFINE lost == {p \in Live(t) : t[p].kin = "kin"} \ process_tree(t)
           u == Relabel(t)
<1>1. \A p \in Pids : u[p] = IF p \in lost THEN [t[p] EXCEPT !.kin = "lost"] ELSE t[p]
  BY DEF Relabel
<1>2. \A p \in lost : p \in Pids /\ t[p] \in Processes /\ t[p].kin = "kin"
  BY DEF Live, Present, Tables
<1> HIDE DEF lost, u
<1>3. ASSUME NEW p \in Pids PROVE u[p] \in Processes \union {None}
  <2>1. CASE p \in lost
    <3>1. u[p] = [t[p] EXCEPT !.kin = "lost"] /\ "lost" \in Kinds
      BY <1>1, <2>1 DEF Kinds
    <3>2. t[p] \in Processes
      BY <1>2, <2>1
    <3>3. [t[p] EXCEPT !.kin = "lost"] \in Processes
      BY <3>1, <3>2, UpdateFacts
    <3> QED
      BY <3>1, <3>3
  <2>2. CASE p \notin lost
    BY <1>1, <2>2 DEF Tables
  <2> QED
    BY <2>1, <2>2
<1>4. u \in Tables
  BY <1>3 DEF u, Relabel, Tables
<1>5. ASSUME NEW p \in lost
      PROVE  u[p].start = t[p].start /\ u[p].kin = "lost" /\ t[p] # None
  <2>1. u[p] = [t[p] EXCEPT !.kin = "lost"] /\ "lost" \in Kinds
    BY <1>1, <1>2 DEF Kinds
  <2> QED
    BY <1>2, <2>1, NoneFacts, UpdateFacts
<1>6. \A p \in Pids \ lost : u[p] = t[p]
  BY <1>1
<1>7. Ages(t, u)
  BY <1>2, <1>5, <1>6, PidFacts DEF Ages
<1> QED
  BY <1>4, <1>7 DEF u

\* Removing dead processes frees their PIDs, orphans their children and leaves the
\* command a zombie.
LEMMA RemoveAges ==
    ASSUME NEW t \in Tables, NEW dead \in SUBSET Present(t)
    PROVE  Remove(t, dead) \in Tables /\ Ages(t, Remove(t, dead))
<1> DEFINE u == Remove(t, dead)
<1>1. ASSUME NEW p \in dead
      PROVE  /\ p \in Pids /\ t[p] \in Processes
             /\ t[p].start = 1 => u[p] = [t[p] EXCEPT !.state = "zombie"]
             /\ t[p].start # 1 => u[p] = None
  <2>1. p \in Pids /\ t[p] \in Processes
    BY DEF Present, Tables
  <2>2. CASE t[p].start = 1
    BY <2>1, <2>2 DEF Remove
  <2>3. CASE t[p].start # 1
    BY <2>1, <2>3 DEF Remove
  <2> QED
    BY <2>1, <2>2, <2>3
<1>2. ASSUME NEW p \in Pids \ dead
      PROVE  \/ u[p] = t[p]
             \/ t[p] \in Processes /\ u[p] = [t[p] EXCEPT !.ppid = Init1]
  BY DEF Remove, Tables
<1> HIDE DEF u
<1>3. ASSUME NEW p \in Pids PROVE u[p] \in Processes \union {None}
  <2>1. CASE p \in dead
    <3>1. CASE t[p].start = 1
      BY <1>1, <2>1, <3>1, UpdateFacts
    <3>2. CASE t[p].start # 1
      BY <1>1, <2>1, <3>2
    <3> QED
      BY <3>1, <3>2
  <2>2. CASE p \notin dead
    <3>1. CASE u[p] = t[p]
      BY <3>1 DEF Tables
    <3>2. CASE t[p] \in Processes /\ u[p] = [t[p] EXCEPT !.ppid = Init1]
      BY <3>2, UpdateFacts
    <3> QED
      BY <1>2, <2>2, <3>1, <3>2
  <2> QED
    BY <2>1, <2>2
<1>4. u \in Tables
  BY <1>3 DEF u, Remove, Tables
<1>5. ASSUME NEW p \in Pids, u[p] # None
      PROVE  /\ t[p] # None /\ u[p].start = t[p].start /\ u[p].kin = t[p].kin
             /\ u[p].pgid = t[p].pgid /\ u[p].ppid \in {t[p].ppid, Init1}
  <2>1. CASE p \in dead
    <3>1. t[p] \in Processes /\ u[p] = [t[p] EXCEPT !.state = "zombie"]
      BY <1>1, <1>5, <2>1
    <3> QED
      BY <3>1, NoneFacts, UpdateFacts
  <2>2. CASE p \notin dead
    <3>1. CASE u[p] = t[p]
      BY <1>5, <3>1
    <3>2. CASE t[p] \in Processes /\ u[p] = [t[p] EXCEPT !.ppid = Init1]
      BY <3>2, NoneFacts, UpdateFacts
    <3> QED
      BY <1>2, <2>2, <3>1, <3>2
  <2> QED
    BY <2>1, <2>2
<1>6. ASSUME t[Command].start = 1 PROVE u[Command].start = 1
  <2>1. CASE Command \in dead
    <3>1. t[Command] \in Processes /\ u[Command] = [t[Command] EXCEPT !.state = "zombie"]
      BY <1>1, <1>6, <2>1
    <3> QED
      BY <1>6, <3>1, UpdateFacts
  <2>2. CASE Command \notin dead
    <3>1. CASE u[Command] = t[Command]
      BY <1>6, <3>1
    <3>2. CASE t[Command] \in Processes /\ u[Command] = [t[Command] EXCEPT !.ppid = Init1]
      BY <1>6, <3>2, UpdateFacts
    <3> QED
      BY <1>2, <2>2, <3>1, <3>2, PidFacts
  <2> QED
    BY <2>1, <2>2
<1>7. Ages(t, u)
  BY <1>5, <1>6 DEF Ages
<1> QED
  BY <1>4, <1>7 DEF u

\* What is neither in the group nor the child of a process is not in the tree.
LEMMA StrangersOutside ==
    ASSUME NEW t, NEW p \in Pids, p # Command, t[p].pgid # Command, t[p].ppid = Init1
    PROVE  p \notin process_tree(t)
<1> DEFINE f == (Present(t) \union {Command}) \ {p}
<1>1. Init1 \notin f
  BY PidFacts DEF Present
<1>2. f \in Families(t)
  BY <1>1 DEF Families
<1> QED
  BY <1>2 DEF process_tree

-----------------------------------------------------------------------------
(* Bystanders: the inductive invariant.                                    *)

Scanned == [ppid : 0..MaxPid, pgid : Pids, start : Nat \ {0}]

\* The kernel's table and the times of birth, and what a pass over /proc has read.
TableInv ==
    /\ table \in Tables /\ births \in Nat
    /\ hist \in Histories
    /\ \A p \in Pids : table[p].start <= births
    /\ at \in {"before", "track"} => snapshot = Nobody
    /\ at = "scan" => snapshot \in [Pids -> Scanned \union {None}]
    /\ at = "scan" => \A p \in Pids : snapshot[p].start <= births
    /\ todo \union captured \subseteq Pids \X (Nat \ {0})
    /\ \A c \in todo \union captured : c[2] <= births

\* As long as the command has not been reaped its PID and its group are its own.  A
\* stranger leads its own group, has no parent in the session, and was not the process
\* that a pass recorded for the tree: it is younger, or the pass saw it for what it is.
StrangersApart ==
    \A p \in Pids : Stranger(table, p) => p # Command /\ table[p].pgid = p /\ table[p].ppid = Init1
StrangersUncaptured ==
    \A c \in todo \union captured : Stranger(table, c[1]) => table[c[1]].start # c[2]
StrangersSeen ==
    at = "scan" => \A p \in Pids :
        Stranger(table, p) /\ table[p].start = snapshot[p].start =>
            snapshot[p].pgid = p /\ snapshot[p].ppid = Init1
SpareInv ==
    hist.reaped \/ (/\ ~hist.hit /\ table[Command].start = 1
                    /\ StrangersApart /\ StrangersUncaptured /\ StrangersSeen)

\* The session that run_with_watchdog watches starts like this.
LEMMA SpareInit == Init => TableInv /\ SpareInv
<1> SUFFICES ASSUME Init PROVE TableInv /\ SpareInv
  OBVIOUS
<1> USE ProcessAssumption
<1>1. \A p \in Pids :
        table[p] \in {None, Process(1, Init1, Command, "kin"), Process(2, Command, Command, "kin"),
                      Process(3, Cabal, Command, "kin")}
  BY DEF Init
<1>2. {Process(1, Init1, Command, "kin"), Process(2, Command, Command, "kin"),
       Process(3, Cabal, Command, "kin")} \subseteq Processes
  BY DEF Process, Processes, Init1, Command, Cabal, Pids, States, Kinds
<1>3. table \in Tables
  BY <1>1, <1>2 DEF Init, Tables
<1>4. \A p \in Pids : table[p].start <= births /\ ~Stranger(table, p)
  BY <1>1 DEF Init, Process, None, Stranger
<1>5. table[Command].start = 1
  BY PidFacts DEF Init, Process, Command, Cabal, Ghc
<1> QED
  BY <1>3, <1>4, <1>5
     DEF Init, TableInv, SpareInv, StrangersApart, StrangersUncaptured, StrangersSeen, Histories

\* The invariant survives a step in which processes only age, todo and captured
\* gain nothing but what was in todo, and /proc is read from the start or not at all.
LEMMA AgingStep ==
    ASSUME TableInv, SpareInv, table' \in Tables, Ages(table, table'), births' = births,
           todo' \subseteq todo, captured' \subseteq captured \union todo,
           at' \in {"before", "track"} => snapshot' = Nobody,
           at' = "scan" => snapshot' = Nobody \/ (at = "scan" /\ snapshot' = snapshot),
           hist' \in Histories, hist'.reaped = hist.reaped, hist'.hit => hist.hit \/ hist.reaped
    PROVE  TableInv' /\ SpareInv'
<1>1. \A p \in Pids : table'[p].start <= births'
  BY NoneFacts DEF TableInv, Ages
<1>2. at' = "scan" => /\ snapshot' \in [Pids -> Scanned \union {None}]
                      /\ \A p \in Pids : snapshot'[p].start <= births'
  BY NoneFacts DEF TableInv, Nobody
<1>3. TableInv'
  BY <1>1, <1>2 DEF TableInv
<1>4. CASE hist.reaped
  BY <1>3, <1>4 DEF SpareInv
<1>5. CASE ~hist.reaped
  <2>1. /\ ~hist.hit /\ table[Command].start = 1
        /\ StrangersApart /\ StrangersUncaptured /\ StrangersSeen
    BY <1>5 DEF SpareInv
  <2>2. \A p \in Pids : Stranger(table', p) =>
            /\ Stranger(table, p) /\ table'[p].start = table[p].start
            /\ table'[p].pgid = table[p].pgid /\ table'[p].ppid \in {table[p].ppid, Init1}
    BY DEF Ages, Stranger
  <2>3. StrangersApart'
    BY <2>1, <2>2 DEF StrangersApart
  <2>4. StrangersUncaptured'
    BY <2>1, <2>2 DEF StrangersUncaptured, TableInv
  <2>5. ASSUME at' = "scan", NEW p \in Pids, Stranger(table', p),
               table'[p].start = snapshot'[p].start
        PROVE  snapshot'[p].pgid = p /\ snapshot'[p].ppid = Init1
    <3>1. snapshot' # Nobody
      BY <2>2, <2>5, NoneFacts DEF Nobody, Stranger, TableInv, Tables, Processes
    <3> QED
      BY <2>1, <2>2, <2>5, <3>1 DEF StrangersSeen
  <2>6. StrangersSeen'
    BY <2>5 DEF StrangersSeen
  <2>7. table'[Command].start = 1
    BY <2>1 DEF Ages
  <2> QED
    BY <1>3, <1>5, <2>1, <2>3, <2>4, <2>6, <2>7 DEF SpareInv
<1> QED
  BY <1>4, <1>5

\* A new process in a free entry, younger than all before, keeps the invariant when it
\* is no stranger, or a stranger that leads its own group.
LEMMA BirthStep ==
    ASSUME TableInv, SpareInv, NEW q \in Pids, table[q] = None, NEW r \in Processes,
           table' = [table EXCEPT ![q] = r], births' = births + 1, r.start = births + 1,
           r.kin = "other" => r.pgid = q /\ r.ppid = Init1,
           UNCHANGED <<at, snapshot, todo, captured, hist>>
    PROVE  TableInv' /\ SpareInv'
<1>1. \A p \in Pids : table'[p] = IF p = q THEN r ELSE table[p]
  BY DEF TableInv, Tables
<1>2. table' \in Tables
  BY <1>1 DEF TableInv, Tables
<1>3. \A p \in Pids : table[p].start \in Nat
  BY NoneFacts DEF TableInv, Tables, Processes
<1>4. births' \in Nat /\ \A p \in Pids : table'[p].start <= births'
  BY <1>1, <1>3 DEF TableInv
<1>5. at = "scan" => \A p \in Pids : snapshot[p].start \in Nat /\ snapshot[p].start <= births
  BY NoneFacts DEF TableInv, Scanned
<1>6. \A c \in todo \union captured : c[1] \in Pids /\ c[2] \in Nat /\ c[2] <= births
  BY DEF TableInv
<1>7. TableInv'
  BY <1>2, <1>4, <1>5, <1>6 DEF TableInv
<1>8. ASSUME ~hist.reaped PROVE SpareInv'
  <2>1. /\ ~hist.hit /\ table[Command].start = 1
        /\ StrangersApart /\ StrangersUncaptured /\ StrangersSeen
    BY <1>8 DEF SpareInv
  <2>2. q # Command
    BY <2>1, NoneFacts
  <2>3. StrangersApart'
    BY <1>1, <2>1, <2>2 DEF StrangersApart, Stranger
  <2>4. StrangersUncaptured'
    BY <1>1, <1>6, <2>1 DEF StrangersUncaptured, Stranger, TableInv
  <2>5. StrangersSeen'
    BY <1>1, <1>5, <2>1 DEF StrangersSeen, Stranger, TableInv
  <2>6. table'[Command].start = 1
    BY <1>1, <2>1, <2>2, PidFacts
  <2> QED
    BY <2>1, <2>3, <2>4, <2>5, <2>6 DEF SpareInv
<1> QED
  BY <1>7, <1>8 DEF SpareInv

\* A table that does not change ages.
LEMMA UnchangedAges == ASSUME TableInv PROVE Ages(table, table)
BY DEF TableInv, Ages

\* A signal to processes that are no strangers only stops or removes them.
LEMMA SignalSpares ==
    ASSUME TableInv, NEW ps \in SUBSET Present(table), NEW to \in {"stop", "kill"}, Signal(ps, to),
           hist.reaped \/ \A p \in ps : ~Stranger(table, p)
    PROVE  /\ table' \in Tables /\ Ages(table, table')
           /\ hist' \in Histories /\ hist'.reaped = hist.reaped
           /\ hist'.hit => hist.hit \/ hist.reaped
<1>1. ASSUME to = "stop" PROVE table' \in Tables /\ Ages(table, table')
  <2>1. \A p \in Pids : table'[p] = IF p \in ps /\ p \in Active
                                    THEN [table[p] EXCEPT !.state = "stop"] ELSE table[p]
    BY <1>1 DEF Signal
  <2>2. \A p \in Active : p \in Pids /\ table[p] \in Processes
    BY DEF Active, Live, Present, TableInv, Tables
  <2>3. ASSUME NEW p \in Pids PROVE table'[p] \in Processes \union {None}
    <3>1. CASE p \in Active
      BY <2>1, <2>2, <3>1 DEF Processes, States
    <3>2. CASE p \notin Active
      BY <2>1, <3>2 DEF TableInv, Tables
    <3> QED
      BY <3>1, <3>2
  <2>4. \A p \in Pids :
          \/ table'[p] = table[p]
          \/ /\ table[p] # None /\ table'[p].start = table[p].start /\ table'[p].kin = table[p].kin
             /\ table'[p].pgid = table[p].pgid /\ table'[p].ppid = table[p].ppid
    BY <2>1, <2>2, NoneFacts DEF Processes
  <2>5. table' \in Tables
    BY <1>1, <2>3 DEF Signal, Tables
  <2> QED
    BY <2>4, <2>5, PidFacts DEF Ages
<1>2. ASSUME to = "kill" PROVE table' \in Tables /\ Ages(table, table')
  BY <1>2, RemoveAges DEF Signal, TableInv
<1>3. hist' \in Histories /\ hist'.reaped = hist.reaped /\ (hist'.hit => hist.hit \/ hist.reaped)
  BY DEF Signal, TableInv, Stranger, Present, Histories
<1> QED
  BY <1>1, <1>2, <1>3

\* The command's group has no stranger, nor has what was recorded for the tree.
LEMMA GroupSpares ==
    ASSUME TableInv, SpareInv
    PROVE  Group \subseteq Present(table) /\ (hist.reaped \/ \A p \in Group : ~Stranger(table, p))
BY DEF Group, Live, Present, SpareInv, StrangersApart

\* A process whose identity was recorded for the tree is no stranger.
LEMMA IdentitySpares ==
    ASSUME TableInv, SpareInv, NEW c \in todo \union captured, process_identity_matches(c)
    PROVE  c[1] \in Present(table) /\ (hist.reaped \/ ~Stranger(table, c[1]))
<1>1. c[1] \in Pids /\ c[2] # 0
  BY DEF TableInv
<1> QED
  BY <1>1, NoneFacts DEF process_identity_matches, Present, SpareInv, StrangersUncaptured

\* Every step of the kernel, the watchdog and kill_process_tree keeps the invariant.
LEMMA SpareNext == TableInv /\ SpareInv /\ [Next]_vars => TableInv' /\ SpareInv'
<1> SUFFICES ASSUME TableInv, SpareInv, [Next]_vars PROVE TableInv' /\ SpareInv'
  OBVIOUS
<1> USE UnchangedAges
<1>1. ASSUME NEW p \in Pids, NEW q \in Pids, Fork(p, q) PROVE TableInv' /\ SpareInv'
  <2> DEFINE child == [table[p] EXCEPT !.start = births + 1, !.ppid = p]
  <2>1. /\ table[p] \in Processes /\ table[p].kin # "other" /\ table[q] = None
        /\ table' = [table EXCEPT ![q] = child] /\ births' = births + 1
        /\ UNCHANGED <<at, snapshot, todo, captured, hist>>
    BY <1>1 DEF Fork, Active, Live, Present, Free, Unrelated, TableInv, Tables
  <2>2. child \in Processes /\ child.start = births + 1 /\ child.kin # "other"
    <3>1. births + 1 \in Nat \ {0} /\ p \in 0..MaxPid
      BY PidFacts DEF TableInv
    <3> QED
      BY <2>1, <3>1 DEF Processes
  <2> HIDE DEF child
  <2> QED
    BY <2>1, <2>2, BirthStep
<1>2. ASSUME NEW p \in Pids, SetPgid(p) PROVE TableInv' /\ SpareInv'
  <2> DEFINE t == [table EXCEPT ![p].pgid = p]
  <2>1. p \in Present(table) /\ table[p] \in Processes /\ table[p].start > 3 /\ table[p].pgid # p
    BY <1>2 DEF SetPgid, Active, Live, Present, TableInv, Tables
  <2>2. \A q \in Pids : t[q] = IF q = p THEN [table[p] EXCEPT !.pgid = p] ELSE table[q]
    BY DEF TableInv, Tables
  <2>3. t \in Tables
    BY <2>1, <2>2 DEF TableInv, Tables, Processes
  <2>4. hist.reaped \/ ~Stranger(table, p)
    BY <2>1 DEF SpareInv, StrangersApart
  <2>5. table' = Relabel(t) /\ births' = births /\ UNCHANGED Unrelated
    BY <1>2 DEF SetPgid
  <2>6. table' \in Tables /\ Ages(t, table')
    BY <2>3, <2>5, RelabelAges
  <2>7. \A q \in Pids : t[q].start = table[q].start /\ (t[q] # None => table[q] # None)
    BY <2>1, <2>2, NoneFacts DEF Processes, Present
  <2>8. CASE hist.reaped
    <3>1. ASSUME NEW q \in Pids PROVE table'[q].start <= births'
      <4>1. CASE table'[q] = None
        BY <2>5, <4>1, NoneFacts DEF TableInv
      <4>2. CASE table'[q] # None
        <5> HIDE DEF t
        <5>1. table'[q].start = table[q].start
          BY <2>6, <2>7, <4>2 DEF Ages
        <5> QED
          BY <2>5, <5>1 DEF TableInv
      <4> QED
        BY <4>1, <4>2
    <3>2. TableInv'
      BY <2>5, <2>6, <3>1 DEF TableInv, Unrelated
    <3> QED
      BY <2>5, <2>8, <3>2 DEF SpareInv, Unrelated
  <2>9. CASE ~Stranger(table, p)
    <3>1. t[p].kin = table[p].kin /\ t[p].kin # "other"
      BY <2>1, <2>2, <2>9 DEF Processes, Stranger, Present
    <3> HIDE DEF t
    <3>2. Ages(table, t)
      BY <2>2, <2>7, <3>1, PidFacts DEF Ages
    <3>3. Ages(table, table')
      BY <2>6, <3>2, AgesTwice
    <3> QED
      BY <2>5, <2>6, <3>3, AgingStep DEF Unrelated, TableInv
  <2> QED
    BY <2>4, <2>8, <2>9
<1>3. ASSUME NEW p \in Pids, Exit(p) PROVE TableInv' /\ SpareInv'
  <2> DEFINE t == Remove(table, {p})
  <2>1. {p} \in SUBSET Present(table)
    BY <1>3 DEF Exit, Active, Live
  <2>2. t \in Tables /\ Ages(table, t)
    BY <2>1, RemoveAges DEF TableInv
  <2>3. table' = Relabel(t) /\ births' = births /\ UNCHANGED Unrelated
    BY <1>3 DEF Exit
  <2> HIDE DEF t
  <2>4. table' \in Tables /\ Ages(t, table')
    BY <2>2, <2>3, RelabelAges
  <2>5. Ages(table, table')
    BY <2>2, <2>4, AgesTwice
  <2> QED
    BY <2>3, <2>4, <2>5, AgingStep DEF Unrelated, TableInv
<1>4. ASSUME NEW p \in Pids, Arrives(p) PROVE TableInv' /\ SpareInv'
  <2> DEFINE new == Process(births + 1, Init1, p, "other")
  <2>1. /\ table[p] = None /\ table' = [table EXCEPT ![p] = new] /\ births' = births + 1
        /\ UNCHANGED <<at, snapshot, todo, captured, hist>>
    BY <1>4 DEF Arrives, Free, Unrelated
  <2>2. new \in Processes /\ new.start = births + 1 /\ new.pgid = p /\ new.ppid = Init1
    BY PidFacts DEF Process, Processes, States, Kinds, TableInv
  <2> HIDE DEF new
  <2> QED
    BY <2>1, <2>2, BirthStep
<1>5. ASSUME UNCHANGED <<table, births, todo, captured>>, hist' \in Histories,
             hist'.reaped = hist.reaped, hist'.hit = hist.hit,
             at' \in {"before", "track"} => snapshot' = Nobody,
             at' = "scan" => at = "scan" /\ snapshot' = snapshot
      PROVE  TableInv' /\ SpareInv'
  BY <1>5, AgingStep DEF TableInv
<1>6. CASE Watchdog
  <2>1. CASE BeginSample
    BY <1>5, <2>1 DEF BeginSample, TableInv, Histories
  <2>2. CASE SampleReads
    BY <1>5, <2>2 DEF SampleReads, TableInv
  <2>3. ASSUME NEW below \in BOOLEAN, Over(below), UNCHANGED <<table, births, todo, captured>>
        PROVE  TableInv' /\ SpareInv'
    BY <1>5, <2>3 DEF Over, TableInv, Histories
  <2>4. CASE Select
    BY <1>5, <2>3, <2>4 DEF Select, TableInv
  <2>5. CASE Rollup
    BY <1>5, <2>3, <2>5 DEF Rollup, TableInv
  <2>6. CASE RollupFails
    BY <2>3, <2>6 DEF RollupFails
  <2>7. CASE memory_limit_exceeded
    BY <1>5, <2>3, <2>7 DEF memory_limit_exceeded, TableInv, Histories, NoSample
  <2> QED
    BY <1>6, <2>1, <2>2, <2>4, <2>5, <2>6, <2>7 DEF Watchdog
<1>7. ASSUME NEW p \in Pids, Grow(p) \/ \E i \in Images : Exec(p, i) PROVE TableInv' /\ SpareInv'
  BY <1>5, <1>7 DEF Grow, Exec, Unrelated, TableInv
<1>8. ASSUME NEW who \in {"watcher", "recovery"}, Kill(who) PROVE TableInv' /\ SpareInv'
  BY <1>5, <1>8 DEF Kill, NoSample, TableInv, Histories
<1>9. CASE Freeze
  <2>1. /\ table' \in Tables /\ Ages(table, table')
        /\ hist' \in Histories /\ hist'.reaped = hist.reaped
        /\ hist'.hit => hist.hit \/ hist.reaped
    BY <1>9, GroupSpares, SignalSpares DEF Freeze
  <2> QED
    BY <1>9, <2>1, AgingStep DEF Freeze, TableInv
<1>10. CASE KillReads
  <2>1. /\ at = "scan" /\ cursor \in Pids /\ snapshot' = [snapshot EXCEPT ![cursor] = Stat(cursor)]
        /\ UNCHANGED <<table, births, at, todo, captured, hist>>
    BY <1>10 DEF KillReads, Read
  <2>2. \/ table[cursor] = None /\ Stat(cursor) = None
        \/ /\ table[cursor] \in Processes /\ table[cursor] # None
           /\ Stat(cursor) = [ppid |-> table[cursor].ppid, pgid |-> table[cursor].pgid,
                              start |-> table[cursor].start]
    BY <2>1 DEF Stat, Start, TableInv, Tables
  <2>3. Stat(cursor) \in Scanned \union {None} /\ Stat(cursor).start = table[cursor].start
    BY <2>2, NoneFacts DEF Scanned, Processes
  <2>4. snapshot' \in [Pids -> Scanned \union {None}]
    BY <2>1, <2>3 DEF TableInv
  <2>5. \A p \in Pids : snapshot'[p] = IF p = cursor THEN Stat(cursor) ELSE snapshot[p]
    BY <2>1 DEF TableInv
  <2>6. \A p \in Pids : snapshot'[p].start <= births
    BY <2>1, <2>3, <2>5 DEF TableInv
  <2>7. TableInv'
    BY <2>1, <2>4, <2>6 DEF TableInv
  <2>8. Stranger(table, cursor) =>
          Stat(cursor).pgid = table[cursor].pgid /\ Stat(cursor).ppid = table[cursor].ppid
    BY <2>2 DEF Stranger
  <2>9. StrangersApart /\ StrangersSeen => StrangersSeen'
    BY <2>1, <2>5, <2>8 DEF StrangersSeen, StrangersApart, Stranger
  <2> QED
    BY <2>1, <2>7, <2>9 DEF SpareInv, StrangersApart, StrangersUncaptured, Stranger
<1>11. CASE SnapshotFails
  BY <1>5, <1>11 DEF SnapshotFails, TableInv
<1>12. CASE Discovered
  <2> DEFINE new == {p \in process_tree(snapshot) : \A c \in captured : c[1] # p}
  <2>1. /\ at = "scan" /\ at' \in {"kill", "track"}
        /\ todo' = {<<p, snapshot[p].start>> : p \in new}
        /\ snapshot' = Nobody /\ UNCHANGED <<table, births, captured, hist>>
    BY <1>12 DEF Discovered
  <2>2. \A p \in new : p \in Pids /\ snapshot[p] # None /\ p \in process_tree(snapshot)
    BY DEF process_tree, Present
  <2> HIDE DEF new
  <2>3. \A p \in new : snapshot[p] \in Scanned
    BY <2>1, <2>2 DEF TableInv
  <2>4. \A c \in todo' : c \in Pids \X (Nat \ {0}) /\ c[2] <= births
    BY <2>1, <2>2, <2>3 DEF TableInv, Scanned
  <2>5. TableInv'
    BY <2>1, <2>4 DEF TableInv
  <2>6. ASSUME ~hist.reaped, NEW p \in new, Stranger(table, p)
        PROVE  table[p].start # snapshot[p].start
    <3>1. StrangersApart /\ StrangersSeen
      BY <2>6 DEF SpareInv
    <3>2. SUFFICES ASSUME table[p].start = snapshot[p].start PROVE FALSE
      OBVIOUS
    <3>3. p # Command /\ snapshot[p].pgid = p /\ snapshot[p].ppid = Init1
      BY <2>1, <2>2, <2>6, <3>1, <3>2 DEF StrangersApart, StrangersSeen
    <3> QED
      BY <2>2, <3>3, StrangersOutside
  <2>7. ~hist.reaped => StrangersUncaptured'
    BY <2>1, <2>6 DEF SpareInv, StrangersUncaptured, Stranger
  <2> QED
    BY <2>1, <2>5, <2>7 DEF SpareInv, StrangersApart, StrangersSeen, Stranger
<1>13. ASSUME NEW c \in todo, Track(c) PROVE TableInv' /\ SpareInv'
  <2>1. CASE process_identity_matches(c)
    <3>1. {c[1]} \subseteq Present(table) /\ (hist.reaped \/ \A p \in {c[1]} : ~Stranger(table, p))
      BY <2>1, IdentitySpares
    <3>2. /\ table' \in Tables /\ Ages(table, table')
          /\ hist' \in Histories /\ hist'.reaped = hist.reaped
          /\ hist'.hit => hist.hit \/ hist.reaped
      BY <1>13, <2>1, <3>1, SignalSpares DEF Track
    <3> QED
      BY <1>13, <2>1, <3>2, AgingStep DEF Track, TableInv
  <2>2. CASE ~process_identity_matches(c)
    BY <1>13, <2>2, AgingStep DEF Track, TableInv
  <2> QED
    BY <2>1, <2>2
<1>14. CASE KillCaptured
  <2> DEFINE ps == {c[1] : c \in {c \in captured : process_identity_matches(c)}}
  <2>1. ps \subseteq Present(table) /\ (hist.reaped \/ \A p \in ps : ~Stranger(table, p))
    BY IdentitySpares
  <2>2. Signal(ps, "kill")
    BY <1>14 DEF KillCaptured
  <2> HIDE DEF ps
  <2>3. /\ table' \in Tables /\ Ages(table, table')
        /\ hist' \in Histories /\ hist'.reaped = hist.reaped
        /\ hist'.hit => hist.hit \/ hist.reaped
    BY <2>1, <2>2, SignalSpares
  <2> QED
    BY <1>14, <2>3, AgingStep DEF KillCaptured, TableInv
<1>15. CASE KillGroup
  <2>1. /\ table' \in Tables /\ Ages(table, table')
        /\ hist' \in Histories /\ hist'.reaped = hist.reaped
        /\ hist'.hit => hist.hit \/ hist.reaped
    BY <1>15, GroupSpares, SignalSpares DEF KillGroup
  <2> QED
    BY <1>15, <2>1, AgingStep DEF KillGroup, TableInv
<1>16. CASE Reap
  <2>1. /\ table' = [table EXCEPT ![Command] = None] /\ UNCHANGED <<births, todo, captured>>
        /\ hist' = [hist EXCEPT !.reaped = TRUE, !.due = FALSE]
        /\ at' = "over" \/ UNCHANGED <<at, snapshot>>
    BY <1>16 DEF Reap
  <2>2. \A p \in Pids : table'[p] \in {None, table[p]}
    BY <2>1 DEF TableInv, Tables
  <2>3. table' \in Tables /\ \A p \in Pids : table'[p].start <= births'
    <3>1. table' \in Tables
      BY <2>1, <2>2 DEF TableInv, Tables
    <3>2. births \in Nat /\ None.start = 0 /\ \A p \in Pids : table[p].start <= births
      BY NoneFacts DEF TableInv
    <3> QED
      BY <2>1, <2>2, <3>1, <3>2
  <2>4. hist' \in Histories /\ hist'.reaped
    BY <2>1 DEF TableInv, Histories
  <2>5. TableInv'
    BY <2>1, <2>3, <2>4 DEF TableInv
  <2> QED
    BY <2>4, <2>5 DEF SpareInv
<1>17. CASE UNCHANGED vars
  BY <1>5, <1>17 DEF vars, TableInv
<1> QED
  BY <1>1, <1>2, <1>3, <1>4, <1>6, <1>7, <1>8, <1>9, <1>10, <1>11, <1>12, <1>13, <1>14, <1>15,
     <1>16, <1>17 DEF Next, System, kill_process_tree

\* No signal reaches a process of somebody else, however PIDs are reused between
\* discovery and delivery, as long as the command has not been reaped (track_process,
\* process_identity_matches, kill_process_tree).
THEOREM NoBystanderSignalled == Spec => []BystandersSpared
<1>1. SpareInv => BystandersSpared
  BY DEF SpareInv, BystandersSpared
<1> QED
  BY <1>1, SpareInit, SpareNext, PTL DEF Spec

-----------------------------------------------------------------------------
(* Nothing of the tree survives a kill: facts about process_tree.          *)

\* A process of the group, and a child of the command or of a process in the tree, is
\* in the tree.
LEMMA TreeClosed ==
    ASSUME NEW t, NEW p \in Present(t),
           p = Command \/ t[p].pgid = Command \/ t[p].ppid \in process_tree(t) \union {Command}
    PROVE  p \in process_tree(t)
BY DEF process_tree, Families

\* The tree only depends on parents and groups, and grows with the table.
LEMMA TreeGrows ==
    ASSUME NEW t, NEW u,
           \A p \in Present(t) \ {Command} :
               p \in Present(u) /\ u[p].ppid = t[p].ppid /\ u[p].pgid = t[p].pgid
    PROVE  process_tree(t) \ {Command} \subseteq process_tree(u)
<1> SUFFICES ASSUME NEW p \in process_tree(t) \ {Command}, NEW f \in Families(u) PROVE p \in f
  BY DEF process_tree
<1> DEFINE g == f \intersect (Present(t) \union {Command})
<1>1. Command \in g /\ g \in SUBSET (Present(t) \union {Command})
  BY DEF Families
<1>2. ASSUME NEW q \in Present(t), t[q].pgid = Command \/ t[q].ppid \in g
      PROVE  q \in g
  <2>1. CASE q = Command
    BY <1>1, <2>1
  <2>2. CASE q # Command
    BY <1>2, <2>2 DEF Families
  <2> QED
    BY <2>1, <2>2
<1>3. g \in Families(t)
  BY <1>1, <1>2 DEF Families
<1> QED
  BY <1>3 DEF process_tree

-----------------------------------------------------------------------------
(* Nothing of the tree survives a kill: the inductive invariant.           *)

\* The live processes of the session.
Kin(t) == {p \in Live(t) : t[p].kin = "kin"}

\* A parent is alive and belongs to the session.  Only the command is ever a zombie, and
\* its start time is its own.
Parents(t) ==
    \A p \in Present(t) :
        t[p].ppid = Init1 \/ (t[p].ppid \in Live(t) /\ t[t[p].ppid].kin # "other")
CommandOnly(t) ==
    \A p \in Present(t) :
        /\ t[p].state = "zombie" => t[p].start = 1
        /\ t[p].start = 1 =>
             p = Command /\ t[p].kin = "kin" /\ t[p].pgid = Command /\ t[p].ppid = Init1
        /\ t[p].kin = "other" => t[p].pgid = p

\* As long as the session has a process, nobody else has the command's PID or group.
Anchored(t) ==
    Kin(t) # {} => /\ t[Command] = None \/ t[Command].start = 1
                   /\ \A p \in Present(t) : t[p].kin = "lost" => t[p].pgid # Command
InTree(t) == Kin(t) \subseteq process_tree(t)

\* After Freeze the group is stopped, and so is what has been captured, except for the
\* command, which can be a zombie.
Frozen == \A p \in Kin(table) : table[p].pgid = Command => table[p].state = "stop"
CapturedStopped ==
    \A c \in captured :
        c[1] = Command \/ (table[c[1]].start = c[2] /\ table[c[1]].state = "stop")

\* What a pass has read of the group, and of the children of stopped processes, is
\* still so: neither can have been born since the pass began.
ReadMembers ==
    \A p \in Kin(table) : p < cursor /\ table[p].pgid = Command =>
        snapshot[p] # None /\ snapshot[p].pgid = Command
ReadChildren ==
    \A p \in Present(table) :
        p < cursor /\ table[p].ppid \in Present(table) /\ table[table[p].ppid].state = "stop" =>
            snapshot[p] # None /\ snapshot[p].ppid = table[p].ppid

\* After the last pass all that is left of the session is stopped, and either in the group
\* or captured.
Doomed ==
    \A p \in Kin(table) :
        table[p].state = "stop" /\ (table[p].pgid = Command \/ <<p, table[p].start>> \in captured)

\* The session's tree at every place of the watchdog and of kill_process_tree.
TreeInv ==
    /\ Parents(table) /\ CommandOnly(table) /\ error \in BOOLEAN /\ births > 0
    /\ at \notin {"group", "done"} => Anchored(table) /\ InTree(table)
    /\ at \in {"scan", "track", "kill"} => Frozen /\ CapturedStopped
    /\ at \in Watching \union {"before", "over"} => captured = {}
    /\ at \in {"before", "track"} => cursor = 1
    /\ at = "scan" => cursor \in 1..(MaxPid + 1) /\ ReadMembers /\ ReadChildren
    /\ at = "kill" /\ ~error => Doomed
    /\ at = "group" /\ ~error =>
         \A p \in Kin(table) : table[p].pgid = Command /\ table[p].state = "stop"
    /\ NoSurvivor

\* An entry of a table is free or a process.
LEMMA EntryFacts ==
    ASSUME NEW t \in Tables, NEW p \in Present(t)
    PROVE  p \in Pids /\ t[p] \in Processes /\ t[p] # None
BY DEF Present, Tables

\* What Relabel does to an entry.
LEMMA RelabelEntry ==
    ASSUME NEW t \in Tables, NEW u, u = Relabel(t), NEW p \in Pids
    PROVE  /\ u[p] = None <=> t[p] = None
           /\ t[p] # None =>
                /\ u[p].start = t[p].start /\ u[p].ppid = t[p].ppid /\ u[p].pgid = t[p].pgid
                /\ u[p].state = t[p].state
                /\ u[p].kin = IF p \in Kin(t) \ process_tree(t) THEN "lost" ELSE t[p].kin
<1>1. u[p] = IF p \in Kin(t) \ process_tree(t) THEN [t[p] EXCEPT !.kin = "lost"] ELSE t[p]
  BY DEF Relabel, Kin
<1>2. CASE p \in Kin(t) \ process_tree(t)
  <2>1. t[p] \in Processes /\ t[p] # None
    BY <1>2, EntryFacts DEF Kin, Live
  <2>2. u[p] = [t[p] EXCEPT !.kin = "lost"]
    BY <1>1, <1>2
  <2>3. u[p] \in Processes
    BY <2>1, <2>2 DEF Processes, Kinds
  <2> QED
    BY <1>2, <2>1, <2>2, <2>3, NoneFacts DEF Processes
<1>3. CASE p \notin Kin(t) \ process_tree(t)
  BY <1>1, <1>3
<1> QED
  BY <1>2, <1>3

\* What the death of some processes does to an entry.
LEMMA RemoveEntry ==
    ASSUME NEW t \in Tables, NEW dead \in SUBSET Present(t), NEW u, u = Remove(t, dead),
           NEW p \in Pids
    PROVE  /\ u[p] = None <=> t[p] = None \/ (p \in dead /\ t[p].start # 1)
           /\ u[p] # None =>
                /\ u[p].start = t[p].start /\ u[p].kin = t[p].kin /\ u[p].pgid = t[p].pgid
                /\ u[p].state = IF p \in dead THEN "zombie" ELSE t[p].state
                /\ u[p].ppid = IF p \notin dead /\ t[p].ppid \in dead THEN Init1 ELSE t[p].ppid
<1>1. CASE t[p] = None
  <2>1. p \notin dead
    BY <1>1, EntryFacts
  <2> QED
    BY <1>1, <2>1 DEF Remove
<1>2. CASE t[p] # None
  <2>1. t[p] \in Processes
    BY <1>2 DEF Tables
  <2>2. CASE p \in dead /\ t[p].start = 1
    <3>1. u[p] = [t[p] EXCEPT !.state = "zombie"]
      BY <2>2 DEF Remove
    <3>2. u[p] \in Processes
      BY <2>1, <3>1 DEF Processes, States
    <3> QED
      BY <1>2, <2>1, <2>2, <3>1, <3>2, NoneFacts DEF Processes
  <2>3. CASE p \in dead /\ t[p].start # 1
    BY <1>2, <2>3 DEF Remove
  <2>4. CASE p \notin dead /\ t[p].ppid \in dead
    <3>1. u[p] = [t[p] EXCEPT !.ppid = Init1]
      BY <1>2, <2>4 DEF Remove
    <3>2. u[p] \in Processes
      BY <2>1, <3>1, PidFacts DEF Processes
    <3> QED
      BY <1>2, <2>1, <2>4, <3>1, <3>2, NoneFacts DEF Processes
  <2>5. CASE p \notin dead /\ t[p].ppid \notin dead
    BY <1>2, <2>5 DEF Remove
  <2> QED
    BY <2>2, <2>3, <2>4, <2>5
<1> QED
  BY <1>1, <1>2

\* What SIGSTOP does to an entry.
LEMMA StopEntry ==
    ASSUME table \in Tables, NEW ps, Signal(ps, "stop"), NEW p \in Pids
    PROVE  /\ table'[p] = None <=> table[p] = None
           /\ table[p] # None =>
                /\ table'[p].start = table[p].start /\ table'[p].kin = table[p].kin
                /\ table'[p].pgid = table[p].pgid /\ table'[p].ppid = table[p].ppid
                /\ table'[p].state =
                     IF p \in ps /\ table[p].state = "run" THEN "stop" ELSE table[p].state
<1>1. table'[p] = IF p \in ps /\ p \in Active THEN [table[p] EXCEPT !.state = "stop"] ELSE table[p]
  BY DEF Signal
<1>2. p \in Active <=> table[p] # None /\ table[p].state = "run"
  BY DEF Active, Live, Present
<1>3. CASE p \in ps /\ p \in Active
  <2>1. table[p] \in Processes
    BY <1>2, <1>3 DEF Tables
  <2>2. table'[p] = [table[p] EXCEPT !.state = "stop"]
    BY <1>1, <1>3
  <2>3. table'[p] \in Processes
    BY <2>1, <2>2 DEF Processes, States
  <2> QED
    BY <1>2, <1>3, <2>1, <2>2, <2>3, NoneFacts DEF Processes
<1>4. CASE ~(p \in ps /\ p \in Active)
  BY <1>1, <1>2, <1>4
<1> QED
  BY <1>3, <1>4

\* Relabel makes what is not in the tree lost, and keeps the rest.
LEMMA RelabelKeeps ==
    ASSUME NEW t \in Tables, Parents(t), CommandOnly(t), NEW u, u = Relabel(t)
    PROVE  Parents(u) /\ CommandOnly(u) /\ InTree(u) /\ (Anchored(t) => Anchored(u))
<1>1. Present(u) = Present(t)
  BY RelabelEntry DEF Present
<1>2. Live(u) = Live(t)
  BY <1>1, RelabelEntry DEF Live, Present
<1>3. ASSUME NEW p \in Present(t)
      PROVE  /\ p \in Pids
             /\ u[p].start = t[p].start /\ u[p].ppid = t[p].ppid /\ u[p].pgid = t[p].pgid
             /\ u[p].state = t[p].state
             /\ u[p].kin = IF p \in Kin(t) \ process_tree(t) THEN "lost" ELSE t[p].kin
  BY RelabelEntry, EntryFacts
<1> HIDE DEF Relabel
<1>4. Parents(u)
  BY <1>1, <1>2, <1>3 DEF Parents, Live
<1>5. Command \in Present(t) => Command \in process_tree(t)
  BY TreeClosed
<1>6. CommandOnly(u)
  BY <1>1, <1>3, <1>5 DEF CommandOnly, Kin
<1>7. Kin(u) = Kin(t) \intersect process_tree(t)
  BY <1>2, <1>3 DEF Kin, Live
<1>8. InTree(u)
  <2>1. process_tree(t) \ {Command} \subseteq process_tree(u)
    BY <1>1, <1>3, TreeGrows
  <2>2. Command \in Present(u) => Command \in process_tree(u)
    BY TreeClosed
  <2> QED
    BY <1>7, <2>1, <2>2 DEF InTree, Kin, Live
<1>9. ASSUME Anchored(t), Kin(u) # {} PROVE u[Command] = None \/ u[Command].start = 1
  BY <1>7, <1>9, RelabelEntry, PidFacts DEF Anchored
<1>10. ASSUME Anchored(t), Kin(u) # {}, NEW p \in Present(u), u[p].kin = "lost"
       PROVE  u[p].pgid # Command
  <2>1. CASE p \in process_tree(t) \/ p \notin Kin(t)
    BY <1>1, <1>3, <1>7, <1>10, <2>1 DEF Anchored
  <2>2. CASE p \notin process_tree(t)
    BY <1>1, <1>3, <2>2, TreeClosed
  <2> QED
    BY <2>1, <2>2
<1> QED
  BY <1>4, <1>6, <1>8, <1>9, <1>10 DEF Anchored

\* The death of processes orphans their children and anchors nobody else.
LEMMA RemoveKeeps ==
    ASSUME NEW t \in Tables, NEW dead \in SUBSET Present(t), Parents(t), CommandOnly(t),
           NEW u, u = Remove(t, dead)
    PROVE  Parents(u) /\ CommandOnly(u) /\ (Anchored(t) => Anchored(u)) /\ Kin(u) = Kin(t) \ dead
<1>1. ASSUME NEW p \in Present(u)
      PROVE  /\ p \in Present(t) /\ p \in Pids /\ u[p] # None
             /\ u[p].start = t[p].start /\ u[p].kin = t[p].kin /\ u[p].pgid = t[p].pgid
             /\ u[p].state = IF p \in dead THEN "zombie" ELSE t[p].state
             /\ u[p].ppid = IF p \notin dead /\ t[p].ppid \in dead THEN Init1 ELSE t[p].ppid
  BY RemoveEntry DEF Present
<1>2. \A p \in Present(t) : p \in Present(u) <=> p \notin dead \/ t[p].start = 1
  BY RemoveEntry, EntryFacts DEF Present
<1> HIDE DEF Remove
<1>3. Live(u) = Live(t) \ dead
  BY <1>1, <1>2 DEF Live
<1>4. Parents(u)
  <2> SUFFICES ASSUME NEW p \in Present(u), u[p].ppid # Init1
               PROVE  u[p].ppid \in Live(u) /\ u[u[p].ppid].kin # "other"
    BY DEF Parents
  <2>1. p \notin dead
    BY <1>1, <1>2 DEF CommandOnly
  <2>2. u[p].ppid = t[p].ppid /\ t[p].ppid \notin dead
    BY <1>1, <2>1
  <2>3. t[p].ppid \in Live(t) /\ t[t[p].ppid].kin # "other"
    BY <1>1, <2>2 DEF Parents
  <2> QED
    BY <1>1, <1>3, <2>2, <2>3 DEF Live
<1>5. CommandOnly(u)
  BY <1>1, <1>2 DEF CommandOnly
<1>6. Kin(u) = Kin(t) \ dead
  BY <1>1, <1>3 DEF Kin, Live
<1>7. Anchored(t) => Anchored(u)
  <2>1. u[Command] # None => u[Command].start = t[Command].start /\ t[Command] # None
    BY RemoveEntry, PidFacts
  <2> QED
    BY <1>1, <1>6, <2>1 DEF Anchored
<1> QED
  BY <1>4, <1>5, <1>6, <1>7

\* From t to u nothing is born, stopped or continued: processes exit, leave their group or
\* are lost, and what is stopped stays as it is.
Keeps(t, u) ==
    \A p \in Pids :
        /\ u[p] # None =>
             /\ t[p] # None /\ u[p].start = t[p].start /\ u[p].ppid \in {t[p].ppid, Init1}
             /\ u[p].kin = "kin" => t[p].kin = "kin" /\ (u[p].pgid = Command => t[p].pgid = Command)
             /\ u[p].state = "stop" => t[p].state = "stop"
             /\ u[p].state # "zombie" => t[p].state # "zombie"
        /\ t[p] # None /\ t[p].state = "stop" =>
             u[p] # None /\ u[p].state = "stop" /\ u[p].pgid = t[p].pgid

\* Such a step keeps everything that is known of a kill under way.
LEMMA KeepsStep ==
    ASSUME TableInv, TreeInv, table' \in Tables, Keeps(table, table'),
           Parents(table)', CommandOnly(table)',
           at \notin {"group", "done"} => Anchored(table)' /\ InTree(table)',
           at # "done", UNCHANGED <<births, at, snapshot, cursor, captured, error>>
    PROVE  TreeInv'
<1>1. ASSUME NEW p \in Kin(table)'
      PROVE  /\ p \in Kin(table) /\ table'[p].start = table[p].start
             /\ table'[p].pgid = Command => table[p].pgid = Command
             /\ table[p].state = "stop" =>
                  table'[p].state = "stop" /\ table'[p].pgid = table[p].pgid
  BY DEF Kin, Live, Present, Keeps
<1>2. at \in {"scan", "track", "kill"} => Frozen'
  BY <1>1 DEF TreeInv, Frozen
<1>3. at \in {"scan", "track", "kill"} => CapturedStopped'
  <2> SUFFICES ASSUME at \in {"scan", "track", "kill"}, NEW c \in captured, c[1] # Command
               PROVE  table'[c[1]].start = c[2] /\ table'[c[1]].state = "stop"
    BY DEF CapturedStopped
  <2>1. c[1] \in Pids /\ c[2] # 0 /\ table[c[1]].start = c[2] /\ table[c[1]].state = "stop"
    BY DEF TreeInv, CapturedStopped, TableInv
  <2>2. table[c[1]] # None
    BY <2>1, NoneFacts
  <2> QED
    BY <2>1, <2>2 DEF Keeps
<1>4. at = "scan" => ReadMembers'
  BY <1>1 DEF TreeInv, ReadMembers
<1>5. at = "scan" => ReadChildren'
  <2> SUFFICES ASSUME at = "scan", NEW p \in Present(table)', p < cursor,
                      table'[p].ppid \in Present(table)', table'[table'[p].ppid].state = "stop"
               PROVE  snapshot[p] # None /\ snapshot[p].ppid = table'[p].ppid
    BY DEF ReadChildren
  <2> DEFINE y == table'[p].ppid
  <2>1. p \in Pids /\ y \in Pids /\ y # Init1
    BY PidFacts DEF Present
  <2>2. table[p] # None /\ table[p].ppid = y /\ table[y] # None /\ table[y].state = "stop"
    BY <2>1 DEF Keeps, Present
  <2> HIDE DEF y
  <2>3. snapshot[p] # None /\ snapshot[p].ppid = y
    BY <2>1, <2>2 DEF TreeInv, ReadChildren, Present
  <2> QED
    BY <2>3 DEF y
<1>6. at = "kill" /\ ~error => Doomed'
  BY <1>1 DEF TreeInv, Doomed
<1>7. at = "group" /\ ~error =>
        \A p \in Kin(table)' : table'[p].pgid = Command /\ table'[p].state = "stop"
  BY <1>1 DEF TreeInv
<1> QED
  BY <1>2, <1>3, <1>4, <1>5, <1>6, <1>7 DEF TreeInv, NoSurvivor, Watching

\* Stopping processes changes neither the tree nor who is in it.
LEMMA StopKeeps ==
    ASSUME TableInv, TreeInv, NEW ps \in SUBSET Present(table), Signal(ps, "stop")
    PROVE  /\ table' \in Tables /\ Parents(table)' /\ CommandOnly(table)'
           /\ Anchored(table) /\ InTree(table) => Anchored(table)' /\ InTree(table)'
           /\ Kin(table)' = Kin(table)
<1>0. table \in Tables
  BY DEF TableInv
<1>1. Present(table)' = Present(table)
  BY <1>0, StopEntry DEF Present
<1>2. ASSUME NEW p \in Present(table)
      PROVE  /\ p \in Pids /\ table'[p].start = table[p].start /\ table'[p].kin = table[p].kin
             /\ table'[p].pgid = table[p].pgid /\ table'[p].ppid = table[p].ppid
             /\ table'[p].state = "zombie" <=> table[p].state = "zombie"
  BY <1>0, StopEntry, EntryFacts
<1>3. Live(table)' = Live(table)
  BY <1>1, <1>2 DEF Live
<1>4. Kin(table)' = Kin(table)
  BY <1>2, <1>3 DEF Kin, Live
<1>5. Parents(table)' /\ CommandOnly(table)'
  BY <1>1, <1>2, <1>3 DEF TreeInv, Parents, CommandOnly, Live
<1>6. Anchored(table) => Anchored(table)'
  BY <1>0, <1>1, <1>2, <1>4, StopEntry, PidFacts DEF Anchored
<1>7. InTree(table) => InTree(table)'
  <2>1. process_tree(table) \ {Command} \subseteq process_tree(table)'
    BY <1>1, <1>2, TreeGrows
  <2>2. Command \in Present(table)' => Command \in process_tree(table)'
    BY TreeClosed
  <2> QED
    BY <1>1, <1>4, <2>1, <2>2 DEF InTree, Kin, Live
<1>8. table' \in Tables
  <2>1. ASSUME NEW p \in Pids PROVE table'[p] \in Processes \union {None}
    <3>1. table'[p] = IF p \in ps /\ p \in Active
                      THEN [table[p] EXCEPT !.state = "stop"] ELSE table[p]
      BY DEF Signal
    <3>2. CASE p \in ps /\ p \in Active
      BY <1>0, <3>1, <3>2, EntryFacts DEF Processes, States
    <3>3. CASE ~(p \in ps /\ p \in Active)
      BY <1>0, <3>1, <3>3 DEF Tables
    <3> QED
      BY <3>2, <3>3
  <2> QED
    BY <2>1 DEF Signal, Tables
<1> QED
  BY <1>4, <1>5, <1>6, <1>7, <1>8

\* A pass that finds nothing new leaves nothing of the session running: the processes it
\* has read, all of them captured, are closed under children in the table as well.
LEMMA LastPass ==
    ASSUME TableInv, TreeInv, at = "scan", cursor \notin Pids,
           \A p \in process_tree(snapshot) : \E c \in captured : c[1] = p
    PROVE  Doomed
<1> SUFFICES ASSUME NEW k \in Kin(table)
             PROVE  /\ table[k].state = "stop"
                    /\ table[k].pgid = Command \/ <<k, table[k].start>> \in captured
  BY DEF Doomed
<1>1. table \in Tables /\ Parents(table) /\ CommandOnly(table) /\ Anchored(table) /\ InTree(table)
  BY DEF TableInv, TreeInv
<1>2. Frozen /\ CapturedStopped /\ ReadMembers /\ ReadChildren
  BY DEF TreeInv
<1>3. \A p \in Present(table) : p \in Pids /\ p < cursor
  BY ProcessAssumption DEF TreeInv, Present, Pids
<1>4. \A c \in captured : c = <<c[1], c[2]>>
  BY DEF TableInv
<1>5. Command \in Live(table) => table[Command].state = "stop"
  <2> SUFFICES ASSUME Command \in Live(table) PROVE table[Command].state = "stop"
    OBVIOUS
  <2>1. Command \in Present(table) /\ table[Command] # None
    BY DEF Live, Present
  <2>2. table[Command].start = 1
    BY <1>1, <2>1 DEF Anchored
  <2>3. Command \in Kin(table) /\ table[Command].pgid = Command
    BY <1>1, <2>1, <2>2 DEF CommandOnly, Kin
  <2> QED
    BY <1>2, <2>3 DEF Frozen
<1>6. ASSUME NEW p \in process_tree(snapshot), p # Command
      PROVE  table[p].state = "stop" /\ <<p, table[p].start>> \in captured
  BY <1>2, <1>4, <1>6 DEF CapturedStopped
<1> DEFINE F == {Command} \union (Present(table) \intersect process_tree(snapshot))
<1>7. ASSUME NEW p \in Present(table), table[p].pgid = Command PROVE p \in F
  <2>1. CASE p = Command
    BY <2>1
  <2>2. CASE p # Command
    <3>1. table[p].kin = "kin"
      BY <1>1, <1>7, <2>2, EntryFacts DEF CommandOnly, Anchored, Processes, Kinds
    <3>2. p \in Kin(table)
      BY <1>1, <2>2, <3>1 DEF CommandOnly, Kin, Live
    <3>3. p \in Present(snapshot) /\ snapshot[p].pgid = Command
      BY <1>2, <1>3, <1>7, <3>2 DEF ReadMembers, Present
    <3> QED
      BY <3>3, TreeClosed
  <2> QED
    BY <2>1, <2>2
<1>8. ASSUME NEW p \in Present(table), table[p].ppid \in F PROVE p \in F
  <2> DEFINE y == table[p].ppid
  <2>1. y # Init1
    BY <1>3, <1>8, PidFacts
  <2>2. y \in Live(table)
    BY <1>1, <2>1 DEF Parents
  <2>3. table[y].state = "stop"
    BY <1>5, <1>6, <1>8, <2>2
  <2>4. p \in Present(snapshot) /\ snapshot[p].ppid = y
    BY <1>2, <1>3, <2>2, <2>3 DEF ReadChildren, Live, Present
  <2>5. p \in process_tree(snapshot)
    BY <1>8, <2>4, TreeClosed
  <2> QED
    BY <2>5
<1>9. F \in Families(table)
  BY <1>7, <1>8 DEF Families
<1>10. k \in F
  BY <1>1, <1>9 DEF InTree, process_tree
<1>11. CASE k = Command
  <2>1. table[Command].start = 1 /\ Command \in Live(table)
    BY <1>1, <1>11 DEF Anchored, Kin, Live, Present
  <2> QED
    BY <1>1, <1>5, <1>11, <2>1 DEF CommandOnly, Live
<1>12. CASE k # Command
  BY <1>6, <1>10, <1>12
<1> QED
  BY <1>11, <1>12

\* The command's PID is not given away while the session has a process: its group is
\* not empty.
LEMMA AnchorTaken ==
    ASSUME TableInv, TreeInv, at \notin {"group", "done"}, Kin(table) # {}, NEW q \in Pids, Free(q)
    PROVE  q # Command
<1> SUFFICES ASSUME q = Command PROVE FALSE
  OBVIOUS
<1>1. Command \notin Present(table) /\ \A p \in Present(table) : table[p].pgid # Command
  BY DEF Free, Present
<1>2. \A p \in Present(table) : table[p].ppid # Command
  BY <1>1, PidFacts DEF TreeInv, Parents, Live
<1>3. {Command} \in Families(table)
  BY <1>1, <1>2 DEF Families
<1>4. Kin(table) \subseteq {Command}
  BY <1>3 DEF TreeInv, InTree, process_tree
<1> QED
  BY <1>1, <1>4 DEF Kin, Live

\* A process is born of a running one, or belongs to somebody else.
Born(q, r) ==
    /\ Free(q) /\ r \in Processes /\ r.state = "run" /\ r.start > 1
    /\ table' = [table EXCEPT ![q] = r]
    /\ \/ r.kin = "other" /\ r.pgid = q /\ r.ppid = Init1
       \/ /\ r.ppid \in Live(table) /\ table[r.ppid].state = "run" /\ table[r.ppid].kin # "other"
          /\ r.kin = table[r.ppid].kin /\ r.pgid = table[r.ppid].pgid

\* A birth keeps everything that is known of a kill under way: its parent was neither
\* stopped nor in the group that Freeze has stopped.
LEMMA BornStep ==
    ASSUME TableInv, TreeInv, NEW q \in Pids, NEW r, Born(q, r), births' > 0, at # "done",
           UNCHANGED <<at, snapshot, cursor, captured, error>>
    PROVE  TreeInv'
<1> DEFINE y == r.ppid
<1>0. table \in Tables /\ Parents(table) /\ CommandOnly(table) /\ table[q] = None
  BY DEF TableInv, TreeInv, Born, Free
<1>1. \A p \in Pids : table'[p] = IF p = q THEN r ELSE table[p]
  BY <1>0 DEF Born, Tables
<1>2. r # None /\ q \notin Present(table) /\ r \in Processes /\ r.state = "run" /\ r.start # 1
  BY <1>0, NoneFacts DEF Born, Present
<1>3. Present(table)' = Present(table) \union {q} /\ Live(table)' = Live(table) \union {q}
  BY <1>1, <1>2 DEF Present, Live
<1>4. \A p \in Present(table) : p \in Pids /\ p # q /\ table'[p] = table[p]
  BY <1>1, <1>2 DEF Present
<1>5. table'[q] = r
  BY <1>1
<1>6. /\ r.kin = "other" => r.pgid = q /\ y = Init1
      /\ r.kin # "other" => /\ y \in Live(table) /\ y \in Present(table) /\ table[y].state = "run"
                            /\ r.kin = table[y].kin /\ r.pgid = table[y].pgid
  BY PidFacts DEF Born, Live
<1>7. r.kin = "kin" => y \in Kin(table)
  BY <1>6 DEF Kin
<1>8. \A p \in Kin(table)' : p \in Kin(table) \/ (p = q /\ r.kin = "kin")
  BY <1>3, <1>4, <1>5 DEF Kin, Live
<1>9. \A p \in Kin(table) : p \in Present(table) /\ p # q /\ table'[p] = table[p]
  BY <1>4 DEF Kin, Live
<1> HIDE DEF y
<1>10. Parents(table)'
  <2>1. ASSUME NEW p \in Present(table), table[p].ppid # Init1
        PROVE  table'[p].ppid \in Live(table)' /\ table'[table'[p].ppid].kin # "other"
    <3>1. table'[p].ppid = table[p].ppid
      BY <1>4
    <3>2. table[p].ppid \in Live(table) /\ table[table[p].ppid].kin # "other"
      BY <1>0, <2>1 DEF Parents
    <3> QED
      BY <1>3, <1>4, <3>1, <3>2 DEF Live
  <2>2. r.ppid = Init1 \/ (r.ppid \in Live(table)' /\ table'[r.ppid].kin # "other")
    BY <1>3, <1>4, <1>6 DEF Born, Live
  <2> QED
    BY <1>3, <1>4, <1>5, <2>1, <2>2 DEF Parents
<1>11. CommandOnly(table)'
  BY <1>0, <1>2, <1>3, <1>4, <1>5, <1>6 DEF CommandOnly
<1>12. ASSUME at \notin {"group", "done"} PROVE Anchored(table)' /\ InTree(table)'
  <2>1. Anchored(table) /\ InTree(table)
    BY <1>12 DEF TreeInv
  <2>2. Kin(table)' # {} => Kin(table) # {}
    BY <1>7, <1>8
  <2>3. Kin(table) # {} => q # Command
    BY <1>12, AnchorTaken DEF Born
  <2>4. Kin(table) # {} => table'[Command] = table[Command]
    BY <1>1, <2>3, PidFacts
  <2>5. Anchored(table)'
    BY <1>3, <1>4, <1>5, <1>6, <2>1, <2>2, <2>4 DEF Anchored
  <2>6. process_tree(table) \ {Command} \subseteq process_tree(table)'
    BY <1>3, <1>4, TreeGrows
  <2>7. Command \in Present(table)' => Command \in process_tree(table)'
    BY TreeClosed
  <2>8. Kin(table) \subseteq process_tree(table)'
    BY <1>3, <1>9, <2>1, <2>6, <2>7 DEF InTree
  <2>9. r.kin = "kin" => q \in process_tree(table)'
    BY <1>3, <1>5, <1>7, <2>8, TreeClosed DEF y
  <2> QED
    BY <1>8, <2>5, <2>8, <2>9 DEF InTree
<1>13. at \in {"scan", "track", "kill"} /\ r.kin = "kin" => r.pgid # Command
  BY <1>6, <1>7 DEF TreeInv, Frozen
<1>14. at \in {"scan", "track", "kill"} => Frozen'
  BY <1>5, <1>8, <1>9, <1>13 DEF TreeInv, Frozen
<1>15. at \in {"scan", "track", "kill"} => CapturedStopped'
  <2> SUFFICES ASSUME at \in {"scan", "track", "kill"}, NEW c \in captured, c[1] # Command
               PROVE  table'[c[1]].start = c[2] /\ table'[c[1]].state = "stop"
    BY DEF CapturedStopped
  <2>1. c[1] \in Pids /\ c[2] # 0 /\ table[c[1]].start = c[2] /\ table[c[1]].state = "stop"
    BY DEF TreeInv, CapturedStopped, TableInv
  <2>2. c[1] \in Present(table)
    BY <2>1, NoneFacts DEF Present
  <2> QED
    BY <1>4, <2>1, <2>2
<1>16. at = "scan" => ReadMembers'
  BY <1>5, <1>8, <1>9, <1>13 DEF TreeInv, ReadMembers
<1>17. at = "scan" => ReadChildren'
  <2> SUFFICES ASSUME at = "scan", NEW p \in Present(table)', p < cursor,
                      table'[p].ppid \in Present(table)', table'[table'[p].ppid].state = "stop"
               PROVE  snapshot[p] # None /\ snapshot[p].ppid = table'[p].ppid
    BY DEF ReadChildren
  <2>1. p # q
    <3> SUFFICES ASSUME p = q PROVE FALSE
      OBVIOUS
    <3>1. table'[p].ppid = y /\ y # Init1
      BY <1>3, <1>5, PidFacts DEF y, Present
    <3>2. y \in Present(table) /\ table[y].state = "run"
      BY <1>2, <1>6, <3>1 DEF Processes, Kinds
    <3> QED
      BY <1>4, <3>1, <3>2
  <2>2. p \in Present(table) /\ table'[p] = table[p]
    BY <1>3, <1>4, <2>1
  <2>3. table[p].ppid \in Live(table)
    BY <1>0, <1>3, <2>2, PidFacts DEF Parents, Present
  <2>4. table[p].ppid \in Present(table) /\ table[table[p].ppid].state = "stop"
    BY <1>4, <2>2, <2>3 DEF Live
  <2> QED
    BY <2>2, <2>4 DEF TreeInv, ReadChildren
<1>18. at = "kill" /\ ~error => Doomed'
  BY <1>6, <1>7, <1>8, <1>9 DEF TreeInv, Doomed
<1>19. at = "group" /\ ~error =>
         \A p \in Kin(table)' : table'[p].pgid = Command /\ table'[p].state = "stop"
  BY <1>6, <1>7, <1>8, <1>9 DEF TreeInv
<1> QED
  BY <1>10, <1>11, <1>12, <1>14, <1>15, <1>16, <1>17, <1>18, <1>19 DEF TreeInv, NoSurvivor, Watching

\* Until the first pass nothing but the process table matters.
LEMMA QuietStep ==
    ASSUME TreeInv, UNCHANGED <<table, births, captured, error>>, at \in Watching \union {"over"},
           at' \in Watching \union {"before"}, at' = "before" => cursor' = 1
    PROVE  TreeInv'
BY DEF TreeInv, Watching, Parents, CommandOnly, Anchored, InTree, Kin, Live, Present, NoSurvivor

\* The session starts with the command, Cabal and GHC.
LEMMA TreeInit == Init => TreeInv
<1> SUFFICES ASSUME Init PROVE TreeInv
  OBVIOUS
<1> USE ProcessAssumption DEF Command, Cabal, Ghc
<1>1. Command \in Pids /\ Cabal \in Pids /\ Ghc \in Pids
  BY DEF Pids
<1>2. /\ table[Command] = Process(1, Init1, Command, "kin")
      /\ table[Cabal] = Process(2, Command, Command, "kin")
      /\ table[Ghc] = Process(3, Cabal, Command, "kin")
      /\ \A p \in Pids : p \notin {Command, Cabal, Ghc} => table[p] = None
  BY <1>1 DEF Init
<1>3. Present(table) = {Command, Cabal, Ghc}
  BY <1>1, <1>2 DEF Present, Process, None
<1>4. /\ \A p \in Present(table) :
           /\ table[p].kin = "kin" /\ table[p].pgid = Command /\ table[p].state = "run"
           /\ table[p].start = 1 => p = Command
      /\ table[Command].start = 1 /\ table[Command].ppid = Init1
      /\ table[Cabal].ppid = Command /\ table[Ghc].ppid = Cabal
  BY <1>2, <1>3 DEF Process
<1>5. Live(table) = Present(table) /\ Kin(table) = Present(table)
  BY <1>4 DEF Live, Kin
<1>6. InTree(table)
  BY <1>4, <1>5, TreeClosed DEF InTree
<1>7. Parents(table) /\ CommandOnly(table) /\ Anchored(table)
  BY <1>3, <1>4, <1>5 DEF Parents, CommandOnly, Anchored
<1>8. at = "watch" /\ captured = {} /\ error = FALSE /\ births > 0
  BY DEF Init
<1> QED
  BY <1>6, <1>7, <1>8 DEF TreeInv, NoSurvivor, Watching

\* A step of the watchdog or of a kill that leaves the table alone.
LEMMA SameTable ==
    ASSUME table' = table
    PROVE  /\ Present(table)' = Present(table) /\ Kin(table)' = Kin(table)
           /\ Parents(table)' <=> Parents(table)
           /\ CommandOnly(table)' <=> CommandOnly(table)
           /\ Anchored(table)' <=> Anchored(table)
           /\ InTree(table)' <=> InTree(table)
BY DEF Present, Live, Kin, Parents, CommandOnly, Anchored, InTree, process_tree, Families

\* An exit keeps what is known of a kill under way.
LEMMA ExitStep ==
    ASSUME TableInv, TreeInv, at # "done", NEW p \in Pids, Exit(p), table' \in Tables
    PROVE  TreeInv'
<1> DEFINE t == Remove(table, {p})
<1>1. /\ table \in Tables /\ {p} \in SUBSET Present(table) /\ table[p].state = "run"
      /\ Parents(table) /\ CommandOnly(table)
  BY DEF Exit, Active, Live, TableInv, TreeInv
<1>2. table' = Relabel(t) /\ UNCHANGED <<births, at, snapshot, cursor, captured, error>>
  BY DEF Exit, Unrelated
<1>3. t \in Tables
  BY <1>1, RemoveAges
<1>4. Parents(t) /\ CommandOnly(t) /\ (Anchored(table) => Anchored(t))
  BY <1>1, RemoveKeeps
<1>5. ASSUME NEW q \in Pids
      PROVE  /\ t[q] = None <=> table[q] = None \/ (q = p /\ table[q].start # 1)
             /\ t[q] # None =>
                  /\ t[q].start = table[q].start /\ t[q].kin = table[q].kin
                  /\ t[q].pgid = table[q].pgid
                  /\ t[q].state = IF q = p THEN "zombie" ELSE table[q].state
                  /\ t[q].ppid \in {Init1, table[q].ppid}
  BY <1>1, RemoveEntry
<1> HIDE DEF t
<1>6. Parents(table)' /\ CommandOnly(table)' /\ InTree(table)' /\ (Anchored(t) => Anchored(table)')
  BY <1>2, <1>3, <1>4, RelabelKeeps
<1>7. ASSUME NEW q \in Pids
      PROVE  /\ table'[q] = None <=> t[q] = None
             /\ t[q] # None =>
                  /\ table'[q].start = t[q].start /\ table'[q].ppid = t[q].ppid
                  /\ table'[q].pgid = t[q].pgid /\ table'[q].state = t[q].state
                  /\ table'[q].kin \in {"lost", t[q].kin}
  BY <1>2, <1>3, RelabelEntry
<1>8. Keeps(table, table')
  BY <1>1, <1>5, <1>7 DEF Keeps
<1> QED
  BY <1>2, <1>4, <1>6, <1>8, KeepsStep DEF TreeInv

\* So does leaving the group.
LEMMA SetPgidStep ==
    ASSUME TableInv, TreeInv, at # "done", NEW p \in Pids, SetPgid(p), table' \in Tables
    PROVE  TreeInv'
<1> DEFINE t == [table EXCEPT ![p].pgid = p]
<1>1. /\ table \in Tables /\ p \in Present(table) /\ table[p].state = "run" /\ table[p].start > 3
      /\ Parents(table) /\ CommandOnly(table)
  BY DEF SetPgid, Active, Live, TableInv, TreeInv
<1>2. table' = Relabel(t) /\ UNCHANGED <<births, at, snapshot, cursor, captured, error>>
  BY DEF SetPgid, Unrelated
<1>3. table[p] \in Processes
  BY <1>1, EntryFacts
<1>4. /\ t[p] = [table[p] EXCEPT !.pgid = p] /\ t \in [Pids -> Processes \union {None}]
      /\ \A q \in Pids \ {p} : t[q] = table[q]
  BY <1>1, <1>3 DEF Tables, Processes
<1>5. t \in Tables /\ t[p] \in Processes
  BY <1>3, <1>4, EntryFacts DEF Tables, Processes
<1>6. /\ t[p].start = table[p].start /\ t[p].kin = table[p].kin /\ t[p].pgid = p
      /\ t[p].state = table[p].state /\ t[p].ppid = table[p].ppid
  BY <1>3, <1>4 DEF Processes
<1> HIDE DEF t
<1>7. ASSUME NEW q \in Pids
      PROVE  /\ t[q] = None <=> table[q] = None
             /\ t[q] # None =>
                  /\ t[q].start = table[q].start /\ t[q].ppid = table[q].ppid
                  /\ t[q].state = table[q].state /\ t[q].kin = table[q].kin
                  /\ t[q].pgid = IF q = p THEN p ELSE table[q].pgid
  BY <1>1, <1>4, <1>5, <1>6, NoneFacts DEF Present
<1>8. Present(t) = Present(table) /\ Live(t) = Live(table) /\ Kin(t) = Kin(table)
  <2>1. Present(t) = Present(table)
    BY <1>7 DEF Present
  <2>2. Live(t) = Live(table)
    BY <1>7, <2>1 DEF Live, Present
  <2> QED
    BY <1>7, <2>1, <2>2 DEF Live, Kin, Present
<1>9. Parents(t)
  BY <1>1, <1>7, <1>8 DEF Parents, Present, Live
<1>10. CommandOnly(t)
  <2>1. ASSUME NEW q \in Present(t)
        PROVE  /\ q \in Present(table) /\ q \in Pids
               /\ t[q].start = table[q].start /\ t[q].ppid = table[q].ppid
               /\ t[q].state = table[q].state /\ t[q].kin = table[q].kin
               /\ t[q].pgid = IF q = p THEN p ELSE table[q].pgid
    BY <1>7, <1>8 DEF Present
  <2> QED
    BY <1>1, <2>1 DEF CommandOnly
<1>11. ASSUME Anchored(table) PROVE Anchored(t)
  <2>1. CASE Kin(table) = {}
    BY <1>8, <2>1 DEF Anchored
  <2>2. CASE Kin(table) # {}
    <3>1. table[Command] = None \/ table[Command].start = 1
      BY <1>11, <2>2 DEF Anchored
    <3>2. p # Command
      BY <1>1, <1>3, <3>1, NoneFacts
    <3>3. t[Command] = table[Command]
      BY <1>4, <3>2, PidFacts
    <3> QED
      BY <1>7, <1>8, <1>11, <3>2, <3>3 DEF Anchored, Present
  <2> QED
    BY <2>1, <2>2
<1>12. Parents(table)' /\ CommandOnly(table)' /\ InTree(table)' /\ (Anchored(t) => Anchored(table)')
  BY <1>2, <1>5, <1>9, <1>10, RelabelKeeps
<1>13. ASSUME NEW q \in Pids
       PROVE  /\ table'[q] = None <=> t[q] = None
              /\ t[q] # None =>
                   /\ table'[q].start = t[q].start /\ table'[q].ppid = t[q].ppid
                   /\ table'[q].pgid = t[q].pgid /\ table'[q].state = t[q].state
                   /\ table'[q].kin \in {"lost", t[q].kin}
  BY <1>2, <1>5, RelabelEntry
<1>14. at \notin {"group", "done"} => Anchored(table)
  BY DEF TreeInv
<1>15. CASE p = Command => table[p].kin # "kin"
  <2>1. Keeps(table, table')
    BY <1>1, <1>7, <1>13, <1>15 DEF Keeps
  <2> QED
    BY <1>2, <1>11, <1>12, <1>14, <2>1, KeepsStep
<1>16. CASE p = Command /\ table[p].kin = "kin"
  <2>1. p \in Kin(table)
    BY <1>1, <1>16 DEF Kin, Live
  <2>2. at = "group" /\ error
    BY <1>1, <1>14, <1>16, <2>1, EntryFacts DEF Anchored, TreeInv
  <2> QED
    BY <1>2, <1>12, <2>2 DEF TreeInv, NoSurvivor, Watching
<1> QED
  BY <1>15, <1>16

\* Reaping the command frees nothing else: it has no children left.
LEMMA ReapStep ==
    ASSUME TableInv, TreeInv, at # "done", Reap, table' \in Tables
    PROVE  TreeInv'
<1>1. /\ table \in Tables /\ Parents(table) /\ CommandOnly(table) /\ Command \in Pids
      /\ table[Command].start = 1 /\ table[Command].state = "zombie"
      /\ table' = [table EXCEPT ![Command] = None] /\ UNCHANGED <<births, captured, error>>
  BY PidFacts DEF Reap, Start, TableInv, TreeInv
<1>2. table'[Command] = None /\ \A p \in Pids \ {Command} : table'[p] = table[p]
  BY <1>1 DEF Tables
<1>3. Command \notin Live(table)
  BY <1>1 DEF Live
<1>4. Present(table)' = Present(table) \ {Command}
  BY <1>2 DEF Present
<1>5. \A p \in Present(table)' : p \in Pids \ {Command} /\ table'[p] = table[p]
  BY <1>2, <1>4 DEF Present
<1>6. Live(table)' = Live(table)
  BY <1>3, <1>4, <1>5 DEF Live
<1>7. Kin(table)' = Kin(table)
  BY <1>4, <1>5, <1>6 DEF Kin, Live
<1>8. Parents(table)'
  <2> SUFFICES ASSUME NEW p \in Present(table)', table[p].ppid # Init1
               PROVE  table[p].ppid \in Live(table)' /\ table'[table[p].ppid].kin # "other"
    BY <1>5 DEF Parents
  <2>1. table[p].ppid \in Live(table) /\ table[table[p].ppid].kin # "other"
    BY <1>1, <1>4 DEF Parents
  <2> QED
    BY <1>3, <1>5, <1>6, <2>1 DEF Live
<1>9. CommandOnly(table)'
  BY <1>1, <1>4, <1>5 DEF CommandOnly
<1>10. Anchored(table) => Anchored(table)'
  BY <1>2, <1>4, <1>5, <1>7 DEF Anchored
<1>11. InTree(table) => InTree(table)'
  <2>1. process_tree(table) \ {Command} \subseteq process_tree(table)'
    BY <1>4, <1>5, TreeGrows
  <2> QED
    BY <1>3, <1>7, <2>1 DEF InTree, Kin
<1>12. at \notin {"group", "done"} => Anchored(table)' /\ InTree(table)'
  BY <1>10, <1>11 DEF TreeInv
<1>13. CASE at \in Watching /\ at' = "over"
  BY <1>1, <1>8, <1>9, <1>12, <1>13 DEF TreeInv, NoSurvivor, Watching
<1>14. CASE UNCHANGED <<at, snapshot, cursor>>
  <2>1. Keeps(table, table')
    BY <1>1, <1>2 DEF Keeps
  <2> QED
    BY <1>1, <1>8, <1>9, <1>12, <1>14, <2>1, KeepsStep
<1> QED
  BY <1>13, <1>14 DEF Reap

\* The first pass begins with the group stopped.
LEMMA FreezeStep ==
    ASSUME TableInv, TreeInv, Freeze
    PROVE  TreeInv'
<1>1. /\ at = "before" /\ at' = "scan" /\ Signal(Group, "stop") /\ cursor = 1 /\ captured = {}
      /\ UNCHANGED <<births, snapshot, cursor, captured, error>>
      /\ table \in Tables /\ Anchored(table) /\ InTree(table)
  BY DEF Freeze, TableInv, TreeInv
<1>2. Group \in SUBSET Present(table)
  BY DEF Group, Live
<1>3. /\ Parents(table)' /\ CommandOnly(table)' /\ Anchored(table)' /\ InTree(table)'
      /\ Kin(table)' = Kin(table)
  BY <1>1, <1>2, StopKeeps
<1>4. Frozen'
  <2> SUFFICES ASSUME NEW p \in Kin(table), table'[p].pgid = Command
               PROVE  table'[p].state = "stop"
    BY <1>3 DEF Frozen
  <2>1. p \in Present(table) /\ p \in Live(table) /\ table[p].state # "zombie"
    BY DEF Kin, Live
  <2>2. p \in Pids /\ table[p] # None /\ table[p].state \in {"run", "stop"}
    BY <1>1, <2>1, EntryFacts DEF Processes, States
  <2>3. table[p].pgid = Command
    BY <1>1, <2>2, StopEntry
  <2>4. p \in Group
    BY <2>1, <2>3 DEF Group
  <2> QED
    BY <1>1, <2>2, <2>4, StopEntry
<1>5. CapturedStopped' /\ ReadMembers' /\ ReadChildren'
  BY <1>1 DEF CapturedStopped, ReadMembers, ReadChildren, Kin, Live, Present, Pids
<1>6. cursor' \in 1..(MaxPid + 1)
  BY <1>1, ProcessAssumption
<1> QED
  BY <1>1, <1>3, <1>4, <1>5, <1>6 DEF TreeInv, NoSurvivor, Watching

\* An entry of /proc is read as it is.
LEMMA KillReadsStep ==
    ASSUME TableInv, TreeInv, KillReads
    PROVE  TreeInv'
<1>1. /\ at = "scan" /\ cursor \in Pids /\ cursor' = cursor + 1
      /\ snapshot' = [snapshot EXCEPT ![cursor] = Stat(cursor)]
      /\ UNCHANGED <<table, births, at, captured, error>>
  BY DEF KillReads, Read
<1>2. table[cursor] # None =>
        /\ Stat(cursor) # None
        /\ Stat(cursor).pgid = table[cursor].pgid /\ Stat(cursor).ppid = table[cursor].ppid
  <2> SUFFICES ASSUME table[cursor] # None
               PROVE  /\ Stat(cursor) # None
                      /\ Stat(cursor).pgid = table[cursor].pgid
                      /\ Stat(cursor).ppid = table[cursor].ppid
    OBVIOUS
  <2>1. Stat(cursor) = [ppid |-> table[cursor].ppid, pgid |-> table[cursor].pgid,
                        start |-> table[cursor].start]
    BY <1>1 DEF Stat, Start
  <2>2. table[cursor].start # 0
    BY <1>1 DEF TableInv, Tables, Processes
  <2> QED
    BY <2>1, <2>2, NoneFacts
<1>3. \A p \in Pids : snapshot'[p] = IF p = cursor THEN Stat(cursor) ELSE snapshot[p]
  BY <1>1 DEF TableInv
<1>4. \A p \in Present(table) :
        p \in Pids /\ table[p] # None /\ (p < cursor' => p < cursor \/ p = cursor)
  BY <1>1, ProcessAssumption DEF Present, Pids
<1>5. ReadMembers'
  <2> SUFFICES ASSUME NEW p \in Kin(table), p < cursor', table[p].pgid = Command
               PROVE  snapshot'[p] # None /\ snapshot'[p].pgid = Command
    BY <1>1, SameTable DEF ReadMembers
  <2>1. p \in Present(table)
    BY DEF Kin, Live
  <2> QED
    BY <1>1, <1>2, <1>3, <1>4, <2>1 DEF TreeInv, ReadMembers
<1>6. ReadChildren'
  <2> SUFFICES ASSUME NEW p \in Present(table), p < cursor', table[p].ppid \in Present(table),
                      table[table[p].ppid].state = "stop"
               PROVE  snapshot'[p] # None /\ snapshot'[p].ppid = table[p].ppid
    BY <1>1, SameTable DEF ReadChildren
  <2> QED
    BY <1>1, <1>2, <1>3, <1>4 DEF TreeInv, ReadChildren
<1>7. cursor' \in 1..(MaxPid + 1)
  BY <1>1, ProcessAssumption DEF Pids
<1>8. Frozen' /\ CapturedStopped'
  BY <1>1, SameTable DEF TreeInv, Frozen, CapturedStopped
<1> QED
  BY <1>1, <1>5, <1>6, <1>7, <1>8, SameTable DEF TreeInv, NoSurvivor, Watching

\* A pass is over: there is more to stop, or nothing of the session is running.
LEMMA DiscoveredStep ==
    ASSUME TableInv, TreeInv, Discovered
    PROVE  TreeInv'
<1> DEFINE new == {p \in process_tree(snapshot) : \A c \in captured : c[1] # p}
<1>1. /\ at = "scan" /\ cursor \notin Pids /\ at' = IF new = {} THEN "kill" ELSE "track"
      /\ cursor' = 1 /\ UNCHANGED <<table, births, captured, error>>
  BY DEF Discovered
<1>2. at' = "kill" => Doomed
  BY <1>1, LastPass
<1>3. Frozen' /\ CapturedStopped' /\ (Doomed => Doomed')
  BY <1>1, SameTable DEF TreeInv, Frozen, CapturedStopped, Doomed
<1> QED
  BY <1>1, <1>2, <1>3, SameTable DEF TreeInv, NoSurvivor, Watching

\* What is captured is stopped, unless it is the command.
LEMMA TrackStep ==
    ASSUME TableInv, TreeInv, SpareInv, NEW c \in todo, Track(c)
    PROVE  TreeInv'
<1>1. /\ at = "track" /\ at' \in {"scan", "track"} /\ cursor = 1
      /\ UNCHANGED <<births, snapshot, cursor, error>>
      /\ table \in Tables /\ CommandOnly(table) /\ Anchored(table) /\ InTree(table)
      /\ Frozen /\ CapturedStopped
      /\ c[1] \in Pids /\ c[2] # 0
  BY DEF Track, TableInv, TreeInv
<1>2. cursor' \in 1..(MaxPid + 1)
  BY <1>1, ProcessAssumption
<1>3. ReadMembers' /\ ReadChildren'
  BY <1>1 DEF ReadMembers, ReadChildren, Kin, Live, Present, Pids
<1>4. CASE process_identity_matches(c)
  <2>1. c[1] \in Present(table) /\ {c[1]} \in SUBSET Present(table) /\ table[c[1]].start = c[2]
    BY <1>4, IdentitySpares DEF process_identity_matches
  <2>2. Signal({c[1]}, "stop") /\ captured' = captured \union {c}
    BY <1>4 DEF Track
  <2>3. /\ Parents(table)' /\ CommandOnly(table)' /\ Anchored(table)' /\ InTree(table)'
        /\ Kin(table)' = Kin(table)
    BY <1>1, <2>1, <2>2, StopKeeps
  <2>4. ASSUME NEW p \in Present(table)
        PROVE  /\ p \in Pids /\ table'[p].start = table[p].start /\ table'[p].pgid = table[p].pgid
               /\ table'[p].state = IF p = c[1] /\ table[p].state = "run" THEN "stop"
                                    ELSE table[p].state
    BY <1>1, <2>2, StopEntry, EntryFacts
  <2>5. Frozen'
    BY <1>1, <2>3, <2>4 DEF Frozen, Kin, Live
  <2>6. c[1] = Command \/ (table'[c[1]].start = c[2] /\ table'[c[1]].state = "stop")
    <3>1. table[c[1]].state \in States
      BY <1>1, <2>1, EntryFacts DEF Processes
    <3>2. table[c[1]].state = "zombie" => c[1] = Command
      BY <1>1, <2>1 DEF CommandOnly
    <3> QED
      BY <2>1, <2>4, <3>1, <3>2 DEF States
  <2>7. ASSUME NEW d \in captured, d[1] # Command
        PROVE  table'[d[1]].start = d[2] /\ table'[d[1]].state = "stop"
    <3>1. d[1] \in Pids /\ d[2] # 0 /\ table[d[1]].start = d[2] /\ table[d[1]].state = "stop"
      BY <1>1, <2>7 DEF TableInv, CapturedStopped
    <3>2. d[1] \in Present(table)
      BY <3>1, NoneFacts DEF Present
    <3> QED
      BY <2>4, <3>1, <3>2
  <2>8. CapturedStopped'
    BY <2>2, <2>6, <2>7 DEF CapturedStopped
  <2> QED
    BY <1>1, <1>2, <1>3, <2>3, <2>5, <2>8 DEF TreeInv, NoSurvivor, Watching
<1>5. CASE ~process_identity_matches(c)
  <2>1. UNCHANGED <<table, captured>>
    BY <1>5 DEF Track
  <2>2. Frozen' /\ CapturedStopped'
    BY <1>1, <2>1, SameTable DEF Frozen, CapturedStopped
  <2> QED
    BY <1>1, <1>2, <1>3, <2>1, <2>2, SameTable DEF TreeInv, NoSurvivor, Watching
<1> QED
  BY <1>4, <1>5

\* The captured processes are killed; what is left of the session is the stopped group.
LEMMA KillCapturedStep ==
    ASSUME TableInv, TreeInv, SpareInv, KillCaptured
    PROVE  TreeInv'
<1> DEFINE ps == {c[1] : c \in {c \in captured : process_identity_matches(c)}}
<1>1. /\ at = "kill" /\ at' = "group" /\ Signal(ps, "kill")
      /\ UNCHANGED <<births, captured, error>>
      /\ table \in Tables /\ Parents(table) /\ CommandOnly(table)
  BY DEF KillCaptured, TableInv, TreeInv
<1>2. ps \in SUBSET Present(table)
  BY IdentitySpares
<1>3. \A p : <<p, table[p].start>> \in captured => p \in ps
  BY DEF process_identity_matches
<1> HIDE DEF ps
<1>4. table' = Remove(table, ps)
  BY <1>1 DEF Signal
<1>5. Parents(table)' /\ CommandOnly(table)' /\ Kin(table)' = Kin(table) \ ps
  BY <1>1, <1>2, <1>4, RemoveKeeps
<1>6. ASSUME ~error, NEW p \in Kin(table)'
      PROVE  table'[p].pgid = Command /\ table'[p].state = "stop"
  <2>1. p \in Kin(table) /\ p \notin ps
    BY <1>5
  <2>2. table[p].pgid = Command /\ table[p].state = "stop"
    BY <1>1, <1>3, <1>6, <2>1 DEF TreeInv, Doomed
  <2>3. p \in Pids /\ table'[p] # None
    BY DEF Kin, Live, Present
  <2> QED
    BY <1>1, <1>2, <1>4, <2>1, <2>2, <2>3, RemoveEntry
<1> QED
  BY <1>1, <1>5, <1>6 DEF TreeInv, NoSurvivor, Watching

\* The group is killed, and with it the rest of the session.
LEMMA KillGroupStep ==
    ASSUME TableInv, TreeInv, KillGroup
    PROVE  TreeInv'
<1>1. /\ at = "group" /\ at' = "done" /\ Signal(Group, "kill")
      /\ UNCHANGED <<births, captured, error>>
      /\ table \in Tables /\ Parents(table) /\ CommandOnly(table)
  BY DEF KillGroup, TableInv, TreeInv
<1>2. Group \in SUBSET Present(table)
  BY DEF Group, Live
<1>3. table' = Remove(table, Group)
  BY <1>1 DEF Signal
<1>4. Parents(table)' /\ CommandOnly(table)' /\ Kin(table)' = Kin(table) \ Group
  BY <1>1, <1>2, <1>3, RemoveKeeps
<1>5. ~error => Kin(table) \subseteq Group
  BY <1>1 DEF TreeInv, Kin, Group
<1>6. ~error => Kin(table)' = {}
  BY <1>4, <1>5
<1>7. NoSurvivor'
  BY <1>1, <1>6 DEF NoSurvivor, Kin
<1> QED
  BY <1>1, <1>4, <1>7 DEF TreeInv, Watching

\* Every step of the kernel, the watchdog and kill_process_tree keeps the invariant.
LEMMA TreeNext == TableInv /\ SpareInv /\ TreeInv /\ [Next]_vars => TreeInv'
<1> SUFFICES ASSUME TableInv, SpareInv, TreeInv, [Next]_vars PROVE TreeInv'
  OBVIOUS
<1>0. table' \in Tables
  BY SpareNext DEF TableInv
<1>1. ASSUME at # "done", NEW p \in Pids, NEW q \in Pids, Fork(p, q) PROVE TreeInv'
  <2> DEFINE child == [table[p] EXCEPT !.start = births + 1, !.ppid = p]
  <2>1. /\ p \in Live(table) /\ table[p].state = "run" /\ table[p].kin # "other" /\ Free(q)
        /\ table' = [table EXCEPT ![q] = child] /\ births' = births + 1
        /\ UNCHANGED <<at, snapshot, cursor, captured, error>>
    BY <1>1 DEF Fork, Active, Unrelated
  <2>2. table[p] \in Processes /\ births \in Nat /\ births > 0 /\ p \in 0..MaxPid
    BY <2>1, EntryFacts, PidFacts DEF Live, TableInv, TreeInv
  <2>3. /\ child \in Processes /\ child.start > 1 /\ child.ppid = p /\ child.state = "run"
        /\ child.kin = table[p].kin /\ child.pgid = table[p].pgid
    <3>1. births + 1 \in Nat \ {0} /\ births + 1 > 1
      BY <2>2
    <3>2. child \in Processes
      BY <2>2, <3>1 DEF Processes
    <3> QED
      BY <2>1, <2>2, <3>1, <3>2 DEF Processes
  <2> HIDE DEF child
  <2>4. Born(q, child)
    BY <2>1, <2>3 DEF Born
  <2>5. births' > 0
    BY <2>1, <2>2
  <2> QED
    BY <1>1, <2>1, <2>4, <2>5, BornStep
<1>2. ASSUME at # "done", NEW q \in Pids, Arrives(q) PROVE TreeInv'
  <2> DEFINE r == Process(births + 1, Init1, q, "other")
  <2>1. /\ Free(q) /\ table' = [table EXCEPT ![q] = r] /\ births' = births + 1
        /\ UNCHANGED <<at, snapshot, cursor, captured, error>>
    BY <1>2 DEF Arrives, Unrelated
  <2>2. births \in Nat /\ births > 0
    BY DEF TableInv, TreeInv
  <2>3. /\ r \in Processes /\ r.start > 1 /\ r.state = "run" /\ r.kin = "other"
        /\ r.pgid = q /\ r.ppid = Init1
    BY <2>2, PidFacts DEF Process, Processes, States, Kinds
  <2> HIDE DEF r
  <2>4. Born(q, r)
    BY <2>1, <2>3 DEF Born
  <2>5. births' > 0
    BY <2>1, <2>2
  <2> QED
    BY <1>2, <2>1, <2>4, <2>5, BornStep
<1>3. ASSUME at # "done", NEW p \in Pids, SetPgid(p) \/ Exit(p) PROVE TreeInv'
  BY <1>0, <1>3, SetPgidStep, ExitStep
<1>4. ASSUME NEW p \in Pids, Grow(p) \/ \E i \in Images : Exec(p, i) PROVE TreeInv'
  <2>1. UNCHANGED <<table, births, captured, error, at>> /\ at \in Watching
    BY <1>4 DEF Grow, Exec, Unrelated
  <2> QED
    BY <2>1, QuietStep DEF Watching
<1>5. CASE Watchdog
  <2>1. /\ UNCHANGED <<table, births, captured, error>> /\ at \in Watching
        /\ at' \in Watching \/ (at' = "before" /\ cursor' = 1)
    BY <1>5 DEF Watchdog, BeginSample, SampleReads, Select, Rollup, RollupFails,
                memory_limit_exceeded, Over, NoSample, Watching
  <2> QED
    BY <2>1, QuietStep DEF Watching
<1>6. ASSUME NEW who \in {"watcher", "recovery"}, Kill(who) PROVE TreeInv'
  BY <1>6, QuietStep DEF Kill, NoSample
<1>7. CASE SnapshotFails
  <2>1. at = "scan" /\ at' = "kill" /\ error' = TRUE /\ UNCHANGED <<table, births, captured>>
    BY <1>7 DEF SnapshotFails
  <2>2. Frozen' /\ CapturedStopped'
    BY <2>1, SameTable DEF TreeInv, Frozen, CapturedStopped
  <2> QED
    BY <2>1, <2>2, SameTable DEF TreeInv, NoSurvivor, Watching
<1>8. CASE Freeze \/ KillReads \/ Discovered \/ KillCaptured \/ KillGroup
  BY <1>8, FreezeStep, KillReadsStep, DiscoveredStep, KillCapturedStep, KillGroupStep
<1>9. ASSUME NEW c \in todo, Track(c) PROVE TreeInv'
  BY <1>9, TrackStep
<1>10. ASSUME at # "done", Reap PROVE TreeInv'
  BY <1>0, <1>10, ReapStep
<1>11. CASE UNCHANGED vars
  <2>1. UNCHANGED <<table, births, at, snapshot, cursor, captured, error>>
    BY <1>11 DEF vars
  <2>2. CASE at # "done"
    <3>1. Keeps(table, table')
      BY <2>1 DEF Keeps
    <3> QED
      BY <1>0, <2>1, <2>2, <3>1, SameTable, KeepsStep DEF TreeInv
  <2>3. CASE at = "done"
    BY <2>1, <2>3, SameTable DEF TreeInv, NoSurvivor, Watching, Live
  <2> QED
    BY <2>2, <2>3
<1> QED
  BY <1>1, <1>2, <1>3, <1>4, <1>5, <1>6, <1>7, <1>8, <1>9, <1>10, <1>11
     DEF Next, System, kill_process_tree

\* A tree that was killed without an error is gone, for every number of PIDs and births,
\* although /proc is read one process at a time while the tree forks, leaves its group and
\* exits (kill_process_tree: passes are repeated until one finds nothing new).
THEOREM TreeIsGone == Spec => []NoSurvivor
<1>1. Init => TableInv /\ SpareInv /\ TreeInv
  BY SpareInit, TreeInit
<1>2. TableInv /\ SpareInv /\ TreeInv /\ [Next]_vars => TableInv' /\ SpareInv' /\ TreeInv'
  BY SpareNext, TreeNext
<1>3. TreeInv => NoSurvivor
  BY DEF TreeInv
<1> QED
  BY <1>1, <1>2, <1>3, PTL DEF Spec
=============================================================================
