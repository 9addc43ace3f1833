---------------------------- MODULE EvolutionLock ----------------------------
(***************************************************************************)
(* The evolution lock of one vault (src/kernel/evolution/evolution-lock.ts)*)
(* on one host: a file created exclusively and then given its owner's      *)
(* text, removed by its owner while it still holds that text, and removed  *)
(* by the owner of the vault, at a terminal, when its process is gone.     *)
(*                                                                         *)
(* A step is one call on the file system.  The text of a lock,             *)
(* {pid, host, startedAt}, is a number: the ordinal of its creation.  A    *)
(* lock created and not yet written reads as Unwritten.                    *)
(***************************************************************************)
EXTENDS Integers, Sequences

CONSTANTS
  Procs,           \* processes that run evolution operations
  Terminals,       \* terminals that run `oms doctor reclaim-evolution-lock`
  ApprovesUnnamed, \* the owner approves removing a lock that names no process
  MaxCreated,      \* bound: locks created
  MaxFaults        \* bound: crashes and failed writes

ASSUME LockAssumption ==
  ApprovesUnnamed \in BOOLEAN /\ MaxCreated \in Nat /\ MaxFaults \in Nat

VARIABLES
  file,      \* the lock file
  proc,      \* each process's operation and the lock it created
  reclaim,   \* each terminal's reclaim and the text it was shown
  makers,    \* makers[n] created lock n
  dead,      \* the locks whose process has died
  faults     \* what the bound has left

vars == <<file, proc, reclaim, makers, dead, faults>>

Unwritten == 0
NoFile == [held |-> FALSE, id |-> 0, written |-> FALSE]
Holding == {"write", "inside", "remove"}
Text == IF file.written THEN file.id ELSE Unwritten

-----------------------------------------------------------------------------
(* withEvolutionLock *)

Goto(p, label) == proc' = [proc EXCEPT ![p] = [pc |-> label, id |-> @.id]]
Leave(p) == proc' = [proc EXCEPT ![p] = [pc |-> "idle", id |-> 0]]

\* The exclusive create succeeds.
Make(p) ==
  LET n == Len(makers) + 1 IN
  /\ ~file.held
  /\ n <= MaxCreated
  /\ file' = [held |-> TRUE, id |-> n, written |-> FALSE]
  /\ makers' = Append(makers, p)
  /\ proc' = [proc EXCEPT ![p] = [pc |-> "write", id |-> n]]

Create(p) ==
  /\ proc[p].pc = "idle"
  /\ \/ Make(p)
     \/ file.held /\ Goto(p, "check") /\ UNCHANGED <<file, makers>>
  /\ UNCHANGED <<reclaim, dead, faults>>

\* The create failed: a lock that is still there is reported, busy or stale.
CheckAgain(p) ==
  /\ proc[p].pc = "check"
  /\ IF file.held THEN Leave(p) ELSE Goto(p, "retry")
  /\ UNCHANGED <<file, reclaim, makers, dead, faults>>

\* Mutant of CreateAgain: the second create is not exclusive.
CreateAgainOver(p) ==
  LET n == Len(makers) + 1 IN
  /\ proc[p].pc = "retry"
  /\ n <= MaxCreated
  /\ file' = [held |-> TRUE, id |-> n, written |-> FALSE]
  /\ makers' = Append(makers, p)
  /\ proc' = [proc EXCEPT ![p] = [pc |-> "write", id |-> n]]
  /\ UNCHANGED <<reclaim, dead, faults>>

\* One that has gone since is created once more.
CreateAgain(p) ==
  /\ proc[p].pc = "retry"
  /\ \/ Make(p)
     \/ file.held /\ Leave(p) /\ UNCHANGED <<file, makers>>
  /\ UNCHANGED <<reclaim, dead, faults>>

\* The text goes into the file that was created, whether or not it still has its name.
WriteOwner(p) ==
  /\ proc[p].pc = "write"
  /\ file' = IF file.id = proc[p].id THEN [file EXCEPT !.written = TRUE] ELSE file
  /\ Goto(p, "inside")
  /\ UNCHANGED <<reclaim, makers, dead, faults>>

\* The action is over: the lock is removed only if it holds what this call wrote.
ReadBeforeRelease(p) ==
  /\ proc[p].pc = "inside"
  /\ IF file.held /\ Text = proc[p].id THEN Goto(p, "remove") ELSE Leave(p)
  /\ UNCHANGED <<file, reclaim, makers, dead, faults>>

Remove(p) ==
  /\ proc[p].pc = "remove"
  /\ file' = NoFile
  /\ Leave(p)
  /\ UNCHANGED <<reclaim, makers, dead, faults>>

-----------------------------------------------------------------------------
(* reclaimEvolutionLock *)

\* Mutant of OwnerGone: the process of the lock is not looked for.
OwnerUnchecked == TRUE

\* The text names no process, or one that is gone.
OwnerGone == Text = Unwritten \/ Text \in dead

ShowLock(t) ==
  /\ reclaim[t].pc = "idle"
  /\ file.held /\ OwnerGone
  /\ reclaim' = [reclaim EXCEPT ![t] = [pc |-> "asked", shown |-> Text]]
  /\ UNCHANGED <<file, proc, makers, dead, faults>>

\* The owner answers; a yes holds only if the lock still reads as shown.
Answer(t) ==
  LET approved == reclaim[t].shown # Unwritten \/ ApprovesUnnamed IN
  /\ reclaim[t].pc = "asked"
  /\ \/ /\ approved /\ file.held /\ Text = reclaim[t].shown
        /\ reclaim' = [reclaim EXCEPT ![t].pc = "remove"]
     \/ reclaim' = [reclaim EXCEPT ![t].pc = "idle"]
  /\ UNCHANGED <<file, proc, makers, dead, faults>>

RemoveReclaimed(t) ==
  /\ reclaim[t].pc = "remove"
  /\ file' = NoFile
  /\ reclaim' = [reclaim EXCEPT ![t].pc = "idle"]
  /\ UNCHANGED <<proc, makers, dead, faults>>

-----------------------------------------------------------------------------
(* Faults *)

Spend == faults < MaxFaults /\ faults' = faults + 1

\* A process ends at any point, and every lock it ever made is then one of a dead process.
Crash(p) ==
  /\ Spend
  /\ dead' = dead \cup {n \in DOMAIN makers : makers[n] = p}
  /\ Leave(p)
  /\ UNCHANGED <<file, reclaim, makers>>

\* Writing, reading back or removing the lock fails: the file stays.
Fail(p) ==
  /\ Spend
  /\ proc[p].pc \in Holding
  /\ Leave(p)
  /\ UNCHANGED <<file, reclaim, makers, dead>>

-----------------------------------------------------------------------------
(* Specification *)

Init ==
  /\ file = NoFile
  /\ proc = [p \in Procs |-> [pc |-> "idle", id |-> 0]]
  /\ reclaim = [t \in Terminals |-> [pc |-> "idle", shown |-> Unwritten]]
  /\ makers = <<>> /\ dead = {} /\ faults = 0

Operation(p) ==
  \/ Create(p) \/ CheckAgain(p) \/ CreateAgain(p) \/ WriteOwner(p)
  \/ ReadBeforeRelease(p) \/ Remove(p)
  \/ Crash(p) \/ Fail(p)

Reclaim(t) == ShowLock(t) \/ Answer(t) \/ RemoveReclaimed(t)

Next == (\E p \in Procs : Operation(p)) \/ (\E t \in Terminals : Reclaim(t))

Spec == Init /\ [][Next]_vars

-----------------------------------------------------------------------------
(* Properties *)

Labels == {"idle", "check", "retry"} \cup Holding

\* The variables have their types, and an operation has a lock of its own exactly while it
\* is between creating one and leaving (withEvolutionLock).
TypeOK ==
  /\ file \in [held : BOOLEAN, id : Nat, written : BOOLEAN]
  /\ proc \in [Procs -> [pc : Labels, id : Nat]]
  /\ \A p \in Procs : proc[p].id = 0 <=> proc[p].pc \notin Holding
  /\ reclaim \in [Terminals -> [pc : {"idle", "asked", "remove"}, shown : Nat]]
  /\ makers \in Seq(Procs)
  /\ dead \subseteq DOMAIN makers
  /\ faults \in Nat

\* The lock "serializes the evolution loop" (evolution-lock.ts:12): two operations are
\* never under it together, whatever crashed, failed or was reclaimed.
MutualExclusion ==
  \A p, q \in Procs : proc[p].pc \in Holding /\ proc[q].pc \in Holding => p = q

\* "The lock is removed only when it still holds what was shown" (evolution-lock.ts:135).
ReclaimRemovesWhatWasShown ==
  [][\A t \in Terminals :
       reclaim[t].pc = "remove" /\ reclaim'[t].pc = "idle" /\ file.held
       => Text = reclaim[t].shown]_vars

\* A reclaim is refused "while the owner is alive on this host" (evolution-lock.ts:134):
\* no lock is removed under a process that is at work with it.
LiveLockIsKept ==
  [][\A t \in Terminals :
       reclaim[t].pc = "remove" /\ reclaim'[t].pc = "idle"
       => \A p \in Procs : proc[p].pc \in Holding => proc[p].id # file.id]_vars
=============================================================================
