--------------------------- MODULE ContractIndex ---------------------------
(***************************************************************************)
(* The index of the contract store, which maps the path of every vault to  *)
(* its id and is shared by all of them: writeIndexEntry and withIndexLock  *)
(* (src/kernel/contract/store.ts).  Each process registers one vault.      *)
(*                                                                         *)
(* A step is one call on the file system.                                  *)
(***************************************************************************)
EXTENDS Integers, FiniteSets

CONSTANTS
  Procs,      \* processes that register a vault
  Vault,      \* Vault[p] is [path, id], the vault that p registers
  Standing,   \* the paths that exist
  NoLock,     \* no index lock
  Unread,     \* a lock whose text tells no owner
  Aged,       \* an owner whose text is older than ten minutes
  LocksAge,   \* an update may take the ten minutes after which its lock is stale
  Leaving,    \* the processes that may end when they have registered
  MaxFaults   \* bound: crashes, failed calls and locks that grow old

VARIABLES
  entries,  \* what index.json maps: a set of [path, id]
  lock,     \* the index lock: who made it, whether it says so and whether it is ten minutes old
  proc,     \* each process: where it is, the entries and the owner it has read
  taken,    \* a process has removed the lock of another that was at work
  faults    \* what the bound has left

vars == <<entries, lock, proc, taken, faults>>

At(p, label) == proc[p].pc = label
\* What it has read is of use in the next step only.
Goto(p, label) == proc' = [proc EXCEPT ![p] = [pc |-> label, read |-> {}, seen |-> Unread]]

\* Between taking the lock and writing the index.
AtWork(p) == proc[p].pc \in {"owner", "read", "write"}

Gone(p) == proc[p].pc \in {"left", "dead"}

-----------------------------------------------------------------------------
(* withIndexLock, createLock and lockIsStale *)

Begin(p) ==
  /\ At(p, "idle")
  /\ Goto(p, "create")
  /\ UNCHANGED <<entries, lock, taken, faults>>

\* Mutant of CreateLock: the lock is opened where it is there already.
CreateOrOpen(p) ==
  /\ At(p, "create")
  /\ lock' = [by |-> p, written |-> FALSE, old |-> FALSE]
  /\ Goto(p, "owner")
  /\ UNCHANGED <<entries, taken, faults>>

CreateLock(p) ==
  /\ At(p, "create")
  /\ IF lock = NoLock
     THEN lock' = [by |-> p, written |-> FALSE, old |-> FALSE] /\ Goto(p, "owner")
     ELSE Goto(p, "check") /\ UNCHANGED lock
  /\ UNCHANGED <<entries, taken, faults>>

\* The owner is written to the file that was created, which need not be the lock any more.
WriteOwner(p) ==
  /\ At(p, "owner")
  /\ lock' = IF lock # NoLock /\ lock.by = p THEN [lock EXCEPT !.written = TRUE] ELSE lock
  /\ Goto(p, "read")
  /\ UNCHANGED <<entries, taken, faults>>

\* The text of the lock in the way is read.
ReadOwner(p) ==
  /\ At(p, "check")
  /\ proc' = [proc EXCEPT ![p] =
       [@ EXCEPT !.pc = "probe",
                 !.seen = IF lock = NoLock \/ ~lock.written THEN Unread
                          ELSE IF lock.old THEN Aged ELSE lock.by]]
  /\ UNCHANGED <<entries, lock, taken, faults>>

\* The process that was read is gone or its text is old; without one, the lock that is there
\* by now is.
Stale(p) ==
  IF proc[p].seen = Unread THEN lock # NoLock /\ lock.old
  ELSE proc[p].seen = Aged \/ Gone(proc[p].seen)

\* A lock that is not stale is waited for, fifty times at most.
ProbeOwner(p) ==
  /\ At(p, "probe")
  /\ IF Stale(p) THEN Goto(p, "reclaim") ELSE Goto(p, "create") \/ Goto(p, "idle")
  /\ UNCHANGED <<entries, lock, taken, faults>>

\* Whatever lock is there by now is removed.
RemoveLock(p) ==
  /\ lock' = NoLock
  /\ taken' = (taken \/ (lock # NoLock /\ lock.by # p /\ AtWork(lock.by)))
  /\ UNCHANGED <<entries, faults>>

Reclaim(p) ==
  /\ At(p, "reclaim")
  /\ RemoveLock(p)
  /\ Goto(p, "create") \/ Goto(p, "idle")

\* However the action ends, the lock is removed.
ReleaseLock(p) ==
  /\ At(p, "release")
  /\ RemoveLock(p)
  /\ Goto(p, "idle")

Leave(p) ==
  /\ At(p, "idle") /\ p \in Leaving
  /\ Goto(p, "left")
  /\ UNCHANGED <<entries, lock, taken, faults>>

-----------------------------------------------------------------------------
(* writeIndexEntry *)

ReadIndex(p) ==
  /\ At(p, "read")
  /\ proc' = [proc EXCEPT ![p] = [@ EXCEPT !.pc = "write", !.read = entries]]
  /\ UNCHANGED <<entries, lock, taken, faults>>

\* Entries of the same path, and entries of the same id whose path is gone, are replaced.
Updated(read, v) ==
  {v} \cup {e \in read : e.path # v.path /\ (e.id = v.id => e.path \in Standing)}

WriteIndex(p) ==
  /\ At(p, "write")
  /\ entries' = Updated(proc[p].read, Vault[p])
  /\ Goto(p, "release")
  /\ UNCHANGED <<lock, taken, faults>>

-----------------------------------------------------------------------------
(* Faults *)

Spend == faults < MaxFaults /\ faults' = faults + 1

Fail(p) ==
  /\ Spend
  /\ proc[p].pc \in {"read", "write"}
  /\ Goto(p, "release")
  /\ UNCHANGED <<entries, lock, taken>>

\* The owner cannot be written: the call fails and leaves the lock that it made.
WriteOwnerFails(p) ==
  /\ Spend
  /\ At(p, "owner")
  /\ Goto(p, "idle")
  /\ UNCHANGED <<entries, lock, taken>>

Crash(p) ==
  /\ Spend
  /\ ~Gone(p)
  /\ Goto(p, "dead")
  /\ UNCHANGED <<entries, lock, taken>>

Age ==
  /\ Spend
  /\ LocksAge /\ lock # NoLock
  /\ lock' = [lock EXCEPT !.old = TRUE]
  /\ UNCHANGED <<entries, proc, taken>>

-----------------------------------------------------------------------------
(* Specification *)

\* A vault that has been moved has an entry for the path it had.
Init ==
  /\ lock = NoLock /\ taken = FALSE /\ faults = 0
  /\ entries = {[path |-> "moved", id |-> Vault[p].id] : p \in Procs}
  /\ proc = [p \in Procs |-> [pc |-> "idle", read |-> {}, seen |-> Unread]]

Next ==
  \/ \E p \in Procs :
       \/ Begin(p) \/ CreateLock(p) \/ WriteOwner(p) \/ ReadOwner(p) \/ ProbeOwner(p)
       \/ Reclaim(p) \/ ReleaseLock(p) \/ Leave(p)
       \/ ReadIndex(p) \/ WriteIndex(p) \/ Fail(p) \/ WriteOwnerFails(p) \/ Crash(p)
  \/ Age

Spec == Init /\ [][Next]_vars

-----------------------------------------------------------------------------
(* Properties *)

KeepsStanding == {e \in entries : e.path \in Standing} \subseteq entries'

\* As long as no process has removed the lock of another that was at work, the entry of a
\* vault that is where it was stays, whoever registers another, wherever an update fails or
\* its process ends and whatever becomes of its lock (store.ts:876-895, 906-924).
EntriesStay == [][~taken => KeepsStanding]_vars

\* "The index is shared by every vault, so its read-modify-write runs under one root-wide
\* lock" (store.ts:876): an update never loses the entry of another vault.
UpdatesAreExclusive == [][KeepsStanding]_vars
=============================================================================
