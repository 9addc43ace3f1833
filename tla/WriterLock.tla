----------------------------- MODULE WriterLock -----------------------------
(***************************************************************************)
(* The lock of the one writer of an engine database on a host              *)
(* (src/kernel/engine/embed/sync.ts): a process first becomes the owner    *)
(* of the database (ProcessOwner) and then claims a visible lock file for  *)
(* the sake of older clients, which know nothing but the file.             *)
(*                                                                         *)
(* A step is one call on the file system.  The text of a lock is the       *)
(* process that wrote it and the ordinal of its writing.                   *)
(***************************************************************************)
EXTENDS Integers

CONSTANTS
  Procs,      \* processes that write
  Older,      \* those of them that run a version without the owner protocol
  NoText,     \* no lock text
  MaxTexts,   \* bound: lock texts written
  MaxFaults   \* bound: crashes and failed calls

VARIABLES
  owners,   \* the owner of the database, as ProcessOwner keeps it
  lock,     \* the text at the visible path
  aside,    \* the texts of the lock files under stale names
  proc,     \* each process: where it is, the texts it read, moved away and wrote
  dead,     \* the process ids that are not in use
  texts,    \* lock texts written
  faults    \* what the bound has left

vars == <<owners, lock, aside, proc, dead, texts, faults>>

Owner == INSTANCE ProcessOwner

Idle == [pc |-> "idle", seen |-> NoText, moved |-> NoText, own |-> NoText]
Goto(p, label) == proc' = [proc EXCEPT ![p].pc = label]
At(p, label) == proc[p].pc = label
Holds(p) == proc[p].pc \in {"held", "unlink"}

-----------------------------------------------------------------------------
(* acquireEngineStoreWriterLock *)

\* An older client goes to the lock file at once; others own the database first or refuse.
Begin(p) ==
  /\ At(p, "idle") /\ p \notin dead
  /\ IF p \in Older THEN UNCHANGED owners ELSE Owner!Acquire(p)
  /\ Goto(p, "claim")
  /\ UNCHANGED <<lock, aside, dead, texts, faults>>

\* A complete text is linked to the visible path, if the path is free.
Claim(p) ==
  LET text == [by |-> p, n |-> texts + 1] IN
  /\ At(p, "claim")
  /\ \/ /\ lock = NoText /\ texts < MaxTexts
        /\ lock' = text /\ texts' = texts + 1
        /\ proc' = [proc EXCEPT ![p] = [Idle EXCEPT !.pc = "held", !.own = text]]
     \/ lock # NoText /\ Goto(p, "read") /\ UNCHANGED <<lock, texts>>
  /\ UNCHANGED <<owners, aside, dead, faults>>

\* The lock that was in the way is read; one that has gone leaves the path free.
Read(p) ==
  /\ At(p, "read")
  /\ proc' = IF lock = NoText THEN [proc EXCEPT ![p].pc = "claim"]
             ELSE [proc EXCEPT ![p].pc = "probe", ![p].seen = lock]
  /\ UNCHANGED <<owners, lock, aside, dead, texts, faults>>

\* Mutant of Probe: the process of the lock is not looked for.
ProbeNobody(p) ==
  /\ At(p, "probe") /\ Goto(p, "move")
  /\ UNCHANGED <<owners, lock, aside, dead, texts, faults>>

\* Its process is looked for: an id in use, by whomever, ends the attempt.
Probe(p) ==
  /\ At(p, "probe")
  /\ Goto(p, IF proc[p].seen.by \in dead THEN "move" ELSE "leave")
  /\ UNCHANGED <<owners, lock, aside, dead, texts, faults>>

\* Whatever is at the path by now is renamed away.
Move(p) ==
  /\ At(p, "move")
  /\ IF lock = NoText THEN Goto(p, "claim") /\ UNCHANGED aside
     ELSE /\ proc' = [proc EXCEPT ![p].pc = "compare", ![p].moved = lock]
          /\ aside' = aside \cup {lock}
  /\ lock' = NoText
  /\ UNCHANGED <<owners, dead, texts, faults>>

\* Mutant of Compare: the lock that was moved is deleted unread.
CompareNothing(p) ==
  /\ At(p, "compare")
  /\ aside' = aside \ {proc[p].moved}
  /\ Goto(p, "claim")
  /\ UNCHANGED <<owners, lock, dead, texts, faults>>

\* The moved lock is deleted if it is the one that was read.  Another's goes back, or stays
\* aside if the path has been taken.
Compare(p) ==
  LET moved == proc[p].moved
      mine == moved = proc[p].seen IN
  /\ At(p, "compare")
  /\ lock' = IF ~mine /\ lock = NoText THEN moved ELSE lock
  /\ aside' = IF mine \/ lock = NoText THEN aside \ {moved} ELSE aside
  /\ Goto(p, "claim")
  /\ UNCHANGED <<owners, dead, texts, faults>>

-----------------------------------------------------------------------------
(* Its release *)

\* The lock is let go only if it still reads as it was written.
Release(p) ==
  /\ At(p, "held")
  /\ Goto(p, IF lock = proc[p].own THEN "unlink" ELSE "leave")
  /\ UNCHANGED <<owners, lock, aside, dead, texts, faults>>

Unlink(p) ==
  /\ At(p, "unlink")
  /\ lock' = NoText
  /\ Goto(p, "leave")
  /\ UNCHANGED <<owners, aside, dead, texts, faults>>

\* The ownership goes last.
Leave(p) ==
  /\ At(p, "leave")
  /\ IF p \in Older THEN UNCHANGED owners ELSE Owner!Drop(p)
  /\ proc' = [proc EXCEPT ![p] = Idle]
  /\ UNCHANGED <<lock, aside, dead, texts, faults>>

-----------------------------------------------------------------------------
(* Faults *)

Spend == faults < MaxFaults /\ faults' = faults + 1

\* A call fails: the attempt, or the release, goes on to give up the ownership.
Fail(p) ==
  /\ Spend
  /\ proc[p].pc \in {"claim", "read", "move", "held", "unlink"}
  /\ Goto(p, "leave")
  /\ UNCHANGED <<owners, lock, aside, dead, texts>>

\* The stale file cannot be deleted and is made visible again if the path is free.
FailToDelete(p) ==
  /\ Spend
  /\ At(p, "compare") /\ proc[p].moved = proc[p].seen
  /\ lock' = IF lock = NoText THEN proc[p].moved ELSE lock
  /\ Goto(p, "leave")
  /\ UNCHANGED <<owners, aside, dead, texts>>

Crash(p) ==
  /\ Spend /\ p \notin dead
  /\ dead' = dead \cup {p}
  /\ owners' = owners \ {p}
  /\ proc' = [proc EXCEPT ![p] = Idle]
  /\ UNCHANGED <<lock, aside, texts>>

\* Another process gets the id.
ReuseId(p) ==
  /\ p \in dead
  /\ dead' = dead \ {p}
  /\ UNCHANGED <<owners, lock, aside, proc, texts, faults>>

-----------------------------------------------------------------------------
(* Specification *)

Init ==
  /\ owners = {} /\ lock = NoText /\ aside = {} /\ dead = {} /\ texts = 0 /\ faults = 0
  /\ proc = [p \in Procs |-> Idle]

Step(p) ==
  \/ Begin(p) \/ Claim(p) \/ Read(p) \/ Probe(p) \/ Move(p) \/ Compare(p)
  \/ Release(p) \/ Unlink(p) \/ Leave(p)

Next == \E p \in Procs : Step(p) \/ Fail(p) \/ FailToDelete(p) \/ Crash(p) \/ ReuseId(p)

Spec == Init /\ [][Next]_vars

-----------------------------------------------------------------------------
(* Properties *)

\* "a stale observer cannot rename a successor while a third upgraded writer enters the gap"
\* (sync.ts:247), with one older client about.  Two processes hold the lock only when a
\* moved lock was left aside, by a process that died or found the path taken.
OneWriter ==
  LET left == {t \in aside : ~\E r \in Procs : At(r, "compare") /\ proc[r].moved = t}
  IN  left = {} => \A p, q \in Procs : Holds(p) /\ Holds(q) => p = q
=============================================================================
