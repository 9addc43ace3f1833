---------------------------- MODULE LocksProofs ----------------------------
(***************************************************************************)
(* The three lock protocols, for any number of processes and faults.       *)
(*                                                                         *)
(* The evolution lock: with one terminal that reclaims, and an owner who   *)
(* does not approve removing a lock that names no process, two operations  *)
(* are never under the lock together and no lock is removed under a live   *)
(* process.  Both assumptions are needed: TLC refutes the theorems'        *)
(* properties with two terminals, or with ApprovesUnnamed = TRUE (README,  *)
(* "Where the words and the code part").                                   *)
(*                                                                         *)
(* The writer lock: beside one older client nobody writes beside the one   *)
(* writer, unless a lock was left aside.                                   *)
(*                                                                         *)
(* The lock of the contract index: the entries of other vaults stay until  *)
(* a process at work loses its lock to another, which it never does where  *)
(* no process ends and nothing fails.                                      *)
(***************************************************************************)
EXTENDS Locks, TLAPS

(* The evolution lock: its inductive invariant *)

\* The file under a holder is the lock that holder made, it is written once WriteOwner is
\* done, and its process is not dead.
HolderInv ==
  \A p \in Procs : proc[p].pc \in Holding =>
    /\ file.held /\ file.id = proc[p].id
    /\ file.id \in DOMAIN makers /\ makers[file.id] = p
    /\ file.id \notin dead
    /\ proc[p].pc # "write" => file.written

\* What a terminal asks about, if it names a process, names a dead one; what it is about
\* to remove is there, and is what it was shown.
ReclaimInv ==
  \A t \in Terminals :
    /\ reclaim[t].pc = "asked" /\ reclaim[t].shown # Unwritten => reclaim[t].shown \in dead
    /\ reclaim[t].pc = "remove" =>
         /\ file.held /\ file.written
         /\ file.id = reclaim[t].shown
         /\ file.id \in dead

LockInv == TypeOK /\ HolderInv /\ ReclaimInv

-----------------------------------------------------------------------------

\* Under the invariant one process at most is between its create and its removal: the
\* file has one maker (createLock's O_EXCL).
LEMMA OneHolder ==
  ASSUME LockInv, NEW p \in Procs, NEW q \in Procs,
         proc[p].pc \in Holding, proc[q].pc \in Holding
  PROVE  p = q
  BY DEF LockInv, HolderInv

\* Under the invariant no terminal is about to remove the lock while a process holds it.
LEMMA HolderIsNotReclaimed ==
  ASSUME LockInv, NEW p \in Procs, NEW t \in Terminals, proc[p].pc \in Holding
  PROVE  reclaim[t].pc # "remove"
  BY DEF LockInv, HolderInv, ReclaimInv

\* The store starts with no lock and nobody at work.
LEMMA LockInvInit ==
  ASSUME LockAssumption, Init
  PROVE  LockInv
  <1>1. TypeOK
    BY DEF Init, TypeOK, NoFile, Labels, Holding, Unwritten
  <1>2. HolderInv /\ ReclaimInv
    BY DEF Init, HolderInv, ReclaimInv, Holding
  <1> QED
    BY <1>1, <1>2 DEF LockInv

\* A successful exclusive create keeps the invariant: there was no file, so nobody held it
\* and no terminal was about to remove it.
LEMMA MakeKeepsLockInv ==
  ASSUME LockAssumption, LockInv, NEW p \in Procs, Make(p), UNCHANGED <<reclaim, dead, faults>>
  PROVE  LockInv'
  <1> DEFINE n == Len(makers) + 1
  <1>1. /\ TypeOK
        /\ makers' = Append(makers, p)
        /\ file' = [held |-> TRUE, id |-> n, written |-> FALSE]
        /\ proc' = [proc EXCEPT ![p] = [pc |-> "write", id |-> n]]
        /\ reclaim' = reclaim /\ dead' = dead /\ faults' = faults
    BY DEF Make, LockInv
  <1>2. /\ n \in Nat /\ n # 0 /\ n \notin DOMAIN makers
        /\ makers' \in Seq(Procs) /\ DOMAIN makers' = DOMAIN makers \cup {n}
        /\ makers'[n] = p
    BY <1>1 DEF TypeOK
  <1>3. TypeOK'
    BY <1>1, <1>2 DEF TypeOK, Labels, Holding
  <1>4. HolderInv'
    <2>1. \A q \in Procs : proc[q].pc \notin Holding
      BY DEF Make, LockInv, HolderInv
    <2>2. n \notin dead
      BY <1>1, <1>2 DEF TypeOK
    <2>3. SUFFICES ASSUME NEW q \in Procs, proc'[q].pc \in Holding
                   PROVE  /\ file'.held /\ file'.id = proc'[q].id
                          /\ file'.id \in DOMAIN makers' /\ makers'[file'.id] = q
                          /\ file'.id \notin dead'
                          /\ proc'[q].pc # "write" => file'.written
      BY DEF HolderInv
    <2>4. q = p
      BY <1>1, <2>1, <2>3 DEF TypeOK
    <2> QED
      BY <1>1, <1>2, <2>2, <2>4 DEF TypeOK
  <1>5. ReclaimInv'
    BY <1>1 DEF Make, LockInv, ReclaimInv
  <1> QED
    BY <1>3, <1>4, <1>5 DEF LockInv

\* A step of an operation that touches neither the file nor the record of locks, and after
\* which its process is at most as far in, keeps the invariant.
LEMMA LeaveKeepsLockInv ==
  ASSUME LockInv, NEW p \in Procs, Leave(p), faults' \in Nat,
         UNCHANGED <<file, reclaim, makers, dead>>
  PROVE  LockInv'
  <1>1. TypeOK'
    BY DEF LockInv, TypeOK, Leave, Labels, Holding
  <1>2. HolderInv'
    BY DEF LockInv, TypeOK, HolderInv, Leave, Holding
  <1>3. ReclaimInv'
    BY DEF LockInv, ReclaimInv
  <1> QED
    BY <1>1, <1>2, <1>3 DEF LockInv

\* So does one that moves on without a lock, or from its written lock to removing it.
LEMMA GotoKeepsLockInv ==
  ASSUME LockInv, NEW p \in Procs, NEW label \in Labels, Goto(p, label),
         \/ proc[p].pc \notin Holding /\ label \notin Holding
         \/ proc[p].pc = "inside" /\ label = "remove",
         UNCHANGED <<file, reclaim, makers, dead, faults>>
  PROVE  LockInv'
  <1>1. proc' = [proc EXCEPT ![p] = [pc |-> label, id |-> proc[p].id]]
    BY DEF Goto
  <1>2. TypeOK'
    BY <1>1 DEF LockInv, TypeOK, Labels, Holding
  <1>3. HolderInv'
    BY <1>1 DEF LockInv, TypeOK, HolderInv, Holding
  <1>4. ReclaimInv'
    BY DEF LockInv, ReclaimInv
  <1> QED
    BY <1>2, <1>3, <1>4 DEF LockInv

\* The holder's own text is written, or its own lock removed: nobody else is under the
\* lock, and no terminal is about to remove it.
LEMMA OwnerStepsKeepLockInv ==
  ASSUME LockInv, NEW p \in Procs, WriteOwner(p) \/ Remove(p)
  PROVE  LockInv'
  <1>1. proc[p].pc \in Holding
    BY DEF WriteOwner, Remove, Holding
  <1>2. \A q \in Procs : proc[q].pc \in Holding => q = p
    BY <1>1, OneHolder
  <1>3. \A t \in Terminals : reclaim[t].pc # "remove"
    BY <1>1, HolderIsNotReclaimed
  <1>4. /\ TypeOK /\ HolderInv /\ ReclaimInv
        /\ reclaim' = reclaim /\ makers' = makers /\ dead' = dead /\ faults' = faults
    BY DEF LockInv, WriteOwner, Remove
  <1>5. ReclaimInv'
    BY <1>3, <1>4 DEF ReclaimInv
  <1>6. CASE WriteOwner(p)
    <2>1. TypeOK'
      BY <1>4, <1>6 DEF TypeOK, WriteOwner, Goto, Labels, Holding
    <2>2. HolderInv'
      BY <1>2, <1>4, <1>6 DEF TypeOK, HolderInv, WriteOwner, Goto, Holding
    <2> QED
      BY <1>5, <2>1, <2>2 DEF LockInv
  <1>7. CASE Remove(p)
    <2>1. TypeOK'
      BY <1>4, <1>7 DEF TypeOK, Remove, Leave, NoFile, Labels, Holding
    <2>2. \A q \in Procs : proc'[q].pc \notin Holding
      BY <1>2, <1>4, <1>7 DEF TypeOK, Remove, Leave, Holding
    <2>3. HolderInv'
      BY <2>2 DEF HolderInv
    <2> QED
      BY <1>5, <2>1, <2>3 DEF LockInv
  <1> QED
    BY <1>6, <1>7

\* Every step of an operation, a crash and a failed call among them, keeps the invariant.
LEMMA OperationKeepsLockInv ==
  ASSUME LockAssumption, LockInv, NEW p \in Procs, Operation(p)
  PROVE  LockInv'
  <1>t. TypeOK
    BY DEF LockInv
  <1>1. CASE Create(p)
    <2>1. CASE Make(p)
      BY <1>1, <2>1, MakeKeepsLockInv DEF Create
    <2>2. CASE ~Make(p)
      BY <1>1, <2>2, GotoKeepsLockInv DEF Create, Labels, Holding
    <2> QED
      BY <2>1, <2>2
  <1>2. CASE CheckAgain(p)
    <2>1. faults' \in Nat
      BY <1>2, <1>t DEF CheckAgain, TypeOK
    <2> QED
      BY <1>2, <2>1, LeaveKeepsLockInv, GotoKeepsLockInv DEF CheckAgain, Labels, Holding
  <1>3. CASE CreateAgain(p)
    <2>1. CASE Make(p)
      BY <1>3, <2>1, MakeKeepsLockInv DEF CreateAgain
    <2>2. CASE ~Make(p)
      BY <1>3, <2>2, <1>t, LeaveKeepsLockInv DEF CreateAgain, TypeOK
    <2> QED
      BY <2>1, <2>2
  <1>4. CASE WriteOwner(p) \/ Remove(p)
    BY <1>4, OwnerStepsKeepLockInv
  <1>5. CASE ReadBeforeRelease(p)
    <2>1. faults' \in Nat
      BY <1>5, <1>t DEF ReadBeforeRelease, TypeOK
    <2> QED
      BY <1>5, <2>1, LeaveKeepsLockInv, GotoKeepsLockInv
      DEF ReadBeforeRelease, Labels, Holding
  <1>6. CASE Crash(p)
    <2>1. TypeOK'
      BY <1>6, <1>t DEF TypeOK, Crash, Spend, Leave, Labels, Holding
    <2>2. HolderInv'
      BY <1>6, <1>t DEF LockInv, TypeOK, HolderInv, Crash, Leave, Holding
    <2>3. ReclaimInv'
      BY <1>6 DEF LockInv, ReclaimInv, Crash
    <2> QED
      BY <2>1, <2>2, <2>3 DEF LockInv
  <1>7. CASE Fail(p)
    BY <1>7, <1>t, LeaveKeepsLockInv DEF Fail, Spend, TypeOK
  <1> QED
    BY <1>1, <1>2, <1>3, <1>4, <1>5, <1>6, <1>7 DEF Operation

-----------------------------------------------------------------------------

\* What the theorems assume of the owner and of the terminals.
OneTerminal == \A t, u \in Terminals : t = u
NamedOnly == ~ApprovesUnnamed

\* Every step of the terminal keeps the invariant: what it removes is a dead process's.
LEMMA ReclaimKeepsLockInv ==
  ASSUME OneTerminal, NamedOnly, LockInv, NEW t \in Terminals, Reclaim(t)
  PROVE  LockInv'
  <1>1. TypeOK /\ HolderInv /\ ReclaimInv
    BY DEF LockInv
  <1>2. /\ \A u \in Terminals : u = t
        /\ proc' = proc /\ makers' = makers /\ dead' = dead /\ faults' = faults
    BY DEF OneTerminal, Reclaim, ShowLock, Answer, RemoveReclaimed
  <1>3. CASE ShowLock(t)
    <2>1. TypeOK'
      BY <1>1, <1>2, <1>3 DEF TypeOK, ShowLock, Text, Unwritten
    <2>2. HolderInv'
      BY <1>1, <1>2, <1>3 DEF HolderInv, ShowLock
    <2>3. ReclaimInv'
      BY <1>1, <1>2, <1>3 DEF TypeOK, ReclaimInv, ShowLock, OwnerGone
    <2> QED
      BY <2>1, <2>2, <2>3 DEF LockInv
  <1>4. CASE Answer(t)
    <2>1. TypeOK'
      BY <1>1, <1>2, <1>4 DEF TypeOK, Answer
    <2>2. HolderInv'
      BY <1>1, <1>2, <1>4 DEF HolderInv, Answer
    <2>3. ReclaimInv'
      <3>1. CASE reclaim' = [reclaim EXCEPT ![t].pc = "idle"]
        BY <1>1, <1>2, <3>1 DEF TypeOK, ReclaimInv
      <3>2. CASE reclaim' # [reclaim EXCEPT ![t].pc = "idle"]
        <4>1. /\ file.held /\ Text = reclaim[t].shown /\ reclaim[t].shown # Unwritten
              /\ reclaim' = [reclaim EXCEPT ![t].pc = "remove"]
              /\ reclaim[t].pc = "asked" /\ file' = file
          BY <1>4, <3>2 DEF Answer, NamedOnly
        <4>2. file.written /\ file.id = reclaim[t].shown
          BY <4>1 DEF Text
        <4>3. reclaim[t].shown \in dead
          BY <1>1, <4>1 DEF ReclaimInv
        <4> QED
          BY <1>1, <1>2, <4>1, <4>2, <4>3 DEF TypeOK, ReclaimInv
      <3> QED
        BY <3>1, <3>2
    <2> QED
      BY <2>1, <2>2, <2>3 DEF LockInv
  <1>5. CASE RemoveReclaimed(t)
    <2>1. \A p \in Procs : proc[p].pc \notin Holding
      BY <1>5, HolderIsNotReclaimed DEF RemoveReclaimed
    <2>2. TypeOK'
      BY <1>1, <1>2, <1>5 DEF TypeOK, RemoveReclaimed, NoFile
    <2>3. HolderInv'
      BY <1>2, <2>1 DEF HolderInv
    <2>4. ReclaimInv'
      BY <1>1, <1>2, <1>5 DEF TypeOK, ReclaimInv, RemoveReclaimed
    <2> QED
      BY <2>2, <2>3, <2>4 DEF LockInv
  <1> QED
    BY <1>3, <1>4, <1>5 DEF Reclaim

\* Every step keeps the invariant.
LEMMA LockInvStep ==
  ASSUME LockAssumption, OneTerminal, NamedOnly, LockInv, [Next]_vars
  PROVE  LockInv'
  <1>1. CASE UNCHANGED vars
    BY <1>1 DEF vars, LockInv, TypeOK, HolderInv, ReclaimInv, Holding, Labels
  <1>2. CASE \E p \in Procs : Operation(p)
    BY <1>2, OperationKeepsLockInv
  <1>3. CASE \E t \in Terminals : Reclaim(t)
    BY <1>3, ReclaimKeepsLockInv
  <1> QED
    BY <1>1, <1>2, <1>3 DEF Next

-----------------------------------------------------------------------------

\* The variables keep their types (withEvolutionLock, reclaimEvolutionLock).
THEOREM EvolutionLockTypes ==
  ASSUME OneTerminal, NamedOnly
  PROVE  Spec => []TypeOK
  <1>1. Init => LockInv
    BY LockAssumption, LockInvInit
  <1>2. LockInv /\ [Next]_vars => LockInv'
    BY LockAssumption, LockInvStep
  <1>3. LockInv => TypeOK
    BY DEF LockInv
  <1> QED
    BY <1>1, <1>2, <1>3, PTL DEF Spec

\* Two operations are never under the evolution lock together (evolution-lock.ts:12).
THEOREM EvolutionLockExcludes ==
  ASSUME OneTerminal, NamedOnly
  PROVE  Spec => []MutualExclusion
  <1>1. Init => LockInv
    BY LockAssumption, LockInvInit
  <1>2. LockInv /\ [Next]_vars => LockInv'
    BY LockAssumption, LockInvStep
  <1>3. LockInv => MutualExclusion
    BY OneHolder DEF MutualExclusion
  <1> QED
    BY <1>1, <1>2, <1>3, PTL DEF Spec

\* No lock is removed under a process at work with it (evolution-lock.ts:134).
THEOREM EvolutionLockIsKept ==
  ASSUME OneTerminal, NamedOnly
  PROVE  Spec => LiveLockIsKept
  <1>1. Init => LockInv
    BY LockAssumption, LockInvInit
  <1>2. LockInv /\ [Next]_vars => LockInv'
    BY LockAssumption, LockInvStep
  <1>3. LockInv /\ [Next]_vars
        => [\A t \in Terminals :
              reclaim[t].pc = "remove" /\ reclaim'[t].pc = "idle"
              => \A p \in Procs : proc[p].pc \in Holding => proc[p].id # file.id]_vars
    BY HolderIsNotReclaimed
  <1> QED
    BY <1>1, <1>2, <1>3, PTL DEF Spec, LiveLockIsKept

\* A reclaim removes the lock it showed (evolution-lock.ts:135).
THEOREM EvolutionLockReclaims ==
  ASSUME OneTerminal, NamedOnly
  PROVE  Spec => ReclaimRemovesWhatWasShown
  <1>1. Init => LockInv
    BY LockAssumption, LockInvInit
  <1>2. LockInv /\ [Next]_vars => LockInv'
    BY LockAssumption, LockInvStep
  <1>3. LockInv /\ [Next]_vars
        => [\A t \in Terminals :
              reclaim[t].pc = "remove" /\ reclaim'[t].pc = "idle" /\ file.held
              => Text = reclaim[t].shown]_vars
    BY DEF LockInv, ReclaimInv, Text
  <1> QED
    BY <1>1, <1>2, <1>3, PTL DEF Spec, ReclaimRemovesWhatWasShown

-----------------------------------------------------------------------------
(* The writer lock: its inductive invariant *)

\* A text is not the absence of one.
TextsAreTexts == NoText \notin [by : Procs, n : Nat]

\* One older client is about.
OneOlderClient == \A p, q \in Older : p = q

Texts == {t \in [by : Procs, n : Nat] : t.n <= wlTexts}

Stations ==
  {"idle", "claim", "read", "probe", "move", "compare", "held", "unlink", "leave"}

Writers ==
  [pc : Stations, seen : Texts \cup {NoText}, moved : Texts \cup {NoText},
   own : Texts \cup {NoText}]

LockTyped ==
  /\ wlOwners \subseteq Procs /\ wlLock \in Texts \cup {NoText} /\ wlAside \subseteq Texts
  /\ wlProc \in [Procs -> Writers] /\ wlDead \subseteq Procs /\ wlTexts \in Nat

\* Besides an older client only the owner of the database is at work, and no dead process.
TheOwnerWorks ==
  /\ \A p, q \in wlOwners : p = q
  /\ \A p \in Procs : wlProc[p].pc # "idle" => p \notin wlDead /\ p \in Older \cup wlOwners

InLock(p) == wlProc[p].pc \in {"held", "unlink"}

HoldsItsOwn(p) == InLock(p) => wlProc[p].own \in Texts /\ wlProc[p].own.by = p

\* A lock that is to be removed is of a process found dead: nobody holds under its text.
SeesNobodys(p) ==
  /\ wlProc[p].pc \in {"probe", "move", "compare"} => wlProc[p].seen \in Texts
  /\ wlProc[p].pc \in {"move", "compare"} =>
       \A q \in Procs : InLock(q) => wlProc[q].own # wlProc[p].seen

\* A moved lock is no longer visible, and no other process has moved it.
Moving(p, t) == wlProc[p].pc = "compare" /\ wlProc[p].moved = t

MovesOne(p) ==
  wlProc[p].pc = "compare" =>
    /\ wlProc[p].moved \in wlAside \ {wlLock}
    /\ \A q \in Procs : Moving(q, wlProc[p].moved) => q = p

\* The locks left aside that nobody will put back: such a lock stays where it is.
Strays == {t \in wlAside \ {wlLock} : \A p \in Procs : ~Moving(p, t)}

\* The lock of a holder is visible, or in the hands of a process that will put it back.
InReach(p) == InLock(p) => wlLock = wlProc[p].own \/ \E q \in Procs : Moving(q, wlProc[p].own)

Exclusive == \A p, q \in Procs : InLock(p) /\ InLock(q) => p = q

NoStrayNoHarm == Strays = {} => Exclusive /\ \A p \in Procs : InReach(p)

WriterInv ==
  /\ LockTyped /\ TheOwnerWorks
  /\ \A p \in Procs : HoldsItsOwn(p) /\ SeesNobodys(p) /\ MovesOne(p)
  /\ NoStrayNoHarm

\* Of three processes at work two are the same.
LEMMA TwoAreAtWork ==
  ASSUME OneOlderClient, TheOwnerWorks, NEW p \in Procs, NEW q \in Procs, NEW r \in Procs,
         wlProc[p].pc # "idle", wlProc[q].pc # "idle", wlProc[r].pc # "idle"
  PROVE  p = q \/ p = r \/ q = r
BY DEF OneOlderClient, TheOwnerWorks

\* A process takes a step that leaves the lock files alone, and begins no holding.
LEMMA StepAside ==
  ASSUME WriterInv, NEW p \in Procs, NEW r \in Writers,
         wlProc' = [wlProc EXCEPT ![p] = r], UNCHANGED <<wlLock, wlAside, wlTexts>>,
         LockTyped', TheOwnerWorks', r.pc # "compare",
         r.pc \in {"held", "unlink"} => InLock(p) /\ r.own = wlProc[p].own,
         r.pc \in {"probe", "move"} => r.seen \in Texts,
         r.pc = "move" => \A q \in Procs : InLock(q) => wlProc[q].own # r.seen
  PROVE  WriterInv'
<1>0. wlProc \in [Procs -> Writers] /\ Texts' = Texts
  BY DEF WriterInv, LockTyped, Texts
<1>1. wlProc'[p] = r /\ \A q \in Procs \ {p} : wlProc'[q] = wlProc[q]
  BY <1>0
<1>2. \A q \in Procs : InLock(q)' => InLock(q) /\ wlProc'[q].own = wlProc[q].own
  BY <1>1 DEF InLock
<1>3. \A q \in Procs : HoldsItsOwn(q)'
  BY <1>0, <1>2 DEF WriterInv, HoldsItsOwn
<1>4. ASSUME NEW q \in Procs PROVE SeesNobodys(q)'
  <2>1. CASE q = p
    BY <1>0, <1>1, <1>2, <2>1 DEF SeesNobodys
  <2>2. CASE q # p
    BY <1>0, <1>1, <1>2, <2>2 DEF WriterInv, SeesNobodys
  <2> QED BY <2>1, <2>2
<1>5. \A q \in Procs, t \in Texts : Moving(q, t)' => Moving(q, t)
  BY <1>1 DEF Moving
<1>6. ASSUME NEW q \in Procs PROVE MovesOne(q)'
  <2>1. wlProc'[q].pc = "compare" => q # p /\ wlProc'[q] = wlProc[q]
    BY <1>1
  <2>2. wlAside \subseteq Texts
    BY DEF WriterInv, LockTyped
  <2> QED BY <1>5, <2>1, <2>2 DEF WriterInv, MovesOne
<1>7. NoStrayNoHarm'
  <2>1. Strays \subseteq Strays'
    BY <1>5 DEF Strays, WriterInv, LockTyped
  <2>2. CASE wlProc[p].pc = "compare"
    <3>1. wlProc[p].moved \in wlAside \ {wlLock}
          /\ \A q \in Procs : Moving(q, wlProc[p].moved) => q = p
      BY <2>2 DEF WriterInv, MovesOne
    <3>2. wlProc[p].moved \in Strays'
      BY <1>1, <3>1 DEF Strays, Moving
    <3> QED BY <3>2 DEF NoStrayNoHarm
  <2>3. CASE wlProc[p].pc # "compare"
    <3>1. \A q \in Procs : \A t : Moving(q, t) => Moving(q, t)'
      BY <1>1, <2>3 DEF Moving
    <3> QED BY <1>2, <2>1, <3>1 DEF WriterInv, NoStrayNoHarm, Exclusive, InReach
  <2> QED BY <2>2, <2>3
<1> QED BY <1>3, <1>4, <1>6, <1>7 DEF WriterInv

\* What a process becomes that goes on to another station.
LEMMA GoesOn ==
  ASSUME LockTyped, NEW p \in Procs, NEW label \in Stations, Writer!Goto(p, label)
  PROVE  /\ [wlProc[p] EXCEPT !.pc = label] \in Writers
         /\ wlProc' = [wlProc EXCEPT ![p] = [wlProc[p] EXCEPT !.pc = label]]
         /\ wlProc' \in [Procs -> Writers]
BY DEF LockTyped, Writers, Writer!Goto

LEMMA IdleIsWriter == ASSUME LockTyped PROVE Writer!Idle \in Writers
BY DEF LockTyped, Writers, Stations, Writer!Idle

\* The stations that a process reaches without a step on the lock files.
LEMMA WalkKeeps ==
  ASSUME WriterInv, NEW p \in Procs, NEW label \in {"claim", "read", "leave", "unlink"},
         Writer!Goto(p, label), UNCHANGED <<wlLock, wlAside, wlTexts, wlDead>>,
         wlProc[p].pc # "idle", wlOwners' = wlOwners,
         label = "unlink" => wlProc[p].pc = "held"
  PROVE  WriterInv'
<1> DEFINE r == [wlProc[p] EXCEPT !.pc = label]
<1>0. LockTyped /\ TheOwnerWorks /\ Texts' = Texts /\ Writers' = Writers
  BY DEF WriterInv, Texts, Writers
<1>1. /\ r \in Writers /\ wlProc' = [wlProc EXCEPT ![p] = r] /\ wlProc' \in [Procs -> Writers]
      /\ r.pc = label /\ r.own = wlProc[p].own
  <2>1. label \in Stations
    BY DEF Stations
  <2>2. r.pc = label /\ r.own = wlProc[p].own
    BY <1>0 DEF LockTyped, Writers
  <2> QED BY <1>0, <2>1, <2>2, GoesOn
<1> HIDE DEF r
<1>2. LockTyped'
  BY <1>0, <1>1 DEF LockTyped
<1>3. TheOwnerWorks'
  BY <1>0, <1>1 DEF TheOwnerWorks, LockTyped
<1>4. label = "unlink" => InLock(p)
  BY DEF InLock
<1> QED BY <1>1, <1>2, <1>3, <1>4, StepAside

LEMMA BeginKeeps ==
  ASSUME WriterInv, NEW p \in Procs, Writer!Begin(p)
  PROVE  WriterInv'
<1> DEFINE r == [wlProc[p] EXCEPT !.pc = "claim"]
<1>0. LockTyped /\ TheOwnerWorks /\ Texts' = Texts /\ Writers' = Writers
  BY DEF WriterInv, Texts, Writers, Writer!Begin
<1>1. /\ r \in Writers /\ wlProc' = [wlProc EXCEPT ![p] = r] /\ wlProc' \in [Procs -> Writers]
      /\ r.pc = "claim"
  <2>1. "claim" \in Stations
    BY DEF Stations
  <2>2. r.pc = "claim"
    BY <1>0 DEF LockTyped, Writers
  <2>3. Writer!Goto(p, "claim")
    BY DEF Writer!Begin
  <2> QED BY <1>0, <2>1, <2>2, <2>3, GoesOn
<1> HIDE DEF r
<1>2. wlProc'[p].pc = "claim" /\ \A q \in Procs \ {p} : wlProc'[q] = wlProc[q]
  BY <1>0, <1>1 DEF LockTyped
<1>3. /\ p \notin wlDead /\ wlDead' = wlDead
      /\ \/ p \in Older /\ wlOwners' = wlOwners
         \/ wlOwners = {} /\ wlOwners' = {p}
  BY DEF Writer!Begin, Writer!Owner!Acquire
<1>4. LockTyped'
  BY <1>0, <1>1, <1>3 DEF LockTyped, Writer!Begin
<1>5. TheOwnerWorks'
  BY <1>0, <1>2, <1>3 DEF TheOwnerWorks
<1> QED BY <1>1, <1>4, <1>5, StepAside DEF Writer!Begin

LEMMA ReadKeeps ==
  ASSUME WriterInv, NEW p \in Procs, Writer!Read(p)
  PROVE  WriterInv'
<1>0. LockTyped /\ TheOwnerWorks /\ Texts' = Texts /\ Writers' = Writers
  BY DEF WriterInv, Texts, Writers, Writer!Read
<1>1. CASE wlLock = NoText
  BY <1>1, WalkKeeps DEF Writer!Read, Writer!At, Writer!Goto
<1>2. CASE wlLock # NoText
  <2> DEFINE r == [wlProc[p] EXCEPT !.pc = "probe", !.seen = wlLock]
  <2>1. r \in Writers /\ r.pc = "probe" /\ r.seen = wlLock
    BY <1>0 DEF LockTyped, Writers, Stations
  <2>2. wlProc' = [wlProc EXCEPT ![p] = r]
    BY <1>2 DEF Writer!Read
  <2> HIDE DEF r
  <2>3. LockTyped'
    BY <1>0, <2>1, <2>2 DEF LockTyped, Writer!Read
  <2>4. TheOwnerWorks'
    BY <1>0, <2>1, <2>2 DEF TheOwnerWorks, LockTyped, Writer!Read, Writer!At
  <2>5. wlLock \in Texts
    BY <1>0, <1>2 DEF LockTyped
  <2> QED BY <2>1, <2>2, <2>3, <2>4, <2>5, StepAside DEF Writer!Read
<1> QED BY <1>1, <1>2

LEMMA ProbeKeeps ==
  ASSUME WriterInv, NEW p \in Procs, Writer!Probe(p)
  PROVE  WriterInv'
<1> DEFINE r == [wlProc[p] EXCEPT !.pc = "move"]
<1>0. LockTyped /\ TheOwnerWorks /\ Texts' = Texts /\ Writers' = Writers
  BY DEF WriterInv, Texts, Writers, Writer!Probe
<1>1. CASE wlProc[p].seen.by \in wlDead
  <2>1. /\ r \in Writers /\ wlProc' = [wlProc EXCEPT ![p] = r] /\ r.pc = "move"
        /\ r.seen = wlProc[p].seen /\ wlProc' \in [Procs -> Writers]
    <3>1. "move" \in Stations
      BY DEF Stations
    <3>2. r.pc = "move" /\ r.seen = wlProc[p].seen
      BY <1>0 DEF LockTyped, Writers
    <3>3. Writer!Goto(p, "move")
      BY <1>1 DEF Writer!Probe
    <3> QED BY <1>0, <3>1, <3>2, <3>3, GoesOn
  <2>2. r.seen \in Texts
    BY <2>1 DEF WriterInv, SeesNobodys, Writer!Probe, Writer!At
  <2>3. ASSUME NEW q \in Procs, InLock(q) PROVE wlProc[q].own # r.seen
    <3>1. q \notin wlDead /\ wlProc[q].own.by = q
      BY <2>3 DEF WriterInv, TheOwnerWorks, HoldsItsOwn, InLock
    <3> QED BY <1>1, <2>1, <3>1
  <2> HIDE DEF r
  <2>4. LockTyped'
    BY <1>0, <2>1 DEF LockTyped, Writer!Probe
  <2>5. TheOwnerWorks'
    BY <1>0, <2>1 DEF TheOwnerWorks, LockTyped, Writer!Probe, Writer!At
  <2> QED BY <2>1, <2>2, <2>3, <2>4, <2>5, StepAside DEF Writer!Probe
<1>2. CASE wlProc[p].seen.by \notin wlDead
  BY <1>2, WalkKeeps DEF Writer!Probe, Writer!At
<1> QED BY <1>1, <1>2

LEMMA ClaimKeeps ==
  ASSUME TextsAreTexts, OneOlderClient, WriterInv, NEW p \in Procs, Writer!Claim(p)
  PROVE  WriterInv'
<1>0. LockTyped /\ TheOwnerWorks /\ wlProc[p].pc = "claim"
  BY DEF WriterInv, Writer!Claim, Writer!At
<1>1. CASE wlLock # NoText
  BY <1>0, <1>1, WalkKeeps DEF Writer!Claim
<1>2. CASE wlLock = NoText
  <2> DEFINE text == [by |-> p, n |-> wlTexts + 1]
             r == [Writer!Idle EXCEPT !.pc = "held", !.own = text]
  <2>1. /\ wlLock' = text /\ wlTexts' = wlTexts + 1 /\ wlProc' = [wlProc EXCEPT ![p] = r]
        /\ UNCHANGED <<wlOwners, wlAside, wlDead>>
    BY <1>2 DEF Writer!Claim
  <2>2. /\ Texts \subseteq Texts' /\ text \in Texts' /\ text \notin Texts /\ text.by = p
        /\ NoText \notin Texts
    BY <1>0, <2>1 DEF LockTyped, Texts, TextsAreTexts
  <2>3. r.pc = "held" /\ r.own = text /\ r.seen = NoText /\ r.moved = NoText
    BY DEF Writer!Idle
  <2>4. r \in Writers'
    BY <2>2 DEF Writers, Stations, Writer!Idle
  <2> HIDE DEF r, text
  <2>5. wlProc'[p] = r /\ \A q \in Procs \ {p} : wlProc'[q] = wlProc[q]
    BY <1>0, <2>1 DEF LockTyped
  <2>6. LockTyped'
    <3>1. Writers \subseteq Writers'
      BY <2>2 DEF Writers
    <3>2. wlProc' \in [Procs -> Writers']
      BY <1>0, <2>1, <2>4, <3>1 DEF LockTyped
    <3> QED BY <1>0, <2>1, <2>2, <3>2 DEF LockTyped
  <2>7. TheOwnerWorks'
    BY <1>0, <2>1, <2>3, <2>5 DEF TheOwnerWorks
  <2>8. \A q \in Procs \ {p} : /\ InLock(q)' <=> InLock(q)
                               /\ \A t : Moving(q, t)' <=> Moving(q, t)
    BY <2>5 DEF InLock, Moving
  <2>9. \A t : ~Moving(p, t) /\ ~Moving(p, t)'
    BY <1>0, <2>3, <2>5 DEF Moving
  <2>10. ASSUME NEW q \in Procs PROVE HoldsItsOwn(q)' /\ SeesNobodys(q)' /\ MovesOne(q)'
    <3>1. wlAside \subseteq Texts
      BY <1>0 DEF LockTyped
    <3>2. CASE q = p
      BY <2>2, <2>3, <2>5, <3>2 DEF HoldsItsOwn, SeesNobodys, MovesOne
    <3>3. CASE q # p
      <4>1. HoldsItsOwn(q)'
        BY <2>2, <2>5, <2>8, <3>3 DEF WriterInv, HoldsItsOwn
      <4>2. SeesNobodys(q)'
        <5>1. ASSUME NEW h \in Procs, InLock(h)', wlProc[q].seen \in Texts,
                     wlProc[q].pc \in {"move", "compare"}
              PROVE  wlProc'[h].own # wlProc[q].seen
          <6>1. CASE h = p
            BY <2>2, <2>3, <2>5, <5>1, <6>1
          <6>2. CASE h # p
            BY <2>5, <2>8, <5>1, <6>2 DEF WriterInv, SeesNobodys
          <6> QED BY <6>1, <6>2
        <5>2. wlProc'[q] = wlProc[q]
          BY <2>5, <3>3
        <5>3. SeesNobodys(q)
          BY DEF WriterInv
        <5> QED BY <2>2, <5>1, <5>2, <5>3 DEF SeesNobodys
      <4>3. MovesOne(q)'
        <5>1. MovesOne(q) /\ wlProc'[q] = wlProc[q]
          BY <2>5, <3>3 DEF WriterInv
        <5> QED BY <2>1, <2>2, <2>8, <2>9, <3>1, <5>1 DEF MovesOne
      <4> QED BY <4>1, <4>2, <4>3
    <3> QED BY <3>2, <3>3
  <2>11. Strays \subseteq Strays'
    BY <1>0, <2>1, <2>2, <2>8, <2>9 DEF Strays, LockTyped
  <2>12. ASSUME Strays = {}, NEW q \in Procs \ {p}, InLock(q) PROVE FALSE
    <3>1. PICK w \in Procs : Moving(w, wlProc[q].own)
      BY <1>2, <2>2, <2>12 DEF WriterInv, NoStrayNoHarm, InReach, HoldsItsOwn
    <3>2. w # p /\ w # q
      BY <2>9, <2>12, <3>1 DEF Moving, InLock
    <3>3. wlProc[w].pc # "idle" /\ wlProc[q].pc # "idle" /\ wlProc[p].pc # "idle"
      BY <1>0, <2>12, <3>1 DEF Moving, InLock
    <3> QED BY <1>0, <3>2, <3>3, TwoAreAtWork
  <2>13. NoStrayNoHarm'
    <3> SUFFICES ASSUME Strays' = {} PROVE Exclusive' /\ \A q \in Procs : InReach(q)'
      BY DEF NoStrayNoHarm
    <3>1. \A q \in Procs : InLock(q)' => q = p
      BY <2>8, <2>11, <2>12
    <3>2. wlLock' = wlProc'[p].own
      BY <2>1, <2>3, <2>5
    <3> QED BY <3>1, <3>2 DEF Exclusive, InReach
  <2> QED BY <2>6, <2>7, <2>10, <2>13 DEF WriterInv
<1> QED BY <1>1, <1>2

LEMMA MoveKeeps ==
  ASSUME TextsAreTexts, WriterInv, NEW p \in Procs, Writer!Move(p)
  PROVE  WriterInv'
<1>0. LockTyped /\ TheOwnerWorks /\ wlProc[p].pc = "move"
  BY DEF WriterInv, Writer!Move, Writer!At
<1>1. CASE wlLock = NoText
  BY <1>0, <1>1, WalkKeeps DEF Writer!Move
<1>2. CASE wlLock # NoText
  <2> DEFINE r == [wlProc[p] EXCEPT !.pc = "compare", !.moved = wlLock]
  <2>1. /\ wlLock' = NoText /\ wlAside' = wlAside \cup {wlLock}
        /\ wlProc' = [wlProc EXCEPT ![p] = r]
        /\ UNCHANGED <<wlOwners, wlTexts, wlDead>>
    BY <1>2 DEF Writer!Move
  <2>2. /\ Texts' = Texts /\ Writers' = Writers /\ NoText \notin Texts /\ wlLock \in Texts
        /\ wlAside \subseteq Texts
    BY <1>0, <1>2, <2>1 DEF LockTyped, Texts, Writers, TextsAreTexts
  <2>3. r \in Writers /\ r.pc = "compare" /\ r.moved = wlLock /\ r.seen = wlProc[p].seen
    BY <1>0 DEF LockTyped, Writers, Stations
  <2> HIDE DEF r
  <2>4. wlProc'[p] = r /\ \A q \in Procs \ {p} : wlProc'[q] = wlProc[q]
    BY <1>0, <2>1 DEF LockTyped
  <2>5. LockTyped' /\ TheOwnerWorks'
    <3>1. LockTyped'
      BY <1>0, <2>1, <2>2, <2>3 DEF LockTyped
    <3>2. TheOwnerWorks'
      BY <1>0, <2>1, <2>3, <2>4 DEF TheOwnerWorks
    <3> QED BY <3>1, <3>2
  <2>6. \A q \in Procs : /\ InLock(q)' <=> InLock(q)
                         /\ InLock(q) => wlProc'[q] = wlProc[q]
    BY <1>0, <2>3, <2>4 DEF InLock
  <2>7. /\ \A q \in Procs \ {p} : \A t : Moving(q, t)' <=> Moving(q, t)
        /\ \A t : ~Moving(p, t) /\ (Moving(p, t)' <=> t = wlLock)
    BY <1>0, <2>3, <2>4 DEF Moving
  <2>8. ASSUME NEW q \in Procs PROVE HoldsItsOwn(q)' /\ SeesNobodys(q)' /\ MovesOne(q)'
    <3>1. HoldsItsOwn(q) /\ SeesNobodys(q) /\ MovesOne(q)
      BY DEF WriterInv
    <3>2. HoldsItsOwn(q)'
      BY <2>2, <2>6, <3>1 DEF HoldsItsOwn
    <3>3. SeesNobodys(q)'
      <4>1. CASE q = p
        BY <1>0, <2>2, <2>3, <2>4, <2>6, <3>1, <4>1 DEF SeesNobodys
      <4>2. CASE q # p
        BY <2>2, <2>4, <2>6, <3>1, <4>2 DEF SeesNobodys
      <4> QED BY <4>1, <4>2
    <3>4. MovesOne(q)'
      <4>1. CASE q = p
        <5>1. ASSUME NEW w \in Procs, Moving(w, wlLock) PROVE FALSE
          BY <5>1 DEF WriterInv, MovesOne, Moving
        <5> QED BY <2>1, <2>2, <2>3, <2>4, <2>7, <4>1, <5>1 DEF MovesOne
      <4>2. CASE q # p
        BY <2>1, <2>2, <2>4, <2>7, <3>1, <4>2 DEF MovesOne
      <4> QED BY <4>1, <4>2
    <3> QED BY <3>2, <3>3, <3>4
  <2>9. Strays \subseteq Strays'
    BY <2>1, <2>2, <2>7 DEF Strays
  <2>10. NoStrayNoHarm'
    <3> SUFFICES ASSUME Strays' = {} PROVE Exclusive' /\ \A q \in Procs : InReach(q)'
      BY DEF NoStrayNoHarm
    <3>1. Exclusive /\ \A q \in Procs : InReach(q)
      BY <2>9 DEF WriterInv, NoStrayNoHarm
    <3>2. Exclusive'
      BY <2>6, <3>1 DEF Exclusive
    <3> QED BY <2>6, <2>7, <3>1, <3>2 DEF InReach
  <2> QED BY <2>5, <2>8, <2>10 DEF WriterInv
<1> QED BY <1>1, <1>2

\* What was moved is put back, or deleted, or stays aside.
LEMMA PutBackKeeps ==
  ASSUME TextsAreTexts, WriterInv, NEW p \in Procs, NEW label \in {"claim", "leave"},
         wlProc[p].pc = "compare", Writer!Goto(p, label),
         wlLock' \in {wlLock, wlProc[p].moved}, wlLock # NoText => wlLock' = wlLock,
         wlAside' \in {wlAside, wlAside \ {wlProc[p].moved}},
         wlProc[p].moved # wlProc[p].seen =>
           \/ wlLock' = wlProc[p].moved
           \/ wlLock' = wlLock /\ wlAside' = wlAside,
         UNCHANGED <<wlOwners, wlTexts, wlDead>>
  PROVE  WriterInv'
<1> DEFINE r == [wlProc[p] EXCEPT !.pc = label]
           moved == wlProc[p].moved
<1>0. /\ LockTyped /\ TheOwnerWorks /\ Texts' = Texts /\ Writers' = Writers
      /\ NoText \notin Texts /\ wlAside \subseteq Texts
      /\ moved \in wlAside \ {wlLock} /\ \A q \in Procs : Moving(q, moved) => q = p
  BY DEF WriterInv, LockTyped, Texts, Writers, TextsAreTexts, MovesOne
<1>1. /\ r \in Writers /\ wlProc' = [wlProc EXCEPT ![p] = r] /\ wlProc' \in [Procs -> Writers]
      /\ r.pc = label
  <2>1. label \in Stations
    BY DEF Stations
  <2>2. r.pc = label
    BY <1>0 DEF LockTyped, Writers
  <2> QED BY <1>0, <2>1, <2>2, GoesOn
<1> HIDE DEF r
<1>2. wlProc'[p] = r /\ \A q \in Procs \ {p} : wlProc'[q] = wlProc[q]
  BY <1>0, <1>1 DEF LockTyped
<1>3. LockTyped'
  BY <1>0, <1>1 DEF LockTyped
<1>4. TheOwnerWorks'
  BY <1>0, <1>1, <1>2 DEF TheOwnerWorks
<1>5. \A q \in Procs : /\ InLock(q)' <=> InLock(q)
                       /\ InLock(q) => q # p /\ wlProc'[q] = wlProc[q]
  BY <1>1, <1>2 DEF InLock
<1>6. /\ \A q \in Procs \ {p} : \A t : Moving(q, t)' <=> Moving(q, t)
      /\ \A t : ~Moving(p, t)' /\ (Moving(p, t) <=> t = moved)
  BY <1>1, <1>2 DEF Moving
<1>7. ASSUME NEW q \in Procs PROVE HoldsItsOwn(q)' /\ SeesNobodys(q)' /\ MovesOne(q)'
  <2>1. HoldsItsOwn(q) /\ SeesNobodys(q) /\ MovesOne(q)
    BY DEF WriterInv
  <2>2. HoldsItsOwn(q)'
    BY <1>0, <1>5, <2>1 DEF HoldsItsOwn
  <2>3. CASE q = p
    BY <1>1, <1>2, <2>2, <2>3 DEF SeesNobodys, MovesOne
  <2>4. CASE q # p
    <3>1. wlProc'[q] = wlProc[q]
      BY <1>2, <2>4
    <3>2. SeesNobodys(q)'
      BY <1>0, <1>5, <2>1, <3>1 DEF SeesNobodys
    <3>3. wlProc[q].pc = "compare" => wlProc[q].moved # moved
      BY <1>0, <2>4 DEF Moving
    <3>4. MovesOne(q)'
      BY <1>0, <1>6, <2>1, <3>1, <3>3 DEF MovesOne
    <3> QED BY <2>2, <3>2, <3>4
  <2> QED BY <2>3, <2>4
<1>8. Strays \subseteq Strays'
  <2> SUFFICES ASSUME NEW t \in Strays PROVE t \in Strays'
    OBVIOUS
  <2>1. t \in wlAside \ {wlLock} /\ t # moved /\ \A q \in Procs : ~Moving(q, t)
    BY <1>6 DEF Strays
  <2>2. t \in wlAside' /\ t # wlLock' /\ \A q \in Procs : ~Moving(q, t)'
    BY <1>6, <2>1
  <2> QED BY <2>2 DEF Strays
<1>9. NoStrayNoHarm'
  <2> SUFFICES ASSUME Strays' = {} PROVE Exclusive' /\ \A q \in Procs : InReach(q)'
    BY DEF NoStrayNoHarm
  <2>1. Exclusive /\ \A q \in Procs : InReach(q)
    BY <1>8 DEF WriterInv, NoStrayNoHarm
  <2>2. Exclusive'
    BY <1>5, <2>1 DEF Exclusive
  <2>3. ASSUME NEW q \in Procs, InLock(q)
        PROVE  wlLock' = wlProc[q].own \/ \E w \in Procs : Moving(w, wlProc[q].own)'
    <3>1. wlProc'[q] = wlProc[q]
      BY <1>5, <2>3
    <3>2. CASE wlLock = wlProc[q].own
      BY <1>0, <2>3, <3>2 DEF WriterInv, HoldsItsOwn
    <3>3. CASE wlLock # wlProc[q].own
      <4>1. PICK w \in Procs : Moving(w, wlProc[q].own)
        BY <2>1, <2>3, <3>3 DEF InReach
      <4>2. CASE w # p
        <5>1. wlProc'[w] = wlProc[w]
          BY <1>2, <4>2
        <5> QED BY <3>1, <4>1, <5>1 DEF Moving
      <4>3. CASE w = p
        <5>1. wlProc[q].own = moved
          BY <1>6, <4>1, <4>3
        <5>2. moved # wlProc[p].seen
          <6>1. SeesNobodys(p)
            BY DEF WriterInv
          <6> QED BY <2>3, <5>1, <6>1 DEF SeesNobodys
        <5>3. CASE wlLock' = moved
          BY <5>1, <5>3
        <5>4. CASE wlLock' = wlLock /\ wlAside' = wlAside
          <6>1. moved \in wlAside' \ {wlLock'}
            BY <1>0, <5>4
          <6>2. \A t : t = moved => \A v \in Procs : ~Moving(v, t)'
            BY <1>0, <1>6
          <6>3. moved \in Strays'
            BY <6>1, <6>2 DEF Strays
          <6> QED BY <6>3
        <5> QED BY <5>2, <5>3, <5>4
      <4> QED BY <4>2, <4>3
    <3> QED BY <3>2, <3>3
  <2> QED BY <1>5, <2>2, <2>3 DEF InReach
<1> QED BY <1>3, <1>4, <1>7, <1>9 DEF WriterInv

LEMMA CompareKeeps ==
  ASSUME TextsAreTexts, WriterInv, NEW p \in Procs, Writer!Compare(p) \/ Writer!FailToDelete(p)
  PROVE  WriterInv'
<1>1. CASE Writer!Compare(p)
  <2>1. wlProc[p].pc = "compare" /\ Writer!Goto(p, "claim")
    BY <1>1 DEF Writer!Compare, Writer!At
  <2> QED BY <1>1, <2>1, PutBackKeeps DEF Writer!Compare
<1>2. CASE Writer!FailToDelete(p)
  <2>1. wlProc[p].pc = "compare" /\ Writer!Goto(p, "leave")
    BY <1>2 DEF Writer!FailToDelete, Writer!At
  <2> QED BY <1>2, <2>1, PutBackKeeps DEF Writer!FailToDelete
<1> QED BY <1>1, <1>2

\* Whoever lets go removes what is visible: if nothing is astray that is its own lock.
LEMMA UnlinkKeeps ==
  ASSUME TextsAreTexts, WriterInv, NEW p \in Procs, Writer!Unlink(p)
  PROVE  WriterInv'
<1> DEFINE r == [wlProc[p] EXCEPT !.pc = "leave"]
<1>0. /\ LockTyped /\ TheOwnerWorks /\ Texts' = Texts /\ Writers' = Writers
      /\ NoText \notin Texts /\ wlAside \subseteq Texts /\ wlProc[p].pc = "unlink"
      /\ wlLock' = NoText /\ UNCHANGED <<wlOwners, wlAside, wlDead, wlTexts>>
  BY DEF WriterInv, LockTyped, Texts, Writers, TextsAreTexts, Writer!Unlink, Writer!At
<1>1. /\ r \in Writers /\ wlProc' = [wlProc EXCEPT ![p] = r] /\ wlProc' \in [Procs -> Writers]
      /\ r.pc = "leave"
  <2>1. "leave" \in Stations /\ Writer!Goto(p, "leave")
    BY DEF Stations, Writer!Unlink
  <2>2. r.pc = "leave"
    BY <1>0 DEF LockTyped, Writers
  <2> QED BY <1>0, <2>1, <2>2, GoesOn
<1> HIDE DEF r
<1>2. wlProc'[p] = r /\ \A q \in Procs \ {p} : wlProc'[q] = wlProc[q]
  BY <1>0, <1>1 DEF LockTyped
<1>3. LockTyped' /\ TheOwnerWorks'
  <2>1. LockTyped'
    BY <1>0, <1>1 DEF LockTyped
  <2>2. TheOwnerWorks'
    BY <1>0, <1>1, <1>2 DEF TheOwnerWorks
  <2> QED BY <2>1, <2>2
<1>4. \A q \in Procs : InLock(q)' => InLock(q) /\ q # p /\ wlProc'[q] = wlProc[q]
  BY <1>1, <1>2 DEF InLock
<1>5. \A q \in Procs : \A t : Moving(q, t)' <=> Moving(q, t)
  BY <1>0, <1>1, <1>2 DEF Moving
<1>6. ASSUME NEW q \in Procs PROVE HoldsItsOwn(q)' /\ SeesNobodys(q)' /\ MovesOne(q)'
  <2>1. HoldsItsOwn(q) /\ SeesNobodys(q) /\ MovesOne(q)
    BY DEF WriterInv
  <2>2. HoldsItsOwn(q)'
    BY <1>0, <1>4, <2>1 DEF HoldsItsOwn
  <2>3. CASE q = p
    BY <1>1, <1>2, <2>2, <2>3 DEF SeesNobodys, MovesOne
  <2>4. CASE q # p
    <3>1. wlProc'[q] = wlProc[q]
      BY <1>2, <2>4
    <3>2. SeesNobodys(q)'
      BY <1>0, <1>4, <2>1, <3>1 DEF SeesNobodys
    <3>3. MovesOne(q)'
      BY <1>0, <1>5, <2>1, <3>1 DEF MovesOne
    <3> QED BY <2>2, <3>2, <3>3
  <2> QED BY <2>3, <2>4
<1>7. NoStrayNoHarm'
  <2>1. Strays \subseteq Strays'
    BY <1>0, <1>5 DEF Strays
  <2>2. ASSUME Strays = {}, NEW q \in Procs, InLock(q)' PROVE FALSE
    <3>1. Exclusive
      BY <2>2 DEF WriterInv, NoStrayNoHarm
    <3> QED BY <1>0, <1>4, <2>2, <3>1 DEF Exclusive, InLock
  <2> QED BY <2>1, <2>2 DEF NoStrayNoHarm, Exclusive, InReach
<1> QED BY <1>3, <1>6, <1>7 DEF WriterInv

\* A process ends, or gives the ownership up.
LEMMA EndKeeps ==
  ASSUME WriterInv, NEW p \in Procs, Writer!Leave(p) \/ Writer!Crash(p)
  PROVE  WriterInv'
<1> DEFINE r == Writer!Idle
<1>0. LockTyped /\ TheOwnerWorks /\ Texts' = Texts /\ Writers' = Writers
  BY DEF WriterInv, Texts, Writers, Writer!Leave, Writer!Crash
<1>1. /\ wlProc' = [wlProc EXCEPT ![p] = r] /\ UNCHANGED <<wlLock, wlAside, wlTexts>>
      /\ wlOwners' \in {wlOwners, wlOwners \ {p}} /\ wlDead' \in {wlDead, wlDead \cup {p}}
  BY DEF Writer!Leave, Writer!Crash, Writer!Owner!Drop
<1>2. r \in Writers /\ r.pc = "idle"
  BY <1>0, IdleIsWriter DEF Writer!Idle
<1> HIDE DEF r
<1>3. LockTyped'
  BY <1>0, <1>1, <1>2 DEF LockTyped
<1>4. TheOwnerWorks'
  BY <1>0, <1>1, <1>2 DEF TheOwnerWorks, LockTyped
<1> QED BY <1>1, <1>2, <1>3, <1>4, StepAside

LEMMA ReuseKeeps ==
  ASSUME WriterInv, NEW p \in Procs, Writer!ReuseId(p)
  PROVE  WriterInv'
<1> DEFINE r == wlProc[p]
<1>0. LockTyped /\ TheOwnerWorks
  BY DEF WriterInv
<1>1. /\ wlProc' = [wlProc EXCEPT ![p] = r] /\ r \in Writers
      /\ UNCHANGED <<wlLock, wlAside, wlTexts, wlOwners>> /\ wlProc' = wlProc
      /\ Texts' = Texts /\ Writers' = Writers
  BY <1>0 DEF Writer!ReuseId, LockTyped, Texts, Writers
<1>2. r.pc = "idle"
  BY <1>0 DEF TheOwnerWorks, Writer!ReuseId
<1> HIDE DEF r
<1>3. LockTyped'
  BY <1>0, <1>1 DEF LockTyped, Writer!ReuseId
<1>4. TheOwnerWorks'
  BY <1>0, <1>1 DEF TheOwnerWorks, Writer!ReuseId
<1> QED BY <1>1, <1>2, <1>3, <1>4, StepAside

LEMMA ReleaseKeeps ==
  ASSUME WriterInv, NEW p \in Procs, Writer!Release(p) \/ Writer!Fail(p)
  PROVE  WriterInv'
<1>1. CASE Writer!Release(p)
  <2>1. wlProc[p].pc = "held" /\ (Writer!Goto(p, "unlink") \/ Writer!Goto(p, "leave"))
    BY <1>1 DEF Writer!Release, Writer!At
  <2> QED BY <1>1, <2>1, WalkKeeps DEF Writer!Release
<1>2. CASE Writer!Fail(p)
  BY <1>2, WalkKeeps DEF Writer!Fail
<1> QED BY <1>1, <1>2

LEMMA WriterStep ==
  ASSUME TextsAreTexts, OneOlderClient, WriterInv, [Writer!Next]_(Writer!vars)
  PROVE  WriterInv'
<1>1. CASE UNCHANGED Writer!vars
  BY <1>1 DEF Writer!vars, WriterInv, LockTyped, Texts, Writers, TheOwnerWorks, HoldsItsOwn,
     InLock, SeesNobodys, MovesOne, Moving, NoStrayNoHarm, Strays, InReach, Exclusive
<1>2. ASSUME NEW p \in Procs,
             Writer!Step(p) \/ Writer!Fail(p) \/ Writer!FailToDelete(p) \/ Writer!Crash(p)
               \/ Writer!ReuseId(p)
      PROVE  WriterInv'
  BY <1>2, BeginKeeps, ClaimKeeps, ReadKeeps, ProbeKeeps, MoveKeeps, CompareKeeps, ReleaseKeeps,
     UnlinkKeeps, EndKeeps, ReuseKeeps DEF Writer!Step
<1> QED BY <1>1, <1>2 DEF Writer!Next

LEMMA WriterInit == Writer!Init => WriterInv
<1> SUFFICES ASSUME Writer!Init PROVE WriterInv
  OBVIOUS
<1>1. wlTexts = 0 /\ wlProc = [p \in Procs |-> Writer!Idle] /\ wlLock = NoText
      /\ wlOwners = {} /\ wlAside = {} /\ wlDead = {}
  BY DEF Writer!Init
<1>2. Writer!Idle \in Writers
  BY DEF Writers, Stations, Writer!Idle
<1>3. \A p \in Procs : wlProc[p].pc = "idle"
  BY <1>1 DEF Writer!Idle
<1>4. LockTyped
  BY <1>1, <1>2 DEF LockTyped
<1> QED BY <1>1, <1>3, <1>4
  DEF WriterInv, TheOwnerWorks, HoldsItsOwn, InLock, SeesNobodys, MovesOne, NoStrayNoHarm,
      Exclusive, InReach

\* Two processes hold the writer lock only when a moved lock was left aside, by a process that
\* died or found the path taken (sync.ts:247): whatever dies, fails or gets a dead process's id.
THEOREM OneWriterHolds ==
  ASSUME TextsAreTexts, OneOlderClient
  PROVE  Writer!Spec => []OneWriter
<1>1. WriterInv => OneWriter
  <2> SUFFICES ASSUME WriterInv,
                      {t \in wlAside : ~\E p \in Procs : Writer!At(p, "compare")
                                                         /\ wlProc[p].moved = t} = {}
               PROVE  \A p, q \in Procs : Writer!Holds(p) /\ Writer!Holds(q) => p = q
    BY DEF OneWriter, Writer!OneWriter
  <2>1. Strays = {}
    BY DEF Strays, Moving, Writer!At
  <2> QED BY <2>1 DEF WriterInv, NoStrayNoHarm, Exclusive, InLock, Writer!Holds
<1> QED BY WriterInit, WriterStep, <1>1, PTL DEF Writer!Spec

-----------------------------------------------------------------------------
(* The index of the contract store *)

\* A lock is not the absence of one.
LocksAreLocks == NoLock \notin [by : Registrars, written : BOOLEAN, old : BOOLEAN]

\* A path is of one vault, and the path a vault was moved from is no longer there.
PathsAreOfOneVault ==
  /\ \A p, q \in Registrars : Vault[p].path = Vault[q].path => Vault[p] = Vault[q]
  /\ "moved" \notin Standing

\* An entry of a path that exists is of a vault.
Known(es) == \A e \in es : e.path \in Standing => \E p \in Registrars : e = Vault[p]

IndexTypes ==
  /\ DOMAIN ciProc = Registrars
  /\ \A p \in Registrars : DOMAIN ciProc[p] = {"pc", "read", "seen"} /\ Known(ciProc[p].read)
  /\ ciLock # NoLock => ciLock \in [by : Registrars, written : BOOLEAN, old : BOOLEAN]
  /\ ciTaken \in BOOLEAN
  /\ Known(ciEntries)

\* Who is at work is the maker of the lock that is there, and writes with what the index
\* still holds.
Undisturbed ==
  \A p \in Registrars : Index!AtWork(p) =>
    /\ ciLock # NoLock /\ ciLock.by = p
    /\ ciProc[p].pc = "write" => ciProc[p].read = ciEntries

IndexInv == IndexTypes /\ (~ciTaken => Undisturbed)

LEMMA IndexInit ==
  ASSUME PathsAreOfOneVault
  PROVE  Index!Init => IndexInv
<1> SUFFICES ASSUME Index!Init PROVE IndexInv
  OBVIOUS
<1>1. \A e \in ciEntries : e.path = "moved"
  BY DEF Index!Init
<1>2. Known(ciEntries)
  BY <1>1 DEF Known, PathsAreOfOneVault
<1>3. \A p \in Registrars : ciProc[p] = [pc |-> "idle", read |-> {}, seen |-> Unread]
  BY DEF Index!Init
<1> QED BY <1>2, <1>3 DEF Index!Init, IndexInv, IndexTypes, Known, Undisturbed, Index!AtWork

\* A process that goes on to a step at which it does not work disturbs nobody, and nor does
\* one that removes a lock: if its maker was at work, that is what taken tells.
LEMMA IndexStep ==
  ASSUME LocksAreLocks, IndexInv, [Index!Next]_(Index!vars)
  PROVE  IndexInv'
<1> USE DEF IndexInv, IndexTypes, Undisturbed, Known, Index!AtWork
<1>1. CASE UNCHANGED Index!vars
  BY <1>1 DEF Index!vars
<1>2. CASE Index!Age
  <2>1. ciLock' \in [by : Registrars, written : BOOLEAN, old : BOOLEAN] /\ ciLock'.by = ciLock.by
    BY <1>2 DEF Index!Age
  <2> QED BY <1>2, <2>1 DEF Index!Age, LocksAreLocks
<1>3. ASSUME NEW p \in Registrars, Index!Begin(p) PROVE IndexInv'
  BY <1>3 DEF Index!Begin, Index!At, Index!Goto
<1>4. ASSUME NEW p \in Registrars, Index!CreateLock(p) PROVE IndexInv'
  <2>1. CASE ciLock = NoLock
    <3>1. /\ ciLock' = [by |-> p, written |-> FALSE, old |-> FALSE]
          /\ ciEntries' = ciEntries /\ ciTaken' = ciTaken
          /\ ciProc' = [ciProc EXCEPT ![p] = [pc |-> "owner", read |-> {}, seen |-> Unread]]
      BY <1>4, <2>1 DEF Index!CreateLock, Index!Goto
    <3>2. ciLock' \in [by : Registrars, written : BOOLEAN, old : BOOLEAN] /\ ciLock'.by = p
      BY <3>1
    <3> QED BY <2>1, <3>1, <3>2 DEF LocksAreLocks
  <2>2. CASE ciLock # NoLock
    BY <1>4, <2>2 DEF Index!CreateLock, Index!Goto
  <2> QED BY <2>1, <2>2
<1>5. ASSUME NEW p \in Registrars, Index!WriteOwner(p) PROVE IndexInv'
  <2>1. ciLock' = ciLock \/ (ciLock # NoLock /\ ciLock' = [ciLock EXCEPT !.written = TRUE])
    BY <1>5 DEF Index!WriteOwner
  <2>2. ciLock # NoLock =>
          /\ ciLock' \in [by : Registrars, written : BOOLEAN, old : BOOLEAN]
          /\ ciLock'.by = ciLock.by
    BY <2>1
  <2>3. ciLock' # NoLock <=> ciLock # NoLock
    BY <2>1, <2>2 DEF LocksAreLocks
  <2> QED BY <1>5, <2>2, <2>3 DEF Index!WriteOwner, Index!At, Index!Goto
<1>6. ASSUME NEW p \in Registrars, Index!ReadOwner(p) PROVE IndexInv'
  BY <1>6 DEF Index!ReadOwner, Index!At
<1>7. ASSUME NEW p \in Registrars, Index!ProbeOwner(p) PROVE IndexInv'
  BY <1>7 DEF Index!ProbeOwner, Index!At, Index!Goto
<1>8. ASSUME NEW p \in Registrars, Index!Reclaim(p) PROVE IndexInv'
  <2>1. PICK label \in {"create", "idle"} :
          ciProc' = [ciProc EXCEPT ![p] = [pc |-> label, read |-> {}, seen |-> Unread]]
    BY <1>8 DEF Index!Reclaim, Index!Goto
  <2> QED BY <1>8, <2>1 DEF Index!Reclaim, Index!RemoveLock, Index!At
<1>9. ASSUME NEW p \in Registrars, Index!ReleaseLock(p) PROVE IndexInv'
  BY <1>9 DEF Index!ReleaseLock, Index!RemoveLock, Index!At, Index!Goto
<1>10. ASSUME NEW p \in Registrars, Index!Leave(p) PROVE IndexInv'
  BY <1>10 DEF Index!Leave, Index!Goto
<1>11. ASSUME NEW p \in Registrars, Index!ReadIndex(p) PROVE IndexInv'
  BY <1>11 DEF Index!ReadIndex, Index!At
<1>12. ASSUME NEW p \in Registrars, Index!WriteIndex(p) PROVE IndexInv'
  BY <1>12 DEF Index!WriteIndex, Index!At, Index!Goto, Index!Updated
<1>13. ASSUME NEW p \in Registrars, Index!Fail(p) \/ Index!WriteOwnerFails(p) \/ Index!Crash(p)
       PROVE  IndexInv'
  BY <1>13 DEF Index!Fail, Index!WriteOwnerFails, Index!Crash, Index!Goto
<1> QED BY <1>1, <1>2, <1>3, <1>4, <1>5, <1>6, <1>7, <1>8, <1>9, <1>10, <1>11, <1>12, <1>13
        DEF Index!Next

\* What a step does to the entries while no lock has been taken from a process at work.
Registered == {e \in ciEntries : e.path \in Standing}
KeepsEntries == Registered \subseteq ciEntries'

LEMMA WorkKeepsEntries ==
  ASSUME PathsAreOfOneVault, IndexInv, ~ciTaken, [Index!Next]_(Index!vars)
  PROVE  KeepsEntries
<1> SUFFICES ASSUME NEW e \in Registered PROVE e \in ciEntries'
  BY DEF KeepsEntries
<1>1. ASSUME NEW p \in Registrars, Index!WriteIndex(p) PROVE e \in ciEntries'
  <2>1. ciProc[p].read = ciEntries
    BY <1>1 DEF IndexInv, Undisturbed, Index!AtWork, Index!WriteIndex, Index!At
  <2>2. e.path = Vault[p].path => e = Vault[p]
    BY DEF IndexInv, IndexTypes, Known, Registered, PathsAreOfOneVault
  <2> QED BY <1>1, <2>1, <2>2 DEF Index!WriteIndex, Index!Updated, Registered
<1>2. CASE UNCHANGED ciEntries
  BY <1>2 DEF Registered
<1> QED BY <1>1, <1>2 DEF Index!vars, Index!Next, Index!Age, Index!Begin, Index!CreateLock,
      Index!WriteOwner, Index!ReadOwner, Index!ProbeOwner, Index!Reclaim, Index!ReleaseLock,
      Index!RemoveLock, Index!Leave, Index!ReadIndex, Index!Fail, Index!WriteOwnerFails, Index!Crash

\* The entry of a vault that is where it was stays, whoever registers another and whatever
\* fails or ends where, as long as no process has removed the lock of another that was at
\* work (store.ts:876-895).
THEOREM RegisteredVaultsStay ==
  ASSUME LocksAreLocks, PathsAreOfOneVault
  PROVE  Index!Spec => EntriesStay
<1>1. IndexInv /\ [Index!Next]_(Index!vars) => [~ciTaken => KeepsEntries]_(Index!vars)
  BY WorkKeepsEntries
<1>2. EntriesStay <=> [][~ciTaken => KeepsEntries]_(Index!vars)
  BY DEF EntriesStay, Index!EntriesStay, Index!KeepsStanding, KeepsEntries, Registered
<1> QED BY IndexInit, IndexStep, <1>1, <1>2, PTL DEF Index!Spec

\* Nothing fails, no lock grows old and no process ends.
NothingHappens == MaxIndexFaults = 0 /\ Leaving = {}

\* Then no lock is found stale: each that is there has a process that will release it.
NoneIsTaken ==
  /\ ~ciTaken /\ ciFaults = 0
  /\ ciLock # NoLock => ~ciLock.old
  /\ \A p \in Registrars :
       /\ ciProc[p].pc \notin {"reclaim", "left", "dead"}
       /\ ciProc[p].seen \in Registrars \cup {Unread}
       /\ ciProc[p].pc = "release" => ciLock # NoLock /\ ciLock.by = p

LEMMA NoneIsTakenStep ==
  ASSUME LocksAreLocks, NothingHappens, Unread \notin Registrars, Aged \notin Registrars \cup {Unread},
         IndexInv, NoneIsTaken, [Index!Next]_(Index!vars)
  PROVE  NoneIsTaken'
<1> USE DEF NoneIsTaken
<1>1. CASE UNCHANGED Index!vars
  BY <1>1 DEF Index!vars
<1>2. ~Index!Spend /\ \A p \in Registrars : ~Index!Leave(p)
  BY DEF Index!Spend, Index!Leave, NothingHappens
<1>3. ASSUME NEW p \in Registrars, Index!Begin(p) PROVE NoneIsTaken'
  BY <1>3 DEF Index!Begin, Index!Goto, IndexInv, IndexTypes
<1>4. ASSUME NEW p \in Registrars, Index!CreateLock(p) PROVE NoneIsTaken'
  BY <1>4 DEF Index!CreateLock, Index!Goto, IndexInv, IndexTypes, LocksAreLocks
<1>5. ASSUME NEW p \in Registrars, Index!WriteOwner(p) PROVE NoneIsTaken'
  <2>1. ciLock' = ciLock \/ (ciLock # NoLock /\ ciLock' = [ciLock EXCEPT !.written = TRUE])
    BY <1>5 DEF Index!WriteOwner
  <2>2. ciLock # NoLock =>
          /\ ciLock' \in [by : Registrars, written : BOOLEAN, old : BOOLEAN]
          /\ ciLock'.by = ciLock.by /\ ciLock'.old = ciLock.old
    BY <2>1 DEF IndexInv, IndexTypes
  <2>3. ciLock' # NoLock <=> ciLock # NoLock
    BY <2>1, <2>2 DEF LocksAreLocks
  <2> QED BY <1>5, <2>2, <2>3 DEF Index!WriteOwner, Index!Goto, IndexInv, IndexTypes
<1>6. ASSUME NEW p \in Registrars, Index!ReadOwner(p) PROVE NoneIsTaken'
  BY <1>6 DEF Index!ReadOwner, IndexInv, IndexTypes
<1>7. ASSUME NEW p \in Registrars, Index!ProbeOwner(p) PROVE NoneIsTaken'
  BY <1>7 DEF Index!ProbeOwner, Index!Stale, Index!Gone, Index!Goto, IndexInv, IndexTypes
<1>8. ASSUME NEW p \in Registrars, Index!Reclaim(p) PROVE NoneIsTaken'
  BY <1>8 DEF Index!Reclaim, Index!At
<1>9. ASSUME NEW p \in Registrars, Index!ReleaseLock(p) PROVE NoneIsTaken'
  BY <1>9 DEF Index!ReleaseLock, Index!RemoveLock, Index!At, Index!Goto, IndexInv, IndexTypes
<1>10. ASSUME NEW p \in Registrars, Index!ReadIndex(p) PROVE NoneIsTaken'
  BY <1>10 DEF Index!ReadIndex, IndexInv, IndexTypes
<1>11. ASSUME NEW p \in Registrars, Index!WriteIndex(p) PROVE NoneIsTaken'
  BY <1>11 DEF Index!WriteIndex, Index!At, Index!Goto, IndexInv, IndexTypes, Undisturbed, Index!AtWork
<1> QED BY <1>1, <1>2, <1>3, <1>4, <1>5, <1>6, <1>7, <1>8, <1>9, <1>10, <1>11
        DEF Index!Next, Index!Age, Index!Fail, Index!WriteOwnerFails, Index!Crash

\* The update is exclusive, "its read-modify-write runs under one root-wide lock"
\* (store.ts:876), where no process ends and nothing fails; TLC refutes it with one crash, and
\* with processes that end when they are done (README, "Where the words and the code part").
THEOREM UpdatesAreExclusiveWithoutEnd ==
  ASSUME LocksAreLocks, PathsAreOfOneVault, NothingHappens,
         Unread \notin Registrars, Aged \notin Registrars \cup {Unread}
  PROVE  Index!Spec => Index!UpdatesAreExclusive
<1>1. Index!Init => NoneIsTaken
  BY DEF Index!Init, NoneIsTaken
<1>2. IndexInv /\ NoneIsTaken /\ [Index!Next]_(Index!vars) => [KeepsEntries]_(Index!vars)
  BY WorkKeepsEntries DEF NoneIsTaken
<1>3. Index!UpdatesAreExclusive <=> [][KeepsEntries]_(Index!vars)
  BY DEF Index!UpdatesAreExclusive, Index!KeepsStanding, KeepsEntries, Registered
<1> QED BY IndexInit, IndexStep, <1>1, NoneIsTakenStep, <1>2, <1>3, PTL DEF Index!Spec

-----------------------------------------------------------------------------
(* The composition *)

\* What the protocols do beside each other each of them does alone, so what is proved of one
\* holds of the three.
THEOREM LocksAreTheirParts == LocksSpec => Spec /\ Writer!Spec /\ Index!Spec
<1>1. LocksInit => Init /\ Writer!Init /\ Index!Init
  BY DEF LocksInit
<1>2. [LocksNext]_lockVars => [Next]_vars
  BY DEF LocksNext, lockVars, vars
<1>3. [LocksNext]_lockVars => [Writer!Next]_(Writer!vars)
  BY DEF LocksNext, lockVars, wlVars, Writer!vars
<1>4. [LocksNext]_lockVars => [Index!Next]_(Index!vars)
  BY DEF LocksNext, lockVars, ciVars, Index!vars
<1> QED BY <1>1, <1>2, <1>3, <1>4, PTL DEF LocksSpec, Spec, Writer!Spec, Index!Spec
=============================================================================
