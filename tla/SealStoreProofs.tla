-------------------------- MODULE SealStoreProofs --------------------------
(***************************************************************************)
(* Theorems about SealStore, for any number of processes, contracts,       *)
(* sequences, operations and faults: the types, the seal lock, and the     *)
(* lineage, which is a chain and keeps its snapshots.                      *)
(***************************************************************************)
EXTENDS SealStore, SequenceTheorems, WellFoundedInduction, TLAPS

-----------------------------------------------------------------------------
(* What the operators of Lineage return *)

\* The digest a well-typed lineage ends at.
LEMMA TailDigestType ==
  ASSUME NEW events \in Seq(LineageEvents)
  PROVE  TailDigest(events) \in ContractDigests
<1>1. CASE events = <<>>
  BY <1>1 DEF TailDigest, ContractDigests
<1>2. CASE events # <<>>
  <2>1. events[Len(events)] \in LineageEvents
    BY <1>2, EmptySeq, ElementOfSeq, LenProperties
  <2> QED BY <1>2, <2>1 DEF TailDigest, LineageEvents
<1> QED BY <1>1, <1>2

\* Every lineage is in one of the four cases (classifyLineageTail).
LEMMA ClassifyType ==
  ASSUME NEW events, NEW parent, NEW previous, NEW kept
  PROVE  ClassifyLineageTail(events, parent, previous, kept) \in Outcomes
  BY DEF ClassifyLineageTail, Outcomes

\* A plan is a sequence of anchors.
LEMMA AnchorForType ==
  ASSUME NEW outcome \in Outcomes, NEW tail \in ContractDigests, NEW parent \in ContractDigests
  PROVE  AnchorFor(outcome, tail, parent) \in Seq(LineageEvents)
<1>1. \A x \in LineageEvents : <<x>> \in Seq(LineageEvents)
  OBVIOUS
<1>2. Recovered("seq-restart", NoDigest, NoDigest, tail) \in LineageEvents
  BY DEF Recovered, LineageEvents, Reasons, ContractDigests
<1>3. Recovered("unrecorded-seal", tail, parent, NoDigest) \in LineageEvents
  BY DEF Recovered, LineageEvents, Reasons, ContractDigests
<1>4. Recovered("gap-anchor", NoDigest, parent, tail) \in LineageEvents
  BY DEF Recovered, LineageEvents, Reasons, ContractDigests
<1> QED BY <1>1, <1>2, <1>3, <1>4, EmptySeq DEF AnchorFor

-----------------------------------------------------------------------------
(* What the operators of SealStore return *)

\* The highest of a set of sequences is one of them and none is higher.
LEMMA HighestIsMax ==
  ASSUME NEW n \in Nat, NEW S \in SUBSET (-1..n), S # {}
  PROVE  /\ Highest(S) \in S
         /\ \A y \in S : y <= Highest(S)
<1> DEFINE T == {n - s : s \in S}
           R == OpToRel(<, Nat)
<1>1. T \subseteq Nat /\ T # {}
  <2>1. PICK s \in S : TRUE
    OBVIOUS
  <2>2. n - s \in T
    BY <2>1
  <2> QED BY <2>2
<1>2. PICK t \in T : \A y \in T : <<y, t>> \notin R
  <2> HIDE DEF T
  <2> QED BY <1>1, NatLessThanWellFounded, WFMin
<1>3. \A y \in T : t <= y
  <2> HIDE DEF T, R
  <2> SUFFICES ASSUME NEW y \in T PROVE t <= y
    OBVIOUS
  <2>1. y \in Nat /\ t \in Nat
    BY <1>1
  <2>2. <<y, t>> \in Nat \X Nat /\ <<y, t>>[1] = y /\ <<y, t>>[2] = t
    BY <2>1
  <2>3. R = {ss \in Nat \X Nat : ss[1] < ss[2]}
    BY DEF R, OpToRel
  <2>4. ~(y < t)
    BY <1>2, <2>2, <2>3
  <2> QED BY <2>1, <2>4
<1>4. PICK s \in S : t = n - s
  OBVIOUS
<1>5. \A y \in S : y <= s
  <2> SUFFICES ASSUME NEW y \in S PROVE y <= s
    OBVIOUS
  <2>1. n - y \in T
    OBVIOUS
  <2> QED BY <1>3, <1>4, <2>1
<1> QED BY <1>5 DEF Highest, Max

\* Every generation lies within the bound on sequences.
LEMMA GenerationsAreSeqs == Generations \subseteq 0..MaxSeq /\ MaxSeq \in Nat /\ MaxSeq >= 2
  BY StoreAssumption DEF Generations, Seqs

\* The generation below the linked one, when there is one, is a sequence.
LEMMA BelowIsASeq ==
  ASSUME TypeOK, Below(link) # {}
  PROVE  Highest(Below(link)) \in Generations
<1>1. Below(link) \in SUBSET (-1..MaxSeq)
  <2>1. Below(link) \subseteq Generations
    BY DEF Below
  <2>2. 0..MaxSeq \subseteq -1..MaxSeq
    BY GenerationsAreSeqs
  <2> QED BY <2>1, <2>2, GenerationsAreSeqs
<1>2. Highest(Below(link)) \in Below(link)
  BY <1>1, GenerationsAreSeqs, HighestIsMax
<1> QED BY <1>2 DEF Below

\* A new generation's sequence is positive: the one below it exists as a number.
LEMMA NextSeqIsPositive ==
  ASSUME NEW linked \in {NoLink, DirectoryLink} \cup Seqs
  PROVE  NextSeq(linked) >= 1 /\ NextSeq(linked) \in Int
<1> DEFINE S == {0} \cup Generations \cup {linked}
<1>1. S \in SUBSET (-1..MaxSeq) /\ S # {} /\ 0 \in S
  BY GenerationsAreSeqs DEF NoLink, DirectoryLink, Seqs
<1>2. Highest(S) \in S /\ 0 <= Highest(S)
  <2> HIDE DEF S
  <2> QED BY <1>1, GenerationsAreSeqs, HighestIsMax
<1>3. Highest(S) \in -1..MaxSeq
  BY <1>1, <1>2
<1> QED BY <1>2, <1>3, GenerationsAreSeqs DEF NextSeq

\* What is linked, and the digests of what is linked and of N-1.
LEMMA ReadsType ==
  ASSUME TypeOK
  PROVE  /\ Linked \in {NoLink, DirectoryLink} \cup Seqs
         /\ ParentDigest \in ContractDigests
         /\ PreviousDigest \in ContractDigests
         /\ Sources \in Seq(Digests)
<1>1. Linked \in {NoLink, DirectoryLink} \cup Seqs
  BY DEF TypeOK, Linked
<1>2. ParentDigest \in ContractDigests
  BY DEF ParentDigest, ContractDigests
<1>3. PreviousDigest \in ContractDigests
  BY DEF PreviousDigest, ContractDigests
<1>4. Sources \in Seq(Digests)
  <2>1. (IF PreviousDigest # NoDigest THEN <<PreviousDigest>> ELSE <<>>) \in Seq(Digests)
    BY <1>3, EmptySeq DEF ContractDigests
  <2>2. (IF ParentDigest # NoDigest THEN <<ParentDigest>> ELSE <<>>) \in Seq(Digests)
    BY <1>2, EmptySeq DEF ContractDigests
  <2> QED BY <2>1, <2>2, ConcatProperties DEF Sources
<1> QED BY <1>1, <1>2, <1>3, <1>4

\* Every lineage is in one of the four cases.
LEMMA ClassifiedType == Classified \in Outcomes
  BY ClassifyType DEF Classified

LEMMA PlannedType ==
  ASSUME TypeOK, NEW req
  PROVE  Planned(req) \in Seq(LineageEvents)
<1>1. TailDigest(lineage.events) \in ContractDigests
  BY TailDigestType DEF TypeOK
<1> QED BY <1>1, ReadsType, ClassifiedType, AnchorForType, EmptySeq DEF Planned

-----------------------------------------------------------------------------
(* Type correctness *)

\* A seal has a contract to write, only a seal makes a generation, and one that
\* has made its directory knows a positive sequence.
Fits(r) ==
  /\ r.op = "seal" => r.new \in Digests
  /\ r.pc \in {"collect"} \cup BeforeSwap => r.op = "seal"
  /\ r.pc \in BeforeSwap \cup {"rollback"} => r.seq >= 1

AllFit == \A p \in Procs : Fits(proc[p])

TypeInv == TypeOK /\ AllFit

LEMMA IdleType == Idle \in ProcStates
  BY StoreAssumption, EmptySeq
  DEF Idle, ProcStates, Labels, ContractDigests, Checks, Policies, NoLink, Seqs

\* Two states of a process that differ in its label, or in what it read of the lineage file.
SameRequest(r, s) ==
  /\ r.op = s.op /\ r.new = s.new /\ r.check = s.check /\ r.base = s.base
  /\ r.expect = s.expect /\ r.policy = s.policy /\ r.reindex = s.reindex
  /\ r.linked = s.linked /\ r.parent = s.parent /\ r.tail = s.tail /\ r.todo = s.todo
  /\ r.start = s.start /\ r.drafts = s.drafts /\ r.seq = s.seq

\* What the two ends of a step do to the process that takes it.
LEMMA GotoEffect ==
  ASSUME proc \in [Procs -> ProcStates], NEW p \in Procs, NEW label \in Labels, Goto(p, label)
  PROVE  /\ proc' \in [Procs -> ProcStates]
         /\ proc'[p].pc = label
         /\ SameRequest(proc'[p], proc[p])
         /\ \A q \in Procs \ {p} : proc'[q] = proc[q]
<1> DEFINE r == [proc[p] EXCEPT !.pc = label]
<1>1. r \in ProcStates /\ r.pc = label /\ SameRequest(r, proc[p])
  BY DEF ProcStates, SameRequest
<1>2. proc' = [proc EXCEPT ![p] = r]
  BY DEF Goto
<1> HIDE DEF r
<1> QED BY <1>1, <1>2

LEMMA FinishEffect ==
  ASSUME proc \in [Procs -> ProcStates], NEW p \in Procs, Finish(p)
  PROVE  /\ proc' \in [Procs -> ProcStates]
         /\ proc'[p] = Idle
         /\ \A q \in Procs \ {p} : proc'[q] = proc[q]
  BY IdleType DEF Finish

\* Going to a label at which the sequence is not needed, or where it was already.
LEMMA GotoTyped ==
  ASSUME TypeInv, NEW p \in Procs, NEW label \in Labels, Goto(p, label),
         label \in BeforeSwap \cup {"rollback"} => proc[p].pc \in BeforeSwap,
         label = "collect" => proc[p].op = "seal"
  PROVE  proc' \in [Procs -> ProcStates] /\ AllFit'
<1>1. proc \in [Procs -> ProcStates]
  BY DEF TypeInv, TypeOK
<1>2. /\ proc'[p].pc = label /\ proc'[p].seq = proc[p].seq
      /\ proc'[p].op = proc[p].op /\ proc'[p].new = proc[p].new
  BY <1>1, GotoEffect DEF SameRequest
<1>3. Fits(proc[p])
  BY DEF TypeInv, AllFit
<1>4. Fits(proc'[p])
  BY <1>2, <1>3 DEF Fits, BeforeSwap
<1> QED BY <1>1, <1>4, GotoEffect DEF TypeInv, AllFit

LEMMA FinishTyped ==
  ASSUME TypeInv, NEW p \in Procs, Finish(p)
  PROVE  proc' \in [Procs -> ProcStates] /\ AllFit'
<1>1. proc \in [Procs -> ProcStates]
  BY DEF TypeInv, TypeOK
<1>2. Fits(Idle)
  BY DEF Idle, Fits, BeforeSwap
<1> QED BY <1>1, <1>2, FinishEffect DEF TypeInv, AllFit

\* The part of TypeOK that is not about the processes.
StoreTyped ==
  /\ link \in Seqs
  /\ legacy \in Contents
  /\ gens \in [Seqs -> Contents]
  /\ linkTmp \in BOOLEAN /\ indexed \in BOOLEAN
  /\ snapshots \in [Digests -> {Absent, "ok", "corrupt"}]
  /\ lineage \in [events : Seq(LineageEvents), cut : BOOLEAN, bad : BOOLEAN]
  /\ lock \in [held : BOOLEAN, owner : Procs \cup {Nobody}, written : BOOLEAN, old : BOOLEAN]
  /\ seen \in [Procs -> Procs \cup {Nobody, Unread}]
  /\ faults \in Nat /\ ops \in Nat

LEMMA TypeParts == TypeOK <=> StoreTyped /\ proc \in [Procs -> ProcStates]
  BY DEF TypeOK, StoreTyped

LEMMA LockTypes ==
  ASSUME StoreTyped, NEW p \in Procs
  PROVE  LET Locks == [held : BOOLEAN, owner : Procs \cup {Nobody},
                       written : BOOLEAN, old : BOOLEAN]
         IN  /\ NoLock \in Locks /\ NewLock(p) \in Locks /\ Orphaned(p) \in Locks
             /\ [lock EXCEPT !.written = TRUE] \in Locks
             /\ [lock EXCEPT !.old = TRUE] \in Locks
  BY DEF StoreTyped, NoLock, NewLock, Orphaned

USE DEF Alone

\* What a process may have read of a lock.
LEMMA SeenTypes ==
  ASSUME StoreTyped, NEW p \in Procs
  PROVE  /\ [seen EXCEPT ![p] = Nobody] \in [Procs -> Procs \cup {Nobody, Unread}]
         /\ ReadOwner(p) => seen' \in [Procs -> Procs \cup {Nobody, Unread}]
         /\ Gone(p) => seen' \in [Procs -> Procs \cup {Nobody, Unread}]
<1>1. seen \in [Procs -> Procs \cup {Nobody, Unread}] /\ lock.owner \in Procs \cup {Nobody}
  BY DEF StoreTyped
<1>2. ReadOwner(p) => seen' \in [Procs -> Procs \cup {Nobody, Unread}]
  BY <1>1 DEF ReadOwner
<1>3. Gone(p) => seen' \in [Procs -> Procs \cup {Nobody, Unread}]
  BY <1>1 DEF Gone
<1> QED BY <1>1, <1>2, <1>3

LEMMA AcquireTyped ==
  ASSUME TypeInv, NEW p \in Procs,
         TryLock(p) \/ WriteOwner(p) \/ RetryLock(p) \/ ReadOwner(p) \/ ProbeOwner(p)
           \/ ConfirmReclaim(p) \/ RecreateLock(p) \/ Release(p)
  PROVE  TypeInv'
<1>0. StoreTyped /\ proc \in [Procs -> ProcStates]
  BY TypeParts DEF TypeInv
<1>1. StoreTyped'
  <2>1. CASE TryLock(p) \/ WriteOwner(p) \/ RetryLock(p) \/ ConfirmReclaim(p)
               \/ RecreateLock(p) \/ Release(p)
    <3>1. lock' \in [held : BOOLEAN, owner : Procs \cup {Nobody}, written : BOOLEAN,
                     old : BOOLEAN]
      <4>1. lock' \in {lock, NewLock(p), NoLock, [lock EXCEPT !.written = TRUE]}
        BY <2>1 DEF TryLock, WriteOwner, RetryLock, ConfirmReclaim, RecreateLock, Release
      <4> DEFINE Locks == [held : BOOLEAN, owner : Procs \cup {Nobody},
                           written : BOOLEAN, old : BOOLEAN]
      <4>2. /\ NoLock \in Locks /\ NewLock(p) \in Locks /\ lock \in Locks
            /\ [lock EXCEPT !.written = TRUE] \in Locks
        BY <1>0, LockTypes DEF StoreTyped
      <4> HIDE DEF Locks
      <4>3. lock' \in Locks
        BY <4>1, <4>2
      <4> QED BY <4>3 DEF Locks
    <3>2. storeVars' = storeVars /\ UNCHANGED <<seen, faults, ops>>
      BY <2>1 DEF TryLock, WriteOwner, RetryLock, ConfirmReclaim, RecreateLock, Release
    <3> QED BY <1>0, <3>1, <3>2 DEF StoreTyped, storeVars
  <2>2. CASE ReadOwner(p) \/ ProbeOwner(p)
    <3>1. seen' \in [Procs -> Procs \cup {Nobody, Unread}]
      BY <1>0, <2>2, SeenTypes DEF ProbeOwner
    <3> QED BY <1>0, <2>2, <3>1 DEF StoreTyped, ReadOwner, ProbeOwner, storeVars
  <2> QED BY <2>1, <2>2
<1>2. \/ \E label \in {"retry", "inspect", "probe", "owner", "observe", "confirm", "recreate"} :
           Goto(p, label)
      \/ Finish(p)
  BY DEF TryLock, WriteOwner, RetryLock, ReadOwner, ProbeOwner, ConfirmReclaim, RecreateLock,
         Release
<1>3. {"retry", "inspect", "probe", "owner", "observe", "confirm", "recreate"} \subseteq Labels
  BY DEF Labels, UnderLock
<1>4. proc' \in [Procs -> ProcStates] /\ AllFit'
  BY <1>2, <1>3, GotoTyped, FinishTyped DEF BeforeSwap
<1> QED BY <1>1, <1>4, TypeParts DEF TypeInv, TypeOK, StoreTyped

LEMMA FaultTyped ==
  ASSUME TypeInv, NEW p \in Procs,
         Fail(p) \/ WriteOwnerFails(p) \/ Crash(p) \/ Exit(p)
  PROVE  TypeInv'
<1>0. StoreTyped /\ proc \in [Procs -> ProcStates]
  BY TypeParts DEF TypeInv
<1>1. CASE Fail(p)
  <2>1. StoreTyped'
    BY <1>0, <1>1 DEF StoreTyped, Fail, Spend, storeVars
  <2>2. {"rollback", "release"} \subseteq Labels
    BY DEF Labels, UnderLock
  <2>3. proc' \in [Procs -> ProcStates] /\ AllFit'
    BY <1>1, <2>2, GotoTyped DEF Fail, BeforeSwap
  <2> QED BY <2>1, <2>3, TypeParts DEF TypeInv, TypeOK, StoreTyped
<1>2. CASE WriteOwnerFails(p) \/ Crash(p) \/ Exit(p)
  <2>1. faults' \in Nat /\ ops' = ops /\ storeVars' = storeVars
    BY <1>0, <1>2 DEF StoreTyped, WriteOwnerFails, Crash, Exit, Spend
  <2>2. /\ lock' \in [held : BOOLEAN, owner : Procs \cup {Nobody}, written : BOOLEAN,
                      old : BOOLEAN]
        /\ seen' \in [Procs -> Procs \cup {Nobody, Unread}]
    BY <1>0, <1>2, LockTypes, SeenTypes DEF StoreTyped, WriteOwnerFails, Crash, Exit, Gone
  <2>3. StoreTyped'
    BY <1>0, <2>1, <2>2 DEF StoreTyped, storeVars
  <2>4. proc' \in [Procs -> ProcStates] /\ AllFit'
    BY <1>2, FinishTyped DEF WriteOwnerFails, Crash, Exit, Gone
  <2> QED BY <2>3, <2>4, TypeParts DEF TypeInv, TypeOK, StoreTyped
<1> QED BY <1>1, <1>2

\* Setting the fields of a request, and of what an operation observed, keeps it one.
LEMMA RequestType ==
  ASSUME NEW op \in {"seal", "recover", "bootstrap"}, NEW new \in ContractDigests,
         NEW check \in Checks, NEW base \in {NoLink, DirectoryLink} \cup Seqs,
         NEW expect \in ContractDigests, NEW policy \in Policies, NEW reindex \in BOOLEAN
  PROVE  /\ Request(op, new, check, base, expect, policy, reindex) \in ProcStates
         /\ Request(op, new, check, base, expect, policy, reindex).pc = "lock"
         /\ Request(op, new, check, base, expect, policy, reindex).op = op
         /\ Request(op, new, check, base, expect, policy, reindex).new = new
  BY IdleType DEF Request, Idle, ProcStates, Labels

LEMMA RequestsType ==
  ASSUME TypeInv, NEW req \in Requests
  PROVE  req \in ProcStates /\ req.pc = "lock" /\ Fits(req)
<1>1. Linked \in {NoLink, DirectoryLink} \cup Seqs
  BY ReadsType DEF TypeInv
<1>2. TailDigest(lineage.events) \in ContractDigests
  BY TailDigestType DEF TypeInv, TypeOK
<1>3. /\ Digests \subseteq ContractDigests /\ NoDigest \in ContractDigests
      /\ "base" \in Checks /\ "expect" \in Checks /\ "none" \in Checks
      /\ "reanchor" \in Policies /\ NoLink \in {NoLink, DirectoryLink} \cup Seqs
  BY DEF ContractDigests, Checks, Policies
<1>4. PICK op \in {"seal", "recover", "bootstrap"}, new \in ContractDigests, check \in Checks,
           base \in {NoLink, DirectoryLink} \cup Seqs, expect \in ContractDigests,
           policy \in Policies, reindex \in BOOLEAN :
        /\ req = Request(op, new, check, base, expect, policy, reindex)
        /\ op = "seal" => new \in Digests
  <2>1. CASE \E d \in Digests :
               req = Request("seal", d, "base", Linked, NoDigest, "reanchor", FALSE)
    BY <1>1, <1>3, <2>1
  <2>2. CASE \E d \in Digests, policy \in Policies :
               req = Request("seal", d, "expect", NoLink, TailDigest(lineage.events),
                             policy, FALSE)
    BY <1>2, <1>3, <2>2
  <2>3. CASE \E policy \in Policies :
               req = Request("recover", NoDigest, "none", NoLink, NoDigest, policy, ~indexed)
    BY <1>3, <2>3
  <2>4. CASE req = Request("bootstrap", NoDigest, "none", NoLink, NoDigest, "reanchor", FALSE)
    BY <1>3, <2>4
  <2> DEFINE Interviews ==
               {Request("seal", d, "base", Linked, NoDigest, "reanchor", FALSE) : d \in Digests}
             Gates(policy) ==
               {Request("seal", d, "expect", NoLink, TailDigest(lineage.events), policy, FALSE) :
                  d \in Digests}
             Repairs ==
               {Request("recover", NoDigest, "none", NoLink, NoDigest, policy, ~indexed) :
                  policy \in {x \in Policies : Recoverable}}
  <2>5. CASE req \in Interviews
    BY <2>1, <2>5
  <2>6. CASE req \in UNION {Gates(policy) : policy \in Policies}
    <3>1. PICK policy \in Policies : req \in Gates(policy)
      BY <2>6
    <3> QED BY <2>2, <3>1
  <2>7. CASE req \in Repairs
    BY <2>3, <2>7
  <2> DEFINE Bootstraps ==
               {Request("bootstrap", NoDigest, "none", NoLink, NoDigest, "reanchor", FALSE)}
             Seals == UNION {Gates(policy) : policy \in Policies}
  <2>8. Requests = Interviews \cup Seals \cup Repairs \cup Bootstraps
    BY Zenon DEF Requests
  <2>9. \/ req \in Interviews \/ req \in Seals \/ req \in Repairs
        \/ req = Request("bootstrap", NoDigest, "none", NoLink, NoDigest, "reanchor", FALSE)
    <3>1. Bootstraps =
            {Request("bootstrap", NoDigest, "none", NoLink, NoDigest, "reanchor", FALSE)}
      OBVIOUS
    <3> HIDE DEF Interviews, Seals, Repairs, Bootstraps
    <3> QED BY <2>8, <3>1
  <2> HIDE DEF Interviews, Repairs
  <2> QED BY Zenon, <2>4, <2>5, <2>6, <2>7, <2>9
<1> QED BY <1>4, RequestType DEF Fits, BeforeSwap

LEMMA BeginTyped ==
  ASSUME TypeInv, NEW p \in Procs, Begin(p)
  PROVE  TypeInv'
<1>0. StoreTyped /\ proc \in [Procs -> ProcStates] /\ AllFit
  BY TypeParts DEF TypeInv
<1>1. StoreTyped'
  BY <1>0 DEF StoreTyped, Begin, storeVars
<1>2. proc' \in [Procs -> ProcStates] /\ AllFit'
  BY <1>0, RequestsType DEF Begin, AllFit, Fits, BeforeSwap
<1> QED BY <1>1, <1>2, TypeParts DEF TypeInv, TypeOK, StoreTyped

LEMMA ObservedType ==
  ASSUME TypeInv, NEW req \in ProcStates
  PROVE  /\ Observed(req) \in ProcStates /\ Observed(req).pc = "snapshot"
         /\ Observed(req).op = req.op /\ Observed(req).new = req.new
<1>1. /\ TailDigest(lineage.events) \in ContractDigests
      /\ Planned(req) \in Seq(LineageEvents)
      /\ Linked \in {NoLink, DirectoryLink} \cup Seqs
      /\ ParentDigest \in ContractDigests
      /\ Sources \in Seq(Digests)
  BY TailDigestType, PlannedType, ReadsType DEF TypeInv, TypeOK
<1> DEFINE asked == [req EXCEPT !.pc = "snapshot", !.linked = Linked]
           read == [asked EXCEPT !.parent = ParentDigest, !.tail = TailDigest(lineage.events)]
           begun == [read EXCEPT !.todo = Sources,
                                 !.start = lineage.events = <<>> /\ ParentDigest # NoDigest]
           ready == [begun EXCEPT !.drafts = Planned(req)]
<1>2. asked \in ProcStates /\ asked.pc = "snapshot"
  BY <1>1 DEF ProcStates, Labels, UnderLock
<1>3. read \in ProcStates /\ read.pc = "snapshot"
  <2> HIDE DEF asked
  <2> QED BY <1>1, <1>2 DEF ProcStates
<1>4. begun \in ProcStates /\ begun.pc = "snapshot"
  <2> HIDE DEF read
  <2> QED BY <1>1, <1>3 DEF ProcStates
<1>5. ready \in ProcStates /\ ready.pc = "snapshot"
  <2> HIDE DEF begun
  <2> QED BY <1>1, <1>4 DEF ProcStates
<1>6. Observed(req) = ready /\ ready.op = req.op /\ ready.new = req.new
  BY DEF Observed, ProcStates
<1> QED BY <1>5, <1>6

LEMMA ObserveTyped ==
  ASSUME TypeInv, NEW p \in Procs, Observe(p)
  PROVE  TypeInv'
<1>0. StoreTyped /\ proc \in [Procs -> ProcStates] /\ AllFit
  BY TypeParts DEF TypeInv
<1>1. StoreTyped'
  BY <1>0 DEF StoreTyped, Observe, storeVars
<1>2. CASE Goto(p, "release")
  <2>1. proc' \in [Procs -> ProcStates] /\ AllFit'
    BY <1>2, GotoTyped DEF BeforeSwap, Labels, UnderLock
  <2> QED BY <1>1, <2>1, TypeParts DEF TypeInv, TypeOK, StoreTyped
<1>3. CASE proc' = [proc EXCEPT ![p] = Observed(proc[p])]
  <2>1. proc' \in [Procs -> ProcStates] /\ AllFit'
    BY <1>0, <1>3, ObservedType DEF AllFit, Fits, BeforeSwap
  <2> QED BY <1>1, <2>1, TypeParts DEF TypeInv, TypeOK, StoreTyped
<1> QED BY <1>2, <1>3 DEF Observe

LEMMA SnapshotSourceTyped ==
  ASSUME TypeInv, NEW p \in Procs, SnapshotSource(p)
  PROVE  TypeInv'
<1>0. StoreTyped /\ proc \in [Procs -> ProcStates] /\ AllFit
  BY TypeParts DEF TypeInv
<1> DEFINE d == Head(proc[p].todo)
<1>1. /\ proc[p].todo \in Seq(Digests) /\ proc[p].todo # <<>>
      /\ d \in Digests /\ Tail(proc[p].todo) \in Seq(Digests)
      /\ proc[p].drafts \in Seq(LineageEvents)
      /\ proc[p] \in ProcStates
  BY <1>0, HeadTailProperties DEF SnapshotSource, ProcStates
<1>2. StoreTyped'
  BY <1>0, <1>1 DEF StoreTyped, SnapshotSource
<1>3. BootstrapAnchor(proc[p].drafts, d) \in LineageEvents
  BY <1>1, TailDigestType
  DEF BootstrapAnchor, Recovered, LineageEvents, Reasons, ContractDigests
<1>4. Append(proc[p].drafts, BootstrapAnchor(proc[p].drafts, d)) \in Seq(LineageEvents)
  BY <1>1, <1>3, AppendProperties
<1>5. PICK r \in ProcStates : /\ r.pc \in {"snapshot", "release"}
                              /\ r.op = proc[p].op /\ r.new = proc[p].new
                              /\ proc' = [proc EXCEPT ![p] = r]
  <2> DEFINE skipped == [proc[p] EXCEPT !.todo = Tail(@),
                              !.pc = IF d = proc[p].parent THEN "release" ELSE @]
             kept == [proc[p] EXCEPT !.todo = Tail(@),
                              !.drafts = IF proc[p].start
                                         THEN Append(@, BootstrapAnchor(@, d)) ELSE @]
  <2>1. proc[p].pc = "snapshot"
    BY DEF SnapshotSource
  <2>2. /\ skipped \in ProcStates /\ skipped.pc \in {"snapshot", "release"}
        /\ skipped.op = proc[p].op /\ skipped.new = proc[p].new
    BY <1>1, <2>1 DEF ProcStates, Labels, UnderLock
  <2>3. /\ kept \in ProcStates /\ kept.pc = "snapshot"
        /\ kept.op = proc[p].op /\ kept.new = proc[p].new
    BY <1>1, <1>4, <2>1 DEF ProcStates, Labels, UnderLock
  <2>4. CASE snapshots[d] = "corrupt"
    <3>1. proc' = [proc EXCEPT ![p] = skipped]
      BY <2>4, <1>0 DEF SnapshotSource
    <3> QED BY <2>2, <3>1
  <2>5. CASE snapshots[d] # "corrupt"
    <3>1. proc' = [proc EXCEPT ![p] = kept]
      BY <2>5, <1>0 DEF SnapshotSource
    <3> QED BY <2>3, <3>1
  <2> QED BY <2>4, <2>5
<1>6. proc' \in [Procs -> ProcStates] /\ AllFit'
  BY <1>0, <1>5 DEF AllFit, Fits, BeforeSwap
<1> QED BY <1>2, <1>6, TypeParts DEF TypeInv, TypeOK, StoreTyped
\* A read of the lineage changes the label and what is known of the file.
LEMMA TailReadType ==
  ASSUME StoreTyped, NEW req \in ProcStates, NEW tail, NEW label \in {"anchor", "append"}
  PROVE  /\ TailRead(req, tail, label) \in ProcStates
         /\ TailRead(req, tail, label).pc \in {label, "release"}
         /\ TailRead(req, tail, label).op = req.op /\ TailRead(req, tail, label).new = req.new
<1>1. Len(lineage.events) \in Nat /\ lineage.cut \in BOOLEAN
  BY LenProperties DEF StoreTyped
<1>2. {"anchor", "append", "release"} \subseteq Labels
  BY DEF Labels, UnderLock
<1>3. [req EXCEPT !.pc = "release"] \in ProcStates
  BY <1>2 DEF ProcStates
<1>4. [req EXCEPT !.pc = label, !.at = Len(lineage.events), !.torn = lineage.cut] \in ProcStates
  BY <1>1, <1>2 DEF ProcStates
<1> QED BY <1>3, <1>4 DEF TailRead, ProcStates

LEMMA ReadTailTyped ==
  ASSUME TypeInv, NEW p \in Procs, ReadTailForAnchors(p) \/ ReadTailForSeal(p)
  PROVE  TypeInv'
<1>0. StoreTyped /\ proc \in [Procs -> ProcStates] /\ AllFit
  BY TypeParts DEF TypeInv
<1>1. StoreTyped'
  BY <1>0 DEF StoreTyped, ReadTailForAnchors, ReadTailForSeal, storeVars
<1>2. CASE Goto(p, AfterAnchors(proc[p]))
  <2>1. \E label \in {"collect", "index", "release"} :
          Goto(p, label) /\ (label = "collect" => proc[p].op = "seal")
    BY <1>2 DEF AfterAnchors
  <2>2. proc' \in [Procs -> ProcStates] /\ AllFit'
    BY <2>1, GotoTyped DEF BeforeSwap, Labels, UnderLock
  <2> QED BY <1>1, <2>2, TypeParts DEF TypeInv, TypeOK, StoreTyped
<1>3. CASE \E tail \in {proc[p].tail, proc[p].parent}, label \in {"anchor", "append"} :
             proc' = [proc EXCEPT ![p] = TailRead(@, tail, label)]
  <2>1. proc' \in [Procs -> ProcStates] /\ AllFit'
    BY <1>0, <1>3, TailReadType DEF AllFit, Fits, BeforeSwap
  <2> QED BY <1>1, <2>1, TypeParts DEF TypeInv, TypeOK, StoreTyped
<1>4. \/ Goto(p, AfterAnchors(proc[p]))
      \/ proc' = [proc EXCEPT ![p] = TailRead(@, proc[p].tail, "anchor")]
      \/ proc' = [proc EXCEPT ![p] = TailRead(@, proc[p].parent, "append")]
  BY DEF ReadTailForAnchors, ReadTailForSeal
<1> QED BY <1>2, <1>3, <1>4

\* What an append leaves is a lineage.
LEMMA WrittenType ==
  ASSUME StoreTyped, NEW req \in ProcStates, NEW events \in Seq(LineageEvents),
         NEW cut \in BOOLEAN
  PROVE  Written(req, events, cut) \in [events : Seq(LineageEvents), cut : BOOLEAN, bad : BOOLEAN]
<1>1. /\ lineage \in [events : Seq(LineageEvents), cut : BOOLEAN, bad : BOOLEAN]
      /\ req.at \in Nat /\ req.torn \in BOOLEAN
  BY DEF StoreTyped, ProcStates
<1>2. Started(req) \in [events : Seq(LineageEvents), cut : BOOLEAN, bad : BOOLEAN]
  <2>1. CASE req.torn /\ req.at <= Len(lineage.events)
    <3>1. SubSeq(lineage.events, 1, req.at) \in Seq(LineageEvents)
      BY <1>1, <2>1, LenProperties, SubSeqProperties
    <3> QED BY <1>1, <2>1, <3>1 DEF Started
  <2>2. CASE ~(req.torn /\ req.at <= Len(lineage.events))
    BY <1>1, <2>2 DEF Started
  <2> QED BY <2>1, <2>2
<1>3. events # <<>> => Tail(events) \in Seq(LineageEvents)
  OBVIOUS
<1>4. /\ Started(req).events \o events \in Seq(LineageEvents)
      /\ events # <<>> => Started(req).events \o Tail(events) \in Seq(LineageEvents)
  BY <1>2, <1>3, ConcatProperties
<1> QED BY <1>2, <1>4 DEF Written

LEMMA AppendTyped ==
  ASSUME TypeInv, NEW p \in Procs, AppendAnchors(p) \/ AppendSealed(p)
  PROVE  TypeInv'
<1>0. StoreTyped /\ proc[p] \in ProcStates
  BY TypeParts DEF TypeInv
<1>1. /\ proc[p].drafts \in Seq(LineageEvents)
      /\ SealedEvent(proc[p].parent, proc[p].new) \in LineageEvents
  BY <1>0 DEF StoreTyped, ProcStates, SealedEvent, LineageEvents, Reasons, ContractDigests
<1>2. <<SealedEvent(proc[p].parent, proc[p].new)>> \in Seq(LineageEvents)
  BY <1>1
<1>3. StoreTyped'
  <2>1. lineage' \in [events : Seq(LineageEvents), cut : BOOLEAN, bad : BOOLEAN]
    BY <1>0, <1>1, <1>2, WrittenType DEF AppendAnchors, AppendSealed
  <2> QED BY <1>0, <2>1 DEF StoreTyped, AppendAnchors, AppendSealed
<1>4. \E label \in {"collect", "index", "release"} :
        Goto(p, label) /\ (label = "collect" => proc[p].op = "seal")
  BY DEF AppendAnchors, AppendSealed, AfterAnchors
<1>5. proc' \in [Procs -> ProcStates] /\ AllFit'
  BY <1>4, GotoTyped DEF BeforeSwap, Labels, UnderLock
<1> QED BY <1>3, <1>5, TypeParts DEF TypeInv, TypeOK, StoreTyped

LEMMA CollectTyped ==
  ASSUME TypeInv, NEW p \in Procs, CollectOrphan(p) \/ SweepGeneration(p)
  PROVE  TypeInv'
<1>0. StoreTyped /\ proc \in [Procs -> ProcStates]
  BY TypeParts DEF TypeInv
<1>1. gens' \in [Seqs -> Contents]
  BY <1>0 DEF StoreTyped, CollectOrphan, SweepGeneration, Erode, Contents
<1>2. StoreTyped'
  BY <1>0, <1>1 DEF StoreTyped, CollectOrphan, SweepGeneration
<1>3. CASE Goto(p, "release")
  <2>1. proc' \in [Procs -> ProcStates] /\ AllFit'
    BY <1>3, GotoTyped DEF BeforeSwap, Labels, UnderLock
  <2> QED BY <1>2, <2>1, TypeParts DEF TypeInv, TypeOK, StoreTyped
<1>4. CASE proc' = proc
  <2>1. AllFit'
    BY <1>4 DEF TypeInv, AllFit
  <2> QED BY <1>0, <1>2, <1>4, <2>1, TypeParts DEF TypeInv, TypeOK, StoreTyped
<1> QED BY <1>3, <1>4 DEF CollectOrphan, SweepGeneration

LEMMA MakeGenerationTyped ==
  ASSUME TypeInv, NEW p \in Procs, MakeGeneration(p)
  PROVE  TypeInv'
<1>0. StoreTyped /\ proc \in [Procs -> ProcStates] /\ AllFit
  BY TypeParts DEF TypeInv
<1> DEFINE s == NextSeq(proc[p].linked)
           r == [proc[p] EXCEPT !.pc = "fill", !.seq = s]
<1>1. s \in Seqs /\ s >= 1
  BY <1>0, NextSeqIsPositive DEF MakeGeneration, ProcStates
<1>2. StoreTyped'
  BY <1>0, <1>1 DEF StoreTyped, MakeGeneration, Contents
<1>3. r \in ProcStates /\ r.pc = "fill" /\ r.seq = s
        /\ r.op = proc[p].op /\ r.new = proc[p].new
  <2> HIDE DEF s
  <2>1. proc[p] \in ProcStates /\ "fill" \in Labels
    BY <1>0 DEF Labels, UnderLock, BeforeSwap
  <2> QED BY <1>1, <2>1 DEF ProcStates
<1>4. proc' = [proc EXCEPT ![p] = r]
  BY DEF MakeGeneration
<1>5. proc[p].op = "seal" /\ proc[p].new \in Digests
  BY <1>0 DEF MakeGeneration, AllFit, Fits
<1>6. Fits(r)
  <2> HIDE DEF r
  <2> QED BY <1>1, <1>3, <1>5 DEF Fits
<1>7. proc' \in [Procs -> ProcStates] /\ AllFit'
  <2> HIDE DEF r
  <2> QED BY <1>0, <1>3, <1>4, <1>6 DEF AllFit
<1> QED BY <1>2, <1>7, TypeParts DEF TypeInv, TypeOK, StoreTyped

\* What a seal that has made its directory works with.
LEMMA SealingFields ==
  ASSUME TypeInv, NEW p \in Procs, proc[p].pc \in BeforeSwap \cup {"rollback"}
  PROVE  /\ proc[p].seq \in Seqs /\ proc[p].seq - 1 \in Seqs
         /\ proc[p].pc \in BeforeSwap => proc[p].new \in Digests
<1>1. proc[p] \in ProcStates /\ Fits(proc[p])
  BY DEF TypeInv, TypeOK, AllFit
<1> QED BY <1>1, GenerationsAreSeqs DEF Fits, ProcStates, Seqs, BeforeSwap

LEMMA PrepareTyped ==
  ASSUME TypeInv, NEW p \in Procs,
         FillGeneration(p) \/ PublishSnapshot(p) \/ MakeLinkTmp(p) \/ MoveLegacyAside(p)
           \/ SwapLink(p)
  PROVE  TypeInv'
<1>0. StoreTyped
  BY TypeParts DEF TypeInv
<1>1. proc[p].pc \in BeforeSwap
  BY DEF FillGeneration, PublishSnapshot, MakeLinkTmp, MoveLegacyAside, SwapLink, BeforeSwap
<1>2. proc[p].seq \in Seqs /\ proc[p].seq - 1 \in Seqs /\ proc[p].new \in Digests
  BY <1>1, SealingFields
<1>3. StoreTyped'
  <2>1. CASE FillGeneration(p)
    BY <1>0, <1>2, <2>1 DEF StoreTyped, FillGeneration, Contents
  <2>2. CASE PublishSnapshot(p)
    BY <1>0, <1>2, <2>2 DEF StoreTyped, PublishSnapshot
  <2>3. CASE MakeLinkTmp(p) \/ SwapLink(p)
    BY <1>0, <1>2, <2>3 DEF StoreTyped, MakeLinkTmp, SwapLink
  <2>4. CASE MoveLegacyAside(p)
    BY <1>0, <1>2, <2>4 DEF StoreTyped, MoveLegacyAside, Contents
  <2> QED BY <2>1, <2>2, <2>3, <2>4
<1>4. \E label \in {"publish", "symlink", "rollback", "aside", "swap", "event"} :
        Goto(p, label)
  BY DEF FillGeneration, PublishSnapshot, MakeLinkTmp, MoveLegacyAside, SwapLink
<1>5. {"publish", "symlink", "rollback", "aside", "swap", "event"} \subseteq Labels
  BY DEF Labels, UnderLock, BeforeSwap
<1>6. proc' \in [Procs -> ProcStates] /\ AllFit'
  BY <1>1, <1>4, <1>5, GotoTyped
<1> QED BY <1>3, <1>6, TypeParts DEF TypeInv, TypeOK, StoreTyped

LEMMA FinishSealTyped ==
  ASSUME TypeInv, NEW p \in Procs, RollBack(p) \/ WriteIndex(p)
  PROVE  TypeInv'
<1>0. StoreTyped
  BY TypeParts DEF TypeInv
<1>1. StoreTyped'
  <2>1. CASE RollBack(p)
    <3>1. proc[p].seq \in Seqs /\ proc[p].seq - 1 \in Seqs
      BY <2>1, SealingFields DEF RollBack
    <3>2. gens' \in [Seqs -> Contents] /\ legacy' \in Contents
      BY <1>0, <2>1, <3>1 DEF StoreTyped, RollBack, Contents
    <3> QED BY <1>0, <2>1, <3>2 DEF StoreTyped, RollBack
  <2>2. CASE WriteIndex(p)
    BY <1>0, <2>2 DEF StoreTyped, WriteIndex
  <2> QED BY <2>1, <2>2
<1>2. \E label \in {"sweep", "release"} : Goto(p, label)
  BY DEF RollBack, WriteIndex
<1>3. proc' \in [Procs -> ProcStates] /\ AllFit'
  BY <1>2, GotoTyped DEF BeforeSwap, Labels, UnderLock
<1> QED BY <1>1, <1>3, TypeParts DEF TypeInv, TypeOK, StoreTyped

LEMMA TearAppendTyped ==
  ASSUME TypeInv, NEW p \in Procs, TearAppend(p)
  PROVE  TypeInv'
<1>0. StoreTyped /\ proc[p] \in ProcStates
  BY TypeParts DEF TypeInv
<1> DEFINE events == InFlight(proc[p])
<1>1. lineage.events \in Seq(LineageEvents) /\ events \in Seq(LineageEvents)
  <2>1. SealedEvent(proc[p].parent, proc[p].new) \in LineageEvents
    BY <1>0 DEF ProcStates, SealedEvent, LineageEvents, Reasons, ContractDigests
  <2>2. <<SealedEvent(proc[p].parent, proc[p].new)>> \in Seq(LineageEvents)
    BY <2>1
  <2> QED BY <1>0, <2>2 DEF StoreTyped, ProcStates, InFlight
<1>2. lineage' \in [events : Seq(LineageEvents), cut : BOOLEAN, bad : BOOLEAN]
  <2>1. PICK n \in 0..Len(events), cut \in BOOLEAN :
          lineage' = Written(proc[p], SubSeq(events, 1, n), cut)
    BY DEF TearAppend
  <2> HIDE DEF events
  <2>2. Len(events) \in Nat
    BY <1>1, LenProperties
  <2>3. SubSeq(events, 1, n) \in Seq(LineageEvents)
    BY <1>1, <2>2, SubSeqProperties
  <2> QED BY <1>0, <2>1, <2>3, WrittenType
<1>3. StoreTyped'
  <2>1. faults' \in Nat
    BY <1>0 DEF StoreTyped, TearAppend, Spend
  <2>2. /\ lock' \in [held : BOOLEAN, owner : Procs \cup {Nobody}, written : BOOLEAN,
                      old : BOOLEAN]
        /\ seen' \in [Procs -> Procs \cup {Nobody, Unread}]
    BY <1>0, LockTypes, SeenTypes DEF StoreTyped, TearAppend, Gone
  <2> QED BY <1>0, <1>2, <2>1, <2>2 DEF StoreTyped, TearAppend
<1>4. Goto(p, "release") \/ Finish(p)
  BY DEF TearAppend, Gone
<1>5. proc' \in [Procs -> ProcStates] /\ AllFit'
  BY <1>4, GotoTyped, FinishTyped DEF BeforeSwap, Labels, UnderLock
<1> QED BY <1>3, <1>5, TypeParts DEF TypeInv, TypeOK, StoreTyped

LEMMA DamageTyped ==
  ASSUME TypeInv, LoseLink \/ DamageGeneration \/ DamageSnapshot \/ LockAges
  PROVE  TypeInv'
<1>0. StoreTyped /\ proc \in [Procs -> ProcStates] /\ AllFit /\ 0 \in Seqs
  BY TypeParts, GenerationsAreSeqs DEF TypeInv, Seqs
<1>1. faults' \in Nat
  BY <1>0 DEF StoreTyped, LoseLink, DamageGeneration, DamageSnapshot, LockAges, Spend
<1>2. [lock EXCEPT !.old = TRUE] \in
        [held : BOOLEAN, owner : Procs \cup {Nobody}, written : BOOLEAN, old : BOOLEAN]
  BY <1>0 DEF StoreTyped
<1>3. StoreTyped'
  BY <1>0, <1>1, <1>2
  DEF StoreTyped, LoseLink, DamageGeneration, DamageSnapshot, LockAges, Contents, NoLink,
      storeVars
<1>4. proc' = proc
  BY DEF LoseLink, DamageGeneration, DamageSnapshot, LockAges
<1>5. AllFit'
  BY <1>0, <1>4 DEF AllFit
<1> QED BY <1>0, <1>3, <1>4, <1>5, TypeParts DEF TypeInv, TypeOK, StoreTyped
LEMMA InitTyped == Init => TypeInv
<1> SUFFICES ASSUME Init PROVE TypeInv
  OBVIOUS
<1>1. 0 \in Seqs /\ 2 \in Seqs
  BY GenerationsAreSeqs DEF Seqs
<1>2. gens \in [Seqs -> Contents] /\ link \in Seqs /\ legacy \in Contents
  BY <1>1 DEF Init, Contents, NoLink
<1>3. lineage \in [events : Seq(LineageEvents), cut : BOOLEAN, bad : BOOLEAN]
  BY EmptySeq DEF Init
<1>4. StoreTyped
  BY <1>2, <1>3 DEF Init, StoreTyped, NoLock
<1>5. proc \in [Procs -> ProcStates]
  BY IdleType DEF Init
<1>6. Fits(Idle)
  BY DEF Idle, Fits, BeforeSwap
<1>7. AllFit
  BY <1>6 DEF Init, AllFit
<1> QED BY <1>4, <1>5, <1>7, TypeParts DEF TypeInv

LEMMA NextTyped == TypeInv /\ [Next]_vars => TypeInv'
<1> SUFFICES ASSUME TypeInv, [Next]_vars PROVE TypeInv'
  OBVIOUS
<1>1. CASE UNCHANGED vars
  BY <1>1
  DEF TypeInv, TypeOK, AllFit, vars, storeVars
<1>2. ASSUME NEW p \in Procs, Begin(p) \/ Step(p) \/ ConfirmReclaim(p)
      PROVE  TypeInv'
  BY <1>2, BeginTyped, AcquireTyped, ObserveTyped, SnapshotSourceTyped, ReadTailTyped,
     AppendTyped, CollectTyped, MakeGenerationTyped, PrepareTyped, FinishSealTyped
  DEF Step
<1>3. ASSUME NEW p \in Procs,
             Fail(p) \/ WriteOwnerFails(p) \/ Crash(p) \/ Exit(p) \/ TearAppend(p)
      PROVE  TypeInv'
  BY <1>3, FaultTyped, TearAppendTyped
<1>4. CASE LoseLink \/ DamageGeneration \/ DamageSnapshot \/ LockAges
  BY <1>4, DamageTyped
<1> QED BY <1>1, <1>2, <1>3, <1>4 DEF Next, Fault

\* TypeInv is the strengthening that makes TypeOK inductive: a seal always has a
\* contract to write and, once it has made its directory, a sequence above 0.
THEOREM TypeInvariant == Spec => []TypeInv
<1>1. Init => TypeInv
  BY InitTyped
<1>2. TypeInv /\ [Next]_vars => TypeInv'
  BY NextTyped
<1> QED BY <1>1, <1>2, PTL DEF Spec

\* The types of TypeOK hold in every state of every instance: no operation,
\* failed, torn or interleaved with any other, leaves the store or a process in a
\* state the code has no name for.
THEOREM TypeCorrect == Spec => []TypeOK
<1>1. TypeInv => TypeOK
  BY DEF TypeInv
<1> QED BY <1>1, TypeInvariant, PTL

-----------------------------------------------------------------------------
(* Mutual exclusion *)

\* The behaviours in which no terminal's answer moves aside the lock of a process that
\* lives.  Nothing else is asked: locks may look stale while their process is at work, and
\* any process may end or die at any moment.
KeepingSpec == Spec /\ [][LiveLocksAreKept]_vars

\* The lock file names whoever is past acquireLock.
LockInv == \A p \in Procs : proc[p].pc \in Holding => lock.held /\ lock.owner = p

\* The labels of a running operation are told apart.
LEMMA LabelsApart ==
  /\ Holding \cap {"idle", "lock", "retry", "inspect", "probe", "confirm", "recreate"} = {}
  /\ UnderLock \subseteq Holding /\ "owner" \in Holding /\ "observe" \in Holding
  BY DEF Holding, UnderLock, BeforeSwap

LEMMA NobodyIsNoProcess == Nobody \notin Procs
  BY StoreAssumption DEF Nobody

\* Under the lock a step moves one process and leaves the lock alone.
LEMMA UnderLockStep ==
  ASSUME TypeInv, NEW p \in Procs,
         \/ Observe(p) \/ SnapshotSource(p) \/ ReadTailForAnchors(p) \/ AppendAnchors(p)
         \/ CollectOrphan(p) \/ MakeGeneration(p) \/ FillGeneration(p) \/ PublishSnapshot(p)
         \/ MakeLinkTmp(p) \/ MoveLegacyAside(p) \/ SwapLink(p) \/ RollBack(p)
         \/ ReadTailForSeal(p) \/ AppendSealed(p) \/ WriteIndex(p) \/ SweepGeneration(p)
         \/ Fail(p)
  PROVE  /\ proc[p].pc \in UnderLock /\ proc'[p].pc \in UnderLock /\ lock' = lock
         /\ \A q \in Procs \ {p} : proc'[q] = proc[q]
<1>0. proc \in [Procs -> ProcStates] /\ proc[p] \in ProcStates
  BY DEF TypeInv, TypeOK
<1>1. CASE Observe(p)
  <2>1. proc[p].pc \in UnderLock /\ lock' = lock
    BY <1>1 DEF Observe, UnderLock
  <2>2. CASE Goto(p, "release")
    BY <1>0, <2>1, <2>2, GotoEffect DEF Labels, UnderLock
  <2>3. CASE proc' = [proc EXCEPT ![p] = Observed(proc[p])]
    BY <1>0, <2>1, <2>3, ObservedType DEF UnderLock
  <2> QED BY <1>1, <2>2, <2>3 DEF Observe
<1>2. CASE SnapshotSource(p)
  <2>1. proc[p].pc = "snapshot" /\ lock' = lock
    BY <1>2 DEF SnapshotSource
  <2>2. proc'[p].pc \in {"snapshot", "release"}
    BY <1>0, <1>2, <2>1 DEF SnapshotSource, ProcStates
  <2>3. \A q \in Procs \ {p} : proc'[q] = proc[q]
    BY <1>0, <1>2 DEF SnapshotSource
  <2> QED BY <2>1, <2>2, <2>3 DEF UnderLock
<1>3. CASE MakeGeneration(p)
  BY <1>0, <1>3 DEF MakeGeneration, ProcStates, UnderLock, BeforeSwap
<1>4. CASE CollectOrphan(p)
  BY <1>0, <1>4 DEF CollectOrphan, UnderLock
<1>5. CASE SweepGeneration(p) /\ UNCHANGED proc
  BY <1>0, <1>5 DEF SweepGeneration, UnderLock
<1>6. ASSUME NEW label \in UnderLock, Goto(p, label), proc[p].pc \in UnderLock, lock' = lock
      PROVE  /\ proc[p].pc \in UnderLock /\ proc'[p].pc \in UnderLock /\ lock' = lock
             /\ \A q \in Procs \ {p} : proc'[q] = proc[q]
  BY <1>0, <1>6, GotoEffect DEF Labels
<1>7. {"snapshot", "anchor", "collect", "fill", "publish", "symlink", "aside", "swap", "event",
       "append", "index", "sweep", "release", "rollback"} \subseteq UnderLock
  BY DEF UnderLock, BeforeSwap
<1>8. CASE AppendAnchors(p)
  BY <1>6, <1>7, <1>8 DEF AppendAnchors, AfterAnchors
<1>11. CASE ReadTailForAnchors(p) \/ ReadTailForSeal(p)
  <2>1. proc[p].pc \in UnderLock /\ lock' = lock
    BY <1>7, <1>11 DEF ReadTailForAnchors, ReadTailForSeal
  <2>2. CASE Goto(p, AfterAnchors(proc[p]))
    BY <1>6, <1>7, <2>1, <2>2 DEF AfterAnchors
  <2>3. CASE \E tail \in {proc[p].tail, proc[p].parent}, label \in {"anchor", "append"} :
               proc' = [proc EXCEPT ![p] = TailRead(@, tail, label)]
    BY <1>0, <1>7, <2>1, <2>3, TailReadType, TypeParts DEF TypeInv
  <2>4. \/ Goto(p, AfterAnchors(proc[p]))
        \/ proc' = [proc EXCEPT ![p] = TailRead(@, proc[p].tail, "anchor")]
        \/ proc' = [proc EXCEPT ![p] = TailRead(@, proc[p].parent, "append")]
    BY <1>11 DEF ReadTailForAnchors, ReadTailForSeal
  <2> QED BY <2>2, <2>3, <2>4
<1>9. CASE \/ FillGeneration(p) \/ PublishSnapshot(p) \/ MakeLinkTmp(p)
           \/ MoveLegacyAside(p) \/ SwapLink(p) \/ RollBack(p)
  BY <1>6, <1>7, <1>9
  DEF FillGeneration, PublishSnapshot, MakeLinkTmp, MoveLegacyAside, SwapLink, RollBack
<1>10. CASE \/ AppendSealed(p) \/ WriteIndex(p)
            \/ SweepGeneration(p) /\ Goto(p, "release")
            \/ Fail(p)
  BY <1>6, <1>7, <1>10
  DEF AppendSealed, WriteIndex, SweepGeneration, Fail
<1> QED BY <1>1, <1>2, <1>3, <1>4, <1>5, <1>8, <1>9, <1>10, <1>11 DEF SweepGeneration

LEMMA UnderLockKeepsLockInv ==
  ASSUME TypeInv, LockInv, NEW p \in Procs,
         proc[p].pc \in UnderLock, proc'[p].pc \in UnderLock, lock' = lock,
         \A q \in Procs \ {p} : proc'[q] = proc[q]
  PROVE  LockInv'
  BY LabelsApart DEF LockInv

\* A process that ends, failed or dead, leaves the lock without an owner.
LEMMA EndingKeepsLockInv ==
  ASSUME TypeInv, LockInv, NEW p \in Procs, Finish(p), lock' = Orphaned(p)
  PROVE  LockInv'
<1>1. /\ proc'[p].pc = "idle"
      /\ \A q \in Procs \ {p} : proc'[q] = proc[q]
  BY FinishEffect DEF TypeInv, TypeOK, Idle
<1>2. /\ lock'.held = lock.held
      /\ lock'.owner = IF lock.owner = p THEN Nobody ELSE lock.owner
  BY DEF TypeInv, TypeOK, Orphaned
<1> QED BY <1>1, <1>2, LabelsApart, NobodyIsNoProcess DEF LockInv

\* A process that moves without the lock and without coming to hold it.
LEMMA OutsideKeepsLockInv ==
  ASSUME TypeInv, LockInv, NEW p \in Procs, lock' = lock,
         proc'[p].pc \notin Holding,
         \A q \in Procs \ {p} : proc'[q] = proc[q]
  PROVE  LockInv'
  BY DEF LockInv

\* The exclusive create.
LEMMA CreateKeepsLockInv ==
  ASSUME TypeInv, LockInv, NEW p \in Procs, ~lock.held, lock' = NewLock(p), Goto(p, "owner")
  PROVE  LockInv'
<1>1. proc'[p].pc = "owner" /\ \A q \in Procs \ {p} : proc'[q] = proc[q]
  BY GotoEffect DEF TypeInv, TypeOK, Labels
<1>2. \A q \in Procs : proc[q].pc \notin Holding
  BY DEF LockInv
<1>3. lock'.held /\ lock'.owner = p
  BY DEF NewLock
<1> QED BY <1>1, <1>2, <1>3 DEF LockInv
LEMMA AcquireKeepsLockInv ==
  ASSUME TypeInv, LockInv, LiveLocksAreKept, NEW p \in Procs,
         TryLock(p) \/ WriteOwner(p) \/ RetryLock(p) \/ ReadOwner(p) \/ ProbeOwner(p)
           \/ ConfirmReclaim(p) \/ RecreateLock(p) \/ Release(p)
  PROVE  LockInv'
<1>0. /\ proc \in [Procs -> ProcStates]
      /\ {"retry", "inspect", "probe", "owner", "observe", "confirm", "recreate"} \subseteq Labels
  BY DEF TypeInv, TypeOK, Labels, UnderLock
<1>1. CASE /\ lock' = lock
           /\ \/ \E label \in {"retry", "inspect", "probe", "confirm"} : Goto(p, label)
              \/ Finish(p)
  <2>1. /\ proc'[p].pc \in {"retry", "inspect", "probe", "confirm", "idle"}
        /\ \A q \in Procs \ {p} : proc'[q] = proc[q]
    BY <1>0, <1>1, GotoEffect, FinishEffect DEF Idle
  <2> QED BY <1>1, <2>1, LabelsApart, OutsideKeepsLockInv
<1>2. CASE ~lock.held /\ lock' = NewLock(p) /\ Goto(p, "owner")
  BY <1>2, CreateKeepsLockInv
<1>3. CASE WriteOwner(p)
  <2>1. /\ proc[p].pc = "owner" /\ proc'[p].pc = "observe"
        /\ \A q \in Procs \ {p} : proc'[q] = proc[q]
    BY <1>0, <1>3, GotoEffect DEF WriteOwner
  <2>2. lock'.held = lock.held /\ lock'.owner = lock.owner
    BY <1>3 DEF WriteOwner, TypeInv, TypeOK
  <2> QED BY <2>1, <2>2, LabelsApart DEF LockInv
\* What is moved aside or removed is nobody's else: nobody's at all, or the process's own.
<1>5. CASE /\ lock' = NoLock
           /\ \/ proc[p].pc = "confirm" /\ Goto(p, "recreate")
              \/ proc[p].pc = "release" /\ Finish(p)
  <2>1. /\ proc'[p].pc \in {"recreate", "idle"}
        /\ proc[p].pc = "confirm" => proc'[p].pc = "recreate"
        /\ \A q \in Procs \ {p} : proc'[q] = proc[q]
    BY <1>0, <1>5, GotoEffect, FinishEffect DEF Idle
  <2>2. ASSUME NEW q \in Procs \ {p} PROVE proc[q].pc \notin Holding
    <3>1. CASE proc[p].pc = "confirm"
      <4>1. lock.owner = Nobody
        BY <2>1, <3>1 DEF LiveLocksAreKept
      <4> QED BY <4>1, NobodyIsNoProcess DEF LockInv
    <3>2. CASE proc[p].pc = "release"
      BY <3>2 DEF LockInv, Holding, UnderLock
    <3> QED BY <1>5, <3>1, <3>2
  <2> QED BY <2>1, <2>2, LabelsApart DEF LockInv
<1> QED
  <2>1. CASE TryLock(p) \/ RetryLock(p) \/ ReadOwner(p) \/ ProbeOwner(p)
    BY <1>1, <1>2, <2>1 DEF TryLock, RetryLock, ReadOwner, ProbeOwner
  <2>2. CASE ConfirmReclaim(p) \/ RecreateLock(p) \/ Release(p)
    BY <1>1, <1>2, <1>5, <2>2 DEF ConfirmReclaim, RecreateLock, Release
  <2> QED BY <1>3, <2>1, <2>2

\* An append torn by an error releases the lock, one torn by a crash orphans it.
LEMMA TearAppendKeepsLockInv ==
  ASSUME TypeInv, LockInv, NEW p \in Procs, TearAppend(p)
  PROVE  LockInv'
<1>1. CASE Goto(p, "release") /\ UNCHANGED lock
  <2>1. /\ proc'[p].pc = "release"
        /\ \A q \in Procs \ {p} : proc'[q] = proc[q]
    BY <1>1, GotoEffect DEF TypeInv, TypeOK, Labels, UnderLock
  <2>2. proc[p].pc \in UnderLock /\ "release" \in UnderLock
    BY DEF TearAppend, UnderLock
  <2> QED BY <1>1, <2>1, <2>2, UnderLockKeepsLockInv
<1>2. CASE Finish(p) /\ lock' = Orphaned(p)
  BY <1>2, EndingKeepsLockInv
<1> QED BY <1>1, <1>2 DEF TearAppend, Gone

LEMMA NextKeepsLockInv ==
  TypeInv /\ LockInv /\ [Next]_vars /\ [LiveLocksAreKept]_vars => LockInv'
<1> SUFFICES ASSUME TypeInv, LockInv, [Next]_vars, [LiveLocksAreKept]_vars PROVE LockInv'
  OBVIOUS
<1>1. CASE lock' = lock /\ proc' = proc
  BY <1>1 DEF LockInv
<1>2. ASSUME NEW p \in Procs, Begin(p) PROVE LockInv'
  <2>1. PICK req \in Requests : proc' = [proc EXCEPT ![p] = req]
    BY <1>2 DEF Begin
  <2>2. proc'[p].pc = "lock" /\ \A q \in Procs \ {p} : proc'[q] = proc[q]
    BY <2>1, RequestsType DEF TypeInv, TypeOK
  <2> QED BY <1>2, <2>2, LabelsApart, OutsideKeepsLockInv DEF Begin
<1>3. ASSUME NEW p \in Procs, Step(p) \/ ConfirmReclaim(p) \/ Fail(p), LiveLocksAreKept
      PROVE  LockInv'
  BY <1>3, AcquireKeepsLockInv, UnderLockStep, UnderLockKeepsLockInv DEF Step
<1>4. ASSUME NEW p \in Procs, WriteOwnerFails(p) \/ Crash(p) \/ Exit(p) PROVE LockInv'
  BY <1>4, EndingKeepsLockInv DEF WriteOwnerFails, Crash, Exit, Gone
<1>5. ASSUME NEW p \in Procs, TearAppend(p) PROVE LockInv'
  BY <1>5, TearAppendKeepsLockInv
<1>6. CASE LockAges
  <2>1. lock'.owner = lock.owner /\ lock'.held = lock.held
    BY <1>6 DEF LockAges, TypeInv, TypeOK
  <2> QED BY <1>6, <2>1 DEF LockAges, LockInv
<1>7. vars' = vars => lock' = lock /\ proc' = proc
  BY DEF vars
<1>8. LoseLink \/ DamageGeneration \/ DamageSnapshot => lock' = lock /\ proc' = proc
  BY DEF LoseLink, DamageGeneration, DamageSnapshot
<1> QED BY <1>1, <1>2, <1>3, <1>4, <1>5, <1>6, <1>7, <1>8 DEF Next, Fault

\* LockInv is the strengthening that makes mutual exclusion inductive.
THEOREM LockInvariant == KeepingSpec => []LockInv
<1>1. Init => LockInv
  BY LabelsApart DEF Init, LockInv, Idle
<1>2. TypeInv /\ LockInv /\ [Next]_vars /\ [LiveLocksAreKept]_vars => LockInv'
  BY NextKeepsLockInv
<1> QED BY <1>1, <1>2, TypeInvariant, PTL DEF KeepingSpec, Spec

\* One process at a time is past acquireLock, for any number of processes, failures,
\* crashes and ends of processes, in every behaviour in which no answer at a terminal moves
\* aside the lock of a process that lives.
THEOREM SealLockExcludes == KeepingSpec => []MutualExclusion
<1>1. LockInv => MutualExclusion
  BY DEF LockInv, MutualExclusion
<1> QED BY <1>1, LockInvariant, PTL

-----------------------------------------------------------------------------
(* Where no live lock is moved aside *)

\* A process moves by a step of its own.
LEMMA OneMoves ==
  ASSUME TypeInv, [Next]_vars, NEW p \in Procs, proc'[p] # proc[p]
  PROVE  \/ Begin(p) \/ Step(p) \/ ConfirmReclaim(p)
         \/ Fail(p) \/ WriteOwnerFails(p) \/ Crash(p) \/ Exit(p) \/ TearAppend(p)
<1>0. proc \in [Procs -> ProcStates]
  BY DEF TypeInv, TypeOK
<1>1. proc' # proc
  OBVIOUS
<1>2. PICK q \in Procs : \/ Begin(q) \/ Step(q) \/ ConfirmReclaim(q)
                         \/ Fail(q) \/ WriteOwnerFails(q) \/ Crash(q) \/ Exit(q) \/ TearAppend(q)
  BY <1>1 DEF Next, Fault, vars, LoseLink, DamageGeneration, DamageSnapshot, LockAges
<1>3. \A r \in Procs \ {q} : proc'[r] = proc[r]
  <2>1. CASE Begin(q)
    BY <1>0, <2>1 DEF Begin
  <2>2. CASE \/ TryLock(q) \/ WriteOwner(q) \/ RetryLock(q) \/ ReadOwner(q) \/ ProbeOwner(q)
             \/ RecreateLock(q) \/ Release(q) \/ ConfirmReclaim(q)
             \/ WriteOwnerFails(q) \/ Crash(q) \/ Exit(q) \/ TearAppend(q)
    <3>1. (\E label \in Labels : Goto(q, label)) \/ Finish(q)
      BY <2>2 DEF TryLock, WriteOwner, RetryLock, ReadOwner, ProbeOwner, RecreateLock, Release,
                  ConfirmReclaim, WriteOwnerFails, Crash, Exit, TearAppend, Gone, Labels,
                  UnderLock
    <3> QED BY <1>0, <3>1, GotoEffect, FinishEffect
  <2> QED BY <1>2, <2>1, <2>2, UnderLockStep DEF Step
<1>4. q = p
  BY <1>3
<1> QED BY <1>2, <1>4

\* Only a reclaim takes a process from the question on.
LEMMA OnlyConfirmReclaims ==
  ASSUME TypeInv, [Next]_vars, NEW p \in Procs,
         proc[p].pc = "confirm", proc'[p].pc = "recreate"
  PROVE  ConfirmReclaim(p)
<1>0. proc \in [Procs -> ProcStates]
  BY DEF TypeInv, TypeOK
<1>1. proc[p].pc \notin UnderLock
  BY LabelsApart
<1>2. ~(\/ Begin(p) \/ TryLock(p) \/ WriteOwner(p) \/ RetryLock(p) \/ ReadOwner(p)
        \/ ProbeOwner(p) \/ RecreateLock(p) \/ Release(p))
  BY DEF Begin, TryLock, WriteOwner, RetryLock, ReadOwner, ProbeOwner, RecreateLock, Release
<1>3. ~(WriteOwnerFails(p) \/ Crash(p) \/ Exit(p) \/ TearAppend(p))
  <2>1. ~Finish(p)
    BY <1>0, FinishEffect DEF Idle
  <2> QED BY <2>1 DEF WriteOwnerFails, Crash, Exit, TearAppend, Gone
<1>4. proc'[p] # proc[p]
  OBVIOUS
<1> QED BY <1>1, <1>2, <1>3, <1>4, OneMoves, UnderLockStep DEF Step

\* Only the look for the owner, by a process at a terminal, brings it to the question.
LEMMA OnlyProbeAsks ==
  ASSUME TypeInv, [Next]_vars, NEW p \in Procs,
         proc[p].pc # "confirm", proc'[p].pc = "confirm"
  PROVE  ProbeOwner(p) /\ IsStale(p) /\ p \in Interactive
<1>0. proc \in [Procs -> ProcStates]
  BY DEF TypeInv, TypeOK
<1>1. proc'[p].pc \notin UnderLock
  BY LabelsApart
<1>2. ~Finish(p) /\ \A label \in Labels : Goto(p, label) => label = "confirm"
  BY <1>0, FinishEffect, GotoEffect DEF Idle
<1>3. ~Begin(p)
  BY <1>0, RequestsType DEF Begin, Requests, Request, Idle
<1>4. ~(\/ TryLock(p) \/ WriteOwner(p) \/ RetryLock(p) \/ ReadOwner(p)
        \/ RecreateLock(p) \/ Release(p) \/ ConfirmReclaim(p))
  BY <1>2 DEF TryLock, WriteOwner, RetryLock, ReadOwner, RecreateLock, Release, ConfirmReclaim,
              Labels, UnderLock
<1>5. ~(WriteOwnerFails(p) \/ Crash(p) \/ Exit(p) \/ TearAppend(p))
  BY <1>2 DEF WriteOwnerFails, Crash, Exit, TearAppend, Gone, Labels, UnderLock
<1>6. ProbeOwner(p)
  <2>1. proc'[p] # proc[p]
    OBVIOUS
  <2> QED BY <1>1, <1>3, <1>4, <1>5, <2>1, OneMoves, UnderLockStep DEF Step
<1> QED BY <1>2, <1>6 DEF ProbeOwner

\* What was read of the lock, once it shows the lock stale, tells that its process is gone:
\* so it does where one process at most may reclaim, no live lock reaches ten minutes and no
\* process ends between two looks of another.
OneTerminal == \A p, q \in Interactive : p = q
LiveLocksStayFresh == "live-lock-old" \notin Faults
NobodyLeaves == "exit" \notin Faults

Orphan == lock.held /\ lock.owner = Nobody

OrphanInv ==
  /\ lock.old => lock.owner = Nobody
  /\ \A p \in Procs : proc[p].pc = "confirm" => p \in Interactive /\ Orphan
  /\ \A p \in Interactive : proc[p].pc = "probe" /\ seen[p] = Nobody => Orphan

\* An orphaned lock stays one until its reclaim.
LEMMA OrphanStays ==
  ASSUME TypeInv, LockInv, [Next]_vars, Orphan, \A p \in Procs : ~ConfirmReclaim(p)
  PROVE  Orphan'
<1>1. \A p \in Procs : proc[p].pc \notin Holding
  BY NobodyIsNoProcess DEF LockInv, Orphan
<1>2. CASE lock' = lock
  BY <1>2 DEF Orphan
<1>3. ASSUME NEW p \in Procs, Step(p), lock' # lock PROVE Orphan'
  <2>1. ~(TryLock(p) \/ RetryLock(p) \/ RecreateLock(p))
    BY <1>3 DEF TryLock, RetryLock, RecreateLock, Orphan
  <2>2. ~(WriteOwner(p) \/ Release(p) \/ ReadOwner(p) \/ ProbeOwner(p))
    BY <1>1, <1>3 DEF WriteOwner, Release, ReadOwner, ProbeOwner, Holding, UnderLock
  <2> QED BY <1>1, <1>3, <2>1, <2>2, UnderLockStep, LabelsApart DEF Step
<1>4. ASSUME NEW p \in Procs, lock' = Orphaned(p) PROVE Orphan'
  BY <1>4, NobodyIsNoProcess DEF Orphaned, Orphan
<1>5. CASE LockAges
  BY <1>5 DEF LockAges, Orphan, TypeInv, TypeOK
<1>6. ASSUME NEW p \in Procs,
             Begin(p) \/ Fail(p) \/ WriteOwnerFails(p) \/ Crash(p) \/ Exit(p) \/ TearAppend(p)
      PROVE  lock' = lock \/ lock' = Orphaned(p)
  BY <1>6 DEF Begin, Fail, WriteOwnerFails, Crash, Exit, TearAppend, Gone
<1>7. UNCHANGED vars \/ LoseLink \/ DamageGeneration \/ DamageSnapshot => lock' = lock
  BY DEF vars, LoseLink, DamageGeneration, DamageSnapshot
<1> QED BY <1>2, <1>3, <1>4, <1>5, <1>6, <1>7 DEF Next, Fault

\* Only a read of the lock brings a process to the look for its owner.
LEMMA OnlyReadOwnerProbes ==
  ASSUME TypeInv, [Next]_vars, NEW p \in Procs,
         proc[p].pc # "probe", proc'[p].pc = "probe"
  PROVE  ReadOwner(p)
<1>0. proc \in [Procs -> ProcStates]
  BY DEF TypeInv, TypeOK
<1>1. proc'[p].pc \notin UnderLock
  BY LabelsApart DEF UnderLock, BeforeSwap
<1>2. ~Finish(p) /\ \A label \in Labels : Goto(p, label) => label = "probe"
  BY <1>0, FinishEffect, GotoEffect DEF Idle
<1>3. ~Begin(p)
  BY <1>0, RequestsType DEF Begin, Requests, Request, Idle
<1>4. ~(\/ TryLock(p) \/ WriteOwner(p) \/ RetryLock(p) \/ ProbeOwner(p)
        \/ RecreateLock(p) \/ Release(p) \/ ConfirmReclaim(p))
  BY <1>2 DEF TryLock, WriteOwner, RetryLock, ProbeOwner, RecreateLock, Release, ConfirmReclaim,
              Labels, UnderLock
<1>5. ~(WriteOwnerFails(p) \/ Crash(p) \/ Exit(p) \/ TearAppend(p))
  BY <1>2 DEF WriteOwnerFails, Crash, Exit, TearAppend, Gone, Labels, UnderLock
<1>6. proc'[p] # proc[p]
  OBVIOUS
<1> QED BY <1>1, <1>3, <1>4, <1>5, <1>6, OneMoves, UnderLockStep DEF Step

\* What a process read names nobody from the death of the process it read on.
LEMMA OnlyTheDeadAreForgotten ==
  ASSUME TypeInv, [Next]_vars, NobodyLeaves, NEW p \in Procs,
         proc[p].pc = "probe", proc'[p].pc = "probe", seen'[p] # seen[p]
  PROVE  \E q \in Procs : Crash(q) \/ (TearAppend(q) /\ Gone(q))
<1>0. seen \in [Procs -> Procs \cup {Nobody, Unread}] /\ proc \in [Procs -> ProcStates]
  BY DEF TypeInv, TypeOK
<1>1. seen' # seen
  OBVIOUS
<1>2. ASSUME NEW q \in Procs, Step(q) PROVE FALSE
  <2>1. ReadOwner(q) \/ ProbeOwner(q)
    BY <1>1, <1>2
       DEF Step, TryLock, WriteOwner, RetryLock, RecreateLock, Release, Observe, SnapshotSource,
           ReadTailForAnchors, AppendAnchors, CollectOrphan, MakeGeneration, FillGeneration,
           PublishSnapshot, MakeLinkTmp, MoveLegacyAside, SwapLink, RollBack, ReadTailForSeal,
           AppendSealed, WriteIndex, SweepGeneration, Alone
  <2>2. q = p
    BY <1>0, <2>1 DEF ReadOwner, ProbeOwner
  <2>3. ProbeOwner(p)
    BY <2>1, <2>2 DEF ReadOwner
  <2>4. Goto(p, "confirm") \/ Finish(p)
    BY <2>3 DEF ProbeOwner
  <2> QED BY <1>0, <2>4, GotoEffect, FinishEffect DEF Labels, Idle
<1> QED BY <1>1, <1>2 DEF Next, Fault, vars, Begin, ConfirmReclaim, Alone, Fail,
           WriteOwnerFails, TearAppend, LoseLink, DamageGeneration, DamageSnapshot, LockAges,
           Exit, NobodyLeaves

\* What a step makes of the lock.
LEMMA OnlyLockSteps ==
  ASSUME TypeInv, [Next]_vars
  PROVE  \/ lock' = lock \/ lock' = NoLock
         \/ \E p \in Procs : lock' = NewLock(p) \/ lock' = Orphaned(p)
         \/ lock' = [lock EXCEPT !.written = TRUE] \/ LockAges
<1>1. ASSUME NEW p \in Procs, Step(p)
      PROVE  \/ lock' = lock \/ lock' = NoLock \/ lock' = NewLock(p)
             \/ lock' = [lock EXCEPT !.written = TRUE]
  BY <1>1, UnderLockStep
     DEF Step, TryLock, WriteOwner, RetryLock, ReadOwner, ProbeOwner, RecreateLock, Release, Alone
<1>2. ASSUME NEW p \in Procs,
             \/ Begin(p) \/ ConfirmReclaim(p)
             \/ Fail(p) \/ WriteOwnerFails(p) \/ Crash(p) \/ Exit(p) \/ TearAppend(p)
      PROVE  lock' = lock \/ lock' = NoLock \/ lock' = Orphaned(p)
  BY <1>2 DEF Begin, ConfirmReclaim, Fail, WriteOwnerFails, Crash, Exit, TearAppend, Gone, Alone
<1>3. UNCHANGED vars \/ LoseLink \/ DamageGeneration \/ DamageSnapshot => lock' = lock
  BY DEF vars, LoseLink, DamageGeneration, DamageSnapshot
<1> QED BY <1>1, <1>2, <1>3 DEF Next, Fault

\* A process at the question was brought there by a stale lock, whose process is gone, and
\* no second one can have taken the lock since.
LEMMA NextKeepsOrphanInv ==
  ASSUME OneTerminal, LiveLocksStayFresh, NobodyLeaves,
         TypeInv, TypeInv', LockInv, OrphanInv, [Next]_vars
  PROVE  OrphanInv' /\ [LiveLocksAreKept]_vars
<1>0. proc \in [Procs -> ProcStates] /\ seen \in [Procs -> Procs \cup {Nobody, Unread}]
  BY DEF TypeInv, TypeOK
<1>1. ASSUME NEW p \in Procs, proc[p].pc = "confirm", proc'[p].pc = "recreate"
      PROVE  lock.owner = Nobody
  BY <1>1 DEF OrphanInv, Orphan
<1>2. lock'.old => lock'.owner = Nobody
  <2>1. lock' = lock \/ lock' = NoLock \/ (\E p \in Procs : lock' = NewLock(p) \/ lock' = Orphaned(p))
        \/ lock' = [lock EXCEPT !.written = TRUE] \/ LockAges
    BY OnlyLockSteps
  <2>2. LockAges => lock'.owner = Nobody
    BY DEF LockAges, Spend, LiveLocksStayFresh, TypeInv, TypeOK
  <2> QED BY <2>1, <2>2 DEF OrphanInv, NoLock, NewLock, Orphaned, TypeInv, TypeOK
<1>3. ASSUME NEW p \in Procs, proc'[p].pc = "confirm" PROVE p \in Interactive /\ Orphan'
  <2>1. CASE proc[p].pc = "confirm"
    <3>1. p \in Interactive /\ Orphan
      BY <2>1 DEF OrphanInv
    <3>2. ASSUME NEW q \in Procs, ConfirmReclaim(q) PROVE lock' = lock
      <4>1. proc[q].pc = "confirm" /\ q = p
        BY <3>1, <3>2 DEF ConfirmReclaim, OrphanInv, OneTerminal
      <4> QED BY <1>0, <1>3, <3>2, <4>1, GotoEffect DEF ConfirmReclaim, Labels
    <3>3. CASE \E q \in Procs : ConfirmReclaim(q)
      BY <3>1, <3>2, <3>3 DEF Orphan
    <3> QED BY <3>1, <3>3, OrphanStays
  <2>2. CASE proc[p].pc # "confirm"
    <3>1. ProbeOwner(p) /\ IsStale(p) /\ p \in Interactive
      BY <1>3, <2>2, OnlyProbeAsks
    <3>2. Orphan
      BY <3>1 DEF ProbeOwner, IsStale, OrphanInv, Orphan
    <3> QED BY <3>1, <3>2 DEF ProbeOwner, Orphan
  <2> QED BY <2>1, <2>2
<1>4. ASSUME NEW p \in Interactive, proc'[p].pc = "probe", seen'[p] = Nobody PROVE Orphan'
  <2>0. p \in Procs
    BY StoreAssumption
  <2>1. CASE proc[p].pc = "probe" /\ seen[p] = Nobody
    <3>1. Orphan
      BY <2>1 DEF OrphanInv
    <3>2. ASSUME NEW q \in Procs, ConfirmReclaim(q) PROVE FALSE
      BY <2>1, <3>2 DEF ConfirmReclaim, OrphanInv, OneTerminal
    <3> QED BY <3>1, <3>2, OrphanStays
  <2>2. CASE proc[p].pc = "probe" /\ seen[p] # Nobody
    <3>1. PICK q \in Procs : Crash(q) \/ (TearAppend(q) /\ Gone(q))
      BY <1>0, <1>4, <2>0, <2>2, OnlyTheDeadAreForgotten DEF NobodyLeaves
    <3>2. proc[q].pc \in Holding /\ lock' = Orphaned(q)
      BY <3>1 DEF Crash, TearAppend, Gone, Holding, UnderLock
    <3> QED BY <3>2 DEF LockInv, Orphaned, Orphan, TypeInv, TypeOK
  <2>3. CASE proc[p].pc # "probe"
    <3>1. ReadOwner(p)
      BY <1>4, <2>0, <2>3, OnlyReadOwnerProbes
    <3>2. seen'[p] = IF ~lock.held \/ ~lock.written THEN Unread
                     ELSE IF lock.old THEN Nobody ELSE lock.owner
      BY <1>0, <2>0, <3>1 DEF ReadOwner
    <3> QED BY <1>4, <3>1, <3>2 DEF ReadOwner, Orphan, OrphanInv, Nobody, Unread
  <2> QED BY <2>1, <2>2, <2>3
<1> QED BY <1>1, <1>2, <1>3, <1>4 DEF OrphanInv, LiveLocksAreKept

\* Where no process is at a terminal no lock is ever moved aside.
LEMMA NobodyAsks ==
  ASSUME Interactive = {}, TypeInv, [Next]_vars, \A p \in Procs : proc[p].pc # "confirm"
  PROVE  (\A p \in Procs : proc[p].pc # "confirm")' /\ [LiveLocksAreKept]_vars
  BY OnlyProbeAsks DEF LiveLocksAreKept

\* The seal lock excludes where no process is at a terminal (agents, services, hooks), for
\* any number of processes that crash, fail, end, or outlive ten minutes.
THEOREM SealLockExcludesWithoutTerminal ==
  ASSUME Interactive = {} PROVE Spec => [][LiveLocksAreKept]_vars /\ []MutualExclusion
<1>1. Init => \A p \in Procs : proc[p].pc # "confirm"
  BY DEF Init, Idle
<1>2. Spec => [](\A p \in Procs : proc[p].pc # "confirm") /\ [][LiveLocksAreKept]_vars
  BY <1>1, NobodyAsks, TypeInvariant, PTL DEF Spec
<1> QED BY <1>2, SealLockExcludes, PTL DEF KeepingSpec

\* The seal lock excludes where one process at most is at a terminal, as long as no process
\* ends between two looks of another and none holds the lock for ten minutes; processes may
\* crash or fail at any step.
THEOREM SealLockExcludesAtOneTerminal ==
  ASSUME OneTerminal, LiveLocksStayFresh, NobodyLeaves
  PROVE  Spec => [][LiveLocksAreKept]_vars /\ []MutualExclusion
<1>1. Init => TypeInv /\ LockInv /\ OrphanInv
  <2> SUFFICES ASSUME Init PROVE TypeInv /\ LockInv /\ OrphanInv
    OBVIOUS
  <2>1. \A p \in Procs : proc[p].pc = "idle"
    BY DEF Init, Idle
  <2>2. ~lock.old
    BY DEF Init, NoLock
  <2> QED BY <2>1, <2>2, InitTyped, LabelsApart, StoreAssumption DEF LockInv, OrphanInv
<1>2. TypeInv /\ LockInv /\ OrphanInv /\ [Next]_vars
        => TypeInv' /\ LockInv' /\ OrphanInv' /\ [LiveLocksAreKept]_vars
  <2> SUFFICES ASSUME TypeInv, LockInv, OrphanInv, [Next]_vars
               PROVE  TypeInv' /\ LockInv' /\ OrphanInv' /\ [LiveLocksAreKept]_vars
    OBVIOUS
  <2>1. TypeInv'
    BY NextTyped
  <2>2. OrphanInv' /\ [LiveLocksAreKept]_vars
    BY <2>1, NextKeepsOrphanInv
  <2> QED BY <2>1, <2>2, NextKeepsLockInv
<1>3. Spec => [][LiveLocksAreKept]_vars
  BY <1>1, <1>2, PTL DEF Spec
<1> QED BY <1>3, SealLockExcludes, PTL DEF KeepingSpec

-----------------------------------------------------------------------------
(* The chain rule *)

\* The drafts follow one another after a lineage that ends at `tail`.
FollowFrom(tail, drafts, kept) ==
  \A i \in 1..Len(drafts) :
    Follows(IF i = 1 THEN tail ELSE drafts[i - 1].digest, drafts[i], kept)

\* The digests an event names, as digest, parent, priorTail or gapFrom.
Named(e) == {e.parent, e.digest, e.from} \ {NoDigest}

\* More snapshots never break the rule.
LEMMA FollowsGrows ==
  ASSUME NEW expected, NEW e, NEW kept, NEW more, kept \subseteq more,
         Follows(expected, e, kept)
  PROVE  Follows(expected, e, more)
  BY DEF Follows

\* What the positions of a lineage extended by n drafts hold.
LEMMA ExtendedEvents ==
  ASSUME NEW S, NEW events \in Seq(S), NEW drafts \in Seq(S), NEW n \in 0..Len(drafts)
  PROVE  LET extended == events \o SubSeq(drafts, 1, n)
         IN  /\ extended \in Seq(S)
             /\ Len(extended) = Len(events) + n
             /\ \A i \in 1..Len(events) : extended[i] = events[i]
             /\ \A i \in 1..n : extended[Len(events) + i] = drafts[i]
<1>1. Len(events) \in Nat /\ Len(drafts) \in Nat
  BY LenProperties
<1>2. /\ SubSeq(drafts, 1, n) \in Seq(S) /\ Len(SubSeq(drafts, 1, n)) = n
      /\ \A i \in 1..n : SubSeq(drafts, 1, n)[i] = drafts[i]
  BY <1>1, SubSeqProperties
<1> QED BY <1>1, <1>2, ConcatProperties

\* A chain extended by drafts that follow it, in whole or in part, is a chain.
LEMMA ExtendedChain ==
  ASSUME NEW events \in Seq(LineageEvents), NEW drafts \in Seq(LineageEvents),
         NEW n \in 0..Len(drafts), NEW kept,
         Chained(events, kept), FollowFrom(TailDigest(events), drafts, kept)
  PROVE  Chained(events \o SubSeq(drafts, 1, n), kept)
<1> DEFINE extended == events \o SubSeq(drafts, 1, n)
           k == Len(events)
<1>1. /\ k \in Nat /\ n \in Nat /\ n <= Len(drafts) /\ Len(drafts) \in Nat
      /\ extended \in Seq(LineageEvents) /\ Len(extended) = k + n
      /\ \A i \in 1..k : extended[i] = events[i]
      /\ \A i \in 1..n : extended[k + i] = drafts[i]
      /\ DOMAIN events = 1..k
  BY ExtendedEvents, LenProperties
<1>2. DOMAIN extended = 1..(k + n)
  BY <1>1, LenProperties
<1> SUFFICES ASSUME NEW i \in 1..(k + n)
             PROVE  Follows(ExpectedAt(extended, i), extended[i], kept)
  BY <1>2 DEF Chained
<1>3. CASE i <= k
  <2>1. Follows(ExpectedAt(events, i), events[i], kept)
    BY <1>1, <1>3 DEF Chained
  <2>2. extended[i] = events[i] /\ ExpectedAt(extended, i) = ExpectedAt(events, i)
    <3> HIDE DEF extended, k
    <3> QED BY <1>1, <1>3 DEF ExpectedAt
  <2> QED BY <2>1, <2>2
<1>4. CASE i > k
  <2> DEFINE j == i - k
  <2>1. j \in 1..n /\ i = k + j
    BY <1>1, <1>4
  <2>2. Follows(IF j = 1 THEN TailDigest(events) ELSE drafts[j - 1].digest, drafts[j], kept)
    <3> HIDE DEF j, k
    <3> QED BY <1>1, <2>1 DEF FollowFrom
  <2>3. extended[i] = drafts[j]
    <3> HIDE DEF extended, j, k
    <3> QED BY <1>1, <2>1
  <2>4. ExpectedAt(extended, i) = IF j = 1 THEN TailDigest(events) ELSE drafts[j - 1].digest
    <3>1. CASE j = 1
      <4>1. CASE k = 0
        <5>1. events = <<>>
          BY <4>1, EmptySeq
        <5> QED BY <1>1, <2>1, <3>1, <4>1, <5>1 DEF ExpectedAt, TailDigest
      <4>2. CASE k # 0
        <5>1. events # <<>>
          BY <4>2, EmptySeq
        <5>2. i - 1 = k /\ k \in 1..k /\ i # 1
          BY <1>1, <2>1, <3>1, <4>2
        <5>3. extended[i - 1] = events[k]
          <6> HIDE DEF extended, j, k
          <6> QED BY <1>1, <5>2
        <5>4. ExpectedAt(extended, i) = events[k].digest
          <6> HIDE DEF extended
          <6> QED BY <5>2, <5>3 DEF ExpectedAt
        <5> QED BY <3>1, <5>1, <5>4 DEF TailDigest
      <4> QED BY <4>1, <4>2
    <3>2. CASE j # 1
      <4>1. j - 1 \in 1..n /\ i - 1 = k + (j - 1) /\ i # 1
        BY <1>1, <2>1, <3>2
      <4>2. extended[i - 1] = drafts[j - 1]
        <5> HIDE DEF extended, j, k
        <5> QED BY <1>1, <4>1
      <4> HIDE DEF extended, j
      <4> QED BY <3>2, <4>1, <4>2 DEF ExpectedAt
    <3> QED BY <3>1, <3>2
  <2> HIDE DEF extended, j, k
  <2> QED BY <2>2, <2>3, <2>4
<1> QED BY <1>1, <1>3, <1>4
\* So is what its events name.
LEMMA ExtendedNames ==
  ASSUME NEW events \in Seq(LineageEvents), NEW drafts \in Seq(LineageEvents),
         NEW n \in 0..Len(drafts), NEW kept,
         \A i \in 1..Len(events) : Named(events[i]) \subseteq kept,
         \A i \in 1..Len(drafts) : Named(drafts[i]) \subseteq kept
  PROVE  LET extended == events \o SubSeq(drafts, 1, n)
         IN  \A i \in 1..Len(extended) : Named(extended[i]) \subseteq kept
<1> DEFINE extended == events \o SubSeq(drafts, 1, n)
<1>1. /\ Len(events) \in Nat /\ Len(drafts) \in Nat /\ Len(extended) = Len(events) + n
      /\ \A i \in 1..Len(events) : extended[i] = events[i]
      /\ \A i \in 1..n : extended[Len(events) + i] = drafts[i]
  BY ExtendedEvents, LenProperties
<1> SUFFICES ASSUME NEW i \in 1..Len(extended) PROVE Named(extended[i]) \subseteq kept
  OBVIOUS
<1>2. CASE i <= Len(events)
  <2> HIDE DEF extended
  <2> QED BY <1>1, <1>2
<1>3. CASE i > Len(events)
  <2>1. i - Len(events) \in 1..n /\ i = Len(events) + (i - Len(events))
    BY <1>1, <1>3
  <2>2. extended[i] = drafts[i - Len(events)]
    <3> HIDE DEF extended
    <3> QED BY <1>1, <2>1
  <2> HIDE DEF extended
  <2> QED BY <1>1, <2>1, <2>2
<1> QED BY <1>1, <1>2, <1>3

-----------------------------------------------------------------------------
(* The inductive invariant *)

\* An operation that is about to append anchors knows the digest the lineage ends
\* at; its drafts follow it and name only digests that have a snapshot or are next
\* in line for one.
DraftsSound(p) ==
  proc[p].pc \in {"snapshot", "anchor"} =>
    /\ proc[p].tail = TailDigest(Events)
    /\ FollowFrom(proc[p].tail, proc[p].drafts, SnapshotDigests)
    /\ \A i \in 1..Len(proc[p].drafts) :
         Named(proc[p].drafts[i]) \subseteq
           SnapshotDigests \cup {proc[p].todo[j] : j \in 1..Len(proc[p].todo)}
    /\ proc[p].start =>
         \A i \in 1..Len(proc[p].drafts) : proc[p].drafts[i].digest \in SnapshotDigests
    /\ proc[p].pc = "anchor" => proc[p].todo = <<>>

\* A seal links no contract whose snapshot is missing, and appends its event only
\* after the parent it names; what an append read of the file still holds when it writes.
SealSound(p) ==
  /\ proc[p].pc \in {"symlink", "aside", "swap", "event", "append"} =>
       proc[p].new \in SnapshotDigests
  /\ proc[p].pc = "append" => TailDigest(Events) = proc[p].parent
  /\ proc[p].pc \in {"anchor", "append"} =>
       proc[p].at = Len(Events) /\ proc[p].torn = lineage.cut

ChainInv ==
  /\ ChainNeverBroken /\ LineageHasSnapshots
  /\ \A p \in Procs : DraftsSound(p) /\ SealSound(p)

\* Every digest a lineage with snapshots ends at has one.
LEMMA TailHasSnapshot ==
  ASSUME TypeInv, LineageHasSnapshots
  PROVE  TailDigest(Events) \in SnapshotDigests \cup {NoDigest}
<1>1. Events \in Seq(LineageEvents)
  BY DEF TypeInv, TypeOK, Events
<1>2. CASE Events = <<>>
  BY <1>2 DEF TailDigest
<1>3. CASE Events # <<>>
  <2>1. Len(Events) \in DOMAIN Events
    BY <1>1, <1>3, LenProperties, EmptySeq
  <2>2. {Events[Len(Events)].digest} \ {NoDigest} \subseteq SnapshotDigests
    BY <2>1 DEF LineageHasSnapshots
  <2> QED BY <1>3, <2>2 DEF TailDigest
<1> QED BY <1>2, <1>3

\* A step that leaves the lineage alone and takes no snapshot away disturbs only
\* the process that takes it.
LEMMA QuietStep ==
  ASSUME TypeInv, ChainInv, lineage' = lineage, SnapshotDigests \subseteq SnapshotDigests',
         NEW S \in SUBSET Procs,
         \A q \in Procs \ S : proc'[q] = proc[q],
         \A p \in S : DraftsSound(p)' /\ SealSound(p)'
  PROVE  ChainInv'
<1>1. ChainNeverBroken'
  BY FollowsGrows DEF ChainInv, ChainNeverBroken, Chained, Events
<1>2. LineageHasSnapshots'
  BY DEF ChainInv, LineageHasSnapshots, Events
<1>3. ASSUME NEW q \in Procs \ S PROVE DraftsSound(q)' /\ SealSound(q)'
  <2>1. proc'[q] = proc[q] /\ Events' = Events
    BY DEF Events
  <2>2. DraftsSound(q) /\ SealSound(q)
    BY DEF ChainInv
  <2>3. \A tail, drafts : FollowFrom(tail, drafts, SnapshotDigests) =>
                          FollowFrom(tail, drafts, SnapshotDigests')
    BY FollowsGrows DEF FollowFrom
  <2>4. DraftsSound(q)'
    BY <2>1, <2>2, <2>3 DEF DraftsSound
  <2>5. SealSound(q)'
    BY <2>1, <2>2 DEF SealSound
  <2> QED BY <2>4, <2>5
<1> QED BY <1>1, <1>2, <1>3 DEF ChainInv

\* QuietStep of one process, and of none.
LEMMA OneQuietStep ==
  ASSUME TypeInv, ChainInv, lineage' = lineage, SnapshotDigests \subseteq SnapshotDigests',
         NEW p \in Procs, DraftsSound(p)' /\ SealSound(p)',
         \A q \in Procs \ {p} : proc'[q] = proc[q]
  PROVE  ChainInv'
<1> DEFINE S == {p}
<1>1. /\ S \in SUBSET Procs
      /\ \A q \in Procs \ S : proc'[q] = proc[q]
      /\ \A q \in S : DraftsSound(q)' /\ SealSound(q)'
  OBVIOUS
<1> HIDE DEF S
<1> QED BY <1>1, QuietStep

LEMMA NoProcessStep ==
  ASSUME TypeInv, ChainInv, lineage' = lineage, SnapshotDigests \subseteq SnapshotDigests',
         proc' = proc
  PROVE  ChainInv'
<1> DEFINE S == {x \in Procs : FALSE}
<1>1. /\ S \in SUBSET Procs
      /\ \A q \in Procs \ S : proc'[q] = proc[q]
      /\ \A q \in S : DraftsSound(q)' /\ SealSound(q)'
  OBVIOUS
<1> HIDE DEF S
<1> QED BY <1>1, QuietStep

\* A step under the lock that appends n of a sequence of events that follow the
\* lineage and whose names are all kept.
LEMMA AppendStep ==
  ASSUME TypeInv, LockInv, ChainInv, NEW p \in Procs, proc[p].pc \in Holding,
         SnapshotDigests' = SnapshotDigests,
         NEW drafts \in Seq(LineageEvents), NEW n \in 0..Len(drafts),
         FollowFrom(TailDigest(Events), drafts, SnapshotDigests),
         \A i \in 1..Len(drafts) : Named(drafts[i]) \subseteq SnapshotDigests,
         Events' = Events \o SubSeq(drafts, 1, n), ~lineage'.bad,
         proc'[p].pc \in {"idle", "release", "collect", "index"},
         \A q \in Procs \ {p} : proc'[q] = proc[q]
  PROVE  ChainInv'
<1>1. Events \in Seq(LineageEvents)
  BY DEF TypeInv, TypeOK, Events
<1>2. ChainNeverBroken'
  <2>1. Chained(Events \o SubSeq(drafts, 1, n), SnapshotDigests)
    BY <1>1, ExtendedChain DEF ChainInv, ChainNeverBroken
  <2> QED BY <2>1 DEF ChainNeverBroken
<1>3. LineageHasSnapshots'
  <2>1. \A i \in 1..Len(Events) : Named(Events[i]) \subseteq SnapshotDigests
    BY <1>1, LenProperties DEF ChainInv, LineageHasSnapshots, Named
  <2>2. \A i \in 1..Len(Events') : Named(Events'[i]) \subseteq SnapshotDigests
    BY <1>1, <2>1, ExtendedNames
  <2>3. Events' \in Seq(LineageEvents)
    BY <1>1, ExtendedEvents
  <2> QED BY <2>2, <2>3, LenProperties DEF LineageHasSnapshots, Named
<1>4. ASSUME NEW q \in Procs \ {p} PROVE proc'[q].pc \notin Holding
  BY DEF LockInv
<1>5. \A q \in Procs : DraftsSound(q)' /\ SealSound(q)'
  <2>1. {"snapshot", "anchor", "symlink", "aside", "swap", "event", "append"} \subseteq Holding
    BY DEF Holding, UnderLock, BeforeSwap
  <2> QED BY <1>4, <2>1 DEF DraftsSound, SealSound
<1> QED BY <1>2, <1>3, <1>5 DEF ChainInv
\* A step that changes neither the lineage nor the snapshots and brings its
\* process to none of the labels ChainInv speaks of.
LEMMA PlainStep ==
  ASSUME TypeInv, ChainInv, lineage' = lineage, snapshots' = snapshots, NEW p \in Procs,
         proc'[p].pc \notin {"snapshot", "anchor", "symlink", "aside", "swap", "event", "append"},
         \A q \in Procs \ {p} : proc'[q] = proc[q]
  PROVE  ChainInv'
<1>1. SnapshotDigests' = SnapshotDigests
  BY DEF SnapshotDigests
<1>2. DraftsSound(p)' /\ SealSound(p)'
  BY DEF DraftsSound, SealSound
<1> QED BY <1>1, <1>2, OneQuietStep

\* A step of no process.
LEMMA DamageStep ==
  ASSUME TypeInv, ChainInv,
         \/ UNCHANGED <<lineage, snapshots, proc>>
         \/ DamageSnapshot
  PROVE  ChainInv'
<1>1. lineage' = lineage /\ proc' = proc
  BY DEF DamageSnapshot
<1>2. SnapshotDigests \subseteq SnapshotDigests'
  BY DEF DamageSnapshot, SnapshotDigests, TypeInv, TypeOK, Absent
<1> QED BY <1>1, <1>2, NoProcessStep

\* acquireLock, release, the end of an operation and a fault that unwinds it.
LEMMA LockStep ==
  ASSUME TypeInv, ChainInv, NEW p \in Procs,
         \/ Begin(p) \/ TryLock(p) \/ WriteOwner(p) \/ RetryLock(p) \/ ReadOwner(p)
         \/ ProbeOwner(p) \/ ConfirmReclaim(p) \/ RecreateLock(p) \/ Release(p)
         \/ Fail(p) \/ WriteOwnerFails(p) \/ Crash(p) \/ Exit(p)
  PROVE  ChainInv'
<1>0. proc \in [Procs -> ProcStates]
  BY DEF TypeInv, TypeOK
<1>1. lineage' = lineage /\ snapshots' = snapshots
  BY DEF Begin, TryLock, WriteOwner, RetryLock, ReadOwner, ProbeOwner, ConfirmReclaim, RecreateLock, Release,
         Fail, WriteOwnerFails, Crash, Exit, Gone, storeVars
<1>2. \/ \E req \in Requests : proc' = [proc EXCEPT ![p] = req]
      \/ \E label \in {"retry", "inspect", "probe", "owner", "observe", "confirm", "recreate",
                       "rollback", "release"} : Goto(p, label)
      \/ Finish(p)
  BY DEF Begin, TryLock, WriteOwner, RetryLock, ReadOwner, ProbeOwner, ConfirmReclaim, RecreateLock, Release,
         Fail, WriteOwnerFails, Crash, Exit, Gone
<1>3. /\ proc'[p].pc \in {"lock", "retry", "inspect", "probe", "owner", "observe", "confirm",
                         "recreate", "rollback", "release", "idle"}
      /\ \A q \in Procs \ {p} : proc'[q] = proc[q]
  <2>1. CASE \E req \in Requests : proc' = [proc EXCEPT ![p] = req]
    BY <1>0, <2>1, RequestsType
  <2>2. CASE \E label \in {"retry", "inspect", "probe", "owner", "observe", "confirm", "recreate",
                       "rollback", "release"} : Goto(p, label)
    BY <1>0, <2>2, GotoEffect DEF Labels, UnderLock
  <2>3. CASE Finish(p)
    BY <1>0, <2>3, FinishEffect DEF Idle
  <2> QED BY <1>2, <2>1, <2>2, <2>3
<1> QED BY <1>1, <1>3, PlainStep

\* The steps of a seal between its anchors and its event.
LEMMA PrepareStep ==
  ASSUME TypeInv, ChainInv, NEW p \in Procs,
         \/ CollectOrphan(p) \/ MakeGeneration(p) \/ FillGeneration(p) \/ RollBack(p)
         \/ WriteIndex(p) \/ SweepGeneration(p)
         \/ MakeLinkTmp(p) \/ MoveLegacyAside(p) \/ SwapLink(p) \/ ReadTailForSeal(p)
  PROVE  ChainInv'
<1>0. proc \in [Procs -> ProcStates]
  BY DEF TypeInv, TypeOK
<1>1. lineage' = lineage /\ snapshots' = snapshots /\ SnapshotDigests' = SnapshotDigests
  BY DEF CollectOrphan, MakeGeneration, FillGeneration, RollBack, WriteIndex, SweepGeneration,
         MakeLinkTmp, MoveLegacyAside, SwapLink, ReadTailForSeal, storeVars, SnapshotDigests
<1>2. CASE proc' = proc
  BY <1>1, <1>2, DamageStep
<1>3. CASE MakeGeneration(p)
  <2>1. /\ proc'[p].pc = "fill"
        /\ \A q \in Procs \ {p} : proc'[q] = proc[q]
    BY <1>0, <1>3 DEF MakeGeneration, ProcStates
  <2> QED BY <1>1, <2>1, PlainStep
<1>4. CASE \E label \in {"publish", "release", "sweep", "rollback"} : Goto(p, label)
  <2>1. /\ proc'[p].pc \in {"publish", "release", "sweep", "rollback"}
        /\ \A q \in Procs \ {p} : proc'[q] = proc[q]
    BY <1>0, <1>4, GotoEffect DEF Labels, UnderLock, BeforeSwap
  <2> QED BY <1>1, <2>1, PlainStep
<1>5. CASE \E label \in {"aside", "swap", "event"} :
             /\ Goto(p, label)
             /\ proc[p].pc \in {"symlink", "aside", "swap"}
  <2>1. /\ proc'[p].pc \in {"aside", "swap", "event"}
        /\ proc[p].pc \in {"symlink", "aside", "swap"}
        /\ proc'[p].new = proc[p].new
        /\ \A q \in Procs \ {p} : proc'[q] = proc[q]
    BY <1>0, <1>5, GotoEffect DEF Labels, UnderLock, BeforeSwap, SameRequest
  <2>2. proc[p].new \in SnapshotDigests
    BY <2>1 DEF ChainInv, SealSound
  <2>3. DraftsSound(p)' /\ SealSound(p)'
    BY <1>1, <2>1, <2>2 DEF DraftsSound, SealSound, Events
  <2> QED BY <1>1, <2>1, <2>3, OneQuietStep
<1>6. CASE \/ CollectOrphan(p) \/ FillGeneration(p) \/ RollBack(p) \/ WriteIndex(p)
           \/ SweepGeneration(p)
  BY <1>2, <1>4, <1>6
  DEF CollectOrphan, FillGeneration, RollBack, WriteIndex, SweepGeneration
<1>7. CASE MakeLinkTmp(p) \/ MoveLegacyAside(p) \/ SwapLink(p)
  BY <1>4, <1>5, <1>7 DEF MakeLinkTmp, MoveLegacyAside, SwapLink
<1>8. CASE ReadTailForSeal(p)
  <2>1. /\ proc[p].pc = "event"
        /\ proc' = [proc EXCEPT ![p] = TailRead(@, proc[p].parent, "append")]
    BY <1>8 DEF ReadTailForSeal
  <2>2. /\ proc'[p] = TailRead(proc[p], proc[p].parent, "append")
        /\ \A q \in Procs \ {p} : proc'[q] = proc[q]
    BY <1>0, <2>1
  <2>3. proc[p].new \in SnapshotDigests /\ proc[p] \in ProcStates
    BY <1>0, <2>1 DEF ChainInv, SealSound
  <2>4. /\ proc'[p].pc \in {"append", "release"} /\ proc'[p].new = proc[p].new
        /\ proc'[p].pc = "append" => /\ TailDigest(Events) = proc'[p].parent
                                     /\ proc'[p].at = Len(Events)
                                     /\ proc'[p].torn = lineage.cut
    BY <2>2, <2>3 DEF TailRead, ProcStates, Events
  <2>5. DraftsSound(p)' /\ SealSound(p)'
    BY <1>1, <2>3, <2>4 DEF DraftsSound, SealSound, Events
  <2> QED BY <1>1, <2>2, <2>5, OneQuietStep
<1> QED BY <1>3, <1>6, <1>7, <1>8

LEMMA PublishStep ==
  ASSUME TypeInv, ChainInv, NEW p \in Procs, PublishSnapshot(p)
  PROVE  ChainInv'
<1>0. /\ proc \in [Procs -> ProcStates] /\ lineage' = lineage
      /\ snapshots \in [Digests -> {Absent, "ok", "corrupt"}]
  BY DEF TypeInv, TypeOK, PublishSnapshot
<1>1. proc[p].new \in Digests
  BY SealingFields DEF PublishSnapshot, BeforeSwap
<1>2. CASE Goto(p, "rollback") /\ UNCHANGED snapshots
  <2>1. proc'[p].pc = "rollback" /\ \A q \in Procs \ {p} : proc'[q] = proc[q]
    BY <1>0, <1>2, GotoEffect DEF Labels, UnderLock
  <2> QED BY <1>0, <1>2, <2>1, PlainStep
<1>3. CASE Goto(p, "symlink") /\ snapshots' = [snapshots EXCEPT ![proc[p].new] = "ok"]
  <2>1. /\ proc'[p].pc = "symlink" /\ proc'[p].new = proc[p].new
        /\ \A q \in Procs \ {p} : proc'[q] = proc[q]
    BY <1>0, <1>3, GotoEffect DEF Labels, UnderLock, BeforeSwap, SameRequest
  <2>2. SnapshotDigests \subseteq SnapshotDigests' /\ proc[p].new \in SnapshotDigests'
    BY <1>0, <1>1, <1>3 DEF SnapshotDigests, Absent
  <2>3. DraftsSound(p)' /\ SealSound(p)'
    BY <2>1, <2>2 DEF DraftsSound, SealSound
  <2> QED BY <1>0, <2>1, <2>2, <2>3, OneQuietStep
<1> QED BY <1>2, <1>3 DEF PublishSnapshot
\* What an operation plans follows the lineage, names only what the lineage ends
\* at and the linked contract, and is nothing on an empty lineage.
LEMMA PlannedSound ==
  ASSUME TypeInv, LineageHasSnapshots, NEW req
  PROVE  /\ FollowFrom(TailDigest(Events), Planned(req), SnapshotDigests)
         /\ \A i \in 1..Len(Planned(req)) :
              Named(Planned(req)[i]) \subseteq
                SnapshotDigests \cup {Sources[j] : j \in 1..Len(Sources)}
         /\ Events = <<>> => Planned(req) = <<>>
<1> DEFINE tail == TailDigest(Events)
           parent == ParentDigest
           linked == {Sources[j] : j \in 1..Len(Sources)}
<1>1. tail \in SnapshotDigests \cup {NoDigest}
  BY TailHasSnapshot
<1>2. parent # NoDigest => parent \in linked
  <2>1. CASE parent # NoDigest
    <3> DEFINE before == IF PreviousDigest # NoDigest THEN <<PreviousDigest>> ELSE <<>>
    <3>1. Sources = before \o <<parent>>
      BY <2>1 DEF Sources
    <3>2. before \in Seq(ContractDigests) /\ <<parent>> \in Seq(ContractDigests)
      BY ReadsType, EmptySeq DEF TypeInv
    <3>3. Len(before) \in Nat
      BY <3>2, LenProperties
    <3>4. Len(Sources) = Len(before) + 1 /\ Sources[Len(before) + 1] = parent
      <4> HIDE DEF before, parent
      <4> QED BY <3>1, <3>2, <3>3, ConcatProperties
    <3>5. Len(before) + 1 \in 1..Len(Sources)
      <4> HIDE DEF before
      <4> QED BY <3>3, <3>4
    <3> HIDE DEF before, parent
    <3> QED BY <3>4, <3>5
  <2> QED BY <2>1
<1>3. Planned(req) = <<>> \/ \E e :
        /\ Planned(req) = <<e>>
        /\ Events # <<>>
        /\ \/ e = Recovered("seq-restart", NoDigest, NoDigest, tail)
           \/ e = Recovered("unrecorded-seal", tail, parent, NoDigest) /\ parent # NoDigest
           \/ e = Recovered("gap-anchor", NoDigest, parent, tail) /\ parent # NoDigest
  <2>1. Classified # "current" => Events # <<>>
    BY DEF Classified, ClassifyLineageTail, EndsAt, Events
  <2>2. Classified \in {"unrecorded-seal", "gap"} => parent # NoDigest
    BY DEF Classified, ClassifyLineageTail
  <2>3. Classified \in Outcomes
    BY ClassifiedType
  <2> QED BY <2>1, <2>2, <2>3 DEF Planned, AnchorFor, Outcomes, Events
<1> HIDE DEF tail, parent, linked
<1>4. CASE Planned(req) = <<>>
  BY <1>4, EmptySeq DEF FollowFrom, linked
<1>5. ASSUME NEW e, Planned(req) = <<e>>, Events # <<>>,
             \/ e = Recovered("seq-restart", NoDigest, NoDigest, tail)
             \/ e = Recovered("unrecorded-seal", tail, parent, NoDigest) /\ parent # NoDigest
             \/ e = Recovered("gap-anchor", NoDigest, parent, tail) /\ parent # NoDigest
      PROVE  /\ FollowFrom(tail, Planned(req), SnapshotDigests)
             /\ \A i \in 1..Len(Planned(req)) :
                  Named(Planned(req)[i]) \subseteq SnapshotDigests \cup linked
  <2>1. Follows(tail, e, SnapshotDigests)
    BY <1>5 DEF Follows, Recovered
  <2>2. Named(e) \subseteq SnapshotDigests \cup linked
    BY <1>1, <1>2, <1>5 DEF Named, Recovered
  <2>3. Len(Planned(req)) = 1 /\ Planned(req)[1] = e
    BY <1>5
  <2> QED BY <2>1, <2>2, <2>3 DEF FollowFrom
<1> QED BY <1>3, <1>4, <1>5 DEF tail, linked

\* The fields an observation sets.
LEMMA ObservedFields ==
  ASSUME NEW req \in ProcStates
  PROVE  /\ Observed(req).pc = "snapshot" /\ Observed(req).tail = TailDigest(Events)
         /\ Observed(req).todo = Sources /\ Observed(req).drafts = Planned(req)
         /\ Observed(req).start = (Events = <<>> /\ ParentDigest # NoDigest)
  BY DEF Observed, ProcStates, Events

LEMMA ObserveStep ==
  ASSUME TypeInv, ChainInv, NEW p \in Procs, Observe(p)
  PROVE  ChainInv'
<1>0. /\ proc \in [Procs -> ProcStates] /\ lineage' = lineage /\ snapshots' = snapshots
      /\ SnapshotDigests' = SnapshotDigests /\ Events' = Events
  BY DEF TypeInv, TypeOK, Observe, storeVars, SnapshotDigests, Events
<1>1. CASE Goto(p, "release")
  <2>1. proc'[p].pc = "release" /\ \A q \in Procs \ {p} : proc'[q] = proc[q]
    BY <1>0, <1>1, GotoEffect DEF Labels, UnderLock
  <2> QED BY <1>0, <2>1, PlainStep
<1>2. CASE proc' = [proc EXCEPT ![p] = Observed(proc[p])]
  <2>1. proc'[p] = Observed(proc[p]) /\ \A q \in Procs \ {p} : proc'[q] = proc[q]
    BY <1>0, <1>2
  <2>2. /\ FollowFrom(TailDigest(Events), Planned(proc[p]), SnapshotDigests)
        /\ \A i \in 1..Len(Planned(proc[p])) :
             Named(Planned(proc[p])[i]) \subseteq
               SnapshotDigests \cup {Sources[j] : j \in 1..Len(Sources)}
        /\ Events = <<>> => Planned(proc[p]) = <<>>
    BY PlannedSound DEF ChainInv
  <2>3. Events = <<>> => 1..Len(Planned(proc[p])) = {}
    BY <2>2, EmptySeq
  <2>4. proc[p] \in ProcStates
    BY <1>0
  <2>5. /\ proc'[p].pc = "snapshot" /\ proc'[p].tail = TailDigest(Events)
        /\ proc'[p].todo = Sources /\ proc'[p].drafts = Planned(proc[p])
        /\ proc'[p].start => Events = <<>>
    BY <2>1, <2>4, ObservedFields
  <2>6. SealSound(p)'
    BY <2>5 DEF SealSound
  <2>7. DraftsSound(p)'
    BY <1>0, <2>2, <2>3, <2>5 DEF DraftsSound
  <2> QED BY <1>0, <2>1, <2>6, <2>7, OneQuietStep
<1> QED BY <1>1, <1>2 DEF Observe
\* Drafts extended by the bootstrap anchor of a digest whose snapshot was just made.
LEMMA BootstrapFollows ==
  ASSUME NEW drafts \in Seq(LineageEvents), NEW d \in Digests, NEW tail,
         NEW kept, NEW more, kept \subseteq more, d \in more,
         FollowFrom(tail, drafts, kept),
         \A i \in 1..Len(drafts) : drafts[i].digest \in kept
  PROVE  LET longer == Append(drafts, BootstrapAnchor(drafts, d))
         IN  /\ FollowFrom(tail, longer, more)
             /\ \A i \in 1..Len(longer) : longer[i].digest \in more
             /\ Len(longer) = Len(drafts) + 1
             /\ \A i \in 1..Len(drafts) : longer[i] = drafts[i]
             /\ Named(longer[Len(longer)]) \subseteq more
<1> DEFINE e == BootstrapAnchor(drafts, d)
           longer == Append(drafts, e)
           n == Len(drafts)
<1>1. /\ n \in Nat /\ Len(longer) = n + 1 /\ longer[n + 1] = e
      /\ \A i \in 1..n : longer[i] = drafts[i]
  BY AppendProperties, LenProperties
<1>2. TailDigest(drafts) \in kept \cup {NoDigest}
  BY EmptySeq, LenProperties DEF TailDigest
<1>3. /\ e.kind = "recovered" /\ e.reason = "bootstrap" /\ e.parent = TailDigest(drafts)
      /\ e.digest = d /\ e.from = NoDigest
  BY DEF BootstrapAnchor, Recovered
<1> HIDE DEF e, longer, n
<1>4. \A expected : Follows(expected, e, more)
  BY <1>2, <1>3 DEF Follows
<1>5. FollowFrom(tail, longer, more)
  <2> SUFFICES ASSUME NEW i \in 1..(n + 1)
               PROVE  Follows(IF i = 1 THEN tail ELSE longer[i - 1].digest, longer[i], more)
    BY <1>1 DEF FollowFrom
  <2>1. CASE i = n + 1
    BY <1>1, <1>4, <2>1
  <2>2. CASE i \in 1..n
    <3>1. Follows(IF i = 1 THEN tail ELSE drafts[i - 1].digest, drafts[i], kept)
      BY <2>2 DEF FollowFrom, n
    <3>2. longer[i] = drafts[i] /\ (i # 1 => longer[i - 1] = drafts[i - 1])
      BY <1>1, <2>2
    <3> QED BY <3>1, <3>2, FollowsGrows
  <2> QED BY <1>1, <2>1, <2>2
<1>6. \A i \in 1..(n + 1) : longer[i].digest \in more
  BY <1>1, <1>3 DEF n
<1>7. Named(e) \subseteq more
  BY <1>2, <1>3 DEF Named
<1> QED BY <1>1, <1>5, <1>6, <1>7 DEF e, longer, n

\* What one source's snapshot does: the source leaves `todo`, and either nothing
\* else changes or its snapshot is there and, when the lineage starts, its anchor
\* is drafted.
LEMMA SnapshotSourceEffect ==
  ASSUME TypeInv, NEW p \in Procs, SnapshotSource(p)
  PROVE  LET d == Head(proc[p].todo)
         IN  /\ proc'[p].pc \in {"snapshot", "release"}
             /\ proc'[p].todo = Tail(proc[p].todo)
             /\ proc'[p].tail = proc[p].tail /\ proc'[p].start = proc[p].start
             /\ d \in SnapshotDigests' /\ SnapshotDigests \subseteq SnapshotDigests'
             /\ \/ proc'[p].drafts = proc[p].drafts
                \/ /\ proc[p].start
                   /\ proc'[p].drafts = Append(proc[p].drafts, BootstrapAnchor(proc[p].drafts, d))
             /\ \A q \in Procs \ {p} : proc'[q] = proc[q]
<1> DEFINE d == Head(proc[p].todo)
<1>0. /\ proc \in [Procs -> ProcStates] /\ proc[p] \in ProcStates
      /\ snapshots \in [Digests -> {Absent, "ok", "corrupt"}]
      /\ proc[p].pc = "snapshot"
  BY DEF TypeInv, TypeOK, SnapshotSource
<1>1. d \in Digests
  <2>1. proc[p].todo \in Seq(Digests) /\ proc[p].todo # <<>>
    BY <1>0 DEF ProcStates, SnapshotSource
  <2> QED BY <2>1, HeadTailProperties
<1> HIDE DEF d
<1>2. d \in SnapshotDigests' /\ SnapshotDigests \subseteq SnapshotDigests'
  BY <1>0, <1>1 DEF SnapshotSource, SnapshotDigests, Absent, d
<1>3. \A q \in Procs \ {p} : proc'[q] = proc[q]
  BY <1>0 DEF SnapshotSource
<1>4. /\ proc'[p].pc \in {"snapshot", "release"}
      /\ proc'[p].todo = Tail(proc[p].todo)
      /\ proc'[p].tail = proc[p].tail /\ proc'[p].start = proc[p].start
  BY <1>0 DEF SnapshotSource, ProcStates
<1>5. \/ proc'[p].drafts = proc[p].drafts
      \/ /\ proc[p].start
         /\ proc'[p].drafts = Append(proc[p].drafts, BootstrapAnchor(proc[p].drafts, d))
  BY <1>0 DEF SnapshotSource, ProcStates, d
<1> QED BY <1>2, <1>3, <1>4, <1>5 DEF d

LEMMA SnapshotStep ==
  ASSUME TypeInv, ChainInv, NEW p \in Procs, SnapshotSource(p)
  PROVE  ChainInv'
<1> DEFINE d == Head(proc[p].todo)
           waiting == {proc[p].todo[j] : j \in 1..Len(proc[p].todo)}
           left == {Tail(proc[p].todo)[j] : j \in 1..Len(Tail(proc[p].todo))}
<1>0. /\ lineage' = lineage /\ Events' = Events /\ proc[p] \in ProcStates
      /\ proc[p].pc = "snapshot"
  BY DEF TypeInv, TypeOK, SnapshotSource, Events
<1>1. /\ proc'[p].pc \in {"snapshot", "release"}
      /\ proc'[p].todo = Tail(proc[p].todo)
      /\ proc'[p].tail = proc[p].tail /\ proc'[p].start = proc[p].start
      /\ d \in SnapshotDigests' /\ SnapshotDigests \subseteq SnapshotDigests'
      /\ \/ proc'[p].drafts = proc[p].drafts
         \/ /\ proc[p].start
            /\ proc'[p].drafts = Append(proc[p].drafts, BootstrapAnchor(proc[p].drafts, d))
      /\ \A q \in Procs \ {p} : proc'[q] = proc[q]
  BY SnapshotSourceEffect
<1>2. d \in Digests /\ waiting \subseteq {d} \cup left
  <2>1. proc[p].todo \in Seq(Digests) /\ proc[p].todo # <<>>
    BY <1>0 DEF ProcStates, SnapshotSource
  <2>2. /\ d \in Digests /\ Len(Tail(proc[p].todo)) = Len(proc[p].todo) - 1
        /\ \A i \in 1..Len(Tail(proc[p].todo)) : Tail(proc[p].todo)[i] = proc[p].todo[i + 1]
        /\ Len(proc[p].todo) \in Nat /\ d = proc[p].todo[1]
    BY <2>1, HeadTailProperties, LenProperties
  <2>3. ASSUME NEW j \in 1..Len(proc[p].todo) PROVE proc[p].todo[j] \in {d} \cup left
    <3>1. CASE j = 1
      BY <2>2, <3>1
    <3>2. CASE j # 1
      <4>1. j - 1 \in 1..Len(Tail(proc[p].todo)) /\ (j - 1) + 1 = j
        BY <2>2, <3>2
      <4>2. Tail(proc[p].todo)[j - 1] = proc[p].todo[j]
        BY <2>2, <4>1
      <4> QED BY <4>1, <4>2
    <3> QED BY <3>1, <3>2
  <2> QED BY <2>2, <2>3
<1>3. /\ proc[p].tail = TailDigest(Events)
      /\ FollowFrom(proc[p].tail, proc[p].drafts, SnapshotDigests)
      /\ \A i \in 1..Len(proc[p].drafts) :
           Named(proc[p].drafts[i]) \subseteq SnapshotDigests \cup waiting
      /\ proc[p].start =>
           \A i \in 1..Len(proc[p].drafts) : proc[p].drafts[i].digest \in SnapshotDigests
  BY <1>0 DEF ChainInv, DraftsSound
<1>4. proc[p].drafts \in Seq(LineageEvents)
  BY <1>0 DEF ProcStates
<1>5. left = {proc'[p].todo[j] : j \in 1..Len(proc'[p].todo)}
  BY <1>1
<1>6. \A i \in 1..Len(proc[p].drafts) :
        Named(proc[p].drafts[i]) \subseteq SnapshotDigests' \cup left
  <2> HIDE DEF d, waiting, left
  <2> QED BY <1>1, <1>2, <1>3
<1> HIDE DEF d, waiting, left
<1>7. /\ FollowFrom(proc[p].tail, proc'[p].drafts, SnapshotDigests')
      /\ \A i \in 1..Len(proc'[p].drafts) :
           Named(proc'[p].drafts[i]) \subseteq SnapshotDigests' \cup left
      /\ proc[p].start =>
           \A i \in 1..Len(proc'[p].drafts) : proc'[p].drafts[i].digest \in SnapshotDigests'
  <2>1. CASE proc'[p].drafts = proc[p].drafts
    <3>1. FollowFrom(proc[p].tail, proc[p].drafts, SnapshotDigests')
      BY <1>1, <1>3, FollowsGrows DEF FollowFrom
    <3> QED BY <1>1, <1>3, <1>6, <2>1, <3>1
  <2>2. CASE /\ proc[p].start
             /\ proc'[p].drafts = Append(proc[p].drafts, BootstrapAnchor(proc[p].drafts, d))
    <3> DEFINE longer == Append(proc[p].drafts, BootstrapAnchor(proc[p].drafts, d))
    <3>1. /\ FollowFrom(proc[p].tail, longer, SnapshotDigests')
          /\ \A i \in 1..Len(longer) : longer[i].digest \in SnapshotDigests'
          /\ Len(longer) = Len(proc[p].drafts) + 1
          /\ \A i \in 1..Len(proc[p].drafts) : longer[i] = proc[p].drafts[i]
          /\ Named(longer[Len(longer)]) \subseteq SnapshotDigests'
      <4> DEFINE kept == SnapshotDigests
                 more == SnapshotDigests'
                 drafts == proc[p].drafts
                 tail == proc[p].tail
      <4>1. /\ kept \subseteq more /\ d \in more /\ d \in Digests
            /\ drafts \in Seq(LineageEvents) /\ FollowFrom(tail, drafts, kept)
            /\ \A i \in 1..Len(drafts) : drafts[i].digest \in kept
        BY <1>1, <1>2, <1>3, <1>4, <2>2
      <4> HIDE DEF kept, more, drafts, tail
      <4>2. /\ FollowFrom(tail, Append(drafts, BootstrapAnchor(drafts, d)), more)
            /\ \A i \in 1..Len(Append(drafts, BootstrapAnchor(drafts, d))) :
                 Append(drafts, BootstrapAnchor(drafts, d))[i].digest \in more
            /\ Len(Append(drafts, BootstrapAnchor(drafts, d))) = Len(drafts) + 1
            /\ \A i \in 1..Len(drafts) :
                 Append(drafts, BootstrapAnchor(drafts, d))[i] = drafts[i]
            /\ Named(Append(drafts, BootstrapAnchor(drafts, d))
                       [Len(Append(drafts, BootstrapAnchor(drafts, d)))]) \subseteq more
        BY <4>1, BootstrapFollows
      <4> QED BY <4>2 DEF kept, more, drafts, tail
    <3>2. Len(proc[p].drafts) \in Nat
      BY <1>4, LenProperties
    <3>3. \A i \in 1..Len(longer) : Named(longer[i]) \subseteq SnapshotDigests' \cup left
      <4> HIDE DEF longer
      <4> QED BY <1>6, <3>1, <3>2
    <3> HIDE DEF longer
    <3> QED BY <2>2, <3>1, <3>3 DEF longer
  <2> QED BY <1>1, <2>1, <2>2
<1>8. DraftsSound(p)'
  BY <1>0, <1>1, <1>3, <1>5, <1>7 DEF DraftsSound
<1>9. SealSound(p)'
  BY <1>1 DEF SealSound
<1> QED BY <1>0, <1>1, <1>8, <1>9, OneQuietStep
LEMMA ReadTailStep ==
  ASSUME TypeInv, ChainInv, NEW p \in Procs, ReadTailForAnchors(p)
  PROVE  ChainInv'
<1>0. /\ proc \in [Procs -> ProcStates] /\ lineage' = lineage /\ snapshots' = snapshots
      /\ Events' = Events /\ SnapshotDigests' = SnapshotDigests
      /\ proc[p].pc = "snapshot" /\ proc[p].todo = <<>>
  BY DEF TypeInv, TypeOK, ReadTailForAnchors, storeVars, Events, SnapshotDigests
<1>1. CASE \E label \in {"collect", "index", "release"} : Goto(p, label)
  <2>1. /\ proc'[p].pc \in {"collect", "index", "release"}
        /\ \A q \in Procs \ {p} : proc'[q] = proc[q]
    BY <1>0, <1>1, GotoEffect DEF Labels, UnderLock
  <2> QED BY <1>0, <2>1, PlainStep
<1>2. CASE proc' = [proc EXCEPT ![p] = TailRead(@, proc[p].tail, "anchor")]
  <2>1. /\ proc'[p] = TailRead(proc[p], proc[p].tail, "anchor") /\ proc[p] \in ProcStates
        /\ \A q \in Procs \ {p} : proc'[q] = proc[q]
    BY <1>0, <1>2
  <2>5. /\ proc'[p].pc \in {"anchor", "release"}
        /\ proc'[p].tail = proc[p].tail /\ proc'[p].drafts = proc[p].drafts
        /\ proc'[p].todo = proc[p].todo /\ proc'[p].start = proc[p].start
        /\ proc'[p].pc = "anchor" =>
             proc'[p].at = Len(Events) /\ proc'[p].torn = lineage.cut
    BY <2>1 DEF TailRead, ProcStates, Events
  <2>2. DraftsSound(p)
    BY DEF ChainInv
  <2>3. DraftsSound(p)'
    BY <1>0, <2>2, <2>5 DEF DraftsSound
  <2>4. SealSound(p)'
    BY <1>0, <2>5 DEF SealSound
  <2> QED BY <1>0, <2>1, <2>3, <2>4, OneQuietStep
<1> QED BY <1>1, <1>2 DEF ReadTailForAnchors, AfterAnchors

\* What an append in flight writes follows the lineage and is all kept.
LEMMA InFlightSound ==
  ASSUME TypeInv, ChainInv, NEW p \in Procs, proc[p].pc \in {"anchor", "append"}
  PROVE  /\ InFlight(proc[p]) \in Seq(LineageEvents)
         /\ FollowFrom(TailDigest(Events), InFlight(proc[p]), SnapshotDigests)
         /\ \A i \in 1..Len(InFlight(proc[p])) : Named(InFlight(proc[p])[i]) \subseteq SnapshotDigests
<1>0. proc[p] \in ProcStates /\ DraftsSound(p) /\ SealSound(p) /\ LineageHasSnapshots
  BY DEF TypeInv, TypeOK, ChainInv
<1>1. CASE proc[p].pc = "anchor"
  <2>1. InFlight(proc[p]) = proc[p].drafts
    BY <1>1 DEF InFlight
  <2>2. {proc[p].todo[j] : j \in 1..Len(proc[p].todo)} = {}
    BY <1>0, <1>1, EmptySeq DEF DraftsSound
  <2> QED BY <1>0, <1>1, <2>1, <2>2 DEF DraftsSound, ProcStates
<1>2. CASE proc[p].pc = "append"
  <2> DEFINE e == SealedEvent(proc[p].parent, proc[p].new)
  <2>1. InFlight(proc[p]) = <<e>>
    BY <1>2 DEF InFlight
  <2>2. e \in LineageEvents
    BY <1>0 DEF ProcStates, SealedEvent, LineageEvents, Reasons, ContractDigests
  <2>3. /\ proc[p].parent = TailDigest(Events) /\ proc[p].new \in SnapshotDigests
        /\ proc[p].new # NoDigest
    BY <1>0, <1>2, NoDigestAssumption DEF SealSound, SnapshotDigests
  <2>4. /\ Follows(TailDigest(Events), e, SnapshotDigests)
        /\ Named(e) \subseteq SnapshotDigests
    BY <1>0, <2>3, TailHasSnapshot DEF Follows, SealedEvent, Named
  <2> HIDE DEF e
  <2>5. <<e>> \in Seq(LineageEvents) /\ Len(<<e>>) = 1 /\ <<e>>[1] = e
    BY <2>2
  <2> QED BY <2>1, <2>4, <2>5 DEF FollowFrom
<1> QED BY <1>1, <1>2

\* Under the lock the file is as it was read: the cut line is dropped and nothing else, and
\* what is written stands on lines of its own.
LEMMA WrittenWhole ==
  ASSUME TypeInv, ChainInv, NEW p \in Procs, proc[p].pc \in {"anchor", "append"},
         NEW events \in Seq(LineageEvents), NEW cut \in BOOLEAN
  PROVE  Written(proc[p], events, cut) =
           [events |-> Events \o events, cut |-> cut, bad |-> FALSE]
<1>1. /\ lineage \in [events : Seq(LineageEvents), cut : BOOLEAN, bad : BOOLEAN]
      /\ lineage.bad = FALSE /\ Events = lineage.events
      /\ proc[p].at = Len(Events) /\ proc[p].torn = lineage.cut
  BY DEF TypeInv, TypeOK, ChainInv, ChainNeverBroken, SealSound, Events
<1>2. Len(Events) \in Nat /\ SubSeq(Events, 1, Len(Events)) = Events
  BY <1>1, LenProperties, SubSeqProperties, SeqEqual
<1>3. /\ Started(proc[p]).events = Events
      /\ Started(proc[p]).cut = FALSE /\ Started(proc[p]).bad = FALSE
  BY <1>1, <1>2 DEF Started
<1> QED BY <1>3 DEF Written

\* An append writes what is in flight, or the start of it.
LEMMA InFlightAppended ==
  ASSUME TypeInv, ChainInv, NEW p \in Procs,
         AppendAnchors(p) \/ AppendSealed(p) \/ TearAppend(p)
  PROVE  /\ proc[p].pc \in {"anchor", "append"}
         /\ InFlight(proc[p]) \in Seq(LineageEvents)
         /\ \E n \in 0..Len(InFlight(proc[p])) :
              Events' = Events \o SubSeq(InFlight(proc[p]), 1, n)
         /\ AppendAnchors(p) \/ AppendSealed(p) => Events' = Events \o InFlight(proc[p])
         /\ ~lineage'.bad
<1> DEFINE events == InFlight(proc[p])
<1>0. proc[p].pc \in {"anchor", "append"} /\ proc[p] \in ProcStates
  BY DEF TypeInv, TypeOK, AppendAnchors, AppendSealed, TearAppend
<1>1. events \in Seq(LineageEvents)
  <2>1. SealedEvent(proc[p].parent, proc[p].new) \in LineageEvents
    BY <1>0 DEF ProcStates, SealedEvent, LineageEvents, Reasons, ContractDigests
  <2> QED BY <1>0, <2>1 DEF InFlight, ProcStates
<1>2. /\ Len(events) \in Nat /\ SubSeq(events, 1, Len(events)) = events
      /\ \A n \in 0..Len(events) : SubSeq(events, 1, n) \in Seq(LineageEvents)
  <2> HIDE DEF events
  <2> QED BY <1>1, SubSeqProperties, LenProperties, SeqEqual
<1>3. CASE AppendAnchors(p) \/ AppendSealed(p)
  <2>1. lineage' = Written(proc[p], events, FALSE)
    BY <1>3 DEF AppendAnchors, AppendSealed, InFlight
  <2>2. Events' = Events \o events /\ ~lineage'.bad
    <3> HIDE DEF events
    <3>1. lineage' = [events |-> Events \o events, cut |-> FALSE, bad |-> FALSE]
      BY <1>0, <1>1, <2>1, WrittenWhole
    <3>2. lineage'.events = Events \o events /\ lineage'.bad = FALSE
      BY <3>1
    <3> QED BY <3>2 DEF Events
  <2> QED BY <1>0, <1>1, <1>2, <2>2
<1>4. CASE TearAppend(p)
  <2>1. PICK n \in 0..Len(events), cut \in BOOLEAN :
          lineage' = Written(proc[p], SubSeq(events, 1, n), cut)
    BY <1>4 DEF TearAppend
  <2>2. Events' = Events \o SubSeq(events, 1, n) /\ ~lineage'.bad
    <3> HIDE DEF events
    <3>1. lineage' = [events |-> Events \o SubSeq(events, 1, n), cut |-> cut, bad |-> FALSE]
      BY <1>0, <1>2, <2>1, WrittenWhole
    <3>2. lineage'.events = Events \o SubSeq(events, 1, n) /\ lineage'.bad = FALSE
      BY <3>1
    <3> QED BY <3>2 DEF Events
  <2>3. ~(AppendAnchors(p) \/ AppendSealed(p)) \/ Events' = Events \o events
    BY <1>3, <1>4, <1>0, <1>1, <1>2, <2>2, WrittenWhole DEF AppendAnchors, AppendSealed, InFlight, Events
  <2> QED BY <1>0, <1>1, <2>2, <2>3
<1> QED BY <1>3, <1>4

LEMMA AppendsStep ==
  ASSUME TypeInv, LockInv, ChainInv, NEW p \in Procs,
         AppendAnchors(p) \/ AppendSealed(p) \/ TearAppend(p)
  PROVE  ChainInv'
<1> DEFINE events == InFlight(proc[p])
<1>0. /\ proc \in [Procs -> ProcStates] /\ proc[p] \in ProcStates
      /\ SnapshotDigests' = SnapshotDigests
      /\ proc[p].pc \in {"anchor", "append"}
  BY DEF TypeInv, TypeOK, AppendAnchors, AppendSealed, TearAppend, SnapshotDigests
<1>1. /\ events \in Seq(LineageEvents)
      /\ FollowFrom(TailDigest(Events), events, SnapshotDigests)
      /\ \A i \in 1..Len(events) : Named(events[i]) \subseteq SnapshotDigests
  BY <1>0, InFlightSound
<1>3. (\E n \in 0..Len(events) : Events' = Events \o SubSeq(events, 1, n)) /\ ~lineage'.bad
  BY InFlightAppended
<1>4. /\ proc'[p].pc \in {"idle", "release", "collect", "index"}
      /\ \A q \in Procs \ {p} : proc'[q] = proc[q]
  <2>1. \/ \E label \in {"release", "collect", "index"} : Goto(p, label)
        \/ Finish(p)
    BY DEF AppendAnchors, AppendSealed, TearAppend, AfterAnchors, Gone
  <2> QED BY <1>0, <2>1, GotoEffect, FinishEffect DEF Labels, UnderLock, Idle
<1>5. proc[p].pc \in Holding
  BY <1>0 DEF Holding, UnderLock
<1> HIDE DEF events
<1> QED BY <1>0, <1>1, <1>3, <1>4, <1>5, AppendStep

LEMMA NextKeepsChain == TypeInv /\ LockInv /\ ChainInv /\ [Next]_vars => ChainInv'
<1> SUFFICES ASSUME TypeInv, LockInv, ChainInv, [Next]_vars PROVE ChainInv'
  OBVIOUS
<1>1. CASE UNCHANGED vars
  BY <1>1, DamageStep DEF vars, storeVars
<1>2. CASE LoseLink \/ DamageGeneration \/ DamageSnapshot \/ LockAges
  BY <1>2, DamageStep DEF LoseLink, DamageGeneration, LockAges, storeVars
<1>3. ASSUME NEW p \in Procs,
             \/ Begin(p) \/ Step(p) \/ ConfirmReclaim(p)
             \/ Fail(p) \/ WriteOwnerFails(p) \/ Crash(p) \/ Exit(p) \/ TearAppend(p)
      PROVE  ChainInv'
  BY <1>3, LockStep, ObserveStep, SnapshotStep, ReadTailStep, AppendsStep, PrepareStep,
     PublishStep
  DEF Step
<1> QED BY <1>1, <1>2, <1>3 DEF Next, Fault

LEMMA InitChain == Init => ChainInv
<1> SUFFICES ASSUME Init PROVE ChainInv
  OBVIOUS
<1>1. Events = <<>> /\ DOMAIN Events = {}
  BY DEF Init, Events
<1>2. \A p \in Procs : proc[p].pc = "idle"
  BY DEF Init, Idle
<1>3. ~lineage.bad
  BY DEF Init
<1> QED BY <1>1, <1>2, <1>3
        DEF ChainInv, ChainNeverBroken, Chained, LineageHasSnapshots, DraftsSound, SealSound

-----------------------------------------------------------------------------
(* Theorems *)

\* The strengthening: what each operation is about to append follows the lineage
\* as it stands, because the lock keeps every other operation out between the read
\* of the tail and the append.
THEOREM ChainInvariant == KeepingSpec => []ChainInv
<1>1. Init => ChainInv
  BY InitChain
<1>2. TypeInv /\ LockInv /\ ChainInv /\ [Next]_vars => ChainInv'
  BY NextKeepsChain
<1> QED BY <1>1, <1>2, TypeInvariant, LockInvariant, PTL DEF KeepingSpec, Spec

\* Whatever is lost, damaged, torn, crashed or repaired, every lineage event follows
\* the one before it or is a well-formed anchor: lineage-health never reports
\* "lineage-chain-broken", for any number of processes, contracts and faults.
THEOREM LineageIsAChain == KeepingSpec => []ChainNeverBroken
<1>1. ChainInv => ChainNeverBroken
  BY DEF ChainInv
<1> QED BY <1>1, ChainInvariant, PTL

\* Every digest the lineage names has a snapshot, which is what lets a revert find
\* the contract it names: lineage-health never reports "snapshot-missing".
THEOREM LineageSnapshotsExist == KeepingSpec => []LineageHasSnapshots
<1>1. ChainInv => LineageHasSnapshots
  BY DEF ChainInv
<1> QED BY <1>1, ChainInvariant, PTL
=============================================================================
