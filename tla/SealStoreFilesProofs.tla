------------------------ MODULE SealStoreFilesProofs ------------------------
(***************************************************************************)
(* What the files of SealStore hold while a seal is under way, for any     *)
(* number of processes, readers, contracts, sequences and operations: what *)
(* a seal replaces is what it had read, the lineage follows the link, and  *)
(* one seal does not take away what a reader has resolved.  Every theorem  *)
(* is about KeepingSpec, the behaviours in which no reclaim moves aside    *)
(* the lock of a process that lives: SealStoreProofs shows when all are.   *)
(***************************************************************************)
EXTENDS SealStoreReaders, SealStoreProofs

-----------------------------------------------------------------------------
(* What the code reads *)

\* The program's own failures and damaged snapshots, but nobody takes the link or
\* the files of a generation away.
NothingIsLost == Faults \cap {"link-lost", "generation-damaged"} = {}

\* The files whose contents the next sequence, the parent and N-1 are read from.
files == <<link, legacy, gens>>

LEMMA ReadsStay ==
  ASSUME UNCHANGED files
  PROVE  /\ Linked' = Linked /\ ParentDigest' = ParentDigest /\ Generations' = Generations
         /\ PreviousDigest' = PreviousDigest
<1>1. Generations' = Generations
  BY DEF files, Generations
<1>2. Below(link)' = Below(link)
  BY <1>1 DEF files, Below
<1>3. Linked' = Linked /\ ParentDigest' = ParentDigest
  BY DEF files, Linked, ParentDigest, LinkedContents
<1>4. PreviousDigest' = PreviousDigest
  BY <1>2 DEF files, PreviousDigest
<1> QED BY <1>1, <1>3, <1>4

\* Sequences are compared as integers.
LEMMA SeqsAreInts == \A s \in Seqs : s \in Int /\ s >= 0
  BY GenerationsAreSeqs DEF Seqs

\* What follows from a real directory in the link's place, and from a link.
LEMMA LinkedCases ==
  ASSUME TypeOK
  PROVE  /\ Linked = DirectoryLink <=> legacy # Absent
         /\ legacy = Absent => Linked = link
         /\ link = NoLink \/ legacy # Absent \/ Linked = link
<1>1. link # DirectoryLink
  BY SeqsAreInts DEF TypeOK, DirectoryLink
<1> QED BY <1>1 DEF Linked

\* The next sequence is above the linked one and above every generation.
LEMMA NextSeqIsAbove ==
  ASSUME NEW linked \in {NoLink, DirectoryLink} \cup Seqs
  PROVE  /\ NextSeq(linked) \in Int /\ NextSeq(linked) > linked
         /\ \A s \in Generations : s < NextSeq(linked)
<1> DEFINE S == {0} \cup Generations \cup {linked}
<1>1. S \in SUBSET (-1..MaxSeq) /\ S # {} /\ linked \in S /\ Generations \subseteq S
  BY GenerationsAreSeqs DEF NoLink, DirectoryLink, Seqs
<1>2. Highest(S) \in S /\ \A y \in S : y <= Highest(S)
  <2> HIDE DEF S
  <2> QED BY <1>1, GenerationsAreSeqs, HighestIsMax
<1>3. Highest(S) \in Int /\ \A y \in S : y \in Int
  <2> HIDE DEF S
  <2>1. \A y \in -1..MaxSeq : y \in Int
    BY GenerationsAreSeqs
  <2> QED BY <1>1, <1>2, <2>1
<1>4. NextSeq(linked) = Highest(S) + 1
  BY DEF NextSeq
<1> HIDE DEF S
<1> QED BY <1>1, <1>2, <1>3, <1>4

\* The highest of a set of generations is the one that is as high as any of them.
LEMMA HighestIs ==
  ASSUME NEW S \in SUBSET (0..MaxSeq), NEW s \in S, \A y \in S : y <= s
  PROVE  Highest(S) = s
<1>1. S \in SUBSET (-1..MaxSeq) /\ S # {}
  BY GenerationsAreSeqs
<1>2. Highest(S) \in S /\ \A y \in S : y <= Highest(S)
  BY <1>1, GenerationsAreSeqs, HighestIsMax
<1>3. s <= Highest(S) /\ Highest(S) <= s
  BY <1>2
<1>4. s \in Int /\ Highest(S) \in Int
  <2>1. \A y \in 0..MaxSeq : y \in Int
    BY GenerationsAreSeqs
  <2> QED BY <1>2, <2>1
<1> QED BY <1>3, <1>4

-----------------------------------------------------------------------------
(* What an operation has read is still so *)

Reading == {"snapshot", "anchor", "collect"}
Making == BeforeSwap \cup {"rollback"}

\* With nothing lost, what is linked verifies, and a real directory stands in the
\* link's place.
LinkReads ==
  /\ legacy \in Digests \cup {Absent}
  /\ legacy # Absent => link = NoLink
  /\ link # NoLink => gens[link] \in Digests

\* The legacy directory the operation found has become the generation below its own.
MovedAside(p) ==
  /\ proc[p].pc \in {"swap", "rollback"}
  /\ proc[p].linked = DirectoryLink /\ legacy = Absent /\ link = NoLink
  /\ proc[p].parent \in Digests /\ gens[proc[p].seq - 1] = proc[p].parent

\* Until its swap an operation goes on only with what its caller had read, and what
\* it has read itself is still linked.  The directory it makes is above every other,
\* and the ones it has left are no higher than the linked one.
SeesTheStore(p) ==
  /\ proc[p].pc \in Reading \cup Making =>
       /\ proc[p].check = "base" => proc[p].base = proc[p].linked
       /\ proc[p].check = "expect" => proc[p].expect = proc[p].parent
       /\ (proc[p].linked = Linked /\ proc[p].parent = ParentDigest) \/ MovedAside(p)
  /\ proc[p].pc = "aside" => legacy # Absent
  /\ proc[p].pc = "swap" /\ proc[p].linked = DirectoryLink => MovedAside(p)
  /\ proc[p].pc \in Making =>
       /\ proc[p].seq > link
       /\ link # NoLink => \A s \in Generations : s <= link \/ s = proc[p].seq
  /\ proc[p].pc \in {"publish", "symlink", "aside", "swap", "event", "append"} =>
       gens[proc[p].seq] = proc[p].new

\* From its swap on, what the operation made is what is linked.
SwappedIn(p) ==
  \/ proc[p].pc \in {"event", "append", "sweep"}
  \/ proc[p].pc = "index" /\ proc[p].op = "seal"

SeesItsSeal(p) == SwappedIn(p) => link = proc[p].seq /\ legacy = Absent

ViewInv == LinkReads /\ \A p \in Procs : SeesTheStore(p) /\ SeesItsSeal(p)

\* The labels ViewInv speaks of, all of them under the lock.
Viewed == Reading \cup Making \cup {"event", "append", "index", "sweep"}

LEMMA ViewedIsHeld == Viewed \subseteq Holding /\ Viewed \subseteq Labels
  BY DEF Viewed, Reading, Making, Holding, UnderLock, BeforeSwap, Labels

LEMMA NotViewed ==
  ASSUME NEW p \in Procs, proc[p].pc \notin Viewed
  PROVE  SeesTheStore(p) /\ SeesItsSeal(p)
  BY DEF SeesTheStore, SeesItsSeal, SwappedIn, Viewed, Reading, Making, BeforeSwap

\* While one process is past acquireLock no other is: nobody else's view matters.
LEMMA OthersAreOut ==
  ASSUME LockInv, NEW p \in Procs, proc[p].pc \in Holding
  PROVE  \A q \in Procs \ {p} : proc[q].pc \notin Holding
  BY DEF LockInv

\* A step under the lock.
LEMMA HeldStep ==
  ASSUME LockInv, NEW p \in Procs, proc[p].pc \in Holding,
         \A q \in Procs \ {p} : proc'[q] = proc[q],
         LinkReads', SeesTheStore(p)', SeesItsSeal(p)'
  PROVE  ViewInv'
<1>1. ASSUME NEW q \in Procs \ {p} PROVE SeesTheStore(q)' /\ SeesItsSeal(q)'
  <2>1. proc'[q].pc \notin Viewed
    BY OthersAreOut, ViewedIsHeld
  <2> QED BY <2>1
        DEF SeesTheStore, SeesItsSeal, SwappedIn, Viewed, Reading, Making, BeforeSwap
<1> QED BY <1>1 DEF ViewInv

\* A step that leaves these files alone.
LEMMA SameFilesStep ==
  ASSUME ViewInv, UNCHANGED files, NEW p \in Procs,
         \A q \in Procs \ {p} : proc'[q] = proc[q],
         SeesTheStore(p)', SeesItsSeal(p)'
  PROVE  ViewInv'
<1>1. LinkReads'
  BY DEF ViewInv, LinkReads, files
<1>2. ASSUME NEW q \in Procs \ {p} PROVE SeesTheStore(q)' /\ SeesItsSeal(q)'
  <2>1. SeesTheStore(q) /\ SeesItsSeal(q) /\ proc'[q] = proc[q]
    BY DEF ViewInv
  <2>2. MovedAside(q)' <=> MovedAside(q)
    BY <2>1 DEF MovedAside, files
  <2> QED BY <2>1, <2>2, ReadsStay DEF SeesTheStore, SeesItsSeal, SwappedIn, files
<1> QED BY <1>1, <1>2 DEF ViewInv

LEMMA NoProcessMoves ==
  ASSUME ViewInv, UNCHANGED files, proc' = proc
  PROVE  ViewInv'
<1>1. LinkReads'
  BY DEF ViewInv, LinkReads, files
<1>2. ASSUME NEW q \in Procs PROVE SeesTheStore(q)' /\ SeesItsSeal(q)'
  <2>1. SeesTheStore(q) /\ SeesItsSeal(q)
    BY DEF ViewInv
  <2>2. MovedAside(q)' <=> MovedAside(q)
    BY DEF MovedAside, files
  <2> QED BY <2>1, <2>2, ReadsStay DEF SeesTheStore, SeesItsSeal, SwappedIn, files
<1> QED BY <1>1, <1>2 DEF ViewInv

\* The moves of an operation at which it keeps its view without touching these files.
KeepsView(r, label) ==
  \/ label \notin Viewed
  \/ label \in {"anchor", "collect"} /\ r.pc \in {"snapshot", "anchor"}
  \/ label = "index" /\ r.op # "seal"
  \/ label = "symlink" /\ r.pc = "publish"
  \/ label = "aside" /\ r.pc = "symlink" /\ r.linked = DirectoryLink
  \/ label = "swap" /\ r.pc = "symlink" /\ r.linked # DirectoryLink
  \/ label = "rollback" /\ r.pc \in BeforeSwap
  \/ label = "append" /\ r.pc = "event"
  \/ label = "index" /\ r.pc = "append"
  \/ label = "sweep" /\ r.pc = "index" /\ r.op = "seal"

\* A process moves on with what it was asked and has read of the other files.
Moves(p, label) ==
  /\ proc'[p].pc = label /\ SameRequest(proc'[p], proc[p])
  /\ \A q \in Procs \ {p} : proc'[q] = proc[q]

LEMMA TailReadMoves ==
  ASSUME TypeInv, NEW p \in Procs, NEW tail, NEW label \in {"anchor", "append"},
         proc' = [proc EXCEPT ![p] = TailRead(@, tail, label)]
  PROVE  Moves(p, label) \/ Moves(p, "release")
<1>1. /\ proc[p] \in ProcStates /\ proc'[p] = TailRead(proc[p], tail, label)
      /\ \A q \in Procs \ {p} : proc'[q] = proc[q]
  BY DEF TypeInv, TypeOK
<1>2. \E l \in {label, "release"} :
        TailRead(proc[p], tail, label).pc = l /\ SameRequest(TailRead(proc[p], tail, label), proc[p])
  BY <1>1 DEF TailRead, ProcStates, SameRequest
<1> QED BY <1>1, <1>2 DEF Moves

LEMMA MoveKeepsView ==
  ASSUME TypeInv, ViewInv, UNCHANGED files, NEW p \in Procs, NEW label \in Labels,
         Moves(p, label), KeepsView(proc[p], label)
  PROVE  ViewInv'
<1> DEFINE r == proc[p]
           s == proc'[p]
<1>1. s.pc = label /\ SameRequest(s, r) /\ \A q \in Procs \ {p} : proc'[q] = proc[q]
  BY DEF Moves
<1>2. SeesTheStore(p) /\ SeesItsSeal(p)
  BY DEF ViewInv
<1>3. UNCHANGED <<Linked, ParentDigest, Generations, link, legacy, gens>>
  BY ReadsStay DEF files
<1>4. SeesTheStore(p)'
  <2>1. label \in Reading \cup Making => r.pc \in Reading \cup Making
    BY DEF KeepsView, Viewed, Reading, Making, BeforeSwap
  <2>2. label \in Making => r.pc \in Making
    BY DEF KeepsView, Viewed, Reading, Making, BeforeSwap
  <2>3. MovedAside(p) /\ label \in Reading \cup Making => MovedAside(p)'
    <3>1. MovedAside(p) /\ label \in Reading \cup Making => label = "rollback"
      BY DEF MovedAside, KeepsView, Viewed, Reading, Making, BeforeSwap
    <3> QED BY <1>1, <1>3, <3>1 DEF MovedAside, SameRequest
  <2>4. /\ label \in {"publish", "symlink", "aside", "swap", "event", "append"} =>
             r.pc \in {"publish", "symlink", "aside", "swap", "event", "append"}
        /\ label = "swap" => r.linked # DirectoryLink
    BY DEF KeepsView, Viewed, Reading, Making, BeforeSwap
  <2>5. label = "aside" => legacy # Absent
    <3>1. label = "aside" => r.linked = DirectoryLink /\ r.pc = "symlink"
      BY DEF KeepsView, Viewed, Reading, Making, BeforeSwap
    <3>2. r.pc = "symlink" => r.linked = Linked
      BY <1>2 DEF SeesTheStore, MovedAside, Making, BeforeSwap
    <3> QED BY <3>1, <3>2, LinkedCases DEF TypeInv
  <2> QED BY <1>1, <1>2, <1>3, <2>1, <2>2, <2>3, <2>4, <2>5 DEF SeesTheStore, SameRequest
<1>5. SeesItsSeal(p)'
  <2>1. SwappedIn(p)' => SwappedIn(p)
    BY <1>1 DEF SwappedIn, SameRequest, KeepsView, Viewed, Reading, Making, BeforeSwap
  <2> QED BY <1>1, <1>2, <1>3, <2>1 DEF SeesItsSeal, SameRequest
<1> QED BY <1>1, <1>4, <1>5, SameFilesStep

LEMMA GotoKeepsView ==
  ASSUME TypeInv, ViewInv, UNCHANGED files, NEW p \in Procs, NEW label \in Labels,
         Goto(p, label), KeepsView(proc[p], label)
  PROVE  ViewInv'
  BY MoveKeepsView, GotoEffect DEF Moves, TypeInv, TypeOK

\* acquireLock, release, the end of an operation and a fault that unwinds it.
LEMMA LockStepKeepsView ==
  ASSUME TypeInv, ViewInv, NEW p \in Procs,
         \/ Begin(p) \/ TryLock(p) \/ WriteOwner(p) \/ RetryLock(p) \/ ReadOwner(p)
         \/ ProbeOwner(p) \/ ConfirmReclaim(p)
         \/ RecreateLock(p) \/ Release(p) \/ Fail(p) \/ WriteOwnerFails(p) \/ Crash(p)
         \/ Exit(p) \/ TearAppend(p)
  PROVE  ViewInv'
<1>0. proc \in [Procs -> ProcStates] /\ UNCHANGED files
  BY DEF TypeInv, TypeOK, Begin, TryLock, WriteOwner, RetryLock, ReadOwner, ProbeOwner,
         ConfirmReclaim, RecreateLock,
         Release, Fail, WriteOwnerFails, Crash, Exit, Gone, TearAppend, storeVars, files
<1>1. ASSUME proc'[p].pc \notin Viewed, \A q \in Procs \ {p} : proc'[q] = proc[q]
      PROVE  ViewInv'
  <2>1. SeesTheStore(p)' /\ SeesItsSeal(p)'
    BY <1>1 DEF SeesTheStore, SeesItsSeal, SwappedIn, Viewed, Reading, Making, BeforeSwap
  <2> QED BY <1>0, <1>1, <2>1, SameFilesStep
<1>2. CASE \E req \in Requests : proc' = [proc EXCEPT ![p] = req]
  <2>1. proc'[p].pc = "lock" /\ \A q \in Procs \ {p} : proc'[q] = proc[q]
    BY <1>0, <1>2, RequestsType
  <2> QED BY <1>1, <2>1, LabelsApart, ViewedIsHeld
<1>3. CASE Finish(p)
  <2>1. proc'[p].pc = "idle" /\ \A q \in Procs \ {p} : proc'[q] = proc[q]
    BY <1>0, <1>3, FinishEffect DEF Idle
  <2> QED BY <1>1, <2>1, LabelsApart, ViewedIsHeld
<1>4. CASE \E label \in {"retry", "inspect", "probe", "owner", "observe", "confirm",
                        "recreate", "release"} :
             Goto(p, label)
  BY <1>0, <1>4, GotoKeepsView
  DEF KeepsView, Viewed, Reading, Making, BeforeSwap, Labels, UnderLock
<1>5. CASE proc[p].pc \in BeforeSwap /\ Goto(p, "rollback")
  BY <1>0, <1>5, GotoKeepsView DEF KeepsView, Labels, UnderLock
<1> QED BY <1>2, <1>3, <1>4, <1>5
  DEF Begin, TryLock, WriteOwner, RetryLock, ReadOwner, ProbeOwner, ConfirmReclaim,
      RecreateLock, Release, Fail,
      WriteOwnerFails, Crash, Exit, Gone, TearAppend

\* What an operation that is not refused remembers of its reads.
LEMMA ObservedKeeps ==
  ASSUME NEW req \in ProcStates
  PROVE  /\ Observed(req).pc = "snapshot" /\ Observed(req).op = req.op
         /\ Observed(req).check = req.check /\ Observed(req).base = req.base
         /\ Observed(req).expect = req.expect /\ Observed(req).new = req.new
         /\ Observed(req).policy = req.policy /\ Observed(req).reindex = req.reindex
         /\ Observed(req).linked = Linked /\ Observed(req).parent = ParentDigest
         /\ Observed(req).tail = TailDigest(lineage.events) /\ Observed(req).todo = Sources
         /\ Observed(req).drafts = Planned(req)
  BY DEF Observed, ProcStates

LEMMA ObservedStart ==
  ASSUME NEW req \in ProcStates
  PROVE  Observed(req).start <=> (lineage.events = <<>> /\ ParentDigest # NoDigest)
<1> DEFINE fresh == lineage.events = <<>> /\ ParentDigest # NoDigest
           asked == [req EXCEPT !.pc = "snapshot", !.linked = Linked, !.parent = ParentDigest,
                                !.tail = TailDigest(lineage.events), !.todo = Sources]
<1>1. Observed(req) = [asked EXCEPT !.start = fresh, !.drafts = Planned(req)]
  BY DEF Observed
<1>2. "start" \in DOMAIN asked
  BY DEF ProcStates
<1> HIDE DEF asked
<1>3. [asked EXCEPT !.start = fresh, !.drafts = Planned(req)].start = fresh
  BY <1>2
<1> QED BY <1>1, <1>3

LEMMA ObserveKeepsView ==
  ASSUME TypeInv, ViewInv, NEW p \in Procs, Observe(p)
  PROVE  ViewInv'
<1>0. /\ proc \in [Procs -> ProcStates] /\ proc[p] \in ProcStates /\ proc[p].pc = "observe"
      /\ UNCHANGED files
  BY DEF TypeInv, TypeOK, Observe, storeVars, files
<1>1. CASE Goto(p, "release")
  BY <1>0, <1>1, GotoKeepsView
  DEF KeepsView, Viewed, Reading, Making, BeforeSwap, Labels, UnderLock
<1>2. CASE ~Refused(proc[p]) /\ proc' = [proc EXCEPT ![p] = Observed(proc[p])]
  <2>1. proc'[p] = Observed(proc[p]) /\ \A q \in Procs \ {p} : proc'[q] = proc[q]
    BY <1>0, <1>2
  <2>2. /\ proc[p].check = "base" => proc[p].base = Linked
        /\ proc[p].check = "expect" => proc[p].expect = ParentDigest
    BY <1>2 DEF Refused
  <2>3. /\ proc'[p].pc = "snapshot" /\ proc'[p].linked = Linked /\ proc'[p].parent = ParentDigest
        /\ proc'[p].check = proc[p].check /\ proc'[p].base = proc[p].base
        /\ proc'[p].expect = proc[p].expect
    <3>1. /\ Observed(proc[p]).pc = "snapshot" /\ Observed(proc[p]).linked = Linked
          /\ Observed(proc[p]).parent = ParentDigest
          /\ Observed(proc[p]).check = proc[p].check /\ Observed(proc[p]).base = proc[p].base
          /\ Observed(proc[p]).expect = proc[p].expect
      BY <1>0, ObservedKeeps
    <3> QED BY <2>1, <3>1
  <2>4. SeesTheStore(p)' /\ SeesItsSeal(p)'
    BY <1>0, <2>2, <2>3, ReadsStay
    DEF SeesTheStore, SeesItsSeal, SwappedIn, Reading, Making, BeforeSwap
  <2> QED BY <1>0, <2>1, <2>4, SameFilesStep
<1> QED BY <1>1, <1>2 DEF Observe

\* What a snapshotted source changes of its operation.
LEMMA SnapshotSourceFields ==
  ASSUME TypeInv, NEW p \in Procs, SnapshotSource(p)
  PROVE  LET r == proc[p]
             s == proc'[p]
             d == Head(r.todo)
         IN  /\ r.pc = "snapshot" /\ s.pc \in {"snapshot", "release"}
             /\ s.op = r.op /\ s.check = r.check /\ s.base = r.base /\ s.expect = r.expect
             /\ s.linked = r.linked /\ s.parent = r.parent /\ s.tail = r.tail /\ s.new = r.new
             /\ s.todo = Tail(r.todo) /\ s.start = r.start
             /\ s.pc = "snapshot" =>
                  \/ s.drafts = r.drafts /\ ((snapshots[d] = "corrupt" /\ d # r.parent) \/ ~r.start)
                  \/ r.start /\ s.drafts = Append(r.drafts, BootstrapAnchor(r.drafts, d))
             /\ \A q \in Procs \ {p} : proc'[q] = proc[q]
<1>0. proc \in [Procs -> ProcStates] /\ proc[p] \in ProcStates
  BY DEF TypeInv, TypeOK
<1> DEFINE d == Head(proc[p].todo)
<1>1. CASE snapshots[d] = "corrupt"
  BY <1>0, <1>1 DEF SnapshotSource, ProcStates
<1>2. CASE snapshots[d] # "corrupt"
  BY <1>0, <1>2 DEF SnapshotSource, ProcStates
<1> QED BY <1>1, <1>2

LEMMA SnapshotSourceKeepsView ==
  ASSUME TypeInv, ViewInv, NEW p \in Procs, SnapshotSource(p)
  PROVE  ViewInv'
<1>0. UNCHANGED files
  BY DEF SnapshotSource, files
<1>1. SeesTheStore(p)
  BY DEF ViewInv
<1>2. SeesTheStore(p)' /\ SeesItsSeal(p)'
  BY <1>0, <1>1, SnapshotSourceFields, ReadsStay
  DEF SeesTheStore, SeesItsSeal, SwappedIn, MovedAside, Reading, Making, BeforeSwap
<1> QED BY <1>0, <1>2, SnapshotSourceFields, SameFilesStep

\* The steps that read or write everything else: the anchors, the snapshot, the
\* temporary link, the event and the index entry.
LEMMA OtherWritesKeepView ==
  ASSUME TypeInv, ViewInv, NEW p \in Procs,
         \/ ReadTailForAnchors(p) \/ AppendAnchors(p) \/ PublishSnapshot(p) \/ MakeLinkTmp(p)
         \/ ReadTailForSeal(p) \/ AppendSealed(p) \/ WriteIndex(p)
         \/ SweepGeneration(p) /\ UNCHANGED gens
  PROVE  ViewInv'
<1>0. /\ proc[p].pc \in Labels /\ UNCHANGED files
  BY DEF TypeInv, TypeOK, ProcStates, ReadTailForAnchors, AppendAnchors, PublishSnapshot,
         MakeLinkTmp, ReadTailForSeal, AppendSealed, WriteIndex, SweepGeneration, storeVars,
         files
<1>1. PICK label \in Labels : (Moves(p, label) /\ KeepsView(proc[p], label)) \/ proc' = proc
  <2>0. \A label \in Labels : Goto(p, label) => Moves(p, label)
    BY GotoEffect DEF Moves, TypeInv, TypeOK
  <2>1. CASE ReadTailForAnchors(p) \/ AppendAnchors(p)
    <3>1. \E label \in {"anchor", "collect", "index", "release"} :
            /\ Moves(p, label) /\ proc[p].pc \in {"snapshot", "anchor"}
            /\ label = "index" => proc[p].op # "seal"
      <4>1. {"anchor", "collect", "index", "release"} \subseteq Labels
        BY DEF Labels, UnderLock
      <4>2. CASE ReadTailForAnchors(p) /\ ~Goto(p, AfterAnchors(proc[p]))
        <5>1. /\ proc[p].pc = "snapshot"
              /\ proc' = [proc EXCEPT ![p] = TailRead(@, proc[p].tail, "anchor")]
          BY <4>2 DEF ReadTailForAnchors
        <5>2. Moves(p, "anchor") \/ Moves(p, "release")
          BY <5>1, TailReadMoves
        <5> QED BY <5>1, <5>2
      <4>3. CASE Goto(p, AfterAnchors(proc[p]))
        <5>1. proc[p].pc \in {"snapshot", "anchor"}
          BY <2>1 DEF ReadTailForAnchors, AppendAnchors
        <5>2. /\ AfterAnchors(proc[p]) \in {"collect", "index", "release"}
              /\ AfterAnchors(proc[p]) = "index" => proc[p].op # "seal"
          BY DEF AfterAnchors
        <5> QED BY <2>0, <4>1, <4>3, <5>1, <5>2
      <4> QED BY <2>1, <4>2, <4>3 DEF AppendAnchors
    <3>2. \A label \in {"anchor", "collect", "index", "release"} :
            /\ label \in Labels
            /\ proc[p].pc \in {"snapshot", "anchor"} /\ (label = "index" => proc[p].op # "seal")
                 => KeepsView(proc[p], label)
      BY DEF KeepsView, Viewed, Reading, Making, BeforeSwap, Labels, UnderLock
    <3> QED BY <3>1, <3>2
  <2>2. CASE PublishSnapshot(p) \/ MakeLinkTmp(p)
    BY <2>0, <2>2
    DEF PublishSnapshot, MakeLinkTmp, KeepsView, Viewed, Reading, Making, BeforeSwap, Labels,
        UnderLock
  <2>3. CASE ReadTailForSeal(p) \/ AppendSealed(p) \/ WriteIndex(p)
    <3>1. CASE ReadTailForSeal(p)
      <4>1. \E label \in {"append", "release"} : Moves(p, label) /\ proc[p].pc = "event"
        BY <3>1, TailReadMoves DEF ReadTailForSeal
      <4> QED BY <4>1
          DEF KeepsView, Viewed, Reading, Making, BeforeSwap, Labels, UnderLock
    <3>2. CASE AppendSealed(p) \/ WriteIndex(p)
      BY <2>0, <3>2
      DEF AppendSealed, WriteIndex, KeepsView, Viewed, Reading, Making, BeforeSwap, Labels,
          UnderLock
    <3> QED BY <2>3, <3>1, <3>2
  <2>4. CASE SweepGeneration(p)
    BY <2>0, <2>4, <1>0
    DEF SweepGeneration, KeepsView, Viewed, Reading, Making, BeforeSwap, Labels, UnderLock
  <2> QED BY <2>1, <2>2, <2>3, <2>4
<1> QED BY <1>0, <1>1, MoveKeepsView, NoProcessMoves

-----------------------------------------------------------------------------
(* The steps that make, move and collect directories *)

\* A step that leaves the linked directory as it is.
LEMMA ParentStays ==
  ASSUME UNCHANGED <<link, legacy>>,
         legacy # Absent \/ link = NoLink \/ gens'[link] = gens[link]
  PROVE  Linked' = Linked /\ ParentDigest' = ParentDigest
<1>1. Linked' = Linked
  BY DEF Linked
<1>2. LinkedContents' = LinkedContents
  BY DEF LinkedContents
<1> QED BY <1>1, <1>2 DEF ParentDigest

\* One directory other than the linked one is emptied, filled or removed.
LEMMA OtherDirectory ==
  ASSUME TypeOK, LinkReads, UNCHANGED <<link, legacy>>,
         NEW s \in Seqs, NEW c, gens' = [gens EXCEPT ![s] = c],
         link # NoLink => s # link
  PROVE  /\ LinkReads' /\ Linked' = Linked /\ ParentDigest' = ParentDigest
         /\ gens'[s] = c /\ \A t \in Seqs \ {s} : gens'[t] = gens[t]
         /\ Generations' \subseteq Generations \cup {s}
         /\ c = Absent => Generations' = Generations \ {s}
<1>1. gens'[s] = c /\ \A t \in Seqs \ {s} : gens'[t] = gens[t]
  BY DEF TypeOK
<1>2. link # NoLink => gens'[link] = gens[link]
  BY <1>1 DEF TypeOK
<1>3. LinkReads'
  BY <1>2 DEF LinkReads
<1>4. Linked' = Linked /\ ParentDigest' = ParentDigest
  BY <1>2, ParentStays
<1>5. /\ Generations' \subseteq Generations \cup {s}
      /\ c = Absent => Generations' = Generations \ {s}
  BY <1>1 DEF Generations
<1> QED BY <1>1, <1>3, <1>4, <1>5

LEMMA LinkIsRetained ==
  ASSUME TypeInv, link # NoLink
  PROVE  link \in Retained(link)
<1>1. link # DirectoryLink
  BY SeqsAreInts DEF TypeInv, TypeOK, DirectoryLink
<1> QED BY <1>1 DEF Retained

LEMMA ErodeEffect ==
  ASSUME TypeInv, NEW s \in Seqs, Erode(s)
  PROVE  \E c \in {Absent, Partial} : gens' = [gens EXCEPT ![s] = c]
  BY DEF Erode, TypeInv, TypeOK

LEMMA CollectOrphanKeepsView ==
  ASSUME TypeInv, LockInv, ViewInv, NEW p \in Procs, CollectOrphan(p)
  PROVE  ViewInv'
<1>1. PICK s \in Generations \ Retained(proc[p].linked) : Erode(s)
  BY DEF CollectOrphan
<1>2. /\ proc[p].pc = "collect" /\ UNCHANGED <<link, legacy>> /\ proc' = proc
      /\ proc[p].pc \in Holding
  BY DEF CollectOrphan, Holding, UnderLock
<1>3. LinkReads /\ SeesTheStore(p) /\ TypeOK
  BY DEF ViewInv, TypeInv
<1>4. proc[p].linked = Linked /\ proc[p].parent = ParentDigest
  BY <1>2, <1>3 DEF SeesTheStore, Reading, Making, BeforeSwap, MovedAside
<1>5. link # NoLink => s # link
  <2>1. link # NoLink => proc[p].linked = link
    BY <1>3, <1>4, LinkedCases DEF LinkReads
  <2> QED BY <1>1, <2>1, LinkIsRetained
<1>6. s \in Seqs /\ \E c \in {Absent, Partial} : gens' = [gens EXCEPT ![s] = c]
  BY <1>1, ErodeEffect DEF Generations
<1>7. LinkReads' /\ Linked' = Linked /\ ParentDigest' = ParentDigest
  BY <1>2, <1>3, <1>5, <1>6, OtherDirectory
<1>8. SeesTheStore(p)' /\ SeesItsSeal(p)'
  BY <1>2, <1>3, <1>4, <1>7
  DEF SeesTheStore, SeesItsSeal, SwappedIn, Reading, Making, BeforeSwap
<1> QED BY <1>2, <1>7, <1>8, HeldStep

LEMMA SweepKeepsView ==
  ASSUME TypeInv, LockInv, ViewInv, NEW p \in Procs, SweepGeneration(p)
  PROVE  ViewInv'
<1>1. CASE UNCHANGED gens
  BY <1>1, OtherWritesKeepView
<1>2. CASE \E s \in Generations \ Retained(proc[p].seq) : Erode(s) /\ proc' = proc
  <2>1. PICK s \in Generations \ Retained(proc[p].seq) : Erode(s) /\ proc' = proc
    BY <1>2
  <2>2. /\ proc[p].pc = "sweep" /\ UNCHANGED <<link, legacy>> /\ proc[p].pc \in Holding
    BY DEF SweepGeneration, Holding, UnderLock
  <2>3. LinkReads /\ SeesItsSeal(p) /\ TypeOK
    BY DEF ViewInv, TypeInv
  <2>4. link = proc[p].seq /\ legacy = Absent
    BY <2>2, <2>3 DEF SeesItsSeal, SwappedIn
  <2>5. link # NoLink => s # link
    BY <2>1, <2>4, LinkIsRetained
  <2>6. s \in Seqs /\ \E c \in {Absent, Partial} : gens' = [gens EXCEPT ![s] = c]
    BY <2>1, ErodeEffect DEF Generations
  <2>7. LinkReads'
    BY <2>2, <2>3, <2>5, <2>6, OtherDirectory
  <2>8. SeesTheStore(p)' /\ SeesItsSeal(p)'
    BY <2>1, <2>2, <2>4
    DEF SeesTheStore, SeesItsSeal, SwappedIn, Reading, Making, BeforeSwap
  <2> QED BY <2>1, <2>2, <2>7, <2>8, HeldStep
<1> QED BY <1>1, <1>2 DEF SweepGeneration

\* With nothing else left, the generations are the linked one and the one below it.
LEMMA RetainedAreNotAbove ==
  ASSUME TypeInv, link # NoLink
  PROVE  \A s \in Retained(link) : s <= link
<1>1. link # DirectoryLink /\ link \in Int
  BY SeqsAreInts DEF TypeInv, TypeOK, DirectoryLink
<1>2. Below(link) # {} => Highest(Below(link)) <= link
  <2> SUFFICES ASSUME Below(link) # {} PROVE Highest(Below(link)) <= link
    OBVIOUS
  <2>1. Below(link) \in SUBSET (-1..MaxSeq)
    <3>1. Below(link) \subseteq Generations
      BY DEF Below
    <3>2. 0..MaxSeq \subseteq -1..MaxSeq
      BY GenerationsAreSeqs
    <3> QED BY <3>1, <3>2, GenerationsAreSeqs
  <2>2. Highest(Below(link)) \in Below(link)
    BY <2>1, GenerationsAreSeqs, HighestIsMax
  <2>3. \A y \in Below(link) : y < link /\ y \in Int
    BY <2>1, GenerationsAreSeqs DEF Below
  <2> QED BY <1>1, <2>2, <2>3
<1> QED BY <1>1, <1>2 DEF Retained

LEMMA MakeGenerationKeepsView ==
  ASSUME TypeInv, LockInv, ViewInv, NEW p \in Procs, MakeGeneration(p)
  PROVE  ViewInv'
<1> DEFINE s == NextSeq(proc[p].linked)
<1>0. /\ proc[p].pc = "collect" /\ UNCHANGED <<link, legacy>> /\ proc[p].pc \in Holding
      /\ proc \in [Procs -> ProcStates] /\ proc[p] \in ProcStates
      /\ LinkReads /\ SeesTheStore(p) /\ TypeOK
      /\ s \in Seqs /\ gens' = [gens EXCEPT ![s] = Partial]
      /\ Generations \subseteq Retained(proc[p].linked)
  BY DEF MakeGeneration, Holding, UnderLock, TypeInv, TypeOK, ViewInv
<1>1. /\ proc[p].linked = Linked /\ proc[p].parent = ParentDigest
      /\ proc[p].check = "base" => proc[p].base = proc[p].linked
      /\ proc[p].check = "expect" => proc[p].expect = proc[p].parent
  BY <1>0 DEF SeesTheStore, Reading, Making, BeforeSwap, MovedAside
<1>2. link # NoLink => proc[p].linked = link
  BY <1>0, <1>1, LinkedCases DEF LinkReads
<1>3. proc[p].linked \in {NoLink, DirectoryLink} \cup Seqs
  BY <1>0 DEF ProcStates
<1>4. s > link /\ s # link
  <2>1. s \in Int /\ s > proc[p].linked /\ s >= 1
    BY <1>3, NextSeqIsAbove, NextSeqIsPositive
  <2>2. link \in Int
    BY <1>0, SeqsAreInts DEF TypeOK
  <2> HIDE DEF s
  <2>3. link = NoLink => s > link
    BY <2>1 DEF NoLink
  <2> QED BY <1>2, <2>1, <2>2, <2>3
<1>5. /\ LinkReads' /\ Linked' = Linked /\ ParentDigest' = ParentDigest
      /\ Generations' \subseteq Generations \cup {s}
  <2> HIDE DEF s
  <2> QED BY <1>0, <1>4, OtherDirectory
<1>6. link # NoLink => \A g \in Generations' : g <= link \/ g = s
  <2> HIDE DEF s
  <2> QED BY <1>0, <1>2, <1>5, RetainedAreNotAbove
<1>7. /\ proc'[p].pc = "fill" /\ proc'[p].seq = s /\ proc'[p].op = proc[p].op
      /\ proc'[p].check = proc[p].check
      /\ proc'[p].base = proc[p].base /\ proc'[p].expect = proc[p].expect
      /\ proc'[p].linked = proc[p].linked /\ proc'[p].parent = proc[p].parent
      /\ \A q \in Procs \ {p} : proc'[q] = proc[q]
  <2>1. proc' = [proc EXCEPT ![p].pc = "fill", ![p].seq = s]
    BY DEF MakeGeneration
  <2> HIDE DEF s
  <2> QED BY <1>0, <2>1 DEF ProcStates
<1> HIDE DEF s
<1>8. SeesTheStore(p)' /\ SeesItsSeal(p)'
  BY <1>0, <1>1, <1>4, <1>5, <1>6, <1>7
  DEF SeesTheStore, SeesItsSeal, SwappedIn, Reading, Making, BeforeSwap
<1> QED BY <1>0, <1>5, <1>7, <1>8, HeldStep

\* What an operation at work on its directory knows of the store.
LEMMA MakingKnows ==
  ASSUME TypeInv, ViewInv, NEW p \in Procs, proc[p].pc \in Making
  PROVE  /\ LinkReads /\ SeesTheStore(p) /\ TypeOK
         /\ proc \in [Procs -> ProcStates] /\ proc[p] \in ProcStates
         /\ proc[p].pc \in Holding /\ proc[p].seq \in Seqs /\ proc[p].seq - 1 \in Seqs
         /\ proc[p].seq # proc[p].seq - 1 /\ proc[p].seq > link /\ proc[p].seq # link
         /\ link # NoLink => \A s \in Generations : s <= link \/ s = proc[p].seq
         /\ proc[p].check = "base" => proc[p].base = proc[p].linked
         /\ proc[p].check = "expect" => proc[p].expect = proc[p].parent
         /\ (proc[p].linked = Linked /\ proc[p].parent = ParentDigest) \/ MovedAside(p)
<1>1. proc[p].seq \in Seqs /\ proc[p].seq - 1 \in Seqs
  BY SealingFields DEF Making
<1>2. LinkReads /\ SeesTheStore(p) /\ TypeOK /\ proc \in [Procs -> ProcStates]
  BY DEF TypeInv, TypeOK, ViewInv
<1>3. proc[p].pc \in Holding
  BY DEF Making, BeforeSwap, Holding, UnderLock
<1>4. proc[p].seq > link
  BY <1>2 DEF SeesTheStore
<1>5. proc[p].seq \in Int /\ link \in Int
  BY <1>1, <1>2, SeqsAreInts DEF TypeOK
<1>6. proc[p].seq # proc[p].seq - 1 /\ proc[p].seq # link
  BY <1>4, <1>5
<1> QED BY <1>1, <1>2, <1>3, <1>4, <1>6 DEF SeesTheStore

LEMMA FillGenerationKeepsView ==
  ASSUME TypeInv, LockInv, ViewInv, NEW p \in Procs, FillGeneration(p)
  PROVE  ViewInv'
<1>0. /\ proc[p].pc = "fill" /\ proc[p].pc \in Making /\ UNCHANGED <<link, legacy>>
      /\ gens' = [gens EXCEPT ![proc[p].seq] = proc[p].new] /\ Goto(p, "publish")
      /\ "publish" \in Labels
  BY DEF FillGeneration, Making, BeforeSwap, Labels, UnderLock
<1>1. /\ LinkReads' /\ Linked' = Linked /\ ParentDigest' = ParentDigest
      /\ gens'[proc[p].seq] = proc[p].new
      /\ Generations' \subseteq Generations \cup {proc[p].seq}
  <2> DEFINE s == proc[p].seq
             c == proc[p].new
  <2>1. LinkReads /\ TypeOK /\ s \in Seqs /\ s # link /\ gens' = [gens EXCEPT ![s] = c]
    BY <1>0, MakingKnows
  <2> HIDE DEF s, c
  <2>2. /\ LinkReads' /\ Linked' = Linked /\ ParentDigest' = ParentDigest
        /\ gens'[s] = c /\ Generations' \subseteq Generations \cup {s}
    BY <1>0, <2>1, OtherDirectory
  <2> QED BY <2>2 DEF s, c
<1>2. /\ proc'[p].pc = "publish" /\ SameRequest(proc'[p], proc[p])
      /\ \A q \in Procs \ {p} : proc'[q] = proc[q]
  BY <1>0, GotoEffect, MakingKnows
<1>3. proc[p].linked = Linked /\ proc[p].parent = ParentDigest
  BY <1>0, MakingKnows DEF MovedAside
<1>4. SeesTheStore(p)' /\ SeesItsSeal(p)'
  BY <1>0, <1>1, <1>2, <1>3, MakingKnows
  DEF SeesTheStore, SeesItsSeal, SwappedIn, Reading, Making, BeforeSwap, SameRequest
<1> QED BY <1>0, <1>1, <1>2, <1>4, MakingKnows, HeldStep

LEMMA MoveLegacyAsideKeepsView ==
  ASSUME TypeInv, LockInv, ViewInv, NEW p \in Procs, MoveLegacyAside(p)
  PROVE  ViewInv'
<1>0. /\ proc[p].pc = "aside" /\ proc[p].pc \in Making /\ link' = link
      /\ gens' = [gens EXCEPT ![proc[p].seq - 1] = legacy] /\ legacy' = Absent
      /\ Goto(p, "swap") /\ "swap" \in Labels
  BY DEF MoveLegacyAside, Making, BeforeSwap, Labels, UnderLock
<1>1. legacy # Absent /\ link = NoLink /\ legacy \in Digests
  BY <1>0, MakingKnows DEF SeesTheStore, LinkReads
<1>2. /\ proc[p].linked = Linked /\ proc[p].parent = ParentDigest
      /\ proc[p].linked = DirectoryLink /\ proc[p].parent = legacy
  <2>1. proc[p].linked = Linked /\ proc[p].parent = ParentDigest
    BY <1>0, MakingKnows DEF MovedAside
  <2> QED BY <1>1, <2>1 DEF Linked, ParentDigest, LinkedContents
<1>3. /\ proc'[p].pc = "swap" /\ SameRequest(proc'[p], proc[p])
      /\ \A q \in Procs \ {p} : proc'[q] = proc[q]
  BY <1>0, GotoEffect, MakingKnows
<1>4. gens'[proc[p].seq - 1] = legacy /\ gens'[proc[p].seq] = gens[proc[p].seq]
  BY <1>0, MakingKnows DEF TypeOK
<1>5. LinkReads'
  BY <1>0, <1>1 DEF LinkReads
<1>6. MovedAside(p)'
  BY <1>0, <1>1, <1>2, <1>3, <1>4 DEF MovedAside, SameRequest
<1>7. gens[proc[p].seq] = proc[p].new
  BY <1>0, MakingKnows DEF SeesTheStore
<1>8. SeesTheStore(p)' /\ SeesItsSeal(p)'
  BY <1>0, <1>1, <1>3, <1>4, <1>6, <1>7, MakingKnows
  DEF SeesTheStore, SeesItsSeal, SwappedIn, Reading, Making, BeforeSwap, SameRequest
<1> QED BY <1>3, <1>5, <1>8, <1>0, MakingKnows, HeldStep

LEMMA SwapLinkKeepsView ==
  ASSUME TypeInv, LockInv, ViewInv, NEW p \in Procs, SwapLink(p)
  PROVE  ViewInv'
<1>0. /\ proc[p].pc = "swap" /\ proc[p].pc \in Making /\ link' = proc[p].seq
      /\ UNCHANGED <<legacy, gens>> /\ Goto(p, "event") /\ "event" \in Labels
      /\ proc[p].pc \in BeforeSwap
  BY DEF SwapLink, Making, BeforeSwap, Labels, UnderLock
<1>1. gens[proc[p].seq] = proc[p].new /\ proc[p].new \in Digests
  BY <1>0, MakingKnows, SealingFields DEF SeesTheStore
<1>2. legacy = Absent
  <2>1. CASE proc[p].linked = DirectoryLink
    BY <1>0, <2>1, MakingKnows DEF SeesTheStore, MovedAside
  <2>2. CASE proc[p].linked # DirectoryLink
    BY <1>0, <2>2, MakingKnows, LinkedCases DEF MovedAside
  <2> QED BY <2>1, <2>2
<1>3. /\ proc'[p].pc = "event" /\ SameRequest(proc'[p], proc[p])
      /\ \A q \in Procs \ {p} : proc'[q] = proc[q]
  BY <1>0, GotoEffect, MakingKnows
<1>4. LinkReads'
  BY <1>0, <1>1, <1>2 DEF LinkReads
<1>5. SeesTheStore(p)' /\ SeesItsSeal(p)'
  BY <1>0, <1>1, <1>2, <1>3
  DEF SeesTheStore, SeesItsSeal, SwappedIn, Reading, Making, BeforeSwap, SameRequest
<1> QED BY <1>0, <1>3, <1>4, <1>5, MakingKnows, HeldStep

LEMMA RollBackKeepsView ==
  ASSUME TypeInv, LockInv, ViewInv, NEW p \in Procs, RollBack(p)
  PROVE  ViewInv'
<1> DEFINE s == proc[p].seq
<1>0. /\ proc[p].pc = "rollback" /\ proc[p].pc \in Making /\ link' = link
      /\ Goto(p, "release") /\ "release" \in Labels
  BY DEF RollBack, Making, BeforeSwap, Labels, UnderLock
<1>1. /\ proc'[p].pc = "release" /\ \A q \in Procs \ {p} : proc'[q] = proc[q]
  BY <1>0, GotoEffect, MakingKnows
<1>2. LinkReads'
  <2>1. CASE proc[p].linked = DirectoryLink /\ legacy = Absent
    <3>1. MovedAside(p)
      BY <1>0, <2>1, MakingKnows, LinkedCases
    <3> QED BY <1>0, <2>1, <3>1 DEF RollBack, LinkReads, MovedAside
  <2>2. CASE ~(proc[p].linked = DirectoryLink /\ legacy = Absent)
    <3>1. gens' = [gens EXCEPT ![s] = Absent] /\ legacy' = legacy
      BY <2>2 DEF RollBack
    <3>2. s \in Seqs /\ s # link /\ LinkReads /\ TypeOK
      BY <1>0, MakingKnows
    <3> HIDE DEF s
    <3> QED BY <1>0, <3>1, <3>2, OtherDirectory
  <2> QED BY <2>1, <2>2
<1>3. SeesTheStore(p)' /\ SeesItsSeal(p)'
  BY <1>1 DEF SeesTheStore, SeesItsSeal, SwappedIn, Reading, Making, BeforeSwap
<1> QED BY <1>0, <1>1, <1>2, <1>3, MakingKnows, HeldStep

-----------------------------------------------------------------------------
(* What an operation has read stays so: the invariant *)

LEMMA InitView == Init => ViewInv
<1> SUFFICES ASSUME Init PROVE ViewInv
  OBVIOUS
<1>1. LinkReads
  <2>1. 2 \in Seqs
    BY GenerationsAreSeqs DEF Seqs
  <2> QED BY <2>1 DEF Init, LinkReads, NoLink
<1>2. ASSUME NEW p \in Procs PROVE proc[p].pc \notin Viewed
  BY LabelsApart, ViewedIsHeld DEF Init, Idle
<1> QED BY <1>1, <1>2, NotViewed DEF ViewInv

LEMMA NextKeepsView ==
  ASSUME NothingIsLost
  PROVE  TypeInv /\ LockInv /\ ViewInv /\ [Next]_vars => ViewInv'
<1> SUFFICES ASSUME TypeInv, LockInv, ViewInv, [Next]_vars PROVE ViewInv'
  OBVIOUS
<1>1. CASE UNCHANGED vars
  BY <1>1, NoProcessMoves DEF vars, storeVars, files
<1>2. CASE LoseLink \/ DamageGeneration
  BY <1>2 DEF LoseLink, DamageGeneration, Spend, NothingIsLost
<1>3. CASE DamageSnapshot \/ LockAges
  BY <1>3, NoProcessMoves DEF DamageSnapshot, LockAges, storeVars, files
<1>4. ASSUME NEW p \in Procs,
             \/ Begin(p) \/ TryLock(p) \/ WriteOwner(p) \/ RetryLock(p) \/ ReadOwner(p)
             \/ ProbeOwner(p) \/ ConfirmReclaim(p)
             \/ RecreateLock(p) \/ Release(p) \/ Fail(p) \/ WriteOwnerFails(p) \/ Crash(p)
             \/ Exit(p) \/ TearAppend(p)
      PROVE  ViewInv'
  BY <1>4, LockStepKeepsView
<1>5. ASSUME NEW p \in Procs,
             \/ Observe(p) \/ SnapshotSource(p) \/ ReadTailForAnchors(p) \/ AppendAnchors(p)
             \/ PublishSnapshot(p) \/ MakeLinkTmp(p) \/ ReadTailForSeal(p) \/ AppendSealed(p)
             \/ WriteIndex(p)
      PROVE  ViewInv'
  BY <1>5, ObserveKeepsView, SnapshotSourceKeepsView, OtherWritesKeepView
<1>6. ASSUME NEW p \in Procs,
             \/ CollectOrphan(p) \/ SweepGeneration(p) \/ MakeGeneration(p)
             \/ FillGeneration(p) \/ MoveLegacyAside(p) \/ SwapLink(p) \/ RollBack(p)
      PROVE  ViewInv'
  BY <1>6, CollectOrphanKeepsView, SweepKeepsView, MakeGenerationKeepsView,
     FillGenerationKeepsView, MoveLegacyAsideKeepsView, SwapLinkKeepsView, RollBackKeepsView
<1> QED BY <1>1, <1>2, <1>3, <1>4, <1>5, <1>6 DEF Next, Step, Fault

\* Between its reads and its swap an operation's view of the store stays true: the
\* lock keeps the other operations out, and its own steps leave what is linked alone.
THEOREM ViewInvariant ==
  ASSUME NothingIsLost
  PROVE  KeepingSpec => []ViewInv
<1>1. Init => ViewInv
  BY InitView
<1>2. TypeInv /\ LockInv /\ ViewInv /\ [Next]_vars => ViewInv'
  BY NextKeepsView
<1>3. Spec => []TypeInv
  BY TypeInvariant
<1>4. KeepingSpec => []LockInv
  BY LockInvariant
<1> QED BY <1>1, <1>2, <1>3, <1>4, PTL DEF Spec, KeepingSpec

\* Only SwapLink takes an operation to its event.
LEMMA OnlySwapLinkSwaps ==
  ASSUME TypeInv, [Next]_vars, NEW p \in Procs, proc[p].pc = "swap", proc'[p].pc = "event"
  PROVE  SwapLink(p)
<1>0. proc \in [Procs -> ProcStates] /\ proc'[p] # proc[p]
  BY DEF TypeInv, TypeOK
<1>1. \/ Begin(p) \/ Step(p) \/ ConfirmReclaim(p)
      \/ Fail(p) \/ WriteOwnerFails(p) \/ Crash(p) \/ Exit(p) \/ TearAppend(p)
  BY <1>0, OneMoves
<1>2. ~Goto(p, "rollback") /\ ~Finish(p)
  <2>1. "rollback" \in Labels
    BY DEF Labels, UnderLock
  <2> QED BY <1>0, <2>1, GotoEffect, FinishEffect DEF Idle
<1> QED BY <1>1, <1>2
  DEF Begin, Step, ConfirmReclaim, Fail, WriteOwnerFails, Crash, Exit, Gone, TearAppend,
      TryLock,
      WriteOwner, RetryLock, ReadOwner, ProbeOwner, RecreateLock, Release, Observe,
      SnapshotSource,
      ReadTailForAnchors, AppendAnchors, CollectOrphan, MakeGeneration, FillGeneration,
      PublishSnapshot, MakeLinkTmp, MoveLegacyAside, RollBack, ReadTailForSeal,
      AppendSealed, WriteIndex, SweepGeneration, BeforeSwap

\* The action formula of SealReplacesWhatWasRead.
SwapReplacesWhatWasRead ==
  \A p \in Procs :
    proc[p].pc = "swap" /\ proc'[p].pc = "event" =>
      LET movedAside == proc[p].linked = DirectoryLink
          replaced == IF movedAside THEN gens[proc[p].seq - 1] ELSE ParentDigest
      IN  /\ proc[p].check = "base" =>
               proc[p].base = IF movedAside THEN DirectoryLink ELSE link
          /\ proc[p].check = "expect" => proc[p].expect = replaced

LEMMA SwapKnowsWhatItReplaces ==
  TypeInv /\ ViewInv /\ [Next]_vars => SwapReplacesWhatWasRead
<1> SUFFICES ASSUME TypeInv, ViewInv, [Next]_vars,
                    NEW p \in Procs, proc[p].pc = "swap", proc'[p].pc = "event"
             PROVE  LET movedAside == proc[p].linked = DirectoryLink
                        replaced == IF movedAside THEN gens[proc[p].seq - 1] ELSE ParentDigest
                    IN  /\ proc[p].check = "base" =>
                             proc[p].base = IF movedAside THEN DirectoryLink ELSE link
                        /\ proc[p].check = "expect" => proc[p].expect = replaced
  BY DEF SwapReplacesWhatWasRead
<1>1. proc[p].pc \in Making
  BY DEF Making, BeforeSwap
<1>2. CASE proc[p].linked = DirectoryLink
  BY <1>1, <1>2, MakingKnows DEF SeesTheStore, MovedAside
<1>3. CASE proc[p].linked # DirectoryLink
  <2>1. proc[p].linked = Linked /\ proc[p].parent = ParentDigest
    BY <1>1, <1>3, MakingKnows DEF MovedAside
  <2>2. Linked = link
    BY <1>1, <1>3, <2>1, MakingKnows, LinkedCases
  <2> QED BY <1>1, <1>3, <2>1, <2>2, MakingKnows
<1> QED BY <1>2, <1>3

\* What a seal replaces is what its caller had read, for any number of processes and
\* whatever crashes, fails, is torn or grows old between the two: the interview's
\* sequence and the evolution gate's digest still name the contract that goes.
THEOREM SealsReplaceWhatWasRead ==
  ASSUME NothingIsLost
  PROVE  KeepingSpec => SealReplacesWhatWasRead
<1>1. TypeInv /\ ViewInv /\ [Next]_vars => SwapReplacesWhatWasRead
  BY SwapKnowsWhatItReplaces
<1>2. SealReplacesWhatWasRead <=> [][SwapReplacesWhatWasRead]_vars
  BY DEF SealReplacesWhatWasRead, SwapReplacesWhatWasRead
<1>3. Spec => []TypeInv
  BY TypeInvariant
<1>4. KeepingSpec => []ViewInv
  BY ViewInvariant
<1> QED BY <1>1, <1>2, <1>3, <1>4, PTL DEF Spec, KeepingSpec

-----------------------------------------------------------------------------
(* The history *)

\* No step rewrites or drops an event, or removes a snapshot.
HistoryGrows ==
  /\ Len(Events') >= Len(Events)
  /\ \A i \in DOMAIN Events : Events'[i] = Events[i]
  /\ SnapshotDigests \subseteq SnapshotDigests'

LEMMA SnapshotsStay ==
  ASSUME TypeInv, [Next]_vars
  PROVE  SnapshotDigests \subseteq SnapshotDigests'
<1>0. snapshots \in [Digests -> {Absent, "ok", "corrupt"}]
  BY DEF TypeInv, TypeOK
<1>1. CASE snapshots' = snapshots
  BY <1>1 DEF SnapshotDigests
<1>2. ASSUME NEW d, NEW c \in {"ok", "corrupt"}, snapshots' = [snapshots EXCEPT ![d] = c]
      PROVE  SnapshotDigests \subseteq SnapshotDigests'
  BY <1>0, <1>2 DEF SnapshotDigests, Absent
<1>3. CASE DamageSnapshot
  BY <1>2, <1>3 DEF DamageSnapshot
<1>4. CASE \E p \in Procs : SnapshotSource(p) \/ PublishSnapshot(p)
  BY <1>1, <1>2, <1>4 DEF SnapshotSource, PublishSnapshot
<1>5. CASE \E p \in Procs :
             \/ Begin(p) \/ ConfirmReclaim(p) \/ TryLock(p) \/ WriteOwner(p) \/ RetryLock(p)
             \/ ReadOwner(p) \/ ProbeOwner(p)
             \/ RecreateLock(p) \/ Release(p) \/ Observe(p) \/ ReadTailForAnchors(p)
             \/ AppendAnchors(p) \/ CollectOrphan(p) \/ MakeGeneration(p)
             \/ FillGeneration(p) \/ MakeLinkTmp(p)
  BY <1>1, <1>5
  DEF Begin, ConfirmReclaim, TryLock, WriteOwner, RetryLock, ReadOwner, ProbeOwner,
      RecreateLock, Release, Observe,
      ReadTailForAnchors, AppendAnchors, CollectOrphan, MakeGeneration, FillGeneration,
      MakeLinkTmp, storeVars
<1>6. CASE \E p \in Procs :
             \/ MoveLegacyAside(p) \/ SwapLink(p) \/ RollBack(p) \/ ReadTailForSeal(p)
             \/ AppendSealed(p) \/ WriteIndex(p) \/ SweepGeneration(p)
             \/ Fail(p) \/ WriteOwnerFails(p) \/ Crash(p) \/ Exit(p) \/ TearAppend(p)
  BY <1>1, <1>6
  DEF MoveLegacyAside, SwapLink, RollBack, ReadTailForSeal, AppendSealed, WriteIndex,
      SweepGeneration, Fail, WriteOwnerFails, Crash, Exit, Gone, TearAppend, storeVars
<1>7. CASE LoseLink \/ DamageGeneration \/ LockAges \/ UNCHANGED vars
  BY <1>1, <1>7 DEF LoseLink, DamageGeneration, LockAges, vars, storeVars
<1> QED BY <1>3, <1>4, <1>5, <1>6, <1>7 DEF Next, Step, Fault

\* Only an append changes the lineage.
LEMMA OnlyAppendsWrite ==
  ASSUME [Next]_vars
  PROVE  \/ lineage' = lineage
         \/ \E p \in Procs : AppendAnchors(p) \/ AppendSealed(p) \/ TearAppend(p)
<1>1. CASE \E p \in Procs :
             \/ Begin(p) \/ ConfirmReclaim(p) \/ TryLock(p) \/ WriteOwner(p) \/ RetryLock(p)
             \/ ReadOwner(p) \/ ProbeOwner(p)
             \/ RecreateLock(p) \/ Release(p) \/ Observe(p) \/ ReadTailForAnchors(p)
             \/ SnapshotSource(p) \/ CollectOrphan(p) \/ MakeGeneration(p)
             \/ FillGeneration(p) \/ MakeLinkTmp(p)
  BY <1>1
  DEF Begin, ConfirmReclaim, TryLock, WriteOwner, RetryLock, ReadOwner, ProbeOwner,
      RecreateLock, Release, Observe,
      ReadTailForAnchors, SnapshotSource, CollectOrphan, MakeGeneration, FillGeneration,
      MakeLinkTmp, storeVars
<1>2. CASE \E p \in Procs :
             \/ MoveLegacyAside(p) \/ SwapLink(p) \/ RollBack(p) \/ ReadTailForSeal(p)
             \/ PublishSnapshot(p) \/ WriteIndex(p) \/ SweepGeneration(p)
             \/ Fail(p) \/ WriteOwnerFails(p) \/ Crash(p) \/ Exit(p)
  BY <1>2
  DEF MoveLegacyAside, SwapLink, RollBack, ReadTailForSeal, PublishSnapshot, WriteIndex,
      SweepGeneration, Fail, WriteOwnerFails, Crash, Exit, Gone, storeVars
<1>3. CASE LoseLink \/ DamageGeneration \/ DamageSnapshot \/ LockAges \/ UNCHANGED vars
  BY <1>3 DEF LoseLink, DamageGeneration, DamageSnapshot, LockAges, vars, storeVars
<1> QED BY <1>1, <1>2, <1>3 DEF Next, Step, Fault

LEMMA NextGrowsHistory == TypeInv /\ ChainInv /\ [Next]_vars => HistoryGrows
<1> SUFFICES ASSUME TypeInv, ChainInv, [Next]_vars PROVE HistoryGrows
  OBVIOUS
<1>1. Events \in Seq(LineageEvents) /\ Len(Events) \in Nat /\ DOMAIN Events = 1..Len(Events)
  BY LenProperties DEF TypeInv, TypeOK, Events
<1>2. Len(Events') >= Len(Events) /\ \A i \in DOMAIN Events : Events'[i] = Events[i]
  <2>1. CASE lineage' = lineage
    BY <1>1, <2>1 DEF Events
  <2>2. CASE \E p \in Procs : AppendAnchors(p) \/ AppendSealed(p) \/ TearAppend(p)
    <3>0. PICK events \in Seq(LineageEvents) :
            \E n \in 0..Len(events) : Events' = Events \o SubSeq(events, 1, n)
      BY <2>2, InFlightAppended
    <3>1. PICK n \in 0..Len(events) : Events' = Events \o SubSeq(events, 1, n)
      BY <3>0
    <3>2. n \in Nat
      BY <3>1, LenProperties
    <3>3. /\ Len(Events') = Len(Events) + n
          /\ \A i \in 1..Len(Events) : Events'[i] = Events[i]
      BY <1>1, <3>1, ExtendedEvents
    <3> QED BY <1>1, <3>2, <3>3
  <2> QED BY <2>1, <2>2, OnlyAppendsWrite
<1> QED BY <1>2, SnapshotsStay DEF HistoryGrows

\* While no live lock is moved aside, whatever is lost, damaged, torn, crashed or repaired:
\* no event is rewritten or dropped, not with the cut line a later append truncates either,
\* and no snapshot is removed.
THEOREM HistoryNeverShrinks == KeepingSpec => HistoryIsKept
<1>1. TypeInv /\ ChainInv /\ [Next]_vars => HistoryGrows
  BY NextGrowsHistory
<1>2. HistoryIsKept <=> [][HistoryGrows]_vars
  BY DEF HistoryIsKept, HistoryGrows
<1>3. KeepingSpec => []TypeInv
  BY TypeInvariant, PTL DEF KeepingSpec
<1>4. KeepingSpec => []ChainInv
  BY ChainInvariant
<1> QED BY <1>1, <1>2, <1>3, <1>4, PTL DEF Spec, KeepingSpec

-----------------------------------------------------------------------------
(* The lineage follows the link *)

\* No vault starts from a legacy directory.
NoLegacyStore == "legacy" \notin Starts

\* The contracts a crash can leave the lineage at: the linked one and N-1.
Standing == {ParentDigest, PreviousDigest} \ {NoDigest}

\* The lineage lags the link by one seal at most.
Recorded == Events # <<>> => TailDigest(Events) \in Standing

\* What an operation is about to append brings the lineage to what is linked, and
\* every part of it to a contract that stands; an operation with nothing to append
\* has found it there.
Drafted(p) ==
  LET r == proc[p] IN
  r.pc \in {"snapshot", "anchor"} =>
    /\ \A i \in 1..Len(r.drafts) : r.drafts[i].digest \in Standing
    /\ r.start =>
         /\ Events = <<>> /\ Len(r.todo) + Len(r.drafts) <= 2
         /\ \A j \in 1..Len(r.todo) : r.todo[j] \in Standing
         /\ r.todo # <<>> => r.todo[Len(r.todo)] = r.parent
         /\ r.todo = <<>> => r.drafts # <<>>
    /\ ~r.start =>
         /\ Len(r.drafts) <= 1
         /\ r.drafts = <<>> /\ r.op # "bootstrap" => TailDigest(Events) = r.parent
         /\ r.parent # NoDigest => Events # <<>>
    /\ (r.start => r.todo = <<>>) /\ r.drafts # <<>> =>
         r.drafts[Len(r.drafts)].digest = r.parent
    /\ r.pc = "anchor" => r.todo = <<>> /\ r.drafts # <<>>

\* A seal replaces a contract the lineage ends at, and an index entry is written for a
\* contract the lineage ends at.
Caught(p) ==
  LET r == proc[p] IN
  /\ r.pc \in {"collect", "event", "append"} \cup BeforeSwap => TailDigest(Events) = r.parent
  /\ r.pc \in {"event", "append"} => r.op = "seal" /\ link # NoLink
  /\ r.pc = "index" => Events # <<>> /\ TailDigest(Events) = ParentDigest
  /\ r.pc \in Reading \cup Making => r.linked # DirectoryLink

\* A repair was asked for a vault with something linked.
RecoversALink(p) == proc[p].op = "recover" => link # NoLink

RecordInv ==
  /\ legacy = Absent
  /\ indexed => link # NoLink
  /\ Recorded
  /\ \A p \in Procs : RecoversALink(p) /\ Drafted(p) /\ Caught(p)

RecordLabels == {"event", "append", "index"} \cup Reading \cup Making

LEMMA RecordLabelsHeld ==
  RecordLabels \subseteq Holding /\ RecordLabels \subseteq Labels /\ "idle" \notin RecordLabels
  BY DEF RecordLabels, Reading, Making, BeforeSwap, Holding, UnderLock, Labels

LEMMA NotRecording ==
  ASSUME NEW p \in Procs, proc[p].pc \notin RecordLabels
  PROVE  Drafted(p) /\ Caught(p)
  BY DEF Drafted, Caught, RecordLabels, Reading, Making, BeforeSwap

\* The generations below the linked one.
LEMMA BelowAreSeqs ==
  ASSUME TypeOK
  PROVE  /\ Below(link) \in SUBSET (0..MaxSeq)
         /\ Below(link) # {} =>
              /\ Highest(Below(link)) \in Below(link)
              /\ \A y \in Below(link) : y <= Highest(Below(link))
<1>1. Below(link) \in SUBSET (0..MaxSeq)
  BY GenerationsAreSeqs DEF Below
<1>2. Below(link) \in SUBSET (-1..MaxSeq)
  BY <1>1, GenerationsAreSeqs
<1> QED BY <1>1, <1>2, GenerationsAreSeqs, HighestIsMax

\* A directory above the linked one, or one that is not retained, says nothing of N-1.
LEMMA PreviousStays ==
  ASSUME TypeInv, legacy = Absent, UNCHANGED <<link, legacy>>,
         NEW s \in Seqs, NEW c, gens' = [gens EXCEPT ![s] = c],
         link = NoLink \/ s > link \/ s \in Generations \ Retained(link)
  PROVE  PreviousDigest' = PreviousDigest
<1>0. /\ TypeOK /\ link \in Int /\ s \in Int /\ link # DirectoryLink
      /\ gens \in [Seqs -> Contents]
  BY SeqsAreInts DEF TypeInv, TypeOK, DirectoryLink
<1>1. gens'[s] = c /\ \A t \in Seqs \ {s} : gens'[t] = gens[t]
  BY <1>0
<1>2. CASE link = NoLink
  BY <1>2 DEF PreviousDigest
<1>3. CASE link # NoLink /\ s > link
  <2>1. Below(link)' = Below(link)
    BY <1>0, <1>1, <1>3 DEF Below, Generations
  <2>2. Below(link) # {} => gens'[Highest(Below(link))] = gens[Highest(Below(link))]
    <3> SUFFICES ASSUME Below(link) # {}
                 PROVE  gens'[Highest(Below(link))] = gens[Highest(Below(link))]
      OBVIOUS
    <3>1. Highest(Below(link)) < link /\ Highest(Below(link)) \in Seqs
      BY <1>0, BelowAreSeqs DEF Below, Generations
    <3>2. Highest(Below(link)) # s
      BY <1>0, <1>3, <3>1, SeqsAreInts
    <3> QED BY <1>1, <3>1, <3>2
  <2> QED BY <2>1, <2>2 DEF PreviousDigest
<1>4. CASE link # NoLink /\ s \in Generations \ Retained(link)
  <2>1. Below(link)' \subseteq Below(link)
    BY <1>0, <1>1, <1>4 DEF Below, Generations
  <2>2. CASE Below(link) = {}
    BY <2>1, <2>2 DEF PreviousDigest
  <2>3. CASE Below(link) # {}
    <3> DEFINE h == Highest(Below(link))
    <3>1. h \in Below(link) /\ \A y \in Below(link) : y <= h
      BY <1>0, <2>3, BelowAreSeqs
    <3>2. h \in Retained(link) /\ h \in Seqs
      BY <1>0, <1>4, <2>3, <3>1 DEF Retained, Below, Generations
    <3> HIDE DEF h
    <3>3. h # s /\ gens'[h] = gens[h]
      BY <1>1, <1>4, <3>2
    <3>4. h \in Below(link)'
      BY <3>1, <3>2, <3>3 DEF Below, Generations
    <3>5. Below(link)' \in SUBSET (0..MaxSeq)
      BY <1>0, <2>1, BelowAreSeqs
    <3>6. Highest(Below(link)') = h
      BY <2>1, <3>1, <3>4, <3>5, HighestIs
    <3>7. Below(link)' = {t \in Generations' : t < link} /\ Below(link) # {}
      BY <2>3 DEF Below
    <3> QED BY <2>3, <3>3, <3>4, <3>6 DEF PreviousDigest, h
  <2> QED BY <2>2, <2>3
<1> QED BY <1>2, <1>3, <1>4

\* What the sources of the snapshots are.
LEMMA SourcesStand ==
  ASSUME TypeOK
  PROVE  /\ Len(Sources) <= 2
         /\ \A j \in 1..Len(Sources) : Sources[j] \in Standing
         /\ ParentDigest # NoDigest => Sources # <<>> /\ Sources[Len(Sources)] = ParentDigest
<1>1. CASE PreviousDigest # NoDigest /\ ParentDigest # NoDigest
  <2> DEFINE S == {PreviousDigest, ParentDigest}
  <2>1. Sources = <<PreviousDigest>> \o <<ParentDigest>>
    BY <1>1 DEF Sources
  <2>2. <<PreviousDigest>> \in Seq(S) /\ <<ParentDigest>> \in Seq(S)
    OBVIOUS
  <2>3. Len(<<PreviousDigest>>) = 1 /\ Len(<<ParentDigest>>) = 1
    OBVIOUS
  <2> HIDE DEF S
  <2>4. Len(Sources) = 2 /\ Sources[1] = PreviousDigest /\ Sources[2] = ParentDigest
    BY <2>1, <2>2, <2>3, ConcatProperties
  <2>5. Sources # <<>>
    BY <2>4, EmptySeq
  <2> QED BY <1>1, <2>4, <2>5 DEF Standing
<1>2. CASE PreviousDigest # NoDigest /\ ParentDigest = NoDigest
  <2>1. Sources = <<PreviousDigest>>
    BY <1>2 DEF Sources
  <2> QED BY <1>2, <2>1 DEF Standing
<1>3. CASE PreviousDigest = NoDigest /\ ParentDigest # NoDigest
  <2>1. Sources = <<ParentDigest>>
    BY <1>3 DEF Sources
  <2> QED BY <1>3, <2>1 DEF Standing
<1>4. CASE PreviousDigest = NoDigest /\ ParentDigest = NoDigest
  <2>1. Sources = <<>> \o <<>>
    BY <1>4 DEF Sources
  <2>2. <<>> \o <<>> = <<>> /\ Len(<<>>) = 0 /\ 1..0 = {}
    BY EmptySeq, ConcatEmptySeq
  <2> QED BY <1>4, <2>1, <2>2
<1> QED BY <1>1, <1>2, <1>3, <1>4

\* With nothing lost what is linked has a digest.
LEMMA LinkedHasDigest ==
  ASSUME TypeOK, LinkReads, legacy = Absent
  PROVE  /\ Linked = link
         /\ link # NoLink <=> ParentDigest # NoDigest
         /\ link # NoLink => ParentDigest = gens[link] /\ ParentDigest \in Digests
         /\ link = NoLink => ParentDigest = NoDigest /\ PreviousDigest = NoDigest
<1>1. Linked = link
  BY LinkedCases
<1>2. CASE link # NoLink
  BY <1>1, <1>2, NoDigestAssumption DEF LinkReads, ParentDigest, LinkedContents
<1>3. CASE link = NoLink
  <2>1. Absent \notin Digests
    BY StoreAssumption DEF Absent
  <2> QED BY <1>1, <1>3, <2>1 DEF ParentDigest, LinkedContents, PreviousDigest
<1> QED BY <1>1, <1>2, <1>3

\* The lineage is current or lacks the event of the last seal, and nothing worse.
LEMMA RecordedIsNoGap ==
  ASSUME TypeInv, ChainInv, LinkReads, legacy = Absent, Recorded
  PROVE  /\ Classified \in {"current", "unrecorded-seal"}
         /\ Classified = "current" => Events = <<>> \/ TailDigest(Events) = ParentDigest
         /\ Classified = "unrecorded-seal" => Events # <<>> /\ ParentDigest \in Digests
         /\ Events # <<>> => ParentDigest \in Digests
<1>0. TypeOK /\ Events = lineage.events
  BY DEF TypeInv, Events
<1>1. CASE Events = <<>>
  BY <1>0, <1>1 DEF Classified, ClassifyLineageTail, EndsAt
<1>2. CASE Events # <<>>
  <2>1. TailDigest(Events) \in Standing /\ ParentDigest \in Digests
    BY <1>0, <1>2, LinkedHasDigest DEF Recorded, Standing
  <2>2. ParentDigest # NoDigest
    BY <2>1, NoDigestAssumption
  <2>3. CASE TailDigest(Events) = ParentDigest
    BY <1>0, <1>2, <2>1, <2>3 DEF Classified, ClassifyLineageTail, EndsAt
  <2>4. CASE TailDigest(Events) # ParentDigest
    <3>1. PreviousDigest # NoDigest /\ TailDigest(Events) = PreviousDigest
      BY <2>1, <2>4 DEF Standing
    <3>2. ~EndsAt(Events, ParentDigest)
      BY <1>2, <2>2, <2>4 DEF EndsAt
    <3>3. Follows(ExpectedAt(Events, Len(Events)), Events[Len(Events)], Kept)
      <4>1. Len(Events) \in DOMAIN Events
        <5>1. Events \in Seq(LineageEvents)
          BY DEF TypeInv, TypeOK, Events
        <5> QED BY <1>2, <5>1, LenProperties, EmptySeq
      <4>2. Follows(ExpectedAt(Events, Len(Events)), Events[Len(Events)], SnapshotDigests)
        BY <4>1 DEF ChainInv, ChainNeverBroken, Chained
      <4>3. SnapshotDigests \subseteq Kept
        BY DEF SnapshotDigests, Kept
      <4> QED BY <4>2, <4>3, FollowsGrows
    <3>4. EndsAtPrevious(Events, PreviousDigest, Kept)
      BY <3>1, <3>3 DEF EndsAtPrevious
    <3>5. Classified = "unrecorded-seal"
      BY <1>0, <2>2, <3>2, <3>4 DEF Classified, ClassifyLineageTail
    <3> QED BY <1>2, <2>1, <3>5
  <2> QED BY <2>3, <2>4
<1> QED BY <1>1, <1>2

\* What the plan appends before the operation's own event.
LEMMA PlannedReaches ==
  ASSUME TypeInv, ChainInv, LinkReads, legacy = Absent, Recorded, NEW req
  PROVE  /\ Len(Planned(req)) <= 1
         /\ \A i \in 1..Len(Planned(req)) : Planned(req)[i].digest \in Standing
         /\ Planned(req) # <<>> => /\ Planned(req)[Len(Planned(req))].digest = ParentDigest
                                   /\ Events # <<>>
         /\ Planned(req) = <<>> /\ req.op # "bootstrap" =>
              Events = <<>> \/ TailDigest(Events) = ParentDigest
<1>1. CASE Planned(req) = <<>>
  <2>1. req.op # "bootstrap" => Classified # "unrecorded-seal"
    BY <1>1 DEF Planned, AnchorFor
  <2> QED BY <1>1, <2>1, RecordedIsNoGap
<1>2. CASE Planned(req) # <<>>
  <2> DEFINE e == Recovered("unrecorded-seal", TailDigest(lineage.events), ParentDigest,
                             NoDigest)
  <2>1. Planned(req) = <<e>> /\ Classified = "unrecorded-seal"
    BY <1>2, RecordedIsNoGap DEF Planned, AnchorFor
  <2>2. e.digest = ParentDigest /\ ParentDigest \in Standing /\ Events # <<>>
    BY <2>1, RecordedIsNoGap, NoDigestAssumption DEF Recovered, Standing
  <2> HIDE DEF e
  <2> QED BY <2>1, <2>2
<1> QED BY <1>1, <1>2

-----------------------------------------------------------------------------
(* The lineage follows the link: the steps *)

\* Everything RecordInv reads beside the processes.
records == <<files, lineage, indexed>>

LEMMA RecordsStay ==
  ASSUME UNCHANGED records
  PROVE  /\ Standing' = Standing /\ ParentDigest' = ParentDigest /\ Events' = Events
         /\ UNCHANGED <<link, legacy, indexed>> /\ UNCHANGED files
         /\ Recorded' <=> Recorded
<1>1. UNCHANGED files /\ Events' = Events /\ UNCHANGED <<link, legacy, indexed>>
  BY DEF records, files, Events
<1>2. Standing' = Standing /\ ParentDigest' = ParentDigest
  BY <1>1, ReadsStay DEF Standing
<1> QED BY <1>1, <1>2 DEF Recorded

\* A step that writes nothing of this.
LEMMA QuietRecord ==
  ASSUME RecordInv, UNCHANGED records, NEW p \in Procs,
         \A q \in Procs \ {p} : proc'[q] = proc[q],
         RecoversALink(p)', Drafted(p)', Caught(p)'
  PROVE  RecordInv'
<1>1. ASSUME NEW q \in Procs \ {p} PROVE RecoversALink(q)' /\ Drafted(q)' /\ Caught(q)'
  <2>1. RecoversALink(q) /\ Drafted(q) /\ Caught(q) /\ proc'[q] = proc[q]
    BY DEF RecordInv
  <2> QED BY <2>1, RecordsStay DEF RecoversALink, Drafted, Caught
<1> QED BY <1>1, RecordsStay DEF RecordInv

LEMMA NoProcessRecords ==
  ASSUME RecordInv, UNCHANGED records, proc' = proc
  PROVE  RecordInv'
<1>1. ASSUME NEW q \in Procs PROVE RecoversALink(q)' /\ Drafted(q)' /\ Caught(q)'
  <2>1. RecoversALink(q) /\ Drafted(q) /\ Caught(q)
    BY DEF RecordInv
  <2> QED BY <2>1, RecordsStay DEF RecoversALink, Drafted, Caught
<1> QED BY <1>1, RecordsStay DEF RecordInv

\* A step under the lock that may write it.
LEMMA HeldRecord ==
  ASSUME RecordInv, LockInv, NEW p \in Procs, proc[p].pc \in Holding,
         \A q \in Procs \ {p} : proc'[q] = proc[q],
         legacy' = Absent, indexed' => link' # NoLink, link # NoLink => link' # NoLink,
         Recorded', RecoversALink(p)', Drafted(p)', Caught(p)'
  PROVE  RecordInv'
<1>1. ASSUME NEW q \in Procs \ {p} PROVE RecoversALink(q)' /\ Drafted(q)' /\ Caught(q)'
  <2>1. proc'[q].pc \notin RecordLabels /\ proc'[q] = proc[q]
    BY OthersAreOut, RecordLabelsHeld
  <2>2. Drafted(q)' /\ Caught(q)'
    BY <2>1 DEF Drafted, Caught, RecordLabels, Reading, Making, BeforeSwap
  <2>3. RecoversALink(q)'
    BY <2>1 DEF RecordInv, RecoversALink
  <2> QED BY <2>2, <2>3
<1> QED BY <1>1 DEF RecordInv

\* The moves of an operation that bring no new duty.
KeepsRecord(r, label) ==
  \/ label \notin RecordLabels
  \/ label = "symlink" /\ r.pc = "publish"
  \/ label = "swap" /\ r.pc = "symlink"
  \/ label = "rollback" /\ r.pc \in BeforeSwap
  \/ label = "append" /\ r.pc = "event"
  \/ /\ label = "anchor" /\ r.pc = "snapshot"
     /\ r.todo = <<>> /\ r.drafts # <<>>
  \/ label = "collect" /\ r.pc \in Reading /\ TailDigest(Events) = r.parent
  \/ label = "index" /\ Events # <<>> /\ TailDigest(Events) = ParentDigest

LEMMA MoveKeepsRecord ==
  ASSUME TypeInv, RecordInv, UNCHANGED records, NEW p \in Procs, NEW label \in Labels,
         Moves(p, label), KeepsRecord(proc[p], label)
  PROVE  RecordInv'
<1> DEFINE r == proc[p]
           s == proc'[p]
<1>1. s.pc = label /\ SameRequest(s, r) /\ \A q \in Procs \ {p} : proc'[q] = proc[q]
  BY DEF Moves
<1>2. RecoversALink(p) /\ Drafted(p) /\ Caught(p)
  BY DEF RecordInv
<1>3. Drafted(p)'
  <2>1. label \in {"snapshot", "anchor"} =>
          label = "anchor" /\ r.pc = "snapshot" /\ r.todo = <<>> /\ r.drafts # <<>>
    BY DEF KeepsRecord, RecordLabels, Reading, Making, BeforeSwap
  <2>2. CASE label = "anchor"
    <3>1. /\ s.todo = r.todo /\ s.drafts = r.drafts /\ s.parent = r.parent /\ s.op = r.op
          /\ s.start = r.start
      BY <1>1 DEF SameRequest
    <3> HIDE DEF s, r
    <3>2. r = proc[p] /\ s = proc'[p]
      BY DEF r, s
    <3> QED BY <1>1, <1>2, <2>1, <2>2, <3>1, <3>2, RecordsStay DEF Drafted
  <2>3. CASE label # "anchor"
    BY <1>1, <2>1, <2>3 DEF Drafted
  <2> QED BY <2>2, <2>3
<1>4. Caught(p)'
  <2>1. label \in {"collect", "event", "append"} \cup BeforeSwap => TailDigest(Events) = r.parent
    BY <1>2 DEF KeepsRecord, Caught, RecordLabels, Reading, Making, BeforeSwap
  <2>2. label \in {"event", "append"} => r.op = "seal" /\ link # NoLink
    BY <1>2 DEF KeepsRecord, Caught, RecordLabels, Reading, Making, BeforeSwap
  <2>3. label = "index" => Events # <<>> /\ TailDigest(Events) = ParentDigest
    BY DEF KeepsRecord, RecordLabels, Reading, Making, BeforeSwap
  <2>4. label \in Reading \cup Making => r.linked # DirectoryLink
    BY <1>2 DEF KeepsRecord, Caught, RecordLabels, Reading, Making, BeforeSwap
  <2> QED BY <1>1, <2>1, <2>2, <2>3, <2>4, RecordsStay DEF Caught, SameRequest
<1>5. RecoversALink(p)'
  BY <1>1, <1>2, RecordsStay DEF RecoversALink, SameRequest
<1> QED BY <1>1, <1>3, <1>4, <1>5, QuietRecord

LEMMA GotoKeepsRecord ==
  ASSUME TypeInv, RecordInv, UNCHANGED records, NEW p \in Procs, NEW label \in Labels,
         Goto(p, label), KeepsRecord(proc[p], label)
  PROVE  RecordInv'
  BY MoveKeepsRecord, GotoEffect DEF Moves, TypeInv, TypeOK

LEMMA BeginKeepsRecord ==
  ASSUME TypeInv, RecordInv, NEW p \in Procs, Begin(p)
  PROVE  RecordInv'
<1>0. proc \in [Procs -> ProcStates] /\ UNCHANGED records /\ TypeOK
  BY DEF TypeInv, TypeOK, Begin, storeVars, records, files
<1>1. PICK req \in Requests : proc' = [proc EXCEPT ![p] = req]
  BY DEF Begin
<1>2. proc'[p] = req /\ req.pc = "lock" /\ \A q \in Procs \ {p} : proc'[q] = proc[q]
  BY <1>0, <1>1, RequestsType
<1>3. req.op = "recover" => link # NoLink
  <2>1. Linked = link
    BY <1>0, LinkedCases DEF RecordInv
  <2>2. \A new, check, base, expect, policy, reindex :
          /\ Request("seal", new, check, base, expect, policy, reindex).op = "seal"
          /\ Request("bootstrap", new, check, base, expect, policy, reindex).op = "bootstrap"
    BY DEF Request, Idle
  <2> DEFINE Interviews ==
               {Request("seal", d, "base", Linked, NoDigest, "reanchor", FALSE) : d \in Digests}
             Gates(policy) ==
               {Request("seal", d, "expect", NoLink, TailDigest(lineage.events), policy, FALSE) :
                  d \in Digests}
             Seals == UNION {Gates(policy) : policy \in Policies}
             Repairs ==
               {Request("recover", NoDigest, "none", NoLink, NoDigest, policy, ~indexed) :
                  policy \in {x \in Policies : Recoverable}}
             Bootstraps ==
               {Request("bootstrap", NoDigest, "none", NoLink, NoDigest, "reanchor", FALSE)}
  <2>3. req.op = "recover" => Recoverable
    <3>1. \A x \in Interviews : x.op = "seal"
      BY <2>2
    <3>2. \A x \in Seals : x.op = "seal"
      <4>1. \A policy : \A x \in Gates(policy) : x.op = "seal"
        BY <2>2
      <4> HIDE DEF Gates
      <4> QED BY <4>1
    <3>3. \A x \in Repairs : Recoverable
      OBVIOUS
    <3>4. \A x \in Bootstraps : x.op = "bootstrap"
      BY <2>2
    <3>5. Requests = Interviews \cup Seals \cup Repairs \cup Bootstraps
      BY Zenon DEF Requests
    <3> HIDE DEF Interviews, Seals, Repairs, Bootstraps
    <3> QED BY <3>1, <3>2, <3>3, <3>4, <3>5
  <2> QED BY <2>1, <2>3 DEF Recoverable
<1>4. proc'[p].pc \notin RecordLabels
  BY <1>2 DEF RecordLabels, Reading, Making, BeforeSwap
<1>5. Drafted(p)' /\ Caught(p)'
  BY <1>4 DEF Drafted, Caught, RecordLabels, Reading, Making, BeforeSwap
<1>6. RecoversALink(p)'
  BY <1>0, <1>2, <1>3, RecordsStay DEF RecoversALink
<1> QED BY <1>0, <1>2, <1>5, <1>6, QuietRecord

\* acquireLock, release, the end of an operation and a failure that unwinds it.
LEMMA LockStepKeepsRecord ==
  ASSUME TypeInv, RecordInv, NEW p \in Procs,
         \/ TryLock(p) \/ WriteOwner(p) \/ RetryLock(p) \/ ReadOwner(p) \/ ProbeOwner(p)
         \/ ConfirmReclaim(p)
         \/ RecreateLock(p) \/ Release(p) \/ Fail(p) \/ WriteOwnerFails(p) \/ Crash(p)
         \/ Exit(p)
  PROVE  RecordInv'
<1>0. proc \in [Procs -> ProcStates] /\ UNCHANGED records
  BY DEF TypeInv, TypeOK, TryLock, WriteOwner, RetryLock, ReadOwner, ProbeOwner,
         ConfirmReclaim, RecreateLock,
         Release, Fail, WriteOwnerFails, Crash, Exit, Gone, storeVars, records, files
<1>1. CASE Finish(p)
  <2>1. proc'[p] = Idle /\ \A q \in Procs \ {p} : proc'[q] = proc[q]
    BY <1>0, <1>1, FinishEffect
  <2>2. Drafted(p)' /\ Caught(p)' /\ RecoversALink(p)'
    BY <2>1 DEF Drafted, Caught, RecoversALink, Idle, Reading, Making, BeforeSwap
  <2> QED BY <1>0, <2>1, <2>2, QuietRecord
<1>2. CASE \E label \in {"retry", "inspect", "probe", "owner", "observe", "confirm",
                        "recreate", "release"} :
             Goto(p, label)
  BY <1>0, <1>2, GotoKeepsRecord
  DEF KeepsRecord, RecordLabels, Reading, Making, BeforeSwap, Labels, UnderLock
<1>3. CASE proc[p].pc \in BeforeSwap /\ Goto(p, "rollback")
  BY <1>0, <1>3, GotoKeepsRecord DEF KeepsRecord, Labels, UnderLock
<1> QED BY <1>1, <1>2, <1>3
  DEF TryLock, WriteOwner, RetryLock, ReadOwner, ProbeOwner, ConfirmReclaim, RecreateLock,
      Release, Fail,
      WriteOwnerFails, Crash, Exit, Gone

LEMMA ObserveKeepsRecord ==
  ASSUME TypeInv, ChainInv, ViewInv, RecordInv, NEW p \in Procs, Observe(p)
  PROVE  RecordInv'
<1>0. /\ proc \in [Procs -> ProcStates] /\ proc[p] \in ProcStates /\ proc[p].pc = "observe"
      /\ UNCHANGED records /\ TypeOK /\ LinkReads /\ legacy = Absent /\ Recorded
      /\ Events = lineage.events
  BY DEF TypeInv, TypeOK, Observe, storeVars, records, files, ViewInv, RecordInv, Events
<1>1. CASE Goto(p, "release")
  BY <1>0, <1>1, GotoKeepsRecord
  DEF KeepsRecord, RecordLabels, Reading, Making, BeforeSwap, Labels, UnderLock
<1>2. CASE proc' = [proc EXCEPT ![p] = Observed(proc[p])]
  <2> DEFINE r == proc[p]
             s == proc'[p]
  <2>1. s = Observed(r) /\ \A q \in Procs \ {p} : proc'[q] = proc[q]
    BY <1>0, <1>2
  <2>2. /\ s.pc = "snapshot" /\ s.op = r.op /\ s.linked = Linked /\ s.parent = ParentDigest
        /\ s.todo = Sources /\ s.drafts = Planned(r)
    BY <1>0, <2>1, ObservedKeeps
  <2>3. s.start <=> (Events = <<>> /\ ParentDigest # NoDigest)
    BY <1>0, <2>1, ObservedStart
  <2>4. /\ Len(Planned(r)) <= 1
        /\ \A i \in 1..Len(Planned(r)) : Planned(r)[i].digest \in Standing
        /\ Planned(r) # <<>> => /\ Planned(r)[Len(Planned(r))].digest = ParentDigest
                                /\ Events # <<>>
        /\ Planned(r) = <<>> /\ r.op # "bootstrap" =>
             Events = <<>> \/ TailDigest(Events) = ParentDigest
    BY <1>0, PlannedReaches
  <2>5. /\ Len(Sources) <= 2
        /\ \A j \in 1..Len(Sources) : Sources[j] \in Standing
        /\ ParentDigest # NoDigest => Sources # <<>> /\ Sources[Len(Sources)] = ParentDigest
    BY <1>0, SourcesStand
  <2>6. Events = <<>> => TailDigest(Events) = NoDigest /\ Len(Planned(r)) = 0
    BY <2>4, EmptySeq DEF TailDigest
  <2>7. Len(Sources) \in Nat /\ Len(Planned(r)) \in Nat
    BY <1>0, ReadsType, PlannedType, LenProperties
  <2>8. Drafted(p)'
    <3> DEFINE todo == Sources
               drafts == Planned(r)
    <3>1. /\ \A i \in 1..Len(drafts) : drafts[i].digest \in Standing'
          /\ \A j \in 1..Len(todo) : todo[j] \in Standing'
          /\ Events' = Events
      BY <1>0, <2>4, <2>5, RecordsStay
    <3>2. s.start => /\ Events = <<>> /\ Len(todo) + Len(drafts) <= 2
                     /\ todo # <<>> /\ todo[Len(todo)] = s.parent
      BY <2>2, <2>3, <2>5, <2>6, <2>7
    <3>3. ~s.start => /\ Len(drafts) <= 1
                      /\ drafts = <<>> /\ s.op # "bootstrap" => TailDigest(Events) = s.parent
                      /\ s.parent # NoDigest => Events # <<>>
      BY <2>2, <2>3, <2>4, <2>6
    <3>4. drafts # <<>> => drafts[Len(drafts)].digest = s.parent
      BY <2>2, <2>4
    <3> HIDE DEF todo, drafts, r
    <3>5. s.pc = "snapshot" /\ s.todo = todo /\ s.drafts = drafts
      BY <2>2 DEF todo, drafts
    <3> QED BY <3>1, <3>2, <3>3, <3>4, <3>5 DEF Drafted
  <2>9. Caught(p)'
    <3>1. Linked # DirectoryLink
      BY <1>0, LinkedCases
    <3> QED BY <2>2, <3>1 DEF Caught, Reading, Making, BeforeSwap
  <2>10. RecoversALink(p)'
    BY <1>0, <2>2, RecordsStay DEF RecordInv, RecoversALink
  <2> QED BY <1>0, <2>1, <2>8, <2>9, <2>10, QuietRecord
<1> QED BY <1>1, <1>2 DEF Observe

\* The sources left after one of them.
LEMMA TodoTail ==
  ASSUME NEW S, NEW todo \in Seq(S), todo # <<>>
  PROVE  /\ Tail(todo) \in Seq(S) /\ Head(todo) = todo[1] /\ Len(todo) \in Nat
         /\ Len(Tail(todo)) \in Nat /\ Len(Tail(todo)) = Len(todo) - 1
         /\ 1 \in 1..Len(todo)
         /\ \A T : (\A j \in 1..Len(todo) : todo[j] \in T) =>
                     \A j \in 1..Len(Tail(todo)) : Tail(todo)[j] \in T
         /\ Tail(todo) # <<>> => Tail(todo)[Len(Tail(todo))] = todo[Len(todo)]
         /\ Tail(todo) = <<>> => Len(todo) = 1
<1>1. /\ Tail(todo) \in Seq(S) /\ Len(Tail(todo)) = Len(todo) - 1
      /\ \A i \in 1..Len(Tail(todo)) : Tail(todo)[i] = todo[i + 1]
  BY HeadTailProperties
<1>2. Len(todo) \in Nat \ {0} /\ Len(Tail(todo)) \in Nat
  BY <1>1, EmptySeq, LenProperties
<1>3. \A T : (\A j \in 1..Len(todo) : todo[j] \in T) =>
               \A j \in 1..Len(Tail(todo)) : Tail(todo)[j] \in T
  <2>1. \A j \in 1..Len(Tail(todo)) : j + 1 \in 1..Len(todo)
    BY <1>1, <1>2
  <2> QED BY <1>1, <2>1
<1>4. Tail(todo) # <<>> => Tail(todo)[Len(Tail(todo))] = todo[Len(todo)]
  <2>1. Tail(todo) # <<>> => Len(Tail(todo)) \in 1..Len(Tail(todo))
    BY <1>1, <1>2, EmptySeq
  <2>2. Len(Tail(todo)) + 1 = Len(todo)
    BY <1>1, <1>2
  <2> QED BY <1>1, <2>1, <2>2
<1>5. Tail(todo) = <<>> => Len(todo) = 1
  BY <1>1, <1>2, EmptySeq
<1>6. Head(todo) = todo[1]
  OBVIOUS
<1> QED BY <1>1, <1>2, <1>3, <1>4, <1>5, <1>6

LEMMA SnapshotSourceKeepsRecord ==
  ASSUME TypeInv, RecordInv, NEW p \in Procs, SnapshotSource(p)
  PROVE  RecordInv'
<1> DEFINE r == proc[p]
           s == proc'[p]
           d == Head(r.todo)
<1>0. /\ proc[p] \in ProcStates /\ UNCHANGED records /\ r.pc = "snapshot" /\ r.todo # <<>>
      /\ r.todo \in Seq(Digests) /\ r.drafts \in Seq(LineageEvents)
      /\ RecoversALink(p) /\ Drafted(p) /\ Caught(p)
  BY DEF TypeInv, TypeOK, ProcStates, SnapshotSource, records, files, RecordInv
<1>1. /\ s.pc \in {"snapshot", "release"} /\ s.op = r.op /\ s.linked = r.linked
      /\ s.parent = r.parent /\ s.todo = Tail(r.todo) /\ s.start = r.start
      /\ s.pc = "snapshot" =>
           \/ s.drafts = r.drafts /\ ((snapshots[d] = "corrupt" /\ d # r.parent) \/ ~r.start)
           \/ r.start /\ s.drafts = Append(r.drafts, BootstrapAnchor(r.drafts, d))
      /\ \A q \in Procs \ {p} : proc'[q] = proc[q]
  BY SnapshotSourceFields
<1>2. /\ d = r.todo[1] /\ Len(r.todo) \in Nat /\ Len(s.todo) \in Nat
      /\ Len(s.todo) = Len(r.todo) - 1 /\ 1 \in 1..Len(r.todo)
      /\ (\A j \in 1..Len(r.todo) : r.todo[j] \in Standing) =>
           \A j \in 1..Len(s.todo) : s.todo[j] \in Standing
      /\ s.todo # <<>> => s.todo[Len(s.todo)] = r.todo[Len(r.todo)]
      /\ s.todo = <<>> => Len(r.todo) = 1
  BY <1>0, <1>1, TodoTail
<1>3. RecoversALink(p)' /\ Caught(p)'
  BY <1>0, <1>1, RecordsStay
  DEF RecoversALink, Caught, Reading, Making, BeforeSwap
<1>4. Drafted(p)'
  <2>1. CASE s.pc = "release"
    BY <2>1 DEF Drafted
  <2>2. CASE s.pc = "snapshot" /\ ~r.start /\ s.drafts = r.drafts
    <3>1. /\ \A i \in 1..Len(r.drafts) : r.drafts[i].digest \in Standing
          /\ Len(r.drafts) <= 1
          /\ r.drafts = <<>> /\ r.op # "bootstrap" => TailDigest(Events) = r.parent
          /\ r.parent # NoDigest => Events # <<>>
          /\ r.drafts # <<>> => r.drafts[Len(r.drafts)].digest = r.parent
      BY <1>0, <2>2 DEF Drafted
    <3>2. ~s.start
      BY <1>1, <2>2
    <3> HIDE DEF r, s, d
    <3>3. s.pc = "snapshot" /\ s = proc'[p]
      BY <2>2 DEF s
    <3> QED BY <1>0, <1>1, <2>2, <3>1, <3>2, <3>3, RecordsStay DEF Drafted
  <2>3. CASE s.pc = "snapshot" /\ r.start
    <3>1. /\ \A i \in 1..Len(r.drafts) : r.drafts[i].digest \in Standing
          /\ Events = <<>> /\ Len(r.todo) + Len(r.drafts) <= 2
          /\ \A j \in 1..Len(r.todo) : r.todo[j] \in Standing
          /\ r.todo[Len(r.todo)] = r.parent
      BY <1>0, <2>3 DEF Drafted
    <3>2. d \in Standing /\ (s.todo = <<>> => d = r.parent)
      BY <1>2, <3>1
    <3>3. /\ s.start /\ \A j \in 1..Len(s.todo) : s.todo[j] \in Standing
          /\ s.todo # <<>> => s.todo[Len(s.todo)] = s.parent
      BY <1>1, <1>2, <2>3, <3>1
    <3>4. Len(r.drafts) \in Nat
      BY <1>0, LenProperties
    <3>5. /\ \A i \in 1..Len(s.drafts) : s.drafts[i].digest \in Standing
          /\ Len(s.todo) + Len(s.drafts) <= 2
          /\ s.todo = <<>> => s.drafts # <<>> /\ s.drafts[Len(s.drafts)].digest = s.parent
      <4> DEFINE n == Len(r.todo)
                 m == Len(s.todo)
                 k == Len(r.drafts)
      <4>0. n \in Nat /\ m \in Nat /\ k \in Nat /\ m = n - 1 /\ n + k <= 2
        BY <1>2, <3>1, <3>4
      <4> HIDE DEF n, m, k
      <4>01. m + k <= 2 /\ m + (k + 1) <= 2 /\ k + 1 \in Nat
        BY <4>0
      <4>1. CASE s.drafts = r.drafts
        <5>1. d # r.parent
          BY <1>1, <2>3, <4>1
        <5>2. s.todo # <<>>
          BY <3>2, <5>1
        <5>3. m + Len(s.drafts) <= 2
          BY <4>01, <4>1 DEF k
        <5> QED BY <3>1, <4>1, <5>2, <5>3 DEF m
      <4>2. CASE s.drafts = Append(r.drafts, BootstrapAnchor(r.drafts, d))
        <5> DEFINE e == BootstrapAnchor(r.drafts, d)
        <5>1. e.digest = d
          BY DEF BootstrapAnchor, Recovered
        <5>2. /\ Len(Append(r.drafts, e)) = Len(r.drafts) + 1
              /\ Append(r.drafts, e)[Len(r.drafts) + 1] = e
              /\ \A i \in 1..Len(r.drafts) : Append(r.drafts, e)[i] = r.drafts[i]
          BY <1>0, AppendProperties
        <5> HIDE DEF e
        <5>3. /\ Len(s.drafts) = Len(r.drafts) + 1 /\ s.drafts[Len(r.drafts) + 1] = e
              /\ \A i \in 1..Len(r.drafts) : s.drafts[i] = r.drafts[i]
          BY <4>2, <5>2 DEF e
        <5>4. s.drafts # <<>>
          BY <3>4, <5>3, EmptySeq
        <5>5. m + Len(s.drafts) <= 2
          BY <4>01, <5>3 DEF k
        <5>6. \A i \in 1..Len(s.drafts) : s.drafts[i].digest \in Standing
          <6>1. \A i \in 1..(k + 1) : i \in 1..k \/ i = k + 1
            BY <4>0
          <6> QED BY <3>1, <3>2, <5>1, <5>3, <6>1 DEF k
        <5>7. s.todo = <<>> => s.drafts[Len(s.drafts)].digest = s.parent
          BY <1>1, <3>2, <5>1, <5>3
        <5> QED BY <5>4, <5>5, <5>6, <5>7 DEF m
      <4> QED BY <1>1, <2>3, <4>1, <4>2
    <3> HIDE DEF r, s, d
    <3>6. s.pc = "snapshot" /\ s = proc'[p]
      BY <2>3 DEF s
    <3> QED BY <1>0, <3>1, <3>3, <3>5, <3>6, RecordsStay DEF Drafted
  <2> QED BY <1>1, <2>1, <2>2, <2>3
<1> QED BY <1>0, <1>1, <1>3, <1>4, QuietRecord

LEMMA ReadTailKeepsRecord ==
  ASSUME TypeInv, ViewInv, RecordInv, NEW p \in Procs, ReadTailForAnchors(p)
  PROVE  RecordInv'
<1> DEFINE r == proc[p]
<1>0. /\ r \in ProcStates /\ UNCHANGED records /\ r.pc = "snapshot" /\ r.todo = <<>>
      /\ RecoversALink(p) /\ Drafted(p) /\ LinkReads /\ legacy = Absent /\ TypeOK
      /\ SeesTheStore(p)
  BY DEF TypeInv, TypeOK, ReadTailForAnchors, storeVars, records, files, RecordInv, ViewInv
<1>1. r.parent = ParentDigest
  BY <1>0 DEF SeesTheStore, MovedAside, Reading
<1>2. CASE r.drafts = <<>> /\ Goto(p, AfterAnchors(r))
  <2>1. /\ r.op # "bootstrap" => TailDigest(Events) = r.parent
        /\ r.parent # NoDigest => Events # <<>>
    BY <1>0, <1>2 DEF Drafted
  <2>2. r.op = "recover" => Events # <<>> /\ TailDigest(Events) = ParentDigest
    BY <1>0, <1>1, <2>1, LinkedHasDigest DEF RecoversALink
  <2>3. r.op = "seal" => TailDigest(Events) = r.parent
    BY <2>1
  <2>4. /\ AfterAnchors(r) \in Labels
        /\ AfterAnchors(r) = "collect" => r.op = "seal"
        /\ AfterAnchors(r) = "index" => r.op = "recover"
        /\ AfterAnchors(r) \in {"collect", "index", "release"}
    BY DEF AfterAnchors, Labels, UnderLock
  <2>5. KeepsRecord(r, AfterAnchors(r))
    BY <1>0, <2>2, <2>3, <2>4
    DEF KeepsRecord, RecordLabels, Reading, Making, BeforeSwap
  <2> QED BY <1>0, <1>2, <2>4, <2>5, GotoKeepsRecord
<1>3. CASE /\ r.drafts # <<>>
           /\ proc' = [proc EXCEPT ![p] = TailRead(@, proc[p].tail, "anchor")]
  <2>1. \E label \in {"anchor", "release"} : Moves(p, label)
    BY <1>3, TailReadMoves
  <2> QED BY <1>0, <1>3, <2>1, MoveKeepsRecord
      DEF KeepsRecord, RecordLabels, Reading, Making, BeforeSwap, Labels, UnderLock
<1> QED BY <1>2, <1>3 DEF ReadTailForAnchors

\* What an append in flight names stands, and its last event is of what is linked.
LEMMA InFlightStands ==
  ASSUME TypeInv, ViewInv, RecordInv, NEW p \in Procs, proc[p].pc \in {"anchor", "append"}
  PROVE  LET events == InFlight(proc[p])
         IN  /\ Len(events) \in Nat /\ Len(events) >= 1
             /\ \A i \in 1..Len(events) : events[i].digest \in Standing
             /\ events[Len(events)].digest = ParentDigest
             /\ proc[p].pc = "anchor" => proc[p].parent = ParentDigest
<1>0. /\ proc[p] \in ProcStates /\ Drafted(p) /\ Caught(p) /\ LinkReads /\ legacy = Absent
      /\ TypeOK /\ SeesTheStore(p) /\ SeesItsSeal(p) /\ Fits(proc[p])
  BY DEF TypeInv, TypeOK, AllFit, RecordInv, ViewInv
<1>1. CASE proc[p].pc = "anchor"
  <2>1. proc[p].parent = ParentDigest
    BY <1>0, <1>1 DEF SeesTheStore, MovedAside, Reading
  <2>2. InFlight(proc[p]) = proc[p].drafts
    BY <1>1 DEF InFlight
  <2>3. /\ \A i \in 1..Len(proc[p].drafts) : proc[p].drafts[i].digest \in Standing
        /\ proc[p].drafts # <<>> /\ proc[p].drafts[Len(proc[p].drafts)].digest = proc[p].parent
    BY <1>0, <1>1 DEF Drafted
  <2>4. proc[p].drafts \in Seq(LineageEvents)
    BY <1>0 DEF ProcStates
  <2>5. Len(proc[p].drafts) \in Nat /\ Len(proc[p].drafts) >= 1
    BY <2>3, <2>4, EmptySeq
  <2> QED BY <1>1, <2>1, <2>2, <2>3, <2>5
<1>2. CASE proc[p].pc = "append"
  <2>1. InFlight(proc[p]) = <<SealedEvent(proc[p].parent, proc[p].new)>>
    BY <1>2 DEF InFlight
  <2>2. /\ link = proc[p].seq /\ link # NoLink /\ gens[proc[p].seq] = proc[p].new
        /\ proc[p].new \in Digests
    BY <1>0, <1>2 DEF SeesTheStore, SeesItsSeal, SwappedIn, Caught, Fits
  <2>3. proc[p].new = ParentDigest /\ proc[p].new \in Standing
    BY <1>0, <2>2, LinkedHasDigest, NoDigestAssumption DEF Standing
  <2>4. SealedEvent(proc[p].parent, proc[p].new).digest = proc[p].new
    BY DEF SealedEvent
  <2> DEFINE e == SealedEvent(proc[p].parent, proc[p].new)
  <2> HIDE DEF e
  <2>5. Len(<<e>>) = 1 /\ <<e>>[1] = e
    OBVIOUS
  <2> QED BY <1>2, <2>1, <2>3, <2>4, <2>5 DEF e
<1> QED BY <1>1, <1>2

\* The digest a lineage ends at once n events are appended.
LEMMA TailOfExtended ==
  ASSUME NEW S, NEW events \in Seq(S), NEW drafts \in Seq(S), NEW n \in 1..Len(drafts)
  PROVE  LET extended == events \o SubSeq(drafts, 1, n)
         IN  /\ extended # <<>>
             /\ TailDigest(extended) = drafts[n].digest
<1> DEFINE extended == events \o SubSeq(drafts, 1, n)
<1>1. Len(events) \in Nat /\ Len(drafts) \in Nat /\ n \in 0..Len(drafts)
  BY LenProperties
<1>2. /\ Len(extended) = Len(events) + n
      /\ \A i \in 1..n : extended[Len(events) + i] = drafts[i]
  BY <1>1, ExtendedEvents
<1>3. Len(extended) # 0 /\ n \in 1..n
  BY <1>1, <1>2
<1>4. extended # <<>>
  BY <1>3, EmptySeq
<1> QED BY <1>2, <1>3, <1>4 DEF TailDigest

LEMMA AppendsKeepRecord ==
  ASSUME TypeInv, LockInv, ChainInv, ViewInv, RecordInv, NEW p \in Procs,
         AppendAnchors(p) \/ AppendSealed(p) \/ TearAppend(p)
  PROVE  RecordInv'
<1> DEFINE events == InFlight(proc[p])
           r == proc[p]
<1>0. /\ proc \in [Procs -> ProcStates] /\ r.pc \in {"anchor", "append"}
      /\ UNCHANGED files /\ UNCHANGED <<link, legacy, indexed>> /\ r.pc \in Holding
      /\ legacy = Absent /\ Recorded /\ RecoversALink(p) /\ Drafted(p) /\ Caught(p)
      /\ (indexed => link # NoLink) /\ Events \in Seq(LineageEvents)
      /\ events \in Seq(LineageEvents)
  BY InFlightAppended
  DEF TypeInv, TypeOK, AppendAnchors, AppendSealed, TearAppend, files, Holding, UnderLock,
      RecordInv, Events
<1>1. /\ Len(events) \in Nat /\ Len(events) >= 1
      /\ \A i \in 1..Len(events) : events[i].digest \in Standing
      /\ events[Len(events)].digest = ParentDigest
      /\ r.pc = "anchor" => r.parent = ParentDigest
  BY <1>0, InFlightStands
<1>2. Standing' = Standing /\ ParentDigest' = ParentDigest
  BY <1>0, ReadsStay DEF Standing
<1>3. Recorded'
  <2>1. PICK n \in 0..Len(events) : Events' = Events \o SubSeq(events, 1, n)
    BY InFlightAppended
  <2>2. CASE n = 0
    <3>1. Events' = Events
      <4>1. SubSeq(events, 1, 0) = <<>>
        BY SubSeqEmpty
      <4> HIDE DEF events
      <4> QED BY <1>0, <2>1, <2>2, <4>1, ConcatEmptySeq
    <3> QED BY <1>0, <1>2, <3>1 DEF Recorded
  <2>3. CASE n # 0
    <3>1. n \in 1..Len(events)
      BY <1>1, <2>3
    <3> HIDE DEF events
    <3>2. TailDigest(Events') = events[n].digest
      BY <1>0, <2>1, <3>1, TailOfExtended
    <3> QED BY <1>1, <1>2, <3>1, <3>2 DEF Recorded
  <2> QED BY <2>2, <2>3
<1>4. AppendAnchors(p) \/ AppendSealed(p) => Events' # <<>> /\ TailDigest(Events') = ParentDigest
  <2>1. AppendAnchors(p) \/ AppendSealed(p) => Events' = Events \o events
    BY InFlightAppended
  <2>2. SubSeq(events, 1, Len(events)) = events
    <3> HIDE DEF events
    <3> QED BY <1>0, SubSeqProperties, LenProperties, SeqEqual
  <2>3. Len(events) \in 1..Len(events)
    BY <1>1
  <2> HIDE DEF events
  <2>4. LET extended == Events \o SubSeq(events, 1, Len(events))
        IN  extended # <<>> /\ TailDigest(extended) = events[Len(events)].digest
    BY <1>0, <2>3, TailOfExtended
  <2> QED BY <1>1, <2>1, <2>2, <2>4
<1>5. /\ \A q \in Procs \ {p} : proc'[q] = proc[q]
      /\ RecoversALink(p)' /\ Drafted(p)' /\ Caught(p)'
  <2>1. CASE AppendAnchors(p)
    <3>1. r.pc = "anchor" /\ Goto(p, AfterAnchors(r))
      BY <2>1 DEF AppendAnchors
    <3>2. AfterAnchors(r) \in {"collect", "index", "release"} /\ AfterAnchors(r) \in Labels
      BY DEF AfterAnchors, Labels, UnderLock
    <3>3. /\ proc'[p].pc = AfterAnchors(r) /\ SameRequest(proc'[p], r)
          /\ \A q \in Procs \ {p} : proc'[q] = proc[q]
      BY <1>0, <3>1, <3>2, GotoEffect
    <3>4. r.linked # DirectoryLink
      BY <1>0, <3>1 DEF Caught, Reading
    <3> QED BY <1>0, <1>1, <1>2, <1>4, <2>1, <3>1, <3>2, <3>3, <3>4
        DEF RecoversALink, Drafted, Caught, SameRequest, Reading, Making, BeforeSwap
  <2>2. CASE AppendSealed(p)
    <3>1. Goto(p, "index") /\ "index" \in Labels
      BY <2>2 DEF AppendSealed, Labels, UnderLock
    <3>2. /\ proc'[p].pc = "index" /\ SameRequest(proc'[p], r)
          /\ \A q \in Procs \ {p} : proc'[q] = proc[q]
      BY <1>0, <3>1, GotoEffect
    <3> QED BY <1>0, <1>2, <1>4, <2>2, <3>2
        DEF RecoversALink, Drafted, Caught, SameRequest, Reading, Making, BeforeSwap
  <2>3. CASE TearAppend(p)
    <3>1. Goto(p, "release") \/ Finish(p)
      BY <2>3 DEF TearAppend, Gone
    <3>2. /\ proc'[p].pc \in {"release", "idle"} /\ proc'[p].op \in {r.op, "none"}
          /\ \A q \in Procs \ {p} : proc'[q] = proc[q]
      BY <1>0, <3>1, GotoEffect, FinishEffect DEF Idle, SameRequest, Labels, UnderLock
    <3> QED BY <1>0, <3>2
        DEF RecoversALink, Drafted, Caught, Reading, Making, BeforeSwap
  <2> QED BY <2>1, <2>2, <2>3
<1> HIDE DEF events
<1> QED BY <1>0, <1>3, <1>5, HeldRecord

\* The steps that write neither the lineage nor a generation.
LEMMA PublishesKeepRecord ==
  ASSUME TypeInv, RecordInv, NEW p \in Procs,
         PublishSnapshot(p) \/ MakeLinkTmp(p) \/ ReadTailForSeal(p)
  PROVE  RecordInv'
<1>0. UNCHANGED records /\ Caught(p)
  BY DEF PublishSnapshot, MakeLinkTmp, ReadTailForSeal, storeVars, records, files, RecordInv
<1>1. CASE PublishSnapshot(p)
  <2>1. \E label \in {"symlink", "rollback"} : Goto(p, label) /\ proc[p].pc = "publish"
    BY <1>1 DEF PublishSnapshot
  <2> QED BY <1>0, <2>1, GotoKeepsRecord DEF KeepsRecord, BeforeSwap, Labels, UnderLock
<1>2. CASE MakeLinkTmp(p)
  <2>1. proc[p].linked # DirectoryLink /\ proc[p].pc = "symlink"
    BY <1>0, <1>2 DEF MakeLinkTmp, Caught, Making, BeforeSwap
  <2>2. \E label \in {"swap", "rollback"} : Goto(p, label)
    BY <1>2, <2>1 DEF MakeLinkTmp
  <2> QED BY <1>0, <2>1, <2>2, GotoKeepsRecord DEF KeepsRecord, BeforeSwap, Labels, UnderLock
<1>3. CASE ReadTailForSeal(p)
  <2>1. \E label \in {"append", "release"} : Moves(p, label) /\ proc[p].pc = "event"
    BY <1>3, TailReadMoves DEF ReadTailForSeal
  <2> QED BY <1>0, <2>1, MoveKeepsRecord
      DEF KeepsRecord, RecordLabels, Reading, Making, BeforeSwap, Labels, UnderLock
<1> QED BY <1>1, <1>2, <1>3

LEMMA WriteIndexKeepsRecord ==
  ASSUME TypeInv, LockInv, ViewInv, RecordInv, NEW p \in Procs, WriteIndex(p)
  PROVE  RecordInv'
<1>0. /\ proc \in [Procs -> ProcStates] /\ proc[p].pc = "index" /\ proc[p].pc \in Holding
      /\ UNCHANGED files /\ UNCHANGED <<link, legacy>> /\ Events' = Events
      /\ legacy = Absent /\ Recorded /\ RecoversALink(p) /\ Caught(p) /\ LinkReads /\ TypeOK
  BY DEF TypeInv, TypeOK, WriteIndex, files, Events, Holding, UnderLock, RecordInv, ViewInv
<1>1. Recorded'
  <2>1. Standing' = Standing
    BY <1>0, ReadsStay DEF Standing
  <2> QED BY <1>0, <2>1 DEF Recorded
<1>2. link # NoLink
  <2>1. ParentDigest # NoDigest
    BY <1>0 DEF Caught, Recorded, Standing
  <2> QED BY <1>0, <2>1, LinkedHasDigest
<1>3. \E label \in {"sweep", "release"} : Goto(p, label) /\ label \in Labels
  BY DEF WriteIndex, Labels, UnderLock
<1>4. /\ proc'[p].pc \in {"sweep", "release"} /\ SameRequest(proc'[p], proc[p])
      /\ \A q \in Procs \ {p} : proc'[q] = proc[q]
  BY <1>0, <1>3, GotoEffect
<1>5. RecoversALink(p)' /\ Drafted(p)' /\ Caught(p)'
  BY <1>0, <1>4
  DEF RecoversALink, Drafted, Caught, SameRequest, Reading, Making, BeforeSwap
<1> QED BY <1>0, <1>1, <1>2, <1>4, <1>5, HeldRecord

\* A step that changes one directory that is neither linked nor N-1.
LEMMA DirectoryKeepsRecord ==
  ASSUME TypeInv, LockInv, ViewInv, RecordInv, NEW p \in Procs, proc[p].pc \in Holding,
         UNCHANGED <<link, legacy, lineage, indexed>>,
         NEW s \in Seqs, NEW c, gens' = [gens EXCEPT ![s] = c],
         link = NoLink \/ s > link \/ s \in Generations \ Retained(link),
         \A q \in Procs \ {p} : proc'[q] = proc[q],
         proc'[p].op = proc[p].op, proc'[p].parent = proc[p].parent,
         proc'[p].linked = proc[p].linked,
         \/ proc'[p].pc \in {"collect", "fill", "publish"}
              /\ proc[p].pc \in {"collect", "fill"}
         \/ proc'[p].pc \in {"sweep", "release"}
  PROVE  RecordInv'
<1>0. /\ TypeOK /\ LinkReads /\ legacy = Absent /\ Recorded /\ RecoversALink(p) /\ Caught(p)
      /\ (indexed => link # NoLink) /\ Events' = Events
  BY DEF TypeInv, ViewInv, RecordInv, Events
<1>1. link # NoLink => s # link
  <2>1. link \in Int
    BY <1>0, SeqsAreInts DEF TypeOK
  <2>2. link # NoLink => link \in Retained(link)
    BY LinkIsRetained
  <2> QED BY <2>1, <2>2
<1>2. ParentDigest' = ParentDigest /\ PreviousDigest' = PreviousDigest
  BY <1>0, <1>1, OtherDirectory, PreviousStays
<1>3. Recorded'
  BY <1>0, <1>2 DEF Recorded, Standing
<1>4. RecoversALink(p)' /\ Drafted(p)' /\ Caught(p)'
  BY <1>0
  DEF RecoversALink, Drafted, Caught, Reading, Making, BeforeSwap
<1> QED BY <1>0, <1>3, <1>4, HeldRecord

LEMMA CollectionKeepsRecord ==
  ASSUME TypeInv, LockInv, ViewInv, RecordInv, NEW p \in Procs,
         CollectOrphan(p) \/ SweepGeneration(p)
  PROVE  RecordInv'
<1>0. /\ proc \in [Procs -> ProcStates] /\ proc[p].pc \in Holding
      /\ UNCHANGED <<link, legacy, lineage, indexed>> /\ proc[p].pc \in {"collect", "sweep"}
      /\ LinkReads /\ SeesTheStore(p) /\ SeesItsSeal(p) /\ TypeOK /\ legacy = Absent
  BY DEF TypeInv, TypeOK, CollectOrphan, SweepGeneration, Holding, UnderLock, ViewInv, RecordInv
<1>1. CASE Goto(p, "release") /\ UNCHANGED gens
  <2>1. UNCHANGED records
    BY <1>0, <1>1 DEF records, files
  <2> QED BY <1>1, <2>1, GotoKeepsRecord
      DEF KeepsRecord, RecordLabels, Reading, Making, BeforeSwap, Labels, UnderLock
<1>2. CASE \E s \in Generations \ Retained(link) : Erode(s) /\ proc' = proc
  <2>1. PICK s \in Generations \ Retained(link) : Erode(s) /\ proc' = proc
    BY <1>2
  <2>2. s \in Seqs /\ \E c \in {Absent, Partial} : gens' = [gens EXCEPT ![s] = c]
    BY <2>1, ErodeEffect DEF Generations
  <2> QED BY <1>0, <2>1, <2>2, DirectoryKeepsRecord
<1>3. proc[p].pc = "collect" => proc[p].linked = link
  BY <1>0, LinkedHasDigest DEF SeesTheStore, Reading, MovedAside
<1>4. proc[p].pc = "sweep" => proc[p].seq = link
  BY <1>0 DEF SeesItsSeal, SwappedIn
<1>5. CASE CollectOrphan(p)
  BY <1>2, <1>3, <1>5 DEF CollectOrphan
<1>6. CASE SweepGeneration(p)
  BY <1>1, <1>2, <1>4, <1>6 DEF SweepGeneration
<1> QED BY <1>5, <1>6

LEMMA MakingKeepsRecord ==
  ASSUME TypeInv, LockInv, ViewInv, RecordInv, NEW p \in Procs,
         MakeGeneration(p) \/ FillGeneration(p) \/ MoveLegacyAside(p) \/ RollBack(p)
  PROVE  RecordInv'
<1>0. /\ proc \in [Procs -> ProcStates] /\ proc[p] \in ProcStates /\ Caught(p)
      /\ legacy = Absent /\ TypeOK /\ LinkReads /\ SeesTheStore(p)
  BY DEF TypeInv, TypeOK, RecordInv, ViewInv
<1>1. CASE MakeGeneration(p)
  <2> DEFINE s == NextSeq(proc[p].linked)
  <2>1. /\ proc[p].pc = "collect" /\ UNCHANGED <<link, legacy, lineage, indexed>>
        /\ gens' = [gens EXCEPT ![s] = Partial] /\ s \in Seqs
        /\ proc' = [proc EXCEPT ![p].pc = "fill", ![p].seq = s]
        /\ proc[p].pc \in Holding
    BY <1>1 DEF MakeGeneration, Holding, UnderLock
  <2>2. proc[p].linked = link
    BY <1>0, <2>1, LinkedHasDigest DEF SeesTheStore, Reading, MovedAside
  <2>3. s > link
    BY <1>0, <2>2, NextSeqIsAbove DEF ProcStates
  <2> HIDE DEF s
  <2>4. /\ \A q \in Procs \ {p} : proc'[q] = proc[q]
        /\ proc'[p].op = proc[p].op /\ proc'[p].parent = proc[p].parent
        /\ proc'[p].linked = proc[p].linked /\ proc'[p].pc = "fill"
    BY <1>0, <2>1 DEF ProcStates
  <2> QED BY <2>1, <2>3, <2>4, DirectoryKeepsRecord
<1>2. CASE FillGeneration(p)
  <2>1. /\ proc[p].pc = "fill" /\ UNCHANGED <<link, legacy, lineage, indexed>>
        /\ gens' = [gens EXCEPT ![proc[p].seq] = proc[p].new] /\ Goto(p, "publish")
        /\ "publish" \in Labels /\ proc[p].pc \in Making
    BY <1>2 DEF FillGeneration, Labels, UnderLock, Making, BeforeSwap
  <2>2. proc[p].seq \in Seqs /\ proc[p].seq > link /\ proc[p].pc \in Holding
    BY <2>1, MakingKnows
  <2>3. /\ proc'[p].pc = "publish" /\ SameRequest(proc'[p], proc[p])
        /\ \A q \in Procs \ {p} : proc'[q] = proc[q]
    BY <1>0, <2>1, GotoEffect
  <2>4. PICK c : gens' = [gens EXCEPT ![proc[p].seq] = c]
    BY <2>1
  <2>5. /\ proc'[p].op = proc[p].op /\ proc'[p].parent = proc[p].parent
        /\ proc'[p].linked = proc[p].linked
    BY <2>3 DEF SameRequest
  <2>6. /\ UNCHANGED <<link, legacy, lineage, indexed>>
        /\ proc[p].pc = "fill" /\ proc'[p].pc = "publish"
        /\ \A q \in Procs \ {p} : proc'[q] = proc[q]
    BY <2>1, <2>3
  <2> QED BY <2>2, <2>4, <2>5, <2>6, DirectoryKeepsRecord
<1>3. CASE MoveLegacyAside(p)
  BY <1>0, <1>3 DEF MoveLegacyAside, SeesTheStore
<1>4. CASE RollBack(p)
  <2>1. proc[p].pc = "rollback" /\ proc[p].linked # DirectoryLink /\ proc[p].pc \in Making
    BY <1>0, <1>4 DEF RollBack, Caught, Making
  <2>2. /\ UNCHANGED <<link, legacy, lineage, indexed>>
        /\ gens' = [gens EXCEPT ![proc[p].seq] = Absent]
        /\ Goto(p, "release") /\ "release" \in Labels
    BY <1>4, <2>1 DEF RollBack, Labels, UnderLock
  <2>3. proc[p].seq \in Seqs /\ proc[p].seq > link /\ proc[p].pc \in Holding
    BY <2>1, MakingKnows
  <2>4. /\ proc'[p].pc = "release" /\ SameRequest(proc'[p], proc[p])
        /\ \A q \in Procs \ {p} : proc'[q] = proc[q]
    BY <1>0, <2>2, GotoEffect
  <2>5. /\ proc'[p].op = proc[p].op /\ proc'[p].parent = proc[p].parent
        /\ proc'[p].linked = proc[p].linked
    BY <2>4 DEF SameRequest
  <2> QED BY <2>2, <2>3, <2>4, <2>5, DirectoryKeepsRecord
<1> QED BY <1>1, <1>2, <1>3, <1>4

\* The swap makes what was linked N-1.
LEMMA SwapMakesPrevious ==
  ASSUME TypeInv, LockInv, ViewInv, RecordInv, NEW p \in Procs, SwapLink(p)
  PROVE  /\ link' = proc[p].seq /\ link' # NoLink /\ UNCHANGED <<legacy, gens>>
         /\ link' \in Seqs /\ link' > link
         /\ ParentDigest' = proc[p].new /\ ParentDigest' \in Digests
         /\ link # NoLink =>
              /\ Highest(Below(link)') = link /\ Below(link)' # {}
              /\ PreviousDigest' = ParentDigest
         /\ proc[p].parent = ParentDigest
<1>0. /\ proc[p].pc = "swap" /\ proc[p].pc \in Making /\ link' = proc[p].seq
      /\ UNCHANGED <<legacy, gens>> /\ proc[p].pc \in BeforeSwap
      /\ legacy = Absent /\ Caught(p)
  BY DEF SwapLink, Making, BeforeSwap, RecordInv
<1>1. /\ LinkReads /\ TypeOK /\ proc[p].seq \in Seqs /\ proc[p].seq > link
      /\ link # NoLink => \A s \in Generations : s <= link \/ s = proc[p].seq
      /\ gens[proc[p].seq] = proc[p].new /\ proc[p].new \in Digests
      /\ proc[p].seq >= 1 /\ Fits(proc[p])
  BY <1>0, MakingKnows, SealingFields DEF SeesTheStore, TypeInv, AllFit, Fits
<1>2. proc[p].parent = ParentDigest
  BY <1>0, MakingKnows DEF MovedAside, Caught
<1>3. link' # NoLink /\ link \in Int /\ proc[p].seq \in Int
  BY <1>0, <1>1, SeqsAreInts DEF NoLink, TypeOK
<1>4. ParentDigest' = proc[p].new
  BY <1>0, <1>1, <1>3 DEF ParentDigest, LinkedContents
<1>5. ASSUME link # NoLink
      PROVE  /\ Highest(Below(link)') = link /\ Below(link)' # {}
             /\ PreviousDigest' = ParentDigest
  <2>1. gens[link] \in Digests /\ ParentDigest = gens[link]
    BY <1>0, <1>1, <1>5, LinkedHasDigest
  <2>2. link \in Generations
    BY <1>1, <2>1, StoreAssumption DEF Generations, TypeOK, Absent
  <2>3. Generations' = Generations
    BY <1>0 DEF Generations
  <2>4. Below(link)' = {s \in Generations : s < proc[p].seq}
    BY <1>0, <2>3 DEF Below
  <2>5. link \in Below(link)' /\ \A s \in Below(link)' : s <= link
    <3>1. ASSUME NEW s \in Below(link)' PROVE s <= link
      <4>0. s \in Generations /\ s < proc[p].seq
        BY <2>4
      <4>1. s \in Generations /\ s < proc[p].seq /\ s \in Int
        BY <4>0, SeqsAreInts DEF Generations
      <4> QED BY <1>1, <1>3, <1>5, <4>1
    <3>2. link < proc[p].seq
      BY <1>1, <1>3
    <3> QED BY <2>2, <2>4, <3>1, <3>2
  <2>6. Below(link)' \in SUBSET (0..MaxSeq)
    BY <2>4, GenerationsAreSeqs
  <2>7. Highest(Below(link)') = link
    BY <2>5, <2>6, HighestIs
  <2>8. PreviousDigest' = gens[link]
    BY <1>0, <1>3, <2>1, <2>5, <2>7 DEF PreviousDigest
  <2> QED BY <2>1, <2>5, <2>7, <2>8
<1> QED BY <1>0, <1>1, <1>2, <1>3, <1>4, <1>5

LEMMA SwapKeepsRecord ==
  ASSUME TypeInv, LockInv, ViewInv, RecordInv, NEW p \in Procs, SwapLink(p)
  PROVE  RecordInv'
<1>0. /\ proc \in [Procs -> ProcStates] /\ proc[p].pc = "swap" /\ Events' = Events
      /\ Goto(p, "event") /\ "event" \in Labels /\ indexed' = indexed
      /\ proc[p].pc \in Holding /\ proc[p].pc \in BeforeSwap
      /\ legacy = Absent /\ Caught(p) /\ Recorded /\ RecoversALink(p) /\ Fits(proc[p])
      /\ LinkReads /\ TypeOK
  BY DEF TypeInv, TypeOK, AllFit, SwapLink, Events, Labels, UnderLock, Holding, BeforeSwap,
         RecordInv, ViewInv
<1>1. /\ proc'[p].pc = "event" /\ SameRequest(proc'[p], proc[p])
      /\ \A q \in Procs \ {p} : proc'[q] = proc[q]
  BY <1>0, GotoEffect
<1>2. TailDigest(Events) = ParentDigest
  BY <1>0, SwapMakesPrevious DEF Caught
<1>3. Recorded'
  <2>1. CASE Events = <<>>
    BY <1>0, <2>1 DEF Recorded
  <2>2. CASE Events # <<>>
    <3>1. ParentDigest # NoDigest
      BY <1>0, <1>2, <2>2 DEF Recorded, Standing
    <3>2. PreviousDigest' = ParentDigest
      BY <1>0, <3>1, LinkedHasDigest, SwapMakesPrevious
    <3> QED BY <1>0, <1>2, <3>1, <3>2 DEF Recorded, Standing
  <2> QED BY <2>1, <2>2
<1>4. RecoversALink(p)' /\ Drafted(p)' /\ Caught(p)'
  <2>1. proc[p].op = "seal"
    BY <1>0 DEF Fits
  <2>2. TailDigest(Events) = proc[p].parent
    BY <1>0 DEF Caught
  <2> QED BY <1>0, <1>1, <2>1, <2>2, SwapMakesPrevious
      DEF RecoversALink, Drafted, Caught, SameRequest, Reading, Making, BeforeSwap
<1> QED BY <1>0, <1>1, <1>3, <1>4, SwapMakesPrevious, HeldRecord

-----------------------------------------------------------------------------
(* The lineage follows the link: the theorems *)

LEMMA InitRecord == Init => RecordInv \/ indexed
<1> SUFFICES ASSUME Init, ~indexed PROVE RecordInv
  OBVIOUS
<1>1. legacy = Absent /\ Events = <<>>
  BY DEF Init, Events
<1>2. ASSUME NEW p \in Procs PROVE RecoversALink(p) /\ Drafted(p) /\ Caught(p)
  BY <1>2 DEF Init, Idle, RecoversALink, Drafted, Caught, Reading, Making, BeforeSwap
<1> QED BY <1>1, <1>2 DEF RecordInv, Recorded

LEMMA InitRecordWithoutLegacy ==
  ASSUME NoLegacyStore
  PROVE  Init => RecordInv
<1> SUFFICES ASSUME Init PROVE RecordInv
  OBVIOUS
<1>1. legacy = Absent /\ Events = <<>> /\ (indexed => link # NoLink)
  BY DEF Init, Events, NoLegacyStore, NoLink
<1>2. ASSUME NEW p \in Procs PROVE RecoversALink(p) /\ Drafted(p) /\ Caught(p)
  BY <1>2 DEF Init, Idle, RecoversALink, Drafted, Caught, Reading, Making, BeforeSwap
<1> QED BY <1>1, <1>2 DEF RecordInv, Recorded

LEMMA NextKeepsRecord ==
  ASSUME NothingIsLost
  PROVE  TypeInv /\ LockInv /\ ChainInv /\ ViewInv /\ RecordInv /\ [Next]_vars => RecordInv'
<1> SUFFICES ASSUME TypeInv, LockInv, ChainInv, ViewInv, RecordInv, [Next]_vars
             PROVE  RecordInv'
  OBVIOUS
<1>1. CASE UNCHANGED vars
  BY <1>1, NoProcessRecords DEF vars, storeVars, records, files
<1>2. CASE LoseLink \/ DamageGeneration
  BY <1>2 DEF LoseLink, DamageGeneration, Spend, NothingIsLost
<1>3. CASE DamageSnapshot \/ LockAges
  BY <1>3, NoProcessRecords DEF DamageSnapshot, LockAges, storeVars, records, files
<1>4. ASSUME NEW p \in Procs,
             \/ Begin(p) \/ TryLock(p) \/ WriteOwner(p) \/ RetryLock(p) \/ ReadOwner(p)
             \/ ProbeOwner(p) \/ ConfirmReclaim(p)
             \/ RecreateLock(p) \/ Release(p) \/ Fail(p) \/ WriteOwnerFails(p) \/ Crash(p)
             \/ Exit(p)
      PROVE  RecordInv'
  BY <1>4, BeginKeepsRecord, LockStepKeepsRecord
<1>5. ASSUME NEW p \in Procs,
             \/ Observe(p) \/ SnapshotSource(p) \/ ReadTailForAnchors(p) \/ AppendAnchors(p)
             \/ PublishSnapshot(p) \/ MakeLinkTmp(p) \/ ReadTailForSeal(p) \/ AppendSealed(p)
             \/ WriteIndex(p) \/ TearAppend(p)
      PROVE  RecordInv'
  BY <1>5, ObserveKeepsRecord, SnapshotSourceKeepsRecord, ReadTailKeepsRecord,
     AppendsKeepRecord, PublishesKeepRecord, WriteIndexKeepsRecord
<1>6. ASSUME NEW p \in Procs,
             \/ CollectOrphan(p) \/ SweepGeneration(p) \/ MakeGeneration(p)
             \/ FillGeneration(p) \/ MoveLegacyAside(p) \/ SwapLink(p) \/ RollBack(p)
      PROVE  RecordInv'
  BY <1>6, CollectionKeepsRecord, MakingKeepsRecord, SwapKeepsRecord
<1> QED BY <1>1, <1>2, <1>3, <1>4, <1>5, <1>6 DEF Next, Step, Fault

\* Only an index write adds the index entry, and nothing takes it away.
LEMMA IndexSteps ==
  ASSUME [Next]_vars
  PROVE  indexed' = indexed \/ \E p \in Procs : WriteIndex(p)
<1>1. CASE \E p \in Procs :
             \/ Begin(p) \/ ConfirmReclaim(p) \/ TryLock(p) \/ WriteOwner(p) \/ RetryLock(p)
             \/ ReadOwner(p) \/ ProbeOwner(p)
             \/ RecreateLock(p) \/ Release(p) \/ Observe(p) \/ ReadTailForAnchors(p)
             \/ SnapshotSource(p) \/ CollectOrphan(p) \/ MakeGeneration(p)
             \/ FillGeneration(p) \/ MakeLinkTmp(p)
  BY <1>1
  DEF Begin, ConfirmReclaim, TryLock, WriteOwner, RetryLock, ReadOwner, ProbeOwner,
      RecreateLock, Release, Observe,
      ReadTailForAnchors, SnapshotSource, CollectOrphan, MakeGeneration, FillGeneration,
      MakeLinkTmp, storeVars
<1>2. CASE \E p \in Procs :
             \/ MoveLegacyAside(p) \/ SwapLink(p) \/ RollBack(p) \/ ReadTailForSeal(p)
             \/ PublishSnapshot(p) \/ AppendAnchors(p) \/ AppendSealed(p) \/ SweepGeneration(p)
             \/ Fail(p) \/ WriteOwnerFails(p) \/ Crash(p) \/ Exit(p) \/ TearAppend(p)
  BY <1>2
  DEF MoveLegacyAside, SwapLink, RollBack, ReadTailForSeal, PublishSnapshot, AppendAnchors,
      AppendSealed, SweepGeneration, Fail, WriteOwnerFails, Crash, Exit, Gone, TearAppend,
      storeVars
<1>3. CASE LoseLink \/ DamageGeneration \/ DamageSnapshot \/ LockAges \/ UNCHANGED vars
  BY <1>3 DEF LoseLink, DamageGeneration, DamageSnapshot, LockAges, vars, storeVars
<1> QED BY <1>1, <1>2, <1>3 DEF Next, Step, Fault

\* Where no vault starts from a legacy directory, the lineage follows the link.
THEOREM RecordInvariant ==
  ASSUME NothingIsLost, NoLegacyStore
  PROVE  KeepingSpec => []RecordInv
<1>1. Init => RecordInv
  BY InitRecordWithoutLegacy
<1>2. TypeInv /\ LockInv /\ ChainInv /\ ViewInv /\ RecordInv /\ [Next]_vars => RecordInv'
  BY NextKeepsRecord
<1>3. Spec => []TypeInv
  BY TypeInvariant
<1>4. KeepingSpec => []LockInv
  BY LockInvariant
<1>5. KeepingSpec => []ChainInv
  BY ChainInvariant
<1>6. KeepingSpec => []ViewInv
  BY ViewInvariant
<1> QED BY <1>1, <1>2, <1>3, <1>4, <1>5, <1>6, PTL DEF Spec, KeepingSpec

\* The action formula of IndexFollowsLineage.
IndexFollows == ~indexed /\ indexed' => Events # <<>> /\ TailDigest(Events) = ParentDigest

\* An index entry appears only when the lineage ends at the linked contract, for any
\* number of processes, contracts and failures and whatever store the vault starts
\* from: a legacy vault is indexed from the start.
THEOREM IndexAppearsRecorded ==
  ASSUME NothingIsLost
  PROVE  KeepingSpec => IndexFollowsLineage
<1> DEFINE Inv == RecordInv \/ indexed
<1>1. Init => Inv
  BY InitRecord
<1>2. TypeInv /\ LockInv /\ ChainInv /\ ViewInv /\ Inv /\ [Next]_vars => Inv'
  BY NextKeepsRecord, IndexSteps DEF WriteIndex
<1>3. Inv /\ [Next]_vars => IndexFollows
  <2> SUFFICES ASSUME RecordInv, [Next]_vars, ~indexed, indexed'
               PROVE  Events # <<>> /\ TailDigest(Events) = ParentDigest
    BY DEF IndexFollows
  <2>1. PICK p \in Procs : WriteIndex(p)
    BY IndexSteps
  <2> QED BY <2>1 DEF WriteIndex, RecordInv, Caught
<1> HIDE DEF Inv
<1>4. IndexFollowsLineage <=> [][IndexFollows]_vars
  BY DEF IndexFollowsLineage, IndexFollows
<1>5. Spec => []TypeInv
  BY TypeInvariant
<1>6. KeepingSpec => []LockInv
  BY LockInvariant
<1>7. KeepingSpec => []ChainInv
  BY ChainInvariant
<1>8. KeepingSpec => []ViewInv
  BY ViewInvariant
<1> QED BY <1>1, <1>2, <1>3, <1>4, <1>5, <1>6, <1>7, <1>8, PTL DEF Spec, KeepingSpec

\* No interrupted seal takes a vault's contract away, for any number of processes and
\* whatever crashes or fails and however often: what is indexed stays linked, even
\* while an operation is at work.
THEOREM ContractStaysLinked ==
  ASSUME NothingIsLost, NoLegacyStore
  PROVE  KeepingSpec => []InterruptedSealKeepsContract
<1>1. TypeInv /\ RecordInv => InterruptedSealKeepsContract
  BY LinkedCases DEF TypeInv, RecordInv, InterruptedSealKeepsContract
<1>2. Spec => []TypeInv
  BY TypeInvariant
<1>3. KeepingSpec => []RecordInv
  BY RecordInvariant
<1> QED BY <1>1, <1>2, <1>3, PTL DEF KeepingSpec

\* Whatever a seal is interrupted by, the lineage lags the link by no more than the
\* event of the last seal, and N-1 is there to show it: lineage-recover finishes the
\* record without a gap.
THEOREM InterruptedSealIsRecoverable ==
  ASSUME NothingIsLost, NoLegacyStore
  PROVE  KeepingSpec => []RecoverFinishesInterruptedSeal
<1>1. TypeInv /\ ChainInv /\ ViewInv /\ RecordInv => RecoverFinishesInterruptedSeal
  BY RecordedIsNoGap DEF ViewInv, RecordInv, RecoverFinishesInterruptedSeal
<1>2. Spec => []TypeInv
  BY TypeInvariant
<1>3. KeepingSpec => []ChainInv
  BY ChainInvariant
<1>4. KeepingSpec => []ViewInv
  BY ViewInvariant
<1>5. KeepingSpec => []RecordInv
  BY RecordInvariant
<1> QED BY <1>1, <1>2, <1>3, <1>4, <1>5, PTL DEF KeepingSpec

-----------------------------------------------------------------------------
(* What a step does to the directories *)

\* One directory is made, filled, emptied or removed, and it is none that a link or
\* the seal before it needs.
TouchesASpareDirectory ==
  /\ UNCHANGED <<link, legacy>> /\ link # NoLink /\ legacy = Absent
  /\ \E s \in Seqs : \E c :
       /\ gens' = [gens EXCEPT ![s] = c]
       /\ s > link \/ (s \in Generations \ Retained(link) /\ c \in {Absent, Partial})

LEMMA CollectionTouchesSpares ==
  ASSUME TypeInv, ViewInv, NEW p \in Procs, CollectOrphan(p) \/ SweepGeneration(p),
         link # NoLink
  PROVE  UNCHANGED files \/ TouchesASpareDirectory
<1>0. /\ UNCHANGED <<link, legacy>> /\ proc[p].pc \in {"collect", "sweep"}
      /\ LinkReads /\ SeesTheStore(p) /\ SeesItsSeal(p) /\ TypeOK /\ legacy = Absent
  BY DEF TypeInv, CollectOrphan, SweepGeneration, ViewInv, LinkReads
<1>1. CASE UNCHANGED gens
  BY <1>0, <1>1 DEF files
<1>2. CASE \E s \in Generations \ Retained(link) : Erode(s)
  <2>1. PICK s \in Generations \ Retained(link) : Erode(s)
    BY <1>2
  <2>2. s \in Seqs /\ \E c \in {Absent, Partial} : gens' = [gens EXCEPT ![s] = c]
    BY <2>1, ErodeEffect DEF Generations
  <2> QED BY <1>0, <2>2 DEF TouchesASpareDirectory
<1>3. proc[p].pc = "collect" => proc[p].linked = link
  BY <1>0, LinkedCases DEF SeesTheStore, Reading, MovedAside
<1>4. proc[p].pc = "sweep" => proc[p].seq = link
  BY <1>0 DEF SeesItsSeal, SwappedIn
<1>5. CASE CollectOrphan(p)
  BY <1>2, <1>3, <1>5 DEF CollectOrphan
<1>6. CASE SweepGeneration(p)
  BY <1>1, <1>2, <1>4, <1>6 DEF SweepGeneration
<1> QED BY <1>5, <1>6

LEMMA MakingTouchesSpares ==
  ASSUME TypeInv, ViewInv, NEW p \in Procs,
         MakeGeneration(p) \/ FillGeneration(p) \/ MoveLegacyAside(p) \/ RollBack(p),
         link # NoLink
  PROVE  TouchesASpareDirectory
<1>0. /\ TypeOK /\ LinkReads /\ SeesTheStore(p) /\ legacy = Absent /\ proc[p] \in ProcStates
  BY DEF TypeInv, TypeOK, ViewInv, LinkReads
<1>1. CASE MakeGeneration(p)
  <2> DEFINE s == NextSeq(proc[p].linked)
  <2>1. /\ proc[p].pc = "collect" /\ UNCHANGED <<link, legacy>>
        /\ gens' = [gens EXCEPT ![s] = Partial] /\ s \in Seqs
    BY <1>1 DEF MakeGeneration
  <2>2. proc[p].linked = link
    BY <1>0, <2>1, LinkedCases DEF SeesTheStore, Reading, MovedAside
  <2>3. s > link
    BY <1>0, <2>2, NextSeqIsAbove DEF ProcStates
  <2> HIDE DEF s
  <2> QED BY <1>0, <2>1, <2>3 DEF TouchesASpareDirectory
<1>2. CASE FillGeneration(p)
  <2>1. /\ UNCHANGED <<link, legacy>> /\ proc[p].pc \in Making
        /\ gens' = [gens EXCEPT ![proc[p].seq] = proc[p].new]
    BY <1>2 DEF FillGeneration, Making, BeforeSwap
  <2>2. proc[p].seq \in Seqs /\ proc[p].seq > link
    BY <2>1, MakingKnows
  <2> QED BY <1>0, <2>1, <2>2 DEF TouchesASpareDirectory
<1>3. CASE MoveLegacyAside(p)
  BY <1>0, <1>3 DEF MoveLegacyAside, SeesTheStore
<1>4. CASE RollBack(p)
  <2>1. proc[p].pc = "rollback" /\ proc[p].pc \in Making
    BY <1>4 DEF RollBack, Making
  <2>2. proc[p].linked # DirectoryLink
    BY <1>0, <2>1, MakingKnows, LinkedCases DEF MovedAside
  <2>3. UNCHANGED <<link, legacy>> /\ gens' = [gens EXCEPT ![proc[p].seq] = Absent]
    BY <1>4, <2>2 DEF RollBack
  <2>4. proc[p].seq \in Seqs /\ proc[p].seq > link
    BY <2>1, MakingKnows
  <2> QED BY <1>0, <2>3, <2>4 DEF TouchesASpareDirectory
<1> QED BY <1>1, <1>2, <1>3, <1>4

\* Once there is a link, a step swaps it, changes a spare directory, or changes none.
LEMMA DirectorySteps ==
  ASSUME NothingIsLost, TypeInv, ViewInv, [Next]_vars
  PROVE  \/ UNCHANGED files
         \/ TouchesASpareDirectory
         \/ \E p \in Procs : SwapLink(p)
         \/ link = NoLink /\ link' = NoLink
<1>1. CASE LoseLink \/ DamageGeneration \/ DamageSnapshot \/ LockAges \/ UNCHANGED vars
  BY <1>1
  DEF LoseLink, DamageGeneration, DamageSnapshot, LockAges, Spend, NothingIsLost, vars,
      storeVars, files
<1>2. CASE \E p \in Procs :
             \/ Begin(p) \/ ConfirmReclaim(p) \/ TryLock(p) \/ WriteOwner(p) \/ RetryLock(p)
             \/ ReadOwner(p) \/ ProbeOwner(p)
             \/ RecreateLock(p) \/ Release(p) \/ Observe(p) \/ ReadTailForAnchors(p)
             \/ SnapshotSource(p) \/ AppendAnchors(p)
  BY <1>2
  DEF Begin, ConfirmReclaim, TryLock, WriteOwner, RetryLock, ReadOwner, ProbeOwner,
      RecreateLock, Release, Observe,
      ReadTailForAnchors, SnapshotSource, AppendAnchors, storeVars, files
<1>3. CASE \E p \in Procs :
             \/ PublishSnapshot(p) \/ MakeLinkTmp(p) \/ ReadTailForSeal(p) \/ AppendSealed(p)
             \/ WriteIndex(p) \/ Fail(p) \/ WriteOwnerFails(p) \/ Crash(p) \/ Exit(p) \/ TearAppend(p)
  BY <1>3
  DEF PublishSnapshot, MakeLinkTmp, ReadTailForSeal, AppendSealed, WriteIndex, Fail,
      WriteOwnerFails, Crash, Exit, Gone, TearAppend, storeVars, files
<1>4. CASE \E p \in Procs :
             \/ CollectOrphan(p) \/ SweepGeneration(p) \/ MakeGeneration(p)
             \/ FillGeneration(p) \/ MoveLegacyAside(p) \/ RollBack(p)
  <2>1. link' = link
    BY <1>4
    DEF CollectOrphan, SweepGeneration, MakeGeneration, FillGeneration, MoveLegacyAside,
        RollBack
  <2> QED BY <1>4, <2>1, CollectionTouchesSpares, MakingTouchesSpares
<1> QED BY <1>1, <1>2, <1>3, <1>4 DEF Next, Step, Fault

-----------------------------------------------------------------------------
(* The store keeps the promise of ContractHistory *)

\* The contract in place changes with the link only.
LEMMA OnlySwapsReplace ==
  ASSUME NothingIsLost, TypeInv, ViewInv, RecordInv, RecordInv', [Next]_vars
  PROVE  ParentDigest' = ParentDigest \/ \E p \in Procs : SwapLink(p)
<1>1. CASE UNCHANGED files
  BY <1>1, ReadsStay
<1>2. CASE TouchesASpareDirectory
  <2>1. UNCHANGED <<link, legacy>> /\ link # NoLink /\ TypeOK /\ LinkReads /\ link \in Int
    BY <1>2, SeqsAreInts DEF TouchesASpareDirectory, TypeInv, ViewInv, TypeOK
  <2>2. PICK s \in Seqs : \E c :
          /\ gens' = [gens EXCEPT ![s] = c]
          /\ s > link \/ (s \in Generations \ Retained(link) /\ c \in {Absent, Partial})
    BY <1>2 DEF TouchesASpareDirectory
  <2>3. s # link
    BY <2>1, <2>2, LinkIsRetained
  <2> QED BY <2>1, <2>2, <2>3, OtherDirectory
<1>3. CASE link = NoLink /\ link' = NoLink
  BY <1>3 DEF ParentDigest, LinkedContents, RecordInv
<1> QED BY <1>1, <1>2, <1>3, DirectorySteps

\* The digests of a lineage.
DigestsOf(events) == [i \in DOMAIN events |-> events[i].digest]

\* The digests of a lineage that an append extends.
LEMMA DigestsOfExtended ==
  ASSUME NEW events \in Seq(LineageEvents), NEW drafts \in Seq(LineageEvents),
         NEW n \in 0..Len(drafts)
  PROVE  LET extended == events \o SubSeq(drafts, 1, n)
         IN  /\ n = 0 => DigestsOf(extended) = DigestsOf(events)
             /\ n = 1 => DigestsOf(extended) = Append(DigestsOf(events), drafts[1].digest)
             /\ n = 2 /\ events = <<>> =>
                  DigestsOf(extended) = <<drafts[1].digest, drafts[2].digest>>
<1> DEFINE extended == events \o SubSeq(drafts, 1, n)
           k == Len(events)
<1>1. /\ extended \in Seq(LineageEvents) /\ Len(extended) = k + n /\ k \in Nat
      /\ \A i \in 1..k : extended[i] = events[i]
      /\ \A i \in 1..n : extended[k + i] = drafts[i]
      /\ DOMAIN events = 1..k /\ Len(drafts) \in Nat
  BY ExtendedEvents, LenProperties
<1>2. DOMAIN extended = 1..(k + n)
  BY <1>1, LenProperties
<1> HIDE DEF extended
<1>3. /\ DigestsOf(events) = [i \in 1..k |-> events[i].digest]
      /\ DigestsOf(extended) = [i \in 1..(k + n) |-> extended[i].digest]
  BY <1>1, <1>2 DEF DigestsOf
<1> HIDE DEF k
<1>4. ASSUME n = 0 PROVE DigestsOf(extended) = DigestsOf(events)
  BY <1>1, <1>3, <1>4
<1>5. ASSUME n = 1
      PROVE  DigestsOf(extended) = Append(DigestsOf(events), drafts[1].digest)
  <2>1. extended[k + 1] = drafts[1] /\ DOMAIN DigestsOf(events) = 1..k
    BY <1>1, <1>3, <1>5
  <2>2. \A i \in 1..(k + 1) : i \in 1..k \/ i = k + 1
    BY <1>1
  <2>3. DigestsOf(events) \in Seq({e.digest : e \in LineageEvents})
    BY <1>1, <1>3, IsASeq
  <2>4. Append(DigestsOf(events), drafts[1].digest) =
          [i \in 1..(k + 1) |-> IF i \in 1..k THEN DigestsOf(events)[i] ELSE drafts[1].digest]
    BY <1>1, <1>3, <2>1, <2>3
  <2> QED BY <1>1, <1>3, <1>5, <2>1, <2>2, <2>4
<1>6. ASSUME n = 2, events = <<>>
      PROVE  DigestsOf(extended) = <<drafts[1].digest, drafts[2].digest>>
  <2>1. k = 0
    BY <1>6 DEF k
  <2>2. extended[1] = drafts[1] /\ extended[2] = drafts[2]
    BY <1>1, <1>6, <2>1
  <2> QED BY <1>3, <1>6, <2>1, <2>2
<1> QED BY <1>4, <1>5, <1>6 DEF extended

\* An append records the contract in place, in whole or in part, or nothing.
LEMMA AppendsRecord ==
  ASSUME TypeInv, LockInv, ChainInv, ViewInv, RecordInv, NEW p \in Procs,
         AppendAnchors(p) \/ AppendSealed(p) \/ TearAppend(p)
  PROVE  /\ ParentDigest' = ParentDigest
         /\ \/ DigestsOf(Events') = DigestsOf(Events)
            \/ /\ ParentDigest # NoDigest
               /\ DigestsOf(Events') = Append(DigestsOf(Events), ParentDigest)
            \/ /\ Events = <<>> /\ ParentDigest # NoDigest
               /\ \E d \in Digests :
                    DigestsOf(Events') \in {<<d>>, <<d, ParentDigest>>}
<1> DEFINE drafts == InFlight(proc[p])
<1>0. /\ proc[p].pc \in {"anchor", "append"} /\ UNCHANGED files /\ Drafted(p)
      /\ Events \in Seq(LineageEvents) /\ TypeOK /\ drafts \in Seq(LineageEvents)
  BY InFlightAppended
  DEF TypeInv, TypeOK, AppendAnchors, AppendSealed, TearAppend, files, RecordInv, Events
<1>1. /\ Len(drafts) \in Nat /\ Len(drafts) >= 1
      /\ \A i \in 1..Len(drafts) : drafts[i].digest \in Standing
      /\ drafts[Len(drafts)].digest = ParentDigest
  BY <1>0, InFlightStands
<1>2. Len(drafts) <= 1 \/ (Len(drafts) <= 2 /\ Events = <<>>)
  <2>1. CASE proc[p].pc = "append"
    <3>1. drafts = <<SealedEvent(proc[p].parent, proc[p].new)>>
      BY <2>1 DEF InFlight
    <3> DEFINE e == SealedEvent(proc[p].parent, proc[p].new)
    <3> HIDE DEF e
    <3> QED BY <3>1 DEF e
  <2>2. CASE proc[p].pc = "anchor"
    <3>1. drafts = proc[p].drafts /\ proc[p].todo = <<>>
      BY <1>0, <2>2 DEF InFlight, Drafted
    <3>2. Len(proc[p].todo) = 0
      BY <3>1
    <3>3. proc[p].start => Events = <<>> /\ Len(proc[p].todo) + Len(proc[p].drafts) <= 2
      BY <1>0, <2>2 DEF Drafted
    <3>4. ~proc[p].start => Len(proc[p].drafts) <= 1
      BY <1>0, <2>2 DEF Drafted
    <3> QED BY <1>1, <3>1, <3>2, <3>3, <3>4
  <2> QED BY <1>0, <2>1, <2>2
<1>3. ParentDigest' = ParentDigest
  BY <1>0, ReadsStay
<1>4. PICK n \in 0..Len(drafts) : Events' = Events \o SubSeq(drafts, 1, n)
  BY InFlightAppended
<1>5. \A i \in 1..Len(drafts) : drafts[i].digest \in Digests
  <2>1. ParentDigest \in ContractDigests /\ PreviousDigest \in ContractDigests
    BY <1>0, ReadsType
  <2> HIDE DEF drafts
  <2> QED BY <1>1, <2>1 DEF Standing, ContractDigests
<1> HIDE DEF drafts
<1>6. ParentDigest \in Digests /\ ParentDigest # NoDigest
  BY <1>1, <1>5, NoDigestAssumption
<1>7. /\ n = 0 => DigestsOf(Events') = DigestsOf(Events)
      /\ n = 1 => DigestsOf(Events') = Append(DigestsOf(Events), drafts[1].digest)
      /\ n = 2 /\ Events = <<>> =>
           DigestsOf(Events') = <<drafts[1].digest, drafts[2].digest>>
  BY <1>0, <1>4, DigestsOfExtended
<1>8. CASE n = 0
  BY <1>3, <1>7, <1>8
<1>9. CASE n = Len(drafts) /\ Len(drafts) = 1
  BY <1>1, <1>3, <1>6, <1>7, <1>9
<1>10. CASE Len(drafts) = 2 /\ n \in {1, 2}
  <2>1. Events = <<>> /\ drafts[1].digest \in Digests /\ drafts[2].digest = ParentDigest
    BY <1>1, <1>2, <1>5, <1>10
  <2>2. DigestsOf(Events) = <<>>
    BY <2>1 DEF DigestsOf
  <2> DEFINE d == drafts[1].digest
  <2>3. Append(<<>>, d) = <<d>>
    OBVIOUS
  <2>4. DigestsOf(Events') \in {<<d>>, <<d, ParentDigest>>}
    BY <1>7, <1>10, <2>1, <2>2, <2>3
  <2> HIDE DEF d
  <2>5. d \in Digests
    BY <2>1 DEF d
  <2> QED BY <1>3, <1>6, <2>1, <2>4, <2>5
<1>11. n = 0 \/ (n = Len(drafts) /\ Len(drafts) = 1) \/ (Len(drafts) = 2 /\ n \in {1, 2})
  <2> DEFINE k == Len(drafts)
  <2>1. k \in Nat /\ k >= 1 /\ k <= 2 /\ n \in 0..k
    BY <1>1, <1>2, <1>4
  <2> HIDE DEF k
  <2>2. k = 1 \/ k = 2
    BY <2>1
  <2>3. n = 0 \/ n = 1 \/ n = 2
    BY <2>1, <2>2
  <2>4. n = 2 => k = 2
    BY <2>1, <2>2
  <2> QED BY <2>2, <2>3, <2>4 DEF k
<1> QED BY <1>8, <1>9, <1>10, <1>11

\* The digest the recorded history ends at is the lineage's.
LEMMA LatestIsTail ==
  ASSUME TypeInv
  PROVE  /\ DigestsOf(Events) = [i \in DOMAIN Events |-> Events[i].digest]
         /\ History!Latest = TailDigest(Events)
         /\ Events = <<>> <=> DigestsOf(Events) = <<>>
<1>1. /\ Events \in Seq(LineageEvents) /\ Len(Events) \in Nat
      /\ DOMAIN Events = 1..Len(Events)
  BY LenProperties DEF TypeInv, TypeOK, Events
<1> DEFINE k == Len(Events)
           R == DigestsOf(Events)
<1>2. R = [i \in 1..k |-> Events[i].digest]
  BY <1>1 DEF DigestsOf
<1>3. R \in Seq({e.digest : e \in LineageEvents}) /\ Len(R) = k
  <2> HIDE DEF k
  <2>1. \A i \in 1..k : Events[i].digest \in {e.digest : e \in LineageEvents}
    BY <1>1 DEF k
  <2>2. k \in Nat
    BY <1>1 DEF k
  <2> QED BY <1>2, <2>1, <2>2, IsASeq, LenProperties
<1>4. Events = <<>> <=> R = <<>>
  BY <1>1, <1>3, EmptySeq
<1>5. Events # <<>> => R[Len(R)] = Events[Len(Events)].digest
  <2> SUFFICES ASSUME Events # <<>> PROVE R[Len(R)] = Events[Len(Events)].digest
    OBVIOUS
  <2>1. k \in 1..k
    BY <1>1, EmptySeq
  <2> HIDE DEF R
  <2> QED BY <1>2, <1>3, <2>1
<1>6. History!Latest = IF R = <<>> THEN NoDigest ELSE R[Len(R)]
  BY DEF History!Latest, DigestsOf
<1> HIDE DEF R, k
<1>7. History!Latest = TailDigest(Events)
  BY <1>4, <1>5, <1>6 DEF TailDigest
<1> QED BY <1>4, <1>7 DEF R, DigestsOf

\* Every step of the store is a step of the history or leaves it as it is.
LEMMA NextKeepsHistory ==
  ASSUME NothingIsLost
  PROVE  TypeInv /\ TypeInv' /\ LockInv /\ ChainInv /\ ViewInv /\ RecordInv /\ RecordInv'
           /\ [Next]_vars
           => [History!Next]_<<ParentDigest, DigestsOf(Events)>>
<1> SUFFICES ASSUME TypeInv, TypeInv', LockInv, ChainInv, ViewInv, RecordInv, RecordInv',
                    [Next]_vars
             PROVE  [History!Next]_<<ParentDigest, DigestsOf(Events)>>
  OBVIOUS
<1>0. /\ DigestsOf(Events) = [i \in DOMAIN Events |-> Events[i].digest]
      /\ History!Latest = TailDigest(Events)
      /\ Events = <<>> <=> DigestsOf(Events) = <<>>
  BY LatestIsTail
<1>1. CASE \E p \in Procs : AppendAnchors(p) \/ AppendSealed(p) \/ TearAppend(p)
  <2>1. /\ ParentDigest' = ParentDigest
        /\ \/ DigestsOf(Events') = DigestsOf(Events)
           \/ /\ ParentDigest # NoDigest
              /\ DigestsOf(Events') = Append(DigestsOf(Events), ParentDigest)
           \/ /\ Events = <<>> /\ ParentDigest # NoDigest
              /\ \E d \in Digests : DigestsOf(Events') \in {<<d>>, <<d, ParentDigest>>}
    BY <1>1, AppendsRecord
  <2>2. DigestsOf(Events)' = DigestsOf(Events')
    BY DEF DigestsOf
  <2>3. CASE DigestsOf(Events') = DigestsOf(Events)
    BY <2>1, <2>2, <2>3
  <2>4. CASE /\ ParentDigest # NoDigest
             /\ DigestsOf(Events') = Append(DigestsOf(Events), ParentDigest)
    <3>1. History!Record
      BY <2>1, <2>4 DEF History!Record, DigestsOf
    <3> QED BY <3>1 DEF History!Next
  <2>5. CASE /\ Events = <<>> /\ ParentDigest # NoDigest
             /\ \E d \in Digests : DigestsOf(Events') \in {<<d>>, <<d, ParentDigest>>}
    <3>1. History!RecordEarlier
      BY <1>0, <2>1, <2>5 DEF History!RecordEarlier, DigestsOf
    <3> QED BY <3>1 DEF History!Next
  <2> QED BY <2>1, <2>3, <2>4, <2>5
<1>2. CASE lineage' = lineage
  <2>1. DigestsOf(Events)' = DigestsOf(Events)
    BY <1>2 DEF DigestsOf, Events
  <2>2. CASE ParentDigest' = ParentDigest
    BY <2>1, <2>2
  <2>3. CASE \E p \in Procs : SwapLink(p)
    <3>1. PICK p \in Procs : SwapLink(p)
      BY <2>3
    <3>2. ParentDigest' \in Digests /\ proc[p].parent = ParentDigest
      BY <3>1, SwapMakesPrevious
    <3>3. TailDigest(Events) = proc[p].parent
      BY <3>1 DEF SwapLink, RecordInv, Caught, BeforeSwap
    <3>4. History!Replace
      BY <1>0, <2>1, <3>2, <3>3 DEF History!Replace, DigestsOf
    <3> QED BY <3>4 DEF History!Next
  <2> QED BY <2>2, <2>3, OnlySwapsReplace
<1> QED BY <1>1, <1>2, OnlyAppendsWrite

\* The store keeps the promise of ContractHistory for any number of processes,
\* contracts, operations and failures: the contract in place is replaced only once the
\* history ends at it, and the history grows only by the contract in place, so that the
\* lineage is the sequence of contracts the vault has had.
THEOREM StoreKeepsHistory ==
  ASSUME NothingIsLost, NoLegacyStore
  PROVE  KeepingSpec => KeepsHistory
<1>1. Init => History!Init
  <2> SUFFICES ASSUME Init PROVE History!Init
    OBVIOUS
  <2>1. TypeInv /\ Events = <<>>
    BY InitTyped DEF Init, Events
  <2>2. ParentDigest \in ContractDigests
    BY <2>1, ReadsType DEF TypeInv
  <2> QED BY <2>1, <2>2 DEF History!Init, ContractDigests
<1>2. TypeInv /\ TypeInv' /\ LockInv /\ ChainInv /\ ViewInv /\ RecordInv /\ RecordInv'
        /\ [Next]_vars => [History!Next]_<<ParentDigest, DigestsOf(Events)>>
  BY NextKeepsHistory
<1>3. KeepsHistory <=>
        History!Init /\ [][History!Next]_<<ParentDigest, DigestsOf(Events)>>
  BY DEF KeepsHistory, History!Spec, DigestsOf
<1>4. Spec => []TypeInv
  BY TypeInvariant
<1>5. KeepingSpec => []LockInv
  BY LockInvariant
<1>6. KeepingSpec => []ViewInv
  BY ViewInvariant
<1>7. KeepingSpec => []RecordInv
  BY RecordInvariant
<1>8. KeepingSpec => []ChainInv
  BY ChainInvariant
<1> QED BY <1>1, <1>2, <1>3, <1>4, <1>5, <1>6, <1>7, <1>8, PTL DEF Spec, KeepingSpec

-----------------------------------------------------------------------------
(* Readers *)

\* A step of the store beside readers, or of a reader, is a step of the store or none.
LEMMA ReadersAreStoreSteps ==
  /\ ReaderInit => Init
  /\ [ReaderNext]_readerVars => [Next]_vars
<1>1. ReaderInit => Init
  BY DEF ReaderInit
<1>2. ASSUME [ReaderNext]_readerVars PROVE [Next]_vars
  <2>1. CASE StoreStep
    BY <2>1 DEF StoreStep
  <2>2. CASE \E r \in Readers : ReaderStep(r)
    BY <2>2 DEF ReaderStep, StartRead, ResolveGeneration, LookAtGeneration, ReadGeneration
  <2>3. CASE UNCHANGED readerVars
    BY <2>3 DEF readerVars
  <2> QED BY <1>2, <2>1, <2>2, <2>3 DEF ReaderNext
<1> QED BY <1>1, <1>2

\* Readers beside a store whose live locks are kept.
KeepingReaderSpec == ReaderSpec /\ [][LiveLocksAreKept]_vars

LEMMA ReadersKeepSpec == KeepingReaderSpec => KeepingSpec
  BY ReadersAreStoreSteps, PTL DEF KeepingReaderSpec, ReaderSpec, KeepingSpec, Spec

ReaderLabels == {"idle", "resolve", "look", "read", "done"}

ReaderStates ==
  [pc : ReaderLabels, attempt : 0..2, at : Seqs, result : Results,
   digest : ContractDigests, swaps : 0..2, linkedSince : SUBSET Digests]

\* What a read has resolved: after no swap the linked generation, after one the
\* generation just below it, and later one that can only have been collected.
Resolved(w) ==
  /\ link # NoLink /\ w.at <= link
  /\ gens[w.at] \in w.linkedSince \cup {Absent, Partial}
  /\ w.swaps = 0 => w.at = link
  /\ w.swaps = 1 => w.at < link /\ \A s \in Generations : s <= w.at \/ s >= link
  /\ w.swaps < 2 => gens[w.at] \in Digests

Reads(w) ==
  /\ w.pc \in {"look", "read"} => Resolved(w)
  /\ w.pc # "done" => w.result = "none"
  /\ w.result \in {"link-dangling", "manifest-mismatch"} => w.swaps >= 2
  /\ w.result = "ok" => w.digest \in w.linkedSince

ReadInv ==
  /\ reader \in [Readers -> ReaderStates]
  /\ \A r \in Readers : Reads(reader[r])

\* A step of the store leaves a read with what it has resolved.
LEMMA WatchedEffect ==
  ASSUME NEW w \in ReaderStates, TypeInv', link' # NoLink => gens'[link'] \in Digests
  PROVE  /\ Watched(w) \in ReaderStates
         /\ Watched(w).pc = w.pc /\ Watched(w).at = w.at /\ Watched(w).result = w.result
         /\ Watched(w).digest = w.digest /\ Watched(w).attempt = w.attempt
         /\ w.linkedSince \subseteq Watched(w).linkedSince
         /\ link' = link => Watched(w) = w
         /\ w.pc \notin {"look", "read"} => Watched(w) = w
         /\ w.pc \in {"look", "read"} /\ link' # link /\ link' # NoLink =>
              Watched(w).swaps = IF w.swaps < 2 THEN w.swaps + 1 ELSE w.swaps
<1>1. CASE w.pc \in {"look", "read"} /\ link' # link /\ link' # NoLink
  <2> DEFINE n == IF w.swaps < 2 THEN w.swaps + 1 ELSE w.swaps
             since == w.linkedSince \cup ({gens'[link']} \cap Digests)
  <2>1. Watched(w) = [w EXCEPT !.swaps = n, !.linkedSince = since]
    BY <1>1 DEF Watched
  <2>2. w.swaps \in 0..2 /\ w.linkedSince \subseteq Digests
    BY DEF ReaderStates
  <2>3. n \in 0..2 /\ since \in SUBSET Digests /\ w.linkedSince \subseteq since
    BY <2>2
  <2> HIDE DEF n, since
  <2>4. /\ Watched(w) \in ReaderStates /\ Watched(w).swaps = n
        /\ Watched(w).linkedSince = since /\ Watched(w).pc = w.pc /\ Watched(w).at = w.at
        /\ Watched(w).result = w.result /\ Watched(w).digest = w.digest
        /\ Watched(w).attempt = w.attempt
    BY <2>1, <2>3 DEF ReaderStates
  <2> QED BY <1>1, <2>3, <2>4 DEF n
<1>2. CASE ~(w.pc \in {"look", "read"} /\ link' # link /\ link' # NoLink)
  <2>1. Watched(w) = w
    BY <1>2 DEF Watched
  <2> QED BY <1>2, <2>1
<1> QED BY <1>1, <1>2

\* A read stands when what it has resolved is replaced.
LEMMA SwapLeavesTheResolved ==
  ASSUME TypeInv, TypeInv', LockInv, ViewInv, ViewInv', RecordInv,
         NEW p \in Procs, SwapLink(p),
         NEW w \in ReaderStates, w.pc \in {"look", "read"}, Resolved(w),
         NEW v, v = Watched(w)
  PROVE  Resolved(v)'
<1>0. /\ link' = proc[p].seq /\ link' # NoLink /\ gens' = gens /\ link' > link
      /\ link \in Int /\ link' \in Int /\ link # NoLink /\ w.at \in Int /\ w.swaps \in 0..2
      /\ Generations' = Generations /\ w.at <= link
  BY SwapMakesPrevious, SeqsAreInts DEF TypeInv, TypeOK, Resolved, ReaderStates, Generations
<1>1. proc[p].pc \in Making
  BY DEF SwapLink, Making, BeforeSwap
<1>2. \A s \in Generations : s <= link \/ s = link'
  BY <1>0, <1>1, MakingKnows
<1>3. /\ v.at = w.at /\ w.linkedSince \subseteq v.linkedSince
      /\ v.swaps = IF w.swaps < 2 THEN w.swaps + 1 ELSE w.swaps
  <2>1. gens'[link'] \in Digests
    BY <1>0 DEF ViewInv, LinkReads
  <2>2. link' # link
    BY <1>0
  <2> QED BY <1>0, <2>1, <2>2, WatchedEffect
<1>4. w.at < link' /\ w.at <= link'
  BY <1>0
<1>5. v.swaps # 0 /\ (v.swaps = 1 => w.swaps = 0 /\ w.at = link) /\ (v.swaps < 2 => w.swaps < 2)
  BY <1>0, <1>3 DEF Resolved
<1>6. v.swaps = 1 => \A s \in Generations : s <= w.at \/ s >= link'
  BY <1>0, <1>2, <1>5
<1> QED BY <1>0, <1>3, <1>4, <1>5, <1>6 DEF Resolved

\* Neither the linked generation nor, once a seal has replaced it, the one that was
\* resolved is a spare directory.
LEMMA SparesLeaveTheResolved ==
  ASSUME TypeInv, TypeInv', ViewInv, TouchesASpareDirectory,
         NEW w \in ReaderStates, w.pc \in {"look", "read"}, Resolved(w)
  PROVE  Resolved(w)'
<1>0. /\ link' = link /\ link # NoLink /\ w.at \in Seqs /\ w.at \in Int /\ link \in Int
      /\ w.at <= link /\ TypeOK
  BY SeqsAreInts DEF TouchesASpareDirectory, TypeInv, TypeOK, ReaderStates, Resolved
<1>1. PICK s \in Seqs : \E c :
        /\ gens' = [gens EXCEPT ![s] = c]
        /\ s > link \/ (s \in Generations \ Retained(link) /\ c \in {Absent, Partial})
  BY DEF TouchesASpareDirectory
<1>2. PICK c :
        /\ gens' = [gens EXCEPT ![s] = c]
        /\ s > link \/ (s \in Generations \ Retained(link) /\ c \in {Absent, Partial})
  BY <1>1
<1>3. s \in Int /\ gens'[s] = c /\ \A t \in Seqs \ {s} : gens'[t] = gens[t]
  BY <1>0, <1>1, <1>2, SeqsAreInts DEF TypeOK
<1>4. w.swaps < 2 => s # w.at
  <2>1. CASE s > link
    BY <1>0, <1>3, <2>1
  <2>2. CASE s \in Generations \ Retained(link) /\ w.swaps = 0
    BY <1>0, <2>2, LinkIsRetained DEF Resolved
  <2>3. CASE s \in Generations \ Retained(link) /\ w.swaps = 1
    <3>1. /\ w.at < link /\ \A t \in Generations : t <= w.at \/ t >= link
          /\ gens[w.at] \in Digests
      BY <2>3 DEF Resolved
    <3>2. w.at \in Below(link)
      BY <1>0, <3>1, StoreAssumption DEF Below, Generations, Absent
    <3>3. \A t \in Below(link) : t <= w.at
      <4>1. ASSUME NEW t \in Below(link) PROVE t <= w.at
        <5>1. t \in Generations /\ t < link /\ t \in Int
          BY SeqsAreInts DEF Below, Generations
        <5> QED BY <1>0, <3>1, <5>1
      <4> QED BY <4>1
    <3>4. Below(link) \in SUBSET (0..MaxSeq)
      BY <1>0, BelowAreSeqs
    <3>5. Highest(Below(link)) = w.at
      BY <3>2, <3>3, <3>4, HighestIs
    <3>6. link \notin {NoLink, DirectoryLink}
      BY <1>0, SeqsAreInts DEF TypeOK, DirectoryLink
    <3>7. w.at \in Retained(link)
      BY <3>2, <3>5, <3>6 DEF Retained
    <3> QED BY <2>3, <3>7
  <2>4. w.swaps \in 0..2
    BY DEF ReaderStates
  <2> QED BY <1>2, <2>1, <2>2, <2>3, <2>4
<1>5. gens'[w.at] = gens[w.at] \/ gens'[w.at] \in {Absent, Partial}
  <2>1. CASE s > link
    BY <1>0, <1>3, <2>1
  <2>2. CASE c \in {Absent, Partial}
    BY <1>0, <1>3, <2>2
  <2> QED BY <1>2, <2>1, <2>2
<1>6. gens'[w.at] \in w.linkedSince \cup {Absent, Partial}
  BY <1>5 DEF Resolved
<1>7. w.swaps < 2 => gens'[w.at] \in Digests
  BY <1>0, <1>3, <1>4 DEF Resolved
<1>8. w.swaps = 1 => \A t \in Generations' : t <= w.at \/ t >= link
  <2> SUFFICES ASSUME w.swaps = 1, NEW t \in Generations' PROVE t <= w.at \/ t >= link
    OBVIOUS
  <2>1. t \in Seqs /\ t \in Int /\ gens'[t] # Absent
    BY SeqsAreInts DEF Generations
  <2>2. t \in Generations \/ t > link
    <3>1. CASE t = s
      BY <1>2, <3>1
    <3>2. CASE t # s
      BY <1>3, <2>1, <3>2 DEF Generations
    <3> QED BY <3>1, <3>2
  <2> QED BY <1>0, <2>1, <2>2 DEF Resolved
<1> QED BY <1>0, <1>6, <1>7, <1>8 DEF Resolved

LEMMA StoreStepKeepsReads ==
  ASSUME NothingIsLost, TypeInv, TypeInv', LockInv, ViewInv, ViewInv', RecordInv, ReadInv,
         StoreStep
  PROVE  ReadInv'
<1>0. [Next]_vars /\ reader' = [r \in Readers |-> Watched(reader[r])]
  BY DEF StoreStep
<1>1. link' # NoLink => gens'[link'] \in Digests
  BY DEF ViewInv, LinkReads
<1>2. ASSUME NEW r \in Readers PROVE reader'[r] \in ReaderStates /\ Reads(reader[r])'
  <2>0. reader[r] \in ReaderStates /\ Reads(reader[r]) /\ reader'[r] = Watched(reader[r])
    BY <1>0 DEF ReadInv
  <2>1. PICK w \in ReaderStates : w = reader[r]
    BY <2>0
  <2>2. PICK v : v = reader'[r]
    OBVIOUS
  <2>3. v = Watched(w) /\ Reads(w)
    BY <2>0, <2>1, <2>2
  <2>4. /\ v \in ReaderStates
        /\ v.pc = w.pc /\ v.at = w.at /\ v.result = w.result /\ v.digest = w.digest
        /\ w.linkedSince \subseteq v.linkedSince
        /\ link' = link => v = w
        /\ w.pc \notin {"look", "read"} => v = w
    BY <1>1, <2>3, WatchedEffect
  <2>5. w.pc \in {"look", "read"} => Resolved(v)'
    <3> SUFFICES ASSUME w.pc \in {"look", "read"} PROVE Resolved(v)'
      OBVIOUS
    <3>1. Resolved(w) /\ link # NoLink
      BY <2>3 DEF Reads, Resolved
    <3>2. CASE UNCHANGED files
      <4>1. v = w /\ Generations' = Generations
        BY <2>4, <3>2, ReadsStay DEF files
      <4> QED BY <3>1, <3>2, <4>1 DEF Resolved, files
    <3>3. CASE TouchesASpareDirectory
      <4>1. v = w
        BY <2>4, <3>3 DEF TouchesASpareDirectory
      <4> QED BY <3>1, <3>3, <4>1, SparesLeaveTheResolved
    <3>4. CASE \E p \in Procs : SwapLink(p)
      BY <2>3, <3>1, <3>4, SwapLeavesTheResolved
    <3> QED BY <1>0, <3>1, <3>2, <3>3, <3>4, DirectorySteps
  <2>6. /\ v.pc \in {"look", "read"} => Resolved(v)'
        /\ v.pc # "done" => v.result = "none"
        /\ v.result \in {"link-dangling", "manifest-mismatch"} => v.swaps >= 2
        /\ v.result = "ok" => v.digest \in v.linkedSince
    <3>1. CASE w.pc \in {"look", "read"}
      BY <2>3, <2>4, <2>5, <3>1 DEF Reads
    <3>2. CASE w.pc \notin {"look", "read"}
      BY <2>3, <2>4, <3>2 DEF Reads
    <3> QED BY <3>1, <3>2
  <2> QED BY <2>2, <2>4, <2>6 DEF Reads, Resolved
<1> QED BY <1>0, <1>2 DEF ReadInv

LEMMA ReaderStepKeepsReads ==
  ASSUME TypeInv, ViewInv, RecordInv, ReadInv, NEW r \in Readers, ReaderStep(r)
  PROVE  ReadInv'
<1> DEFINE w == reader[r]
<1>0. /\ UNCHANGED vars /\ w \in ReaderStates /\ Reads(w)
      /\ reader \in [Readers -> ReaderStates] /\ TypeOK /\ LinkReads /\ legacy = Absent
  BY DEF ReaderStep, StartRead, ResolveGeneration, LookAtGeneration, ReadGeneration, ReadInv,
         TypeInv, ViewInv, RecordInv
<1>1. UNCHANGED <<link, gens, Generations>>
  BY <1>0 DEF vars, storeVars, Generations
<1>2. ASSUME NEW v \in ReaderStates, reader' = [reader EXCEPT ![r] = v], Reads(v)
      PROVE  ReadInv'
  <2>1. reader' \in [Readers -> ReaderStates] /\ reader'[r] = v
        /\ \A q \in Readers \ {r} : reader'[q] = reader[q]
    BY <1>0, <1>2
  <2>2. ASSUME NEW q \in Readers, NEW u, u = reader'[q] PROVE Reads(u)
    BY <1>2, <2>1, <2>2 DEF ReadInv
  <2>3. \A q \in Readers : Reads(reader[q])'
    BY <1>1, <2>2 DEF Reads, Resolved
  <2> QED BY <2>1, <2>3 DEF ReadInv
<1>3. ASSUME NEW result \in Results, NEW digest \in ContractDigests,
             Report(r, result, digest),
             result \in {"link-dangling", "manifest-mismatch"} => w.swaps >= 2,
             result = "ok" => digest \in w.linkedSince
      PROVE  ReadInv'
  <2> DEFINE v == [w EXCEPT !.pc = "done", !.result = result, !.digest = digest]
  <2>1. reader' = [reader EXCEPT ![r] = v]
    BY <1>0, <1>3 DEF Report
  <2>2. /\ v \in ReaderStates /\ v.pc = "done" /\ v.result = result /\ v.digest = digest
        /\ v.swaps = w.swaps /\ v.linkedSince = w.linkedSince
    BY <1>0 DEF ReaderStates, ReaderLabels
  <2> HIDE DEF v
  <2>3. Reads(v)
    BY <1>3, <2>2 DEF Reads
  <2> QED BY <1>2, <2>1, <2>2, <2>3
<1>4. CASE StartRead(r)
  <2> DEFINE v == [NotReading EXCEPT !.pc = "resolve", !.attempt = 1]
  <2>1. reader' = [reader EXCEPT ![r] = v]
    BY <1>4 DEF StartRead
  <2>2. v \in ReaderStates /\ v.pc = "resolve" /\ v.result = "none"
    <3>1. 0 \in Seqs
      BY GenerationsAreSeqs DEF Seqs
    <3>2. NotReading \in ReaderStates /\ NotReading.result = "none"
      BY <3>1 DEF NotReading, NoLink, ReaderStates, ReaderLabels, Results, ContractDigests
    <3> DEFINE m == [NotReading EXCEPT !.pc = "resolve"]
    <3> HIDE DEF NotReading
    <3>3. m \in ReaderStates /\ m.pc = "resolve" /\ m.result = "none"
      BY <3>2 DEF ReaderStates, ReaderLabels
    <3>4. v = [m EXCEPT !.attempt = 1]
      OBVIOUS
    <3> HIDE DEF m, v
    <3> QED BY <3>3, <3>4 DEF ReaderStates
  <2> HIDE DEF v
  <2>3. Reads(v)
    BY <2>2 DEF Reads
  <2> QED BY <1>2, <2>1, <2>2, <2>3
<1>5. CASE ResolveGeneration(r)
  <2>1. Linked # DirectoryLink
    BY <1>0, LinkedCases
  <2>2. CASE Report(r, "absent", NoDigest)
    BY <1>3, <2>2 DEF Results, ContractDigests
  <2>3. CASE /\ Linked \notin {NoLink, DirectoryLink}
             /\ reader' = [reader EXCEPT ![r].pc = "look", ![r].at = link, ![r].swaps = 0,
                                         ![r].linkedSince = {gens[link]} \cap Digests]
    <3> DEFINE since == {gens[link]} \cap Digests
               v == [w EXCEPT !.pc = "look", !.at = link, !.swaps = 0, !.linkedSince = since]
    <3>1. reader' = [reader EXCEPT ![r] = v]
      BY <1>0, <2>3
    <3>2. link # NoLink /\ link \in Seqs /\ gens[link] \in Digests /\ since = {gens[link]}
      BY <1>0, <2>3, LinkedCases DEF LinkReads, TypeOK
    <3>3. since \in SUBSET Digests
      OBVIOUS
    <3> DEFINE u == [w EXCEPT !.pc = "look", !.at = link]
    <3> HIDE DEF since, w
    <3>4. /\ v \in ReaderStates /\ v.pc = "look" /\ v.at = link /\ v.swaps = 0
          /\ v.linkedSince = since /\ v.result = w.result
      <4>1. v = [u EXCEPT !.swaps = 0, !.linkedSince = since]
        OBVIOUS
      <4>2. u \in ReaderStates /\ u.pc = "look" /\ u.at = link /\ u.result = w.result
        BY <1>0, <3>2 DEF ReaderStates, ReaderLabels
      <4> DEFINE m == [u EXCEPT !.swaps = 0]
      <4> HIDE DEF u
      <4>3. /\ m \in ReaderStates /\ m.swaps = 0
            /\ m.pc = "look" /\ m.at = link /\ m.result = w.result
        BY <4>2 DEF ReaderStates
      <4>4. v = [m EXCEPT !.linkedSince = since]
        BY <4>1
      <4> HIDE DEF m, v
      <4> QED BY <3>3, <4>3, <4>4 DEF ReaderStates
    <3>5. w.result = "none"
      BY <1>0, <1>5 DEF Reads, ResolveGeneration, w
    <3> HIDE DEF v
    <3>6. Resolved(v)
      <4>1. link <= link
        BY <3>2, SeqsAreInts
      <4> QED BY <3>2, <3>4, <4>1 DEF Resolved
    <3>7. Reads(v)
      BY <3>4, <3>5, <3>6 DEF Reads
    <3> QED BY <1>2, <3>1, <3>4, <3>7
  <2> QED BY <1>5, <2>1, <2>2, <2>3 DEF ResolveGeneration
<1>6. CASE LookAtGeneration(r)
  <2>1. w.pc = "look" /\ Resolved(w) /\ w.result = "none"
    BY <1>0, <1>6 DEF LookAtGeneration, Reads
  <2>2. ASSUME NEW label \in {"read", "resolve"}, NEW n \in 0..2,
               reader' = [reader EXCEPT ![r].pc = label, ![r].attempt = n]
        PROVE  ReadInv'
    <3> DEFINE v == [w EXCEPT !.pc = label, !.attempt = n]
    <3>1. reader' = [reader EXCEPT ![r] = v]
      BY <1>0, <2>2
    <3>2. /\ v \in ReaderStates /\ v.pc = label /\ v.at = w.at /\ v.swaps = w.swaps
          /\ v.linkedSince = w.linkedSince /\ v.result = w.result
      BY <1>0 DEF ReaderStates, ReaderLabels
    <3> HIDE DEF v
    <3>3. Reads(v)
      BY <2>1, <3>2 DEF Reads, Resolved
    <3> QED BY <1>2, <3>1, <3>2, <3>3
  <2>3. CASE reader' = [reader EXCEPT ![r].pc = "read"]
    <3>1. reader' = [reader EXCEPT ![r].pc = "read", ![r].attempt = w.attempt]
      BY <1>0, <2>3 DEF ReaderStates
    <3>2. w.attempt \in 0..2
      BY <1>0 DEF ReaderStates
    <3> HIDE DEF w
    <3> QED BY <2>2, <3>1, <3>2
  <2>4. CASE reader' = [reader EXCEPT ![r].pc = "resolve", ![r].attempt = 2]
    BY <2>2, <2>4
  <2>5. CASE gens[w.at] = Absent /\ Report(r, "link-dangling", NoDigest)
    <3>1. w.swaps >= 2
      BY <1>0, <2>1, <2>5, StoreAssumption DEF Resolved, Absent, ReaderStates
    <3> QED BY <1>3, <2>5, <3>1 DEF Results, ContractDigests
  <2> QED BY <1>6, <2>3, <2>4, <2>5 DEF LookAtGeneration
<1>7. CASE ReadGeneration(r)
  <2>1. w.pc = "read" /\ Resolved(w)
    BY <1>0, <1>7 DEF ReadGeneration, Reads
  <2>2. CASE gens[w.at] \in Digests /\ Report(r, "ok", gens[w.at])
    <3>1. gens[w.at] \in w.linkedSince
      BY <2>1, <2>2, StoreAssumption DEF Resolved, Absent, Partial
    <3> QED BY <1>3, <2>2, <3>1 DEF Results, ContractDigests
  <2>3. CASE gens[w.at] \notin Digests /\ Report(r, "manifest-mismatch", NoDigest)
    <3>1. w.swaps >= 2
      BY <1>0, <2>1, <2>3 DEF Resolved, ReaderStates
    <3> QED BY <1>3, <2>3, <3>1 DEF Results, ContractDigests
  <2> QED BY <1>7, <2>2, <2>3 DEF ReadGeneration
<1> QED BY <1>4, <1>5, <1>6, <1>7 DEF ReaderStep

LEMMA InitReads == ReaderInit => ReadInv
<1> SUFFICES ASSUME ReaderInit PROVE ReadInv
  OBVIOUS
<1>1. 0 \in Seqs
  BY GenerationsAreSeqs DEF Seqs
<1>2. NotReading \in ReaderStates /\ NotReading.pc = "idle" /\ NotReading.result = "none"
  BY <1>1 DEF NotReading, NoLink, ReaderStates, ReaderLabels, Results, ContractDigests
<1>3. Reads(NotReading)
  BY <1>2 DEF Reads
<1> QED BY <1>2, <1>3 DEF ReaderInit, ReadInv, Reads, Resolved

\* Readers beside the store leave its invariants as they are, and what a read has
\* resolved stays readable until two seals have replaced it.
THEOREM ReadInvariant ==
  ASSUME NothingIsLost, NoLegacyStore
  PROVE  KeepingReaderSpec => []ReadInv
<1> DEFINE Store == TypeInv /\ LockInv /\ ViewInv /\ RecordInv
<1>1. ReaderInit => ReadInv
  BY InitReads
<1>2. Store /\ Store' /\ ReadInv /\ [ReaderNext]_readerVars => ReadInv'
  <2> SUFFICES ASSUME Store, Store', ReadInv, [ReaderNext]_readerVars PROVE ReadInv'
    OBVIOUS
  <2>1. CASE StoreStep
    BY <2>1, StoreStepKeepsReads
  <2>2. CASE \E r \in Readers : ReaderStep(r)
    BY <2>2, ReaderStepKeepsReads
  <2>3. CASE UNCHANGED readerVars
    BY <2>3 DEF readerVars, vars, storeVars, ReadInv, Reads, Resolved, Generations
  <2> QED BY <2>1, <2>2, <2>3 DEF ReaderNext
<1>3. KeepingReaderSpec => KeepingSpec
  BY ReadersKeepSpec
<1>4. Spec => []TypeInv
  BY TypeInvariant
<1>5. KeepingSpec => []LockInv
  BY LockInvariant
<1>6. KeepingSpec => []ViewInv
  BY ViewInvariant
<1>7. KeepingSpec => []RecordInv
  BY RecordInvariant
<1> QED BY <1>1, <1>2, <1>3, <1>4, <1>5, <1>6, <1>7, PTL
   DEF KeepingReaderSpec, ReaderSpec, KeepingSpec

\* A read that fewer than two seals overtake finds a contract, for any number of
\* readers, processes and failures: the one seal it may overlap leaves the generation it
\* resolved in place as N-1.
THEOREM ReadsSurviveOneSeal ==
  ASSUME NothingIsLost, NoLegacyStore
  PROVE  KeepingReaderSpec => []OneSealCannotBreakARead
<1>1. ReadInv => OneSealCannotBreakARead
  BY DEF ReadInv, Reads, OneSealCannotBreakARead
<1>2. KeepingReaderSpec => []ReadInv
  BY ReadInvariant
<1> QED BY <1>1, <1>2, PTL

\* What a read returns was linked at some moment of the read, for any number of readers,
\* processes and failures: never a generation half written, rolled back or not yet linked.
THEOREM ReadsReturnLinkedContracts ==
  ASSUME NothingIsLost, NoLegacyStore
  PROVE  KeepingReaderSpec => []ReadReturnsALinkedContract
<1>1. ReadInv => ReadReturnsALinkedContract
  BY DEF ReadInv, Reads, ReadReturnsALinkedContract
<1>2. KeepingReaderSpec => []ReadInv
  BY ReadInvariant
<1> QED BY <1>1, <1>2, PTL
=============================================================================
