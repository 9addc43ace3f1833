------------------------------ MODULE SealStore ------------------------------
(***************************************************************************)
(* The contract store of one vault (src/kernel/contract/store.ts): the     *)
(* `<id>` link, the generations beside it, the snapshots kept for ever,    *)
(* the lineage, the index entry and the seal lock, and the processes that  *)
(* seal a contract, recover the lineage or bootstrap it.                   *)
(*                                                                         *)
(* A step is one durable effect on the file system (a rename, a directory  *)
(* made or removed, one append) or the reads made before the next effect.  *)
(* Reads made while the seal lock is held are one step: nothing but faults *)
(* changes what they read.  A process may fail (an I/O error, which the    *)
(* code handles) or crash (which it cannot) between any two effects.       *)
(***************************************************************************)
EXTENDS Lineage, FiniteSets, FiniteSetsExt

CONSTANTS
  Procs,        \* processes that use the store
  Interactive,  \* those at a terminal, which may reclaim a stale lock
  Starts,       \* the kinds of store the vault may start from
  Faults,       \* the kinds of fault the environment may inject
  MaxFaults,    \* bound: faults injected in one behaviour
  MaxOps,       \* bound: operations started in one behaviour
  MaxSeq        \* bound: store sequences 0..MaxSeq

\* "exit": a process without the lock ends, as any program does; it is not counted.
FaultKinds == {"crash", "error", "link-lost", "generation-damaged",
               "snapshot-damaged", "live-lock-old", "exit"}

StartKinds == {"empty", "pre-lineage", "legacy"}

ASSUME StoreAssumption ==
  /\ Interactive \subseteq Procs
  /\ Starts \subseteq StartKinds /\ Faults \subseteq FaultKinds
  /\ MaxFaults \in Nat /\ MaxOps \in Nat
  /\ MaxSeq \in Nat /\ MaxSeq >= 2
  /\ {"absent", "partial"} \cap Digests = {}
  /\ {"nobody", "unread"} \cap Procs = {}

VARIABLES
  link,       \* the sequence the `<id>` symlink names; 0 when there is none
  legacy,     \* what a real `<id>` directory holds; Absent when it is none
  gens,       \* gens[s]: what the directory `.<id>.<s>` holds
  linkTmp,    \* `.<id>.link-tmp` exists
  snapshots,  \* snapshots[d]: the kept snapshot of digest d
  lineage,    \* the events, whether the last line is cut short, and whether an
              \* earlier line does not parse
  indexed,    \* index.json names the vault
  lock,       \* the seal lock file
  seen,       \* seen[p]: what p read of the lock it found in its way
  proc,       \* each process's operation
  faults, ops \* what the bounds have left

storeVars == <<link, legacy, gens, linkTmp, snapshots, lineage, indexed>>
vars == <<storeVars, lock, seen, proc, faults, ops>>

-----------------------------------------------------------------------------
(* Data *)

Seqs == 0..MaxSeq
Absent == "absent"
Partial == "partial"    \* present, but does not verify against a manifest
Contents == Digests \cup {Absent, Partial}

NoLink == 0
DirectoryLink == -1     \* `<id>` is a real directory

Nobody == "nobody"      \* a lock whose process is gone or never wrote its owner
Unread == "unread"      \* a lock without a written owner
NoLock == [held |-> FALSE, owner |-> Nobody, written |-> FALSE, old |-> FALSE]
NewLock(p) == [held |-> TRUE, owner |-> p, written |-> FALSE, old |-> FALSE]

\* What the caller checked before it asked for the seal.
Checks == {"base", "expect", "none"}

Idle == [pc |-> "idle", op |-> "none", new |-> NoDigest, check |-> "none",
         base |-> NoLink, expect |-> NoDigest, policy |-> "reanchor",
         reindex |-> FALSE, linked |-> NoLink, parent |-> NoDigest,
         tail |-> NoDigest, todo |-> <<>>, start |-> FALSE, drafts |-> <<>>,
         seq |-> 0, at |-> 0, torn |-> FALSE]

-----------------------------------------------------------------------------
(* What the code reads *)

Highest(S) == Max(S)

Generations == {s \in Seqs : gens[s] # Absent}

\* currentSequence
Linked == IF legacy # Absent THEN DirectoryLink ELSE link

\* Mutant of Below: counts the linked generation as below itself.
BelowOrAt(linked) == {s \in Generations : s <= linked}

Below(linked) == {s \in Generations : s < linked}

\* Mutant of Retained: N-1 is not kept.
RetainedLinkedOnly(linked) == IF linked \in {NoLink, DirectoryLink} THEN {} ELSE {linked}

\* retained: the linked generation and the one directly below it.
Retained(linked) ==
  IF linked \in {NoLink, DirectoryLink} THEN {}
  ELSE {linked} \cup (IF Below(linked) = {} THEN {} ELSE {Highest(Below(linked))})

\* observeParent: what is linked, its digest when it verifies, and whether
\* something is linked that does not.
LinkedContents ==
  IF legacy # Absent THEN legacy ELSE IF link = NoLink THEN Absent ELSE gens[link]

ParentDigest == IF LinkedContents \in Digests THEN LinkedContents ELSE NoDigest

ParentUnreadable == Linked # NoLink /\ LinkedContents \notin Digests

\* observeLineage: the N-1 generation's digest when it verifies.
PreviousDigest ==
  IF legacy # Absent \/ link = NoLink \/ Below(link) = {} THEN NoDigest
  ELSE LET g == gens[Highest(Below(link))] IN IF g \in Digests THEN g ELSE NoDigest

\* observeLineage: the retained generations that verify, in sequence order.
Sources ==
  (IF PreviousDigest # NoDigest THEN <<PreviousDigest>> ELSE <<>>)
    \o (IF ParentDigest # NoDigest THEN <<ParentDigest>> ELSE <<>>)

Kept == {d \in Digests : snapshots[d] # Absent}
          \cup {d \in Digests : d = PreviousDigest \/ d = ParentDigest}

Classified == ClassifyLineageTail(lineage.events, ParentDigest, PreviousDigest, Kept)

\* Mutant of IsStale: any lock found in the way counts as stale.
AnyIsStale(p) == TRUE

\* The end of lockIsStale: the process read in the lock's text is gone, or its age showed
\* it stale.  A lock without a written owner is judged by the age of the file now there.
IsStale(p) == IF seen[p] = Unread THEN lock.held /\ lock.old ELSE seen[p] = Nobody

\* The rows repairLineage accepts: an indexed vault with something linked, or one
\* whose first seal never wrote its index entry and whose contract reads.
Recoverable ==
  /\ Linked # NoLink
  /\ indexed \/ (legacy = Absent /\ ParentDigest # NoDigest)

-----------------------------------------------------------------------------
(* Steps *)

Goto(p, label) == proc' = [proc EXCEPT ![p].pc = label]
Finish(p) == proc' = [proc EXCEPT ![p] = Idle]
Spend(kind) == kind \in Faults /\ faults < MaxFaults /\ faults' = faults + 1
Alone == UNCHANGED <<seen, faults, ops>>

Request(op, new, check, base, expect, policy, reindex) ==
  [Idle EXCEPT !.pc = "lock", !.op = op, !.new = new, !.check = check, !.base = base,
               !.expect = expect, !.policy = policy, !.reindex = reindex]

Policies == {"refuse", "reanchor"}

\* What a caller that reads the store now, with no lock held, may ask for:
\*  - a seal by the interview, which remembers the linked sequence (baseSeq);
\*  - a seal by the evolution gate, which remembers the digest the lineage ends at
\*    (expectedParentDigest) and refuses or repairs a gap;
\*  - the doctor's lineage repair of a vault that reads as sealed;
\*  - the bootstrap of a revert proposal.
Requests ==
  {Request("seal", d, "base", Linked, NoDigest, "reanchor", FALSE) : d \in Digests}
  \cup (UNION {{Request("seal", d, "expect", NoLink, TailDigest(lineage.events), policy, FALSE) :
                   d \in Digests} : policy \in Policies})
  \cup {Request("recover", NoDigest, "none", NoLink, NoDigest, policy, ~indexed) :
          policy \in {x \in Policies : Recoverable}}
  \cup {Request("bootstrap", NoDigest, "none", NoLink, NoDigest, "reanchor", FALSE)}

Begin(p) ==
  /\ proc[p].pc = "idle"
  /\ ops < MaxOps
  /\ \E req \in Requests : proc' = [proc EXCEPT ![p] = req]
  /\ ops' = ops + 1
  /\ UNCHANGED <<storeVars, lock, seen, faults>>

-----------------------------------------------------------------------------
(* acquireLock *)

\* createLock: the exclusive create.  When it fails the caller looks again.
TryLock(p) ==
  /\ proc[p].pc = "lock"
  /\ IF lock.held
     THEN /\ Goto(p, "retry")
          /\ UNCHANGED lock
     ELSE /\ lock' = NewLock(p)
          /\ Goto(p, "owner")
  /\ UNCHANGED storeVars /\ Alone

\* createLock: the owner is written into the file just created.
WriteOwner(p) ==
  /\ proc[p].pc = "owner"
  /\ lock' = IF lock.owner = p THEN [lock EXCEPT !.written = TRUE] ELSE lock
  /\ Goto(p, "observe")
  /\ UNCHANGED storeVars /\ Alone


\* The lock was there: created if it has gone since, looked at otherwise.
RetryLock(p) ==
  /\ proc[p].pc = "retry"
  /\ IF lock.held
     THEN Goto(p, "inspect") /\ UNCHANGED lock
     ELSE lock' = NewLock(p) /\ Goto(p, "owner")
  /\ UNCHANGED storeVars /\ Alone

\* lockIsStale reads the text: its owner, or Nobody's when its age shows it stale.
ReadOwner(p) ==
  /\ proc[p].pc = "inspect"
  /\ seen' = [seen EXCEPT ![p] = IF ~lock.held \/ ~lock.written THEN Unread
                                 ELSE IF lock.old THEN Nobody ELSE lock.owner]
  /\ Goto(p, "probe")
  /\ UNCHANGED <<storeVars, lock, faults, ops>>

\* lockIsStale looks for the process it read.  By now the lock may be gone, or another's.
\* Only a process at a terminal may go on to reclaim a stale one; a live one is busy.
ProbeOwner(p) ==
  /\ proc[p].pc = "probe"
  /\ IF IsStale(p) /\ p \in Interactive /\ proc[p].op = "seal" /\ proc[p].check = "base"
     THEN Goto(p, "confirm")
     ELSE Finish(p)
  /\ seen' = [seen EXCEPT ![p] = Nobody]
  /\ UNCHANGED <<storeVars, lock, faults, ops>>

\* The owner answers the question asked at the terminal; a yes moves aside
\* whatever lock is there by then, and fails when there is none.
ConfirmReclaim(p) ==
  /\ proc[p].pc = "confirm"
  /\ \/ lock.held /\ lock' = NoLock /\ Goto(p, "recreate")
     \/ lock' = lock /\ Finish(p)
  /\ UNCHANGED storeVars /\ Alone

\* The create after a reclaim; another process may have been first.
RecreateLock(p) ==
  /\ proc[p].pc = "recreate"
  /\ IF lock.held
     THEN Finish(p) /\ UNCHANGED lock
     ELSE lock' = NewLock(p) /\ Goto(p, "owner")
  /\ UNCHANGED storeVars /\ Alone

\* The finally of every operation: the lock file is removed, whoever made it.
Release(p) ==
  /\ proc[p].pc = "release"
  /\ lock' = NoLock
  /\ Finish(p)
  /\ UNCHANGED storeVars /\ Alone

-----------------------------------------------------------------------------
(* Under the lock *)

\* Mutant of Refused: the interview's baseSeq is not compared.
RefusedIgnoringBase(req) ==
  \/ lineage.bad
  \/ req.check = "expect" /\ (ParentUnreadable \/ ParentDigest # req.expect)
  \/ req.op = "seal" /\ req.policy = "refuse" /\ Classified # "current"
  \/ req.op = "recover" /\ req.policy = "refuse" /\ Classified = "gap"
  \/ ParentDigest # NoDigest /\ snapshots[ParentDigest] = "corrupt"

\* Why an operation stops before it writes anything.
Refused(req) ==
  \/ lineage.bad
  \/ req.check = "base" /\ Linked # req.base
  \/ req.check = "expect" /\ (ParentUnreadable \/ ParentDigest # req.expect)
  \/ /\ req.op = "seal" /\ req.policy = "refuse"
     /\ Classified # "current"
  \/ /\ req.op = "recover" /\ req.policy = "refuse"
     /\ Classified = "gap"
  \/ ParentDigest # NoDigest /\ snapshots[ParentDigest] = "corrupt"

\* Mutant of Planned: a seal does not repair the tail it builds on.
PlannedForRecoverOnly(req) ==
  IF req.op # "recover" THEN <<>>
  ELSE AnchorFor(Classified, TailDigest(lineage.events), ParentDigest)

\* What the operation will append before its own event: the plan's anchor, or,
\* on an empty lineage, the bootstrap anchors drafted as the sources are
\* snapshotted.  A revert's bootstrap appends only the latter.
Planned(req) ==
  IF req.op = "bootstrap" THEN <<>>
  ELSE AnchorFor(Classified, TailDigest(lineage.events), ParentDigest)

\* An operation that goes on remembers what it read.
Observed(req) ==
  [req EXCEPT !.pc = "snapshot", !.linked = Linked, !.parent = ParentDigest,
              !.tail = TailDigest(lineage.events), !.todo = Sources,
              !.start = lineage.events = <<>> /\ ParentDigest # NoDigest,
              !.drafts = Planned(req)]

\* Mutant of Observe: a refused operation throws before the try whose finally releases.
ObserveOutsideTheTry(p) ==
  /\ proc[p].pc = "observe"
  /\ IF Refused(proc[p])
     THEN Finish(p)
     ELSE proc' = [proc EXCEPT ![p] = Observed(proc[p])]
  /\ UNCHANGED <<storeVars, lock>> /\ Alone

\* currentSequence, observeLineage, the two checks of the caller's reading and
\* the plan: all reads.
Observe(p) ==
  /\ proc[p].pc = "observe"
  /\ IF Refused(proc[p])
     THEN Goto(p, "release")
     ELSE proc' = [proc EXCEPT ![p] = Observed(proc[p])]
  /\ UNCHANGED <<storeVars, lock>> /\ Alone

\* bootstrapUnderLock: one source after the other.  A corrupt snapshot of the
\* linked generation stops the operation, one of N-1 is skipped.
SnapshotSource(p) ==
  LET d == Head(proc[p].todo) IN
  /\ proc[p].pc = "snapshot"
  /\ proc[p].todo # <<>>
  /\ IF snapshots[d] = "corrupt"
     THEN /\ proc' = [proc EXCEPT ![p].todo = Tail(@),
                                  ![p].pc = IF d = proc[p].parent THEN "release" ELSE @]
          /\ UNCHANGED snapshots
     ELSE /\ snapshots' = [snapshots EXCEPT ![d] = "ok"]
          /\ proc' = [proc EXCEPT
               ![p].todo = Tail(@),
               ![p].drafts = IF proc[p].start THEN Append(@, BootstrapAnchor(@, d)) ELSE @]
  /\ UNCHANGED <<link, legacy, gens, linkTmp, lineage, indexed, lock>> /\ Alone

\* What follows the anchors.
AfterAnchors(req) ==
  IF req.op = "seal" THEN "collect"
  ELSE IF req.op = "recover" /\ req.reindex THEN "index"
  ELSE "release"

\* appendLineageEvents reads the lineage: one that does not parse or does not end where
\* the caller expects throws; otherwise the write follows, from what was read.
TailRead(req, tail, label) ==
  IF ~lineage.bad /\ TailDigest(lineage.events) = tail
  THEN [req EXCEPT !.pc = label, !.at = Len(lineage.events), !.torn = lineage.cut]
  ELSE [req EXCEPT !.pc = "release"]

ReadTailForAnchors(p) ==
  /\ proc[p].pc = "snapshot"
  /\ proc[p].todo = <<>>
  /\ \/ proc[p].drafts = <<>> /\ Goto(p, AfterAnchors(proc[p]))
     \/ /\ proc[p].drafts # <<>>
        /\ proc' = [proc EXCEPT ![p] = TailRead(@, proc[p].tail, "anchor")]
  /\ UNCHANGED <<storeVars, lock>> /\ Alone

\* Mutant of Started: the cut line is kept.
StartedAfterTheCut(req) == lineage

\* Mutant of Started: the cut line is dropped together with the whole one before it.
StartedTooLow(req) ==
  IF req.torn
  THEN [lineage EXCEPT !.events = SubSeq(@, 1, req.at - 1), !.cut = FALSE]
  ELSE lineage

\* What the file holds when the write starts: when the last line was cut short, the whole
\* lines that were read.  A file shorter by now is filled up and parses no more.
Started(req) ==
  IF ~req.torn THEN lineage
  ELSE IF req.at <= Len(lineage.events)
       THEN [lineage EXCEPT !.events = SubSeq(@, 1, req.at), !.cut = FALSE]
       ELSE [lineage EXCEPT !.cut = FALSE, !.bad = TRUE]

\* The events and perhaps part of one more, written in one call at the end of the file: a
\* line cut short since it was read takes the first of them with it.
Written(req, events, cut) ==
  LET file == Started(req) IN
  IF file.cut /\ events # <<>>
  THEN [events |-> file.events \o Tail(events), cut |-> cut, bad |-> TRUE]
  ELSE [events |-> file.events \o events, cut |-> file.cut \/ cut, bad |-> file.bad]

AppendAnchors(p) ==
  /\ proc[p].pc = "anchor"
  /\ lineage' = Written(proc[p], proc[p].drafts, FALSE)
  /\ Goto(p, AfterAnchors(proc[p]))
  /\ UNCHANGED <<link, legacy, gens, linkTmp, snapshots, indexed, lock>> /\ Alone

\* rm -r of one directory: it stops verifying, then it is gone.
Erode(s) ==
  gens' = [gens EXCEPT ![s] = IF @ = Partial THEN Absent ELSE Partial]

\* The seal's first collection: everything but what was linked and the one below.
CollectOrphan(p) ==
  /\ proc[p].pc = "collect"
  /\ \E s \in Generations \ Retained(proc[p].linked) : Erode(s)
  /\ UNCHANGED <<link, legacy, linkTmp, snapshots, lineage, indexed, lock, proc>>
  /\ Alone

\* Mutant of NextSeq: reuses the highest sequence.
SameSeq(linked) == Highest({1} \cup Generations \cup {linked})

NextSeq(linked) == Highest({0} \cup Generations \cup {linked}) + 1

\* Nothing left to collect: the leftover temporary link goes, the next sequence
\* is chosen and its directory made.
MakeGeneration(p) ==
  LET s == NextSeq(proc[p].linked) IN
  /\ proc[p].pc = "collect"
  /\ Generations \subseteq Retained(proc[p].linked)
  /\ s \in Seqs
  /\ linkTmp' = FALSE
  /\ gens' = [gens EXCEPT ![s] = Partial]
  /\ proc' = [proc EXCEPT ![p].pc = "fill", ![p].seq = s]
  /\ UNCHANGED <<link, legacy, snapshots, lineage, indexed, lock>> /\ Alone

\* The files, then the manifest.
FillGeneration(p) ==
  /\ proc[p].pc = "fill"
  /\ gens' = [gens EXCEPT ![proc[p].seq] = proc[p].new]
  /\ Goto(p, "publish")
  /\ UNCHANGED <<link, legacy, linkTmp, snapshots, lineage, indexed, lock>> /\ Alone

\* writeSnapshot of the new generation.
PublishSnapshot(p) ==
  LET d == proc[p].new IN
  /\ proc[p].pc = "publish"
  /\ IF snapshots[d] = "corrupt"
     THEN Goto(p, "rollback") /\ UNCHANGED snapshots
     ELSE Goto(p, "symlink") /\ snapshots' = [snapshots EXCEPT ![d] = "ok"]
  /\ UNCHANGED <<link, legacy, gens, linkTmp, lineage, indexed, lock>> /\ Alone

\* Mutant of MakeLinkTmp: the old link is removed first, not renamed over.
UnlinkFirst(p) ==
  /\ proc[p].pc = "symlink"
  /\ link' = NoLink
  /\ linkTmp' = TRUE
  /\ Goto(p, IF proc[p].linked = DirectoryLink THEN "aside" ELSE "swap")
  /\ UNCHANGED <<legacy, gens, snapshots, lineage, indexed, lock>> /\ Alone

\* The temporary link; it cannot be made over an existing one.
MakeLinkTmp(p) ==
  /\ proc[p].pc = "symlink"
  /\ IF linkTmp
     THEN Goto(p, "rollback")
     ELSE Goto(p, IF proc[p].linked = DirectoryLink THEN "aside" ELSE "swap")
  /\ linkTmp' = TRUE
  /\ UNCHANGED <<link, legacy, gens, snapshots, lineage, indexed, lock>> /\ Alone

\* A legacy `<id>` directory becomes the generation just below the new one.
MoveLegacyAside(p) ==
  /\ proc[p].pc = "aside"
  /\ gens' = [gens EXCEPT ![proc[p].seq - 1] = legacy]
  /\ legacy' = Absent
  /\ Goto(p, "swap")
  /\ UNCHANGED <<link, linkTmp, snapshots, lineage, indexed, lock>> /\ Alone

\* The rename of the temporary link over `<id>`.
SwapLink(p) ==
  /\ proc[p].pc = "swap"
  /\ link' = proc[p].seq
  /\ linkTmp' = FALSE
  /\ Goto(p, "event")
  /\ UNCHANGED <<legacy, gens, snapshots, lineage, indexed, lock>> /\ Alone

\* Mutant of RollBack: the snapshot of the generation that was not sealed goes too.
RollBackSnapshot(p) ==
  /\ proc[p].pc = "rollback"
  /\ gens' = [gens EXCEPT ![proc[p].seq] = Absent]
  /\ snapshots' = [snapshots EXCEPT ![proc[p].new] = Absent]
  /\ linkTmp' = FALSE
  /\ Goto(p, "release")
  /\ UNCHANGED <<link, legacy, lineage, indexed, lock>> /\ Alone

\* A failure before the swap: the legacy directory goes back, the temporary
\* link and the new directory go away.
RollBack(p) ==
  LET s == proc[p].seq
      movedAside == proc[p].linked = DirectoryLink /\ legacy = Absent
  IN
  /\ proc[p].pc = "rollback"
  /\ IF movedAside
     THEN /\ legacy' = gens[s - 1]
          /\ gens' = [gens EXCEPT ![s - 1] = Absent, ![s] = Absent]
     ELSE gens' = [gens EXCEPT ![s] = Absent] /\ UNCHANGED legacy
  /\ linkTmp' = FALSE
  /\ Goto(p, "release")
  /\ UNCHANGED <<link, snapshots, lineage, indexed, lock>> /\ Alone

\* onSealed: the sealed event is appended only if the lineage still ends at the
\* parent.
ReadTailForSeal(p) ==
  /\ proc[p].pc = "event"
  /\ proc' = [proc EXCEPT ![p] = TailRead(@, proc[p].parent, "append")]
  /\ UNCHANGED <<storeVars, lock>> /\ Alone

AppendSealed(p) ==
  /\ proc[p].pc = "append"
  /\ lineage' = Written(proc[p], <<SealedEvent(proc[p].parent, proc[p].new)>>, FALSE)
  /\ Goto(p, "index")
  /\ UNCHANGED <<link, legacy, gens, linkTmp, snapshots, indexed, lock>> /\ Alone

WriteIndex(p) ==
  /\ proc[p].pc = "index"
  /\ indexed' = TRUE
  /\ Goto(p, IF proc[p].op = "seal" THEN "sweep" ELSE "release")
  /\ UNCHANGED <<link, legacy, gens, linkTmp, snapshots, lineage, lock>> /\ Alone

\* The seal's last collection keeps N and N-1.
SweepGeneration(p) ==
  LET surplus == Generations \ Retained(proc[p].seq) IN
  /\ proc[p].pc = "sweep"
  /\ \/ /\ \E s \in surplus : Erode(s)
        /\ UNCHANGED proc
     \/ /\ surplus = {}
        /\ Goto(p, "release")
        /\ UNCHANGED gens
  /\ UNCHANGED <<link, legacy, linkTmp, snapshots, lineage, indexed, lock>> /\ Alone

-----------------------------------------------------------------------------
(* Faults *)

BeforeSwap == {"fill", "publish", "symlink", "aside", "swap"}

UnderLock == {"observe", "snapshot", "anchor", "collect", "event", "append", "index",
              "sweep", "release"} \cup BeforeSwap \cup {"rollback"}

Holding == UnderLock \cup {"owner"}

\* A lock that loses its process.
Orphaned(p) == IF lock.owner = p THEN [lock EXCEPT !.owner = Nobody] ELSE lock

\* A process is gone: whoever read its lock will look for it in vain.
Gone(p) ==
  /\ Finish(p)
  /\ lock' = Orphaned(p)
  /\ seen' = [q \in Procs |-> IF q = p \/ seen[q] = p THEN Nobody ELSE seen[q]]

\* Mutant of Fail: a failed lineage append is swallowed and the seal goes on.
FailButIndex(p) ==
  /\ Spend("error")
  /\ proc[p].pc \in UnderLock \ {"release", "rollback"}
  /\ Goto(p, IF proc[p].pc \in BeforeSwap THEN "rollback"
             ELSE IF proc[p].pc = "append" THEN "index" ELSE "release")
  /\ UNCHANGED <<storeVars, lock, seen, ops>>

\* An I/O error the code handles: the operation unwinds through its finally.
Fail(p) ==
  /\ Spend("error")
  /\ proc[p].pc \in UnderLock \ {"release", "rollback"}
  /\ Goto(p, IF proc[p].pc \in BeforeSwap THEN "rollback" ELSE "release")
  /\ UNCHANGED <<storeVars, lock, seen, ops>>

\* Writing the owner fails: createLock throws with its file left behind.
WriteOwnerFails(p) ==
  /\ Spend("error")
  /\ proc[p].pc = "owner"
  /\ lock' = Orphaned(p)
  /\ Finish(p)
  /\ UNCHANGED <<storeVars, seen, ops>>

\* A process dies with the lock.
Crash(p) ==
  /\ Spend("crash")
  /\ proc[p].pc \in Holding
  /\ Gone(p)
  /\ UNCHANGED <<storeVars, ops>>

\* A process ends, or dies, without it.
Exit(p) ==
  /\ "exit" \in Faults
  /\ proc[p].pc \notin Holding
  /\ Gone(p)
  /\ UNCHANGED <<storeVars, faults, ops>>

\* What an append in flight writes.
InFlight(req) ==
  IF req.pc = "append" THEN <<SealedEvent(req.parent, req.new)>> ELSE req.drafts

\* An append cut short: some whole events and perhaps part of the next.  It
\* fails the operation, or the process dies with it.
TearAppend(p) ==
  LET events == InFlight(proc[p]) IN
  /\ proc[p].pc \in {"anchor", "append"}
  /\ \E n \in 0..Len(events), cut \in BOOLEAN :
        /\ n = Len(events) => ~cut
        /\ lineage' = Written(proc[p], SubSeq(events, 1, n), cut)
  /\ \/ Spend("error") /\ Goto(p, "release") /\ UNCHANGED <<lock, seen>>
     \/ Spend("crash") /\ Gone(p)
  /\ UNCHANGED <<link, legacy, gens, linkTmp, snapshots, indexed, ops>>

\* The owner, a backup or a disk takes the link away.
LoseLink ==
  /\ Spend("link-lost")
  /\ link # NoLink
  /\ link' = NoLink
  /\ UNCHANGED <<legacy, gens, linkTmp, snapshots, lineage, indexed, lock, seen, proc, ops>>

DamageGeneration ==
  /\ Spend("generation-damaged")
  /\ \/ \E s \in Generations : gens[s] # Partial /\ gens' = [gens EXCEPT ![s] = Partial]
                                                 /\ UNCHANGED legacy
     \/ legacy \in Digests /\ legacy' = Partial /\ UNCHANGED gens
  /\ UNCHANGED <<link, linkTmp, snapshots, lineage, indexed, lock, seen, proc, ops>>

DamageSnapshot ==
  /\ Spend("snapshot-damaged")
  /\ \E d \in Digests :
        snapshots[d] = "ok" /\ snapshots' = [snapshots EXCEPT ![d] = "corrupt"]
  /\ UNCHANGED <<link, legacy, gens, linkTmp, lineage, indexed, lock, seen, proc, ops>>

\* Ten minutes pass.  A lock whose process is gone ages by itself; that a live
\* holder is still at work by then is a fault of its own.
LockAges ==
  /\ lock.held /\ ~lock.old
  /\ \/ lock.owner = Nobody /\ UNCHANGED faults
     \/ lock.owner # Nobody /\ Spend("live-lock-old")
  /\ lock' = [lock EXCEPT !.old = TRUE]
  /\ UNCHANGED <<storeVars, seen, proc, ops>>

-----------------------------------------------------------------------------
(* Specification *)

\* The stores a vault may start from: none, one sealed before the lineage
\* existed (with one or two generations), and one with a legacy directory.
Init ==
  /\ \/ /\ "empty" \in Starts
        /\ link = NoLink /\ legacy = Absent /\ indexed = FALSE
        /\ gens = [s \in Seqs |-> Absent]
     \/ /\ "pre-lineage" \in Starts
        /\ link = 2 /\ legacy = Absent /\ indexed = TRUE
        /\ \E d \in Digests, e \in Digests \cup {Absent} :
             gens = [s \in Seqs |-> IF s = 2 THEN d ELSE IF s = 1 THEN e ELSE Absent]
     \/ /\ "legacy" \in Starts
        /\ link = NoLink /\ legacy \in Digests /\ indexed = TRUE
        /\ gens = [s \in Seqs |-> Absent]
  /\ linkTmp = FALSE
  /\ snapshots = [d \in Digests |-> Absent]
  /\ lineage = [events |-> <<>>, cut |-> FALSE, bad |-> FALSE]
  /\ lock = NoLock
  /\ seen = [p \in Procs |-> Nobody]
  /\ proc = [p \in Procs |-> Idle]
  /\ faults = 0 /\ ops = 0

Step(p) ==
  \/ TryLock(p) \/ WriteOwner(p) \/ RetryLock(p) \/ ReadOwner(p) \/ ProbeOwner(p)
  \/ RecreateLock(p) \/ Release(p)
  \/ Observe(p) \/ SnapshotSource(p) \/ ReadTailForAnchors(p) \/ AppendAnchors(p)
  \/ CollectOrphan(p)
  \/ MakeGeneration(p) \/ FillGeneration(p) \/ PublishSnapshot(p) \/ MakeLinkTmp(p)
  \/ MoveLegacyAside(p) \/ SwapLink(p) \/ RollBack(p)
  \/ ReadTailForSeal(p) \/ AppendSealed(p)
  \/ WriteIndex(p) \/ SweepGeneration(p)

Fault ==
  \/ \E p \in Procs : Fail(p) \/ WriteOwnerFails(p) \/ Crash(p) \/ Exit(p) \/ TearAppend(p)
  \/ LoseLink \/ DamageGeneration \/ DamageSnapshot \/ LockAges

Next ==
  \/ \E p \in Procs : Begin(p) \/ Step(p) \/ ConfirmReclaim(p)
  \/ Fault

Spec == Init /\ [][Next]_vars

\* A running operation goes on; nothing is assumed of callers, of the answer at
\* the terminal or of faults.
FairSpec == Spec /\ \A p \in Procs : WF_vars(Step(p))

-----------------------------------------------------------------------------
(* Properties *)

Events == lineage.events
SnapshotDigests == {d \in Digests : snapshots[d] # Absent}

\* No process is past acquireLock.
Quiet == \A p \in Procs : proc[p].pc \notin Holding

Labels ==
  {"idle", "lock", "owner", "retry", "inspect", "probe", "confirm", "recreate"} \cup UnderLock

ProcStates ==
  [pc : Labels, op : {"none", "seal", "recover", "bootstrap"},
   new : ContractDigests, check : Checks, base : {NoLink, DirectoryLink} \cup Seqs,
   expect : ContractDigests, policy : Policies, reindex : BOOLEAN,
   linked : {NoLink, DirectoryLink} \cup Seqs, parent : ContractDigests,
   tail : ContractDigests, todo : Seq(Digests), start : BOOLEAN,
   drafts : Seq(LineageEvents), seq : Seqs, at : Nat, torn : BOOLEAN]

\* The vault's files and the processes hold only what the code can write or keep there:
\* a link names a generation or is absent, a lock is empty or names one process.
TypeOK ==
  /\ link \in Seqs
  /\ legacy \in Contents
  /\ gens \in [Seqs -> Contents]
  /\ linkTmp \in BOOLEAN /\ indexed \in BOOLEAN
  /\ snapshots \in [Digests -> {Absent, "ok", "corrupt"}]
  /\ lineage \in [events : Seq(LineageEvents), cut : BOOLEAN, bad : BOOLEAN]
  /\ lock \in [held : BOOLEAN, owner : Procs \cup {Nobody}, written : BOOLEAN, old : BOOLEAN]
  /\ seen \in [Procs -> Procs \cup {Nobody, Unread}]
  /\ proc \in [Procs -> ProcStates]
  /\ faults \in Nat /\ ops \in Nat

\* At most one process is past acquireLock (generation-snapshot.ts:149 "The
\* caller holds the seal lock, so no other writer races"): a crash, a failed
\* operation or the reclaim of a lock read and probed in two steps lets no second one in.
MutualExclusion ==
  \A p, q \in Procs : proc[p].pc \in Holding /\ proc[q].pc \in Holding => p = q

\* lineageHealth never finds "lineage-chain-broken" or a line that does not parse:
\* whatever was lost, damaged, torn or repaired, every event follows the one before it or
\* is a well-formed anchor, and what a torn append leaves never stays inside the file.
ChainNeverBroken == Chained(Events, SnapshotDigests) /\ ~lineage.bad

\* lineageHealth never finds "snapshot-missing": every digest the lineage names,
\* as digest, parent, priorTail or gapFrom, has a snapshot.
LineageHasSnapshots ==
  \A i \in DOMAIN Events :
    {Events[i].parent, Events[i].digest, Events[i].from} \ {NoDigest} \subseteq SnapshotDigests

\* A vault that has a contract still has one once nobody is at work on it
\* (store.ts:752 "A failure before the swap leaves the previous contract in
\* place"): no interrupted seal takes the link away.
InterruptedSealKeepsContract == indexed /\ Quiet => Linked # NoLink

\* After any interrupted seal the doctor's lineage-recover finishes the record
\* (store.ts:725 "A seal that crashed before its event and a lost link are
\* recorded under either policy"): with nobody at work, the lineage lags the
\* link by no more than the one seal whose event is missing, and N-1 is still
\* there to show it.
RecoverFinishesInterruptedSeal == Quiet => Classified # "gap"

\* The doctor can record a lost link (CHANGELOG-mcp.md:51, "It ... appends the
\* events the chain can account for: a seal that crashed before its event, a lost
\* `<id>` link"): whenever the health report names lineage-recover for a
\* lineage-seq-restart, the repair accepts the vault.
LostLinkIsRecoverable == Quiet /\ Classified = "seq-restart" => Recoverable

\* What a seal replaces is what its caller had read: the linked sequence for the
\* interview, the digest of the contract for the evolution gate.
SealReplacesWhatWasRead ==
  [][\A p \in Procs :
       proc[p].pc = "swap" /\ proc'[p].pc = "event" =>
         LET movedAside == proc[p].linked = DirectoryLink
             replaced == IF movedAside THEN gens[proc[p].seq - 1] ELSE ParentDigest
         IN  /\ proc[p].check = "base" =>
                  proc[p].base = IF movedAside THEN DirectoryLink ELSE link
             /\ proc[p].check = "expect" => proc[p].expect = replaced]_vars

\* An index entry appears only when the lineage ends at the linked contract
\* (store.ts:725 "an indexed vault always has its lineage").
IndexFollowsLineage ==
  [][~indexed /\ indexed' => Events # <<>> /\ TailDigest(Events) = ParentDigest]_vars

\* Events are never rewritten or dropped, not by the truncation of a torn last line to the
\* length read before (lineage.ts:325) either, and snapshots are never removed.
HistoryIsKept ==
  [][/\ Len(Events') >= Len(Events)
     /\ \A i \in DOMAIN Events : Events'[i] = Events[i]
     /\ SnapshotDigests \subseteq SnapshotDigests']_vars

\* A seal lock that names a living process does not stay: whatever its operation met, the
\* file goes, unless the process dies with it.  (A file whose owner could not be written
\* stays until it has aged: createLock removes nothing.)
LockIsReleased ==
  \A p \in Procs : lock.held /\ lock.written /\ lock.owner = p
                       ~> ~(lock.held /\ lock.owner = p)

\* A terminal's answer moves aside no lock of a process that lives: what the exclusion of
\* the seal lock comes down to.
LiveLocksAreKept ==
  \A p \in Procs : proc[p].pc = "confirm" /\ proc'[p].pc = "recreate" => lock.owner = Nobody

-----------------------------------------------------------------------------
(* Refinement *)

\* The store keeps the promise of ContractHistory: the contract in place is the
\* linked generation, the history the digests of the lineage.
History == INSTANCE ContractHistory WITH
  current  <- ParentDigest,
  recorded <- [i \in DOMAIN Events |-> Events[i].digest]

KeepsHistory == History!Spec
=============================================================================
