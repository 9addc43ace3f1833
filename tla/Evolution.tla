------------------------------ MODULE Evolution ------------------------------
(***************************************************************************)
(* The evolution of one vault's contract (src/kernel/evolution): requests  *)
(* that pin a candidate contract, the verdicts of the host's evaluators,   *)
(* the owner's answers at a terminal, and the gate that seals a candidate, *)
(* beside an owner who seals contracts of their own (`oms interview`).     *)
(*                                                                         *)
(* Evolution operations exclude each other by the evolution lock; what the *)
(* owner seals takes the seal lock only.  So a step is what one operation  *)
(* reads, or writes, between two points where a seal by the owner makes a  *)
(* difference.  `job` is both the evolution lock and its holder's          *)
(* progress.  The contract store is reduced to what the gate sees of it:   *)
(* the linked contract and the one below, and the lineage (SealStore has   *)
(* the steps within a seal).  A seal is interrupted at the one point that  *)
(* matters here: between its swap and its lineage event.                   *)
(***************************************************************************)
EXTENDS Lineage, FiniteSets, FiniteSetsExt

CONSTANTS
  First,          \* the contract the vault starts with
  Loosening,      \* the pairs <<parent, candidate>> where the candidate loosens
  Sessions,       \* the sessions of makers and evaluators
  Quorum,         \* QUORUM: verdicts a request needs
  StallLimit,     \* STALL_LIMIT: autonomous seals in a row
  PerDay, PerWeek,\* the policy's limits
  WeekTicks,      \* days in a week
  Uses,           \* what is done in the vault: "evolve", "revert", "approve", "interview"
  BusyOwner,      \* the owner may seal while an evolution step is between two reads
  Faults,         \* the kinds of fault: "crash", "error"
  MaxRequests,    \* bound: requests issued
  MaxSeals,       \* bound: seals
  MaxDay,         \* bound: days
  MaxFaults       \* bound: faults

ASSUME EvolutionAssumption ==
  /\ First \in Digests
  /\ Loosening \subseteq Digests \X Digests
  /\ "owner" \notin Sessions /\ "unknown" \notin Sessions
  /\ Quorum \in Nat \ {0} /\ StallLimit \in Nat \ {0}
  /\ PerDay \in Nat /\ PerWeek \in Nat /\ WeekTicks \in Nat \ {0}
  /\ Uses \subseteq {"evolve", "revert", "approve", "interview"}
  /\ BusyOwner \in BOOLEAN /\ Faults \subseteq {"crash", "error"}
  /\ MaxRequests \in Nat /\ MaxSeals \in Nat /\ MaxDay \in Nat /\ MaxFaults \in Nat

VARIABLES
  store,      \* the linked contract and the generation below it
  sealLock,   \* who holds the seal lock: "free", "gate", "owner" or, dead, "stale"
  events,     \* the lineage
  requests,   \* requests[i]: state.json of request i
  past,       \* the requests whose expiresAt has passed
  day,        \* days since the start
  autonomous, \* policy.json turns autonomy on
  job,        \* the evolution operation in progress; it holds the evolution lock
  due,        \* complete quorums whose caller has yet to run the gate
  prompt,     \* the approval shown to the owner
  sealing,    \* the contract the owner is sealing
  seals,      \* history: every swap of the link, and the place its lineage event is to have
  faults      \* what the bound has left

vars == <<store, sealLock, events, requests, past, day, autonomous, job, due, prompt,
          sealing, seals, faults>>

Ids == 1..MaxRequests
Modes == {"autonomous", "human"}
Terminal == {"sealed", "superseded", "expired", "rejected"}
States == {"open", "awaiting-human"} \cup Terminal

-----------------------------------------------------------------------------
(* Data *)

\* A lineage event names, besides, the request it sealed (0: none) and its mode.
Attributed(e, request, mode) ==
  [kind |-> e.kind, reason |-> e.reason, parent |-> e.parent, digest |-> e.digest,
   from |-> e.from, request |-> request, mode |-> mode]

NoAttempt == [mode |-> "none", at |-> 0]

NoRequest == [state |-> "absent", kind |-> "evolve", maker |-> "unknown", base |-> NoDigest,
              parentSeq |-> 0, parent |-> NoDigest, candidate |-> NoDigest,
              verdicts |-> <<>>, attempt |-> NoAttempt]

Free == [pc |-> "free", id |-> 0, mode |-> "none", read |-> NoDigest, run |-> 0, now |-> 0]
NoPrompt == [pc |-> "none", id |-> 0, shown |-> NoDigest]

Issued == {i \in Ids : requests[i].state # "absent"}

-----------------------------------------------------------------------------
(* What the lineage and the clock say of a request *)

TailOf == [seq |-> Len(events), digest |-> TailDigest(events)]

\* Mutant of SealedThis: a recovered seal belongs to nobody.
SealedThisByEvent(i, e) ==
  e.digest = requests[i].candidate /\ e.kind = "sealed" /\ e.request \in {0, i}

\* sealedThis: the event sealed this candidate, or recovered it as the seal this
\* request attempted.
SealedThis(i, e) ==
  /\ e.digest = requests[i].candidate
  /\ \/ e.kind = "sealed" /\ e.request \in {0, i}
     \/ e.reason = "unrecorded-seal" /\ requests[i].attempt # NoAttempt

SealedByRequest(i) == \E k \in DOMAIN events : events[k].kind = "sealed" /\ events[k].request = i

\* Mutant of TailMoved: the tail's digest is compared, not its place.
TailDigestMoved(i) == TailDigest(events) # requests[i].parent

TailMoved(i) == TailOf # [seq |-> requests[i].parentSeq, digest |-> requests[i].parent]

EffectiveState(i) ==
  LET r == requests[i]
      next == r.parentSeq + 1
  IN  IF SealedByRequest(i) THEN "sealed"
      ELSE IF next \in DOMAIN events /\ SealedThis(i, events[next]) THEN "sealed"
      ELSE IF r.state \in Terminal THEN r.state
      ELSE IF r.state = "open" /\ i \in past THEN "expired"
      ELSE IF TailMoved(i) THEN "superseded"
      ELSE r.state

\* settleRequest: the stored state becomes the effective one.
Settled(i) == [requests EXCEPT ![i].state = EffectiveState(i)]

-----------------------------------------------------------------------------
(* The limits of autonomy, counted from the lineage *)

\* Mutant of Counts: a seal recovered without its own event is not counted.
CountsSealedOnly(e) == e.kind = "sealed" /\ e.mode = "autonomous"

Counts(e) == e.mode = "autonomous" \/ e.reason = "unrecorded-seal"

EndsRun(e) == e.kind = "sealed" /\ e.mode # "autonomous"

\* autonomousRun: what counts after the last seal of the owner's.
AutonomousRun ==
  LET last == Max({0} \cup {k \in DOMAIN events : EndsRun(events[k])})
  IN  Cardinality({k \in DOMAIN events : k > last /\ Counts(events[k])})

\* The requests that attempted exactly the seal an event recovers.
AttemptsFor(k) ==
  {i \in Issued : /\ requests[i].attempt # NoAttempt
                  /\ requests[i].parentSeq = k - 1
                  /\ requests[i].candidate = events[k].digest}

\* The day of the attempt, which the journal repeats once the seal is done.
Within(i, span, now) == now - requests[i].attempt.at < span

\* Mutant of CountedSeal: a recovered seal is counted only when it can be attributed.
CountedSealIfKnown(k, span, now) ==
  IF events[k].kind = "sealed"
  THEN events[k].mode = "autonomous" /\ Within(events[k].request, span, now)
  ELSE FALSE

\* Event k is an autonomous seal of the last `span` days; an unrecorded seal is
\* attributed by its attempt, and counts when that is not possible.
CountedSeal(k, span, now) ==
  IF events[k].kind = "sealed"
  THEN events[k].mode = "autonomous" /\ Within(events[k].request, span, now)
  ELSE /\ events[k].reason = "unrecorded-seal"
       /\ \/ Cardinality(AttemptsFor(k)) # 1
          \/ \E i \in AttemptsFor(k) :
               requests[i].attempt.mode = "autonomous" /\ Within(i, span, now)

SealsWithin(span, now) == Cardinality({k \in DOMAIN events : CountedSeal(k, span, now)})

RateAllows(now) == SealsWithin(1, now) < PerDay /\ SealsWithin(WeekTicks, now) < PerWeek

Majority == (Quorum \div 2) + 1

Approvals(verdicts) == Cardinality({k \in DOMAIN verdicts : verdicts[k].approves})

QuorumApproves(verdicts) == Len(verdicts) >= Quorum /\ Approvals(verdicts) >= Majority

-----------------------------------------------------------------------------
(* Issuing requests *)

\* An evolution operation may take the lock.  When the owner is not busy, no seal of
\* theirs is in progress either.
LockFree == job.pc = "free" /\ (BusyOwner \/ sealLock # "owner")

\* createRequest: the state file is written last, so a request appears whole.
Create(kind, state, maker, base, parent, candidate) ==
  /\ Cardinality(Issued) < MaxRequests
  /\ requests' = [requests EXCEPT ![Cardinality(Issued) + 1] =
       [state |-> state, kind |-> kind, maker |-> maker, base |-> base,
        parentSeq |-> parent.seq, parent |-> parent.digest, candidate |-> candidate,
        verdicts |-> <<>>, attempt |-> NoAttempt]]

\* evolve takes the lock and reads the contract the maker drafts from.
StartEvolve ==
  /\ "evolve" \in Uses
  /\ LockFree
  /\ Cardinality(Issued) < MaxRequests
  /\ job' = [Free EXCEPT !.pc = "evolve", !.read = store.linked]
  /\ UNCHANGED <<store, sealLock, events, requests, past, day, autonomous, due, prompt,
                 sealing, seals, faults>>

\* It then reads the tail, drafts and evaluates a candidate, and issues a request
\* for the quorum or for the owner, or none when a stage refuses.
IssueEvolve ==
  /\ job.pc = "evolve"
  /\ \/ \E d \in Digests \ {job.read}, maker \in Sessions, state \in {"open", "awaiting-human"} :
          Create("evolve", state, maker, job.read, TailOf, d)
     \/ UNCHANGED requests
  /\ job' = Free
  /\ UNCHANGED <<store, sealLock, events, past, day, autonomous, due, prompt, sealing, seals,
                 faults>>

\* proposeRevert takes the lock and reads the lineage.
StartRevert ==
  /\ "revert" \in Uses
  /\ LockFree
  /\ Cardinality(Issued) < MaxRequests
  /\ job' = [Free EXCEPT !.pc = "revert", !.read = TailDigest(events), !.run = Len(events)]
  /\ UNCHANGED <<store, sealLock, events, requests, past, day, autonomous, due, prompt,
                 sealing, seals, faults>>

\* It then asks the owner to restore a contract the lineage names, unless that is
\* the linked one or a stage refuses.
IssueRevert ==
  /\ job.pc = "revert"
  /\ \/ \E k \in 1..job.run :
          /\ events[k].digest \notin {store.linked, NoDigest}
          /\ Create("revert", "awaiting-human", "owner", store.linked,
                    [seq |-> job.run, digest |-> job.read], events[k].digest)
     \/ UNCHANGED requests
  /\ job' = Free
  /\ UNCHANGED <<store, sealLock, events, past, day, autonomous, due, prompt, sealing, seals,
                 faults>>

-----------------------------------------------------------------------------
(* Verdicts *)

\* Mutant of Binds: one session may fill several slots.
BindsAnySession(r, session) ==
  /\ Len(r.verdicts) < Quorum
  /\ r.maker \notin {"unknown", session}

\* discardReason is null: a slot is left, the session is new and not the maker's.
Binds(r, session) ==
  /\ Len(r.verdicts) < Quorum
  /\ \A k \in DOMAIN r.verdicts : r.verdicts[k].session # session
  /\ r.maker \notin {"unknown", session}

\* recordVerdict, up to the release of the lock: the request settles, and an open
\* one takes a verdict that binds.  The call that completes the quorum goes on to
\* the gate.
AcceptVerdict(i, session, approves) ==
  LET accepted == EffectiveState(i) = "open" /\ Binds(requests[i], session) IN
  /\ job.pc = "free"
  /\ i \in Issued
  /\ requests' = IF accepted
                 THEN [Settled(i) EXCEPT ![i].verdicts =
                         Append(@, [session |-> session, approves |-> approves])]
                 ELSE Settled(i)
  /\ due' = IF accepted /\ Len(requests[i].verdicts) + 1 = Quorum THEN due \cup {i} ELSE due
  /\ UNCHANGED <<store, sealLock, events, past, day, autonomous, job, prompt, sealing, seals,
                 faults>>

-----------------------------------------------------------------------------
(* The owner's terminal *)

\* prepare: the request awaits the owner; no lock is taken.
OpenPrompt(i) ==
  /\ "approve" \in Uses
  /\ prompt.pc = "none"
  /\ i \in Issued /\ EffectiveState(i) = "awaiting-human"
  /\ prompt' = [pc |-> "reading", id |-> i, shown |-> NoDigest]
  /\ UNCHANGED <<store, sealLock, events, requests, past, day, autonomous, job, due, sealing,
                 seals, faults>>

\* The contract read next is the one the owner is shown.
ShowPrompt ==
  /\ prompt.pc = "reading"
  /\ prompt' = [prompt EXCEPT !.pc = "shown", !.shown = store.linked]
  /\ UNCHANGED <<store, sealLock, events, requests, past, day, autonomous, job, due, sealing,
                 seals, faults>>

\* Mutant of AnswerReject: the rejection does not wait for the evolution lock.
AnswerRejectUnlocked(explicit) ==
  LET i == prompt.id IN
  /\ prompt.pc = "shown"
  /\ prompt' = NoPrompt
  /\ requests' = IF explicit /\ EffectiveState(i) = "awaiting-human"
                 THEN [requests EXCEPT ![i].state = "rejected"]
                 ELSE Settled(i)
  /\ UNCHANGED <<store, sealLock, events, past, day, autonomous, job, due, sealing, seals,
                 faults>>

\* recordReject: an explicit no closes the request; a timeout, closed input or an
\* unknown answer only settles it.  A busy or stale lock ends the session.
AnswerReject(explicit) ==
  LET i == prompt.id IN
  /\ prompt.pc = "shown"
  /\ prompt' = NoPrompt
  /\ requests' = IF job.pc # "free" THEN requests
                 ELSE IF explicit /\ EffectiveState(i) = "awaiting-human"
                 THEN [requests EXCEPT ![i].state = "rejected"]
                 ELSE Settled(i)
  /\ UNCHANGED <<store, sealLock, events, past, day, autonomous, job, due, sealing, seals,
                 faults>>

\* setAutonomy
SetAutonomy ==
  /\ autonomous' = ~autonomous
  /\ UNCHANGED <<store, sealLock, events, requests, past, day, job, due, prompt, sealing,
                 seals, faults>>

-----------------------------------------------------------------------------
(* The gate *)

Wanted(mode) == IF mode = "autonomous" THEN "open" ELSE "awaiting-human"

\* The gate takes the lock, reads the request and the lineage, settles the
\* request, and goes on with one in the state its mode wants.
EnterGate(i, mode) ==
  /\ requests' = Settled(i)
  /\ job' = IF EffectiveState(i) = Wanted(mode)
            THEN [Free EXCEPT !.pc = "judge", !.id = i, !.mode = mode, !.run = AutonomousRun,
                              !.now = day]
            ELSE Free

\* The call that completed a quorum runs the gate.  A lock held by another
\* operation, or by a dead one, is reported and the quorum is not asked again.
GateQuorum(i) ==
  /\ i \in due
  /\ due' = due \ {i}
  /\ \/ LockFree /\ EnterGate(i, "autonomous")
     \/ job.pc # "free" /\ UNCHANGED <<requests, job>>
  /\ UNCHANGED <<store, sealLock, events, past, day, autonomous, prompt, sealing, seals, faults>>

\* The owner approves: nothing is done when the contract is no longer the one shown.
AnswerApprove ==
  /\ prompt.pc = "shown"
  /\ prompt' = NoPrompt
  /\ \/ /\ LockFree /\ store.linked = prompt.shown
        /\ EnterGate(prompt.id, "human")
     \/ /\ job.pc # "free" \/ store.linked # prompt.shown
        /\ UNCHANGED <<requests, job>>
  /\ UNCHANGED <<store, sealLock, events, past, day, autonomous, due, sealing, seals, faults>>

\* A revert and a loosening are always the owner's to seal.
NeedsOwner(r) == r.kind = "revert" \/ <<store.linked, r.candidate>> \in Loosening

\* What is asked before stage 1.  The run was read with the lineage, the rest is read now.
AutonomyIsOn(r) == r.maker # "unknown" /\ autonomous /\ job.run < StallLimit

\* What an autonomous seal needs besides stages 1 and 2.
MaySealAutonomously(r) ==
  ~NeedsOwner(r) /\ AutonomyIsOn(r) /\ QuorumApproves(r.verdicts) /\ RateAllows(job.now)

\* The linked contract is the request's parent, or the request is refused.  Then
\* the candidate is judged: an autonomous one is refused, or sent to the owner (always
\* so a revert or a loosening, and one with more warnings), one the owner approved may
\* be rejected for good by stage 1, and else its attempt is recorded.
JudgeCandidate ==
  LET r == requests[job.id] IN
  /\ job.pc = "judge"
  /\ \/ /\ store.linked # r.parent \/ (job.mode = "autonomous" /\ ~NeedsOwner(r))
        /\ job' = Free /\ UNCHANGED requests
     \/ /\ store.linked = r.parent /\ job.mode = "autonomous"
        /\ NeedsOwner(r) \/ AutonomyIsOn(r)
        /\ requests' = [requests EXCEPT ![job.id].state = "awaiting-human"]
        /\ job' = Free
     \/ /\ store.linked = r.parent /\ job.mode = "human"
        /\ requests' = [requests EXCEPT ![job.id].state = "rejected"]
        /\ job' = Free
     \/ /\ store.linked = r.parent
        /\ job.mode = "autonomous" => MaySealAutonomously(r)
        /\ requests' = [requests EXCEPT ![job.id].attempt = [mode |-> job.mode, at |-> job.now]]
        /\ job' = [job EXCEPT !.pc = "seal"]
  /\ UNCHANGED <<store, sealLock, events, past, day, autonomous, due, prompt, sealing, seals,
                 faults>>

Classified == ClassifyLineageTail(events, store.linked, store.below, Digests)

\* What a seal appends before its own event.
Anchors ==
  LET anchors == AnchorFor(Classified, TailDigest(events), store.linked)
  IN  [k \in DOMAIN anchors |-> Attributed(anchors[k], 0, "none")]

Swap(digest) == store' = [linked |-> digest, below |-> store.linked]

\* Mutant of ParentHolds: the sealed digest is not compared under the seal lock.
ParentUnchecked == job.mode = "autonomous" => Classified = "current"

\* sealContract: the linked digest is still the parent's, and an autonomous seal
\* finds no gap.
ParentHolds ==
  /\ store.linked = requests[job.id].parent
  /\ job.mode = "autonomous" => Classified = "current"

\* sealContract up to the swap, under the seal lock.  It is refused when the seal
\* lock is taken or stale, and when the parent does not hold.
SealCandidate ==
  LET r == requests[job.id] IN
  /\ job.pc = "seal"
  /\ Len(seals) < MaxSeals
  /\ \/ /\ sealLock = "free" /\ ParentHolds
        /\ sealLock' = "gate"
        /\ events' = events \o Anchors
        /\ Swap(r.candidate)
        /\ seals' = Append(seals, [request |-> job.id, mode |-> job.mode, at |-> day,
                                   replaced |-> store.linked, digest |-> r.candidate,
                                   place |-> Len(events') + 1])
        /\ job' = [job EXCEPT !.pc = "event"]
     \/ /\ sealLock # "free" \/ ~ParentHolds
        /\ job' = Free
        /\ UNCHANGED <<store, sealLock, events, seals>>
  /\ UNCHANGED <<requests, past, day, autonomous, due, prompt, sealing, faults>>

\* onSealed; then the seal lock is released.
RecordCandidate ==
  LET r == requests[job.id] IN
  /\ job.pc = "event"
  /\ events' = Append(events, Attributed(SealedEvent(r.parent, r.candidate), job.id, job.mode))
  /\ sealLock' = "free"
  /\ job' = [job EXCEPT !.pc = "settle"]
  /\ UNCHANGED <<store, requests, past, day, autonomous, due, prompt, sealing, seals, faults>>

\* The request is stored as sealed.
CloseRequest ==
  /\ job.pc = "settle"
  /\ requests' = [requests EXCEPT ![job.id].state = "sealed"]
  /\ job' = Free
  /\ UNCHANGED <<store, sealLock, events, past, day, autonomous, due, prompt, sealing, seals,
                 faults>>

-----------------------------------------------------------------------------
(* The owner's own seals and repairs *)

Undisturbed == BusyOwner \/ job.pc \in {"free", "dead"}

\* `oms interview` seals any contract, and reclaims a stale seal lock first.
OwnerSeals ==
  /\ "interview" \in Uses
  /\ Undisturbed
  /\ sealLock \in {"free", "stale"}
  /\ Len(seals) < MaxSeals
  /\ sealLock' = "owner"
  /\ events' = events \o Anchors
  /\ \E d \in Digests :
       /\ Swap(d)
       /\ sealing' = [parent |-> store.linked, digest |-> d]
       /\ seals' = Append(seals, [request |-> 0, mode |-> "human", at |-> day,
                                  replaced |-> store.linked, digest |-> d,
                                  place |-> Len(events') + 1])
  /\ UNCHANGED <<requests, past, day, autonomous, job, due, prompt, faults>>

NotSealing == [parent |-> NoDigest, digest |-> NoDigest]

OwnerRecords ==
  /\ sealLock = "owner"
  /\ events' = Append(events, Attributed(SealedEvent(sealing.parent, sealing.digest), 0, "human"))
  /\ sealing' = NotSealing
  /\ sealLock' = "free"
  /\ UNCHANGED <<store, requests, past, day, autonomous, job, due, prompt, seals, faults>>

\* lineage-recover, run by the doctor: an interrupted seal gets its event.
RecoverLineage ==
  /\ sealLock = "free" /\ Classified # "current"
  /\ Undisturbed
  /\ events' = events \o Anchors
  /\ UNCHANGED <<store, sealLock, requests, past, day, autonomous, job, due, prompt, sealing,
                 seals, faults>>

\* reclaim-evolution-lock, once the holder is gone.
ReclaimEvolutionLock ==
  /\ job.pc = "dead"
  /\ job' = Free
  /\ UNCHANGED <<store, sealLock, events, requests, past, day, autonomous, due, prompt, sealing,
                 seals, faults>>

-----------------------------------------------------------------------------
(* Time and faults *)

\* Fifteen minutes pass: every request issued so far is past its expiry.
Lapse ==
  /\ past # Issued
  /\ past' = Issued
  /\ UNCHANGED <<store, sealLock, events, requests, day, autonomous, job, due, prompt, sealing,
                 seals, faults>>

\* A day passes, and no operation takes that long.
NextDay ==
  /\ day < MaxDay
  /\ job.pc \in {"free", "dead"} /\ sealLock \in {"free", "stale"}
  /\ day' = day + 1
  /\ past' = Issued
  /\ UNCHANGED <<store, sealLock, events, requests, autonomous, job, due, prompt, sealing,
                 seals, faults>>

Spend(kind) == kind \in Faults /\ faults < MaxFaults /\ faults' = faults + 1

\* The process of an operation dies and leaves its locks.
CrashJob ==
  /\ Spend("crash")
  /\ job.pc \notin {"free", "dead"}
  /\ job' = [Free EXCEPT !.pc = "dead"]
  /\ sealLock' = IF sealLock = "gate" THEN "stale" ELSE sealLock
  /\ UNCHANGED <<store, events, requests, past, day, autonomous, due, prompt, sealing, seals>>

\* A write fails: the operation gives up and releases its locks.
FailJob ==
  /\ Spend("error")
  /\ job.pc \notin {"free", "dead"}
  /\ job' = Free
  /\ sealLock' = IF sealLock = "gate" THEN "free" ELSE sealLock
  /\ UNCHANGED <<store, events, requests, past, day, autonomous, due, prompt, sealing, seals>>

\* The owner's seal stops before its event, by a failed append or a crash.
OwnerSealStops ==
  /\ sealLock = "owner"
  /\ \/ Spend("crash") /\ sealLock' = "stale"
     \/ Spend("error") /\ sealLock' = "free"
  /\ sealing' = NotSealing
  /\ UNCHANGED <<store, events, requests, past, day, autonomous, job, due, prompt, seals>>

\* The process that completed a quorum dies before it runs the gate.
CrashCaller ==
  /\ Spend("crash")
  /\ \E i \in due : due' = due \ {i}
  /\ UNCHANGED <<store, sealLock, events, requests, past, day, autonomous, job, prompt, sealing,
                 seals>>

-----------------------------------------------------------------------------
(* Specification *)

\* A vault the owner has sealed once, perhaps with an open request written before
\* the maker's session was required, or after.
Init ==
  /\ store = [linked |-> First, below |-> NoDigest]
  /\ sealLock = "free"
  /\ events = <<Attributed(SealedEvent(NoDigest, First), 0, "human")>>
  /\ \/ requests = [i \in Ids |-> NoRequest]
     \/ /\ 1 \in Ids
        /\ \E d \in Digests \ {First} :
             requests = [[i \in Ids |-> NoRequest] EXCEPT
               ![1] = [NoRequest EXCEPT !.state = "open", !.base = First, !.parentSeq = 1,
                                        !.parent = First, !.candidate = d]]
  /\ past = {} /\ day = 0
  /\ autonomous = FALSE
  /\ job = Free /\ due = {} /\ prompt = NoPrompt /\ sealing = NotSealing
  /\ seals = <<>>
  /\ faults = 0

JobStep ==
  \/ IssueEvolve \/ IssueRevert
  \/ JudgeCandidate \/ SealCandidate \/ RecordCandidate \/ CloseRequest

Next ==
  \/ StartEvolve \/ StartRevert \/ JobStep
  \/ \E i \in Ids, session \in Sessions, approves \in BOOLEAN : AcceptVerdict(i, session, approves)
  \/ \E i \in Ids : GateQuorum(i) \/ OpenPrompt(i)
  \/ ShowPrompt \/ AnswerApprove \/ \E explicit \in BOOLEAN : AnswerReject(explicit)
  \/ SetAutonomy
  \/ OwnerSeals \/ OwnerRecords \/ RecoverLineage \/ ReclaimEvolutionLock
  \/ Lapse \/ NextDay
  \/ CrashJob \/ FailJob \/ OwnerSealStops \/ CrashCaller

Spec == Init /\ [][Next]_vars

-----------------------------------------------------------------------------
(* Properties *)

Verdicts == [session : Sessions, approves : BOOLEAN]

\* The variables have their types, the seal lock is the gate's or the owner's exactly while
\* one of them seals, and the lineage names only requests that were issued.
TypeOK ==
  /\ store \in [linked : Digests, below : ContractDigests]
  /\ sealLock \in {"free", "gate", "owner", "stale"}
  /\ sealLock = "gate" <=> job.pc = "event"
  /\ sealLock = "owner" <=> sealing # NotSealing
  /\ requests \in [Ids -> [state : States \cup {"absent"}, kind : {"evolve", "revert"},
       maker : Sessions \cup {"owner", "unknown"}, base : ContractDigests, parentSeq : Nat,
       parent : ContractDigests, candidate : ContractDigests, verdicts : Seq(Verdicts),
       attempt : [mode : Modes \cup {"none"}, at : Nat]]]
  /\ past \subseteq Ids /\ due \subseteq Issued
  /\ day \in Nat /\ faults \in Nat /\ autonomous \in BOOLEAN
  /\ job.pc \in {"free", "dead", "evolve", "revert", "judge", "seal", "event", "settle"}
  /\ prompt.pc \in {"none", "reading", "shown"}
  /\ \A k \in DOMAIN events : events[k].request \in {0} \cup Issued
  /\ \A k \in DOMAIN seals : seals[k].request \in {0} \cup Issued

AutonomousSeals == {k \in DOMAIN seals : seals[k].mode = "autonomous"}

\* Sealing the contract that is already linked leaves no trace when interrupted:
\* the lineage ends at it before and after.
Changing(k) == seals[k].replaced # seals[k].digest

\* "A loosening candidate never seals autonomously" (stage-consensus.ts:27): what an
\* autonomous seal replaces, at the moment of its swap, is a contract its candidate
\* does not loosen, whatever the owner sealed since the candidate was judged.
NeverLoosensAlone ==
  \A k \in AutonomousSeals : <<seals[k].replaced, seals[k].digest>> \notin Loosening

\* "All 3 bound verdicts arrived and 2 of 3 approve" (seal-gate.ts:42): behind every
\* autonomous seal stand a majority of distinct sessions, none of them the maker's.
QuorumBehindEverySeal ==
  \A k \in AutonomousSeals :
    LET r == requests[seals[k].request]
        approving == {v \in {r.verdicts[n] : n \in DOMAIN r.verdicts} : v.approves}
    IN  /\ r.maker \in Sessions
        /\ Cardinality({v.session : v \in approving} \ {r.maker}) >= Majority

\* "3 autonomous generations in a row" (seal-gate.ts:39) stop autonomy until the owner
\* seals one: counted by what was really swapped in, interrupted seals included.
RunsEnd ==
  \A k \in DOMAIN seals :
    LET run == {n \in AutonomousSeals :
                  n <= k /\ Changing(n) /\ \A m \in n..k : seals[m].mode = "autonomous"}
    IN  Cardinality(run) <= StallLimit

\* The rate limit "read from the lineage, never from a counter the loop could forget to
\* bump" (rate-limit.ts:7) bounds what was really swapped in, interrupted seals included.
RateIsKept ==
  \A d \in 0..day :
    LET since(span) == {k \in AutonomousSeals :
                          Changing(k) /\ seals[k].at <= d /\ d - seals[k].at < span}
    IN  Cardinality(since(1)) <= PerDay /\ Cardinality(since(WeekTicks)) <= PerWeek

\* "Written before the seal is attempted, so an unrecorded seal can be attributed later"
\* (request-state.ts:60): once the lineage has caught up, a request that was sealed reads
\* as sealed, even when its process died before the event.
InterruptedSealIsAttributed ==
  \A k \in DOMAIN seals :
    (/\ seals[k].request # 0 /\ Changing(k)
     /\ sealLock \in {"free", "stale"} /\ Classified = "current")
    => EffectiveState(seals[k].request) = "sealed"

\* "Only a human rejects a request for good" (seal-gate.ts:50): what the gate swaps in is
\* a request that is not closed by then, however the owner answered meanwhile.
ClosedIsNeverSealed ==
  [][Len(seals') > Len(seals) =>
       LET i == seals'[Len(seals')].request
       IN  i # 0 => requests[i].state = Wanted(job.mode)]_vars

\* "Comparing the tail eventSeq, not only its digest, keeps A->B->A from reviving a
\* request" (request-state.ts:33): a request that reads as closed stays closed unless the
\* gate is at work on it (its clock is the time it began), and a sealed one stays sealed.
ClosedStaysClosed ==
  [][\A i \in Issued :
       /\ EffectiveState(i) \in Terminal /\ job.id # i => EffectiveState(i)' \in Terminal
       /\ EffectiveState(i) = "sealed" => EffectiveState(i)' = "sealed"]_vars

\* The same sentence, of the seal: a request is sealed right after its parent's event.
SealFollowsItsParent ==
  \A k \in DOMAIN events :
    (events[k].kind = "sealed" /\ events[k].request # 0)
    => k = requests[events[k].request].parentSeq + 1

\* "The sealed contract is not the one this request was built on" is refused
\* (seal-gate.ts:204): a candidate replaces the contract it was drafted from.
SealReplacesItsBase ==
  \A k \in DOMAIN seals :
    (seals[k].request # 0 /\ requests[seals[k].request].kind = "evolve")
    => seals[k].replaced = requests[seals[k].request].base
=============================================================================
