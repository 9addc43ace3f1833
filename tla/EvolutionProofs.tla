-------------------------- MODULE EvolutionProofs --------------------------
(***************************************************************************)
(* Theorems about Evolution, for any contracts, sessions, quorum, limits   *)
(* and faults.  Whatever the gate seals on its own does not loosen what it *)
(* replaces and has a majority of independent sessions behind it.  A       *)
(* request that reads as closed stays closed.  The limits of autonomy,     *)
(* counted from the lineage, bound the seals themselves.  Where the owner  *)
(* leaves the vault alone while the gate is at work (~BusyOwner), an       *)
(* interrupted seal is also attributed to its request.                     *)
(***************************************************************************)
EXTENDS Evolution, SequenceTheorems, FiniteSetTheorems, WellFoundedInduction, TLAPS

-----------------------------------------------------------------------------
(* What the operators of Lineage return *)

\* The digest a lineage ends at, whatever else its events carry.
LEMMA TailDigestOf ==
  ASSUME NEW S, \A e \in S : e.digest \in ContractDigests, NEW log \in Seq(S)
  PROVE  TailDigest(log) \in ContractDigests
<1>1. CASE log = <<>>
  BY <1>1 DEF TailDigest, ContractDigests
<1>2. CASE log # <<>>
  <2>1. log[Len(log)] \in S
    BY <1>2, EmptySeq, ElementOfSeq, LenProperties
  <2> QED BY <1>2, <2>1 DEF TailDigest
<1> QED BY <1>1, <1>2

\* Every lineage is in one of the four cases (classifyLineageTail).
LEMMA ClassifyType ==
  ASSUME NEW log, NEW parent, NEW previous, NEW kept
  PROVE  ClassifyLineageTail(log, parent, previous, kept) \in Outcomes
  BY DEF ClassifyLineageTail, Outcomes

\* A plan is a sequence of anchors.
LEMMA AnchorForType ==
  ASSUME NEW outcome \in Outcomes, NEW tail \in ContractDigests, NEW parent \in ContractDigests
  PROVE  AnchorFor(outcome, tail, parent) \in Seq(LineageEvents)
<1>1. \A x \in LineageEvents : <<x>> \in Seq(LineageEvents)
  OBVIOUS
<1>2. Recovered("seq-restart", NoDigest, NoDigest, tail) \in LineageEvents
  BY DEF Recovered, LineageEvents, Reasons, ContractDigests
<1>3. Recovered("unrecorded-seal", tail, parent, NoDigest) \in LineageEvents
  BY DEF Recovered, LineageEvents, Reasons, ContractDigests
<1>4. Recovered("gap-anchor", NoDigest, parent, tail) \in LineageEvents
  BY DEF Recovered, LineageEvents, Reasons, ContractDigests
<1> QED BY <1>1, <1>2, <1>3, <1>4, EmptySeq DEF AnchorFor

-----------------------------------------------------------------------------
(* The inductive invariant *)

RequestStates == [state : States \cup {"absent"}, kind : {"evolve", "revert"},
  maker : Sessions \cup {"owner", "unknown"}, base : ContractDigests, parentSeq : Nat,
  parent : ContractDigests, candidate : ContractDigests, verdicts : Seq(Verdicts),
  attempt : [mode : Modes \cup {"none"}, at : Nat]]

EventStates == [kind : {"sealed", "recovered"}, reason : Reasons, parent : ContractDigests,
  digest : ContractDigests, from : ContractDigests, request : Nat, mode : Modes \cup {"none"}]

SealStates == [request : Nat, mode : Modes, at : Nat, replaced : ContractDigests,
               digest : ContractDigests, place : Nat]

\* The verdicts of a request are of distinct sessions, none of them its maker's, and a
\* request without a known maker has none; the owner makes reverts only.  It has a candidate.
WellBound(r) ==
  /\ \A k, n \in DOMAIN r.verdicts :
       r.verdicts[k].session = r.verdicts[n].session => k = n
  /\ \A k \in DOMAIN r.verdicts : r.verdicts[k].session # r.maker
  /\ r.kind = "evolve" => r.maker # "owner"
  /\ r.candidate \in Digests

RequestsInv ==
  /\ requests \in [Ids -> RequestStates]
  /\ \E n \in 0..MaxRequests : Issued = 1..n
  /\ \A i \in Issued : WellBound(requests[i])

\* A request the gate may seal without the owner.
Backed(r) ==
  /\ r.kind = "evolve" /\ r.maker # "unknown"
  /\ <<r.parent, r.candidate>> \notin Loosening
  /\ QuorumApproves(r.verdicts)

\* What is recorded of the seals: every autonomous one replaced its request's parent.
LogInv ==
  /\ events \in Seq(EventStates) /\ seals \in Seq(SealStates)
  /\ \A k \in DOMAIN events : events[k].request \in {0} \cup Issued
  /\ \A k \in DOMAIN seals : seals[k].request \in {0} \cup Issued
  /\ \A k \in AutonomousSeals :
       LET r == requests[seals[k].request] IN
       /\ seals[k].request \in Issued /\ Backed(r)
       /\ seals[k].replaced = r.parent /\ seals[k].digest = r.candidate

AtGate == {"judge", "seal", "event", "settle"}

JobInv ==
  /\ job \in [pc : {"free", "dead", "evolve", "revert"} \cup AtGate, id : Nat,
              mode : Modes \cup {"none"}, read : ContractDigests, run : Nat, now : Nat]
  /\ job.pc \in AtGate => job.id \in Issued /\ job.mode \in Modes
  /\ job.pc = "revert" => job.run <= Len(events)
  /\ job.pc = "seal" /\ job.mode = "autonomous" => Backed(requests[job.id])

OwnerInv ==
  /\ prompt \in [pc : {"none", "reading", "shown"}, id : Nat, shown : ContractDigests]
  /\ prompt.pc # "none" => prompt.id \in Issued
  /\ sealing \in [parent : ContractDigests, digest : ContractDigests]
  /\ sealLock \in {"free", "gate", "owner", "stale"}
  /\ sealLock = "gate" <=> job.pc = "event"
  /\ sealLock = "owner" <=> sealing # NotSealing

VaultInv ==
  /\ store \in [linked : Digests, below : ContractDigests]
  /\ past \subseteq Ids /\ due \subseteq Issued
  /\ day \in Nat /\ faults \in Nat /\ autonomous \in BOOLEAN

EvolutionInv == RequestsInv /\ LogInv /\ JobInv /\ OwnerInv /\ VaultInv

-----------------------------------------------------------------------------
(* Requests: a step changes the state of one, its attempt or its verdicts, or issues one *)

\* What never changes of a request once it is issued; a complete quorum is not added to.
Continues(r, s) ==
  /\ s.state # "absent"
  /\ s.kind = r.kind /\ s.maker = r.maker
  /\ s.parent = r.parent /\ s.candidate = r.candidate
  /\ Len(r.verdicts) >= Quorum => s.verdicts = r.verdicts

RequestsGo == RequestsInv' /\ \A i \in Issued : Continues(requests[i], requests'[i])

LEMMA BackedStays ==
  ASSUME NEW r, NEW s, Continues(r, s), Backed(r)
  PROVE  Backed(s)
  BY DEF Continues, Backed, QuorumApproves

LEMMA IssuedStays ==
  ASSUME RequestsInv, RequestsGo
  PROVE  Issued \subseteq Issued'
  BY DEF RequestsInv, RequestsGo, Continues, Issued

LEMMA RequestsUnchanged ==
  ASSUME RequestsInv, UNCHANGED requests
  PROVE  RequestsGo
  BY DEF RequestsInv, RequestsGo, Continues, Issued

\* One issued request is replaced by a well-bound one that continues it.
LEMMA OneRequestChanges ==
  ASSUME RequestsInv, NEW i \in Issued, NEW r \in RequestStates,
         requests' = [requests EXCEPT ![i] = r], Continues(requests[i], r), WellBound(r)
  PROVE  RequestsGo
<1>1. i \in Ids /\ \A j \in Ids : requests'[j] = IF j = i THEN r ELSE requests[j]
  BY DEF RequestsInv, Issued
<1>2. requests' \in [Ids -> RequestStates]
  BY DEF RequestsInv
<1>3. Issued' = Issued
  BY <1>1, <1>2 DEF Issued, Continues
<1>4. \A j \in Issued : WellBound(requests'[j]) /\ Continues(requests[j], requests'[j])
  BY <1>1 DEF RequestsInv, Issued, Continues
<1> QED BY <1>2, <1>3, <1>4 DEF RequestsInv, RequestsGo

LEMMA StateChanges ==
  ASSUME RequestsInv, NEW i \in Issued, NEW state \in States,
         requests' = [requests EXCEPT ![i].state = state]
  PROVE  RequestsGo
<1> DEFINE r == [requests[i] EXCEPT !.state = state]
<1>1. requests[i] \in RequestStates /\ WellBound(requests[i])
  BY DEF RequestsInv, Issued
<1>2. r \in RequestStates /\ "absent" \notin States
  BY <1>1 DEF RequestStates, States, Terminal
<1>3. WellBound(r) /\ Continues(requests[i], r)
  BY <1>1, <1>2 DEF WellBound, Continues, RequestStates
<1>4. requests' = [requests EXCEPT ![i] = r]
  OBVIOUS
<1> HIDE DEF r
<1> QED BY <1>2, <1>3, <1>4, OneRequestChanges

\* The effective state of an issued request is one of the stored states.
LEMMA EffectiveStateType ==
  ASSUME RequestsInv, NEW i \in Issued
  PROVE  EffectiveState(i) \in States
<1>1. requests[i].state \in States
  BY DEF RequestsInv, Issued, RequestStates
<1> QED BY <1>1 DEF EffectiveState, States, Terminal

LEMMA SettledGo ==
  ASSUME RequestsInv, NEW i \in Issued, requests' = Settled(i)
  PROVE  RequestsGo
  BY EffectiveStateType, StateChanges DEF Settled

\* The gate's attempt is recorded.
LEMMA AttemptGo ==
  ASSUME RequestsInv, NEW i \in Issued, NEW mode \in Modes, NEW at \in Nat,
         requests' = [requests EXCEPT ![i].attempt = [mode |-> mode, at |-> at]]
  PROVE  RequestsGo
<1> DEFINE r == [requests[i] EXCEPT !.attempt = [mode |-> mode, at |-> at]]
<1>1. requests[i] \in RequestStates /\ WellBound(requests[i]) /\ requests[i].state # "absent"
  BY DEF RequestsInv, Issued
<1>2. r \in RequestStates
  BY <1>1 DEF RequestStates
<1>3. WellBound(r) /\ Continues(requests[i], r)
  BY <1>1 DEF WellBound, Continues, RequestStates
<1>4. requests' = [requests EXCEPT ![i] = r]
  OBVIOUS
<1> HIDE DEF r
<1> QED BY <1>2, <1>3, <1>4, OneRequestChanges

LEMMA AppendElements ==
  ASSUME NEW S, NEW s \in Seq(S), NEW x \in S
  PROVE  /\ DOMAIN Append(s, x) = DOMAIN s \cup {Len(s) + 1}
         /\ \A k \in DOMAIN s : Append(s, x)[k] = s[k]
         /\ Append(s, x)[Len(s) + 1] = x
  BY AppendProperties, LenProperties

\* A verdict that binds is added.
LEMMA VerdictGo ==
  ASSUME EvolutionAssumption, RequestsInv, NEW i \in Issued, NEW session \in Sessions, NEW approves \in BOOLEAN,
         Binds(requests[i], session),
         requests' = [Settled(i) EXCEPT ![i].verdicts =
                        Append(@, [session |-> session, approves |-> approves])]
  PROVE  RequestsGo
<1> DEFINE v == [session |-> session, approves |-> approves]
           old == requests[i].verdicts
           r == [requests[i] EXCEPT !.state = EffectiveState(i), !.verdicts = Append(old, v)]
<1>1. requests \in [Ids -> RequestStates] /\ i \in Ids /\ WellBound(requests[i])
  BY DEF RequestsInv, Issued
<1>2. EffectiveState(i) \in States /\ "absent" \notin States
  BY EffectiveStateType DEF States, Terminal
<1>3. old \in Seq(Verdicts) /\ v \in Verdicts /\ Append(old, v) \in Seq(Verdicts)
  <2>1. old \in Seq(Verdicts)
    BY <1>1 DEF RequestStates
  <2>2. v \in Verdicts
    BY DEF Verdicts
  <2> HIDE DEF v, old
  <2> QED BY <2>1, <2>2, AppendProperties
<1>4. r \in RequestStates
  BY <1>1, <1>2, <1>3 DEF RequestStates
<1>5. requests' = [requests EXCEPT ![i] = r]
  BY <1>1 DEF Settled, RequestStates
<1>6. Continues(requests[i], r)
  <2>1. ~(Len(old) >= Quorum)
    BY <1>3, LenProperties DEF Binds, EvolutionAssumption
  <2> QED BY <1>1, <1>2, <2>1 DEF Continues, RequestStates
<1>7. WellBound(r)
  <2>1. /\ r.verdicts = Append(old, v) /\ r.maker = requests[i].maker
        /\ r.kind = requests[i].kind
    BY <1>1 DEF RequestStates
  <2>2. /\ DOMAIN Append(old, v) = DOMAIN old \cup {Len(old) + 1}
        /\ \A k \in DOMAIN old : Append(old, v)[k] = old[k]
        /\ Append(old, v)[Len(old) + 1] = v
    BY <1>3, AppendElements
  <2>3. session # requests[i].maker /\ \A k \in DOMAIN old : old[k].session # session
    BY DEF Binds
  <2>4. v.session = session
    OBVIOUS
  <2> HIDE DEF r, v
  <2>5. \A k, n \in DOMAIN old : old[k].session = old[n].session => k = n
    BY <1>1 DEF WellBound
  <2>6. \A k \in DOMAIN old : old[k].session # r.maker
    BY <1>1, <2>1 DEF WellBound
  <2>7. (r.kind = "evolve" => r.maker # "owner") /\ r.candidate \in Digests
    <3>1. r.candidate = requests[i].candidate
      BY <1>6 DEF Continues
    <3> QED BY <1>1, <2>1, <3>1 DEF WellBound
  <2> HIDE DEF old
  <2> QED BY <2>1, <2>2, <2>3, <2>4, <2>5, <2>6, <2>7 DEF WellBound
<1> HIDE DEF r
<1> QED BY <1>4, <1>5, <1>6, <1>7, OneRequestChanges

\* A request is issued under the next number.
LEMMA CreateGo ==
  ASSUME EvolutionAssumption, RequestsInv,
         NEW kind \in {"evolve", "revert"}, NEW state \in States,
         NEW maker \in Sessions \cup {"owner"}, kind = "evolve" => maker # "owner",
         NEW base \in ContractDigests, NEW parent, parent.seq \in Nat,
         parent.digest \in ContractDigests, NEW candidate \in Digests,
         Create(kind, state, maker, base, parent, candidate)
  PROVE  RequestsGo
<1>1. PICK n \in 0..MaxRequests : Issued = 1..n
  BY DEF RequestsInv
<1>2. Cardinality(Issued) = n /\ MaxRequests \in Nat /\ n \in Nat
  BY <1>1, FS_Interval DEF EvolutionAssumption
<1> DEFINE i == n + 1
           r == [state |-> state, kind |-> kind, maker |-> maker, base |-> base,
                 parentSeq |-> parent.seq, parent |-> parent.digest, candidate |-> candidate,
                 verdicts |-> <<>>, attempt |-> NoAttempt]
<1>3. i \in Ids /\ i \notin Issued /\ requests' = [requests EXCEPT ![i] = r]
  <2>1. n < MaxRequests /\ requests' = [requests EXCEPT ![n + 1] = r]
    BY <1>2 DEF Create
  <2> QED BY <1>1, <1>2, <2>1 DEF Ids
<1>4. r \in RequestStates /\ WellBound(r) /\ r.state # "absent"
  BY EmptySeq DEF RequestStates, WellBound, NoAttempt, States, Terminal, ContractDigests
<1> HIDE DEF r
<1>5. requests' \in [Ids -> RequestStates]
  BY <1>3, <1>4 DEF RequestsInv
<1>6. Issued' = Issued \cup {i}
  BY <1>3, <1>4, <1>5 DEF Issued, RequestsInv
<1>7. i \in 0..MaxRequests /\ Issued' = 1..i
  BY <1>1, <1>2, <1>3, <1>6 DEF Ids
<1>8. \A j \in Issued : requests'[j] = requests[j] /\ j \in Ids
  BY <1>3 DEF RequestsInv, Issued
<1>9. \A j \in Issued' : WellBound(requests'[j])
  BY <1>3, <1>4, <1>6, <1>8 DEF RequestsInv
<1>10. \A j \in Issued : Continues(requests[j], requests'[j])
  BY <1>8 DEF Continues, Issued
<1> QED BY <1>5, <1>7, <1>9, <1>10 DEF RequestsGo, RequestsInv

-----------------------------------------------------------------------------
(* The lineage, the seals and the gate beside what the requests become *)

\* Events are added that name no request that was not issued.
LEMMA EventsGo ==
  ASSUME LogInv, NEW more \in Seq(EventStates), events' = events \o more,
         \A k \in DOMAIN more : more[k].request \in {0} \cup Issued
  PROVE  /\ events' \in Seq(EventStates)
         /\ \A k \in DOMAIN events' : events'[k].request \in {0} \cup Issued
         /\ Len(events') >= Len(events)
<1>1. /\ events \in Seq(EventStates)
      /\ \A k \in DOMAIN events : events[k].request \in {0} \cup Issued
  BY DEF LogInv
<1>2. /\ events \o more \in Seq(EventStates)
      /\ Len(events \o more) = Len(events) + Len(more)
      /\ \A k \in 1..(Len(events) + Len(more)) :
           (events \o more)[k] = IF k <= Len(events) THEN events[k] ELSE more[k - Len(events)]
  BY <1>1, ConcatProperties
<1>3. DOMAIN events = 1..Len(events) /\ DOMAIN more = 1..Len(more)
  BY <1>1, LenProperties
<1>4. DOMAIN (events \o more) = 1..(Len(events) + Len(more)) /\ Len(events) \in Nat /\ Len(more) \in Nat
  BY <1>1, <1>2, LenProperties
<1>5. ASSUME NEW k \in DOMAIN (events \o more)
      PROVE  (events \o more)[k].request \in {0} \cup Issued
  <2>1. CASE k <= Len(events)
    BY <1>1, <1>2, <1>3, <1>4, <2>1
  <2>2. CASE ~(k <= Len(events))
    <3>1. k - Len(events) \in DOMAIN more /\ (events \o more)[k] = more[k - Len(events)]
      BY <1>2, <1>3, <1>4, <2>2
    <3> QED BY <3>1
  <2> QED BY <2>1, <2>2
<1> QED BY <1>2, <1>4, <1>5

\* A seal is added: an autonomous one of a request the gate may seal alone.
SealIsBacked(x) ==
  /\ x \in SealStates /\ x.request \in {0} \cup Issued
  /\ x.mode = "autonomous" =>
       /\ x.request \in Issued /\ Backed(requests[x.request])
       /\ x.replaced = requests[x.request].parent
       /\ x.digest = requests[x.request].candidate

LEMMA LogGoes ==
  ASSUME RequestsInv, LogInv, RequestsGo,
         events' \in Seq(EventStates),
         \A k \in DOMAIN events' : events'[k].request \in {0} \cup Issued,
         seals' = seals \/ \E x : SealIsBacked(x) /\ seals' = Append(seals, x)
  PROVE  LogInv'
<1>1. Issued \subseteq Issued'
  BY IssuedStays
<1>2. \A i \in Issued : Continues(requests[i], requests'[i])
  BY DEF RequestsGo
<1>3. ASSUME NEW x, x \in SealStates, x.request \in {0} \cup Issued,
             x.mode = "autonomous" => /\ x.request \in Issued /\ Backed(requests[x.request])
                                      /\ x.replaced = requests[x.request].parent
                                      /\ x.digest = requests[x.request].candidate
      PROVE  /\ x.request \in {0} \cup Issued'
             /\ x.mode = "autonomous" =>
                  /\ x.request \in Issued' /\ Backed(requests'[x.request])
                  /\ x.replaced = requests'[x.request].parent
                  /\ x.digest = requests'[x.request].candidate
  BY <1>1, <1>2, <1>3, BackedStays DEF Continues
<1>4. /\ seals \in Seq(SealStates)
      /\ \A k \in DOMAIN seals : SealIsBacked(seals[k])
  BY ElementOfSeq, LenProperties DEF LogInv, SealIsBacked, AutonomousSeals
<1>5. /\ seals' \in Seq(SealStates)
      /\ \A k \in DOMAIN seals' : SealIsBacked(seals'[k])
  <2>1. CASE seals' = seals
    BY <1>4, <2>1
  <2>2. ASSUME NEW x, SealIsBacked(x), seals' = Append(seals, x)
        PROVE  /\ seals' \in Seq(SealStates)
               /\ \A k \in DOMAIN seals' : SealIsBacked(seals'[k])
    <3>1. x \in SealStates
      BY <2>2 DEF SealIsBacked
    <3> QED BY <1>4, <2>2, <3>1, AppendProperties, AppendElements
  <2> QED BY <2>1, <2>2
<1>6. \A k \in DOMAIN events' : events'[k].request \in {0} \cup Issued'
  BY <1>1
<1> QED BY <1>3, <1>5, <1>6 DEF LogInv, AutonomousSeals, SealIsBacked

LEMMA LogUnchanged ==
  ASSUME RequestsInv, LogInv, RequestsGo, UNCHANGED <<events, seals>>
  PROVE  LogInv' /\ Len(events') >= Len(events)
<1>1. Len(events) \in Nat
  BY LenProperties DEF LogInv
<1>2. LogInv'
  BY LogGoes DEF LogInv
<1> QED BY <1>1, <1>2

\* The operation in progress goes on beside a request that changes.
LEMMA JobUnchanged ==
  ASSUME RequestsInv, LogInv, JobInv, RequestsGo, Len(events') >= Len(events),
         events' \in Seq(EventStates), UNCHANGED job
  PROVE  JobInv'
<1>1. Issued \subseteq Issued' /\ \A i \in Issued : Continues(requests[i], requests'[i])
  BY IssuedStays DEF RequestsGo
<1>2. Len(events) \in Nat /\ Len(events') \in Nat
  BY LenProperties DEF LogInv
<1>3. job.pc = "seal" /\ job.mode = "autonomous" => Backed(requests'[job.id])
  BY <1>1, BackedStays DEF JobInv, AtGate
<1> QED BY <1>1, <1>2, <1>3 DEF JobInv

LEMMA JobEnds ==
  ASSUME JobInv, job' = Free \/ job' = [Free EXCEPT !.pc = "dead"]
  PROVE  JobInv'
  BY DEF JobInv, Free, AtGate, ContractDigests

LEMMA EventAdded ==
  ASSUME LogInv, NEW e \in EventStates, events' = Append(events, e), e.request \in {0} \cup Issued
  PROVE  /\ events' \in Seq(EventStates)
         /\ \A k \in DOMAIN events' : events'[k].request \in {0} \cup Issued
         /\ Len(events') >= Len(events)
<1>1. events \in Seq(EventStates) /\ Len(events) \in Nat
  BY LenProperties DEF LogInv
<1> QED BY <1>1, AppendProperties, AppendElements DEF LogInv

\* What a seal or lineage-recover appends names no request.
LEMMA AnchorsType ==
  ASSUME LogInv, VaultInv
  PROVE  /\ Anchors \in Seq(EventStates)
         /\ \A k \in DOMAIN Anchors : Anchors[k].request = 0
<1> DEFINE plan == AnchorFor(Classified, TailDigest(events), store.linked)
<1>1. TailDigest(events) \in ContractDigests
  BY TailDigestOf DEF LogInv, EventStates
<1>2. plan \in Seq(LineageEvents)
  BY <1>1, ClassifyType, AnchorForType DEF Classified, VaultInv, ContractDigests
<1>3. \A k \in DOMAIN plan : plan[k] \in LineageEvents
  BY <1>2, ElementOfSeq, LenProperties
<1>4. \A e \in LineageEvents : Attributed(e, 0, "none") \in EventStates
  BY DEF LineageEvents, EventStates, Attributed
<1> DEFINE anchors == [k \in DOMAIN plan |-> Attributed(plan[k], 0, "none")]
<1>5. DOMAIN plan = 1..Len(plan) /\ Len(plan) \in Nat
  BY <1>2, LenProperties
<1> HIDE DEF plan
<1>6. \A k \in 1..Len(plan) : anchors[k] \in EventStates
  BY <1>3, <1>4, <1>5
<1>7. anchors \in Seq(EventStates)
  BY <1>5, <1>6, IsASeq
<1>8. \A k \in DOMAIN anchors : anchors[k].request = 0
  BY DEF Attributed
<1> QED BY <1>7, <1>8 DEF Anchors, plan

-----------------------------------------------------------------------------
(* The owner beside the evolution operations *)

\* The owner's prompt and seal go on beside a step that leaves the gate's seal alone.
LEMMA OwnerUnchanged ==
  ASSUME RequestsInv, RequestsGo, OwnerInv, UNCHANGED <<prompt, sealing, sealLock>>,
         job.pc # "event", job'.pc # "event"
  PROVE  OwnerInv'
  BY IssuedStays DEF OwnerInv, NotSealing

LEMMA VaultUnchanged ==
  ASSUME RequestsInv, RequestsGo, VaultInv, UNCHANGED <<store, past, day, autonomous, faults>>,
         due' \subseteq due \cup Issued
  PROVE  VaultInv'
  BY IssuedStays DEF VaultInv

-----------------------------------------------------------------------------
(* The steps *)

LEMMA IssueSteps ==
  ASSUME EvolutionAssumption, EvolutionInv,
         StartEvolve \/ IssueEvolve \/ StartRevert \/ IssueRevert
  PROVE  EvolutionInv'
<1>1. RequestsInv /\ LogInv /\ JobInv /\ OwnerInv /\ VaultInv
  BY DEF EvolutionInv
<1>2. /\ UNCHANGED <<events, seals, prompt, sealing, sealLock, store, past, day, autonomous,
                     due, faults>>
      /\ job.pc # "event"
  BY DEF StartEvolve, IssueEvolve, StartRevert, IssueRevert, LockFree
<1>3. events \in Seq(EventStates) /\ Len(events) \in Nat /\ TailDigest(events) \in ContractDigests
  BY <1>1, LenProperties, TailDigestOf DEF LogInv, EventStates
<1>4. RequestsGo /\ JobInv' /\ job'.pc # "event"
  <2>1. CASE StartEvolve
    <3>1. RequestsGo
      BY <1>1, <2>1, RequestsUnchanged DEF StartEvolve
    <3>2. store.linked \in ContractDigests
      BY <1>1 DEF VaultInv, ContractDigests
    <3>3. job' = [pc |-> "evolve", id |-> 0, mode |-> "none", read |-> store.linked, run |-> 0,
                  now |-> 0]
      BY <2>1 DEF StartEvolve, Free
    <3> QED BY <3>1, <3>2, <3>3 DEF JobInv, AtGate
  <2>2. CASE StartRevert
    <3>1. RequestsGo
      BY <1>1, <2>2, RequestsUnchanged DEF StartRevert
    <3>2. job' = [pc |-> "revert", id |-> 0, mode |-> "none", read |-> TailDigest(events),
                  run |-> Len(events), now |-> 0]
      BY <2>2 DEF StartRevert, Free
    <3> QED BY <1>2, <1>3, <3>1, <3>2 DEF JobInv, AtGate
  <2>3. CASE IssueEvolve
    <3>1. ASSUME NEW d \in Digests, NEW maker \in Sessions, NEW state \in {"open", "awaiting-human"},
                 Create("evolve", state, maker, job.read, TailOf, d)
          PROVE  RequestsGo
      <4>1. maker # "owner" /\ state \in States /\ job.read \in ContractDigests
        BY <1>1 DEF EvolutionAssumption, States, JobInv
      <4>2. TailOf.seq \in Nat /\ TailOf.digest \in ContractDigests
        BY <1>3 DEF TailOf
      <4> QED BY <1>1, <3>1, <4>1, <4>2, CreateGo
    <3>2. RequestsGo
      BY <1>1, <2>3, <3>1, RequestsUnchanged DEF IssueEvolve
    <3>3. job' = Free /\ Free.pc # "event"
      BY <2>3 DEF IssueEvolve, Free
    <3> QED BY <1>1, <3>2, <3>3, JobEnds
  <2>4. CASE IssueRevert
    <3>1. job.pc = "revert" /\ job.run \in Nat /\ job.run <= Len(events) /\ job.read \in ContractDigests
      BY <1>1, <2>4 DEF IssueRevert, JobInv
    <3>2. ASSUME NEW k \in 1..job.run, events[k].digest \notin {store.linked, NoDigest},
                 Create("revert", "awaiting-human", "owner", store.linked,
                        [seq |-> job.run, digest |-> job.read], events[k].digest)
          PROVE  RequestsGo
      <4>1. events[k] \in EventStates
        BY <1>3, <3>1, ElementOfSeq
      <4>2. events[k].digest \in Digests
        BY <3>2, <4>1 DEF EventStates, ContractDigests
      <4>3. store.linked \in ContractDigests /\ "awaiting-human" \in States
        BY <1>1 DEF VaultInv, ContractDigests, States
      <4> QED BY <1>1, <3>1, <3>2, <4>2, <4>3, CreateGo
    <3>3. RequestsGo
      BY <1>1, <2>4, <3>2, RequestsUnchanged DEF IssueRevert
    <3>4. job' = Free /\ Free.pc # "event"
      BY <2>4 DEF IssueRevert, Free
    <3> QED BY <1>1, <3>3, <3>4, JobEnds
  <2> QED BY <2>1, <2>2, <2>3, <2>4
<1>5. LogInv' /\ OwnerInv' /\ VaultInv'
  BY <1>1, <1>2, <1>4, LogUnchanged, OwnerUnchanged, VaultUnchanged
<1> QED BY <1>4, <1>5 DEF EvolutionInv, RequestsGo

\* Verdicts and the owner's prompt: the operation in progress is left alone.
LEMMA AnswerSteps ==
  ASSUME EvolutionAssumption, EvolutionInv,
         \/ \E i \in Ids, session \in Sessions, approves \in BOOLEAN :
              AcceptVerdict(i, session, approves)
         \/ \E i \in Ids : OpenPrompt(i)
         \/ ShowPrompt
         \/ \E explicit \in BOOLEAN : AnswerReject(explicit)
         \/ SetAutonomy
  PROVE  EvolutionInv'
<1>1. RequestsInv /\ LogInv /\ JobInv /\ OwnerInv /\ VaultInv
  BY DEF EvolutionInv
<1>2. UNCHANGED <<events, seals, sealing, sealLock, store, past, day, faults, job>>
  BY DEF AcceptVerdict, OpenPrompt, ShowPrompt, AnswerReject, SetAutonomy
<1>3. RequestsGo
  <2>1. ASSUME NEW i \in Ids, NEW session \in Sessions, NEW approves \in BOOLEAN,
               AcceptVerdict(i, session, approves)
        PROVE  RequestsGo
    <3>1. i \in Issued
      BY <2>1 DEF AcceptVerdict
    <3>2. \/ requests' = Settled(i)
          \/ /\ Binds(requests[i], session)
             /\ requests' = [Settled(i) EXCEPT ![i].verdicts =
                               Append(@, [session |-> session, approves |-> approves])]
      BY <2>1 DEF AcceptVerdict
    <3> QED BY <1>1, <3>1, <3>2, SettledGo, VerdictGo
  <2>2. ASSUME NEW explicit \in BOOLEAN, AnswerReject(explicit)
        PROVE  RequestsGo
    <3>1. prompt.id \in Issued
      BY <1>1, <2>2 DEF AnswerReject, OwnerInv
    <3>2. \/ requests' = requests
          \/ requests' = Settled(prompt.id)
          \/ requests' = [requests EXCEPT ![prompt.id].state = "rejected"]
      BY <2>2 DEF AnswerReject
    <3>3. "rejected" \in States
      BY DEF States, Terminal
    <3> QED BY <1>1, <3>1, <3>2, <3>3, RequestsUnchanged, SettledGo, StateChanges
  <2>3. CASE requests' = requests
    BY <1>1, <2>3, RequestsUnchanged
  <2> QED BY <2>1, <2>2, <2>3 DEF OpenPrompt, ShowPrompt, SetAutonomy
<1>4. Issued \subseteq Issued'
  BY <1>1, <1>3, IssuedStays
<1>5. LogInv' /\ JobInv'
  BY <1>1, <1>2, <1>3, LogUnchanged, JobUnchanged DEF LogInv
<1>6. OwnerInv'
  <2>1. /\ prompt' \in [pc : {"none", "reading", "shown"}, id : Nat, shown : ContractDigests]
        /\ prompt'.pc # "none" => prompt'.id \in Issued
    <3>1. ASSUME NEW i \in Ids, OpenPrompt(i) PROVE <2>1!1 /\ <2>1!2
      BY <3>1 DEF OpenPrompt, ContractDigests, Ids, Issued
    <3>2. CASE ShowPrompt
      BY <1>1, <3>2 DEF ShowPrompt, OwnerInv, VaultInv, ContractDigests
    <3>3. ASSUME NEW explicit \in BOOLEAN, AnswerReject(explicit) PROVE <2>1!1 /\ <2>1!2
      BY <3>3 DEF AnswerReject, NoPrompt, ContractDigests
    <3>4. CASE prompt' = prompt
      BY <1>1, <3>4 DEF OwnerInv
    <3> QED BY <3>1, <3>2, <3>3, <3>4 DEF AcceptVerdict, SetAutonomy
  <2> QED BY <1>1, <1>2, <1>4, <2>1 DEF OwnerInv, NotSealing
<1>7. VaultInv'
  <2>1. due' \subseteq due \cup Issued
    BY DEF AcceptVerdict, OpenPrompt, ShowPrompt, AnswerReject, SetAutonomy
  <2>2. autonomous' \in BOOLEAN
    BY <1>1 DEF VaultInv, AcceptVerdict, OpenPrompt, ShowPrompt, AnswerReject, SetAutonomy
  <2> QED BY <1>1, <1>2, <1>4, <2>1, <2>2 DEF VaultInv
<1> QED BY <1>3, <1>5, <1>6, <1>7 DEF EvolutionInv, RequestsGo

\* The run of autonomous seals is a number.
LEMMA RunType ==
  ASSUME LogInv
  PROVE  AutonomousRun \in Nat
<1>1. DOMAIN events = 1..Len(events) /\ Len(events) \in Nat
  BY LenProperties DEF LogInv
<1>2. IsFiniteSet(1..Len(events))
  BY <1>1, FS_Interval
<1>3. ASSUME NEW last
      PROVE  Cardinality({k \in DOMAIN events : k > last /\ Counts(events[k])}) \in Nat
  <2>1. {k \in DOMAIN events : k > last /\ Counts(events[k])} \subseteq 1..Len(events)
    BY <1>1
  <2> QED BY <1>2, <2>1, FS_Subset, FS_CardinalityType
<1> QED BY <1>3 DEF AutonomousRun

\* The gate takes a request up, and settles it.
LEMMA EnterGateSteps ==
  ASSUME EvolutionAssumption, EvolutionInv,
         (\E i \in Ids : GateQuorum(i)) \/ AnswerApprove
  PROVE  EvolutionInv'
<1>1. RequestsInv /\ LogInv /\ JobInv /\ OwnerInv /\ VaultInv
  BY DEF EvolutionInv
<1>2. UNCHANGED <<events, seals, sealing, sealLock, store, past, day, autonomous, faults>>
  BY DEF GateQuorum, AnswerApprove
<1>3. \/ UNCHANGED <<requests, job>>
      \/ job.pc = "free" /\ \E i \in Issued, mode \in Modes : EnterGate(i, mode)
  BY <1>1 DEF GateQuorum, AnswerApprove, OwnerInv, VaultInv, LockFree, Modes
<1>4. /\ RequestsGo /\ JobInv'
      /\ job.pc = "event" <=> job'.pc = "event"
  <2>1. CASE UNCHANGED <<requests, job>>
    <3>1. RequestsGo
      BY <1>1, <2>1, RequestsUnchanged
    <3> QED BY <1>1, <1>2, <2>1, <3>1, LogUnchanged, JobUnchanged DEF LogInv
  <2>2. ASSUME NEW i \in Issued, NEW mode \in Modes, EnterGate(i, mode), job.pc = "free"
        PROVE  RequestsGo /\ JobInv' /\ job'.pc # "event"
    <3>1. RequestsGo
      BY <1>1, <2>2, SettledGo DEF EnterGate
    <3>2. i \in Issued' /\ i \in Nat
      BY <1>1, <3>1, IssuedStays DEF Issued, Ids
    <3>3. CASE job' = Free
      BY <1>1, <3>1, <3>3, JobEnds DEF Free
    <3>4. CASE job' = [Free EXCEPT !.pc = "judge", !.id = i, !.mode = mode,
                                   !.run = AutonomousRun, !.now = day]
      <4>1. job' = [pc |-> "judge", id |-> i, mode |-> mode, read |-> NoDigest,
                    run |-> AutonomousRun, now |-> day]
        BY <3>4 DEF Free
      <4>2. day \in Nat /\ AutonomousRun \in Nat
        BY <1>1, RunType DEF VaultInv
      <4> QED BY <3>1, <3>2, <4>1, <4>2 DEF JobInv, AtGate, ContractDigests
    <3> QED BY <2>2, <3>3, <3>4, <3>1 DEF EnterGate
  <2> QED BY <1>3, <2>1, <2>2
<1>5. Issued \subseteq Issued'
  BY <1>1, <1>4, IssuedStays
<1>6. LogInv'
  BY <1>1, <1>2, <1>4, LogUnchanged
<1>7. OwnerInv'
  <2>1. prompt' = prompt \/ prompt' = NoPrompt
    BY DEF GateQuorum, AnswerApprove
  <2>2. NoPrompt \in [pc : {"none", "reading", "shown"}, id : Nat, shown : ContractDigests]
        /\ NoPrompt.pc = "none"
    BY DEF NoPrompt, ContractDigests
  <2> QED BY <1>1, <1>2, <1>4, <1>5, <2>1, <2>2 DEF OwnerInv, NotSealing
<1>8. VaultInv'
  <2>1. due' \subseteq due
    BY DEF GateQuorum, AnswerApprove
  <2> QED BY <1>1, <1>2, <1>5, <2>1 DEF VaultInv
<1> QED BY <1>4, <1>6, <1>7, <1>8 DEF EvolutionInv, RequestsGo

\* The candidate is judged against the linked contract, which is its request's parent: what
\* goes on to an autonomous seal is backed.
LEMMA JudgeStep ==
  ASSUME EvolutionAssumption, EvolutionInv, JudgeCandidate
  PROVE  EvolutionInv'
<1>1. RequestsInv /\ LogInv /\ JobInv /\ OwnerInv /\ VaultInv
  BY DEF EvolutionInv
<1> DEFINE r == requests[job.id]
<1>2. /\ UNCHANGED <<events, seals, prompt, sealing, sealLock, store, past, day, autonomous,
                     due, faults>>
      /\ job.pc = "judge"
  BY DEF JudgeCandidate
<1>3. job.id \in Issued /\ job.mode \in Modes /\ job.now \in Nat /\ r \in RequestStates
  BY <1>1, <1>2 DEF JobInv, AtGate, RequestsInv, Issued
<1>4. RequestsGo /\ JobInv' /\ job'.pc # "event"
  <2>1. CASE UNCHANGED requests /\ job' = Free
    BY <1>1, <2>1, RequestsUnchanged, JobEnds DEF Free
  <2>2. ASSUME NEW state \in States, requests' = [requests EXCEPT ![job.id].state = state],
               job' = Free
        PROVE  RequestsGo /\ JobInv' /\ job'.pc # "event"
    BY <1>1, <1>3, <2>2, StateChanges, JobEnds DEF Free
  <2>3. CASE /\ store.linked = r.parent
             /\ job.mode = "autonomous" => MaySealAutonomously(r)
             /\ requests' = [requests EXCEPT ![job.id].attempt =
                               [mode |-> job.mode, at |-> job.now]]
             /\ job' = [job EXCEPT !.pc = "seal"]
    <3>1. RequestsGo
      BY <1>1, <1>3, <2>3, AttemptGo
    <3>2. job.mode = "autonomous" => Backed(r)
      BY <1>3, <2>3 DEF MaySealAutonomously, NeedsOwner, AutonomyIsOn, Backed, RequestStates
    <3>3. job.mode = "autonomous" => Backed(requests'[job.id])
      BY <1>3, <3>1, <3>2, BackedStays DEF RequestsGo
    <3>4. job.id \in Issued'
      BY <1>1, <1>3, <3>1, IssuedStays
    <3> QED BY <1>1, <1>3, <2>3, <3>1, <3>3, <3>4 DEF JobInv, AtGate
  <2>4. "awaiting-human" \in States /\ "rejected" \in States
    BY DEF States, Terminal
  <2> QED BY <2>1, <2>2, <2>3, <2>4 DEF JudgeCandidate
<1>5. LogInv' /\ OwnerInv' /\ VaultInv'
  BY <1>1, <1>2, <1>4, LogUnchanged, OwnerUnchanged, VaultUnchanged
<1> QED BY <1>4, <1>5 DEF EvolutionInv, RequestsGo

\* The seal compares the linked contract with the request's parent once more, so what a
\* backed request replaces is the contract it was judged against.
LEMMA SealStep ==
  ASSUME EvolutionAssumption, EvolutionInv, SealCandidate
  PROVE  EvolutionInv'
<1>1. RequestsInv /\ LogInv /\ JobInv /\ OwnerInv /\ VaultInv
  BY DEF EvolutionInv
<1> DEFINE r == requests[job.id]
<1>2. /\ UNCHANGED <<requests, prompt, sealing, past, day, autonomous, due, faults>>
      /\ job.pc = "seal"
  BY DEF SealCandidate
<1>3. RequestsGo /\ Issued' = Issued
  BY <1>1, <1>2, RequestsUnchanged DEF Issued
<1>4. /\ job.id \in Issued /\ job.mode \in Modes /\ r \in RequestStates
      /\ r.candidate \in Digests /\ job.id \in Nat
  BY <1>1, <1>2 DEF JobInv, AtGate, RequestsInv, Issued, WellBound
<1>5. CASE UNCHANGED <<store, sealLock, events, seals>> /\ job' = Free
  <2>1. LogInv' /\ JobInv' /\ job'.pc # "event"
    BY <1>1, <1>3, <1>5, LogUnchanged, JobEnds DEF Free
  <2>2. OwnerInv' /\ VaultInv'
    BY <1>1, <1>2, <1>3, <1>5, <2>1, OwnerUnchanged, VaultUnchanged
  <2> QED BY <1>3, <2>1, <2>2 DEF EvolutionInv, RequestsGo
<1>6. CASE ~(UNCHANGED <<store, sealLock, events, seals>> /\ job' = Free)
  <2> DEFINE x == [request |-> job.id, mode |-> job.mode, at |-> day,
                   replaced |-> store.linked, digest |-> r.candidate,
                   place |-> Len(events') + 1]
  <2>1. /\ sealLock = "free" /\ ParentHolds /\ sealLock' = "gate"
        /\ events' = events \o Anchors
        /\ Swap(r.candidate)
        /\ seals' = Append(seals, x)
        /\ job' = [job EXCEPT !.pc = "event"]
    BY <1>6 DEF SealCandidate
  <2>6. /\ events' \in Seq(EventStates)
        /\ \A k \in DOMAIN events' : events'[k].request \in {0} \cup Issued
    BY <1>1, <2>1, AnchorsType, EventsGo
  <2>2. x \in SealStates
    <3>1. Len(events') \in Nat
      BY <2>6, LenProperties
    <3> QED BY <1>1, <1>4, <3>1 DEF SealStates, VaultInv, ContractDigests
  <2>3. store.linked = r.parent
    BY <2>1 DEF ParentHolds
  <2>4. job.mode = "autonomous" => Backed(r)
    BY <1>1, <1>2 DEF JobInv
  <2>5. SealIsBacked(x)
    BY <1>4, <2>2, <2>3, <2>4 DEF SealIsBacked
  <2> HIDE DEF x
  <2>7. LogInv'
    BY <1>1, <1>3, <2>1, <2>5, <2>6, LogGoes
  <2>8. JobInv'
    BY <1>1, <1>3, <1>4, <2>1 DEF JobInv, AtGate
  <2>9. OwnerInv'
    BY <1>1, <1>2, <1>3, <2>1 DEF OwnerInv, NotSealing, JobInv
  <2>10. VaultInv'
    BY <1>1, <1>2, <1>3, <1>4, <2>1 DEF VaultInv, Swap, ContractDigests
  <2> QED BY <1>3, <2>7, <2>8, <2>9, <2>10 DEF EvolutionInv, RequestsGo
<1> QED BY <1>5, <1>6

\* The event of the gate's seal, and the request's end.
LEMMA RecordSteps ==
  ASSUME EvolutionAssumption, EvolutionInv, RecordCandidate \/ CloseRequest
  PROVE  EvolutionInv'
<1>1. RequestsInv /\ LogInv /\ JobInv /\ OwnerInv /\ VaultInv
  BY DEF EvolutionInv
<1> DEFINE r == requests[job.id]
<1>2. /\ UNCHANGED <<store, past, day, autonomous, due, prompt, sealing, seals, faults>>
      /\ job.pc \in {"event", "settle"}
  BY DEF RecordCandidate, CloseRequest
<1>3. job.id \in Issued /\ job.mode \in Modes /\ r \in RequestStates /\ job.id \in Nat
  BY <1>1, <1>2 DEF JobInv, AtGate, RequestsInv, Issued
<1>4. CASE RecordCandidate
  <2> DEFINE e == Attributed(SealedEvent(r.parent, r.candidate), job.id, job.mode)
  <2>1. /\ events' = Append(events, e) /\ sealLock' = "free" /\ job.pc = "event"
        /\ job' = [job EXCEPT !.pc = "settle"] /\ requests' = requests
    BY <1>4 DEF RecordCandidate
  <2>2. e \in EventStates /\ e.request = job.id
    BY <1>3 DEF EventStates, Attributed, SealedEvent, RequestStates, Reasons, ContractDigests
  <2>3. RequestsGo /\ Issued' = Issued
    BY <1>1, <2>1, RequestsUnchanged DEF Issued
  <2> HIDE DEF e
  <2>4. LogInv'
    BY <1>1, <1>2, <1>3, <2>1, <2>2, <2>3, EventAdded, LogGoes
  <2>5. JobInv' /\ OwnerInv' /\ VaultInv'
    BY <1>1, <1>2, <1>3, <2>1, <2>3 DEF JobInv, AtGate, OwnerInv, NotSealing, VaultInv
  <2> QED BY <2>3, <2>4, <2>5 DEF EvolutionInv, RequestsGo
<1>5. CASE CloseRequest
  <2>1. /\ requests' = [requests EXCEPT ![job.id].state = "sealed"] /\ job' = Free
        /\ UNCHANGED <<events, sealLock>> /\ job.pc = "settle"
    BY <1>5 DEF CloseRequest
  <2>2. RequestsGo
    BY <1>1, <1>3, <2>1, StateChanges DEF States, Terminal
  <2>3. JobInv' /\ job'.pc # "event"
    BY <1>1, <2>1, JobEnds DEF Free
  <2>4. LogInv' /\ OwnerInv' /\ VaultInv'
    BY <1>1, <1>2, <2>1, <2>2, <2>3, LogUnchanged, OwnerUnchanged, VaultUnchanged
  <2> QED BY <2>2, <2>3, <2>4 DEF EvolutionInv, RequestsGo
<1> QED BY <1>4, <1>5

\* The owner's seals and lineage-recover: requests and the gate are left alone.
LEMMA OwnerSteps ==
  ASSUME EvolutionAssumption, NoDigestAssumption, EvolutionInv,
         OwnerSeals \/ OwnerRecords \/ RecoverLineage
  PROVE  EvolutionInv'
<1>1. RequestsInv /\ LogInv /\ JobInv /\ OwnerInv /\ VaultInv
  BY DEF EvolutionInv
<1>2. UNCHANGED <<requests, past, day, autonomous, job, due, prompt, faults>>
  BY DEF OwnerSeals, OwnerRecords, RecoverLineage
<1>3. RequestsGo /\ Issued' = Issued
  BY <1>1, <1>2, RequestsUnchanged DEF Issued
<1>4. CASE OwnerSeals
  <2>1. PICK d \in Digests :
          /\ Swap(d)
          /\ sealing' = [parent |-> store.linked, digest |-> d]
          /\ seals' = Append(seals, [request |-> 0, mode |-> "human", at |-> day,
                                     replaced |-> store.linked, digest |-> d,
                                     place |-> Len(events') + 1])
    BY <1>4 DEF OwnerSeals
  <2> DEFINE x == [request |-> 0, mode |-> "human", at |-> day,
                   replaced |-> store.linked, digest |-> d, place |-> Len(events') + 1]
  <2>3. /\ events' \in Seq(EventStates)
        /\ \A k \in DOMAIN events' : events'[k].request \in {0} \cup Issued
        /\ Len(events') >= Len(events)
    BY <1>1, <1>4, AnchorsType, EventsGo DEF OwnerSeals
  <2>2. SealIsBacked(x)
    <3>1. Len(events') \in Nat
      BY <2>3, LenProperties
    <3> QED BY <1>1, <3>1 DEF SealIsBacked, SealStates, Modes, VaultInv, ContractDigests
  <2>4. seals' = Append(seals, x)
    BY <2>1
  <2> HIDE DEF x
  <2>5. LogInv' /\ JobInv'
    BY <1>1, <1>2, <1>3, <2>2, <2>3, <2>4, LogGoes, JobUnchanged
  <2>6. sealing' # NotSealing /\ sealing' \in [parent : ContractDigests, digest : ContractDigests]
    BY <1>1, <2>1 DEF NotSealing, VaultInv, ContractDigests, NoDigestAssumption
  <2>7. OwnerInv'
    BY <1>1, <1>2, <1>3, <1>4, <2>6 DEF OwnerInv, OwnerSeals, NotSealing
  <2>8. VaultInv'
    BY <1>1, <1>2, <1>3, <2>1 DEF VaultInv, Swap, ContractDigests
  <2> QED BY <1>3, <2>5, <2>7, <2>8 DEF EvolutionInv, RequestsGo
<1>5. CASE OwnerRecords
  <2> DEFINE e == Attributed(SealedEvent(sealing.parent, sealing.digest), 0, "human")
  <2>1. /\ events' = Append(events, e) /\ sealLock = "owner" /\ sealLock' = "free"
        /\ sealing' = NotSealing /\ UNCHANGED <<store, seals>>
    BY <1>5 DEF OwnerRecords
  <2>2. e \in EventStates /\ e.request = 0
    BY <1>1 DEF EventStates, Attributed, SealedEvent, Reasons, ContractDigests, Modes, OwnerInv
  <2> HIDE DEF e
  <2>3. /\ events' \in Seq(EventStates)
        /\ \A k \in DOMAIN events' : events'[k].request \in {0} \cup Issued
        /\ Len(events') >= Len(events)
    BY <1>1, <2>1, <2>2, EventAdded
  <2>4. LogInv' /\ JobInv'
    BY <1>1, <1>2, <1>3, <2>1, <2>3, LogGoes, JobUnchanged
  <2>5. OwnerInv' /\ VaultInv'
    BY <1>1, <1>2, <1>3, <2>1 DEF OwnerInv, NotSealing, VaultInv, ContractDigests
  <2> QED BY <1>3, <2>4, <2>5 DEF EvolutionInv, RequestsGo
<1>6. CASE RecoverLineage
  <2>1. UNCHANGED <<store, sealLock, sealing, seals>>
    BY <1>6 DEF RecoverLineage
  <2>2. /\ events' \in Seq(EventStates)
        /\ \A k \in DOMAIN events' : events'[k].request \in {0} \cup Issued
        /\ Len(events') >= Len(events)
    BY <1>1, <1>6, AnchorsType, EventsGo DEF RecoverLineage
  <2>3. LogInv' /\ JobInv'
    BY <1>1, <1>2, <1>3, <2>1, <2>2, LogGoes, JobUnchanged
  <2>4. OwnerInv' /\ VaultInv'
    BY <1>1, <1>2, <1>3, <2>1 DEF OwnerInv, NotSealing, VaultInv
  <2> QED BY <1>3, <2>3, <2>4 DEF EvolutionInv, RequestsGo
<1> QED BY <1>4, <1>5, <1>6

\* Time, reclaims and faults: an operation ends and leaves the requests as they are.
LEMMA OtherSteps ==
  ASSUME EvolutionAssumption, NoDigestAssumption, EvolutionInv,
         \/ ReclaimEvolutionLock \/ Lapse \/ NextDay
         \/ CrashJob \/ FailJob \/ OwnerSealStops \/ CrashCaller
         \/ UNCHANGED vars
  PROVE  EvolutionInv'
<1>1. RequestsInv /\ LogInv /\ JobInv /\ OwnerInv /\ VaultInv
  BY DEF EvolutionInv
<1>2. UNCHANGED <<store, events, requests, autonomous, prompt, seals>>
  BY DEF ReclaimEvolutionLock, Lapse, NextDay, CrashJob, FailJob, OwnerSealStops, CrashCaller, vars
<1>3. RequestsGo /\ Issued' = Issued
  BY <1>1, <1>2, RequestsUnchanged DEF Issued
<1>4. LogInv' /\ Len(events') >= Len(events)
  BY <1>1, <1>2, <1>3, LogUnchanged
<1>5. JobInv'
  <2>1. job' = job \/ job' = Free \/ job' = [Free EXCEPT !.pc = "dead"]
    BY DEF ReclaimEvolutionLock, Lapse, NextDay, CrashJob, FailJob, OwnerSealStops, CrashCaller,
           vars
  <2> QED BY <1>1, <1>3, <1>4, <2>1, JobUnchanged, JobEnds DEF LogInv
<1>6. OwnerInv'
  <2>1. CASE UNCHANGED <<sealLock, sealing, job>>
    BY <1>1, <1>2, <1>3, <2>1 DEF OwnerInv, NotSealing
  <2>2. CASE ReclaimEvolutionLock
    BY <1>1, <1>2, <1>3, <2>2 DEF ReclaimEvolutionLock, OwnerInv, NotSealing, Free
  <2>3. CASE CrashJob \/ FailJob
    <3>1. /\ sealing' = sealing /\ job'.pc # "event"
          /\ \/ sealLock = "gate" /\ sealLock' \in {"stale", "free"}
             \/ sealLock # "gate" /\ sealLock' = sealLock
      BY <2>3 DEF CrashJob, FailJob, Free
    <3> QED BY <1>1, <1>2, <1>3, <3>1 DEF OwnerInv, NotSealing
  <2>4. CASE OwnerSealStops
    BY <1>1, <1>2, <1>3, <2>4 DEF OwnerSealStops, OwnerInv, NotSealing, ContractDigests
  <2> QED BY <2>1, <2>2, <2>3, <2>4 DEF Lapse, NextDay, CrashCaller, vars
<1>7. VaultInv'
  <2>1. past' \subseteq Ids /\ due' \subseteq due
    BY <1>1 DEF VaultInv, Issued, ReclaimEvolutionLock, Lapse, NextDay, CrashJob, FailJob,
                OwnerSealStops, CrashCaller, vars
  <2>2. day' \in Nat /\ faults' \in Nat
    BY <1>1 DEF VaultInv, Spend, ReclaimEvolutionLock, Lapse, NextDay, CrashJob, FailJob,
                OwnerSealStops, CrashCaller, vars
  <2> QED BY <1>1, <1>2, <1>3, <2>1, <2>2 DEF VaultInv
<1> QED BY <1>3, <1>4, <1>5, <1>6, <1>7 DEF EvolutionInv, RequestsGo

LEMMA EvolutionInvStep ==
  ASSUME EvolutionAssumption, NoDigestAssumption, EvolutionInv, [Next]_vars
  PROVE  EvolutionInv'
  BY IssueSteps, AnswerSteps, EnterGateSteps, JudgeStep, SealStep, RecordSteps, OwnerSteps,
     OtherSteps DEF Next, JobStep

LEMMA EvolutionInvInit ==
  ASSUME EvolutionAssumption, NoDigestAssumption, Init
  PROVE  EvolutionInv
<1>1. MaxRequests \in Nat /\ First \in Digests
  BY DEF EvolutionAssumption
<1>2. NoRequest \in RequestStates /\ NoRequest.state = "absent"
  BY EmptySeq DEF NoRequest, RequestStates, NoAttempt, ContractDigests
<1>3. RequestsInv
  <2>1. CASE requests = [i \in Ids |-> NoRequest]
    <3>1. Issued = {} /\ 1..0 = {}
      BY <1>2, <2>1 DEF Issued
    <3> QED BY <1>1, <1>2, <2>1, <3>1 DEF RequestsInv
  <2>2. ASSUME 1 \in Ids, NEW d \in Digests,
               requests = [[i \in Ids |-> NoRequest] EXCEPT
                 ![1] = [NoRequest EXCEPT !.state = "open", !.base = First, !.parentSeq = 1,
                                          !.parent = First, !.candidate = d]]
        PROVE  RequestsInv
    <3> DEFINE r == [NoRequest EXCEPT !.state = "open", !.base = First, !.parentSeq = 1,
                                      !.parent = First, !.candidate = d]
    <3>1. r \in RequestStates
      BY <1>1, <1>2 DEF RequestStates, States, ContractDigests
    <3>2. r.state = "open" /\ WellBound(r)
      BY <1>1 DEF NoRequest, WellBound
    <3> HIDE DEF r
    <3>3. \A i \in Ids : requests[i] = IF i = 1 THEN r ELSE NoRequest
      BY <2>2 DEF r
    <3>4. requests \in [Ids -> RequestStates]
      BY <1>2, <2>2, <3>1 DEF r
    <3>5. Issued = {1} /\ 1..1 = {1} /\ 1 \in 0..MaxRequests
      BY <1>1, <1>2, <2>2, <3>2, <3>3 DEF Issued, Ids
    <3> QED BY <2>2, <3>2, <3>3, <3>4, <3>5 DEF RequestsInv
  <2> QED BY <2>1, <2>2 DEF Init
<1>4. LogInv
  <2> DEFINE e == Attributed(SealedEvent(NoDigest, First), 0, "human")
  <2>1. e \in EventStates /\ e.request = 0
    BY <1>1 DEF EventStates, Attributed, SealedEvent, Reasons, ContractDigests, Modes
  <2>2. events = <<e>> /\ seals = <<>>
    BY DEF Init
  <2> HIDE DEF e
  <2>3. events \in Seq(EventStates) /\ \A k \in DOMAIN events : events[k] = e
    BY <2>1, <2>2
  <2>4. seals \in Seq(SealStates) /\ DOMAIN seals = {}
    BY <2>2, EmptySeq
  <2> QED BY <2>1, <2>3, <2>4 DEF LogInv, AutonomousSeals
<1>5. JobInv /\ OwnerInv /\ VaultInv
  BY <1>1 DEF Init, JobInv, AtGate, Free, OwnerInv, NoPrompt, NotSealing, VaultInv, ContractDigests
<1> QED BY <1>3, <1>4, <1>5 DEF EvolutionInv

-----------------------------------------------------------------------------
(* The theorems *)

THEOREM EvolutionInvariant == Spec => []EvolutionInv
<1>1. Init => EvolutionInv
  BY EvolutionAssumption, NoDigestAssumption, EvolutionInvInit
<1>2. EvolutionInv /\ [Next]_vars => EvolutionInv'
  BY EvolutionAssumption, NoDigestAssumption, EvolutionInvStep
<1> QED BY <1>1, <1>2, PTL DEF Spec

\* The variables have their types, and a lock is held exactly while its holder seals.
THEOREM EvolutionTypes == Spec => []TypeOK
<1>1. EvolutionInv => TypeOK
  BY DEF EvolutionInv, RequestsInv, RequestStates, LogInv, JobInv, AtGate, OwnerInv, VaultInv, TypeOK
<1> QED BY <1>1, EvolutionInvariant, PTL

\* "A loosening candidate never seals autonomously" (stage-consensus.ts:27).
THEOREM NothingLoosensAlone == Spec => []NeverLoosensAlone
<1>1. EvolutionInv => NeverLoosensAlone
  BY DEF EvolutionInv, LogInv, Backed, NeverLoosensAlone
<1> QED BY <1>1, EvolutionInvariant, PTL

\* As many distinct sessions approve as there are approving verdicts.
LEMMA ApprovalsAreSessions ==
  ASSUME NEW r \in RequestStates, WellBound(r)
  PROVE  Cardinality({v.session : v \in {w \in {r.verdicts[n] : n \in DOMAIN r.verdicts} :
                                            w.approves}} \ {r.maker})
         = Approvals(r.verdicts)
<1> DEFINE K == {k \in DOMAIN r.verdicts : r.verdicts[k].approves}
           T == {v.session : v \in {w \in {r.verdicts[n] : n \in DOMAIN r.verdicts} :
                                      w.approves}} \ {r.maker}
           f == [k \in K |-> r.verdicts[k].session]
<1>1. DOMAIN r.verdicts = 1..Len(r.verdicts) /\ Len(r.verdicts) \in Nat
  BY LenProperties DEF RequestStates
<1>2. IsFiniteSet(K)
  <2>1. IsFiniteSet(DOMAIN r.verdicts) /\ K \subseteq DOMAIN r.verdicts
    BY <1>1, FS_Interval
  <2> QED BY <2>1, FS_Subset
<1>3. \A k \in K : r.verdicts[k].session \in T
  BY DEF WellBound
<1>4. \A s \in T : \E k \in K : s = r.verdicts[k].session
  OBVIOUS
<1>5. \A k, n \in K : r.verdicts[k].session = r.verdicts[n].session => k = n
  BY DEF WellBound
<1> HIDE DEF K, T
<1>6. f \in Bijection(K, T)
  <2>1. f \in [K -> T] /\ \A k \in K : f[k] = r.verdicts[k].session
    BY <1>3
  <2> HIDE DEF f
  <2> QED BY <1>4, <1>5, <2>1 DEF Bijection, Injection, Surjection, IsInjective
<1>7. Cardinality(T) = Cardinality(K)
  BY <1>2, <1>6, FS_Bijection DEF ExistsBijection
<1> QED BY <1>7 DEF K, T, Approvals

\* "All 3 bound verdicts arrived and 2 of 3 approve" (seal-gate.ts:42).
THEOREM QuorumBehindSeals == Spec => []QuorumBehindEverySeal
<1>1. EvolutionInv => QuorumBehindEverySeal
  <2> SUFFICES ASSUME EvolutionInv, NEW k \in AutonomousSeals
               PROVE  LET r == requests[seals[k].request]
                          approving == {v \in {r.verdicts[n] : n \in DOMAIN r.verdicts} :
                                          v.approves}
                      IN  /\ r.maker \in Sessions
                          /\ Cardinality({v.session : v \in approving} \ {r.maker}) >= Majority
    BY DEF QuorumBehindEverySeal
  <2> DEFINE r == requests[seals[k].request]
  <2>1. r \in RequestStates /\ WellBound(r) /\ Backed(r)
    BY DEF EvolutionInv, LogInv, RequestsInv, Issued
  <2>2. r.maker \in Sessions
    BY <2>1 DEF RequestStates, WellBound, Backed
  <2>3. Approvals(r.verdicts) >= Majority
    BY <2>1 DEF Backed, QuorumApproves
  <2> HIDE DEF r
  <2>4. Cardinality({v.session : v \in {w \in {r.verdicts[n] : n \in DOMAIN r.verdicts} :
                                          w.approves}} \ {r.maker}) >= Majority
    BY <2>1, <2>3, ApprovalsAreSessions
  <2> QED BY <2>2, <2>4 DEF r
<1> QED BY <1>1, EvolutionInvariant, PTL

-----------------------------------------------------------------------------
(* The state of a request under the gate *)

\* Between entering the gate and its swap the request stays in the state its mode wants:
\* whoever would close it waits for the evolution lock.
GateInv == job.pc \in {"judge", "seal"} => requests[job.id].state = Wanted(job.mode)

LEMMA GateInvStep ==
  ASSUME EvolutionInv, GateInv, [Next]_vars
  PROVE  GateInv'
<1>1. CASE UNCHANGED <<requests, job>>
  BY <1>1 DEF GateInv, Wanted
<1>2. CASE job'.pc \notin {"judge", "seal"}
  BY <1>2 DEF GateInv
<1>3. ASSUME NEW i \in Issued, NEW mode \in Modes, EnterGate(i, mode)
      PROVE  GateInv'
  <2>1. CASE job' = Free
    BY <2>1 DEF Free, GateInv
  <2>2. CASE job' # Free
    <3>1. EffectiveState(i) = Wanted(mode) /\ requests' = Settled(i)
          /\ job'.id = i /\ job'.mode = mode
      BY <1>3, <2>2 DEF EnterGate, Free
    <3>2. requests'[i].state = EffectiveState(i)
      BY <3>1 DEF Settled, EvolutionInv, RequestsInv, RequestStates, Issued
    <3> QED BY <3>1, <3>2 DEF GateInv, Wanted
  <2> QED BY <2>1, <2>2
<1>4. ASSUME NEW i \in Ids, NEW session \in Sessions, NEW approves \in BOOLEAN,
             AcceptVerdict(i, session, approves)
      PROVE  job'.pc \notin {"judge", "seal"}
  BY <1>4 DEF AcceptVerdict
<1>5. ASSUME NEW explicit \in BOOLEAN, AnswerReject(explicit)
      PROVE  UNCHANGED <<requests, job>> \/ job'.pc \notin {"judge", "seal"}
  BY <1>5 DEF AnswerReject
<1>6. ASSUME (\E i \in Ids : GateQuorum(i)) \/ AnswerApprove
      PROVE  \/ UNCHANGED <<requests, job>>
             \/ \E i \in Issued, mode \in Modes : EnterGate(i, mode)
  BY <1>6 DEF GateQuorum, AnswerApprove, EvolutionInv, OwnerInv, VaultInv, Modes
<1>7. CASE JudgeCandidate
  <2>1. CASE job' = Free
    BY <2>1 DEF Free, GateInv
  <2>2. CASE job' # Free
    <3>1. /\ job.pc = "judge" /\ job'.id = job.id /\ job'.mode = job.mode
          /\ requests' = [requests EXCEPT ![job.id].attempt =
                            [mode |-> job.mode, at |-> job.now]]
      BY <1>7, <2>2 DEF JudgeCandidate, EvolutionInv, JobInv
    <3>2. requests'[job.id].state = requests[job.id].state
      BY <3>1 DEF EvolutionInv, RequestsInv, RequestStates
    <3> QED BY <3>1, <3>2 DEF GateInv, Wanted
  <2> QED BY <2>1, <2>2
<1>8. CASE \/ StartEvolve \/ IssueEvolve \/ StartRevert \/ IssueRevert
           \/ SealCandidate \/ RecordCandidate \/ CloseRequest
  <2>1. \/ job' \in {Free, [Free EXCEPT !.pc = "evolve", !.read = store.linked],
                     [Free EXCEPT !.pc = "revert", !.read = TailDigest(events),
                                  !.run = Len(events)]}
        \/ job' \in {[job EXCEPT !.pc = "event"], [job EXCEPT !.pc = "settle"]}
    BY <1>8 DEF StartEvolve, IssueEvolve, StartRevert, IssueRevert, SealCandidate,
                RecordCandidate, CloseRequest
  <2>2. job'.pc \notin {"judge", "seal"}
    <3>1. Free.pc = "free" /\ [Free EXCEPT !.pc = "evolve", !.read = store.linked].pc = "evolve"
          /\ [Free EXCEPT !.pc = "revert", !.read = TailDigest(events), !.run = Len(events)].pc
             = "revert"
      BY DEF Free
    <3>2. [job EXCEPT !.pc = "event"].pc = "event" /\ [job EXCEPT !.pc = "settle"].pc = "settle"
      BY DEF EvolutionInv, JobInv
    <3> QED BY <2>1, <3>1, <3>2
  <2> QED BY <1>2, <2>2
<1>9. CASE \/ \E i \in Ids : OpenPrompt(i)
           \/ ShowPrompt \/ SetAutonomy \/ OwnerSeals \/ OwnerRecords \/ RecoverLineage
           \/ ReclaimEvolutionLock \/ Lapse \/ NextDay
           \/ CrashJob \/ FailJob \/ OwnerSealStops \/ CrashCaller
  <2>1. UNCHANGED <<requests, job>> \/ job'.pc \notin {"judge", "seal"}
    BY <1>9 DEF OpenPrompt, ShowPrompt, SetAutonomy, OwnerSeals, OwnerRecords, RecoverLineage,
                ReclaimEvolutionLock, Lapse, NextDay, CrashJob, FailJob, OwnerSealStops,
                CrashCaller, Free
  <2> QED BY <1>1, <1>2, <2>1
<1> QED BY <1>1, <1>2, <1>3, <1>4, <1>5, <1>6, <1>7, <1>8, <1>9 DEF Next, JobStep, vars

\* The request under the gate keeps its state until it is sealed.
THEOREM GateInvariant == Spec => []GateInv
<1>1. Init => GateInv
  <2>1. Init => job = Free
    BY DEF Init
  <2> QED BY <2>1 DEF GateInv, Free
<1>2. EvolutionInv /\ GateInv /\ [Next]_vars => GateInv'
  BY GateInvStep
<1> QED BY <1>1, <1>2, EvolutionInvariant, PTL DEF Spec

\* "Only a human rejects a request for good" (seal-gate.ts:50): what the gate swaps in is
\* open, or awaits the owner who has approved it.
THEOREM ClosedStaysUnsealed == Spec => ClosedIsNeverSealed
<1>1. EvolutionInv /\ GateInv /\ [Next]_vars
      => [Len(seals') > Len(seals) =>
            LET i == seals'[Len(seals')].request
            IN  i # 0 => requests[i].state = Wanted(job.mode)]_vars
  <2> SUFFICES ASSUME EvolutionInv, GateInv, [Next]_vars, Len(seals') > Len(seals)
               PROVE  LET i == seals'[Len(seals')].request
                      IN  i # 0 => requests[i].state = Wanted(job.mode)
    OBVIOUS
  <2>1. seals \in Seq(SealStates) /\ Len(seals) \in Nat
    BY LenProperties DEF EvolutionInv, LogInv
  <2>2. seals' # seals
    BY <2>1
  <2>3. SealCandidate \/ OwnerSeals
    BY <2>2 DEF Next, JobStep, vars, StartEvolve, StartRevert, IssueEvolve, IssueRevert, JudgeCandidate,
                RecordCandidate, CloseRequest, AcceptVerdict, GateQuorum, OpenPrompt, ShowPrompt,
                AnswerApprove, AnswerReject, SetAutonomy, OwnerRecords, RecoverLineage,
                ReclaimEvolutionLock, Lapse, NextDay, CrashJob, FailJob, OwnerSealStops, CrashCaller
  <2>4. ASSUME NEW x, seals' = Append(seals, x)
        PROVE  seals'[Len(seals')] = x
    BY <2>1, <2>4
  <2>5. CASE SealCandidate
    <3>1. job.pc = "seal" /\ \E x : x.request = job.id /\ seals' = Append(seals, x)
      BY <2>2, <2>5 DEF SealCandidate
    <3> QED BY <2>4, <3>1 DEF GateInv
  <2>6. CASE OwnerSeals
    <3>1. \E x : x.request = 0 /\ seals' = Append(seals, x)
      BY <2>6 DEF OwnerSeals
    <3> QED BY <2>4, <3>1
  <2> QED BY <2>3, <2>5, <2>6
<1> QED BY <1>1, EvolutionInvariant, GateInvariant, PTL DEF Spec, ClosedIsNeverSealed

-----------------------------------------------------------------------------
(* What a step does to a request *)

\* The seal of the request stands in the lineage.
SealStands(i) ==
  LET next == requests[i].parentSeq + 1 IN
  SealedByRequest(i) \/ (next \in DOMAIN events /\ SealedThis(i, events[next]))

\* How the requests can change: one gets a state, a verdict or an attempt, or one is issued.
StateSet(j, s) ==
  /\ requests' = [requests EXCEPT ![j].state = s]
  /\ \/ s = EffectiveState(j)
     \/ EffectiveState(j) = "awaiting-human" /\ s = "rejected"
     \/ j = job.id /\ CloseRequest /\ s = "sealed"
     \/ j = job.id /\ JudgeCandidate /\ s \in {"awaiting-human", "rejected"}

AttemptSet ==
  /\ JudgeCandidate /\ store.linked = requests[job.id].parent
  /\ job.mode = "autonomous" => MaySealAutonomously(requests[job.id])
  /\ requests' = [requests EXCEPT ![job.id].attempt = [mode |-> job.mode, at |-> job.now]]
  /\ job' = [job EXCEPT !.pc = "seal"]

LEMMA RequestForms ==
  ASSUME EvolutionInv, [Next]_vars
  PROVE  \/ UNCHANGED requests
         \/ \E j \in Issued : \E s \in States : StateSet(j, s)
         \/ \E j \in Issued : \E v :
              /\ requests' = [Settled(j) EXCEPT ![j].verdicts = Append(@, v)]
              /\ Len(requests[j].verdicts) < Quorum
         \/ AttemptSet /\ job.id \in Issued
         \/ /\ IssueEvolve \/ IssueRevert
            /\ \E r : /\ requests' = [requests EXCEPT ![Cardinality(Issued) + 1] = r]
                      /\ r.parentSeq <= Len(events) /\ r.attempt = NoAttempt
                      /\ \/ job.pc = "evolve" /\ r.candidate # job.read
                         \/ r.candidate # store.linked
<1>0. RequestsInv /\ JobInv /\ OwnerInv /\ VaultInv
  BY DEF EvolutionInv
<1>1. ASSUME NEW j \in Issued, requests' = Settled(j)
      PROVE  \E s \in States : StateSet(j, s)
  <2>1. EffectiveState(j) \in States
    BY <1>0, EffectiveStateType
  <2> QED BY <1>1, <2>1 DEF StateSet, Settled
<1>2. ASSUME NEW i \in Ids, NEW session \in Sessions, NEW approves \in BOOLEAN,
             AcceptVerdict(i, session, approves)
      PROVE  \/ requests' = Settled(i)
             \/ \E v : /\ requests' = [Settled(i) EXCEPT ![i].verdicts = Append(@, v)]
                       /\ Len(requests[i].verdicts) < Quorum
  BY <1>2 DEF AcceptVerdict, Binds
<1>3. ASSUME (\E i \in Ids : GateQuorum(i)) \/ AnswerApprove
      PROVE  UNCHANGED requests \/ \E j \in Issued : requests' = Settled(j)
  BY <1>0, <1>3 DEF GateQuorum, AnswerApprove, EnterGate, OwnerInv, VaultInv
<1>4. ASSUME NEW explicit \in BOOLEAN, AnswerReject(explicit)
      PROVE  \/ UNCHANGED requests
             \/ \E j \in Issued : requests' = Settled(j)
             \/ \E j \in Issued : StateSet(j, "rejected")
  <2>1. prompt.id \in Issued
    BY <1>0, <1>4 DEF AnswerReject, OwnerInv
  <2> QED BY <1>4, <2>1 DEF AnswerReject, StateSet
<1>5. CASE JudgeCandidate
  <2>1. job.id \in Issued
    BY <1>0, <1>5 DEF JudgeCandidate, JobInv, AtGate
  <2>2. \/ UNCHANGED requests \/ AttemptSet
        \/ \E s \in {"awaiting-human", "rejected"} :
             requests' = [requests EXCEPT ![job.id].state = s]
    BY <1>5 DEF JudgeCandidate, AttemptSet
  <2>3. "awaiting-human" \in States /\ "rejected" \in States
    BY DEF States, Terminal
  <2> QED BY <1>5, <2>1, <2>2, <2>3 DEF StateSet
<1>6. CASE CloseRequest
  <2>1. job.id \in Issued /\ "sealed" \in States
    BY <1>0, <1>6 DEF CloseRequest, JobInv, AtGate, States, Terminal
  <2>2. StateSet(job.id, "sealed")
    BY <1>6 DEF CloseRequest, StateSet
  <2> QED BY <2>1, <2>2
<1>7. CASE IssueEvolve \/ IssueRevert
  <2>1. Len(events) \in Nat /\ (job.pc = "revert" => job.run <= Len(events))
    BY <1>0, LenProperties DEF EvolutionInv, LogInv, JobInv
  <2>2. ASSUME NEW kind, NEW state, NEW maker, NEW base, NEW parent, NEW candidate,
               Create(kind, state, maker, base, parent, candidate),
               parent.seq <= Len(events),
               (job.pc = "evolve" /\ candidate # job.read) \/ candidate # store.linked
        PROVE  \E r : /\ requests' = [requests EXCEPT ![Cardinality(Issued) + 1] = r]
                      /\ r.parentSeq <= Len(events) /\ r.attempt = NoAttempt
                      /\ \/ job.pc = "evolve" /\ r.candidate # job.read
                         \/ r.candidate # store.linked
    <3> DEFINE r == [state |-> state, kind |-> kind, maker |-> maker, base |-> base,
                     parentSeq |-> parent.seq, parent |-> parent.digest,
                     candidate |-> candidate, verdicts |-> <<>>, attempt |-> NoAttempt]
    <3>1. requests' = [requests EXCEPT ![Cardinality(Issued) + 1] = r]
      BY <2>2 DEF Create
    <3>2. r.parentSeq = parent.seq /\ r.attempt = NoAttempt /\ r.candidate = candidate
      OBVIOUS
    <3> HIDE DEF r
    <3> QED BY <2>2, <3>1, <3>2
  <2>3. CASE IssueEvolve
    <3>1. TailOf.seq <= Len(events)
      BY <2>1 DEF TailOf
    <3> QED BY <2>2, <2>3, <3>1 DEF IssueEvolve
  <2>4. CASE IssueRevert
    <3>1. [seq |-> job.run, digest |-> job.read].seq <= Len(events)
      BY <2>1, <2>4 DEF IssueRevert
    <3> QED BY <2>2, <2>4, <3>1 DEF IssueRevert
  <2> QED BY <1>7, <2>3, <2>4
<1>8. CASE \/ StartEvolve \/ StartRevert \/ SealCandidate \/ RecordCandidate
           \/ \E i \in Ids : OpenPrompt(i)
           \/ ShowPrompt \/ SetAutonomy \/ OwnerSeals \/ OwnerRecords \/ RecoverLineage
           \/ ReclaimEvolutionLock \/ Lapse \/ NextDay
           \/ CrashJob \/ FailJob \/ OwnerSealStops \/ CrashCaller
           \/ UNCHANGED vars
  BY <1>8 DEF StartEvolve, StartRevert, SealCandidate, RecordCandidate, OpenPrompt, ShowPrompt,
              SetAutonomy, OwnerSeals, OwnerRecords, RecoverLineage, ReclaimEvolutionLock, Lapse,
              NextDay, CrashJob, FailJob, OwnerSealStops, CrashCaller, vars
<1>9. "rejected" \in States
  BY DEF States, Terminal
<1>10. CASE \E i \in Ids, session \in Sessions, approves \in BOOLEAN :
              AcceptVerdict(i, session, approves)
  <2>1. PICK i \in Ids, session \in Sessions, approves \in BOOLEAN :
          AcceptVerdict(i, session, approves)
    BY <1>10
  <2>2. i \in Issued
    BY <2>1 DEF AcceptVerdict
  <2>3. CASE requests' = Settled(i)
    BY <1>1, <2>2, <2>3
  <2>4. CASE \E v : /\ requests' = [Settled(i) EXCEPT ![i].verdicts = Append(@, v)]
                    /\ Len(requests[i].verdicts) < Quorum
    BY <2>2, <2>4
  <2>5. \/ requests' = Settled(i)
        \/ \E v : /\ requests' = [Settled(i) EXCEPT ![i].verdicts = Append(@, v)]
                  /\ Len(requests[i].verdicts) < Quorum
    BY <1>2, <2>1
  <2> QED BY <2>3, <2>4, <2>5
<1>11. CASE \E explicit \in BOOLEAN : AnswerReject(explicit)
  BY <1>1, <1>4, <1>9, <1>11
<1>12. CASE (\E i \in Ids : GateQuorum(i)) \/ AnswerApprove
  BY <1>1, <1>3, <1>12
<1> QED BY <1>5, <1>6, <1>7, <1>8, <1>10, <1>11, <1>12 DEF Next, JobStep

\* What an issued request keeps, and who changes its state or its attempt.
LEMMA RequestStep ==
  ASSUME EvolutionInv, [Next]_vars, NEW i \in Issued
  PROVE  /\ i \in Issued'
         /\ requests'[i].parentSeq = requests[i].parentSeq
         /\ requests'[i].parent = requests[i].parent
         /\ requests'[i].candidate = requests[i].candidate
         /\ Len(requests[i].verdicts) >= Quorum => requests'[i].verdicts = requests[i].verdicts
         /\ \/ requests'[i].attempt = requests[i].attempt
            \/ /\ AttemptSet /\ i = job.id
               /\ requests'[i].attempt = [mode |-> job.mode, at |-> job.now]
         /\ \/ requests'[i].state \in {requests[i].state, EffectiveState(i)}
            \/ EffectiveState(i) = "awaiting-human" /\ requests'[i].state = "rejected"
            \/ i = job.id /\ CloseRequest /\ requests'[i].state = "sealed"
            \/ i = job.id /\ JudgeCandidate
<1>0. /\ requests \in [Ids -> RequestStates] /\ i \in Ids /\ requests[i].state # "absent"
      /\ requests[i] \in RequestStates
  BY DEF EvolutionInv, RequestsInv, Issued
<1>1. RequestsInv /\ EffectiveState(i) \in States /\ "absent" \notin States
  BY EffectiveStateType DEF EvolutionInv, States, Terminal
<1>2. CASE UNCHANGED requests
  BY <1>0, <1>2 DEF Issued
<1>3. ASSUME NEW j \in Issued, NEW s \in States, StateSet(j, s)
      PROVE  /\ requests'[i] = IF i = j THEN [requests[i] EXCEPT !.state = s] ELSE requests[i]
             /\ j = i => \/ s = EffectiveState(i)
                         \/ EffectiveState(i) = "awaiting-human" /\ s = "rejected"
                         \/ i = job.id /\ CloseRequest /\ s = "sealed"
                         \/ i = job.id /\ JudgeCandidate
  BY <1>0, <1>3 DEF StateSet
<1>4. ASSUME NEW j \in Issued, NEW v,
             requests' = [Settled(j) EXCEPT ![j].verdicts = Append(@, v)],
             Len(requests[j].verdicts) < Quorum
      PROVE  \/ requests'[i] = requests[i]
             \/ /\ Len(requests[i].verdicts) < Quorum
                /\ \E w : requests'[i] = [requests[i] EXCEPT !.state = EffectiveState(i),
                                                             !.verdicts = w]
  BY <1>0, <1>4 DEF Settled
<1>5. ASSUME AttemptSet, job.id \in Issued
      PROVE  \/ requests'[i] = requests[i]
             \/ /\ i = job.id
                /\ requests'[i] =
                     [requests[i] EXCEPT !.attempt = [mode |-> job.mode, at |-> job.now]]
  BY <1>0, <1>5 DEF AttemptSet
<1>6. ASSUME NEW r, requests' = [requests EXCEPT ![Cardinality(Issued) + 1] = r]
      PROVE  requests'[i] = requests[i]
  <2>1. PICK n \in 0..MaxRequests : Issued = 1..n
    BY <1>1 DEF RequestsInv
  <2>2. n \in Nat /\ Cardinality(Issued) = n
    BY <2>1, FS_Interval, EvolutionAssumption DEF EvolutionAssumption
  <2>3. i # Cardinality(Issued) + 1
    BY <2>1, <2>2
  <2> QED BY <1>0, <1>6, <2>3
<1>7. \/ requests'[i] = requests[i]
      \/ \E s \in States :
           /\ requests'[i] = [requests[i] EXCEPT !.state = s]
           /\ \/ s = EffectiveState(i)
              \/ EffectiveState(i) = "awaiting-human" /\ s = "rejected"
              \/ i = job.id /\ CloseRequest /\ s = "sealed"
              \/ i = job.id /\ JudgeCandidate
      \/ /\ Len(requests[i].verdicts) < Quorum
         /\ \E w : requests'[i] = [requests[i] EXCEPT !.state = EffectiveState(i), !.verdicts = w]
      \/ /\ AttemptSet /\ i = job.id
         /\ requests'[i] = [requests[i] EXCEPT !.attempt = [mode |-> job.mode, at |-> job.now]]
  BY <1>2, <1>3, <1>4, <1>5, <1>6, RequestForms
<1>8. CASE requests'[i] = requests[i]
  BY <1>0, <1>8 DEF Issued
<1>9. ASSUME NEW s \in States, requests'[i] = [requests[i] EXCEPT !.state = s]
      PROVE  /\ i \in Issued' /\ requests'[i].state = s
             /\ requests'[i].parentSeq = requests[i].parentSeq
             /\ requests'[i].parent = requests[i].parent
             /\ requests'[i].candidate = requests[i].candidate
             /\ requests'[i].attempt = requests[i].attempt
             /\ requests'[i].verdicts = requests[i].verdicts
  BY <1>0, <1>1, <1>9 DEF Issued, RequestStates
<1>10. ASSUME NEW w,
              requests'[i] = [requests[i] EXCEPT !.state = EffectiveState(i), !.verdicts = w]
       PROVE  /\ i \in Issued' /\ requests'[i].state = EffectiveState(i)
              /\ requests'[i].parentSeq = requests[i].parentSeq
              /\ requests'[i].parent = requests[i].parent
              /\ requests'[i].candidate = requests[i].candidate
              /\ requests'[i].attempt = requests[i].attempt
  BY <1>0, <1>1, <1>10 DEF Issued, RequestStates
<1>11. ASSUME NEW a, requests'[i] = [requests[i] EXCEPT !.attempt = a]
       PROVE  /\ i \in Issued' /\ requests'[i].state = requests[i].state
              /\ requests'[i].parentSeq = requests[i].parentSeq
              /\ requests'[i].parent = requests[i].parent
              /\ requests'[i].candidate = requests[i].candidate
              /\ requests'[i].attempt = a
              /\ requests'[i].verdicts = requests[i].verdicts
  BY <1>0, <1>1, <1>11 DEF Issued, RequestStates
<1>12. ~(Len(requests[i].verdicts) < Quorum /\ Len(requests[i].verdicts) >= Quorum)
  <2>1. Len(requests[i].verdicts) \in Nat /\ Quorum \in Nat
    BY <1>0, EvolutionAssumption, LenProperties DEF RequestStates, EvolutionAssumption
  <2> QED BY <2>1
<1> QED BY <1>7, <1>8, <1>9, <1>10, <1>11, <1>12

\* What a step issues was built on what the lineage had reached, and is not what is linked,
\* or was when its drafting began.
LEMMA NewRequest ==
  ASSUME EvolutionInv, [Next]_vars, NEW i \in Issued', i \notin Issued
  PROVE  /\ requests'[i].parentSeq <= Len(events) /\ requests'[i].attempt = NoAttempt
         /\ \/ job.pc = "evolve" /\ requests'[i].candidate # job.read
            \/ requests'[i].candidate # store.linked
         /\ job' = Free /\ UNCHANGED <<events, seals, store, due>>
<1>1. requests \in [Ids -> RequestStates] /\ EvolutionInv'
  BY EvolutionInvStep, EvolutionAssumption, NoDigestAssumption DEF EvolutionInv, RequestsInv
<1>2. i \in Ids /\ requests'[i] # requests[i]
  BY <1>1 DEF EvolutionInv, RequestsInv, Issued
<1>3. /\ IssueEvolve \/ IssueRevert
      /\ \E r : /\ requests' = [requests EXCEPT ![Cardinality(Issued) + 1] = r]
                /\ r.parentSeq <= Len(events) /\ r.attempt = NoAttempt
                /\ \/ job.pc = "evolve" /\ r.candidate # job.read
                   \/ r.candidate # store.linked
  BY <1>1, <1>2, RequestForms DEF StateSet, Settled, AttemptSet
<1>4. job' = Free /\ UNCHANGED <<events, seals, store, due>>
  BY <1>3 DEF IssueEvolve, IssueRevert
<1> QED BY <1>1, <1>2, <1>3, <1>4

-----------------------------------------------------------------------------
(* What a step does to the lineage *)

\* The lineage ends at a contract, in good order; what is being sealed replaces that contract.
TailInv ==
  /\ events # <<>> /\ TailDigest(events) \in Digests
  /\ Follows(ExpectedAt(events, Len(events)), events[Len(events)], Digests)
  /\ sealLock = "owner" => TailDigest(events) = sealing.parent /\ sealing.digest \in Digests
  /\ job.pc = "event" => TailDigest(events) = requests[job.id].parent

\* The anchor that brings the lineage to the linked contract.
AnchorEvent(e) ==
  /\ e \in EventStates /\ e.kind = "recovered" /\ e.request = 0 /\ e.mode = "none"
  /\ e.digest = store.linked /\ Follows(TailDigest(events), e, Digests)
  /\ TailDigest(events) # store.linked
  /\ TailDigest(events) = store.below => e.reason = "unrecorded-seal"

LEMMA AnchorsAre ==
  ASSUME EvolutionInv, TailInv
  PROVE  \/ TailDigest(events) = store.linked /\ Classified = "current" /\ Anchors = <<>>
         \/ Classified # "current" /\ \E e : AnchorEvent(e) /\ Anchors = <<e>>
<1>0. /\ events \in Seq(EventStates) /\ store.linked \in Digests /\ NoDigest \notin Digests
      /\ TailDigest(events) \in Digests /\ events # <<>>
  BY NoDigestAssumption DEF EvolutionInv, LogInv, VaultInv, TailInv
<1> DEFINE tail == TailDigest(events)
           plan == AnchorFor(Classified, tail, store.linked)
<1>1. CASE tail = store.linked
  <2>1. Classified = "current"
    BY <1>1 DEF Classified, ClassifyLineageTail, EndsAt
  <2>2. plan = <<>>
    BY <2>1 DEF AnchorFor
  <2>3. DOMAIN plan = {}
    BY <2>2
  <2>4. Anchors = [k \in {} |-> Attributed(plan[k], 0, "none")]
    BY <2>3 DEF Anchors
  <2>5. Anchors = <<>>
    BY <2>4
  <2> QED BY <1>1, <2>1, <2>5
<1>2. CASE tail # store.linked
  <2>1. /\ ~EndsAt(events, store.linked) /\ store.linked # NoDigest
    BY <1>0, <1>2 DEF EndsAt
  <2>2. /\ Classified \in {"unrecorded-seal", "gap"}
        /\ tail = store.below => Classified = "unrecorded-seal"
    BY <1>0, <2>1 DEF Classified, ClassifyLineageTail, EndsAtPrevious, TailInv
  <2> DEFINE x == IF Classified = "unrecorded-seal"
                  THEN Recovered("unrecorded-seal", tail, store.linked, NoDigest)
                  ELSE Recovered("gap-anchor", NoDigest, store.linked, tail)
             e == Attributed(x, 0, "none")
  <2>3. plan = <<x>>
    BY <2>2 DEF AnchorFor
  <2>4. /\ e \in EventStates /\ e.kind = "recovered" /\ e.request = 0 /\ e.mode = "none"
        /\ e.digest = store.linked /\ Follows(tail, e, Digests)
        /\ Classified = "unrecorded-seal" => e.reason = "unrecorded-seal"
    <3>1. CASE Classified = "unrecorded-seal"
      BY <1>0, <3>1
      DEF Attributed, Recovered, EventStates, Reasons, ContractDigests, Follows
    <3>2. CASE Classified # "unrecorded-seal"
      BY <1>0, <3>2
      DEF Attributed, Recovered, EventStates, Reasons, ContractDigests, Follows
    <3> QED BY <3>1, <3>2
  <2>5. AnchorEvent(e)
    BY <1>2, <2>2, <2>4 DEF AnchorEvent
  <2>6. DOMAIN plan = {1} /\ plan[1] = x
    BY <2>3
  <2>7. Anchors = <<e>>
    <3>1. Anchors = [k \in {1} |-> Attributed(plan[k], 0, "none")]
      BY <2>6 DEF Anchors
    <3>2. Anchors = [k \in {1} |-> e]
      BY <2>6, <3>1
    <3> HIDE DEF e
    <3> QED BY <3>2
  <2> QED BY <2>2, <2>5, <2>7
<1> QED BY <1>1, <1>2

\* What a step may add to the lineage, at most one event: an anchor, the event of the gate's
\* seal or the event of the owner's.
Appends(e) ==
  \/ /\ AnchorEvent(e)
     /\ (SealCandidate /\ sealLock' = "gate") \/ OwnerSeals \/ RecoverLineage
  \/ /\ RecordCandidate
     /\ e = Attributed(SealedEvent(requests[job.id].parent, requests[job.id].candidate),
                       job.id, job.mode)
  \/ /\ OwnerRecords
     /\ e = Attributed(SealedEvent(sealing.parent, sealing.digest), 0, "human")

LEMMA EventForms ==
  ASSUME EvolutionInv, TailInv, [Next]_vars
  PROVE  UNCHANGED events \/ \E e : Appends(e) /\ events' = Append(events, e)
<1>0. events \in Seq(EventStates)
  BY DEF EvolutionInv, LogInv
<1>1. ASSUME events' = events \o Anchors
      PROVE  UNCHANGED events \/ \E e : AnchorEvent(e) /\ events' = Append(events, e)
  <2>1. CASE Anchors = <<>>
    BY <1>0, <1>1, <2>1, ConcatEmptySeq
  <2>2. ASSUME NEW e, AnchorEvent(e), Anchors = <<e>> PROVE events' = Append(events, e)
    <3>1. e \in EventStates
      BY <2>2 DEF AnchorEvent
    <3> QED BY <1>0, <1>1, <2>2, <3>1, AppendIsConcat
  <2> QED BY <2>1, <2>2, AnchorsAre
<1>2. CASE SealCandidate
  <2>1. UNCHANGED events \/ (events' = events \o Anchors /\ sealLock' = "gate")
    BY <1>2 DEF SealCandidate
  <2> QED BY <1>1, <1>2, <2>1 DEF Appends
<1>3. CASE OwnerSeals \/ RecoverLineage
  <2>1. events' = events \o Anchors
    BY <1>3 DEF OwnerSeals, RecoverLineage
  <2> QED BY <1>1, <1>3, <2>1 DEF Appends
<1>4. CASE RecordCandidate
  BY <1>4 DEF RecordCandidate, Appends
<1>5. CASE OwnerRecords
  BY <1>5 DEF OwnerRecords, Appends
<1>6. CASE ~(SealCandidate \/ OwnerSeals \/ RecoverLineage \/ RecordCandidate \/ OwnerRecords)
  BY <1>6 DEF Next, JobStep, vars, StartEvolve, StartRevert, IssueEvolve, IssueRevert,
     JudgeCandidate, CloseRequest, AcceptVerdict, GateQuorum, OpenPrompt, ShowPrompt,
     AnswerApprove, AnswerReject, SetAutonomy, ReclaimEvolutionLock, Lapse, NextDay, CrashJob,
     FailJob, OwnerSealStops, CrashCaller
<1> QED BY <1>2, <1>3, <1>4, <1>5, <1>6

LEMMA AppendsType ==
  ASSUME EvolutionInv, TailInv, NEW e, Appends(e)
  PROVE  e \in EventStates /\ e.digest \in Digests
<1>0. RequestsInv /\ JobInv /\ OwnerInv /\ VaultInv
  BY DEF EvolutionInv
<1>1. CASE AnchorEvent(e)
  BY <1>0, <1>1 DEF AnchorEvent, VaultInv
<1>2. CASE /\ RecordCandidate
           /\ e = Attributed(SealedEvent(requests[job.id].parent, requests[job.id].candidate),
                             job.id, job.mode)
  <2>1. /\ job.id \in Nat /\ job.mode \in Modes /\ requests[job.id] \in RequestStates
        /\ requests[job.id].candidate \in Digests
    BY <1>0, <1>2 DEF RecordCandidate, JobInv, AtGate, RequestsInv, Issued, WellBound
  <2> QED BY <1>2, <2>1
    DEF Attributed, SealedEvent, EventStates, Reasons, ContractDigests, RequestStates
<1>3. CASE /\ OwnerRecords
           /\ e = Attributed(SealedEvent(sealing.parent, sealing.digest), 0, "human")
  <2>1. sealing.digest \in Digests
    BY <1>3 DEF OwnerRecords, TailInv
  <2> QED BY <1>0, <1>3, <2>1
    DEF Attributed, SealedEvent, EventStates, Reasons, ContractDigests, OwnerInv, Modes
<1> QED BY <1>1, <1>2, <1>3 DEF Appends

LEMMA Appended ==
  ASSUME NEW s \in Seq(EventStates), s # <<>>, NEW e \in EventStates
  PROVE  /\ Len(s) \in Nat /\ DOMAIN s = 1..Len(s)
         /\ DOMAIN Append(s, e) = 1..(Len(s) + 1) /\ Len(Append(s, e)) = Len(s) + 1
         /\ \A k \in DOMAIN s : Append(s, e)[k] = s[k]
         /\ Append(s, e)[Len(s) + 1] = e /\ Append(s, e) # <<>>
         /\ TailDigest(Append(s, e)) = e.digest
         /\ ExpectedAt(Append(s, e), Len(Append(s, e))) = TailDigest(s)
<1>1. /\ Len(s) \in Nat /\ DOMAIN s = 1..Len(s) /\ Len(s) > 0
      /\ Len(Append(s, e)) = Len(s) + 1
      /\ \A k \in 1..Len(s) : Append(s, e)[k] = s[k]
      /\ Append(s, e)[Len(s) + 1] = e
      /\ Append(s, e) \in Seq(EventStates)
  BY LenProperties, AppendProperties, EmptySeq
<1>2. DOMAIN Append(s, e) = 1..(Len(s) + 1) /\ Append(s, e) # <<>>
  BY <1>1, LenProperties, EmptySeq
<1> DEFINE t == Append(s, e)
<1>3. TailDigest(t) = e.digest
  <2> HIDE DEF t
  <2> QED BY <1>1, <1>2 DEF TailDigest, t
<1>4. ExpectedAt(t, Len(t)) = TailDigest(s)
  <2>1. Len(t) = Len(s) + 1 /\ Len(s) \in 1..Len(s) /\ Len(t) # 1 /\ Len(t) - 1 = Len(s)
    BY <1>1
  <2>2. t[Len(s)] = s[Len(s)]
    BY <1>1, <2>1
  <2> HIDE DEF t
  <2> QED BY <2>1, <2>2 DEF ExpectedAt, TailDigest
<1> QED BY <1>1, <1>2, <1>3, <1>4

\* Who seals, after a step: the one who did before, or the one who has just swapped.
LEMMA SealForms ==
  ASSUME EvolutionInv, [Next]_vars
  PROVE  /\ sealLock' = "owner" =>
              (sealLock = "owner" /\ UNCHANGED <<sealing, store, seals>>) \/ OwnerSeals
         /\ job'.pc = "event" =>
              \/ job.pc = "event" /\ UNCHANGED <<job, sealLock, store, seals>>
              \/ SealCandidate /\ sealLock' = "gate"
<1>0. /\ sealLock = "gate" <=> job.pc = "event"
      /\ sealLock = "owner" <=> sealing # NotSealing
      /\ job \in [pc : {"free", "dead", "evolve", "revert"} \cup AtGate, id : Nat,
              mode : Modes \cup {"none"}, read : ContractDigests, run : Nat, now : Nat]
  BY DEF EvolutionInv, OwnerInv, JobInv
<1>1. CASE SealCandidate
  <2>1. CASE sealLock' = "gate"
    BY <1>0, <1>1, <2>1 DEF SealCandidate, ParentHolds, Free
  <2>2. CASE sealLock' # "gate"
    BY <1>0, <1>1, <2>2 DEF SealCandidate, Free
  <2> QED BY <2>1, <2>2
<1>2. CASE OwnerSeals
  BY <1>0, <1>2 DEF OwnerSeals
<1>3. CASE OwnerRecords \/ RecoverLineage \/ OwnerSealStops
  BY <1>0, <1>3 DEF OwnerRecords, RecoverLineage, OwnerSealStops
<1>4. CASE RecordCandidate \/ CloseRequest \/ JudgeCandidate \/ CrashJob \/ FailJob
  <2>1. job'.pc # "event"
    BY <1>0, <1>4 DEF RecordCandidate, CloseRequest, JudgeCandidate, CrashJob, FailJob, Free
  <2>2. sealLock' = "owner" => sealLock = "owner" /\ UNCHANGED <<sealing, store, seals>>
    BY <1>4 DEF RecordCandidate, CloseRequest, JudgeCandidate, CrashJob, FailJob
  <2> QED BY <2>1, <2>2
<1>5. CASE (\E i \in Ids : GateQuorum(i)) \/ AnswerApprove
  <2>1. UNCHANGED <<sealing, store, seals, sealLock>>
    BY <1>5 DEF GateQuorum, AnswerApprove
  <2>2. UNCHANGED job \/ job' = Free \/ job'.pc = "judge"
    BY <1>5 DEF GateQuorum, AnswerApprove, EnterGate, Free
  <2> QED BY <2>1, <2>2 DEF Free
<1>6. CASE StartEvolve \/ IssueEvolve \/ StartRevert \/ IssueRevert \/ ReclaimEvolutionLock
  <2>1. UNCHANGED <<sealing, store, seals, sealLock>>
    BY <1>6 DEF StartEvolve, IssueEvolve, StartRevert, IssueRevert, ReclaimEvolutionLock
  <2>2. StartEvolve => job'.pc = "evolve"
    BY DEF StartEvolve, Free
  <2>3. StartRevert => job'.pc = "revert"
    BY DEF StartRevert, Free
  <2>4. IssueEvolve \/ IssueRevert \/ ReclaimEvolutionLock => job'.pc = "free"
    BY DEF IssueEvolve, IssueRevert, ReclaimEvolutionLock, Free
  <2> QED BY <1>6, <2>1, <2>2, <2>3, <2>4
<1>7. CASE \/ \E i \in Ids, session \in Sessions, approves \in BOOLEAN :
                AcceptVerdict(i, session, approves)
           \/ \E i \in Ids : OpenPrompt(i)
           \/ ShowPrompt \/ (\E explicit \in BOOLEAN : AnswerReject(explicit)) \/ SetAutonomy
           \/ Lapse \/ NextDay \/ CrashCaller \/ UNCHANGED vars
  <2>1. UNCHANGED <<job, sealing, store, seals, sealLock>>
    BY <1>7 DEF AcceptVerdict, OpenPrompt, ShowPrompt, AnswerReject, SetAutonomy, Lapse, NextDay,
                CrashCaller, vars
  <2> QED BY <2>1
<1> QED BY <1>1, <1>2, <1>3, <1>4, <1>5, <1>6, <1>7 DEF Next, JobStep

LEMMA TailStep ==
  ASSUME EvolutionInv, TailInv, [Next]_vars
  PROVE  TailInv'
<1>0. /\ events \in Seq(EventStates) /\ NoDigest \notin Digests /\ store.linked \in Digests
      /\ sealLock = "gate" <=> job.pc = "event"
      /\ job.pc \in AtGate => job.id \in Issued
  BY NoDigestAssumption DEF EvolutionInv, LogInv, VaultInv, OwnerInv, JobInv
<1>1. job.pc = "event" => requests'[job.id].parent = requests[job.id].parent
  BY <1>0, RequestStep DEF AtGate
<1>2. ASSUME SealCandidate, sealLock' = "gate"
      PROVE  store.linked = requests'[job'.id].parent
  BY <1>2 DEF SealCandidate, ParentHolds, EvolutionInv, JobInv, OwnerInv
<1>3. ASSUME OwnerSeals
      PROVE  sealing'.parent = store.linked /\ sealing'.digest \in Digests
  BY <1>3 DEF OwnerSeals
<1>4. ASSUME TailDigest(events)' = store.linked
      PROVE  /\ OwnerSeals => TailDigest(events)' = sealing'.parent /\ sealing'.digest \in Digests
             /\ SealCandidate /\ sealLock' = "gate" =>
                  TailDigest(events)' = requests'[job'.id].parent
  BY <1>2, <1>3, <1>4
<1>5. CASE UNCHANGED events
  <2>1. OwnerSeals \/ (SealCandidate /\ sealLock' = "gate") => TailDigest(events) = store.linked
    <3>1. OwnerSeals \/ (SealCandidate /\ sealLock' = "gate") => events' = events \o Anchors
      BY <1>0 DEF OwnerSeals, SealCandidate
    <3>2. ASSUME NEW e, AnchorEvent(e), Anchors = <<e>>, events' = events \o Anchors
          PROVE  FALSE
      <4>1. e \in EventStates
        BY <3>2 DEF AnchorEvent
      <4>2. events' = Append(events, e)
        BY <1>0, <3>2, <4>1, AppendIsConcat
      <4>3. events # <<>>
        BY DEF TailInv
      <4> QED BY <1>0, <1>5, <4>1, <4>2, <4>3, Appended
    <3> QED BY <3>1, <3>2, AnchorsAre
  <2>2. sealLock' = "owner" => TailDigest(events)' = sealing'.parent /\ sealing'.digest \in Digests
    BY <1>3, <1>5, <2>1, SealForms DEF TailInv
  <2>3. job'.pc = "event" => TailDigest(events)' = requests'[job'.id].parent
    BY <1>1, <1>2, <1>5, <2>1, SealForms DEF TailInv
  <2> QED BY <1>5, <2>2, <2>3 DEF TailInv
<1>6. ASSUME NEW e, Appends(e), events' = Append(events, e)
      PROVE  TailInv'
  <2>1. /\ events' # <<>> /\ TailDigest(events') = e.digest /\ e.digest \in Digests
        /\ events'[Len(events')] = e /\ ExpectedAt(events', Len(events')) = TailDigest(events)
    BY <1>0, <1>6, AppendsType, Appended DEF TailInv
  <2>2. Follows(TailDigest(events), e, Digests)
    <3>1. CASE AnchorEvent(e)
      BY <3>1 DEF AnchorEvent
    <3>2. CASE RecordCandidate \/ OwnerRecords
      <4>1. /\ e.kind = "sealed" /\ e.digest # NoDigest
            /\ e.parent = TailDigest(events)
        BY <1>0, <1>6, <2>1, <3>2
        DEF Appends, AnchorEvent, RecordCandidate, OwnerRecords, Attributed, SealedEvent, TailInv,
            SealCandidate, OwnerSeals, RecoverLineage
      <4> QED BY <4>1 DEF Follows
    <3> QED BY <1>6, <3>1, <3>2 DEF Appends
  <2>3. CASE RecordCandidate \/ OwnerRecords \/ RecoverLineage
    <3>1. sealLock' # "owner" /\ job'.pc # "event"
      BY <1>0, <2>3 DEF RecordCandidate, OwnerRecords, RecoverLineage, EvolutionInv, JobInv
    <3> QED BY <2>1, <2>2, <3>1 DEF TailInv
  <2>4. CASE AnchorEvent(e) /\ (OwnerSeals \/ (SealCandidate /\ sealLock' = "gate"))
    <3>1. TailDigest(events)' = store.linked
      BY <2>1, <2>4 DEF AnchorEvent
    <3>2. sealLock' = "owner" => OwnerSeals
      BY <2>4, SealForms DEF OwnerSeals, SealCandidate
    <3>3. job'.pc = "event" => SealCandidate /\ sealLock' = "gate"
      BY <1>0, <2>4, SealForms DEF OwnerSeals, SealCandidate
    <3> QED BY <1>4, <2>1, <2>2, <3>1, <3>2, <3>3 DEF TailInv
  <2> QED BY <1>6, <2>3, <2>4 DEF Appends
<1> QED BY <1>5, <1>6, EventForms

\* No event is changed or dropped.
LEMMA EventsKept ==
  ASSUME EvolutionInv, TailInv, [Next]_vars
  PROVE  /\ Len(events) \in Nat /\ DOMAIN events = 1..Len(events)
         /\ Len(events') \in Nat /\ DOMAIN events' = 1..Len(events')
         /\ Len(events') = Len(events) => UNCHANGED events
         /\ Len(events') \in {Len(events), Len(events) + 1}
         /\ \A k \in DOMAIN events : k \in DOMAIN events' /\ events'[k] = events[k]
<1>1. events \in Seq(EventStates) /\ events # <<>>
  BY DEF EvolutionInv, LogInv, TailInv
<1>2. Len(events) \in Nat /\ DOMAIN events = 1..Len(events)
  BY <1>1, LenProperties
<1>3. ASSUME NEW e, Appends(e), events' = Append(events, e)
      PROVE  /\ Len(events') = Len(events) + 1 /\ DOMAIN events' = 1..(Len(events) + 1)
             /\ \A k \in DOMAIN events : events'[k] = events[k]
  BY <1>1, <1>3, AppendsType, Appended
<1> QED BY <1>2, <1>3, EventForms

\* A request was built on what the lineage had reached.
ParentsInv == \A i \in Issued : requests[i].parentSeq <= Len(events)

LEMMA ParentsStep ==
  ASSUME EvolutionInv, TailInv, ParentsInv, [Next]_vars
  PROVE  ParentsInv'
<1>0. Len(events) \in Nat /\ Len(events') \in {Len(events), Len(events) + 1}
  BY EventsKept
<1>1. requests \in [Ids -> RequestStates] /\ EvolutionInv'
  BY EvolutionInvStep, EvolutionAssumption, NoDigestAssumption DEF EvolutionInv, RequestsInv
<1> SUFFICES ASSUME NEW i \in Issued'
             PROVE  requests'[i].parentSeq <= Len(events')
  BY DEF ParentsInv
<1>2. requests'[i].parentSeq \in Nat /\ i \in Ids
  BY <1>1 DEF EvolutionInv, RequestsInv, RequestStates, Issued
<1>3. CASE i \in Issued
  BY <1>0, <1>2, <1>3, RequestStep DEF ParentsInv
<1>4. CASE i \notin Issued
  BY <1>0, <1>2, <1>4, NewRequest
<1> QED BY <1>3, <1>4

LEMMA TailInit ==
  ASSUME EvolutionAssumption, NoDigestAssumption, Init
  PROVE  TailInv /\ ParentsInv
<1> DEFINE e == Attributed(SealedEvent(NoDigest, First), 0, "human")
<1>1. /\ e.digest = First /\ e.kind = "sealed" /\ e.parent = NoDigest
      /\ First \in Digests /\ First # NoDigest
  BY DEF Attributed, SealedEvent, EvolutionAssumption, NoDigestAssumption
<1>2. events = <<e>> /\ sealLock = "free" /\ job.pc = "free"
  BY DEF Init, Free
<1> HIDE DEF e
<1>3. Len(events) = 1 /\ events[1] = e /\ events # <<>>
  BY <1>2
<1>4. TailInv
  BY <1>1, <1>2, <1>3 DEF TailInv, TailDigest, ExpectedAt, Follows
<1>5. \A i \in Issued : requests[i].parentSeq <= 1
  <2>1. NoRequest.state = "absent"
    BY DEF NoRequest
  <2>2. CASE requests = [i \in Ids |-> NoRequest]
    BY <2>1, <2>2 DEF Issued
  <2>3. ASSUME 1 \in Ids, NEW d \in Digests,
               requests = [[i \in Ids |-> NoRequest] EXCEPT
                 ![1] = [NoRequest EXCEPT !.state = "open", !.base = First, !.parentSeq = 1,
                                          !.parent = First, !.candidate = d]]
        PROVE  \A i \in Issued : requests[i].parentSeq <= 1
    <3> DEFINE r == [NoRequest EXCEPT !.state = "open", !.base = First, !.parentSeq = 1,
                                      !.parent = First, !.candidate = d]
    <3>1. r.parentSeq = 1
      BY DEF NoRequest
    <3> HIDE DEF r
    <3>2. \A i \in Ids : requests[i] = IF i = 1 THEN r ELSE NoRequest
      BY <2>3 DEF r
    <3> QED BY <2>1, <3>1, <3>2 DEF Issued
  <2> QED BY <2>2, <2>3 DEF Init
<1> QED BY <1>3, <1>4, <1>5 DEF ParentsInv

\* The lineage is in good order whoever seals and whatever is interrupted, and no request
\* is built on an event that is still to come.
THEOREM LineageInvariant == Spec => [](TailInv /\ ParentsInv)
<1>1. Init => TailInv /\ ParentsInv
  BY TailInit, EvolutionAssumption, NoDigestAssumption
<1>2. EvolutionInv /\ (TailInv /\ ParentsInv) /\ [Next]_vars => (TailInv /\ ParentsInv)'
  BY TailStep, ParentsStep
<1> QED BY <1>1, <1>2, EvolutionInvariant, PTL DEF Spec

-----------------------------------------------------------------------------
(* What is closed stays closed *)

LEMMA StandsForever ==
  ASSUME EvolutionInv, TailInv, [Next]_vars, NEW i \in Issued, SealStands(i)
  PROVE  SealStands(i)'
<1>1. \A k \in DOMAIN events : k \in DOMAIN events' /\ events'[k] = events[k]
  BY EventsKept
<1>2. CASE SealedByRequest(i)
  BY <1>1, <1>2 DEF SealedByRequest, SealStands
<1>3. CASE /\ requests[i].parentSeq + 1 \in DOMAIN events
           /\ SealedThis(i, events[requests[i].parentSeq + 1])
  <2>1. /\ requests'[i].parentSeq = requests[i].parentSeq
        /\ requests'[i].candidate = requests[i].candidate
        /\ requests[i].attempt # NoAttempt => requests'[i].attempt # NoAttempt
    BY RequestStep DEF AttemptSet, JudgeCandidate, EvolutionInv, JobInv, AtGate, NoAttempt, Modes
  <2> QED BY <1>1, <1>3, <2>1 DEF SealStands, SealedThis
<1> QED BY <1>2, <1>3 DEF SealStands

LEMMA EffectiveStateIs ==
  ASSUME NEW i
  PROVE  EffectiveState(i) =
           IF SealStands(i) THEN "sealed"
           ELSE IF requests[i].state \in Terminal THEN requests[i].state
           ELSE IF requests[i].state = "open" /\ i \in past THEN "expired"
           ELSE IF TailMoved(i) THEN "superseded"
           ELSE requests[i].state
  BY DEF EffectiveState, SealStands

\* The lineage does not come back to where a request was built.
LEMMA MovedForever ==
  ASSUME EvolutionInv, TailInv, ParentsInv, [Next]_vars, NEW i \in Issued, TailMoved(i)
  PROVE  TailMoved(i)'
<1>1. requests'[i].parentSeq = requests[i].parentSeq /\ requests'[i].parent = requests[i].parent
  BY RequestStep
<1>2. /\ Len(events) \in Nat /\ Len(events') \in {Len(events), Len(events) + 1}
      /\ Len(events') = Len(events) => UNCHANGED events
  BY EventsKept
<1>3. requests[i].parentSeq <= Len(events) /\ requests[i].parentSeq \in Nat
  BY DEF ParentsInv, EvolutionInv, RequestsInv, RequestStates, Issued
<1>4. CASE UNCHANGED events
  BY <1>1, <1>4 DEF TailMoved, TailOf
<1>5. CASE Len(events') = Len(events) + 1
  <2>1. Len(events') # requests'[i].parentSeq
    BY <1>1, <1>2, <1>3, <1>5
  <2> QED BY <2>1 DEF TailMoved, TailOf
<1> QED BY <1>2, <1>4, <1>5

ClosedAreKept ==
  \A i \in Issued :
    /\ EffectiveState(i) \in Terminal /\ job.id # i => EffectiveState(i)' \in Terminal
    /\ EffectiveState(i) = "sealed" => EffectiveState(i)' = "sealed"

LEMMA PastGrows ==
  ASSUME [Next]_vars, NEW i \in Issued, i \in past
  PROVE  i \in past'
<1>1. past' = past \/ past' = Issued
  BY DEF Next, JobStep, vars, StartEvolve, StartRevert, IssueEvolve, IssueRevert, JudgeCandidate,
         SealCandidate, RecordCandidate, CloseRequest, AcceptVerdict, GateQuorum, OpenPrompt,
         ShowPrompt, AnswerApprove, AnswerReject, SetAutonomy, OwnerSeals, OwnerRecords,
         RecoverLineage, ReclaimEvolutionLock, Lapse, NextDay, CrashJob, FailJob,
         OwnerSealStops, CrashCaller
<1> QED BY <1>1

LEMMA ClosedStep ==
  ASSUME EvolutionInv, GateInv, TailInv, ParentsInv, [Next]_vars
  PROVE  ClosedAreKept
<1> SUFFICES ASSUME NEW i \in Issued
             PROVE  /\ EffectiveState(i) \in Terminal /\ job.id # i
                         => EffectiveState(i)' \in Terminal
                    /\ EffectiveState(i) = "sealed" => EffectiveState(i)' = "sealed"
  BY DEF ClosedAreKept
<1>1. CASE SealStands(i)
  <2>1. EffectiveState(i)' = "sealed"
    BY <1>1, StandsForever DEF EffectiveState, SealStands
  <2> QED BY <2>1 DEF Terminal
<1>2. CASE ~SealStands(i)
  <2>1. \/ requests'[i].state \in {requests[i].state, EffectiveState(i)}
        \/ EffectiveState(i) = "awaiting-human" /\ requests'[i].state = "rejected"
        \/ i = job.id /\ CloseRequest /\ requests'[i].state = "sealed"
        \/ i = job.id /\ JudgeCandidate
    BY RequestStep
  <2>2. /\ SealStands(i)' => EffectiveState(i)' = "sealed"
        /\ ~SealStands(i)' /\ requests'[i].state \in Terminal
             => EffectiveState(i)' = requests'[i].state
        /\ ~SealStands(i)' /\ requests'[i].state = "open" /\ i \in past'
             => EffectiveState(i)' = "expired"
        /\ ~SealStands(i)' /\ TailMoved(i)' /\ requests'[i].state \notin Terminal
             => EffectiveState(i)' \in {"expired", "superseded"}
    BY DEF EffectiveState, SealStands, Terminal
  <2>3. ASSUME EffectiveState(i) = "sealed"
        PROVE  EffectiveState(i)' = "sealed"
    <3>1. requests[i].state = "sealed"
      BY <1>2, <2>3, EffectiveStateIs DEF Terminal
    <3>2. ~(i = job.id /\ JudgeCandidate)
      BY <3>1 DEF GateInv, Wanted, JudgeCandidate
    <3>3. requests'[i].state = "sealed"
      BY <2>1, <2>3, <3>1, <3>2
    <3> QED BY <2>2, <3>3 DEF Terminal
  <2>4. ASSUME EffectiveState(i) \in Terminal, job.id # i
        PROVE  EffectiveState(i)' \in Terminal
    <3>1. requests'[i].state \in {requests[i].state, EffectiveState(i)}
      BY <2>1, <2>4 DEF Terminal
    <3>2. CASE requests'[i].state \in Terminal
      BY <2>2, <3>2 DEF Terminal
    <3>3. CASE requests'[i].state = requests[i].state /\ requests[i].state \notin Terminal
      <4>1. (requests[i].state = "open" /\ i \in past) \/ TailMoved(i)
        BY <1>2, <2>4, <3>3, EffectiveStateIs
      <4>2. CASE requests[i].state = "open" /\ i \in past
        BY <2>2, <3>3, <4>2, PastGrows DEF Terminal
      <4>3. CASE TailMoved(i)
        BY <2>2, <3>3, <4>3, MovedForever DEF Terminal
      <4> QED BY <4>1, <4>2, <4>3
    <3> QED BY <2>4, <3>1, <3>2, <3>3
  <2> QED BY <2>3, <2>4
<1> QED BY <1>1, <1>2

\* A request that reads as closed stays closed, whatever is sealed beside it and however the
\* clock, the owner and the lineage go on: ClosedStaysClosed.  That the lineage only grows
\* keeps A->B->A from reviving one.
THEOREM ClosedRequestsStay == Spec => ClosedStaysClosed
<1>1. EvolutionInv /\ GateInv /\ (TailInv /\ ParentsInv) /\ [Next]_vars => [ClosedAreKept]_vars
  BY ClosedStep
<1>2. ClosedStaysClosed <=> [][ClosedAreKept]_vars
  BY DEF ClosedStaysClosed, ClosedAreKept
<1> QED BY <1>1, <1>2, EvolutionInvariant, GateInvariant, LineageInvariant, PTL DEF Spec

-----------------------------------------------------------------------------
(* What a step does to the gate and to the seals *)

\* What a step does to the evolution operation.
Entered ==
  /\ job'.pc = "judge" /\ job'.id \in Issued /\ ~TailMoved(job'.id)
  /\ job'.run = AutonomousRun /\ job'.now = day
  /\ EffectiveState(job'.id) = Wanted(job'.mode)
  /\ job'.mode = "autonomous" => job'.id \in due /\ job'.id \notin due'
  /\ ~BusyOwner => sealLock # "owner"
  /\ UNCHANGED <<events, sealLock, seals, day, store>>

Swapped == SealCandidate /\ sealLock' = "gate"

LEMMA JobForms ==
  ASSUME EvolutionInv, [Next]_vars
  PROVE  \/ UNCHANGED job /\ ~AttemptSet
         \/ job'.pc \in {"free", "dead"}
         \/ RecordCandidate /\ job'.pc = "settle"
         \/ job'.pc \in {"evolve", "revert"} /\ UNCHANGED sealLock
            /\ (~BusyOwner => sealLock # "owner")
            /\ (job'.pc = "evolve" => job'.read = store.linked)
         \/ Entered
         \/ AttemptSet
         \/ Swapped
<1>0. job \in [pc : {"free", "dead", "evolve", "revert"} \cup AtGate, id : Nat,
              mode : Modes \cup {"none"}, read : ContractDigests, run : Nat, now : Nat]
  BY DEF EvolutionInv, JobInv
<1>1. UNCHANGED job => ~AttemptSet
  BY <1>0 DEF AttemptSet, JudgeCandidate
<1>2. ASSUME NEW i \in Issued, NEW mode \in Modes, EnterGate(i, mode),
             ~BusyOwner => sealLock # "owner", mode = "autonomous" => i \in due /\ i \notin due',
             UNCHANGED <<events, sealLock, seals, day, store>>
      PROVE  job'.pc = "free" \/ Entered
  <2>1. CASE job' = Free
    BY <2>1 DEF Free
  <2>2. CASE job' # Free
    <3>1. /\ EffectiveState(i) = Wanted(mode) /\ job'.pc = "judge" /\ job'.id = i
          /\ job'.run = AutonomousRun /\ job'.now = day /\ job'.mode = mode
      BY <1>2, <2>2 DEF EnterGate, Free
    <3>2. EffectiveState(i) \notin Terminal
      BY <3>1 DEF Wanted, Terminal
    <3>3. ~TailMoved(i)
      BY <3>2 DEF EffectiveState, Terminal
    <3> QED BY <1>2, <3>1, <3>3 DEF Entered
  <2> QED BY <2>1, <2>2
<1>3. ASSUME (\E i \in Ids : GateQuorum(i)) \/ AnswerApprove
      PROVE  \/ UNCHANGED job
             \/ job'.pc = "free" \/ Entered
  <2>1. \/ UNCHANGED job
        \/ /\ \E i \in Issued, mode \in Modes :
                EnterGate(i, mode) /\ (mode = "autonomous" => i \in due /\ i \notin due')
           /\ ~BusyOwner => sealLock # "owner"
           /\ UNCHANGED <<events, sealLock, seals, day, store>>
    BY <1>3 DEF GateQuorum, AnswerApprove, LockFree, EvolutionInv, OwnerInv, VaultInv, Modes
  <2> QED BY <1>2, <2>1
<1>4. CASE StartEvolve \/ StartRevert
  BY <1>4 DEF StartEvolve, StartRevert, LockFree, Free
<1>5. CASE IssueEvolve \/ IssueRevert \/ CloseRequest \/ ReclaimEvolutionLock \/ CrashJob \/ FailJob
  BY <1>5 DEF IssueEvolve, IssueRevert, CloseRequest, ReclaimEvolutionLock, CrashJob, FailJob, Free
<1>6. CASE JudgeCandidate
  BY <1>6 DEF JudgeCandidate, AttemptSet, Free
<1>7. CASE SealCandidate
  BY <1>7 DEF SealCandidate, Swapped, Free
<1>8. CASE RecordCandidate
  BY <1>0, <1>8 DEF RecordCandidate
<1>9. CASE \/ \E i \in Ids, session \in Sessions, approves \in BOOLEAN :
                AcceptVerdict(i, session, approves)
           \/ \E i \in Ids : OpenPrompt(i)
           \/ ShowPrompt \/ (\E explicit \in BOOLEAN : AnswerReject(explicit)) \/ SetAutonomy
           \/ OwnerSeals \/ OwnerRecords \/ RecoverLineage \/ OwnerSealStops
           \/ Lapse \/ NextDay \/ CrashCaller \/ UNCHANGED vars
  BY <1>1, <1>9 DEF AcceptVerdict, OpenPrompt, ShowPrompt, AnswerReject, SetAutonomy, Lapse,
    NextDay, CrashCaller, vars, OwnerSeals, OwnerRecords, RecoverLineage, OwnerSealStops
<1> QED BY <1>1, <1>3, <1>4, <1>5, <1>6, <1>7, <1>8, <1>9 DEF Next, JobStep

\* What the gate's swap adds to the seals.
SwapRecord ==
  [request |-> job.id, mode |-> job.mode, at |-> day,
   replaced |-> requests[job.id].parent, digest |-> requests[job.id].candidate,
   place |-> Len(events') + 1]

LEMMA SwapRecordIs ==
  ASSUME EvolutionInv, job.id \in Issued, job.mode \in Modes, Len(events') \in Nat
  PROVE  /\ SwapRecord \in SealStates /\ SwapRecord.request = job.id
         /\ SwapRecord.mode = job.mode /\ SwapRecord.at = day
         /\ SwapRecord.replaced = requests[job.id].parent
         /\ SwapRecord.digest = requests[job.id].candidate
         /\ SwapRecord.place = Len(events') + 1
         /\ job.id # 0
<1>1. /\ job.id \in Ids /\ day \in Nat /\ requests[job.id] \in RequestStates
      /\ \E n \in 0..MaxRequests : Issued = 1..n
  BY DEF EvolutionInv, RequestsInv, VaultInv, Issued
<1>2. job.id \in Nat /\ job.id # 0
  BY <1>1
<1> QED BY <1>1, <1>2 DEF SwapRecord, SealStates, RequestStates

\* What the gate's swap does; a seal of its own finds the lineage at the linked contract.
LEMMA SwapEffect ==
  ASSUME EvolutionInv, TailInv, [Next]_vars, Swapped
  PROVE  /\ job.pc = "seal" /\ job'.pc = "event" /\ job'.id = job.id /\ job'.mode = job.mode
         /\ job'.now = job.now /\ job.id \in Issued /\ job.mode \in Modes
         /\ store.linked = requests[job.id].parent
         /\ UNCHANGED <<requests, day, due>>
         /\ store' = [linked |-> requests[job.id].candidate, below |-> requests[job.id].parent]
         /\ seals' = Append(seals, SwapRecord) /\ SwapRecord \in SealStates
         /\ SwapRecord.place = Len(events') + 1
         /\ events' = events \o Anchors /\ sealLock = "free"
         /\ job.mode = "autonomous" => TailDigest(events) = store.linked /\ UNCHANGED events
<1>1. /\ job.pc = "seal" /\ job' = [job EXCEPT !.pc = "event"]
      /\ store.linked = requests[job.id].parent /\ sealLock = "free"
      /\ events' = events \o Anchors /\ UNCHANGED <<requests, day, due>>
      /\ store' = [linked |-> requests[job.id].candidate, below |-> store.linked]
      /\ seals' = Append(seals, [request |-> job.id, mode |-> job.mode, at |-> day,
              replaced |-> store.linked, digest |-> requests[job.id].candidate,
              place |-> Len(events') + 1])
      /\ job.mode = "autonomous" => Classified = "current"
  BY DEF Swapped, SealCandidate, ParentHolds, Swap, EvolutionInv, OwnerInv
<1>2. /\ job \in [pc : {"free", "dead", "evolve", "revert"} \cup AtGate, id : Nat,
              mode : Modes \cup {"none"}, read : ContractDigests, run : Nat, now : Nat]
      /\ job.id \in Issued /\ job.mode \in Modes
  BY <1>1 DEF EvolutionInv, JobInv, AtGate
<1>3. Len(events') \in Nat
  BY EventsKept
<1>4. SwapRecord \in SealStates /\ SwapRecord.place = Len(events') + 1
  BY <1>2, <1>3, SwapRecordIs
<1>5. job.mode = "autonomous" => TailDigest(events) = store.linked /\ UNCHANGED events
  BY <1>1, AnchorsAre, ConcatEmptySeq DEF EvolutionInv, LogInv
<1> QED BY <1>1, <1>2, <1>4, <1>5 DEF SwapRecord

\* What the owner's swap adds to the seals.
LEMMA OwnerSealEffect ==
  ASSUME EvolutionInv, TailInv, [Next]_vars, OwnerSeals
  PROVE  \E x \in SealStates : /\ seals' = Append(seals, x)
                               /\ x.request = 0 /\ x.mode = "human" /\ x.at = day
<1>1. PICK d \in Digests :
        seals' = Append(seals, [request |-> 0, mode |-> "human", at |-> day,
                                replaced |-> store.linked, digest |-> d,
                                place |-> Len(events') + 1])
  BY DEF OwnerSeals
<1> DEFINE x == [request |-> 0, mode |-> "human", at |-> day,
                 replaced |-> store.linked, digest |-> d, place |-> Len(events') + 1]
<1>2. Len(events') \in Nat
  BY EventsKept
<1>3. x \in SealStates /\ x.request = 0 /\ x.mode = "human" /\ x.at = day
  BY <1>2 DEF SealStates, Modes, ContractDigests, EvolutionInv, VaultInv
<1>4. seals' = Append(seals, x)
  BY <1>1
<1> HIDE DEF x
<1> QED BY <1>3, <1>4

\* A seal is added by the gate's swap or by the owner's.
LEMMA SealsForms ==
  ASSUME EvolutionInv, TailInv, [Next]_vars
  PROVE  \/ UNCHANGED seals
         \/ Swapped
         \/ OwnerSeals /\ \E x \in SealStates : /\ seals' = Append(seals, x)
                                                /\ x.request = 0 /\ x.mode = "human" /\ x.at = day
<1>1. CASE SealCandidate
  BY <1>1 DEF SealCandidate, Swapped
<1>2. CASE OwnerSeals
  BY <1>2, OwnerSealEffect
<1>3. CASE ~(SealCandidate \/ OwnerSeals)
  BY <1>3 DEF Next, JobStep, vars, StartEvolve, StartRevert, IssueEvolve, IssueRevert,
    JudgeCandidate, RecordCandidate, CloseRequest, AcceptVerdict, GateQuorum, OpenPrompt,
    ShowPrompt, AnswerApprove, AnswerReject, SetAutonomy, OwnerRecords, RecoverLineage,
    ReclaimEvolutionLock, Lapse, NextDay, CrashJob, FailJob, OwnerSealStops, CrashCaller
<1> QED BY <1>1, <1>2, <1>3

LEMMA SealAppended ==
  ASSUME NEW s \in Seq(SealStates), NEW x
  PROVE  /\ Len(s) \in Nat /\ DOMAIN s = 1..Len(s)
         /\ x \in SealStates =>
              /\ DOMAIN Append(s, x) = 1..(Len(s) + 1) /\ Len(Append(s, x)) = Len(s) + 1
              /\ \A k \in DOMAIN s : Append(s, x)[k] = s[k]
              /\ Append(s, x)[Len(s) + 1] = x /\ Append(s, x) # <<>>
<1>1. Len(s) \in Nat /\ DOMAIN s = 1..Len(s)
  BY LenProperties
<1>2. ASSUME x \in SealStates
      PROVE  /\ Append(s, x) \in Seq(SealStates) /\ Len(Append(s, x)) = Len(s) + 1
             /\ \A k \in 1..Len(s) : Append(s, x)[k] = s[k]
             /\ Append(s, x)[Len(s) + 1] = x
  BY <1>2, AppendProperties
<1>3. ASSUME x \in SealStates
      PROVE  DOMAIN Append(s, x) = 1..(Len(s) + 1) /\ Append(s, x) # <<>>
  BY <1>1, <1>2, <1>3, LenProperties, EmptySeq
<1> QED BY <1>1, <1>2, <1>3

\* No seal is forgotten, and one is added by a swap only.
LEMMA SealsKept ==
  ASSUME EvolutionInv, TailInv, [Next]_vars
  PROVE  /\ Len(seals) \in Nat /\ DOMAIN seals = 1..Len(seals)
         /\ \A k \in DOMAIN seals : k \in DOMAIN seals' /\ seals'[k] = seals[k]
         /\ \/ UNCHANGED seals /\ ~Swapped /\ ~OwnerSeals
            \/ /\ Swapped /\ DOMAIN seals' = 1..(Len(seals) + 1) /\ Len(seals') = Len(seals) + 1
               /\ seals'[Len(seals) + 1] = SwapRecord /\ SwapRecord \in SealStates
            \/ /\ OwnerSeals /\ DOMAIN seals' = 1..(Len(seals) + 1)
               /\ Len(seals') = Len(seals) + 1
               /\ seals'[Len(seals) + 1].request = 0 /\ seals'[Len(seals) + 1].at = day
               /\ seals'[Len(seals) + 1].mode = "human"
<1>0. seals \in Seq(SealStates)
  BY DEF EvolutionInv, LogInv
<1>1. Len(seals) \in Nat /\ DOMAIN seals = 1..Len(seals)
  BY <1>0, SealAppended
<1>4. ASSUME NEW x \in SealStates, seals' = Append(seals, x)
      PROVE  /\ DOMAIN seals' = 1..(Len(seals) + 1) /\ Len(seals') = Len(seals) + 1
             /\ \A k \in DOMAIN seals : k \in DOMAIN seals' /\ seals'[k] = seals[k]
             /\ seals'[Len(seals) + 1] = x
  <2>1. /\ DOMAIN seals' = 1..(Len(seals) + 1) /\ Len(seals') = Len(seals) + 1
        /\ \A k \in DOMAIN seals : seals'[k] = seals[k]
        /\ seals'[Len(seals) + 1] = x
    BY <1>0, <1>4, SealAppended
  <2> QED BY <1>1, <2>1
<1>2. CASE Swapped
  <2>1. SwapRecord \in SealStates /\ seals' = Append(seals, SwapRecord)
    BY <1>2, SwapEffect
  <2> QED BY <1>1, <1>2, <1>4, <2>1
<1>3. CASE OwnerSeals
  <2>1. PICK x \in SealStates : /\ seals' = Append(seals, x) /\ x.request = 0
                                /\ x.mode = "human" /\ x.at = day
    BY <1>3, OwnerSealEffect
  <2> QED BY <1>1, <1>3, <1>4, <2>1
<1> QED BY <1>1, <1>2, <1>3, SealsForms

\* The seal that was last in progress.
LastSealInv ==
  /\ sealLock = "owner" => seals # <<>> /\ seals[Len(seals)].mode = "human"
  /\ job.pc = "event" => seals # <<>> /\ seals[Len(seals)].mode = job.mode

LEMMA LastSealStep ==
  ASSUME EvolutionInv, TailInv, LastSealInv, [Next]_vars
  PROVE  LastSealInv'
<1>0. seals \in Seq(SealStates) /\ (sealLock = "gate" <=> job.pc = "event")
      /\ seals' \in Seq(SealStates)
  <2>1. EvolutionInv'
    BY EvolutionInvStep, EvolutionAssumption, NoDigestAssumption
  <2> QED BY <2>1 DEF EvolutionInv, LogInv, OwnerInv
<1>1. CASE UNCHANGED seals /\ ~Swapped /\ ~OwnerSeals
  BY <1>1, SealForms DEF LastSealInv, Swapped
<1>2. CASE /\ Swapped /\ Len(seals') = Len(seals) + 1
           /\ seals'[Len(seals) + 1] = SwapRecord /\ SwapRecord \in SealStates
  <2>1. SwapRecord.mode = job'.mode
    BY <1>2, SwapEffect DEF SwapRecord
  <2>2. Len(seals) \in Nat
    BY <1>0, LenProperties
  <2>3. seals' # <<>>
    BY <1>0, <1>2, <2>2, LenProperties, EmptySeq
  <2>4. sealLock' # "owner"
    BY <1>2 DEF Swapped
  <2> QED BY <1>2, <2>1, <2>3, <2>4 DEF LastSealInv
<1>3. CASE /\ OwnerSeals /\ Len(seals') = Len(seals) + 1
           /\ seals'[Len(seals) + 1].mode = "human"
  <2>1. Len(seals) \in Nat
    BY <1>0, LenProperties
  <2>2. seals' # <<>>
    BY <1>0, <1>3, <2>1, LenProperties, EmptySeq
  <2>3. job'.pc # "event"
    BY <1>0, <1>3 DEF OwnerSeals
  <2> QED BY <1>3, <2>2, <2>3 DEF LastSealInv
<1> QED BY <1>1, <1>2, <1>3, SealsKept

LEMMA SealsType ==
  ASSUME EvolutionInv
  PROVE  \A k \in DOMAIN seals : seals[k] \in SealStates
<1>1. seals \in Seq(SealStates)
  BY DEF EvolutionInv, LogInv
<1> QED BY <1>1, LenProperties, ElementOfSeq

\* The link is swapped by a seal only, and the clock goes on while no operation is at work.
LEMMA StoreForms ==
  ASSUME EvolutionInv, [Next]_vars
  PROVE  /\ UNCHANGED store \/ Swapped \/ OwnerSeals
         /\ UNCHANGED day \/ (day' = day + 1 /\ job.pc \in {"free", "dead"} /\ UNCHANGED job)
<1>1. SealCandidate => UNCHANGED store \/ Swapped
  BY DEF SealCandidate, Swapped
<1> QED BY <1>1 DEF Next, JobStep, vars, StartEvolve, StartRevert, IssueEvolve, IssueRevert,
    JudgeCandidate, SealCandidate, RecordCandidate, CloseRequest, AcceptVerdict, GateQuorum,
    OpenPrompt, ShowPrompt, AnswerApprove, AnswerReject, SetAutonomy, OwnerSeals, OwnerRecords,
    RecoverLineage, ReclaimEvolutionLock, Lapse, NextDay, CrashJob, FailJob, OwnerSealStops,
    CrashCaller

-----------------------------------------------------------------------------
(* The gate at work, where the owner leaves it alone *)

\* The owner seals while no operation is at work, and the gate's request is built on the tail
\* it read, of the day it read, with the attempt it recorded.
QuietInv ==
  /\ sealLock = "owner" => job.pc \in {"free", "dead"}
  /\ job.pc \in {"judge", "seal", "event"} => ~TailMoved(job.id) /\ job.now = day
  /\ job.pc \in {"judge", "seal"} => job.run = AutonomousRun
  /\ job.pc \in {"seal", "event"} =>
       requests[job.id].attempt = [mode |-> job.mode, at |-> job.now]

\* The lineage ends at the parent of the request the gate is about to seal.
LEMMA SwapFinds ==
  ASSUME EvolutionInv, TailInv, QuietInv, job.pc \in {"judge", "seal"},
         store.linked = requests[job.id].parent
  PROVE  /\ TailDigest(events) = store.linked /\ Anchors = <<>>
         /\ Len(events) = requests[job.id].parentSeq /\ job.id \in Issued
<1>1. TailDigest(events) = requests[job.id].parent /\ Len(events) = requests[job.id].parentSeq
  BY DEF QuietInv, TailMoved, TailOf
<1> QED BY <1>1, AnchorsAre DEF AnchorEvent, EvolutionInv, JobInv, AtGate

\* What the gate's swap does.
LEMMA SwapForms ==
  ASSUME EvolutionInv, TailInv, QuietInv, [Next]_vars, Swapped
  PROVE  /\ job.pc = "seal" /\ job'.pc = "event" /\ job'.id = job.id /\ job'.mode = job.mode
         /\ job'.now = job.now /\ job.id \in Issued /\ job.mode \in Modes
         /\ TailDigest(events) = store.linked /\ store.linked = requests[job.id].parent
         /\ Len(events) = requests[job.id].parentSeq
         /\ UNCHANGED <<events, requests, day>>
         /\ store' = [linked |-> requests[job.id].candidate, below |-> requests[job.id].parent]
<1>1. /\ TailDigest(events) = store.linked /\ Anchors = <<>>
      /\ Len(events) = requests[job.id].parentSeq
  BY SwapEffect, SwapFinds
<1>2. UNCHANGED events
  BY <1>1, SwapEffect, ConcatEmptySeq DEF EvolutionInv, LogInv
<1> QED BY <1>1, <1>2, SwapEffect

\* Nothing is appended beside the gate.
LEMMA QuietEvents ==
  ASSUME EvolutionInv, TailInv, QuietInv, ~BusyOwner, [Next]_vars,
         job.pc \in {"judge", "seal", "event"}, UNCHANGED job \/ AttemptSet
  PROVE  UNCHANGED <<events, day, seals, store>> /\ sealLock' # "owner"
<1>1. sealLock # "owner"
  BY DEF QuietInv
<1>2. CASE AttemptSet
  BY <1>1, <1>2 DEF AttemptSet, JudgeCandidate
<1>3. CASE UNCHANGED job
  <2>1. ~(OwnerSeals \/ OwnerRecords \/ RecoverLineage \/ NextDay \/ SealCandidate \/ RecordCandidate
          \/ OwnerSealStops)
    BY <1>1, <1>3 DEF OwnerSeals, OwnerRecords, RecoverLineage, Undisturbed, NextDay, SealCandidate,
       RecordCandidate, OwnerSealStops, Free, EvolutionInv, JobInv
  <2> QED BY <1>1, <2>1 DEF Next, JobStep, vars, StartEvolve, StartRevert, IssueEvolve, IssueRevert,
     JudgeCandidate, CloseRequest, AcceptVerdict, GateQuorum, OpenPrompt, ShowPrompt,
     AnswerApprove, AnswerReject, SetAutonomy, ReclaimEvolutionLock, Lapse, CrashJob,
     FailJob, CrashCaller
<1> QED BY <1>2, <1>3

LEMMA QuietStep ==
  ASSUME EvolutionInv, TailInv, QuietInv, ~BusyOwner, [Next]_vars
  PROVE  QuietInv'
<1>0. job.pc \in AtGate => job.id \in Issued
  BY DEF EvolutionInv, JobInv
<1>1. CASE /\ UNCHANGED job /\ ~AttemptSet /\ job.pc \in {"judge", "seal", "event"}
  <2>1. UNCHANGED <<events, day>> /\ sealLock' # "owner"
    BY <1>1, QuietEvents
  <2>2. /\ requests'[job.id].parentSeq = requests[job.id].parentSeq
        /\ requests'[job.id].parent = requests[job.id].parent
        /\ requests'[job.id].attempt = requests[job.id].attempt
    BY <1>0, <1>1, RequestStep DEF AtGate
  <2> QED BY <1>1, <2>1, <2>2 DEF QuietInv, TailMoved, TailOf, AutonomousRun
<1>2. CASE UNCHANGED job /\ job.pc \notin {"judge", "seal", "event"}
  <2>1. sealLock' = "owner" => job.pc \in {"free", "dead"}
    BY SealForms DEF QuietInv, OwnerSeals, Undisturbed
  <2> QED BY <1>2, <2>1 DEF QuietInv
<1>3. CASE job'.pc \in {"free", "dead"} \/ (RecordCandidate /\ job'.pc = "settle")
  BY <1>3 DEF QuietInv, RecordCandidate
<1>4. CASE job'.pc \in {"evolve", "revert"} /\ sealLock # "owner" /\ UNCHANGED sealLock
  BY <1>4 DEF QuietInv
<1>5. CASE Entered
  <2>1. /\ requests'[job'.id].parentSeq = requests[job'.id].parentSeq
        /\ requests'[job'.id].parent = requests[job'.id].parent
    BY <1>5, RequestStep DEF Entered
  <2>2. ~TailMoved(job.id)'
    BY <1>5, <2>1 DEF Entered, TailMoved, TailOf
  <2>3. AutonomousRun' = AutonomousRun
    BY <1>5 DEF Entered, AutonomousRun
  <2> QED BY <1>5, <2>2, <2>3 DEF Entered, QuietInv
<1>6. CASE AttemptSet
  <2>0. job.pc = "judge" /\ job.id \in Issued
    BY <1>0, <1>6 DEF AttemptSet, JudgeCandidate, AtGate
  <2>1. UNCHANGED <<events, day>> /\ sealLock' # "owner"
    BY <1>6, <2>0, QuietEvents
  <2>2. /\ requests'[job.id].parentSeq = requests[job.id].parentSeq
        /\ requests'[job.id].parent = requests[job.id].parent
    BY <2>0, RequestStep
  <2>3. requests'[job.id].attempt = [mode |-> job.mode, at |-> job.now]
    BY <1>6, <2>0 DEF AttemptSet, EvolutionInv, RequestsInv, RequestStates, Issued
  <2>4. /\ job'.id = job.id /\ job'.mode = job.mode /\ job'.run = job.run /\ job'.now = job.now
        /\ job'.pc = "seal"
    BY <1>6 DEF AttemptSet, EvolutionInv, JobInv
  <2>5. AutonomousRun' = AutonomousRun
    BY <2>1 DEF AutonomousRun
  <2>6. ~TailMoved(job.id)'
    BY <2>0, <2>1, <2>2, <2>4 DEF TailMoved, TailOf, QuietInv
  <2> QED BY <2>0, <2>1, <2>3, <2>4, <2>5, <2>6 DEF QuietInv
<1>7. CASE Swapped
  <2>1. /\ job.pc = "seal" /\ job'.pc = "event" /\ job'.id = job.id /\ job'.mode = job.mode
        /\ job'.now = job.now /\ UNCHANGED <<events, requests, day>>
    BY <1>7, SwapForms
  <2> QED BY <1>7, <2>1 DEF QuietInv, TailMoved, TailOf, Swapped
<1> QED BY <1>1, <1>2, <1>3, <1>4, <1>5, <1>6, <1>7, JobForms

-----------------------------------------------------------------------------
(* The seals of the gate and the events that stand for them *)

\* A seal of the gate's that changed the contract.
GateSeals == {k \in DOMAIN seals : seals[k].request # 0 /\ Changing(k)}

RequestOf(k) == requests[seals[k].request]

\* The event that stands for a seal of the gate's: its own, or the one that recovered it.
Traced(k) ==
  LET q == RequestOf(k).parentSeq + 1 IN
  /\ q \in DOMAIN events /\ events[q].digest = RequestOf(k).candidate
  /\ \/ events[q].kind = "sealed" /\ events[q].request = seals[k].request
          /\ events[q].mode = seals[k].mode
     \/ events[q].kind = "recovered" /\ events[q].reason = "unrecorded-seal"

\* The seal has been swapped in and the lineage does not show it yet.
Pending(k) ==
  LET r == RequestOf(k) IN
  /\ k = Len(seals)
  /\ ~TailMoved(seals[k].request)
  /\ store = [linked |-> r.candidate, below |-> r.parent]
  /\ sealLock # "owner"
  /\ job.pc = "event" => job.id = seals[k].request /\ job.mode = seals[k].mode

\* A seal of the gate's is what its request attempted.
Attempted(k) ==
  /\ seals[k].request \in Issued
  /\ seals[k].replaced = RequestOf(k).parent /\ seals[k].digest = RequestOf(k).candidate
  /\ RequestOf(k).attempt = [mode |-> seals[k].mode, at |-> seals[k].at]

SealsInv ==
  /\ \A k \in GateSeals : Attempted(k) /\ (Traced(k) \/ Pending(k))
  /\ \A k, n \in GateSeals : k < n => RequestOf(k).parentSeq < RequestOf(n).parentSeq

LEMMA GateSealsStep ==
  ASSUME EvolutionInv, TailInv, QuietInv, [Next]_vars, NEW k \in GateSeals'
  PROVE  \/ k \in GateSeals /\ seals'[k] = seals[k]
         \/ Swapped /\ k = Len(seals) + 1 /\ seals'[k] = SwapRecord
<1>1. k \in DOMAIN seals' /\ seals'[k].request # 0 /\ seals'[k].replaced # seals'[k].digest
  BY DEF GateSeals, Changing
<1>2. CASE k \in DOMAIN seals
  BY <1>1, <1>2, SealsKept DEF GateSeals, Changing
<1>3. CASE k \notin DOMAIN seals
  BY <1>1, <1>3, SealsKept
<1> QED BY <1>2, <1>3

\* What is pending is linked, and the lineage ends below it.
LEMMA PendingIs ==
  ASSUME EvolutionInv, NEW k \in GateSeals, Attempted(k), Pending(k)
  PROVE  /\ TailDigest(events) = RequestOf(k).parent /\ Len(events) = RequestOf(k).parentSeq
         /\ store.linked = RequestOf(k).candidate /\ store.below = RequestOf(k).parent
         /\ RequestOf(k).parent # RequestOf(k).candidate
  BY DEF Pending, Attempted, TailMoved, TailOf, GateSeals, Changing, RequestOf

\* Nothing is pending while the gate is about to seal.
LEMMA NothingPending ==
  ASSUME EvolutionInv, TailInv, QuietInv, SealsInv, job.pc \in {"judge", "seal"},
         store.linked = requests[job.id].parent, NEW k \in GateSeals
  PROVE  /\ Attempted(k) /\ Traced(k) /\ RequestOf(k).parentSeq < Len(events)
         /\ seals[k].request # job.id
<1>1. /\ TailDigest(events) = store.linked /\ Len(events) = requests[job.id].parentSeq
  BY SwapFinds
<1>2. Attempted(k) /\ Traced(k)
  BY <1>1, PendingIs DEF SealsInv
<1>3. /\ Len(events) \in Nat /\ DOMAIN events = 1..Len(events)
      /\ RequestOf(k).parentSeq \in Nat
  BY <1>2, LenProperties
  DEF EvolutionInv, LogInv, RequestsInv, RequestStates, Issued, Attempted, RequestOf
<1>4. RequestOf(k).parentSeq + 1 \in 1..Len(events)
  BY <1>2, <1>3 DEF Traced
<1>5. RequestOf(k).parentSeq < Len(events)
  BY <1>3, <1>4
<1> QED BY <1>1, <1>2, <1>3, <1>5 DEF RequestOf

\* A request keeps what its seal was made of.
LEMMA AttemptedStays ==
  ASSUME EvolutionInv, TailInv, QuietInv, SealsInv, [Next]_vars, NEW k \in GateSeals
  PROVE  /\ Attempted(k)' /\ RequestOf(k)'.parentSeq = RequestOf(k).parentSeq
         /\ RequestOf(k)'.candidate = RequestOf(k).candidate
         /\ RequestOf(k)'.parent = RequestOf(k).parent
<1>1. Attempted(k) /\ seals'[k] = seals[k] /\ seals[k].request \in Issued
  BY SealsKept DEF SealsInv, GateSeals, Attempted
<1> DEFINE i == seals[k].request
<1>2. /\ i \in Issued' /\ requests'[i].parentSeq = requests[i].parentSeq
      /\ requests'[i].parent = requests[i].parent /\ requests'[i].candidate = requests[i].candidate
      /\ requests'[i].attempt = requests[i].attempt \/ (AttemptSet /\ i = job.id)
  BY <1>1, RequestStep
<1>3. ~(AttemptSet /\ i = job.id)
  BY NothingPending DEF AttemptSet, JudgeCandidate
<1> QED BY <1>1, <1>2, <1>3 DEF Attempted, RequestOf

LEMMA TracedStays ==
  ASSUME EvolutionInv, TailInv, QuietInv, SealsInv, [Next]_vars, NEW k \in GateSeals, Traced(k)
  PROVE  Traced(k)'
<1>1. seals'[k] = seals[k]
  BY SealsKept DEF GateSeals
<1>2. \A q \in DOMAIN events : q \in DOMAIN events' /\ events'[q] = events[q]
  BY EventsKept
<1>3. /\ requests'[seals'[k].request].parentSeq = RequestOf(k).parentSeq
      /\ requests'[seals'[k].request].candidate = RequestOf(k).candidate
  BY AttemptedStays DEF RequestOf
<1> QED BY <1>1, <1>2, <1>3 DEF Traced, RequestOf

\* The next event of the lineage stands for what is pending.
LEMMA PendingStep ==
  ASSUME EvolutionInv, TailInv, QuietInv, SealsInv, ~BusyOwner, [Next]_vars,
         NEW k \in GateSeals, Pending(k)
  PROVE  Traced(k)' \/ Pending(k)'
<1>0. Attempted(k) /\ seals'[k] = seals[k]
  BY SealsKept DEF SealsInv, GateSeals
<1>1. /\ TailDigest(events) = RequestOf(k).parent /\ Len(events) = RequestOf(k).parentSeq
      /\ store.linked = RequestOf(k).candidate /\ store.below = RequestOf(k).parent
      /\ RequestOf(k).parent # RequestOf(k).candidate
  BY <1>0, PendingIs
<1>2. /\ requests'[seals'[k].request].parentSeq = RequestOf(k).parentSeq
      /\ requests'[seals'[k].request].candidate = RequestOf(k).candidate
      /\ requests'[seals'[k].request].parent = RequestOf(k).parent
  BY AttemptedStays DEF RequestOf
<1>3. ~Swapped
  BY <1>1, SwapForms
<1>4. ASSUME NEW e, Appends(e), events' = Append(events, e)
      PROVE  Traced(k)'
  <2>1. /\ Len(events) + 1 \in DOMAIN events' /\ events'[Len(events) + 1] = e
    BY <1>4, AppendsType, Appended DEF EvolutionInv, LogInv, TailInv
  <2>2. CASE AnchorEvent(e)
    <3>1. /\ e.kind = "recovered" /\ e.reason = "unrecorded-seal"
          /\ e.digest = RequestOf(k).candidate
      BY <1>1, <2>2 DEF AnchorEvent
    <3> QED BY <1>1, <1>2, <2>1, <3>1 DEF Traced, RequestOf
  <2>3. CASE /\ RecordCandidate
             /\ e = Attributed(SealedEvent(requests[job.id].parent, requests[job.id].candidate),
                               job.id, job.mode)
    <3>1. job.id = seals[k].request /\ job.mode = seals[k].mode
      BY <2>3 DEF Pending, RecordCandidate
    <3>2. /\ e.kind = "sealed" /\ e.request = seals[k].request /\ e.mode = seals[k].mode
          /\ e.digest = RequestOf(k).candidate
      BY <2>3, <3>1 DEF Attributed, SealedEvent, RequestOf
    <3> QED BY <1>0, <1>1, <1>2, <2>1, <3>2 DEF Traced, RequestOf
  <2>4. ~OwnerRecords
    BY DEF Pending, OwnerRecords
  <2> QED BY <1>4, <2>2, <2>3, <2>4 DEF Appends
<1>5. CASE UNCHANGED events
  <2>1. ~OwnerSeals
    <3>1. OwnerSeals => events' = events \o Anchors
      BY DEF OwnerSeals
    <3>2. ASSUME NEW e, AnchorEvent(e), Anchors = <<e>>, events' = events \o Anchors
          PROVE  FALSE
      <4>1. e \in EventStates
        BY <3>2 DEF AnchorEvent
      <4>2. events' = Append(events, e)
        BY <3>2, <4>1, AppendIsConcat DEF EvolutionInv, LogInv
      <4> QED BY <1>5, <4>1, <4>2, Appended DEF EvolutionInv, LogInv, TailInv
    <3> QED BY <1>1, <3>1, <3>2, AnchorsAre
  <2>2. UNCHANGED <<seals, store>>
    <3>1. ~(OwnerSeals \/ Swapped)
      BY <1>3, <2>1
    <3> QED BY <3>1 DEF Next, JobStep, vars, StartEvolve, StartRevert, IssueEvolve, IssueRevert,
      JudgeCandidate, RecordCandidate, SealCandidate, Swapped, CloseRequest, AcceptVerdict,
      GateQuorum, OpenPrompt, ShowPrompt, AnswerApprove, AnswerReject, SetAutonomy, OwnerRecords,
      RecoverLineage, ReclaimEvolutionLock, Lapse, NextDay, CrashJob, FailJob, OwnerSealStops,
      CrashCaller
  <2>3. /\ sealLock' # "owner"
        /\ job'.pc = "event" => job'.id = seals[k].request /\ job'.mode = seals[k].mode
    BY <1>3, <2>1, SealForms DEF Pending, Swapped
  <2>4. ~TailMoved(seals[k].request)'
    BY <1>0, <1>2, <1>5 DEF TailMoved, TailOf, Pending, RequestOf
  <2> QED BY <1>0, <1>2, <2>2, <2>3, <2>4 DEF Pending, RequestOf
<1> QED BY <1>4, <1>5, EventForms

LEMMA SealsStep ==
  ASSUME EvolutionInv, TailInv, QuietInv, SealsInv, ~BusyOwner, [Next]_vars
  PROVE  SealsInv'
<1>1. ASSUME NEW k \in GateSeals
      PROVE  Attempted(k)' /\ (Traced(k)' \/ Pending(k)')
  BY <1>1, AttemptedStays, TracedStays, PendingStep DEF SealsInv
<1>2. ASSUME Swapped, seals'[Len(seals) + 1] = SwapRecord, NEW k, k = Len(seals) + 1
      PROVE  /\ Attempted(k)' /\ Pending(k)' /\ RequestOf(k)'.parentSeq = Len(events)
  <2>1. /\ job.pc = "seal" /\ job'.pc = "event" /\ job'.id = job.id /\ job'.mode = job.mode
        /\ job.id \in Issued /\ job.mode \in Modes
        /\ TailDigest(events) = store.linked /\ store.linked = requests[job.id].parent
        /\ Len(events) = requests[job.id].parentSeq
        /\ UNCHANGED <<events, requests, day>>
        /\ store' = [linked |-> requests[job.id].candidate, below |-> requests[job.id].parent]
    BY <1>2, SwapForms
  <2>2. /\ SwapRecord.request = job.id /\ SwapRecord.mode = job.mode /\ SwapRecord.at = day
        /\ SwapRecord.replaced = requests[job.id].parent
        /\ SwapRecord.digest = requests[job.id].candidate
    BY <2>1, SwapRecordIs
  <2>3. requests[job.id].attempt = [mode |-> job.mode, at |-> day] /\ ~TailMoved(job.id)
    BY <2>1 DEF QuietInv
  <2>4. Attempted(k)'
    BY <1>2, <2>1, <2>2, <2>3 DEF Attempted, RequestOf, Issued
  <2>5. Len(seals') = Len(seals) + 1 /\ sealLock' # "owner"
    BY <1>2, SwapForms, SealsKept DEF Swapped, OwnerSeals
  <2>6. Pending(k)'
    BY <1>2, <2>1, <2>2, <2>3, <2>5 DEF Pending, RequestOf, TailMoved, TailOf
  <2> QED BY <1>2, <2>1, <2>2, <2>4, <2>6 DEF RequestOf
<1>3. \A k \in GateSeals' : Attempted(k)' /\ (Traced(k)' \/ Pending(k)')
  BY <1>1, <1>2, GateSealsStep
<1>4. ASSUME NEW k \in GateSeals', NEW n \in GateSeals', k < n
      PROVE  RequestOf(k)'.parentSeq < RequestOf(n)'.parentSeq
  <2>1. CASE k \in GateSeals /\ n \in GateSeals
    BY <1>4, <2>1, AttemptedStays DEF SealsInv
  <2>2. CASE k \in GateSeals /\ Swapped /\ n = Len(seals) + 1 /\ seals'[n] = SwapRecord
    <3>1. RequestOf(n)'.parentSeq = Len(events)
      BY <1>2, <2>2
    <3>2. RequestOf(k).parentSeq < Len(events)
      BY <2>2, SwapForms, NothingPending
    <3> QED BY <2>2, <3>1, <3>2, AttemptedStays
  <2>3. k \in DOMAIN seals' /\ n \in DOMAIN seals'
    BY DEF GateSeals
  <2>4. ~(k = Len(seals) + 1)
    BY <1>4, <2>3, SealsKept
  <2> QED BY <1>4, <2>1, <2>2, <2>4, GateSealsStep
<1> QED BY <1>3, <1>4 DEF SealsInv

\* What is sealed stands right after its parent's event.
LEMMA PlacesStep ==
  ASSUME EvolutionInv, TailInv, QuietInv, SealFollowsItsParent, [Next]_vars
  PROVE  SealFollowsItsParent'
<1>0. /\ Len(events) \in Nat /\ DOMAIN events = 1..Len(events) /\ events \in Seq(EventStates)
      /\ \A k \in DOMAIN events : events[k].request \in {0} \cup Issued
  BY LenProperties DEF EvolutionInv, LogInv
<1> SUFFICES ASSUME NEW k \in DOMAIN events', events'[k].kind = "sealed",
                    events'[k].request # 0
             PROVE  k = requests'[events'[k].request].parentSeq + 1
  BY DEF SealFollowsItsParent
<1>1. CASE k \in DOMAIN events
  <2>1. events'[k] = events[k]
    BY <1>1, EventsKept
  <2>2. events[k].request \in Issued /\ k = requests[events[k].request].parentSeq + 1
    BY <1>0, <1>1, <2>1 DEF SealFollowsItsParent
  <2> QED BY <2>1, <2>2, RequestStep
<1>2. CASE k \notin DOMAIN events
  <2>1. PICK e : Appends(e) /\ events' = Append(events, e)
    BY <1>2, EventForms
  <2>2. e \in EventStates
    BY <2>1, AppendsType
  <2>3. k = Len(events) + 1 /\ events'[k] = e
    BY <1>0, <1>2, <2>1, <2>2, Appended DEF TailInv
  <2>4. ~AnchorEvent(e) /\ ~OwnerRecords
    BY <2>1, <2>3 DEF AnchorEvent, Appends, OwnerRecords, RecordCandidate, Attributed, SealedEvent,
       EvolutionInv, OwnerInv
  <2>5. RecordCandidate /\ e.request = job.id
    BY <2>1, <2>4 DEF Appends, Attributed
  <2>6. Len(events) = requests[job.id].parentSeq /\ UNCHANGED requests
    BY <2>5 DEF RecordCandidate, QuietInv, TailMoved, TailOf
  <2> QED BY <2>3, <2>5, <2>6
<1> QED BY <1>1, <1>2

LEMMA QuietInit ==
  ASSUME EvolutionAssumption, NoDigestAssumption, Init
  PROVE  QuietInv /\ LastSealInv /\ SealsInv /\ SealFollowsItsParent
<1> DEFINE e == Attributed(SealedEvent(NoDigest, First), 0, "human")
<1>1. /\ events = <<e>> /\ sealLock = "free" /\ job.pc = "free" /\ seals = <<>>
  BY DEF Init, Free
<1>4. DOMAIN seals = {}
  BY <1>1
<1>2. e.request = 0
  BY DEF Attributed
<1>3. DOMAIN events = {1} /\ events[1] = e
  BY <1>1
<1> HIDE DEF e
<1> QED BY <1>1, <1>2, <1>3, <1>4 DEF QuietInv, LastSealInv, SealsInv, SealFollowsItsParent, GateSeals

\* Where the owner leaves the gate alone, every seal of the gate's that changed the contract is
\* what its request attempted, is shown by the event after its request's parent or is linked
\* above the lineage's end, and later seals are of requests built later.
THEOREM SealsInvariant ==
  ASSUME ~BusyOwner
  PROVE  Spec => [](QuietInv /\ LastSealInv /\ SealsInv /\ SealFollowsItsParent)
<1>1. Init => QuietInv /\ LastSealInv /\ SealsInv /\ SealFollowsItsParent
  BY QuietInit, EvolutionAssumption, NoDigestAssumption
<1>2. /\ EvolutionInv /\ (TailInv /\ ParentsInv) /\ [Next]_vars
      /\ (QuietInv /\ LastSealInv /\ SealsInv /\ SealFollowsItsParent)
      => (QuietInv /\ LastSealInv /\ SealsInv /\ SealFollowsItsParent)'
  BY QuietStep, LastSealStep, SealsStep, PlacesStep
<1> QED BY <1>1, <1>2, EvolutionInvariant, LineageInvariant, PTL DEF Spec

\* "Written before the seal is attempted, so an unrecorded seal can be attributed later"
\* (request-state.ts:60), where the owner leaves the gate alone: once the lineage ends at the
\* linked contract, a request that was sealed reads as sealed, whatever was interrupted.
THEOREM InterruptedSealsAreAttributed ==
  ASSUME ~BusyOwner
  PROVE  Spec => []InterruptedSealIsAttributed
<1>1. ASSUME EvolutionInv, TailInv, SealsInv
      PROVE  InterruptedSealIsAttributed
  <2> SUFFICES ASSUME NEW k \in DOMAIN seals, seals[k].request # 0, Changing(k),
                      Classified = "current"
               PROVE  EffectiveState(seals[k].request) = "sealed"
    BY DEF InterruptedSealIsAttributed
  <2>1. k \in GateSeals /\ Attempted(k) /\ (Traced(k) \/ Pending(k))
    BY <1>1 DEF GateSeals, SealsInv
  <2>2. TailDigest(events) = store.linked
    BY <1>1, AnchorsAre
  <2>3. Traced(k)
    BY <1>1, <2>1, <2>2, PendingIs
  <2>4. RequestOf(k).attempt # NoAttempt
    <3>1. seals[k].mode \in Modes
      BY <1>1, SealsType DEF SealStates
    <3> QED BY <2>1, <3>1 DEF Attempted, NoAttempt, Modes
  <2>5. SealStands(seals[k].request)
    BY <2>3, <2>4 DEF Traced, SealStands, SealedByRequest, SealedThis, RequestOf
  <2> QED BY <2>5, EffectiveStateIs
<1> QED BY <1>1, EvolutionInvariant, LineageInvariant, SealsInvariant, PTL

\* "Comparing the tail eventSeq" (request-state.ts:33), of the seal itself: where the owner
\* leaves the gate alone, a request is sealed right after its parent's event.
THEOREM SealsFollowTheirParents ==
  ASSUME ~BusyOwner
  PROVE  Spec => []SealFollowsItsParent
BY SealsInvariant, PTL

-----------------------------------------------------------------------------
(* The gate between its read of the lineage and its swap *)

\* What leads to the gate's judgement, and from there to its seal.
LEMMA GateForms ==
  ASSUME EvolutionInv, TailInv, [Next]_vars, job'.pc \in {"judge", "seal"}
  PROVE  \/ UNCHANGED job /\ ~AttemptSet
         \/ Entered
         \/ /\ AttemptSet /\ job.pc = "judge" /\ job'.pc = "seal" /\ job.id \in Issued
            /\ job'.id = job.id /\ job'.mode = job.mode /\ job'.run = job.run /\ job'.now = job.now
            /\ UNCHANGED <<events, seals, store, day, due, sealLock>>
<1>1. CASE AttemptSet
  BY <1>1 DEF AttemptSet, JudgeCandidate, EvolutionInv, JobInv, AtGate
<1>2. Swapped => job'.pc = "event"
  BY SwapEffect
<1> QED BY <1>1, <1>2, JobForms

\* Only a verdict completes a quorum, and the gate is at rest then.
LEMMA DueForms ==
  ASSUME EvolutionInv, [Next]_vars, NEW i \in due', i \notin due
  PROVE  job.pc = "free" /\ i \in Issued /\ Len(requests[i].verdicts) < Quorum /\ UNCHANGED job
<1>1. ASSUME NEW j \in Ids, NEW session \in Sessions, NEW approves \in BOOLEAN,
             AcceptVerdict(j, session, approves)
      PROVE  job.pc = "free" /\ i \in Issued /\ Len(requests[i].verdicts) < Quorum /\ UNCHANGED job
  BY <1>1 DEF AcceptVerdict, Binds
<1>2. CASE ~ \E j \in Ids, session \in Sessions, approves \in BOOLEAN :
               AcceptVerdict(j, session, approves)
  BY <1>2 DEF Next, JobStep, vars, StartEvolve, StartRevert, IssueEvolve, IssueRevert,
    JudgeCandidate, SealCandidate, RecordCandidate, CloseRequest, GateQuorum,
    OpenPrompt, ShowPrompt, AnswerApprove, AnswerReject, SetAutonomy, OwnerSeals, OwnerRecords,
    RecoverLineage, ReclaimEvolutionLock, Lapse, NextDay, CrashJob, FailJob, OwnerSealStops,
    CrashCaller
<1> QED BY <1>1, <1>2

\* A quorum is asked once, so what the gate attempts on its own is the last attempt made for
\* its request: nothing brings the request before the gate again.
SpentInv ==
  /\ job.pc = "judge" /\ job.mode = "autonomous" => job.id \notin due
  /\ \A i \in Issued : requests[i].attempt.mode = "autonomous" =>
       /\ Len(requests[i].verdicts) >= Quorum /\ i \notin due
       /\ requests[i].state # "awaiting-human"
       /\ job.pc = "judge" => job.id # i

LEMMA AwaitsAsStored ==
  ASSUME NEW i, EffectiveState(i) = "awaiting-human"
  PROVE  requests[i].state = "awaiting-human"
  BY EffectiveStateIs DEF Terminal

LEMMA SpentStep ==
  ASSUME EvolutionInv, TailInv, GateInv, SpentInv, [Next]_vars
  PROVE  SpentInv'
<1>1. job'.pc = "judge" /\ job'.mode = "autonomous" => job'.id \notin due'
  <2> SUFFICES ASSUME job'.pc = "judge", job'.mode = "autonomous"
               PROVE  job'.id \notin due'
    OBVIOUS
  <2>1. CASE UNCHANGED job
    BY <2>1, DueForms DEF SpentInv
  <2>2. CASE Entered
    BY <2>2 DEF Entered
  <2> QED BY <2>1, <2>2, GateForms
<1> SUFFICES ASSUME NEW i \in Issued', requests'[i].attempt.mode = "autonomous"
             PROVE  /\ Len(requests'[i].verdicts) >= Quorum /\ i \notin due'
                    /\ requests'[i].state # "awaiting-human"
                    /\ job'.pc = "judge" => job'.id # i
  BY <1>1 DEF SpentInv
<1>2. i \in Issued
  BY NewRequest DEF NoAttempt
<1>3. CASE AttemptSet /\ i = job.id
  <2>1. /\ requests'[i].attempt = [mode |-> job.mode, at |-> job.now]
        /\ requests'[i].state = requests[i].state
    BY <1>2, <1>3 DEF AttemptSet, EvolutionInv, RequestsInv, RequestStates, Issued
  <2>2. job.mode = "autonomous" /\ job.pc = "judge"
    BY <1>3, <2>1 DEF AttemptSet, JudgeCandidate
  <2>3. Len(requests[i].verdicts) >= Quorum
    BY <1>3, <2>2 DEF AttemptSet, MaySealAutonomously, QuorumApproves
  <2>4. i \notin due /\ due' = due
    BY <1>3, <2>2 DEF SpentInv, AttemptSet, JudgeCandidate
  <2>5. requests[i].state = "open"
    BY <1>3, <2>2 DEF GateInv, Wanted
  <2>6. job'.pc = "seal"
    BY <1>3 DEF AttemptSet, EvolutionInv, JobInv
  <2> QED BY <1>2, <2>1, <2>3, <2>4, <2>5, <2>6, RequestStep
<1>4. CASE ~(AttemptSet /\ i = job.id)
  <2>1. requests[i].attempt.mode = "autonomous"
    BY <1>2, <1>4, RequestStep
  <2>2. /\ Len(requests[i].verdicts) >= Quorum /\ i \notin due
        /\ requests[i].state # "awaiting-human" /\ (job.pc = "judge" => job.id # i)
    BY <1>2, <2>1 DEF SpentInv
  <2>3. requests'[i].verdicts = requests[i].verdicts
    BY <1>2, <2>2, RequestStep
  <2>4. i \notin due'
    <3>1. Len(requests[i].verdicts) \in Nat /\ Quorum \in Nat
      BY <1>2, EvolutionAssumption, LenProperties
      DEF EvolutionInv, RequestsInv, RequestStates, Issued, EvolutionAssumption
    <3> QED BY <2>2, <3>1, DueForms
  <2>5. EffectiveState(i) # "awaiting-human"
    BY <2>2, AwaitsAsStored
  <2>6. ~(i = job.id /\ JudgeCandidate)
    BY <2>2 DEF JudgeCandidate
  <2>7. requests'[i].state # "awaiting-human"
    BY <1>2, <2>2, <2>5, <2>6, RequestStep
  <2>8. ASSUME job'.pc = "judge"
        PROVE  job'.id # i
    <3>1. CASE UNCHANGED job
      BY <2>2, <2>8, <3>1
    <3>2. CASE Entered
      BY <2>2, <2>5, <3>2 DEF Entered, Wanted
    <3> QED BY <2>8, <3>1, <3>2, GateForms
  <2> QED BY <2>2, <2>3, <2>4, <2>7, <2>8
<1> QED BY <1>3, <1>4

-----------------------------------------------------------------------------
(* The seals the gate made on its own, and the events that stand for them *)

Lone == {k \in AutonomousSeals : Changing(k)}

\* The event in the place of seal k is its own, or recovers it.
Shown(k) ==
  LET s == seals[k] IN
  /\ s.place \in DOMAIN events /\ events[s.place].digest = s.digest
  /\ \/ events[s.place].kind = "sealed" /\ events[s.place].request = s.request
           /\ events[s.place].mode = s.mode
     \/ events[s.place].kind = "recovered" /\ events[s.place].reason = "unrecorded-seal"

\* The lineage ends below what seal k replaced, and the next event stands for seal k.
Unshown(k) ==
  LET s == seals[k] IN
  /\ Len(events) = s.place - 1 /\ TailDigest(events) = s.replaced
  /\ store = [linked |-> s.digest, below |-> s.replaced]
  /\ sealLock # "owner"
  /\ job.pc = "event" => job.id = s.request /\ job.mode = s.mode
  /\ job.pc = "evolve" => job.read = s.digest

\* No attempt was made, or will be, for a request that an event recovering seal k could be
\* taken for.
NoRival(k) ==
  \A i \in Issued :
    (requests[i].parentSeq = seals[k].place - 1 /\ requests[i].candidate = seals[k].digest)
    => /\ requests[i].attempt = NoAttempt /\ Len(events) >= seals[k].place
       /\ job.pc \in AtGate => job.id # i

Accounted(k) ==
  /\ RequestOf(k).attempt = [mode |-> "autonomous", at |-> seals[k].at]
  /\ RequestOf(k).parentSeq < seals[k].place
  /\ Shown(k) \/ Unshown(k)
  /\ RequestOf(k).parentSeq + 1 = seals[k].place \/ NoRival(k)

\* What the owner seals between the gate's reads moves the place of the gate's event away
\* from its request's parent; then a recovered seal is nobody's, and counts all the same.
LoneInv ==
  /\ \A k \in Lone : Accounted(k)
  /\ \A k, n \in Lone : k < n => seals[k].place < seals[n].place

LEMMA LoneIs ==
  ASSUME EvolutionInv, NEW k \in Lone
  PROVE  /\ k \in DOMAIN seals /\ seals[k] \in SealStates /\ seals[k].mode = "autonomous"
         /\ seals[k].request \in Issued
         /\ seals[k].replaced # seals[k].digest
         /\ seals[k].replaced = RequestOf(k).parent /\ seals[k].digest = RequestOf(k).candidate
  BY SealsType DEF Lone, AutonomousSeals, Changing, EvolutionInv, LogInv, RequestOf

LEMMA LoneStep ==
  ASSUME EvolutionInv, TailInv, [Next]_vars, NEW k \in Lone'
  PROVE  \/ k \in Lone /\ seals'[k] = seals[k]
         \/ /\ Swapped /\ job.mode = "autonomous" /\ k = Len(seals) + 1 /\ k \notin DOMAIN seals
            /\ seals'[k] = SwapRecord
<1>1. k \in DOMAIN seals' /\ seals'[k].mode = "autonomous" /\ seals'[k].replaced # seals'[k].digest
  BY DEF Lone, AutonomousSeals, Changing
<1>2. CASE k \in DOMAIN seals
  BY <1>1, <1>2, SealsKept DEF Lone, AutonomousSeals, Changing
<1>3. CASE k \notin DOMAIN seals
  <2>1. SwapRecord.mode = job.mode
    BY DEF SwapRecord
  <2> QED BY <1>1, <1>3, <2>1, SealsKept
<1> QED BY <1>2, <1>3

LEMMA LoneStays ==
  ASSUME EvolutionInv, TailInv, SpentInv, LoneInv, [Next]_vars, NEW k \in Lone
  PROVE  /\ seals'[k] = seals[k] /\ k \in Lone' /\ seals[k].request \in Issued'
         /\ RequestOf(k)'.attempt = RequestOf(k).attempt
         /\ RequestOf(k)'.parentSeq = RequestOf(k).parentSeq
<1>1. seals'[k] = seals[k] /\ k \in DOMAIN seals' /\ k \in DOMAIN seals
  BY LoneIs, SealsKept
<1>2. k \in Lone'
  BY <1>1 DEF Lone, AutonomousSeals, Changing
<1> DEFINE i == seals[k].request
<1>3. i \in Issued /\ requests[i].attempt.mode = "autonomous"
  <2>1. i \in Issued
    BY LoneIs
  <2>2. requests[i].attempt = [mode |-> "autonomous", at |-> seals[k].at]
    BY DEF LoneInv, Accounted, RequestOf
  <2> QED BY <2>1, <2>2
<1>4. ~(AttemptSet /\ i = job.id)
  BY <1>3 DEF SpentInv, AttemptSet, JudgeCandidate
<1> QED BY <1>1, <1>2, <1>3, <1>4, RequestStep DEF RequestOf

LEMMA ShownStays ==
  ASSUME EvolutionInv, TailInv, [Next]_vars, NEW k \in Lone, Shown(k)
  PROVE  Shown(k)'
<1>1. seals'[k] = seals[k]
  BY LoneIs, SealsKept
<1> QED BY <1>1, EventsKept DEF Shown

\* Once the lineage ends at the linked contract, every seal is shown.
LEMMA CurrentShowsAll ==
  ASSUME EvolutionInv, LoneInv, TailDigest(events) = store.linked, NEW k \in Lone
  PROVE  Shown(k)
<1>1. seals[k].replaced # seals[k].digest /\ (Shown(k) \/ Unshown(k))
  BY LoneIs DEF LoneInv, Accounted
<1> QED BY <1>1 DEF Unshown

LEMMA UnshownStep ==
  ASSUME EvolutionInv, TailInv, LoneInv, [Next]_vars, NEW k \in Lone, Unshown(k)
  PROVE  Shown(k)' \/ Unshown(k)'
<1>0. /\ seals'[k] = seals[k] /\ seals[k] \in SealStates /\ seals[k].replaced # seals[k].digest
      /\ seals[k].digest = RequestOf(k).candidate /\ seals[k].place \in Nat
  BY LoneIs, SealsKept DEF SealStates
<1>1. /\ Len(events) = seals[k].place - 1 /\ TailDigest(events) = seals[k].replaced
      /\ store.linked = seals[k].digest /\ store.below = seals[k].replaced
      /\ sealLock # "owner"
      /\ job.pc = "event" => job.id = seals[k].request /\ job.mode = seals[k].mode
      /\ job.pc = "evolve" => job.read = seals[k].digest
  BY DEF Unshown
<1>2. ASSUME NEW e, Appends(e), events' = Append(events, e)
      PROVE  Shown(k)'
  <2>1. /\ Len(events) + 1 \in DOMAIN events' /\ events'[Len(events) + 1] = e
    BY <1>2, AppendsType, Appended DEF EvolutionInv, LogInv, TailInv
  <2>2. seals[k].place = Len(events) + 1
    BY <1>0, <1>1, EventsKept
  <2>3. CASE AnchorEvent(e)
    <3>1. /\ e.kind = "recovered" /\ e.reason = "unrecorded-seal" /\ e.digest = seals[k].digest
      BY <1>1, <2>3 DEF AnchorEvent
    <3> QED BY <1>0, <2>1, <2>2, <3>1 DEF Shown
  <2>4. CASE /\ RecordCandidate
             /\ e = Attributed(SealedEvent(requests[job.id].parent, requests[job.id].candidate),
                               job.id, job.mode)
    <3>1. job.id = seals[k].request /\ job.mode = seals[k].mode
      BY <1>1, <2>4 DEF RecordCandidate
    <3>2. /\ e.kind = "sealed" /\ e.request = seals[k].request /\ e.mode = seals[k].mode
          /\ e.digest = seals[k].digest
      BY <1>0, <2>4, <3>1 DEF Attributed, SealedEvent, RequestOf
    <3> QED BY <1>0, <2>1, <2>2, <3>2 DEF Shown
  <2>5. ~OwnerRecords
    BY <1>1 DEF OwnerRecords
  <2> QED BY <1>2, <2>3, <2>4, <2>5 DEF Appends
<1>3. CASE UNCHANGED events
  <2>1. ~(events' = events \o Anchors)
    <3>1. PICK e : AnchorEvent(e) /\ Anchors = <<e>>
      BY <1>0, <1>1, AnchorsAre
    <3>2. SUFFICES ASSUME events' = events \o Anchors PROVE FALSE
      OBVIOUS
    <3>3. e \in EventStates
      BY <3>1 DEF AnchorEvent
    <3>4. events' = Append(events, e)
      BY <3>1, <3>2, <3>3, AppendIsConcat DEF EvolutionInv, LogInv
    <3> QED BY <1>3, <3>3, <3>4, Appended DEF EvolutionInv, LogInv, TailInv
  <2>2. ~OwnerSeals /\ ~Swapped
    BY <2>1, SwapEffect DEF OwnerSeals
  <2>3. UNCHANGED store
    BY <2>2, StoreForms
  <2>4. /\ sealLock' # "owner"
        /\ job'.pc = "event" => job'.id = seals[k].request /\ job'.mode = seals[k].mode
    BY <1>1, <2>2, SealForms DEF Swapped
  <2>5. job'.pc = "evolve" => job'.read = seals[k].digest
    <3>1. ASSUME job'.pc = "evolve" PROVE UNCHANGED job \/ job'.read = store.linked
      BY <2>2, <3>1, JobForms, GateForms DEF Entered, AttemptSet, JudgeCandidate, EvolutionInv, JobInv
    <3> QED BY <1>1, <3>1
  <2> QED BY <1>0, <1>1, <1>3, <2>3, <2>4, <2>5 DEF Unshown
<1> QED BY <1>2, <1>3, EventForms

LEMMA RivalStep ==
  ASSUME EvolutionInv, TailInv, LoneInv, [Next]_vars, NEW k \in Lone, NoRival(k)
  PROVE  NoRival(k)'
<1>0. /\ seals'[k] = seals[k] /\ seals[k].place \in Nat
      /\ Len(events) \in Nat /\ Len(events') \in {Len(events), Len(events) + 1}
  BY LoneIs, SealsKept, EventsKept DEF SealStates
<1> SUFFICES ASSUME NEW i \in Issued', requests'[i].parentSeq = seals[k].place - 1,
                    requests'[i].candidate = seals[k].digest
             PROVE  /\ requests'[i].attempt = NoAttempt /\ Len(events') >= seals[k].place
                    /\ job'.pc \in AtGate => job'.id # i
  BY <1>0 DEF NoRival
<1>1. CASE i \in Issued
  <2>1. requests[i].parentSeq = seals[k].place - 1 /\ requests[i].candidate = seals[k].digest
    BY <1>1, RequestStep
  <2>2. /\ requests[i].attempt = NoAttempt /\ Len(events) >= seals[k].place
        /\ job.pc \in AtGate => job.id # i
    BY <1>1, <2>1 DEF NoRival
  <2>3. ~(AttemptSet /\ i = job.id)
    BY <2>2 DEF AttemptSet, JudgeCandidate, AtGate
  <2>4. requests'[i].attempt = NoAttempt
    BY <1>1, <2>2, <2>3, RequestStep
  <2>5. ASSUME job'.pc \in AtGate
        PROVE  job'.id # i
    <3>1. CASE Entered
      <4>1. Len(events) = requests[job'.id].parentSeq
        BY <3>1 DEF Entered, TailMoved, TailOf
      <4> QED BY <1>0, <2>1, <2>2, <4>1
    <3>2. (job.pc \in AtGate /\ job'.id = job.id) \/ Entered
      <4>1. CASE AttemptSet
        BY <4>1 DEF AttemptSet, JudgeCandidate, AtGate, EvolutionInv, JobInv
      <4>2. CASE Swapped
        BY <4>2, SwapEffect DEF AtGate
      <4>3. CASE RecordCandidate
        BY <4>3 DEF RecordCandidate, AtGate, EvolutionInv, JobInv
      <4> QED BY <2>5, <4>1, <4>2, <4>3, JobForms DEF AtGate
    <3> QED BY <2>2, <3>1, <3>2
  <2> QED BY <1>0, <2>2, <2>4, <2>5
<1>2. CASE i \notin Issued
  <2>1. /\ requests'[i].attempt = NoAttempt /\ job' = Free /\ UNCHANGED events
        /\ \/ job.pc = "evolve" /\ requests'[i].candidate # job.read
           \/ requests'[i].candidate # store.linked
    BY <1>2, NewRequest
  <2>2. ~Unshown(k)
    BY <2>1 DEF Unshown
  <2>3. seals[k].place \in DOMAIN events
    BY <2>2 DEF LoneInv, Accounted, Shown
  <2>4. Len(events) >= seals[k].place
    BY <1>0, <2>3, EventsKept
  <2>5. job'.pc \notin AtGate
    BY <2>1 DEF Free, AtGate
  <2> QED BY <2>1, <2>4, <2>5
<1> QED BY <1>1, <1>2

-----------------------------------------------------------------------------
(* What the gate goes by, and what it counted, until its swap *)

\* The seals of the current run, and those of the last days.
RunTo(k) ==
  {n \in AutonomousSeals : n <= k /\ Changing(n) /\ \A m \in n..k : seals[m].mode = "autonomous"}

SealedSince(d, span) ==
  {k \in AutonomousSeals : Changing(k) /\ seals[k].at <= d /\ d - seals[k].at < span}

LastIsHuman == seals # <<>> /\ seals[Len(seals)].mode = "human"

\* Whatever the owner seals meanwhile: no request is issued that was built later, what was
\* counted covers the run up to the owner's last seal, and the rate is kept.
EntryInv ==
  job.pc \in {"judge", "seal"} =>
    LET r == requests[job.id] IN
    /\ \A i \in Issued : requests[i].parentSeq <= r.parentSeq
    /\ Len(events) = r.parentSeq => TailDigest(events) = r.parent
    /\ \A k \in Lone : seals[k].place <= r.parentSeq + 1
    /\ job.now = day
    /\ Cardinality(RunTo(Len(seals))) <= job.run \/ LastIsHuman \/ store.linked # r.parent
    /\ job.pc = "seal" => r.attempt = [mode |-> job.mode, at |-> job.now]
    /\ job.pc = "seal" /\ job.mode = "autonomous" =>
         /\ job.run < StallLimit
         /\ Cardinality(SealedSince(day, 1)) < PerDay
         /\ Cardinality(SealedSince(day, WeekTicks)) < PerWeek

LEMMA LoneInvStep ==
  ASSUME EvolutionInv, TailInv, ParentsInv, SpentInv, LoneInv, EntryInv, [Next]_vars
  PROVE  LoneInv'
<1>1. ASSUME NEW k \in Lone
      PROVE  Accounted(k)' /\ seals'[k] = seals[k]
  <2>1. /\ seals'[k] = seals[k] /\ RequestOf(k)'.attempt = RequestOf(k).attempt
        /\ RequestOf(k)'.parentSeq = RequestOf(k).parentSeq /\ Accounted(k)
    BY LoneStays DEF LoneInv
  <2>2. Shown(k)' \/ Unshown(k)'
    BY <2>1, ShownStays, UnshownStep DEF Accounted
  <2>3. RequestOf(k)'.parentSeq + 1 = seals'[k].place \/ NoRival(k)'
    BY <2>1, RivalStep DEF Accounted
  <2> QED BY <2>1, <2>2, <2>3 DEF Accounted
<1>2. ASSUME Swapped, job.mode = "autonomous", NEW k, k = Len(seals) + 1, seals'[k] = SwapRecord
      PROVE  Accounted(k)' /\ seals'[k].place = Len(events) + 1
  <2>1. /\ job.pc = "seal" /\ job'.pc = "event" /\ job'.id = job.id /\ job'.mode = job.mode
        /\ job.id \in Issued /\ job.mode \in Modes
        /\ TailDigest(events) = store.linked /\ store.linked = requests[job.id].parent
        /\ UNCHANGED <<events, requests, day>>
        /\ store' = [linked |-> requests[job.id].candidate, below |-> requests[job.id].parent]
    BY <1>2, SwapEffect
  <2>2. /\ SwapRecord.request = job.id /\ SwapRecord.mode = job.mode /\ SwapRecord.at = day
        /\ SwapRecord.replaced = requests[job.id].parent
        /\ SwapRecord.digest = requests[job.id].candidate
        /\ SwapRecord.place = Len(events) + 1
    BY <2>1 DEF SwapRecord
  <2>3. /\ requests[job.id].attempt = [mode |-> "autonomous", at |-> day]
        /\ requests[job.id].parentSeq <= Len(events)
        /\ \A i \in Issued : requests[i].parentSeq <= requests[job.id].parentSeq
    BY <1>2, <2>1 DEF EntryInv, ParentsInv
  <2>4. /\ Len(events) \in Nat
        /\ \A i \in Issued : requests[i].parentSeq \in Nat
    BY EventsKept DEF EvolutionInv, RequestsInv, RequestStates, Issued
  <2>5. sealLock' # "owner"
    BY <1>2 DEF Swapped
  <2>6. Unshown(k)'
    BY <1>2, <2>1, <2>2, <2>4, <2>5 DEF Unshown
  <2>7. /\ RequestOf(k)'.attempt = [mode |-> "autonomous", at |-> seals'[k].at]
        /\ RequestOf(k)'.parentSeq < seals'[k].place
    BY <1>2, <2>1, <2>2, <2>3, <2>4 DEF RequestOf
  <2>8. RequestOf(k)'.parentSeq + 1 = seals'[k].place \/ NoRival(k)'
    <3>1. RequestOf(k)'.parentSeq = requests[job.id].parentSeq
      BY <1>2, <2>1, <2>2 DEF RequestOf
    <3>2. CASE requests[job.id].parentSeq = Len(events)
      BY <1>2, <2>2, <3>1, <3>2
    <3>3. CASE requests[job.id].parentSeq # Len(events)
      <4>1. \A i \in Issued : requests[i].parentSeq # seals'[k].place - 1
        BY <1>2, <2>1, <2>2, <2>3, <2>4, <3>3
      <4>2. Issued' = Issued
        BY <2>1 DEF Issued
      <4> QED BY <2>1, <4>1, <4>2 DEF NoRival
    <3> QED BY <3>2, <3>3
  <2> QED BY <1>2, <2>2, <2>6, <2>7, <2>8 DEF Accounted
<1>3. \A k \in Lone' : Accounted(k)'
  BY <1>1, <1>2, LoneStep
<1>4. ASSUME NEW k \in Lone', NEW n \in Lone', k < n
      PROVE  seals'[k].place < seals'[n].place
  <2>0. k \in Nat /\ n \in Nat /\ Len(seals) \in Nat
    BY SealsKept DEF Lone, AutonomousSeals
  <2>1. CASE k \in Lone /\ n \in Lone
    BY <1>1, <1>4, <2>1 DEF LoneInv
  <2>2. CASE /\ k \in Lone /\ Swapped /\ job.mode = "autonomous" /\ n = Len(seals) + 1
             /\ seals'[n] = SwapRecord
    <3>1. TailDigest(events) = store.linked
      BY <2>2, SwapEffect
    <3>2. seals[k].place \in DOMAIN events
      BY <2>2, <3>1, CurrentShowsAll DEF Shown
    <3>3. seals'[n].place = Len(events) + 1 /\ seals'[k].place = seals[k].place
      BY <1>1, <1>2, <2>2
    <3>4. Len(events) \in Nat /\ DOMAIN events = 1..Len(events)
      BY EventsKept
    <3> QED BY <3>2, <3>3, <3>4
  <2>3. ASSUME k = Len(seals) + 1, k \notin DOMAIN seals
        PROVE  FALSE
    <3>1. n \in DOMAIN seals'
      BY DEF Lone, AutonomousSeals
    <3>2. n <= Len(seals) + 1
      BY <2>0, <3>1, SealsKept
    <3> QED BY <1>4, <2>0, <2>3, <3>2
  <2> QED BY <2>1, <2>2, <2>3, LoneStep
<1> QED BY <1>3, <1>4 DEF LoneInv

-----------------------------------------------------------------------------
(* What is counted from the lineage *)

\* An event that ends a run stands for a seal of the owner's that came later.
RunsInv ==
  \A k \in Lone : \A q \in DOMAIN events :
    EndsRun(events[q]) /\ q > seals[k].place => \E h \in DOMAIN seals : h > k /\ seals[h].mode = "human"

LEMMA RunsStep ==
  ASSUME EvolutionInv, TailInv, LastSealInv, RunsInv, [Next]_vars
  PROVE  RunsInv'
<1> SUFFICES ASSUME NEW k \in Lone', NEW q \in DOMAIN events', EndsRun(events'[q]),
                    q > seals'[k].place
             PROVE  \E h \in DOMAIN seals' : h > k /\ seals'[h].mode = "human"
  BY DEF RunsInv, EndsRun
<1>0. /\ Len(events) \in Nat /\ DOMAIN events = 1..Len(events) /\ events \in Seq(EventStates)
      /\ events # <<>> /\ Len(seals) \in Nat /\ DOMAIN seals = 1..Len(seals)
      /\ Len(events') \in {Len(events), Len(events) + 1} /\ DOMAIN events' = 1..Len(events')
  BY EventsKept, SealsKept DEF EvolutionInv, LogInv, TailInv
<1>1. CASE Swapped /\ seals'[k] = SwapRecord
  <2>1. seals'[k].place = Len(events') + 1
    BY <1>1 DEF SwapRecord
  <2>2. q \in 1..Len(events') /\ Len(events') \in Nat
    BY EventsKept
  <2>3. ~(q > Len(events') + 1)
    BY <2>2
  <2> QED BY <2>1, <2>3
<1>2. CASE k \in Lone /\ seals'[k] = seals[k]
  <2>2. CASE q \in DOMAIN events
    <3>1. \E h \in DOMAIN seals : h > k /\ seals[h].mode = "human"
      BY <1>2, <2>2, EventsKept DEF RunsInv
    <3> QED BY <3>1, SealsKept
  <2>3. CASE q \notin DOMAIN events
    <3>1. PICK e : Appends(e) /\ events' = Append(events, e)
      BY <2>3, EventForms
    <3>2. events'[q] = e
      BY <1>0, <2>3, <3>1, AppendsType, Appended
    <3>3. e.kind = "sealed" /\ e.mode # "autonomous"
      BY <3>2 DEF EndsRun
    <3>4. RecordCandidate \/ OwnerRecords
      BY <3>1, <3>3 DEF Appends, AnchorEvent
    <3>5. UNCHANGED seals
      BY <3>4 DEF RecordCandidate, OwnerRecords
    <3>6. seals # <<>> /\ seals[Len(seals)].mode = "human"
      <4>1. CASE OwnerRecords
        BY <4>1 DEF OwnerRecords, LastSealInv
      <4>2. CASE RecordCandidate
        <5>1. e.mode = job.mode
          BY <3>1, <3>3, <4>2 DEF Appends, AnchorEvent, RecordCandidate, OwnerRecords, Attributed,
            EvolutionInv, OwnerInv
        <5>2. job.mode \in Modes
          BY <4>2 DEF RecordCandidate, EvolutionInv, JobInv, AtGate
        <5> QED BY <3>3, <4>2, <5>1, <5>2 DEF RecordCandidate, LastSealInv, Modes
      <4> QED BY <3>4, <4>1, <4>2
    <3>7. k \in 1..Len(seals) /\ seals[k].mode = "autonomous"
      BY <1>0, <1>2, LoneIs
    <3>8. k # Len(seals)
      BY <3>6, <3>7
    <3>9. Len(seals) \in DOMAIN seals /\ Len(seals) > k
      <4> DEFINE n == Len(seals)
      <4>1. n \in Nat /\ k \in 1..n /\ k # n /\ DOMAIN seals = 1..n
        BY <1>0, <3>7, <3>8
      <4> HIDE DEF n
      <4>2. n > k /\ n \in DOMAIN seals
        BY <4>1
      <4> QED BY <4>2 DEF n
    <3> QED BY <3>5, <3>6, <3>9
  <2> QED BY <2>2, <2>3
<1> QED BY <1>1, <1>2, LoneStep

\* A set of natural numbers up to n has a maximum.
LEMMA MaxIsMember ==
  ASSUME NEW n \in Nat, NEW S \in SUBSET (0..n), S # {}
  PROVE  Max(S) \in S /\ \A y \in S : Max(S) >= y
<1> DEFINE T == {n - s : s \in S}
           R == OpToRel(<, Nat)
<1>1. T \subseteq Nat /\ T # {}
  <2>1. PICK s \in S : TRUE
    OBVIOUS
  <2>2. n - s \in T
    BY <2>1
  <2> QED BY <2>2
<1>2. PICK t \in T : \A y \in T : <<y, t>> \notin R
  <2> HIDE DEF T
  <2> QED BY <1>1, NatLessThanWellFounded, WFMin
<1>3. \A y \in T : t <= y
  <2> HIDE DEF T, R
  <2> SUFFICES ASSUME NEW y \in T PROVE t <= y
    OBVIOUS
  <2>1. y \in Nat /\ t \in Nat
    BY <1>1
  <2>2. <<y, t>> \in Nat \X Nat /\ <<y, t>>[1] = y /\ <<y, t>>[2] = t
    BY <2>1
  <2>3. R = {ss \in Nat \X Nat : ss[1] < ss[2]}
    BY DEF R, OpToRel
  <2>4. ~(y < t)
    BY <1>2, <2>2, <2>3
  <2> QED BY <2>1, <2>4
<1>4. PICK s \in S : t = n - s
  OBVIOUS
<1>5. \A y \in S : s >= y
  <2> SUFFICES ASSUME NEW y \in S PROVE s >= y
    OBVIOUS
  <2>1. n - y \in T
    OBVIOUS
  <2>2. n - s <= n - y
    BY <1>3, <1>4, <2>1
  <2>3. s \in Int /\ y \in Int /\ n \in Int
    OBVIOUS
  <2> QED BY <2>2, <2>3
<1> QED BY <1>5 DEF Max

\* Seals that are shown are no more than the events that stand for them.
LEMMA TracesCount ==
  ASSUME EvolutionInv, LoneInv, NEW S \in SUBSET Lone, NEW T \in SUBSET DOMAIN events,
         \A k \in S : seals[k].place \in T
  PROVE  /\ IsFiniteSet(S) /\ Cardinality(S) \in Nat /\ Cardinality(T) \in Nat
         /\ Cardinality(S) <= Cardinality(T)
<1>1. IsFiniteSet(T)
  <2>1. DOMAIN events = 1..Len(events) /\ Len(events) \in Nat
    BY LenProperties DEF EvolutionInv, LogInv
  <2>2. IsFiniteSet(1..Len(events))
    BY <2>1, FS_Interval
  <2> QED BY <2>1, <2>2, FS_Subset
<1> DEFINE f == [k \in S |-> seals[k].place]
<1>2. ASSUME NEW k \in S, NEW n \in S, f[k] = f[n]
      PROVE  k = n
  <2>1. seals[k].place = seals[n].place /\ seals[k].place \in Nat
    BY <1>2, LoneIs DEF SealStates
  <2>2. k \in DOMAIN seals /\ n \in DOMAIN seals /\ DOMAIN seals \subseteq Nat
    BY LenProperties, LoneIs DEF EvolutionInv, LogInv
  <2>3. ~(k < n) /\ ~(n < k)
    BY <2>1 DEF LoneInv
  <2> QED BY <2>2, <2>3
<1>3. f \in Injection(S, T)
  <2>1. f \in [S -> T]
    OBVIOUS
  <2> HIDE DEF f
  <2> QED BY <1>2, <2>1 DEF Injection, IsInjective
<1> QED BY <1>1, <1>3, FS_Injection, FS_CardinalityType

LEMMA RunIsCounted ==
  ASSUME EvolutionInv, LoneInv, RunsInv, \A k \in Lone : Shown(k)
  PROVE  /\ Cardinality(RunTo(Len(seals))) <= AutonomousRun
         /\ Cardinality(RunTo(Len(seals))) \in Nat /\ AutonomousRun \in Nat
<1> DEFINE E == {k \in DOMAIN events : EndsRun(events[k])}
           S == {0} \cup E
           last == Max(S)
           T == {k \in DOMAIN events : k > last /\ Counts(events[k])}
<1>0. /\ Len(events) \in Nat /\ DOMAIN events = 1..Len(events)
      /\ Len(seals) \in Nat /\ DOMAIN seals = 1..Len(seals)
  BY LenProperties DEF EvolutionInv, LogInv
<1>1. last \in S
  <2>1. S \in SUBSET (0..Len(events)) /\ S # {}
    BY <1>0
  <2> HIDE DEF S
  <2> QED BY <1>0, <2>1, MaxIsMember
<1>2. AutonomousRun = Cardinality(T)
  BY DEF AutonomousRun
<1>3. ASSUME NEW k \in RunTo(Len(seals))
      PROVE  k \in Lone /\ seals[k].place \in T
  <2> DEFINE q == seals[k].place
  <2>1. /\ k \in Lone /\ seals[k].mode = "autonomous" /\ k \in 1..Len(seals)
        /\ \A m \in k..Len(seals) : seals[m].mode = "autonomous"
    BY <1>0 DEF RunTo, AutonomousSeals, Lone
  <2>2. Shown(k)
    BY <2>1
  <2>3. q \in DOMAIN events /\ Counts(events[q]) /\ ~EndsRun(events[q])
    BY <2>1, <2>2 DEF Shown, Counts, EndsRun
  <2>4. ASSUME last \in E, last > q PROVE FALSE
    <3> HIDE DEF last
    <3>1. PICK h \in DOMAIN seals : h > k /\ seals[h].mode = "human"
      BY <2>1, <2>4 DEF RunsInv
    <3>2. h \in k..Len(seals)
      BY <1>0, <2>1, <3>1
    <3> QED BY <2>1, <3>1, <3>2
  <2>5. q > last
    <3> HIDE DEF last
    <3>1. q \in 1..Len(events)
      BY <1>0, <2>3
    <3>2. CASE last = 0
      BY <3>1, <3>2
    <3>3. CASE last \in E
      <4>1. last \in 1..Len(events) /\ last # q
        BY <1>0, <2>3, <3>3
      <4>2. ~(last > q)
        BY <2>4, <3>3
      <4> HIDE DEF q
      <4> QED BY <1>0, <3>1, <4>1, <4>2
    <3> QED BY <1>1, <3>2, <3>3
  <2> QED BY <2>1, <2>3, <2>5
<1>4. RunTo(Len(seals)) \in SUBSET Lone /\ T \in SUBSET DOMAIN events
  BY <1>3
<1> HIDE DEF T
<1> QED BY <1>2, <1>3, <1>4, TracesCount

LEMMA RateIsCounted ==
  ASSUME EvolutionInv, LoneInv, \A k \in Lone : Shown(k), NEW span
  PROVE  /\ Cardinality(SealedSince(day, span)) <= SealsWithin(span, day)
         /\ Cardinality(SealedSince(day, span)) \in Nat /\ SealsWithin(span, day) \in Nat
<1> DEFINE S == SealedSince(day, span)
           T == {k \in DOMAIN events : CountedSeal(k, span, day)}
<1>1. SealsWithin(span, day) = Cardinality(T)
  BY DEF SealsWithin
<1>2. ASSUME NEW k \in S
      PROVE  k \in Lone /\ seals[k].place \in T
  <2> DEFINE q == seals[k].place
             i == seals[k].request
  <2>1. /\ k \in Lone /\ seals[k].mode = "autonomous" /\ day - seals[k].at < span
    BY DEF SealedSince, AutonomousSeals, Lone
  <2>2. Shown(k) /\ Accounted(k) /\ i \in Issued /\ seals[k].digest = requests[i].candidate
    BY <2>1, LoneIs DEF LoneInv, RequestOf
  <2>3. /\ requests[i].attempt = [mode |-> "autonomous", at |-> seals[k].at]
        /\ requests[i].attempt.mode = "autonomous" /\ requests[i].attempt.at = seals[k].at
    BY <2>2 DEF Accounted, RequestOf
  <2>4. Within(i, span, day) /\ requests[i].attempt # NoAttempt
    BY <2>1, <2>3 DEF Within, NoAttempt
  <2>5. q \in DOMAIN events /\ q \in Nat /\ requests[i].parentSeq \in Nat
    BY <2>1, <2>2, LoneIs
    DEF Shown, SealStates, EvolutionInv, RequestsInv, RequestStates, Issued
  <2>6. CASE events[q].kind = "sealed" /\ events[q].request = i /\ events[q].mode = "autonomous"
    <3>1. Within(events[q].request, span, day)
      BY <2>4, <2>6
    <3>2. CountedSeal(q, span, day)
      BY <2>6, <3>1 DEF CountedSeal
    <3> QED BY <2>1, <2>5, <3>2
  <2>7. CASE events[q].kind = "recovered" /\ events[q].reason = "unrecorded-seal"
    <3>1. CASE requests[i].parentSeq + 1 = q
      <4>1. i \in AttemptsFor(q)
        BY <2>2, <2>3, <2>4, <2>5, <3>1 DEF AttemptsFor, Shown
      <4>2. CountedSeal(q, span, day)
        BY <2>3, <2>4, <2>7, <4>1 DEF CountedSeal
      <4> QED BY <2>1, <2>5, <4>2
    <3>2. CASE NoRival(k)
      <4>1. AttemptsFor(q) = {}
        BY <2>2, <3>2 DEF AttemptsFor, NoRival, Shown
      <4>2. Cardinality(AttemptsFor(q)) # 1
        BY <4>1, FS_EmptySet
      <4>3. CountedSeal(q, span, day)
        BY <2>7, <4>2 DEF CountedSeal
      <4> QED BY <2>1, <2>5, <4>3
    <3> QED BY <2>2, <3>1, <3>2 DEF Accounted, RequestOf
  <2> QED BY <2>1, <2>2, <2>6, <2>7 DEF Shown
<1>3. S \in SUBSET Lone /\ T \in SUBSET DOMAIN events
  BY <1>2
<1> HIDE DEF T, S
<1>4. /\ Cardinality(S) \in Nat /\ Cardinality(T) \in Nat /\ Cardinality(S) <= Cardinality(T)
  BY <1>2, <1>3, TracesCount
<1> QED BY <1>1, <1>4 DEF S

LEMMA SealsAreFinite ==
  ASSUME EvolutionInv, NEW S \in SUBSET DOMAIN seals
  PROVE  IsFiniteSet(S) /\ Cardinality(S) \in Nat
<1>1. DOMAIN seals = 1..Len(seals) /\ Len(seals) \in Nat
  BY LenProperties DEF EvolutionInv, LogInv
<1>2. IsFiniteSet(DOMAIN seals)
  BY <1>1, FS_Interval
<1> QED BY <1>2, FS_Subset, FS_CardinalityType

\* A set that gains at most one member gains at most one in number.
LEMMA GainsOne ==
  ASSUME NEW S, NEW T, NEW x, IsFiniteSet(S)
  PROVE  /\ T \subseteq S => Cardinality(T) <= Cardinality(S) /\ Cardinality(T) \in Nat
         /\ T \subseteq S \cup {x} => Cardinality(T) <= Cardinality(S) + 1 /\ Cardinality(T) \in Nat
         /\ Cardinality(S) \in Nat
<1>1. Cardinality(S) \in Nat
  BY FS_CardinalityType
<1>2. IsFiniteSet(S \cup {x}) /\ Cardinality(S \cup {x}) <= Cardinality(S) + 1
      /\ Cardinality(S \cup {x}) \in Nat
  BY <1>1, FS_AddElement, FS_CardinalityType
<1>3. ASSUME T \subseteq S
      PROVE  Cardinality(T) <= Cardinality(S) /\ Cardinality(T) \in Nat
  BY <1>3, FS_Subset, FS_CardinalityType
<1>4. ASSUME T \subseteq S \cup {x}
      PROVE  Cardinality(T) <= Cardinality(S) + 1 /\ Cardinality(T) \in Nat
  <2>1. Cardinality(T) <= Cardinality(S \cup {x}) /\ Cardinality(T) \in Nat
    BY <1>2, <1>4, FS_Subset, FS_CardinalityType
  <2> QED BY <1>1, <1>2, <2>1
<1> QED BY <1>1, <1>3, <1>4

-----------------------------------------------------------------------------
(* The limits *)

\* No seal is dated later than today.
DatesInv == \A k \in DOMAIN seals : seals[k].at <= day

LEMMA DatesStep ==
  ASSUME EvolutionInv, TailInv, DatesInv, [Next]_vars
  PROVE  DatesInv'
<1>1. day \in Nat /\ day' \in Nat /\ day <= day'
  BY StoreForms DEF EvolutionInv, VaultInv
<1> SUFFICES ASSUME NEW k \in DOMAIN seals'
             PROVE  seals'[k].at <= day'
  BY DEF DatesInv
<1>2. CASE k \in DOMAIN seals
  <2>1. seals[k].at <= day /\ seals[k].at \in Nat /\ seals'[k] = seals[k]
    BY <1>2, SealsKept, SealsType DEF DatesInv, SealStates
  <2> QED BY <1>1, <2>1
<1>3. CASE k \notin DOMAIN seals
  <2>1. SwapRecord.at = day
    BY DEF SwapRecord
  <2>2. seals'[k].at = day
    BY <1>3, <2>1, SealsKept
  <2> QED BY <1>1, <2>2
<1> QED BY <1>2, <1>3

\* While the gate is at work no request is issued, and the seals are the owner's.
LEMMA NothingIssued ==
  ASSUME EvolutionInv, [Next]_vars, job'.pc \in {"judge", "seal"}, NEW i \in Issued'
  PROVE  i \in Issued /\ requests'[i].parentSeq = requests[i].parentSeq
<1>1. i \in Issued
  BY NewRequest DEF Free
<1> QED BY <1>1, RequestStep

LEMMA NothingSealed ==
  ASSUME EvolutionInv, TailInv, [Next]_vars, job'.pc \in {"judge", "seal"}
  PROVE  /\ \A k \in Lone' : k \in Lone /\ seals'[k] = seals[k]
         /\ \A k \in Lone : k \in Lone' /\ seals'[k] = seals[k]
         /\ \/ UNCHANGED <<seals, store>>
            \/ LastIsHuman'
<1>1. ~Swapped
  BY SwapEffect
<1>2. ASSUME NEW k \in Lone
      PROVE  k \in Lone' /\ seals'[k] = seals[k]
  BY LoneIs, SealsKept DEF Lone, AutonomousSeals, Changing
<1>3. CASE UNCHANGED seals /\ ~OwnerSeals
  BY <1>1, <1>2, <1>3, LoneStep, StoreForms
<1>4. CASE Len(seals') = Len(seals) + 1 /\ seals'[Len(seals) + 1].mode = "human"
  <2>1. seals' # <<>>
    BY <1>4, SealsKept
  <2> QED BY <1>1, <1>2, <1>4, <2>1, LoneStep DEF LastIsHuman
<1> QED BY <1>1, <1>3, <1>4, SealsKept

\* A seal is shown when the gate decides on its own, though the owner may have sealed and
\* brought back the request's parent since the lineage was read.
LEMMA JudgedShowsAll ==
  ASSUME EvolutionInv, TailInv, ParentsInv, LoneInv, EntryInv, job.pc = "judge",
         store.linked = requests[job.id].parent, NEW k \in Lone
  PROVE  Shown(k)
<1>1. job.id \in Issued /\ requests[job.id].parentSeq \in Nat /\ Len(events) \in Nat
  BY LenProperties
  DEF EvolutionInv, JobInv, AtGate, RequestsInv, RequestStates, Issued, LogInv
<1>2. requests[job.id].parentSeq <= Len(events) /\ seals[k].place <= requests[job.id].parentSeq + 1
  BY <1>1 DEF ParentsInv, EntryInv
<1>3. CASE Len(events) = requests[job.id].parentSeq
  <2>1. TailDigest(events) = store.linked
    BY <1>3 DEF EntryInv
  <2> QED BY <2>1, CurrentShowsAll
<1>4. CASE Len(events) # requests[job.id].parentSeq
  <2>1. seals[k].place \in Nat
    BY LoneIs DEF SealStates
  <2>2. Len(events) # seals[k].place - 1
    BY <1>1, <1>2, <1>4, <2>1
  <2> QED BY <2>2 DEF LoneInv, Accounted, Unshown
<1> QED BY <1>3, <1>4

LEMMA EntryStep ==
  ASSUME EvolutionInv, TailInv, ParentsInv, SpentInv, LoneInv, RunsInv, EntryInv, [Next]_vars
  PROVE  EntryInv'
<1> SUFFICES ASSUME job'.pc \in {"judge", "seal"}
             PROVE  EntryInv'
  BY DEF EntryInv
<1> DEFINE i == job'.id
           r == requests'[i]
<1>0. /\ i \in Issued' /\ i \in Issued /\ job'.run \in Nat
      /\ r.parentSeq = requests[i].parentSeq /\ r.parent = requests[i].parent
  <2>1. i \in Issued' /\ job'.run \in Nat
    BY EvolutionInvStep, EvolutionAssumption, NoDigestAssumption DEF EvolutionInv, JobInv, AtGate
  <2> QED BY <2>1, NothingIssued, RequestStep
<1>1. /\ Len(events) \in Nat /\ Len(events') \in Nat /\ r.parentSeq \in Nat
      /\ r.parentSeq <= Len(events) /\ Len(events) <= Len(events')
      /\ Len(events') = Len(events) => UNCHANGED events
  BY <1>0, EventsKept DEF EvolutionInv, RequestsInv, RequestStates, Issued, ParentsInv
<1>2. /\ \A j \in Issued' : j \in Issued /\ requests'[j].parentSeq = requests[j].parentSeq
      /\ \A k \in Lone' : k \in Lone /\ seals'[k] = seals[k]
      /\ UNCHANGED <<seals, store>> \/ LastIsHuman'
  BY NothingIssued, NothingSealed
<1>3. ASSUME NEW span
      PROVE  UNCHANGED day => SealedSince(day, span)' = SealedSince(day, span)
  BY NothingSealed DEF SealedSince, Lone
<1>4. UNCHANGED seals => RunTo(Len(seals))' = RunTo(Len(seals))
  BY DEF RunTo, AutonomousSeals, Changing
<1>5. CASE UNCHANGED job /\ ~AttemptSet
  <2>1. /\ job.pc \in {"judge", "seal"} /\ UNCHANGED day
        /\ requests'[i].attempt = requests[i].attempt
    BY <1>0, <1>5, StoreForms, RequestStep
  <2>2. /\ \A j \in Issued : requests[j].parentSeq <= requests[i].parentSeq
        /\ Len(events) = requests[i].parentSeq => TailDigest(events) = requests[i].parent
        /\ \A k \in Lone : seals[k].place <= requests[i].parentSeq + 1
        /\ job.now = day
        /\ Cardinality(RunTo(Len(seals))) <= job.run \/ LastIsHuman
            \/ store.linked # requests[i].parent
        /\ job.pc = "seal" => requests[i].attempt = [mode |-> job.mode, at |-> job.now]
        /\ job.pc = "seal" /\ job.mode = "autonomous" =>
             /\ job.run < StallLimit
             /\ Cardinality(SealedSince(day, 1)) < PerDay
             /\ Cardinality(SealedSince(day, WeekTicks)) < PerWeek
    BY <1>5, <2>1 DEF EntryInv
  <2>3. Len(events') = r.parentSeq => TailDigest(events') = r.parent
    BY <1>0, <1>1, <2>2
  <2>4. Cardinality(RunTo(Len(seals)))' <= job'.run \/ LastIsHuman' \/ store'.linked # r.parent
    BY <1>0, <1>2, <1>4, <1>5, <2>2 DEF LastIsHuman
  <2> QED BY <1>0, <1>2, <1>3, <1>5, <2>1, <2>2, <2>3, <2>4 DEF EntryInv
<1>6. CASE Entered
  <2>1. /\ job'.pc = "judge" /\ job'.run = AutonomousRun /\ job'.now = day
        /\ UNCHANGED <<events, seals, day, store>>
        /\ Len(events) = requests[i].parentSeq /\ TailDigest(events) = requests[i].parent
    BY <1>6 DEF Entered, TailMoved, TailOf
  <2>2. \A j \in Issued : requests[j].parentSeq <= requests[i].parentSeq
    BY <2>1 DEF ParentsInv
  <2>3. ASSUME NEW k \in Lone
        PROVE  seals[k].place <= requests[i].parentSeq + 1
    <3>1. seals[k].place \in Nat /\ (Shown(k) \/ Unshown(k))
      BY LoneIs DEF SealStates, LoneInv, Accounted
    <3>2. DOMAIN events = 1..Len(events)
      BY EventsKept
    <3> QED BY <1>1, <2>1, <3>1, <3>2 DEF Shown, Unshown
  <2>4. Cardinality(RunTo(Len(seals))) <= AutonomousRun \/ store.linked # requests[i].parent
    BY <2>1, CurrentShowsAll, RunIsCounted
  <2>5. Cardinality(RunTo(Len(seals)))' <= job'.run \/ LastIsHuman' \/ store'.linked # r.parent
    BY <1>0, <1>4, <2>1, <2>4
  <2> QED BY <1>0, <1>2, <2>1, <2>2, <2>3, <2>5 DEF EntryInv
<1>7. CASE /\ AttemptSet /\ job.pc = "judge" /\ job'.pc = "seal" /\ job.id \in Issued
           /\ job'.id = job.id /\ job'.mode = job.mode /\ job'.run = job.run /\ job'.now = job.now
           /\ UNCHANGED <<events, seals, store, day, due, sealLock>>
  <2>1. r.attempt = [mode |-> job.mode, at |-> job.now]
    BY <1>0, <1>7 DEF AttemptSet, EvolutionInv, RequestsInv, RequestStates, Issued
  <2>2. /\ \A j \in Issued : requests[j].parentSeq <= requests[i].parentSeq
        /\ Len(events) = requests[i].parentSeq => TailDigest(events) = requests[i].parent
        /\ \A k \in Lone : seals[k].place <= requests[i].parentSeq + 1
        /\ job.now = day
        /\ Cardinality(RunTo(Len(seals))) <= job.run \/ LastIsHuman
            \/ store.linked # requests[i].parent
    BY <1>7 DEF EntryInv
  <2>3. ASSUME job.mode = "autonomous"
        PROVE  /\ job.run < StallLimit
               /\ Cardinality(SealedSince(day, 1)) < PerDay
               /\ Cardinality(SealedSince(day, WeekTicks)) < PerWeek
    <3>1. /\ job.run < StallLimit /\ SealsWithin(1, day) < PerDay
          /\ SealsWithin(WeekTicks, day) < PerWeek
      BY <1>7, <2>2, <2>3 DEF AttemptSet, MaySealAutonomously, AutonomyIsOn, RateAllows
    <3>2. \A k \in Lone : Shown(k)
      BY <1>7, JudgedShowsAll DEF AttemptSet
    <3>3. PerDay \in Nat /\ PerWeek \in Nat
      BY EvolutionAssumption DEF EvolutionAssumption
    <3>4. Cardinality(SealedSince(day, 1)) < PerDay
      BY <3>1, <3>2, <3>3, RateIsCounted
    <3>5. Cardinality(SealedSince(day, WeekTicks)) < PerWeek
      BY <3>1, <3>2, <3>3, RateIsCounted
    <3> QED BY <3>1, <3>4, <3>5
  <2>4. Cardinality(RunTo(Len(seals)))' <= job'.run \/ LastIsHuman' \/ store'.linked # r.parent
    BY <1>0, <1>4, <1>7, <2>2 DEF LastIsHuman
  <2> QED BY <1>0, <1>2, <1>3, <1>7, <2>1, <2>2, <2>3, <2>4 DEF EntryInv
<1> QED BY <1>5, <1>6, <1>7, GateForms

\* The gate's own swap finds the limits with room for one more.
LEMMA SwapAllowed ==
  ASSUME EvolutionInv, TailInv, EntryInv, [Next]_vars, Swapped, job.mode = "autonomous"
  PROVE  /\ Cardinality(RunTo(Len(seals))) < StallLimit
         /\ Cardinality(SealedSince(day, 1)) < PerDay
         /\ Cardinality(SealedSince(day, WeekTicks)) < PerWeek
<1>1. /\ job.pc = "seal" /\ store.linked = requests[job.id].parent
  BY SwapEffect
<1>2. /\ Cardinality(RunTo(Len(seals))) <= job.run \/ LastIsHuman
      /\ job.run < StallLimit
      /\ Cardinality(SealedSince(day, 1)) < PerDay
      /\ Cardinality(SealedSince(day, WeekTicks)) < PerWeek
  BY <1>1 DEF EntryInv
<1>3. StallLimit \in Nat \ {0} /\ job.run \in Nat
  BY EvolutionAssumption DEF EvolutionAssumption, EvolutionInv, JobInv
<1>4. Len(seals) \in Nat /\ DOMAIN seals = 1..Len(seals)
  BY SealsKept
<1>5. CASE LastIsHuman
  <2>1. ASSUME NEW n \in RunTo(Len(seals))
        PROVE  FALSE
    <3>1. n \in 1..Len(seals) /\ \A m \in n..Len(seals) : seals[m].mode = "autonomous"
      BY <1>4 DEF RunTo, AutonomousSeals
    <3>2. Len(seals) \in n..Len(seals)
      BY <1>4, <3>1
    <3> QED BY <1>5, <3>1, <3>2 DEF LastIsHuman
  <2>2. Cardinality(RunTo(Len(seals))) = 0
    BY <2>1, FS_EmptySet
  <2> QED BY <1>2, <1>3, <2>2
<1>6. CASE Cardinality(RunTo(Len(seals))) <= job.run
  <2>1. RunTo(Len(seals)) \in SUBSET DOMAIN seals
    BY DEF RunTo, AutonomousSeals
  <2>2. Cardinality(RunTo(Len(seals))) \in Nat
    BY <2>1, SealsAreFinite
  <2> QED BY <1>2, <1>3, <1>6, <2>2
<1> QED BY <1>2, <1>5, <1>6

\* What a seal adds to a run and to the seals of the last days.
LEMMA SinceStep ==
  ASSUME EvolutionInv, TailInv, [Next]_vars, NEW d \in Nat, NEW span \in Nat
  PROVE  SealedSince(d, span)' \subseteq
           SealedSince(d, span) \cup
             (IF Swapped /\ job.mode = "autonomous" /\ d >= day THEN {Len(seals) + 1} ELSE {})
<1> SUFFICES ASSUME NEW k \in SealedSince(d, span)', k \notin SealedSince(d, span)
             PROVE  Swapped /\ job.mode = "autonomous" /\ d >= day /\ k = Len(seals) + 1
  OBVIOUS
<1>1. /\ k \in DOMAIN seals' /\ seals'[k].mode = "autonomous" /\ seals'[k].at <= d
      /\ seals'[k].replaced # seals'[k].digest /\ d - seals'[k].at < span
  BY DEF SealedSince, AutonomousSeals, Changing
<1>2. k \notin DOMAIN seals
  BY <1>1, SealsKept DEF SealedSince, AutonomousSeals, Changing
<1>3. Swapped /\ k = Len(seals) + 1 /\ seals'[k] = SwapRecord
  BY <1>1, <1>2, SealsKept
<1>4. SwapRecord.mode = job.mode /\ SwapRecord.at = day
  BY DEF SwapRecord
<1>5. day \in Nat
  BY DEF EvolutionInv, VaultInv
<1> QED BY <1>1, <1>3, <1>4, <1>5

RateBound(d) ==
  Cardinality(SealedSince(d, 1)) <= PerDay /\ Cardinality(SealedSince(d, WeekTicks)) <= PerWeek

LEMMA RateStep ==
  ASSUME EvolutionInv, TailInv, DatesInv, EntryInv, [Next]_vars,
         \A d \in 0..day : RateBound(d)
  PROVE  \A d \in 0..day' : RateBound(d)'
<1>0. /\ day \in Nat /\ PerDay \in Nat /\ PerWeek \in Nat /\ WeekTicks \in Nat /\ 1 \in Nat
  BY EvolutionAssumption DEF EvolutionAssumption, EvolutionInv, VaultInv
<1> SUFFICES ASSUME NEW d \in 0..day'
             PROVE  RateBound(d)'
  OBVIOUS
<1>1. ASSUME NEW c \in Nat, NEW span
      PROVE  IsFiniteSet(SealedSince(c, span)) /\ Cardinality(SealedSince(c, span)) \in Nat
  <2>1. SealedSince(c, span) \in SUBSET DOMAIN seals
    BY DEF SealedSince, AutonomousSeals
  <2> QED BY <2>1, SealsAreFinite
<1>2. CASE Swapped
  <2>1. day' = day /\ d \in 0..day /\ d \in Nat
    BY <1>0, <1>2, SwapEffect
  <2>2. CASE d < day \/ job.mode # "autonomous"
    <3>1. ASSUME NEW span \in Nat
          PROVE  Cardinality(SealedSince(d, span)') <= Cardinality(SealedSince(d, span))
                 /\ Cardinality(SealedSince(d, span)') \in Nat
      <4>1. SealedSince(d, span)' \subseteq SealedSince(d, span)
        BY <1>0, <2>1, <2>2, SinceStep
      <4> QED BY <1>1, <2>1, <4>1, GainsOne
    <3> QED BY <1>0, <1>1, <2>1, <3>1 DEF RateBound
  <2>3. CASE d = day /\ job.mode = "autonomous"
    <3>2. Cardinality(SealedSince(d, 1)) < PerDay /\ Cardinality(SealedSince(d, WeekTicks)) < PerWeek
      BY <1>2, <2>3, SwapAllowed
    <3>3. ASSUME NEW span \in Nat
          PROVE  Cardinality(SealedSince(d, span)') <= Cardinality(SealedSince(d, span)) + 1
                 /\ Cardinality(SealedSince(d, span)') \in Nat
      <4>1. SealedSince(d, span)' \subseteq SealedSince(d, span) \cup {Len(seals) + 1}
        BY <2>1, SinceStep
      <4> QED BY <1>1, <2>1, <4>1, GainsOne
    <3> QED BY <1>0, <1>1, <2>1, <3>2, <3>3 DEF RateBound
  <2> QED BY <1>0, <2>1, <2>2, <2>3
<1>3. CASE ~Swapped
  <2>1. day' = day \/ day' = day + 1
    BY StoreForms
  <2>2. ASSUME NEW c \in Nat, NEW span \in Nat
        PROVE  SealedSince(c, span)' \subseteq SealedSince(c, span)
    BY <1>3, SinceStep
  <2>3. CASE d \in 0..day
    <3>1. d \in Nat
      BY <1>0, <2>3
    <3>2. ASSUME NEW span \in Nat
          PROVE  Cardinality(SealedSince(d, span)') <= Cardinality(SealedSince(d, span))
                 /\ Cardinality(SealedSince(d, span)') \in Nat
      BY <1>1, <2>2, <3>1, GainsOne
    <3> QED BY <1>0, <1>1, <2>3, <3>1, <3>2 DEF RateBound
  <2>4. CASE d \notin 0..day
    <3>1. d = day + 1 /\ d \in Nat
      BY <1>0, <2>1, <2>4
    <3>2. ASSUME NEW span \in Nat
          PROVE  Cardinality(SealedSince(d, span)') <= Cardinality(SealedSince(day, span))
                 /\ Cardinality(SealedSince(d, span)') \in Nat
      <4>1. SealedSince(d, span) \subseteq SealedSince(day, span)
        <5> SUFFICES ASSUME NEW k \in SealedSince(d, span)
                     PROVE  k \in SealedSince(day, span)
          OBVIOUS
        <5>1. k \in AutonomousSeals /\ Changing(k) /\ d - seals[k].at < span
              /\ k \in DOMAIN seals
          BY DEF SealedSince, AutonomousSeals
        <5>2. seals[k].at \in Nat /\ seals[k].at <= day
          BY <5>1, SealsType DEF SealStates, DatesInv
        <5>3. day - seals[k].at < span
          BY <1>0, <3>1, <5>1, <5>2
        <5> QED BY <5>1, <5>2, <5>3 DEF SealedSince
      <4>2. SealedSince(d, span)' \subseteq SealedSince(day, span)
        BY <2>2, <3>1, <4>1
      <4> QED BY <1>0, <1>1, <4>2, GainsOne
    <3>3. RateBound(day)
      BY <1>0
    <3> QED BY <1>0, <1>1, <3>1, <3>2, <3>3 DEF RateBound
  <2> QED BY <2>3, <2>4
<1> QED BY <1>2, <1>3

RunBound == \A k \in DOMAIN seals : Cardinality(RunTo(k)) <= StallLimit

LEMMA RunBoundStep ==
  ASSUME EvolutionInv, TailInv, EntryInv, RunBound, [Next]_vars
  PROVE  RunBound'
<1>0. /\ Len(seals) \in Nat /\ DOMAIN seals = 1..Len(seals) /\ StallLimit \in Nat
      /\ \A k \in DOMAIN seals : k \in DOMAIN seals' /\ seals'[k] = seals[k]
  BY SealsKept, EvolutionAssumption DEF EvolutionAssumption
<1> SUFFICES ASSUME NEW k \in DOMAIN seals'
             PROVE  Cardinality(RunTo(k)') <= StallLimit
  BY DEF RunBound
<1>1. ASSUME NEW n
      PROVE  IsFiniteSet(RunTo(n)) /\ Cardinality(RunTo(n)) \in Nat
  <2>1. RunTo(n) \in SUBSET DOMAIN seals
    BY DEF RunTo, AutonomousSeals
  <2> QED BY <2>1, SealsAreFinite
<1>2. ASSUME NEW n \in RunTo(k)', NEW j \in 0..Len(seals), j <= k, n <= j
      PROVE  n \in RunTo(j)
  <2>1. /\ n \in DOMAIN seals' /\ n <= k /\ seals'[n].replaced # seals'[n].digest
        /\ seals'[n].mode = "autonomous" /\ \A m \in n..k : seals'[m].mode = "autonomous"
    BY DEF RunTo, AutonomousSeals, Changing
  <2>2. DOMAIN seals' \subseteq Nat \ {0} /\ k \in Nat
    BY <1>0, SealsKept
  <2>3. n \in DOMAIN seals /\ seals[n] = seals'[n]
    BY <1>0, <1>2, <2>1, <2>2
  <2>4. ASSUME NEW m \in n..j
        PROVE  seals[m].mode = "autonomous"
    <3>1. m \in n..k /\ m \in DOMAIN seals
      BY <1>0, <1>2, <2>1, <2>2, <2>3
    <3> QED BY <1>0, <2>1, <3>1
  <2> QED BY <1>2, <2>1, <2>3, <2>4 DEF RunTo, AutonomousSeals, Changing
<1>3. CASE k \in DOMAIN seals
  <2>1. RunTo(k)' \subseteq RunTo(k)
    <3>1. k \in 0..Len(seals) /\ k <= k
      BY <1>0, <1>3
    <3>2. \A n \in RunTo(k)' : n <= k
      BY DEF RunTo
    <3> QED BY <1>2, <3>1, <3>2
  <2>2. Cardinality(RunTo(k)') <= Cardinality(RunTo(k)) /\ Cardinality(RunTo(k)') \in Nat
    BY <1>1, <2>1, GainsOne
  <2> QED BY <1>0, <1>1, <1>3, <2>2 DEF RunBound
<1>4. CASE k = Len(seals) + 1 /\ seals'[k].mode # "autonomous"
  <2>1. RunTo(k)' = {}
    <3> SUFFICES ASSUME NEW n \in RunTo(k)' PROVE FALSE
      OBVIOUS
    <3>1. n <= k /\ n \in DOMAIN seals' /\ \A m \in n..k : seals'[m].mode = "autonomous"
      BY DEF RunTo, AutonomousSeals
    <3>2. n \in Nat /\ k \in Nat
      BY <1>0, <1>4, <3>1, SealsKept
    <3>3. k \in n..k
      BY <3>1, <3>2
    <3> QED BY <1>4, <3>1, <3>3
  <2>2. Cardinality(RunTo(k)') = 0
    BY <2>1, FS_EmptySet
  <2> QED BY <1>0, <2>2
<1>5. CASE k = Len(seals) + 1 /\ seals'[k].mode = "autonomous" /\ k \notin DOMAIN seals
  <2>1. Swapped /\ seals'[k] = SwapRecord
    BY <1>5, SealsKept
  <2>2. job.mode = "autonomous"
    BY <1>5, <2>1 DEF SwapRecord
  <2>3. Cardinality(RunTo(Len(seals))) < StallLimit
    BY <2>1, <2>2, SwapAllowed
  <2>4. RunTo(k)' \subseteq RunTo(Len(seals)) \cup {k}
    <3> SUFFICES ASSUME NEW n \in RunTo(k)', n # k PROVE n \in RunTo(Len(seals))
      OBVIOUS
    <3>1. n <= k /\ n \in DOMAIN seals'
      BY DEF RunTo, AutonomousSeals
    <3>2. n \in Nat
      BY <1>0, <3>1, SealsKept
    <3>3. Len(seals) \in 0..Len(seals) /\ Len(seals) <= k /\ n <= Len(seals)
      BY <1>0, <1>5, <3>1, <3>2
    <3> QED BY <1>2, <3>3
  <2>5. /\ Cardinality(RunTo(k)') <= Cardinality(RunTo(Len(seals))) + 1
        /\ Cardinality(RunTo(k)') \in Nat
    BY <1>1, <2>4, GainsOne
  <2> QED BY <1>0, <1>1, <2>3, <2>5
<1>6. k \in DOMAIN seals \/ (k = Len(seals) + 1 /\ k \notin DOMAIN seals)
  BY <1>0, SealsKept
<1> QED BY <1>3, <1>4, <1>5, <1>6

LimitsInv ==
  /\ SpentInv /\ LoneInv /\ RunsInv /\ DatesInv /\ EntryInv
  /\ RunBound /\ \A d \in 0..day : RateBound(d)

LEMMA LimitsInit ==
  ASSUME EvolutionAssumption, NoDigestAssumption, Init
  PROVE  LastSealInv /\ LimitsInv
<1>1. seals = <<>> /\ job.pc = "free" /\ day = 0 /\ sealLock = "free"
  BY DEF Init, Free
<1>2. DOMAIN seals = {} /\ AutonomousSeals = {}
  BY <1>1 DEF AutonomousSeals
<1>3. \A d, span : SealedSince(d, span) = {}
  BY <1>2 DEF SealedSince
<1>4. PerDay \in Nat /\ PerWeek \in Nat
  BY DEF EvolutionAssumption
<1>5. \A d : RateBound(d)
  BY <1>3, <1>4, FS_EmptySet DEF RateBound
<1>6. \A i \in Issued : requests[i].attempt.mode = "none"
  <2> SUFFICES ASSUME NEW i \in Ids
               PROVE  requests[i].attempt = NoAttempt
    BY DEF Issued, NoAttempt
  <2>1. NoRequest.attempt = NoAttempt
    BY DEF NoRequest
  <2>2. ASSUME NEW d, requests = [[j \in Ids |-> NoRequest] EXCEPT
                 ![1] = [NoRequest EXCEPT !.state = "open", !.base = First, !.parentSeq = 1,
                                          !.parent = First, !.candidate = d]]
        PROVE  requests[i].attempt = NoAttempt
    BY <2>1, <2>2 DEF NoRequest
  <2> QED BY <2>1, <2>2 DEF Init
<1>7. SpentInv
  BY <1>1, <1>6 DEF SpentInv
<1>8. LoneInv /\ RunsInv /\ DatesInv /\ RunBound
  BY <1>2 DEF LoneInv, RunsInv, DatesInv, RunBound, Lone
<1> QED BY <1>1, <1>5, <1>7, <1>8 DEF LimitsInv, LastSealInv, EntryInv

\* Whatever the owner seals while the gate is at work, what is counted from the lineage bounds
\* what was swapped in, and goes on doing so between the gate's judgement and its swap.
THEOREM LimitsInvariant == Spec => [](LastSealInv /\ LimitsInv)
<1>1. Init => LastSealInv /\ LimitsInv
  BY LimitsInit, EvolutionAssumption, NoDigestAssumption
<1>2. /\ EvolutionInv /\ GateInv /\ (TailInv /\ ParentsInv) /\ [Next]_vars
      /\ (LastSealInv /\ LimitsInv)
      => (LastSealInv /\ LimitsInv)'
  <2> SUFFICES ASSUME EvolutionInv, GateInv, TailInv, ParentsInv, [Next]_vars,
                      LastSealInv, LimitsInv
               PROVE  (LastSealInv /\ LimitsInv)'
    OBVIOUS
  <2>1. LastSealInv' /\ SpentInv' /\ RunsInv' /\ DatesInv'
    BY LastSealStep, SpentStep, RunsStep, DatesStep DEF LimitsInv
  <2>2. LoneInv' /\ EntryInv'
    BY LoneInvStep, EntryStep DEF LimitsInv
  <2>3. RunBound' /\ \A d \in 0..day' : RateBound(d)'
    BY RunBoundStep, RateStep DEF LimitsInv
  <2> QED BY <2>1, <2>2, <2>3 DEF LimitsInv
<1> QED BY <1>1, <1>2, EvolutionInvariant, GateInvariant, LineageInvariant, PTL DEF Spec

\* "3 autonomous generations in a row" (seal-gate.ts:39): no more than StallLimit of the
\* gate's own seals are ever swapped in without one of the owner's between them, interrupted
\* seals included, whatever the owner seals while the gate is at work.
THEOREM AutonomousRunsEnd == Spec => []RunsEnd
<1>1. LimitsInv => RunsEnd
  BY DEF LimitsInv, RunBound, RunTo, RunsEnd
<1> QED BY <1>1, LimitsInvariant, PTL

\* "Read from the lineage, never from a counter the loop could forget to bump"
\* (rate-limit.ts:7): no day and no week sees more autonomous seals swapped in than the policy
\* allows, interrupted seals included, whatever the owner seals while the gate is at work.
THEOREM AutonomousRateIsKept == Spec => []RateIsKept
<1>1. LimitsInv => RateIsKept
  BY DEF LimitsInv, RateBound, SealedSince, RateIsKept
<1> QED BY <1>1, LimitsInvariant, PTL
=============================================================================
