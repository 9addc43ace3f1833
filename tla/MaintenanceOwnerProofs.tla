----------------------- MODULE MaintenanceOwnerProofs -----------------------
(***************************************************************************)
(* The ownership protocol is exclusive for any number of processes, of     *)
(* attempts, of crashes and of reused process ids, and implements          *)
(* ProcessOwner.                                                           *)
(***************************************************************************)
EXTENDS MaintenanceOwner, TLAPS

\* A record about to be removed belongs to no attempt of a process that is running: tokens
\* are never drawn twice, so it cannot come to belong to one either.
TargetsAreLeft ==
  \A p \in Procs : proc[p].pc = "unlink"
    => proc[p].target \in DOMAIN makers /\ \A q \in Procs : proc[q].token # proc[p].target

\* An owner has looked at every record it listed.
OwnersHaveLooked == \A p \in Procs : Owns(p) => proc[p].recordsLeft = {}

Record == [pc : Labels, token : Nat, claimsLeft : SUBSET Nat, recordsLeft : SUBSET Nat, target : Nat]

IInv == TypeOK /\ StandingRecordIsKept /\ SomebodyWillSee /\ TargetsAreLeft /\ OwnersHaveLooked

\* Two processes at work never have one token: TypeOK says whose it is.
LEMMA TokensDiffer ==
  ASSUME TypeOK, NEW p \in Procs, NEW q \in Procs, p # q,
         proc[p].pc \notin {"idle", "dead"}
  PROVE  proc[p].token # proc[q].token
  BY DEF TypeOK

LEMMA InitIInv == Init => IInv
  BY DEF Init, IInv, TypeOK, StandingRecordIsKept, SomebodyWillSee,
     TargetsAreLeft, OwnersHaveLooked, Idle, Labels, Standing, Walking, Owns

LEMMA ClaimIInv ==
  ASSUME IInv, NEW p \in Procs, Claim(p) PROVE IInv'
<1> DEFINE t == Len(makers) + 1
<1>1. /\ makers' = Append(makers, p) /\ makers' \in Seq(Procs)
      /\ t \in DOMAIN makers' /\ t \notin DOMAIN makers /\ makers'[t] = p /\ t \in Nat /\ t # 0
      /\ DOMAIN makers \subseteq DOMAIN makers'
      /\ \A u \in DOMAIN makers : makers'[u] = makers[u]
  BY DEF IInv, TypeOK, Claim
<1>2. /\ proc' = [proc EXCEPT ![p] = [Idle EXCEPT !.pc = "claimed", !.token = t]]
      /\ claims' = claims \cup {t} /\ records' = records /\ faults' = faults
      /\ proc[p].pc = "idle"
  BY DEF Claim
<1>3. proc'[p] = [pc |-> "claimed", token |-> t, claimsLeft |-> {}, recordsLeft |-> {}, target |-> 0]
  BY <1>2 DEF Idle, IInv, TypeOK
<1>4. \A q \in Procs : q # p => proc'[q] = proc[q]
  BY <1>2 DEF IInv, TypeOK
<1>5. TypeOK'
  <2>1. proc' \in [Procs -> [pc : Labels, token : Nat, claimsLeft : SUBSET Nat,
                             recordsLeft : SUBSET Nat, target : Nat]]
    <3>1. proc \in [Procs -> Record] /\ Procs # {} /\ proc'[p] \in Record
      BY <1>3 DEF IInv, TypeOK, Labels, Standing, Record
    <3>2. proc' = [proc EXCEPT ![p] = proc'[p]]
      BY <1>2, <3>1
    <3> HIDE DEF t
    <3> QED BY <3>1, <3>2 DEF Record
  <2>2. \A q \in Procs : IF proc'[q].pc \in {"idle", "dead"}
                         THEN proc'[q].token = 0
                         ELSE proc'[q].token \in DOMAIN makers' /\ makers'[proc'[q].token] = q
    <3> SUFFICES ASSUME NEW q \in Procs
                 PROVE  IF proc'[q].pc \in {"idle", "dead"}
                        THEN proc'[q].token = 0
                        ELSE proc'[q].token \in DOMAIN makers' /\ makers'[proc'[q].token] = q
      OBVIOUS
    <3> HIDE DEF t
    <3>1. CASE q = p  BY <3>1, <1>1, <1>3
    <3>2. CASE q # p  BY <3>2, <1>1, <1>4 DEF IInv, TypeOK
    <3> QED BY <3>1, <3>2
  <2>3. claims' \subseteq DOMAIN makers' /\ records' \subseteq DOMAIN makers' /\ faults' \in Nat
    BY <1>1, <1>2 DEF IInv, TypeOK
  <2> QED BY <2>1, <2>2, <2>3, <1>1 DEF TypeOK
<1>6. TargetsAreLeft'
  <2> SUFFICES ASSUME NEW r \in Procs, proc'[r].pc = "unlink"
               PROVE  /\ proc'[r].target \in DOMAIN makers'
                      /\ \A q \in Procs : proc'[q].token # proc'[r].target
    BY DEF TargetsAreLeft
  <2>1. r # p /\ proc'[r] = proc[r]
    BY <1>3, <1>4
  <2> QED BY <2>1, <1>1, <1>3, <1>4 DEF IInv, TargetsAreLeft
<1>7. /\ StandingRecordIsKept' /\ SomebodyWillSee' /\ OwnersHaveLooked'
  BY <1>2, <1>3, <1>4 DEF IInv, StandingRecordIsKept, SomebodyWillSee, OwnersHaveLooked,
     Standing, Walking, Owns
<1> QED BY <1>5, <1>6, <1>7 DEF IInv

\* What the step of one process has to respect to keep the invariant: its own new record r
\* and the files it leaves.
LEMMA StepOfOne ==
  ASSUME IInv, NEW p \in Procs, NEW r \in Record,
         proc' = [proc EXCEPT ![p] = r],
         makers' = makers, faults' \in Nat,
         claims' \subseteq DOMAIN makers, records' \subseteq DOMAIN makers,
         IF r.pc \in {"idle", "dead"} THEN r.token = 0
         ELSE proc[p].pc \notin {"idle", "dead"} /\ r.token = proc[p].token,
         \A q \in Procs : q # p /\ proc[q].pc \in Standing => proc[q].token \in records',
         r.pc \in Standing => r.token \in records',
         r.pc \in Walking => \A q \in Procs : q # p /\ proc[q].pc \in Walking
                               => proc[q].token \in r.recordsLeft \/ r.token \in proc[q].recordsLeft,
         r.pc = "unlink" => r.target \in DOMAIN makers /\ \A q \in Procs : proc[q].token # r.target,
         r.pc = "owner" => r.recordsLeft = {}
  PROVE  IInv'
<1>1. proc \in [Procs -> Record] /\ proc'[p] = r /\ \A q \in Procs : q # p => proc'[q] = proc[q]
  BY DEF IInv, TypeOK, Record
<1>2. TypeOK'
  <2>1. proc' \in [Procs -> Record]
    BY <1>1
  <2> QED BY <1>1, <2>1 DEF IInv, TypeOK, Record
<1>3. StandingRecordIsKept' /\ OwnersHaveLooked'
  BY <1>1 DEF IInv, StandingRecordIsKept, OwnersHaveLooked, Owns
<1>4. SomebodyWillSee'
  <2> SUFFICES ASSUME NEW a \in Procs, NEW b \in Procs, a # b,
                      proc'[a].pc \in Walking, proc'[b].pc \in Walking
               PROVE  proc'[b].token \in proc'[a].recordsLeft \/ proc'[a].token \in proc'[b].recordsLeft
    BY DEF SomebodyWillSee
  <2> QED BY <1>1 DEF IInv, SomebodyWillSee
<1>5. TargetsAreLeft'
  <2> SUFFICES ASSUME NEW a \in Procs, proc'[a].pc = "unlink"
               PROVE  /\ proc'[a].target \in DOMAIN makers
                      /\ \A q \in Procs : proc'[q].token # proc'[a].target
    BY DEF TargetsAreLeft
  <2>1. proc'[a].target \in DOMAIN makers /\ \A q \in Procs : proc[q].token # proc'[a].target
    BY <1>1 DEF IInv, TargetsAreLeft
  <2>2. 0 \notin DOMAIN makers
    BY DEF IInv, TypeOK
  <2>3. proc'[p].token \in {0, proc[p].token}
    BY <1>1
  <2> QED BY <1>1, <2>1, <2>2, <2>3
<1> QED BY <1>2, <1>3, <1>4, <1>5 DEF IInv

\* The invariant, in the form the action lemmas use it.
LEMMA Facts ==
  ASSUME IInv, NEW p \in Procs
  PROVE  /\ proc \in [Procs -> Record] /\ proc[p] \in Record
         /\ claims \subseteq DOMAIN makers /\ records \subseteq DOMAIN makers
         /\ DOMAIN makers \subseteq Nat /\ 0 \notin DOMAIN makers /\ faults \in Nat
         /\ proc[p].pc \notin {"idle", "dead"} => proc[p].token \in DOMAIN makers
  BY DEF IInv, TypeOK, Record

LEMMA PublishIInv ==
  ASSUME IInv, NEW p \in Procs, Publish(p) PROVE IInv'
<1> DEFINE r == [proc[p] EXCEPT !.pc = "linked"]
<1>1. /\ r \in Record /\ r.pc = "linked" /\ r.token = proc[p].token
      /\ proc' = [proc EXCEPT ![p] = r]
  BY Facts DEF Publish, Goto, Record, Labels, Standing
<1> HIDE DEF r
<1> QED BY <1>1, Facts, StepOfOne DEF Publish, IInv, StandingRecordIsKept, Walking

LEMMA UnclaimIInv ==
  ASSUME IInv, NEW p \in Procs, Unclaim(p) PROVE IInv'
<1> DEFINE r == [proc[p] EXCEPT !.pc = "published"]
<1>1. /\ r \in Record /\ r.pc = "published" /\ r.token = proc[p].token
      /\ proc' = [proc EXCEPT ![p] = r]
  BY Facts DEF Unclaim, Goto, Record, Labels, Standing
<1> HIDE DEF r
<1> QED BY <1>1, Facts, StepOfOne DEF Unclaim, IInv, StandingRecordIsKept, Walking, Standing

\* A process that gives the attempt or the ownership up.
LEMMA LeavingIInv ==
  ASSUME IInv, NEW p \in Procs, proc[p].pc \in Standing, Goto(p, "leaving"),
         claims' = claims, records' = records, makers' = makers, faults' \in Nat
  PROVE  IInv'
<1> DEFINE r == [proc[p] EXCEPT !.pc = "leaving"]
<1>1. /\ r \in Record /\ r.pc = "leaving" /\ r.token = proc[p].token
      /\ proc' = [proc EXCEPT ![p] = r]
  BY Facts DEF Goto, Record, Labels, Standing
<1> HIDE DEF r
<1> QED BY <1>1, Facts, StepOfOne DEF IInv, StandingRecordIsKept, Walking, Standing

LEMMA ListIInv ==
  ASSUME IInv, NEW p \in Procs, List(p) PROVE IInv'
<1>1. CASE Goto(p, "leaving")
  BY <1>1, Facts, LeavingIInv DEF List, Standing
<1>2. CASE Listed(p, claims, records \ {proc[p].token})
  <2> DEFINE r == [proc[p] EXCEPT !.pc = "walk", !.claimsLeft = claims,
                                  !.recordsLeft = records \ {proc[p].token}]
  <2>1. /\ r \in Record /\ r.pc = "walk" /\ r.token = proc[p].token
        /\ r.recordsLeft = records \ {proc[p].token}
        /\ proc' = [proc EXCEPT ![p] = r]
    BY <1>2, Facts DEF Listed, Record, Labels, Standing
  <2>2. \A q \in Procs : q # p /\ proc[q].pc \in Walking => proc[q].token \in r.recordsLeft
    BY <2>1, TokensDiffer DEF List, IInv, StandingRecordIsKept, Walking, Standing
  <2> HIDE DEF r
  <2> QED BY <2>1, <2>2, Facts, StepOfOne DEF List, IInv, StandingRecordIsKept, Standing
<1> QED BY <1>1, <1>2 DEF List

LEMMA PassClaimIInv ==
  ASSUME IInv, NEW p \in Procs, PassClaim(p) PROVE IInv'
<1> PICK t \in proc[p].claimsLeft :
       /\ claims' = IF KnownDead(t) THEN claims \ {t} ELSE claims
       /\ proc' = [proc EXCEPT ![p].claimsLeft = @ \ {t}]
  BY DEF PassClaim
<1> DEFINE r == [proc[p] EXCEPT !.claimsLeft = @ \ {t}]
<1>1. /\ r \in Record /\ r.pc = "walk" /\ r.token = proc[p].token
      /\ r.recordsLeft = proc[p].recordsLeft
      /\ proc' = [proc EXCEPT ![p] = r]
  BY Facts DEF PassClaim, Record
<1>2. claims' \subseteq DOMAIN makers
  BY Facts
<1> HIDE DEF r
<1> QED BY <1>1, <1>2, Facts, StepOfOne
        DEF PassClaim, IInv, StandingRecordIsKept, SomebodyWillSee, Walking, Standing

LEMMA PassRecordIInv ==
  ASSUME IInv, NEW p \in Procs, PassRecord(p) PROVE IInv'
<1> PICK t \in proc[p].recordsLeft :
       \/ t \notin records /\ proc' = [proc EXCEPT ![p].recordsLeft = @ \ {t}]
       \/ Goto(p, "leaving")
       \/ /\ t \in records \ claims /\ KnownDead(t)
          /\ proc' = [proc EXCEPT ![p].pc = "unlink", ![p].target = t]
  BY DEF PassRecord
<1>1. CASE t \notin records /\ proc' = [proc EXCEPT ![p].recordsLeft = @ \ {t}]
  <2> DEFINE r == [proc[p] EXCEPT !.recordsLeft = @ \ {t}]
  <2>1. /\ r \in Record /\ r.pc = "walk" /\ r.token = proc[p].token
        /\ r.recordsLeft = proc[p].recordsLeft \ {t}
        /\ proc' = [proc EXCEPT ![p] = r]
    BY <1>1, Facts DEF PassRecord, Record
  <2>2. \A q \in Procs : proc[q].pc \in Walking => proc[q].token # t
    BY <1>1 DEF IInv, StandingRecordIsKept, Walking, Standing
  <2>3. \A q \in Procs : q # p /\ proc[q].pc \in Walking
          => proc[q].token \in r.recordsLeft \/ r.token \in proc[q].recordsLeft
    BY <2>1, <2>2 DEF PassRecord, IInv, SomebodyWillSee, Walking
  <2> HIDE DEF r
  <2> QED BY <2>1, <2>3, Facts, StepOfOne DEF PassRecord, IInv, StandingRecordIsKept, Standing
<1>2. CASE Goto(p, "leaving")
  BY <1>2, Facts, LeavingIInv DEF PassRecord, Standing
<1>3. CASE /\ t \in records \ claims /\ KnownDead(t)
           /\ proc' = [proc EXCEPT ![p].pc = "unlink", ![p].target = t]
  <2> DEFINE r == [proc[p] EXCEPT !.pc = "unlink", !.target = t]
  <2>0. t \in DOMAIN makers /\ t \in Nat
    BY <1>3, Facts
  <2>1. /\ r \in Record /\ r.pc = "unlink" /\ r.token = proc[p].token /\ r.target = t
        /\ r.recordsLeft = proc[p].recordsLeft
        /\ proc' = [proc EXCEPT ![p] = r]
    BY <1>3, <2>0, Facts DEF PassRecord, Record, Labels, Standing
  <2>2. \A q \in Procs : proc[q].token # t
    BY <1>3, <2>0, Facts DEF KnownDead, IInv, TypeOK
  <2> HIDE DEF r
  <2> QED BY <2>0, <2>1, <2>2, Facts, StepOfOne
          DEF PassRecord, IInv, StandingRecordIsKept, SomebodyWillSee, Walking, Standing
<1> QED BY <1>1, <1>2, <1>3

LEMMA RemoveDeadIInv ==
  ASSUME IInv, NEW p \in Procs, RemoveDead(p) PROVE IInv'
<1> DEFINE t == proc[p].target
           r == [proc[p] EXCEPT !.pc = "walk", !.recordsLeft = @ \ {t}, !.target = 0]
<1>1. /\ r \in Record /\ r.pc = "walk" /\ r.token = proc[p].token
      /\ r.recordsLeft = proc[p].recordsLeft \ {t}
      /\ proc' = [proc EXCEPT ![p] = r]
  BY Facts DEF RemoveDead, Record, Labels, Standing
<1>2. \A q \in Procs : proc[q].token # t
  BY DEF RemoveDead, IInv, TargetsAreLeft
<1>3. \A q \in Procs : q # p /\ proc[q].pc \in Walking
        => proc[q].token \in r.recordsLeft \/ r.token \in proc[q].recordsLeft
  BY <1>1, <1>2 DEF RemoveDead, IInv, SomebodyWillSee, Walking
<1>4. records' = records \ {t}
  BY DEF RemoveDead
<1> HIDE DEF r, t
<1> QED BY <1>1, <1>2, <1>3, <1>4, Facts, StepOfOne
        DEF RemoveDead, IInv, StandingRecordIsKept, Standing

LEMMA SucceedIInv ==
  ASSUME IInv, NEW p \in Procs, Succeed(p) PROVE IInv'
<1>1. proc[p].token \in records
  BY DEF Succeed, IInv, StandingRecordIsKept, Standing
<1> DEFINE r == [proc[p] EXCEPT !.pc = "owner"]
<1>2. /\ r \in Record /\ r.pc = "owner" /\ r.token = proc[p].token
      /\ r.recordsLeft = proc[p].recordsLeft
      /\ proc' = [proc EXCEPT ![p] = r]
  BY <1>1, Facts DEF Succeed, Goto, Record, Labels, Standing
<1> HIDE DEF r
<1> QED BY <1>1, <1>2, Facts, StepOfOne
        DEF Succeed, IInv, StandingRecordIsKept, SomebodyWillSee, Walking, Standing

\* A process that is at rest, or gone, holds no token.
LEMMA RestIInv ==
  ASSUME IInv, NEW p \in Procs, NEW r \in {Idle, Dead}, proc' = [proc EXCEPT ![p] = r],
         makers' = makers, faults' \in Nat, claims' \subseteq claims, records' \subseteq records,
         \A q \in Procs : q # p /\ proc[q].pc \in Standing => proc[q].token \in records'
  PROVE  IInv'
<1>1. r \in Record /\ r.pc \in {"idle", "dead"} /\ r.token = 0
  BY DEF Idle, Dead, Record, Labels, Standing
<1> QED BY <1>1, Facts, StepOfOne DEF Walking, Standing

LEMMA RemoveOwnIInv ==
  ASSUME IInv, NEW p \in Procs, RemoveOwn(p) PROVE IInv'
<1>1. \A q \in Procs : q # p /\ proc[q].pc \in Standing => proc[q].token \in records'
  BY TokensDiffer DEF RemoveOwn, IInv, StandingRecordIsKept, Standing
<1> QED BY <1>1, Facts, RestIInv DEF RemoveOwn

LEMMA NextIInv ==
  ASSUME IInv, NEW p \in Procs, Claim(p) \/ Attempt(p) \/ Release(p) \/ Fault(p)
  PROVE  IInv'
<1>1. CASE Claim(p)  BY <1>1, ClaimIInv
<1>2. CASE Attempt(p)
  BY <1>2, PublishIInv, UnclaimIInv, ListIInv, PassClaimIInv, PassRecordIInv, RemoveDeadIInv,
     SucceedIInv, RemoveOwnIInv DEF Attempt
<1>3. CASE Release(p)
  BY <1>3, Facts, LeavingIInv DEF Release, Owns, Standing
<1>4. CASE FailToPublish(p)
  <2>1. faults' \in Nat /\ claims' \subseteq claims
    BY <1>4, Facts DEF FailToPublish, Spend
  <2> QED BY <1>4, <2>1, RestIInv DEF FailToPublish, IInv, StandingRecordIsKept
<1>5. CASE FailToWalk(p)
  <2>1. proc[p].pc \in Standing /\ faults' \in Nat
    BY <1>5, Facts DEF FailToWalk, Spend, Standing
  <2> QED BY <1>5, <2>1, LeavingIInv DEF FailToWalk
<1>6. CASE Crash(p)
  <2>1. faults' \in Nat
    BY <1>6, Facts DEF Crash, Spend
  <2> QED BY <1>6, <2>1, RestIInv DEF Crash, IInv, StandingRecordIsKept
<1>7. CASE ReuseId(p)
  BY <1>7, Facts, RestIInv DEF ReuseId, IInv, StandingRecordIsKept
<1> QED BY <1>1, <1>2, <1>3, <1>4, <1>5, <1>6, <1>7 DEF Fault

\* Two owners have each looked at every record they listed, and one of them listed the other's.
LEMMA IInvExcludes == IInv => OneOwner
  BY DEF IInv, SomebodyWillSee, OwnersHaveLooked, OneOwner, Owns, Walking

\* The invariant holds in every state of every behaviour.
THEOREM Invariant == Spec => []IInv
<1>1. Init => IInv
  BY InitIInv
<1>2. IInv /\ [Next]_vars => IInv'
  <2> SUFFICES ASSUME IInv, [Next]_vars PROVE IInv'
    OBVIOUS
  <2>1. CASE Next  BY <2>1, NextIInv DEF Next
  <2>2. CASE UNCHANGED vars
    BY <2>2 DEF vars, IInv, TypeOK, StandingRecordIsKept, SomebodyWillSee, TargetsAreLeft,
       OwnersHaveLooked, Owns
  <2> QED BY <2>1, <2>2
<1> QED BY <1>1, <1>2, PTL DEF Spec

\* The variables keep their types (maintenance-owner.ts).
THEOREM TypeCorrect == Spec => []TypeOK
<1>1. IInv => TypeOK
  BY DEF IInv
<1> QED BY <1>1, Invariant, PTL

\* At most one process owns the directory, for any number of processes, attempts, crashes
\* and reused process ids ("neither may steal", maintenance-owner.ts:64).
THEOREM Exclusion == Spec => []OneOwner
  BY Invariant, IInvExcludes, PTL

\* The record of a process at work, or owning, is removed by nobody else
\* (maintenance-owner.ts:115).
THEOREM RecordsAreKept == Spec => []StandingRecordIsKept
<1>1. IInv => StandingRecordIsKept
  BY DEF IInv
<1> QED BY <1>1, Invariant, PTL

Owners == {p \in Procs : Owns(p)}

\* Only one process moves in a step, and only Succeed makes an owner.
LEMMA StepOfOwners ==
  ASSUME IInv, NEW p \in Procs, Claim(p) \/ Attempt(p) \/ Release(p) \/ Fault(p)
  PROVE  /\ \A q \in Procs : q # p => (Owns(q)' <=> Owns(q))
         /\ Owns(p)' => Owns(p) \/ Succeed(p)
<1>1. proc \in [Procs -> Record]
  BY Facts
<1>2. CASE Claim(p)  BY <1>1, <1>2 DEF Claim, Owns, Idle
<1>3. CASE Publish(p) \/ Unclaim(p)
  BY <1>1, <1>3 DEF Publish, Unclaim, Owns, Goto, Record
<1>10. CASE RemoveDead(p)
  BY <1>1, <1>10 DEF RemoveDead, Owns, Record
<1>11. CASE RemoveOwn(p)
  BY <1>1, <1>11 DEF RemoveOwn, Owns, Idle, Record
<1>4. CASE List(p)
  <2>1. CASE Goto(p, "leaving")
    BY <1>1, <1>4, <2>1 DEF Owns, Goto, Record
  <2>2. CASE Listed(p, claims, records \ {proc[p].token})
    BY <1>1, <1>4, <2>2 DEF Listed, Owns, Record
  <2> QED BY <1>4, <2>1, <2>2 DEF List
<1>5. CASE PassClaim(p)
  <2> PICK t \in proc[p].claimsLeft : proc' = [proc EXCEPT ![p].claimsLeft = @ \ {t}]
    BY <1>5 DEF PassClaim
  <2> QED BY <1>1, <1>5 DEF PassClaim, Owns, Record
<1>6. CASE PassRecord(p)
  <2> PICK t \in proc[p].recordsLeft :
         \/ proc' = [proc EXCEPT ![p].recordsLeft = @ \ {t}]
         \/ Goto(p, "leaving")
         \/ proc' = [proc EXCEPT ![p].pc = "unlink", ![p].target = t]
    BY <1>6 DEF PassRecord
  <2> QED BY <1>1, <1>6 DEF PassRecord, Owns, Goto, Record
<1>7. CASE Succeed(p)  BY <1>1, <1>7 DEF Succeed, Owns, Goto
<1>8. CASE Release(p)  BY <1>1, <1>8 DEF Release, Owns, Goto
<1>9. CASE FailToPublish(p) \/ Crash(p) \/ ReuseId(p)
  BY <1>1, <1>9 DEF FailToPublish, Crash, ReuseId, Owns, Idle, Dead, Record
<1>12. CASE FailToWalk(p)
  BY <1>1, <1>12 DEF FailToWalk, Owns, Goto, Record
<1> QED BY <1>2, <1>3, <1>4, <1>5, <1>6, <1>7, <1>8, <1>9, <1>10, <1>11, <1>12 DEF Attempt, Fault

\* The protocol implements an exclusive owner that is followed and never replaced.
THEOREM Refinement == Spec => ImplementsProcessOwner
<1>1. Init => Exclusive!Init
  BY DEF Init, Exclusive!Init, Owns, Idle
<1>2. IInv /\ IInv' /\ [Next]_vars => [Exclusive!Next]_Owners
  <2> SUFFICES ASSUME IInv, IInv', [Next]_vars PROVE Owners' = Owners \/ Exclusive!Next
    BY DEF Owners
  <2>1. CASE UNCHANGED vars
    BY <2>1 DEF vars, Owners, Owns
  <2>2. CASE Next
    <3> PICK p \in Procs : Claim(p) \/ Attempt(p) \/ Release(p) \/ Fault(p)
      BY <2>2 DEF Next
    <3>1. /\ \A q \in Procs : q # p => (Owns(q)' <=> Owns(q))
          /\ Owns(p)' => Owns(p) \/ Succeed(p)
      BY StepOfOwners
    <3>2. OneOwner /\ OneOwner'
      BY IInvExcludes, PTL
    <3>3. CASE Owns(p)' <=> Owns(p)
      BY <3>1, <3>3 DEF Owners
    <3>4. CASE Owns(p)' /\ ~Owns(p)
      <4>1. Owners' = {p} /\ Owners = {}
        BY <3>1, <3>2, <3>4 DEF Owners, OneOwner
      <4>2. Exclusive!Acquire(p)
        BY <4>1 DEF Owners, Exclusive!Acquire
      <4> QED BY <4>2 DEF Exclusive!Next
    <3>5. CASE ~Owns(p)' /\ Owns(p)
      <4>1. p \in Owners /\ Owners' = Owners \ {p}
        BY <3>1, <3>5 DEF Owners
      <4>2. Exclusive!Drop(p)
        BY <4>1 DEF Owners, Exclusive!Drop
      <4> QED BY <4>2 DEF Exclusive!Next
    <3> QED BY <3>3, <3>4, <3>5
  <2> QED BY <2>1, <2>2
<1> QED BY <1>1, <1>2, Invariant, PTL DEF Spec, ImplementsProcessOwner, Exclusive!Spec, Owners
=============================================================================
