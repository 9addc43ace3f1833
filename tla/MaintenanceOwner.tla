-------------------------- MODULE MaintenanceOwner --------------------------
(***************************************************************************)
(* Ownership of a directory by one process of a host, as                   *)
(* src/kernel/engine/maintenance-owner.ts acquires and releases it.  Every *)
(* attempt publishes a record under a name nobody uses again, lists the    *)
(* directory and refuses if the record of another process that is not      *)
(* known to be dead is there.                                              *)
(*                                                                         *)
(* A step is one call on the file system.  A token is the ordinal of the   *)
(* attempt that drew it.  A process that has ended may have its id reused, *)
(* and the records it left then look as if they had a live owner.          *)
(***************************************************************************)
EXTENDS Integers, Sequences, FiniteSets

CONSTANTS
  Procs,       \* process ids that attempt the ownership
  MaxOwnerFiles, \* a directory with more entries is refused
  MaxAttempts, \* bound: attempts
  MaxFaults    \* bound: crashes and failed calls

VARIABLES
  claims,   \* tokens with a temporary file
  records,  \* tokens with a published record
  makers,   \* makers[t] is the process that drew token t
  proc,     \* each process: where it is, its token, what it has still to look at
  faults    \* what the bound has left

vars == <<claims, records, makers, proc, faults>>

Idle == [pc |-> "idle", token |-> 0, claimsLeft |-> {}, recordsLeft |-> {}, target |-> 0]
Dead == [Idle EXCEPT !.pc = "dead"]

Owns(p) == proc[p].pc = "owner"

\* Mutant of KnownDead: the process of a record is not looked for.
NotProbed(t) == TRUE

\* process.kill(pid, 0) says the process is gone; an id in use again says it is not.
KnownDead(t) == proc[makers[t]].pc = "dead"


Goto(p, label) == proc' = [proc EXCEPT ![p].pc = label]

-----------------------------------------------------------------------------
(* acquireProcessOwner *)

\* A temporary file is created, written and synchronised.
Claim(p) ==
  LET t == Len(makers) + 1 IN
  /\ proc[p].pc = "idle"
  /\ t <= MaxAttempts
  /\ claims' = claims \cup {t}
  /\ makers' = Append(makers, p)
  /\ proc' = [proc EXCEPT ![p] = [Idle EXCEPT !.pc = "claimed", !.token = t]]
  /\ UNCHANGED <<records, faults>>

Listed(p, cs, rs) ==
  proc' = [proc EXCEPT ![p].pc = "walk", ![p].claimsLeft = cs, ![p].recordsLeft = rs]

\* It is linked to its final name, and for a moment has two.
Publish(p) ==
  /\ proc[p].pc = "claimed"
  /\ records' = records \cup {proc[p].token}
  /\ Goto(p, "linked")
  /\ UNCHANGED <<claims, makers, faults>>

\* The temporary name goes and the record is read back.
Unclaim(p) ==
  /\ proc[p].pc = "linked"
  /\ claims' = claims \ {proc[p].token}
  /\ Goto(p, "published")
  /\ UNCHANGED <<records, makers, faults>>

\* Mutant of List: only attempts that began earlier count as contenders.
ListOlder(p) ==
  /\ proc[p].pc = "published"
  /\ Listed(p, claims, {t \in records : t < proc[p].token})
  /\ UNCHANGED <<claims, records, makers, faults>>

List(p) ==
  LET others == records \ {proc[p].token} IN
  /\ proc[p].pc = "published"
  /\ IF Cardinality(claims) + Cardinality(records) > MaxOwnerFiles
     THEN Goto(p, "leaving")
     ELSE Listed(p, claims, others)
  /\ UNCHANGED <<claims, records, makers, faults>>

\* A claim is no obstacle: its maker has still to list us.  A dead one is pruned.
PassClaim(p) ==
  /\ proc[p].pc = "walk"
  /\ \E t \in proc[p].claimsLeft :
       /\ claims' = IF KnownDead(t) THEN claims \ {t} ELSE claims
       /\ proc' = [proc EXCEPT ![p].claimsLeft = @ \ {t}]
  /\ UNCHANGED <<records, makers, faults>>

\* A record that is gone is passed.  One that still has two names, or whose process is not
\* known to be dead, ends the attempt.
PassRecord(p) ==
  /\ proc[p].pc = "walk"
  /\ \E t \in proc[p].recordsLeft :
       \/ /\ t \notin records
          /\ proc' = [proc EXCEPT ![p].recordsLeft = @ \ {t}]
       \/ /\ t \in records
          /\ t \in claims \/ ~KnownDead(t)
          /\ Goto(p, "leaving")
       \/ /\ t \in records \ claims
          /\ KnownDead(t)
          /\ proc' = [proc EXCEPT ![p].pc = "unlink", ![p].target = t]
  /\ UNCHANGED <<claims, records, makers, faults>>

\* The dead record is removed; one that another process removed first is no error.
RemoveDead(p) ==
  /\ proc[p].pc = "unlink"
  /\ records' = records \ {proc[p].target}
  /\ proc' = [proc EXCEPT ![p].pc = "walk", ![p].recordsLeft = @ \ {proc[p].target},
                          ![p].target = 0]
  /\ UNCHANGED <<claims, makers, faults>>

\* Nothing is left to look at, and our record is still ours.
Succeed(p) ==
  /\ proc[p].pc = "walk"
  /\ proc[p].claimsLeft = {} /\ proc[p].recordsLeft = {}
  /\ Goto(p, IF proc[p].token \in records THEN "owner" ELSE "leaving")
  /\ UNCHANGED <<claims, records, makers, faults>>

-----------------------------------------------------------------------------
(* release, and the end of an attempt that failed *)

Release(p) ==
  /\ Owns(p)
  /\ Goto(p, "leaving")
  /\ UNCHANGED <<claims, records, makers, faults>>

RemoveOwn(p) ==
  /\ proc[p].pc = "leaving"
  /\ records' = records \ {proc[p].token}
  /\ proc' = [proc EXCEPT ![p] = Idle]
  /\ UNCHANGED <<claims, makers, faults>>

-----------------------------------------------------------------------------
(* Faults *)

Spend == faults < MaxFaults /\ faults' = faults + 1

\* The link fails, or removing the temporary name or reading the record back does: the
\* temporary file is removed and a record that has been published stays.
FailToPublish(p) ==
  /\ Spend
  /\ proc[p].pc \in {"claimed", "linked"}
  /\ claims' = claims \ {proc[p].token}
  /\ proc' = [proc EXCEPT ![p] = Idle]
  /\ UNCHANGED <<records, makers>>

\* A contender's entry, or our own record at the end, cannot be read or removed.
FailToWalk(p) ==
  /\ Spend
  /\ proc[p].pc \in {"published", "walk", "unlink"}
  /\ Goto(p, "leaving")
  /\ UNCHANGED <<claims, records, makers>>

Crash(p) ==
  /\ Spend
  /\ proc[p].pc # "dead"
  /\ proc' = [proc EXCEPT ![p] = Dead]
  /\ UNCHANGED <<claims, records, makers>>

\* Another process gets the id.
ReuseId(p) ==
  /\ proc[p].pc = "dead"
  /\ proc' = [proc EXCEPT ![p] = Idle]
  /\ UNCHANGED <<claims, records, makers, faults>>

-----------------------------------------------------------------------------
(* Specification *)

Init ==
  /\ claims = {} /\ records = {} /\ makers = <<>> /\ faults = 0
  /\ proc = [p \in Procs |-> Idle]

\* The steps of an attempt that has begun.
Attempt(p) ==
  \/ Publish(p) \/ Unclaim(p) \/ List(p) \/ PassClaim(p) \/ PassRecord(p)
  \/ RemoveDead(p) \/ Succeed(p) \/ RemoveOwn(p)

Fault(p) == FailToPublish(p) \/ FailToWalk(p) \/ Crash(p) \/ ReuseId(p)

Next == \E p \in Procs : Claim(p) \/ Attempt(p) \/ Release(p) \/ Fault(p)

Spec == Init /\ [][Next]_vars

-----------------------------------------------------------------------------
(* Properties *)

\* Places where a process has a record under its final name.
Standing == {"linked", "published", "walk", "unlink", "owner", "leaving"}
Walking == {"walk", "unlink", "owner"}
Labels == {"idle", "dead", "claimed"} \cup Standing

\* The variables have their types, and a process has a token exactly while it attempts or owns.
TypeOK ==
  /\ makers \in Seq(Procs)
  /\ claims \subseteq DOMAIN makers
  /\ records \subseteq DOMAIN makers
  /\ proc \in [Procs -> [pc : Labels, token : Nat, claimsLeft : SUBSET Nat,
                         recordsLeft : SUBSET Nat, target : Nat]]
  /\ \A p \in Procs : IF proc[p].pc \in {"idle", "dead"}
                      THEN proc[p].token = 0
                      ELSE proc[p].token \in DOMAIN makers /\ makers[proc[p].token] = p
  /\ faults \in Nat

\* "Concurrent arrivals may both refuse; neither may steal" (maintenance-owner.ts:64): two
\* processes never own the directory, whatever order they publish, list and clean in.
OneOwner == \A p, q \in Procs : Owns(p) /\ Owns(q) => p = q

\* Two processes that have both listed the directory: one has the other's record still to
\* look at.  This is what publishing before listing buys.
SomebodyWillSee ==
  \A p, q \in Procs :
    p # q /\ proc[p].pc \in Walking /\ proc[q].pc \in Walking
    => proc[q].token \in proc[p].recordsLeft \/ proc[p].token \in proc[q].recordsLeft

\* "Dead records have never-reused names, so reclamation cannot move a successor"
\* (maintenance-owner.ts:65): nobody but a process itself removes its standing record, not
\* even a cleaner that looked before the process id was used again.
StandingRecordIsKept ==
  \A p \in Procs : proc[p].pc \in Standing => proc[p].token \in records

\* Ownership behaves as an exclusive owner that is followed and never replaced.
Exclusive == INSTANCE ProcessOwner WITH owners <- {p \in Procs : Owns(p)}
ImplementsProcessOwner == Exclusive!Spec
=============================================================================
