------------------------------- MODULE Lineage -------------------------------
(***************************************************************************)
(* The contract lineage of one vault (src/kernel/contract/lineage.ts): one *)
(* event per seal, in seal order, and the anchors that start or repair the *)
(* chain.  This module is the pure bookkeeping: what an event is, when it  *)
(* follows the one before, in which of the four cases the lineage is       *)
(* against the store, and what a seal must append before its own event.    *)
(*                                                                         *)
(* An event carries only what the chain rule reads.  eventSeq is the       *)
(* position in the sequence: appendLineageEvents numbers events            *)
(* consecutively after the highest one and no event is ever removed, so    *)
(* the "eventSeq does not increase" violation is the position's own order. *)
(* `from` stands for priorTail (seq-restart) and gapFrom (gap-anchor).     *)
(***************************************************************************)
EXTENDS Integers, Sequences

CONSTANTS Digests,   \* the manifest digests a sealed generation can have
          NoDigest   \* "none": no contract, or nothing readable

ASSUME NoDigestAssumption == NoDigest \notin Digests

ContractDigests == Digests \cup {NoDigest}

Reasons == {"none", "bootstrap", "unrecorded-seal", "seq-restart", "gap-anchor"}

LineageEvents ==
  [kind : {"sealed", "recovered"}, reason : Reasons,
   parent : ContractDigests, digest : ContractDigests, from : ContractDigests]

SealedEvent(parent, digest) ==
  [kind |-> "sealed", reason |-> "none", parent |-> parent,
   digest |-> digest, from |-> NoDigest]

Recovered(reason, parent, digest, from) ==
  [kind |-> "recovered", reason |-> reason, parent |-> parent,
   digest |-> digest, from |-> from]

-----------------------------------------------------------------------------
(* The chain rule *)

\* The digest a lineage ends at.
TailDigest(events) ==
  IF events = <<>> THEN NoDigest ELSE events[Len(events)].digest

\* The digest the event at position i must follow.
ExpectedAt(events, i) == IF i = 1 THEN NoDigest ELSE events[i - 1].digest

\* The negation of chainViolation: event e may stand after a lineage that ends
\* at `expected`, when `kept` are the digests that have a snapshot.
Follows(expected, e, kept) ==
  \/ /\ e.kind = "sealed"
     /\ e.digest # NoDigest
     /\ e.parent = expected
  \/ /\ e.kind = "recovered"
     /\ e.reason = "bootstrap"
     /\ e.parent \in kept \cup {NoDigest}
  \/ /\ e.kind = "recovered"
     /\ e.reason = "seq-restart"
     /\ e.parent = NoDigest /\ e.digest = NoDigest /\ e.from = expected
  \/ /\ e.kind = "recovered"
     /\ e.reason = "gap-anchor"
     /\ e.parent = NoDigest /\ e.digest # NoDigest /\ e.from = expected
  \/ /\ e.kind = "recovered"
     /\ e.reason = "unrecorded-seal"
     /\ e.parent = expected /\ e.digest # NoDigest

\* chainViolations(events, kept) is empty.
Chained(events, kept) ==
  \A i \in DOMAIN events : Follows(ExpectedAt(events, i), events[i], kept)

-----------------------------------------------------------------------------
(* The plan.  `parent` is the linked generation's digest (P), `previous`   *)
(* the retained N-1 generation's digest, each NoDigest when there is none  *)
(* that verifies.                                                          *)

IsSeqRestart(e) == e.kind = "recovered" /\ e.reason = "seq-restart"

Outcomes == {"current", "seq-restart", "unrecorded-seal", "gap"}

\* The lineage already ends at what is linked.
EndsAt(events, parent) ==
  \/ events = <<>>
  \/ TailDigest(events) = parent
  \/ IsSeqRestart(events[Len(events)]) /\ parent = NoDigest

\* The lineage ends at the N-1 generation: only the last seal's event is missing.
EndsAtPrevious(events, previous, kept) ==
  /\ previous # NoDigest
  /\ TailDigest(events) = previous
  /\ Follows(ExpectedAt(events, Len(events)), events[Len(events)], kept)

ClassifyLineageTail(events, parent, previous, kept) ==
  IF EndsAt(events, parent) THEN "current"
  ELSE IF parent = NoDigest THEN "seq-restart"
  ELSE IF EndsAtPrevious(events, previous, kept) THEN "unrecorded-seal"
  ELSE "gap"

\* The anchor that brings the lineage to `parent` in each outcome.
AnchorFor(outcome, tail, parent) ==
  IF outcome = "current" THEN <<>>
  ELSE IF outcome = "seq-restart"
       THEN <<Recovered("seq-restart", NoDigest, NoDigest, tail)>>
  ELSE IF outcome = "unrecorded-seal"
       THEN <<Recovered("unrecorded-seal", tail, parent, NoDigest)>>
  ELSE <<Recovered("gap-anchor", NoDigest, parent, tail)>>

\* The next bootstrap anchor after those drafted so far.
BootstrapAnchor(drafts, digest) ==
  Recovered("bootstrap", TailDigest(drafts), digest, NoDigest)
=============================================================================
