--------------------------- MODULE ContractHistory ---------------------------
(***************************************************************************)
(* What the contract store promises of a vault's contracts, whatever       *)
(* crashes and I/O errors interrupt its seals: the contract in place is    *)
(* replaced only once the history ends at it, and the history grows only   *)
(* by the contract in place.  So the history is the sequence of contracts  *)
(* that were in place, and it never lags by more than one.                 *)
(*                                                                         *)
(* A store sealed before the history was kept starts with what it still    *)
(* has: the contract in place, after the one before it when that is kept.  *)
(***************************************************************************)
EXTENDS Sequences

CONSTANTS Digests, NoDigest

VARIABLES current,   \* the contract in place
          recorded   \* the history

Latest == IF recorded = <<>> THEN NoDigest ELSE recorded[Len(recorded)]

Init ==
  /\ current \in Digests \cup {NoDigest}
  /\ recorded = <<>>

Replace ==
  /\ Latest = current
  /\ current' \in Digests
  /\ UNCHANGED recorded

Record ==
  /\ current # NoDigest
  /\ recorded' = Append(recorded, current)
  /\ UNCHANGED current

\* The first record of a store older than its history.
RecordEarlier ==
  /\ recorded = <<>> /\ current # NoDigest
  /\ \E d \in Digests : recorded' \in {<<d>>, <<d, current>>}
  /\ UNCHANGED current

Next == Replace \/ Record \/ RecordEarlier

Spec == Init /\ [][Next]_<<current, recorded>>
=============================================================================
