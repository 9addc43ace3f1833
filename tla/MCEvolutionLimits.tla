------------------------- MODULE MCEvolutionLimits -------------------------
(***************************************************************************)
(* Three small instances of Evolution in one run.  What limits names is    *)
(* chosen at the start: "gate", the instance of the configuration, where   *)
(* the owner seals beside every step; "rate", where only the rate of one   *)
(* autonomous seal a day and a week is in the way of a second; "stall",    *)
(* where only the limit of one in a row is.  In each, one such seal in a   *)
(* window and one in a row are all there may be.                           *)
(***************************************************************************)
EXTENDS Evolution, TLC

CONSTANTS a, b, c, x, y, m, e1

ThreeContracts == {a, b, c}

\* Each of a, b and c is looser than the next; x and y do not loosen each other.
BackwardsLoosens == {<<b, a>>, <<c, a>>, <<c, b>>}

OneEvaluator == {m, e1}
AnyUse == {"evolve", "revert", "approve", "interview"}
Failures == {"crash", "error"}

VARIABLE limits

Rate == INSTANCE Evolution WITH
  Digests <- {x, y}, First <- x,
  StallLimit <- 2, Uses <- {"evolve"}, Faults <- {"error"}, MaxRequests <- 2

Stall == INSTANCE Evolution WITH
  Digests <- {x, y}, First <- x,
  PerDay <- 2, PerWeek <- 2, Uses <- {"evolve", "interview"}, Faults <- {"error"},
  MaxRequests <- 2, MaxDay <- 0

LimitsInit ==
  \/ limits = "gate" /\ Init
  \/ limits = "rate" /\ Rate!Init
  \/ limits = "stall" /\ Stall!Init

LimitsNext ==
  /\ UNCHANGED limits
  /\ \/ limits = "gate" /\ Next
     \/ limits = "rate" /\ Rate!Next
     \/ limits = "stall" /\ Stall!Next

LimitsSpec == LimitsInit /\ [][LimitsNext]_<<vars, limits>>

SessionSymmetry == Permutations(Sessions)
=============================================================================
