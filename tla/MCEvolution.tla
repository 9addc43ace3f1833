---------------------------- MODULE MCEvolution ----------------------------
(* Small instances of Evolution: contracts a, b and c. *)
EXTENDS Evolution, TLC

CONSTANTS a, b, c, m, e1, e2, e3

\* Each contract is looser than the next.
TwoContracts == {a, b}
BackwardsLoosens == {<<b, a>>, <<c, a>>, <<c, b>>} \cap (Digests \X Digests)

\* A maker and one evaluator, or a maker and three.
OneEvaluator == {m, e1}
ThreeEvaluators == {m, e1, e2, e3}

AnyUse == {"evolve", "revert", "approve", "interview"}

Failures == {"crash", "error"}
NoFaults == {}

\* Bound: a day passes, or something fails.
DayOrFault == day = 0 \/ faults = 0

SessionSymmetry == Permutations(Sessions)
=============================================================================
