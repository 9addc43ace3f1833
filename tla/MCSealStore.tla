----------------------------- MODULE MCSealStore -----------------------------
(* Small instances of SealStore: two processes, two contracts. *)
EXTENDS SealStore, TLC

CONSTANTS p1, p2, a, b

BothProcs == {p1, p2}
OneAtTerminal == {p1}
TwoDigests == {a, b}

\* The stores a vault starts from.
AnyStart == {"empty", "pre-lineage", "legacy"}
EmptyStart == {"empty"}

\* What goes wrong: everything; nothing but that processes end; and, at two terminals, a
\* crash.
AnyFault == FaultKinds
OnlyExits == {"exit"}
OnlyCrashes == {"crash"}

DigestSymmetry == Permutations(TwoDigests)
=============================================================================
