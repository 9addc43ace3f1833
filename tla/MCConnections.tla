--------------------------- MODULE MCConnections ---------------------------
EXTENDS Connections, TLC
CONSTANTS v1, v2, k, o1, o2
TwoVaults == {v1, v2}
OnePortable == {k}
TwoOps == {o1, o2}
Swaps == Permutations(TwoVaults) \cup Permutations(TwoOps)
=============================================================================
