-------------------------- MODULE MCContractIndex --------------------------
(* Three processes register three vaults. *)
EXTENDS ContractIndex, TLC

CONSTANTS p1, p2, p3, v1, v2, v3

ThreeProcs == {p1, p2, p3}
ThreeVaults == p1 :> [path |-> v1, id |-> 1] @@ p2 :> [path |-> v2, id |-> 2] @@ p3 :> [path |-> v3, id |-> 3]
AllStanding == {v1, v2, v3}
=============================================================================
