------------------------------ MODULE MCLocks ------------------------------
(* A small instance of Locks. *)
EXTENDS Locks, TLC

CONSTANTS p1, p2, p3, t1, here, there, yonder

ThreeProcs == {p1, p2, p3}
OneProc == {p3}
OneTerminal == {t1}

\* Three vaults, each of which had an entry for another path.
VaultOf ==
  p1 :> [path |-> here, id |-> 1] @@ p2 :> [path |-> there, id |-> 2] @@ p3 :> [path |-> yonder, id |-> 3]
AllPaths == {here, there, yonder}
=============================================================================
