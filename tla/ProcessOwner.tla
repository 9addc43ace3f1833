---------------------------- MODULE ProcessOwner ----------------------------
(***************************************************************************)
(* What acquireProcessOwner (src/kernel/engine/maintenance-owner.ts)       *)
(* promises its callers: at most one process owns a directory, and an      *)
(* owner is never replaced, only followed by another after it has let go   *)
(* or died ("without live-owner stealing", maintenance-owner.ts:62).       *)
(***************************************************************************)

CONSTANT Procs    \* processes that ask for the ownership

VARIABLE owners   \* the processes that own the directory

Init == owners = {}

Acquire(p) == owners = {} /\ owners' = {p}

\* The owner releases, or its process ends.
Drop(p) == p \in owners /\ owners' = owners \ {p}

Next == \E p \in Procs : Acquire(p) \/ Drop(p)

Spec == Init /\ [][Next]_owners
=============================================================================
