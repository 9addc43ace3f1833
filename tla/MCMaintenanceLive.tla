------------------------- MODULE MCMaintenanceLive -------------------------
(***************************************************************************)
(* The life of index maintenance, in one run: processes that attempt the   *)
(* ownership of an index directory, or the controller of the one that has  *)
(* it.  The two share no state; a behaviour is one of those that focus     *)
(* names, and the other stays where it starts.                             *)
(***************************************************************************)
EXTENDS MaintenanceOwner, TLC

CONSTANTS p1, p2, p3, n1

ThreeProcs == {p1, p2, p3}

VARIABLES
  focus,
  disk, excluded, index, queued, events, hints, needsScan, watching, timer, phase, vectorsDue,
  cyc, hook, aborted, stopping, owner, scope, edits, failures, unseen,
  steady  \* cycles are shorter than the interval of the scans, which never falls into one

Controller == INSTANCE MaintenanceController WITH
  Notes <- {n1}, Full <- TRUE, MaxPendingPaths <- 1, BatchSize <- 1, WatcherLoses <- TRUE, Sealed <- TRUE,
  MaxEdits <- 2, MaxFaults <- 2, faults <- failures

ctrlVars == <<disk, excluded, index, queued, events, hints, needsScan, watching, timer, phase,
              vectorsDue, cyc, hook, aborted, stopping, owner, scope, edits, failures, unseen>>

AtWork == focus = "controller"
liveVars == <<vars, ctrlVars, steady, focus>>

LiveInit ==
  /\ Init /\ Controller!Init
  /\ focus \in {"owner", "controller"} /\ steady \in BOOLEAN
  /\ AtWork \/ (~steady /\ watching /\ excluded = {} /\ queued = {} /\ {disk[n1], index[n1]} = {1})

LiveNext ==
  /\ UNCHANGED <<steady, focus>>
  /\ \/ ~AtWork /\ Next /\ UNCHANGED ctrlVars
     \/ AtWork /\ Controller!Event /\ UNCHANGED vars
     \/ AtWork /\ (steady => ~Controller!Active) /\ Controller!Periodic /\ UNCHANGED vars

\* The event loop of a controller runs what is due.
LiveSpec ==
  /\ LiveInit /\ [][LiveNext]_liveVars
  /\ WF_ctrlVars(AtWork /\ Controller!Deliver)
  /\ WF_ctrlVars(AtWork /\ Controller!Periodic)
  /\ WF_ctrlVars(AtWork /\ Controller!Loop)

\* What MaintenanceController states under these names, of the controller.
IndexCatchesUp == AtWork => Controller!IndexCatchesUp
OwnerIsReleased == Controller!OwnerIsReleased
SteadyVectorsCatchUp == AtWork /\ steady => Controller!VectorsCatchUp
=============================================================================
