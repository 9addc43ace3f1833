---------------------- MODULE MCMaintenanceController ----------------------
(* Small instances of MaintenanceController. *)
EXTENDS MaintenanceController, TLC

CONSTANTS n1, n2

TwoNotes == {n1, n2}
OneNote == {n1}
NoteSymmetry == Permutations(Notes)
=============================================================================
