---------------------------- MODULE MCGapLedger ----------------------------
(* A small instance of GapLedger: two writers and one choice. *)
EXTENDS GapLedger

CONSTANTS w1, w2, c1

TwoWriters == {w1, w2}
OneChoice == {c1}
=============================================================================
