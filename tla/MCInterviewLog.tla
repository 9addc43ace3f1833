-------------------------- MODULE MCInterviewLog --------------------------
(* A small instance of InterviewLog: three processes that record at the same time. *)
EXTENDS InterviewLog

CONSTANTS w1, w2, w3

ThreeWriters == {w1, w2, w3}
=============================================================================
