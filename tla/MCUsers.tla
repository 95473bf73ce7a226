------------------------------ MODULE MCUsers -------------------------------
(* A small instance of the user table for TLC: the sizes of the firmware,  *)
(* three numbers besides the owner's.                                      *)
EXTENDS Users

ThreeOthers == {"B", "C", "D"}
TwoOthers == {"B", "C"}
=============================================================================
