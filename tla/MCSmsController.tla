-------------------------- MODULE MCSmsController ---------------------------
(* Small instances of the firmware for TLC.  Users are told apart by their   *)
(* number (the lowest is served first), so no symmetry is used.              *)
EXTENDS SmsController

OneUser == {1}
TwoUsers == {1, 2}

(* The network at its most cooperative, and as it comes. *)
RegisteredAtOnce == {"CREG_READY"}
AnyRegistration == {"CREG_READY", "CREG_SEARCHING", "CREG_DENIED"}
=============================================================================
