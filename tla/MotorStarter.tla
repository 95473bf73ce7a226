---------------------------- MODULE MotorStarter -----------------------------
(***************************************************************************)
(* What the firmware promises of the motor: the starter has a start and a  *)
(* stop coil, each energised for a pulse; a pulse is given only to change  *)
(* the position the motor is in, one coil at a time, and the position on   *)
(* record changes exactly when the pulse for it ends.                      *)
(***************************************************************************)
VARIABLES
  coil,      \* the energised coils
  motorOn    \* the position on record

starter == <<coil, motorOn>>

Coils == {"ON", "OFF"}

Init == coil = {} /\ motorOn = FALSE

(* The coil that changes the position. *)
Changes(on) == IF on THEN "OFF" ELSE "ON"

Energise ==
  /\ coil = {}
  /\ coil' = {Changes(motorOn)}
  /\ UNCHANGED motorOn

Release ==
  /\ coil = {Changes(motorOn)}
  /\ coil' = {}
  /\ motorOn' = ~motorOn

Next == Energise \/ Release

Spec == Init /\ [][Next]_starter

(* ... and every pulse ends. *)
FairSpec == Spec /\ WF_starter(Release)
=============================================================================
