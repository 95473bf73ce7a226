---------------------------- MODULE EmonService -----------------------------
(***************************************************************************)
(* What the energy monitor promises the application, and all of it that    *)
(* SmsController uses: one answer for every request, MEASUREMENT_DONE or   *)
(* EMON_ERROR, and the requests come one at a time.                        *)
(***************************************************************************)
EXTENDS Naturals

VARIABLES
  requests,    \* READ_ENTITY events sent
  answers      \* answers sent

serviceVars == <<requests, answers>>

ServiceInit == requests = 0 /\ answers = 0

Request == requests = answers /\ requests' = requests + 1 /\ UNCHANGED answers
Answer == answers < requests /\ answers' = answers + 1 /\ UNCHANGED requests

ServiceSpec == ServiceInit /\ [][Request \/ Answer]_serviceVars
=============================================================================
