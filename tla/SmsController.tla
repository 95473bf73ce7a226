--------------------------- MODULE SmsController ----------------------------
(***************************************************************************)
(* The firmware: the GSM and the application objects under the kernel's    *)
(* scheduler, with the serial link and the modem.  The serial driver and   *)
(* the energy monitor appear only as what they post: OPEN_DONE for an      *)
(* OPEN_REQUEST, the result of a measurement for a READ_ENTITY.            *)
(***************************************************************************)
EXTENDS Gsm, App

CONSTANTS
  MaxTimeouts,   \* bound: commands that are not answered in time
  Patient        \* TRUE: a message is sent only when the last is dealt with

VARIABLES
  measuring,     \* the energy monitor is taking a measurement
  timeouts       \* commands that have timed out so far

vars == <<kernelVars, linkVars, gsmVars, appVars, measuring, timeouts>>

(* The configuration of main.c. *)
ObjectsOfMain == {"gsm", "app", "com", "emon"}
PriorityOfMain == [gsm |-> 1, app |-> 2, com |-> 3, emon |-> 4]
QueueSizeOfMain == [gsm |-> 5, app |-> 5, com |-> 5, emon |-> 3]

ASSUME ConfigurationOfMain ==
  /\ Objects = ObjectsOfMain
  /\ Priority = PriorityOfMain
  /\ QueueSize = QueueSizeOfMain

-----------------------------------------------------------------------------

(* The initial transitions have run: the application's posted START_AO and *)
(* armed its timer for a second.                                           *)
Init ==
  /\ queue = [a \in Objects |-> IF a = "gsm" THEN <<Event("START_AO")>> ELSE <<>>]
  /\ timer = [a \in Objects |-> IF a = "app" THEN "init" ELSE "off"]
  /\ current = Idle
  /\ LinkInit /\ GsmInit /\ AppInit
  /\ measuring = FALSE /\ timeouts = 0

-----------------------------------------------------------------------------

(* A timer the GSM object armed to wait, rather than for an answer. *)
Waits == \/ timer["gsm"] = "powering_on"
         \/ gsm = "network_status" /\ response = "CREG_SEARCHING"

(* Commands leave the UART within milliseconds, the timer runs for seconds: *)
(* by the time it expires the command has been sent and SEND_DONE handled.  *)
GsmTick ==
  /\ Expire("gsm")
  /\ tx = <<>> /\ ~Waiting("gsm", "SEND_DONE")
  /\ IF Waits THEN UNCHANGED timeouts
     ELSE timeouts < MaxTimeouts /\ timeouts' = timeouts + 1
  /\ UNCHANGED <<linkVars, gsmVars, appVars, measuring>>

(* The UART is open long before the first second is over. *)
AppTick ==
  /\ Expire("app")
  /\ gsm \notin {"systemsetup", "opencom"}
  /\ UNCHANGED <<linkVars, gsmVars, appVars, measuring, timeouts>>

Schedule ==
  /\ \E a \in Objects : Dispatch(a)
  /\ UNCHANGED <<linkVars, gsmVars, appVars, measuring, timeouts>>

GsmStep == GsmHandler /\ UNCHANGED <<appVars, measuring, timeouts>>
AppStep == AppHandler /\ UNCHANGED <<linkVars, gsmVars, measuring, timeouts>>

(* Com_open: the UART is configured and the driver reports back. *)
ComOpen ==
  /\ Handling("com", "OPEN_REQUEST")
  /\ Return(Post(queue, "gsm", Event("OPEN_DONE")), timer)
  /\ UNCHANGED <<linkVars, gsmVars, appVars, measuring, timeouts>>

EmonStart ==
  /\ Handling("emon", "READ_ENTITY")
  /\ measuring' = TRUE
  /\ Ignore
  /\ UNCHANGED <<linkVars, gsmVars, appVars, timeouts>>

(* The measurement is done; without mains there is no zero crossing. *)
EmonDone ==
  /\ measuring
  /\ current = Idle
  /\ measuring' = FALSE
  /\ \E sig \in IF Reliable THEN {"MEASUREMENT_DONE"}
                ELSE {"MEASUREMENT_DONE", "EMON_ERROR"} :
       PostedTo("app", Event(sig))
  /\ UNCHANGED <<linkVars, gsmVars, appVars, timeouts>>

Drivers == ComOpen \/ EmonStart \/ EmonDone

(* Notifications of new messages that have not been acted on: put off, in  *)
(* the application's queue, or with its handler.                           *)
NoticesQueued == {i \in DOMAIN queue["app"] : queue["app"][i].sig = "SMS_NEW"}
Notices ==
  defered + Cardinality(NoticesQueued)
    + IF current.ao = "app" /\ current.sig = "SMS_NEW" THEN 1 ELSE 0

(* The last message has been dealt with. *)
Quiet ==
  /\ app = "app_idle" /\ defered = 0
  /\ gsm = "active_idle"
  /\ current = Idle /\ \A a \in Objects : queue[a] = <<>>
  /\ rx = <<>>

(* The serial interrupts and the modem. *)
Link ==
  /\ \/ TxDone \/ RxTimeout \/ ModemAnswers \/ ModemSends
     \/ MessageArrives /\ (Patient => Quiet)
  /\ UNCHANGED <<gsmVars, appVars, measuring, timeouts>>

Next == Schedule \/ GsmStep \/ AppStep \/ Drivers \/ Link \/ GsmTick \/ AppTick

Spec == Init /\ [][Next]_vars

(* The firmware keeps running: the scheduler takes events and handlers     *)
(* return, an armed timer expires, the UART and the modem make progress.   *)
(* Timers run for seconds and everything else for milliseconds, so no      *)
(* object and no interrupt is overtaken by time-outs for ever (SF).  New   *)
(* messages need not arrive.                                               *)
Fairness ==
  /\ \A a \in Objects : SF_vars(Dispatch(a) /\ Schedule)
  /\ WF_vars(GsmStep) /\ WF_vars(AppStep) /\ WF_vars(GsmTick) /\ WF_vars(AppTick)
  /\ SF_vars(Drivers) /\ SF_vars(TxDone /\ Link) /\ SF_vars(RxTimeout /\ Link)
  /\ WF_vars(ModemAnswers /\ Link) /\ WF_vars(ModemSends /\ Link)

FairSpec == Spec /\ Fairness

-----------------------------------------------------------------------------
(* Types. *)

Signals ==
  Requests \cup {"START_AO", "GSM_INIT", "OPEN_REQUEST", "OPEN_DONE", "SEND_DONE",
    "DATA_AVAILABLE", "ACK", "ERROR", "SMS_RESPONSE", "NETWORK_RESPONSE",
    "CLOCK_RESPONSE", "RECIEVE_URC", "BUFFER_FULL", "TIMEOUT", "INIT_DONE",
    "INIT_FAILURE", "MODULE_FAILURE", "BUSY", "NETWORK_CONNECTED", "NETWORK_ERROR",
    "SMS_FOUND", "SMS_NOT_FOUND", "SMS_READ_DONE", "SMS_DELETE_DONE", "SMS_SENT",
    "CLOCK_READ_DONE", "CLOCK_SET_DONE", "SMS_NEW", "PARSING_ERROR", "READ_ENTITY",
    "MEASUREMENT_DONE", "EMON_ERROR", "TRANSITION_OUT", "START_SESSION",
    "STATUS_READ_DONE", "SEND_BROADCAST"}

Lines == Registrations \cup {"OK", "ERROR", "CMTI", "PROMPT", "CMGS", "CMGR", "CMGL", "CCLK"}
Commands == {"AT", "INIT", "CREG", "CCLK?", "CCLK", "CMGL", "CMGR", "CMGD", "CMGS",
             "BODY", "PART"}
Pars == Lines \cup {"0", "1", "ix", "SMS_UNREAD", "rest"} \cup GsmStates \cup AppStates
Events == [sig : Signals, par : Pars]

Queues == [Objects -> Seq(Events)]
Timers == [Objects -> {"off"} \cup GsmStates \cup AppStates]

KernelType ==
  /\ queue \in Queues
  /\ timer \in Timers
  /\ current \in [ao : Objects \cup {"none"}, sig : Signals \cup {"none"}, par : Pars]

LinkType ==
  /\ tx \in Seq(Commands) /\ pending \in Seq(Commands)
  /\ rx \in Seq(Lines) /\ answer \in Seq(Lines)
  /\ avail \in 0 .. Len(rx) /\ Len(rx) <= RxLines
  /\ sim \in [unread : Nat, read : Nat] /\ arrived \in Nat

GsmType ==
  /\ gsm \in GsmStates /\ busy \in BOOLEAN /\ op \in {"NONE", "NETWORK", "ACC", "SMS"}
  /\ response \in Pars /\ tries \in 0 .. 255 /\ ix \in Nat /\ flash \in Pars

AppType ==
  /\ app \in AppStates /\ history \in {"none", "action_status", "send_broadcast"}
  /\ motorOn \in BOOLEAN /\ coil \in SUBSET {"ON", "OFF"}
  /\ defered \in 0 .. Word - 1 /\ reading \in 0 .. 2 /\ updates \in SUBSET Users
  /\ userid \in Users /\ countdown \in [Users -> 0 .. MaxFreq]
  /\ session \in [Users -> [open : BOOLEAN, menu : BOOLEAN, timing : 0 .. SessionTime,
                            option : MenuOptions \cup {"none"}]]

(* Every variable has its type; the counters stay within their bytes. *)
TypeOK ==
  /\ KernelType /\ LinkType /\ GsmType /\ AppType
  /\ measuring \in BOOLEAN /\ timeouts \in Nat

-----------------------------------------------------------------------------
(* Safety. *)

(* No event queue of main.c overflows while a single message comes in and  *)
(* the modem may fail, so the assertion of QActive_post never stops the    *)
(* device: the interrupts and both objects post to the queue of five of    *)
(* the GSM object.                                                         *)
QueuesHold == Asserts

(* Where the GSM object is waiting for the end of a command, the timer is  *)
(* running or what ends the wait is on its way: comm_rx_handler may stop   *)
(* the timer only together with posting the final OK.  (After the prompt   *)
(* of sms_send, in sms_extract_time and after an OK without a response in  *)
(* network_status the code waits without a guard.)                         *)
GuardedStates == {"check_comlink", "device_config", "sms_delete", "time_get",
                  "time_set", "sms_presence", "sms_read"}
GuardedWait ==
  gsm \in GuardedStates =>
    timer["gsm"] # "off" \/ Pending("gsm", "TIMEOUT") \/ Pending("gsm", "ACK")

(* The GSM object is idle only when the last operation has been cleaned    *)
(* up: it accepts requests, parses no operation's responses, and no timer  *)
(* is left to end the next operation.                                      *)
IdleIsClean ==
  gsm = "active_idle" => ~busy /\ op = "NONE" /\ timer["gsm"] = "off"

(* The time-out of one operation never ends another: when TIMEOUT arrives, *)
(* the state it finds is the one that armed the timer, or it is ignored.   *)
OwnTimeouts ==
  Handling("gsm", "TIMEOUT") /\ "TIMEOUT" \in GsmReacts(gsm) =>
    \/ current.par = gsm
    \/ current.par = "device_config" /\ gsm = "powering_on"
    \/ current.par = "sms_send" /\ gsm = "sms_send_support"

(* While no command times out, the OK that completes an operation is the   *)
(* answer to its own command: the modem owes no other.                     *)
OwnAnswers ==
  Handling("gsm", "ACK") /\ gsm \in OperationStates /\ timeouts = 0 =>
    tx = <<>> /\ pending = <<>> /\ answer = <<>>

(* A starter pin is energised only in its own action state, with the motor *)
(* in the other position: never both pins, and never one left behind.      *)
RelaySafe ==
  /\ "ON" \in coil => app = "action_on" /\ ~motorOn
  /\ "OFF" \in coil => app = "action_off" /\ motorOn

(* A session that is open has time left, so it will expire. *)
SessionsExpire == \A u \in Users : session[u].open => session[u].timing > 0

(* Once the application is up it loses no notification: their number only  *)
(* falls when it starts to fetch a message (or when the counter of those   *)
(* put off, which has 16 bits, wraps round).                               *)
NoticesKept ==
  [][app # "init" /\ Notices' < Notices => app' = "reciever" \/ defered = Word - 1]_vars

(* The application's state and what it is waiting for: whichever event     *)
(* takes it out of a state is still to be produced by someone.             *)
Asked(sig, done) == Pending("gsm", sig) \/ gsm = Operation[sig] \/ Pending("app", done)
Sending == Asked("SMS_SEND", "SMS_SENT") \/ gsm = "sms_send_support"
Measuring == \/ Pending("emon", "READ_ENTITY") \/ measuring
             \/ Pending("app", "MEASUREMENT_DONE") \/ Pending("app", "STATUS_READ_DONE")
ClockAsked == Asked("CLOCK_READ", "CLOCK_READ_DONE")

WaitsServed ==
  CASE app = "reciever" -> \/ Asked("CHECK_PRESENCE", "SMS_FOUND")
                           \/ Asked("SMS_READ", "SMS_READ_DONE")
    [] app = "validate" -> Pending("app", "TRANSITION_OUT")
    [] app = "get_status" -> ClockAsked \/ Measuring \/ Sending
    [] app \in {"action_on", "action_off"} ->
         timer["app"] = app \/ Pending("app", "TIMEOUT") \/ ClockAsked \/ Sending
    [] app = "action_menu" -> Pending("app", "START_SESSION") \/ Sending
    [] app = "set_time" -> \/ Asked("EXTRACT_TIME", "SMS_READ_DONE")
                           \/ Asked("CLOCK_SET", "CLOCK_SET_DONE")
                           \/ ClockAsked \/ Sending
    [] app = "cleanup" -> Asked("SMS_DELETE", "SMS_DELETE_DONE")
    [] app \in MenuOptions -> Sending
    [] OTHER -> TRUE

-----------------------------------------------------------------------------
(* Refinement and liveness. *)

(* The pins and the position on record implement the motor starter: the    *)
(* position changes exactly when a pulse ends, and every pulse ends,       *)
(* whatever becomes of the messages.                                       *)
Motor == INSTANCE MotorStarter
PulsesEnd == Motor!FairSpec

(* The application gets done with every message: from any of its active    *)
(* states it returns to the one where it accepts the next.                 *)
ReturnsToIdle == app \in ActiveStates ~> app = "app_idle"

-----------------------------------------------------------------------------
(* What comments of the code say. *)

(* "Ignore timeouts if the system is already sending some data": in idle,  *)
(* users are owed a status only while the event that sends it is on its    *)
(* way.                                                                    *)
BroadcastUnderWay ==
  app = "app_idle" /\ updates # {} => Pending("app", "SEND_BROADCAST")

(* "Check the voltage of the lines and current": the status is complete    *)
(* only when each of the three lines has been stored.                      *)
AllMeasured == Pending("app", "STATUS_READ_DONE") => reading >= 3

(* "Retry after 30 seconds": an application that armed its timer because   *)
(* there is no network asks for the network again.                         *)
RetriesNetwork ==
  app = "init" /\ gsm = "active_idle" /\ timer["app"] = "init" ~> gsm = "network_status"

(* "no response toggle power again": the GSM object does not stay in       *)
(* powering_on.                                                            *)
TogglesAgain == gsm = "powering_on" ~> gsm # "powering_on"

=============================================================================
