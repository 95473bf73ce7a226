-------------------------------- MODULE Gsm ---------------------------------
(***************************************************************************)
(* The GSM active object (gsm.c): the hierarchical state machine that      *)
(* brings the modem up and then carries out one request of the application *)
(* at a time, and the parser that turns the lines in the receive buffer    *)
(* into events for itself.  One action per state and signal; an event that *)
(* no state up to the top one handles is ignored (GsmIgnores).             *)
(* The GPRS states, which the application never requests, are left out.    *)
(***************************************************************************)
EXTENDS Modem

CONSTANTS
  InitCommands,  \* commands of module_init_table (5 in the code)
  AtRetries      \* times AT is sent again (4 in the code)

ASSUME GsmAssumption == InitCommands \in Nat \ {0} /\ AtRetries \in 0 .. 255

VARIABLES
  gsm,           \* the current state
  busy,          \* control.busy
  op,            \* control.current_op, which selects the parser's table
  response,      \* control.response: a parameter or the last response seen
  tries,         \* control.timeout: how often a command may be sent again
  ix,            \* control.ix, the index in module_init_table
  flash          \* control.use_flash: text in flash, or the rest of it

controlVars == <<busy, op, response, tries, ix, flash>>
gsmVars == <<gsm, controlVars>>

(* A request of the application and the state that carries it out. *)
Operation ==
  [NETWORK_READ |-> "network_status", SMS_READ |-> "sms_read",
   EXTRACT_TIME |-> "sms_extract_time", SMS_DELETE |-> "sms_delete",
   CLOCK_READ |-> "time_get", CLOCK_SET |-> "time_set",
   SMS_SEND |-> "sms_send", CHECK_PRESENCE |-> "sms_presence"]

Requests == DOMAIN Operation

InactiveStates ==
  {"systemsetup", "opencom", "powering_on", "check_comlink", "device_config"}
OperationStates == {Operation[r] : r \in Requests} \cup {"sms_send_support"}
GsmStates == InactiveStates \cup {"active_idle"} \cup OperationStates

(* current_op while a state carries out an operation. *)
OpOf(s) == CASE s = "network_status" -> "NETWORK"
             [] s \in {"time_get", "time_set"} -> "ACC"
             [] OTHER -> "SMS"

(* The signals a state or one of its super-states handles (DATA_AVAILABLE, *)
(* which both super-states handle, is left out).                           *)
GsmReacts(s) ==
  CASE s = "systemsetup" -> {"START_AO"}
    [] s = "opencom" -> {"OPEN_DONE"}
    [] s = "powering_on" -> {"GSM_INIT", "TIMEOUT"}
    [] s = "check_comlink" -> {"TIMEOUT", "ACK"}
    [] s = "device_config" -> {"ACK", "ERROR", "TIMEOUT"}
    [] s = "active_idle" -> Requests \cup {"RECIEVE_URC"}
    [] s = "network_status" -> {"TIMEOUT", "NETWORK_RESPONSE", "ACK"}
    [] s = "sms_send" -> {"TIMEOUT", "BUFFER_FULL", "SMS_RESPONSE", "ACK"}
    [] s = "sms_send_support" ->
         {"TIMEOUT", "BUFFER_FULL", "SMS_RESPONSE", "ACK", "SEND_DONE"}
    [] s = "time_get" -> {"TIMEOUT", "CLOCK_RESPONSE", "ACK"}
    [] s \in {"sms_presence", "sms_read"} -> {"TIMEOUT", "SMS_RESPONSE", "ACK"}
    [] s = "sms_extract_time" ->
         {"SMS_RESPONSE", "ACK"} \cup Requests \cup {"RECIEVE_URC"}
    [] OTHER -> {"TIMEOUT", "ACK"}

-----------------------------------------------------------------------------

GsmInit ==
  /\ gsm = "systemsetup"
  /\ busy = FALSE /\ op = "NONE" /\ response = "0"
  /\ tries = 0 /\ ix = 0 /\ flash = "0"

(* A handler of the GSM object that leaves the link alone. *)
GsmOnly == UNCHANGED linkVars

(* send_command_timeout: the command joins the transmit buffer and the     *)
(* timer is armed for state s.                                             *)
Sends(c) ==
  /\ tx' = Append(tx, c)
  /\ UNCHANGED <<rx, avail, pending, answer, sim, arrived>>

Armed(s) == Arm(timer, "gsm", s)

(* The application is told.  MODULE_FAILURE stands for two signals of that *)
(* name, EVENT_ and EVNET_, both of which the application ignores.         *)
Told(sig) == Post(queue, "app", Event(sig))

(* Mutant: the exit operations forget control.busy. *)
StayBusy(q) ==
  /\ gsm' = "active_idle"
  /\ tries' = 0 /\ op' = "NONE"
  /\ UNCHANGED <<busy, response, ix, flash>>
  /\ Return(q, Disarm(timer, "gsm"))

(* generic_exit_operations, and the entry of active_idle. *)
BackToIdle(q) ==
  /\ gsm' = "active_idle"
  /\ busy' = FALSE /\ tries' = 0 /\ op' = "NONE"
  /\ UNCHANGED <<response, ix, flash>>
  /\ Return(q, Disarm(timer, "gsm"))

-----------------------------------------------------------------------------
(* Bringing the modem up: the inactive states. *)

StartAo ==
  /\ Handling("gsm", "START_AO") /\ gsm = "systemsetup"
  /\ gsm' = "opencom"
  /\ Return(Post(queue, "com", Event("OPEN_REQUEST")), timer)
  /\ GsmOnly /\ UNCHANGED controlVars

ComOpened ==
  /\ Handling("gsm", "OPEN_DONE") /\ gsm = "opencom"
  /\ gsm' = "powering_on"
  /\ Ignore
  /\ GsmOnly /\ UNCHANGED controlVars

PowerKey ==
  /\ Handling("gsm", "GSM_INIT") /\ gsm = "powering_on"
  /\ Return(queue, Armed("powering_on"))
  /\ GsmOnly /\ UNCHANGED gsmVars

PoweredOn ==
  /\ Handling("gsm", "TIMEOUT") /\ gsm = "powering_on"
  /\ gsm' = "check_comlink"
  /\ tries' = AtRetries
  /\ Sends("AT")
  /\ Return(queue, Armed("check_comlink"))
  /\ UNCHANGED <<busy, op, response, ix, flash>>

(* Mutant: the counter is wider than its byte. *)
DecrementedWide(n) == n + 255

(* The post-decrement of a retry counter of 8 bits. *)
Decremented(n) == (n + 255) % 256

RetryAt ==
  /\ Handling("gsm", "TIMEOUT") /\ gsm = "check_comlink" /\ tries > 0
  /\ tries' = Decremented(tries)
  /\ Sends("AT")
  /\ Return(queue, Armed("check_comlink"))
  /\ UNCHANGED <<gsm, busy, op, response, ix, flash>>

NoModem ==
  /\ Handling("gsm", "TIMEOUT") /\ gsm = "check_comlink" /\ tries = 0
  /\ tries' = Decremented(tries)
  /\ gsm' = "powering_on"
  /\ Return(Told("MODULE_FAILURE"), timer)
  /\ GsmOnly /\ UNCHANGED <<busy, op, response, ix, flash>>

LinkUp ==
  /\ Handling("gsm", "ACK") /\ gsm = "check_comlink"
  /\ gsm' = "device_config"
  /\ ix' = 0
  /\ Sends("INIT")
  /\ Return(queue, Armed("device_config"))
  /\ UNCHANGED <<busy, op, response, tries, flash>>

ConfigNext ==
  /\ Handling("gsm", "ACK") /\ gsm = "device_config" /\ ix + 1 < InitCommands
  /\ ix' = ix + 1
  /\ Sends("INIT")
  /\ Return(queue, Armed("device_config"))
  /\ UNCHANGED <<gsm, busy, op, response, tries, flash>>

ConfigDone ==
  /\ Handling("gsm", "ACK") /\ gsm = "device_config" /\ ix + 1 = InitCommands
  /\ ix' = ix + 1
  /\ gsm' = "active_idle"
  /\ Return(Told("INIT_DONE"), Disarm(timer, "gsm"))
  /\ GsmOnly /\ UNCHANGED <<busy, op, response, tries, flash>>

ConfigFails ==
  /\ Handling("gsm", "ERROR") \/ Handling("gsm", "TIMEOUT")
  /\ gsm = "device_config"
  /\ gsm' = "powering_on"
  /\ Return(Told("INIT_FAILURE"), Disarm(timer, "gsm"))
  /\ GsmOnly /\ UNCHANGED controlVars

-----------------------------------------------------------------------------
(* Requests, and the parser. *)

(* active_idle accepts a request: what it keeps of the parameter, and the  *)
(* entry action of the state that carries the request out.                 *)
Accept(r) ==
  LET s == Operation[r]
      keepsPar == r \in {"SMS_READ", "SMS_DELETE", "CHECK_PRESENCE"}
  IN /\ Handling("gsm", r) /\ gsm = "active_idle" /\ ~busy
     /\ gsm' = s
     /\ busy' = TRUE
     /\ op' = OpOf(s)
     /\ response' = IF keepsPar THEN current.par
                    ELSE IF r = "EXTRACT_TIME" THEN "1" ELSE response
     /\ flash' = IF r = "SMS_SEND" THEN current.par ELSE flash
     /\ tries' = IF r = "NETWORK_READ" THEN 1 ELSE tries
     /\ Sends(CASE r = "NETWORK_READ" -> "CREG" [] r = "SMS_DELETE" -> "CMGD"
                [] r = "CLOCK_READ" -> "CCLK?"  [] r = "CLOCK_SET" -> "CCLK"
                [] r = "SMS_SEND" -> "CMGS"     [] r = "CHECK_PRESENCE" -> "CMGL"
                [] OTHER -> "CMGR")
     /\ Return(queue, Armed(s))
     /\ UNCHANGED ix

(* active_idle, or the sub-state that inherits from it, tells of a message  *)
(* that has come in, and refuses requests while an operation goes on.       *)
IdleTells ==
  /\ gsm \in {"active_idle", "sms_extract_time"}
  /\ \E sig \in Requests \cup {"RECIEVE_URC"} :
       /\ Handling("gsm", sig)
       /\ sig \in Requests => busy
       /\ Return(Told(IF sig = "RECIEVE_URC" THEN "SMS_NEW" ELSE "BUSY"), timer)
  /\ GsmOnly /\ UNCHANGED gsmVars

(* check_result_codes: the table of the current operation, then frc_table. *)
Parsed(line) ==
  CASE line = "OK" -> <<EventPar("ACK", "OK")>>
    [] line = "ERROR" -> <<EventPar("ERROR", "ERROR")>>
    [] line = "CMTI" -> <<Event("RECIEVE_URC")>>
    [] line \in {"PROMPT", "CMGS", "CMGR", "CMGL"} /\ op = "SMS" ->
         <<EventPar("SMS_RESPONSE", line)>>
    [] line = "CCLK" /\ op = "ACC" -> <<EventPar("CLOCK_RESPONSE", line)>>
    [] line \in Registrations /\ op = "NETWORK" ->
         <<EventPar("NETWORK_RESPONSE", line)>>
    [] OTHER -> <<>>

(* Mutants: any line stops the timer; no line does. *)
ParseStops(t) ==
  /\ Handling("gsm", "DATA_AVAILABLE")
  /\ avail > 0
  /\ queue' = [queue EXCEPT !["gsm"] = @ \o Parsed(Head(rx))]
  /\ timer' = t
  /\ rx' = Tail(rx)
  /\ avail' = avail - 1
  /\ UNCHANGED <<current, gsmVars, tx, pending, answer, sim, arrived>>
ParseStopsAlways == ParseStops(Disarm(timer, "gsm"))
ParseStopsNever == ParseStops(timer)

(* comm_rx_handler: one more line of the announced part of the buffer. *)
ParseLine ==
  /\ Handling("gsm", "DATA_AVAILABLE")
  /\ avail > 0
  /\ queue' = [queue EXCEPT !["gsm"] = @ \o Parsed(Head(rx))]
  /\ timer' = IF Head(rx) = "OK" THEN Disarm(timer, "gsm") ELSE timer
  /\ rx' = Tail(rx)
  /\ avail' = avail - 1
  /\ UNCHANGED <<current, gsmVars, tx, pending, answer, sim, arrived>>

(* ... and Com_reopen, which empties the buffer, whatever came in since. *)
ParseDone ==
  /\ Handling("gsm", "DATA_AVAILABLE")
  /\ avail = 0
  /\ rx' = <<>>
  /\ Ignore
  /\ UNCHANGED <<gsmVars, tx, avail, pending, answer, sim, arrived>>

-----------------------------------------------------------------------------
(* The operations. *)

(* A command that was not answered in time fails the operation. *)
OperationTimesOut ==
  /\ Handling("gsm", "TIMEOUT")
  /\ gsm \in OperationStates \ {"network_status", "sms_extract_time"}
  /\ BackToIdle(Told("MODULE_FAILURE"))
  /\ GsmOnly

NetworkRetry ==
  /\ Handling("gsm", "TIMEOUT") /\ gsm = "network_status" /\ tries > 0
  /\ tries' = Decremented(tries)
  /\ Sends("CREG")
  /\ Return(queue, Armed("network_status"))
  /\ UNCHANGED <<gsm, busy, op, response, ix, flash>>

NetworkTimesOut ==
  /\ Handling("gsm", "TIMEOUT") /\ gsm = "network_status" /\ tries = 0
  /\ BackToIdle(Told("MODULE_FAILURE"))
  /\ GsmOnly

NetworkResponse ==
  /\ Handling("gsm", "NETWORK_RESPONSE") /\ gsm = "network_status"
  /\ response' = current.par
  /\ Ignore
  /\ GsmOnly /\ UNCHANGED <<gsm, busy, op, tries, ix, flash>>

NetworkReport ==
  /\ Handling("gsm", "ACK") /\ gsm = "network_status"
  /\ response \notin {"0", "CREG_SEARCHING"}
  /\ BackToIdle(Told(IF response = "CREG_READY" THEN "NETWORK_CONNECTED"
                                                ELSE "NETWORK_ERROR"))
  /\ GsmOnly

NetworkSearching ==
  /\ Handling("gsm", "ACK") /\ gsm = "network_status"
  /\ response = "CREG_SEARCHING"
  /\ tries' = 1
  /\ Return(queue, Armed("network_status"))
  /\ GsmOnly /\ UNCHANGED <<gsm, busy, op, response, ix, flash>>

(* An OK without a response falls through to the code of Q_EXIT_SIG. *)
NetworkFallsThrough ==
  /\ Handling("gsm", "ACK") /\ gsm = "network_status" /\ response = "0"
  /\ busy' = FALSE /\ tries' = 0 /\ op' = "NONE"
  /\ Return(queue, Disarm(timer, "gsm"))
  /\ GsmOnly /\ UNCHANGED <<gsm, response, ix, flash>>

(* Mutant: the text is sent at every response, not only at the prompt. *)
SendTextAgain ==
  /\ Handling("gsm", "SMS_RESPONSE") /\ gsm \in {"sms_send", "sms_send_support"}
  /\ response' = current.par
  /\ Sends("BODY")
  /\ Return(queue, Disarm(timer, "gsm"))
  /\ UNCHANGED <<gsm, busy, op, tries, ix, flash>>

(* The prompt for the text.  A text in flash exceeds the transmit buffer:  *)
(* its first part is sent and BUFFER_FULL posted for the rest.             *)
SendText ==
  /\ Handling("gsm", "SMS_RESPONSE") /\ gsm \in {"sms_send", "sms_send_support"}
  /\ response' = current.par
  /\ IF current.par # "PROMPT" THEN Ignore /\ GsmOnly
     ELSE IF flash # "0"
     THEN /\ Sends("PART")
          /\ Return(Post(queue, "gsm", EventPar("BUFFER_FULL", "rest")),
                    Disarm(timer, "gsm"))
     ELSE /\ Sends("BODY")
          /\ Return(queue, Disarm(timer, "gsm"))
  /\ UNCHANGED <<gsm, busy, op, tries, ix, flash>>

BufferFull ==
  /\ Handling("gsm", "BUFFER_FULL") /\ gsm \in {"sms_send", "sms_send_support"}
  /\ gsm' = "sms_send_support"
  /\ flash' = current.par
  /\ Ignore
  /\ GsmOnly /\ UNCHANGED <<busy, op, response, tries, ix>>

SendRest ==
  /\ Handling("gsm", "SEND_DONE") /\ gsm = "sms_send_support"
  /\ IF flash # "0"
     THEN /\ flash' = "0"
          /\ Sends("BODY")
          /\ Return(queue, Armed("sms_send_support"))
     ELSE Ignore /\ GsmOnly /\ UNCHANGED flash
  /\ UNCHANGED <<gsm, busy, op, response, tries, ix>>

(* The other responses are kept, and those of a listing reported. *)
KeepResponse ==
  /\ \/ Handling("gsm", "SMS_RESPONSE") /\ gsm \in {"sms_presence", "sms_read"}
     \/ Handling("gsm", "CLOCK_RESPONSE") /\ gsm = "time_get"
  /\ response' = current.par
  /\ Return(IF gsm = "sms_presence" /\ current.par = "CMGL"
            THEN Post(queue, "app", EventPar("SMS_FOUND", "ix")) ELSE queue, timer)
  /\ GsmOnly /\ UNCHANGED <<gsm, busy, op, tries, ix, flash>>

(* The response is read through a pointer into the receive buffer, which   *)
(* is open again: bytes that came in since may have overwritten the time,  *)
(* and the operation ends without a word.                                  *)
ClockGarbled ==
  /\ Handling("gsm", "CLOCK_RESPONSE") /\ gsm = "time_get" /\ rx # <<>>
  /\ gsm' = "active_idle"
  /\ response' = current.par
  /\ busy' = FALSE /\ tries' = 0 /\ op' = "NONE"
  /\ Return(queue, Disarm(timer, "gsm"))
  /\ GsmOnly /\ UNCHANGED <<ix, flash>>

(* The time stamp of a message: found; not in its place, as when the SIM   *)
(* card knows the sender by name; or cut off.                              *)
ExtractTime ==
  /\ Handling("gsm", "SMS_RESPONSE") /\ gsm = "sms_extract_time"
  /\ \/ response' = current.par /\ Ignore
     \/ ~Reliable /\ response' = "0" /\ Ignore
     \/ ~Reliable /\ response' = "0" /\ Return(Told("PARSING_ERROR"), timer)
  /\ GsmOnly /\ UNCHANGED <<gsm, busy, op, tries, ix, flash>>

(* The OK that ends an operation, and what the application is told. *)
Outcome(s) ==
  CASE s = "sms_delete" -> "SMS_DELETE_DONE"
    [] s = "time_set" -> "CLOCK_SET_DONE"
    [] response = "0" -> "MODULE_FAILURE"
    [] s = "time_get" -> "CLOCK_READ_DONE"
    [] s \in {"sms_send", "sms_send_support"} -> "SMS_SENT"
    [] OTHER -> "SMS_READ_DONE"

OperationDone ==
  /\ Handling("gsm", "ACK")
  /\ gsm \in OperationStates \ {"network_status", "sms_presence"}
  /\ BackToIdle(Told(Outcome(gsm)))
  /\ GsmOnly

PresenceDone ==
  /\ Handling("gsm", "ACK") /\ gsm = "sms_presence"
  /\ BackToIdle(IF response = "0" THEN Told("SMS_NOT_FOUND") ELSE queue)
  /\ GsmOnly

-----------------------------------------------------------------------------

GsmIgnores ==
  /\ Asserts
  /\ current.ao = "gsm"
  /\ current.sig \notin GsmReacts(gsm) \cup {"DATA_AVAILABLE"}
  /\ Ignore
  /\ GsmOnly /\ UNCHANGED gsmVars

GsmInactive ==
  \/ StartAo \/ ComOpened \/ PowerKey \/ PoweredOn \/ RetryAt \/ NoModem
  \/ LinkUp \/ ConfigNext \/ ConfigDone \/ ConfigFails

GsmOperation ==
  \/ OperationTimesOut \/ NetworkRetry \/ NetworkTimesOut \/ NetworkResponse
  \/ NetworkReport \/ NetworkSearching \/ NetworkFallsThrough
  \/ SendText \/ BufferFull \/ SendRest \/ KeepResponse
  \/ ClockGarbled \/ ExtractTime
  \/ OperationDone \/ PresenceDone

GsmHandler ==
  \/ GsmInactive
  \/ \E r \in Requests : Accept(r)
  \/ IdleTells \/ ParseLine \/ ParseDone \/ GsmOperation \/ GsmIgnores

=============================================================================
