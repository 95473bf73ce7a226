-------------------------------- MODULE App ---------------------------------
(***************************************************************************)
(* The application active object (app.c): it waits for the modem to come   *)
(* up, then turns every new message into an action (switch the motor       *)
(* starter on or off, report the status, a step of the user's menu         *)
(* session), answers it and deletes it, one message at a time.  One action *)
(* per state and signal; a composite state that passes control on to a     *)
(* sub-state in its Q_INIT is entered together with it.  The user table of *)
(* the EEPROM is fixed here, so the menu options that add and delete a     *)
(* user are left out.                                                      *)
(***************************************************************************)
EXTENDS QFNano, FiniteSets

CONSTANTS
  Users,         \* user ids, 1 .. no_users
  Texts,         \* what the message of a known user may ask for
  MenuOptions,   \* menu options a user may choose
  SessionTime,   \* update periods a session lasts (5 in the code)
  MaxFreq        \* largest status_freq of a user (255 in the code)

(* The application has at most MAX_NO_USERS = 4 users, and one at least. *)
ASSUME AppAssumption ==
  /\ Users \subseteq 1 .. 4 /\ 1 \in Users
  /\ Texts \subseteq {"STATUS", "ON", "OFF", "MENU"}
  /\ MenuOptions \subseteq {"change_pass", "en_dis_pwd", "enable_broadcast",
                           "status_freq", "set_time", "generic"}
  /\ SessionTime \in Nat \ {0} /\ MaxFreq \in Nat

VARIABLES
  app,           \* the current state
  history,       \* me->history, the super-state of get_status
  motorOn,       \* me->motor_on
  coil,          \* the motor starter pins that are energised
  defered,       \* me->defered_event, new messages put off
  reading,       \* me->i_generic, the line being measured
  updates,       \* me->user_gprs_updates, users owed a status message
  userid,        \* me->current_userid
  session,       \* the session bits and session_details of every user
  countdown      \* session_details[].status_freq

sessionVars == <<userid, session, countdown>>
appVars == <<app, history, motorOn, coil, defered, reading, updates, sessionVars>>

(* The values of a counter of 16 bits. *)
Word == 65536

MenuStates == MenuOptions \cup {"action_menu"}
ActionStates == {"validate", "get_status", "action_on", "action_off"} \cup MenuStates
ActiveStates == ActionStates \cup {"reciever", "cleanup"}
AppStates == ActiveStates \cup {"init", "app_idle"}

(* Options whose second step carries out what the user entered, and the    *)
(* signals a state or one of its super-states handles (app_idle's case for *)
(* STATUS_READ_DONE, which never reaches it, is left out).                 *)
TwoStep == {"change_pass", "en_dis_pwd", "enable_broadcast", "status_freq"}

AppReacts(s) ==
  LET active == {"SMS_NEW", "TIMEOUT", "TRANSITION_OUT"}
  IN CASE s = "init" -> {"TIMEOUT", "INIT_DONE", "NETWORK_ERROR", "NETWORK_CONNECTED"}
       [] s = "app_idle" -> {"SMS_NEW", "TIMEOUT", "SEND_BROADCAST"}
       [] s = "reciever" -> active \cup {"SMS_FOUND", "SMS_READ_DONE", "SMS_NOT_FOUND"}
       [] s = "validate" -> active
       [] s = "get_status" -> active \cup {"CLOCK_READ_DONE", "MEASUREMENT_DONE",
                                           "STATUS_READ_DONE", "SMS_SENT"}
       [] s \in {"action_on", "action_off"} -> active \cup {"CLOCK_READ_DONE", "SMS_SENT"}
       [] s = "cleanup" -> active \cup {"SMS_DELETE_DONE"}
       [] s = "set_time" -> active \cup {"START_SESSION", "SMS_SENT", "SMS_READ_DONE",
                               "CLOCK_SET_DONE", "CLOCK_READ_DONE", "PARSING_ERROR"}
       [] OTHER -> active \cup {"START_SESSION", "SMS_SENT"}

-----------------------------------------------------------------------------

AppInit ==
  /\ app = "init" /\ history = "none"
  /\ motorOn = FALSE /\ coil = {}
  /\ defered = 0 /\ reading = 0 /\ updates = {}
  /\ userid = 1
  /\ session = [u \in Users |-> [open |-> FALSE, menu |-> FALSE, timing |-> 0,
                                 option |-> "none"]]
  /\ countdown \in [Users -> 0 .. MaxFreq]

Asks(sig) == Post(queue, "gsm", Event(sig))
AskWith(sig, par) == Post(queue, "gsm", EventPar(sig, par))
Self(sig) == Post(queue, "app", Event(sig))

(* Mutant: a message put off is forgotten instead of recalled. *)
EnterIdleForgets(q) ==
  /\ app' = "app_idle"
  /\ defered' = 0
  /\ Return(q, Arm(timer, "app", "app_idle"))

(* The entry action of app_idle, with the queues q its caller leaves. *)
EnterIdle(q) ==
  /\ app' = "app_idle"
  /\ IF defered > 0
     THEN defered' = defered - 1 /\ Return(Post(q, "app", Event("SMS_NEW")),
                                           Arm(timer, "app", "app_idle"))
     ELSE UNCHANGED defered /\ Return(q, Arm(timer, "app", "app_idle"))

(* update_session_expired(0), as a state that ends the session does. *)
Closed(u) == [session EXCEPT ![u].open = FALSE]

(* Mutant: cleanup deletes nothing. *)
LeaveAsIs ==
  /\ app' = "cleanup"
  /\ session' = IF app \in {"set_time", "generic"} THEN Closed(userid) ELSE session
  /\ Ignore
  /\ UNCHANGED <<history, motorOn, coil, defered, reading, updates, userid, countdown>>

(* Leaving for cleanup, whose entry action deletes the message: the exit   *)
(* actions of the state that is left, and what cannot have changed.        *)
Leave ==
  /\ app' = "cleanup"
  /\ session' = IF app \in {"set_time", "generic"} THEN Closed(userid) ELSE session
  /\ Return(AskWith("SMS_DELETE", "1"),
            IF app \in {"action_on", "action_off"} THEN Disarm(timer, "app") ELSE timer)
  /\ UNCHANGED <<history, motorOn, coil, defered, reading, updates, userid, countdown>>

-----------------------------------------------------------------------------
(* Start-up. *)

StartModem ==
  /\ Handling("app", "TIMEOUT") /\ app = "init"
  /\ Return(Asks("GSM_INIT"), timer)
  /\ UNCHANGED appVars

ModemUp ==
  /\ Handling("app", "INIT_DONE") /\ app = "init"
  /\ Return(Asks("NETWORK_READ"), timer)
  /\ UNCHANGED appVars

NetworkDown ==
  /\ Handling("app", "NETWORK_ERROR") /\ app = "init"
  /\ Return(queue, Arm(timer, "app", "init"))
  /\ UNCHANGED appVars

Registered ==
  /\ Handling("app", "NETWORK_CONNECTED") /\ app = "init"
  /\ EnterIdle(queue)
  /\ UNCHANGED <<history, motorOn, coil, reading, updates, sessionVars>>

-----------------------------------------------------------------------------
(* Periodic work. *)

(* Mutant: a session that has run out stays open. *)
AgedOpen == [u \in Users |-> [session[u] EXCEPT !.timing = IF @ = 0 THEN 0 ELSE @ - 1]]

(* update_session_timings *)
Aged == [u \in Users |->
          IF session[u].timing = 0 THEN session[u]
          ELSE [session[u] EXCEPT !.timing = @ - 1,
                                  !.open = @ /\ session[u].timing > 1]]

(* status_freq_updates: a count that reaches zero starts again at the      *)
(* frequency on record, whatever it is.                                    *)
Due == {u \in Users : countdown[u] = 1}
CountedDown ==
  {c \in [Users -> 0 .. MaxFreq] :
     \A u \in Users \ Due : c[u] = IF countdown[u] > 0 THEN countdown[u] - 1 ELSE 0}

IdlePeriod ==
  /\ Handling("app", "TIMEOUT") /\ app = "app_idle"
  /\ session' = Aged
  /\ IF updates # {}
     THEN Return(queue, Arm(timer, "app", app)) /\ UNCHANGED <<countdown, updates>>
     ELSE /\ countdown' \in CountedDown
          /\ updates' = Due
          /\ Return(IF Due # {} THEN Self("SEND_BROADCAST") ELSE queue,
                    Arm(timer, "app", app))
  /\ UNCHANGED <<app, history, motorOn, coil, defered, reading, userid>>

ActivePeriod ==
  /\ Handling("app", "TIMEOUT")
  /\ app \in ActiveStates \ {"action_on", "action_off"}
  /\ session' = Aged
  /\ Return(queue, Arm(timer, "app", app))
  /\ UNCHANGED <<app, history, motorOn, coil, defered, reading, updates, userid, countdown>>

-----------------------------------------------------------------------------
(* A new message. *)

Recieve ==
  /\ Handling("app", "SMS_NEW") /\ app = "app_idle"
  /\ app' = "reciever"
  /\ Return(AskWith("CHECK_PRESENCE", "SMS_UNREAD"), timer)
  /\ UNCHANGED <<history, motorOn, coil, defered, reading, updates, sessionVars>>

Defer ==
  /\ Handling("app", "SMS_NEW") /\ app \in ActiveStates
  /\ defered' = (defered + 1) % Word
  /\ Ignore
  /\ UNCHANGED <<app, history, motorOn, coil, reading, updates, sessionVars>>

MessageFound ==
  /\ Handling("app", "SMS_FOUND") /\ app = "reciever"
  /\ Return(AskWith("SMS_READ", current.par), timer)
  /\ UNCHANGED appVars

(* validate: the message is in.  An unknown sender, a wrong password or a  *)
(* text that asks for nothing is turned away, and so is a text outside a   *)
(* session that is no command.                                             *)
MessageRead == Handling("app", "SMS_READ_DONE") /\ app = "reciever"

Reject ==
  /\ MessageRead
  /\ app' = "validate"
  /\ userid' \in Users
  /\ Return(Self("TRANSITION_OUT"), timer)
  /\ UNCHANGED <<history, motorOn, coil, defered, reading, updates, session, countdown>>

AskStatus ==
  /\ MessageRead /\ "STATUS" \in Texts
  /\ app' = "get_status"
  /\ history' = "action_status"
  /\ reading' = 0
  /\ userid' \in Users
  /\ Return(Asks("CLOCK_READ"), timer)
  /\ UNCHANGED <<motorOn, coil, defered, updates, session, countdown>>

(* Mutant: the pulse is armed with zero ticks. *)
SwitchForGood(s, pin, on) ==
  /\ app' = s
  /\ IF motorOn = on
     THEN Return(Asks("CLOCK_READ"), timer) /\ UNCHANGED coil
     ELSE coil' = coil \cup {pin} /\ Return(queue, Disarm(timer, "app"))

(* The entry of action_on and action_off: the pulse on the starter's pin,  *)
(* or the answer if the motor is in that state already.                    *)
Switch(s, pin, on) ==
  /\ app' = s
  /\ IF motorOn = on
     THEN Return(Asks("CLOCK_READ"), timer) /\ UNCHANGED coil
     ELSE coil' = coil \cup {pin} /\ Return(queue, Arm(timer, "app", s))

AskMotor(s, pin, on) ==
  /\ MessageRead /\ pin \in Texts
  /\ Switch(s, pin, on)
  /\ userid' \in Users
  /\ UNCHANGED <<history, motorOn, defered, reading, updates, session, countdown>>

AskOn == AskMotor("action_on", "ON", TRUE)
AskOff == AskMotor("action_off", "OFF", FALSE)

AskSession ==
  /\ MessageRead /\ "MENU" \in Texts
  /\ \E u \in Users : ~session[u].open /\ userid' = u
  /\ app' = "action_menu"
  /\ Return(Self("START_SESSION"), timer)
  /\ UNCHANGED <<history, motorOn, coil, defered, reading, updates, session, countdown>>

(* A message of an open session: menu_parse and the entry of the option.   *)
(* The first step asks for the input, the second takes it and ends the     *)
(* session; set_time starts with the time stamp of the message.            *)
MenuStep(u, o) ==
  LET first == ~session[u].menu
      next == [session[u] EXCEPT !.option = o,
                                 !.menu = @ \/ o \in TwoStep,
                                 !.open = o \notin TwoStep \/ first]
  IN /\ MessageRead
     /\ session[u].open
     /\ ~first => o = session[u].option
     /\ app' = o
     /\ userid' = u
     /\ session' = [session EXCEPT ![u] = next]
     /\ \/ UNCHANGED countdown
        \/ /\ ~first /\ o \in {"enable_broadcast", "status_freq"}
           /\ \E f \in 0 .. MaxFreq : countdown' = [countdown EXCEPT ![u] = f]
     /\ Return(IF o # "set_time" THEN Asks("SMS_SEND")
               ELSE IF first THEN Asks("EXTRACT_TIME") ELSE queue, timer)
     /\ UNCHANGED <<history, motorOn, coil, defered, reading, updates>>

-----------------------------------------------------------------------------
(* The actions a message asks for. *)

StartSession ==
  /\ Handling("app", "START_SESSION") /\ app \in MenuStates
  /\ session' = [session EXCEPT ![userid] = [open |-> TRUE, menu |-> FALSE,
                                             timing |-> SessionTime, option |-> "none"]]
  /\ Return(AskWith("SMS_SEND", "1"), Arm(timer, "app", app))
  /\ UNCHANGED <<app, history, motorOn, coil, defered, reading, updates, userid, countdown>>

SetTimeRead ==
  /\ Handling("app", "SMS_READ_DONE") /\ app = "set_time"
  /\ Return(Asks("CLOCK_SET"), timer)
  /\ UNCHANGED appVars

(* Mutant: the clock is not read back once it is set. *)
SetTimeDoneSilent ==
  /\ Handling("app", "CLOCK_SET_DONE") /\ app = "set_time"
  /\ Ignore
  /\ UNCHANGED appVars

SetTimeDone ==
  /\ Handling("app", "CLOCK_SET_DONE") /\ app = "set_time"
  /\ Return(Asks("CLOCK_READ"), timer)
  /\ UNCHANGED appVars

(* The clock has been read: the status goes on with the line voltages, the *)
(* other actions answer the message.                                       *)
ClockRead ==
  /\ Handling("app", "CLOCK_READ_DONE")
  /\ app \in {"get_status", "action_on", "action_off", "set_time"}
  /\ Return(IF app = "get_status" THEN Post(queue, "emon", Event("READ_ENTITY"))
                                  ELSE Asks("SMS_SEND"), timer)
  /\ UNCHANGED appVars

(* Mutant: the pin stays high. *)
PulseStays(s, pin, on) ==
  /\ Handling("app", "TIMEOUT") /\ app = s
  /\ motorOn' = on
  /\ Return(Asks("CLOCK_READ"), Disarm(timer, "app"))
  /\ UNCHANGED <<app, history, coil, defered, reading, updates, sessionVars>>

(* The pulse of 4 s ends, and the state is entered again to answer.        *)
PulseEnds(s, pin, on) ==
  /\ Handling("app", "TIMEOUT") /\ app = s
  /\ coil' = coil \ {pin}
  /\ motorOn' = on
  /\ Return(Asks("CLOCK_READ"), Disarm(timer, "app"))
  /\ UNCHANGED <<app, history, defered, reading, updates, sessionVars>>

OnEnds == PulseEnds("action_on", "ON", TRUE)
OffEnds == PulseEnds("action_off", "OFF", FALSE)

Measured ==
  /\ Handling("app", "MEASUREMENT_DONE") /\ app = "get_status"
  /\ IF reading < 2
     THEN reading' = reading + 1 /\ Return(Post(queue, "emon", Event("READ_ENTITY")), timer)
     ELSE UNCHANGED reading /\ Return(Self("STATUS_READ_DONE"), timer)
  /\ UNCHANGED <<app, history, motorOn, coil, defered, updates, sessionVars>>

StatusRead ==
  /\ Handling("app", "STATUS_READ_DONE") /\ app = "get_status"
  /\ Return(IF history = "action_status" THEN Asks("SMS_SEND") ELSE Self("SMS_SENT"), timer)
  /\ UNCHANGED appVars

Broadcast ==
  /\ Handling("app", "SEND_BROADCAST") /\ app = "app_idle"
  /\ app' = "get_status"
  /\ history' = "send_broadcast"
  /\ reading' = 0
  /\ Return(Asks("CLOCK_READ"), timer)
  /\ UNCHANGED <<motorOn, coil, defered, updates, sessionVars>>

BroadcastNext ==
  /\ Handling("app", "SMS_SENT") /\ app = "get_status"
  /\ history = "send_broadcast" /\ updates # {}
  /\ updates' = updates \ {CHOOSE u \in updates : \A v \in updates : u <= v}
  /\ Return(Asks("SMS_SEND"), timer)
  /\ UNCHANGED <<app, history, motorOn, coil, defered, reading, sessionVars>>

(* The answer is out. *)
Answered ==
  /\ Handling("app", "SMS_SENT") /\ app \in ActionStates \ {"validate"}
  /\ app = "get_status" /\ history = "send_broadcast" => updates = {}
  /\ Leave

(* The message was turned away, has disappeared, or has no time stamp. *)
LeavesOn == [TRANSITION_OUT |-> ActiveStates, SMS_NOT_FOUND |-> {"reciever"},
             PARSING_ERROR |-> {"set_time"}]

TurnedAway ==
  /\ \E sig \in DOMAIN LeavesOn : Handling("app", sig) /\ app \in LeavesOn[sig]
  /\ Leave

Deleted ==
  /\ Handling("app", "SMS_DELETE_DONE") /\ app = "cleanup"
  /\ EnterIdle(queue)
  /\ UNCHANGED <<history, motorOn, coil, reading, updates, sessionVars>>

-----------------------------------------------------------------------------

AppIgnores ==
  /\ Asserts
  /\ current.ao = "app"
  /\ current.sig \notin AppReacts(app)
  /\ Ignore
  /\ UNCHANGED appVars

AppHandler ==
  \/ StartModem \/ ModemUp \/ NetworkDown \/ Registered
  \/ IdlePeriod \/ ActivePeriod
  \/ Recieve \/ Defer \/ MessageFound
  \/ Reject \/ AskStatus \/ AskOn \/ AskOff \/ AskSession
  \/ \E u \in Users, o \in MenuOptions : MenuStep(u, o)
  \/ StartSession \/ SetTimeRead \/ SetTimeDone \/ ClockRead
  \/ OnEnds \/ OffEnds \/ Measured \/ StatusRead
  \/ Broadcast \/ BroadcastNext \/ Answered \/ TurnedAway \/ Deleted
  \/ AppIgnores

=============================================================================
