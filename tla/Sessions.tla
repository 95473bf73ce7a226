------------------------------ MODULE Sessions ------------------------------
(***************************************************************************)
(* Menu sessions and periodic status messages while the list of users      *)
(* changes (app.c).  A session is known by its user's id: a bit that it is *)
(* open, one that its option waits for its input, its option and the       *)
(* update periods it has left.  The status messages are known by the       *)
(* position of the user's record: the minutes to the next one, and a bit   *)
(* that one is owed.  Deleting a user moves the records but not the ids,   *)
(* nor anything that is known by either.  The GSM driver does what it is   *)
(* asked here; what becomes of failures is in SmsController, of power      *)
(* failures during writes in Users.                                        *)
(***************************************************************************)
EXTENDS Naturals, Sequences, FiniteSets, SequencesExt, FiniteSetsExt

CONSTANTS
  Owner,         \* the telephone number the device is delivered with
  Others,        \* numbers that may be added
  MaxUsers,      \* MAX_NO_USERS
  SessionTime,   \* the update periods of a session
  OwnerFreq,     \* status_freq of the owner at first boot
  DefaultFreq,   \* DEFAULT_STATUS_FREQ
  Freqs,         \* the frequencies users ask for, 0 for none
  Options        \* the menu options they choose

ASSUME SessionsAssumption ==
  /\ Owner \notin Others /\ MaxUsers \in 1 .. 4
  /\ SessionTime \in Nat \ {0}
  /\ {OwnerFreq, DefaultFreq} \cup Freqs \subseteq 0 .. 255 /\ Freqs # {}
  /\ Options \subseteq {"add_no", "del_no", "enable_broadcast", "status_freq"}

VARIABLES
  records,      \* the table of users
  session,      \* session_expired, bits 0 to 3: the ids with an open session
  menu,         \* bits 4 to 7: the ids whose option waits for its input
  timing,       \* session_details[].session_timing, by id
  option,       \* session_details[].menu_option, by id
  countdown,    \* session_details[].status_freq, by position and by id
  updates,      \* user_gprs_updates: the positions that are owed a status
  app,          \* the state; "replying": until the message is deleted
  queued,       \* SEND_BROADCAST is in the queue
  opener,       \* history: who opened the session of an id
  due           \* history: whom the status owed to a position is for

sessionVars == <<session, menu, timing, option, opener>>
statusVars == <<countdown, updates, queued, due>>
sessionsVars == <<records, sessionVars, statusVars, app>>

Ids == 1 .. MaxUsers
Numbers == {Owner} \cup Others
noUsers == Len(records)
Records == [id : Ids, no : Numbers, broadcast : BOOLEAN, freq : 0 .. 255]
User(id, no, broadcast, freq) == [id |-> id, no |-> no, broadcast |-> broadcast, freq |-> freq]

(* initialize_system reads the frequencies, whatever the broadcast flag.   *)
CountdownsOf(table) == [i \in Ids |-> IF i <= Len(table) THEN table[i].freq ELSE 0]

RamIs(table) ==
  /\ session = {} /\ menu = {} /\ updates = {} /\ queued = FALSE /\ app = "app_idle"
  /\ timing = [i \in Ids |-> 0] /\ option = [i \in Ids |-> "none"]
  /\ countdown = CountdownsOf(table)
  /\ opener = [i \in Ids |-> "nobody"] /\ due = [i \in Ids |-> "nobody"]

(* After the first boot.  *)
SessionsInit ==
  /\ records = <<User(1, Owner, TRUE, OwnerFreq)>>
  /\ RamIs(records)

(* The device is turned off and on. *)
Restart ==
  /\ UNCHANGED records
  /\ session' = {} /\ menu' = {} /\ updates' = {} /\ queued' = FALSE /\ app' = "app_idle"
  /\ timing' = [i \in Ids |-> 0] /\ option' = [i \in Ids |-> "none"]
  /\ countdown' = CountdownsOf(records)
  /\ opener' = [i \in Ids |-> "nobody"] /\ due' = [i \in Ids |-> "nobody"]

(* The sessions of us end. *)
End(us) ==
  /\ session' = session \ us
  /\ opener' = [i \in Ids |-> IF i \in us THEN "nobody" ELSE opener[i]]

-----------------------------------------------------------------------------
(* A message. *)

(* Mutant: a broadcast that was put off begins afterwards. *)
NewMessageKeeps ==
  /\ app = "app_idle"
  /\ app' = "reciever"
  /\ UNCHANGED <<records, sessionVars, statusVars>>

(* SMS_NEW in app_idle: a SEND_BROADCAST behind it in the queue is dropped *)
(* by the state that is current then.                                      *)
NewMessage ==
  /\ app = "app_idle"
  /\ app' = "reciever"
  /\ queued' = FALSE
  /\ UNCHANGED <<records, sessionVars, countdown, updates, due>>

(* validate_user: the id in the first record with the number. *)
Positions(no) == {p \in 1 .. noUsers : records[p].no = no}
IdOf(no) == records[Min(Positions(no))].id

Answer == app = "reciever" /\ app' = "replying"

(* From a stranger, or an order that is not about the menu. *)
OtherMessage ==
  /\ Answer
  /\ UNCHANGED <<records, sessionVars, statusVars>>

(* Mutants: the menu bit of an earlier session stays; no time is set. *)
OpenSessionKeeps(no) ==
  /\ Answer /\ Positions(no) # {} /\ IdOf(no) \notin session
  /\ LET u == IdOf(no)
     IN /\ session' = session \cup {u}
        /\ timing' = [timing EXCEPT ![u] = SessionTime]
        /\ option' = [option EXCEPT ![u] = "none"]
        /\ opener' = [opener EXCEPT ![u] = no]
  /\ UNCHANGED <<records, menu, statusVars>>
OpenSessionUntimed(no) ==
  /\ Answer /\ Positions(no) # {} /\ IdOf(no) \notin session
  /\ LET u == IdOf(no)
     IN /\ session' = session \cup {u} /\ menu' = menu \ {u}
        /\ option' = [option EXCEPT ![u] = "none"]
        /\ opener' = [opener EXCEPT ![u] = no]
  /\ UNCHANGED <<records, timing, statusVars>>

(* MENU without a session: START_SESSION in action_menu. *)
OpenSession(no) ==
  /\ Answer /\ Positions(no) # {} /\ IdOf(no) \notin session
  /\ LET u == IdOf(no)
     IN /\ session' = session \cup {u} /\ menu' = menu \ {u}
        /\ timing' = [timing EXCEPT ![u] = SessionTime]
        /\ option' = [option EXCEPT ![u] = "none"]
        /\ opener' = [opener EXCEPT ![u] = no]
  /\ UNCHANGED <<records, statusVars>>

(* menu_parse and the first step of an option, which asks for its input,   *)
(* or ends the session when there is nobody to delete or no room to add.   *)
ChooseOption(no, o) ==
  /\ Answer /\ Positions(no) # {}
  /\ LET u == IdOf(no)
         over == \/ o = "add_no" /\ noUsers = MaxUsers
                 \/ o = "del_no" /\ noUsers <= 1
     IN /\ u \in session /\ u \notin menu
        /\ option' = [option EXCEPT ![u] = o]
        /\ menu' = IF over THEN menu ELSE menu \cup {u}
        /\ End(IF over THEN {u} ELSE {})
  /\ UNCHANGED <<records, timing, statusVars>>

(* The second step of an option, whatever the message is; it ends the      *)
(* session, of which the rest stays as it is.                              *)
SecondStep(no, o) ==
  /\ Answer /\ Positions(no) # {}
  /\ IdOf(no) \in session \cap menu /\ option[IdOf(no)] = o
  /\ End({IdOf(no)})
  /\ UNCHANGED <<menu, timing, option, updates, queued, due>>

InvalidInput(no) ==
  /\ \E o \in Options : SecondStep(no, o)
  /\ UNCHANGED <<records, countdown>>

(* Mutant: no limit on the users. *)
AddNumberUnlimited(no, new) ==
  /\ SecondStep(no, "add_no")
  /\ records' = Append(records, User(noUsers + 1, new, FALSE, DefaultFreq))
  /\ UNCHANGED countdown
AddNumber(no, new) ==
  /\ SecondStep(no, "add_no") /\ noUsers < MaxUsers
  /\ records' = Append(records, User(noUsers + 1, new, FALSE, DefaultFreq))
  /\ UNCHANGED countdown

DeleteNumber(no, i) ==
  /\ SecondStep(no, "del_no") /\ i \in 1 .. noUsers - 1
  /\ records' = RemoveAt(records, i + 1)
  /\ UNCHANGED countdown

(* The record whose number is the sender's id is read, changed and written *)
(* back.  If there is none, what is read is what the stack holds.          *)
SwitchBroadcast(no, on) ==
  /\ SecondStep(no, "enable_broadcast")
  /\ LET u == IdOf(no)
     IN /\ records' = IF u <= noUsers THEN [records EXCEPT ![u].broadcast = on] ELSE records
        /\ \E freq \in IF u <= noUsers THEN {records[u].freq} ELSE Freqs :
             countdown' = [countdown EXCEPT ![u] = IF ~on THEN 0
                                                   ELSE IF freq > 0 THEN freq ELSE @]

SetFrequency(no, freq) ==
  /\ SecondStep(no, "status_freq")
  /\ LET u == IdOf(no)
     IN /\ records' = IF u <= noUsers THEN [records EXCEPT ![u].freq = freq] ELSE records
        /\ \E on \in IF u <= noUsers THEN {records[u].broadcast} ELSE BOOLEAN :
             countdown' = [countdown EXCEPT ![u] = IF on /\ freq > 0 THEN freq ELSE @]

(* The answer is sent and the message deleted. *)
Replied ==
  /\ app = "replying"
  /\ app' = "app_idle"
  /\ UNCHANGED <<records, sessionVars, statusVars>>

-----------------------------------------------------------------------------
(* The update period. *)

(* Mutant: the last user's session is left out. *)
AgeShort ==
  LET aged == {i \in 1 .. noUsers - 1 : timing[i] > 0}
  IN /\ timing' = [i \in Ids |-> IF i \in aged THEN timing[i] - 1 ELSE timing[i]]
     /\ End({i \in aged : timing[i] = 1})
     /\ UNCHANGED <<menu, option>>

(* update_session_timings: as many sessions as there are users. *)
Age ==
  LET aged == {i \in 1 .. noUsers : timing[i] > 0}
  IN /\ timing' = [i \in Ids |-> IF i \in aged THEN timing[i] - 1 ELSE timing[i]]
     /\ End({i \in aged : timing[i] = 1})
     /\ UNCHANGED <<menu, option>>

(* status_freq_updates *)
CountDown ==
  LET counted == {i \in 1 .. noUsers : countdown[i] > 0}
      over == {i \in counted : countdown[i] = 1}
  IN /\ countdown' = [i \in Ids |-> IF i \in over THEN records[i].freq
                                    ELSE IF i \in counted THEN countdown[i] - 1
                                    ELSE countdown[i]]
     /\ updates' = updates \cup over
     /\ due' = [i \in Ids |-> IF i \in over THEN records[i].no ELSE due[i]]
     /\ queued' = (queued \/ updates' # {})

(* Q_TIMEOUT_SIG in app_idle *)
IdleTick ==
  /\ app = "app_idle"
  /\ Age
  /\ IF updates # {} THEN UNCHANGED statusVars ELSE CountDown
  /\ UNCHANGED <<records, app>>

(* ... and in app_active *)
ActiveTick ==
  /\ app # "app_idle"
  /\ Age
  /\ UNCHANGED <<records, statusVars, app>>

-----------------------------------------------------------------------------
(* send_broadcast *)

BeginBroadcast ==
  /\ app = "app_idle" /\ queued
  /\ app' = "send_broadcast"
  /\ queued' = FALSE
  /\ UNCHANGED <<records, sessionVars, countdown, updates, due>>

Reachable == updates \cap 1 .. noUsers

(* Mutant: the bit is not cleared. *)
SendNextKeeps ==
  /\ app = "send_broadcast" /\ Reachable # {}
  /\ UNCHANGED <<records, sessionVars, statusVars, app>>

(* SMS_SENT: the next message, to the first who is owed one; a bit beyond  *)
(* the users keeps the state waiting.                                      *)
SendNext ==
  /\ app = "send_broadcast" /\ Reachable # {}
  /\ LET i == Min(Reachable)
     IN updates' = updates \ {i} /\ due' = [due EXCEPT ![i] = "nobody"]
  /\ UNCHANGED <<records, sessionVars, countdown, queued, app>>

EndBroadcast ==
  /\ app = "send_broadcast" /\ updates = {}
  /\ app' = "replying"
  /\ UNCHANGED <<records, sessionVars, statusVars>>

-----------------------------------------------------------------------------

MenuMessage(no) ==
  \/ OpenSession(no) \/ InvalidInput(no)
  \/ \E o \in Options : ChooseOption(no, o)
  \/ \E new \in Others : AddNumber(no, new)
  \/ \E i \in 1 .. MaxUsers : DeleteNumber(no, i)
  \/ \E on \in BOOLEAN : SwitchBroadcast(no, on)
  \/ \E freq \in Freqs : SetFrequency(no, freq)

Dealt == OtherMessage \/ \E no \in Numbers : MenuMessage(no)

SessionsNext ==
  \/ Restart \/ NewMessage \/ Dealt \/ Replied
  \/ IdleTick \/ ActiveTick
  \/ BeginBroadcast \/ SendNext \/ EndBroadcast

SessionsSpec == SessionsInit /\ [][SessionsNext]_sessionsVars

(* The driver answers and the timer expires.  app_idle arms the timer anew *)
(* after every message, so that the messages must leave it 45 seconds now  *)
(* and then; nobody need send one.                                         *)
SessionsFairness ==
  /\ WF_sessionsVars(Dealt) /\ WF_sessionsVars(Replied)
  /\ WF_sessionsVars(IdleTick \/ ActiveTick)
  /\ WF_sessionsVars(SendNext \/ EndBroadcast)

SessionsFairSpec == SessionsSpec /\ SessionsFairness

-----------------------------------------------------------------------------

TableTypeOK == records \in Seq(Records) /\ noUsers \in 1 .. MaxUsers

SessionTypeOK ==
  /\ session \subseteq Ids /\ menu \subseteq Ids
  /\ timing \in [Ids -> 0 .. SessionTime] /\ option \in [Ids -> Options \cup {"none"}]
  /\ opener \in [Ids -> Numbers \cup {"nobody"}]

StatusTypeOK ==
  /\ app \in {"app_idle", "reciever", "replying", "send_broadcast"} /\ queued \in BOOLEAN
  /\ countdown \in [Ids -> 0 .. 255] /\ updates \subseteq Ids
  /\ due \in [Ids -> Numbers \cup {"nobody"}]

(* Bits, counters and records have their types, and ids fit the bits.      *)
SessionsTypeOK == TableTypeOK /\ SessionTypeOK /\ StatusTypeOK

(* A session that is open has time left, also when its user is deleted or  *)
(* another gets its id: it ends once it is counted again.                  *)
SessionTimed == \A i \in session : timing[i] > 0

(* An input is never taken for that of an option of an earlier session: in *)
(* a session that waits for one an option has been chosen.                 *)
InputHasOption == \A i \in session \cap menu : option[i] # "none"

(* The steps in which a message of a broadcast is sent. *)
Sending == app = "send_broadcast" /\ app' = "send_broadcast"

(* The status goes to the one it was due to: no record moves between the   *)
(* expiry that sets a user's bit and the sending that uses its position.   *)
RightRecipient ==
  [][Sending => \A i \in updates \ updates' : records[i].no = due[i]]_sessionsVars

(* The session of an id that the counting reaches ends, whatever messages  *)
(* come and whoever is added or deleted.                                   *)
SessionsAge ==
  \A i \in Ids : (i \in session /\ i <= noUsers) ~> (i \notin session \/ i > noUsers)

(* A broadcast ends, and the messages put off meanwhile get their turn.    *)
BroadcastEnds == app = "send_broadcast" ~> app = "app_idle"

(* "Menu has already been entered, so parse the command": a user whose     *)
(* messages are parsed as commands has opened the session.                 *)
SaysEntered ==
  \A no \in Numbers : Positions(no) # {} /\ IdOf(no) \in session => opener[IdOf(no)] = no

(* "BROADCAST DISABLED": nobody for whom it is disabled is sent one.       *)
SaysDisabled ==
  [][Sending => \A i \in updates \ updates' : records[i].broadcast]_sessionsVars

(* "If 0 disable Auto Status Messages": nobody who has set the frequency   *)
(* to 0 is sent one.                                                       *)
SaysZero ==
  [][Sending => \A i \in updates \ updates' : records[i].freq # 0]_sessionsVars
=============================================================================
