------------------------------- MODULE Modem --------------------------------
(***************************************************************************)
(* The serial link and the SIM900 behind it, as the GSM driver sees them:  *)
(* the transmit buffer of com.c/serial.c that collects commands, the       *)
(* receive buffer that collects lines until the line has been quiet, and   *)
(* a modem that answers the commands it was sent one after the other, or   *)
(* not at all.  The byte-level protocol of the link is not modelled here.  *)
(***************************************************************************)
EXTENDS QFNano

CONSTANTS
  RxLines,       \* lines that fit the receive buffer (100 bytes in main.c)
  MaxPending,    \* commands the modem holds: more are lost
  MaxMessages,   \* bound: messages that arrive during a behaviour
  Burst,         \* TRUE: the lines of one answer arrive without a pause
  Reliable,      \* TRUE: every command is carried out and answered as expected
  Registrations  \* the answers the network gives to AT+CREG?

ASSUME ModemAssumption ==
  /\ RxLines \in Nat /\ MaxPending \in Nat /\ MaxMessages \in Nat
  /\ Burst \in BOOLEAN /\ Reliable \in BOOLEAN
  /\ Registrations \subseteq {"CREG_READY", "CREG_SEARCHING", "CREG_DENIED"}

VARIABLES
  tx,            \* commands in the transmit buffer, not yet sent
  rx,            \* lines in the receive buffer
  avail,         \* lines of rx announced by a DATA_AVAILABLE not yet parsed
  pending,       \* commands the modem has received and not answered
  answer,        \* lines of its answer the modem has still to send
  sim,           \* messages on the SIM card, by status
  arrived        \* messages that have arrived so far

linkVars == <<tx, rx, avail, pending, answer, sim, arrived>>

LinkInit ==
  /\ tx = <<>> /\ rx = <<>> /\ avail = 0
  /\ pending = <<>> /\ answer = <<>>
  /\ sim = [unread |-> 0, read |-> 0] /\ arrived = 0

-----------------------------------------------------------------------------

Prefix(s, n) == SubSeq(s, 1, IF Len(s) > n THEN n ELSE Len(s))

(* The receive interrupt stores bytes while the buffer has room. *)
Received(lines) == Prefix(rx \o lines, RxLines)

(* The transmit interrupt has sent the whole buffer: Com reports SEND_DONE *)
(* and the modem holds the commands it contained.                          *)
TxDone ==
  /\ tx # <<>>
  /\ current = Idle
  /\ tx' = <<>>
  /\ pending' = Prefix(pending \o tx, MaxPending)
  /\ PostedTo("gsm", Event("SEND_DONE"))
  /\ UNCHANGED <<rx, avail, answer, sim, arrived>>

(* Mutant: the buffer is announced again while it is being parsed. *)
RxTimeoutRepeated ==
  /\ rx # <<>>
  /\ current = Idle
  /\ avail' = Len(rx)
  /\ PostedTo("gsm", Event("DATA_AVAILABLE"))
  /\ UNCHANGED <<tx, rx, pending, answer, sim, arrived>>

(* The line has been quiet for rx_timeout periods of 20 ms. *)
RxTimeout ==
  /\ rx # <<>>
  /\ avail = 0
  /\ current = Idle
  /\ avail' = Len(rx)
  /\ PostedTo("gsm", Event("DATA_AVAILABLE"))
  /\ UNCHANGED <<tx, rx, pending, answer, sim, arrived>>

-----------------------------------------------------------------------------

(* Reading a message, if there is one, leaves it marked as read. *)
OneRead ==
  IF sim.unread = 0 THEN {sim}
  ELSE {[unread |-> sim.unread - 1, read |-> sim.read + 1]}
       \cup {s \in {sim} : s.read > 0}

(* A command the modem carries out: its effect on the SIM card, the lines  *)
(* it answers.                                                             *)
Executes(c, lines) ==
  \/ /\ c = "CREG"
     /\ \E r \in Registrations : lines = <<r, "OK">>
     /\ UNCHANGED sim
  \/ /\ c = "CCLK?"
     /\ lines = <<"CCLK", "OK">>
     /\ UNCHANGED sim
  \/ /\ c = "CMGL"
     /\ lines = [i \in 1 .. sim.unread |-> "CMGL"] \o <<"OK">>
     /\ UNCHANGED sim
  \/ /\ c = "CMGR"
     /\ sim' \in OneRead
     /\ lines = IF sim.unread + sim.read > 0 THEN <<"CMGR", "OK">> ELSE <<"OK">>
  \/ /\ c = "CMGD"
     /\ lines = <<"OK">>
     /\ sim' = [sim EXCEPT !.read = 0]
  \/ /\ c = "CMGS"
     /\ lines = <<"PROMPT">>
     /\ UNCHANGED sim
  \/ /\ c = "BODY"
     /\ lines = <<"CMGS", "OK">>
     /\ UNCHANGED sim
  \/ /\ c \in {"AT", "INIT", "CCLK"}
     /\ lines = <<"OK">>
     /\ UNCHANGED sim
  \/ /\ c = "PART"       \* the first half of a long text
     /\ lines = <<>>
     /\ UNCHANGED sim

(* The modem deals with the oldest command it holds: it carries it out, or *)
(* (unless it is reliable) refuses it, or never answers.                   *)
ModemAnswers ==
  /\ Asserts
  /\ answer = <<>>
  /\ pending # <<>>
  /\ pending' = Tail(pending)
  /\ \/ Executes(Head(pending), answer')
     \/ /\ ~Reliable
        /\ answer' \in {<<>>, <<"ERROR">>}
        /\ UNCHANGED sim
  /\ UNCHANGED <<kernelVars, tx, rx, avail, arrived>>

(* It sends the next line of its answer, or all of them in one burst. *)
ModemSends ==
  LET n == IF Burst THEN Len(answer) ELSE 1
  IN /\ Asserts
     /\ answer # <<>>
     /\ rx' = Received(SubSeq(answer, 1, n))
     /\ answer' = SubSeq(answer, n + 1, Len(answer))
     /\ UNCHANGED <<kernelVars, tx, avail, pending, sim, arrived>>

(* A message arrives at the SIM card and the modem announces it (+CMTI). *)
MessageArrives ==
  /\ Asserts
  /\ arrived < MaxMessages
  /\ arrived' = arrived + 1
  /\ sim' = [sim EXCEPT !.unread = @ + 1]
  /\ rx' = Received(<<"CMTI">>)
  /\ UNCHANGED <<kernelVars, tx, avail, pending, answer>>

=============================================================================
