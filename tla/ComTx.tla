------------------------------- MODULE ComTx --------------------------------
(***************************************************************************)
(* The transmitting side of the serial line, down to the interrupt: the    *)
(* GSM driver's send_command_timeout, which fills the transmit buffer, the *)
(* Com object, which turns the transmitter on, and the data register empty *)
(* interrupt, which takes the buffer to the wire byte by byte.             *)
(*                                                                         *)
(* The kernel is cooperative and Com has a higher priority than the GSM    *)
(* driver: a handler of the driver is interrupted by interrupts only, and  *)
(* begins when Com has nothing to do.  The bytes of the texts are numbered *)
(* in the order in which they are to be sent.                              *)
(***************************************************************************)
EXTENDS Naturals, Sequences, SequencesExt

CONSTANTS
  TxSize,       \* COM_TX_BUFFER_SIZE
  Commands,     \* the operations' commands: where each of their parts ends
  RamTexts,     \* the lengths of texts kept in RAM, with their ^Z
  FlashTexts,   \* the lengths of texts kept in flash: the menu
  MaxOps,       \* bound: operations of the driver
  Hasty         \* whether an operation may begin while a command goes out

(* A command is of four parts at most and fits, as does a text in RAM; a   *)
(* text in flash needs the buffer twice, for the rest of it comes with a   *)
(* ^Z.  The length of two buffers is still a byte.                         *)
ASSUME ComTxAssumption ==
  /\ TxSize \in 3 .. 127 /\ MaxOps \in Nat /\ Hasty \in BOOLEAN
  /\ Commands \subseteq Seq(1 .. TxSize)
  /\ \A c \in Commands : Len(c) \in 1 .. 4 /\ \A i \in 2 .. Len(c) : c[i - 1] < c[i]
  /\ RamTexts \subseteq 1 .. TxSize
  /\ FlashTexts \subseteq TxSize + 2 .. 2 * TxSize

VARIABLES
  payload,      \* com_drv.tx.payload_size
  txBuffer,     \* the string in the transmit buffer
  readIx,       \* ser_dev.tx.read_ix
  udrie,        \* the data register empty interrupt is enabled
  wire,         \* the bytes that went out
  comQueue,     \* Com's event queue, of 5
  comTimer,     \* Com's 20 ms timer is armed
  gsmQueue,     \* the GSM driver's queue: SEND_DONE and BUFFER_FULL
  gsm,          \* the driver's state, as far as it sends
  useFlash,     \* control.use_flash
  text,         \* the text of the message in flash
  parts,        \* the parts the running handler has still to send
  length,       \* length in send_command_timeout, 0 before it is computed
  copied,       \* ... and the part is in the buffer
  numbered,     \* how many bytes have been asked for
  ops           \* operations begun

bufferVars == <<payload, txBuffer, readIx, udrie, wire>>
handlerVars == <<parts, length, copied>>
gsmVars == <<gsm, useFlash, text, numbered, ops>>
comTxVars == <<bufferVars, comQueue, comTimer, gsmQueue, gsmVars, handlerVars>>

Part(bytes, flash) == [bytes |-> bytes, flash |-> flash]

(* Fresh bytes: n of them, after k others. *)
Bytes(k, n) == [i \in 1 .. n |-> numbered + k + i]

ComTxInit ==
  /\ payload = 0 /\ txBuffer = <<>> /\ readIx = 0 /\ udrie = FALSE /\ wire = <<>>
  /\ comQueue = <<>> /\ comTimer = TRUE /\ gsmQueue = <<>>
  /\ gsm = "active_idle" /\ useFlash = 0 /\ text = <<>>
  /\ parts = <<>> /\ length = 0 /\ copied = FALSE
  /\ numbered = 0 /\ ops = 0

-----------------------------------------------------------------------------
(* send_command_timeout, for the first of the parts to send. *)

(* The length the buffer would have. *)
Measure ==
  /\ parts # <<>> /\ length = 0
  /\ length' = payload + Len(Head(parts).bytes)
  /\ UNCHANGED <<bufferVars, comQueue, comTimer, gsmQueue, gsmVars, parts, copied>>

TooLong == length > TxSize

(* Mutant: the rest of a long text begins where the buffer ends, less one. *)
BufferFullBack == [sig |-> "BUFFER_FULL", par |-> TxSize - 1]
(* The event that has the rest of a long text sent later. *)
BufferFull == [sig |-> "BUFFER_FULL", par |-> TxSize + 1]

(* Mutant: the text is copied whole. *)
CopyUncut ==
  /\ parts # <<>> /\ length # 0 /\ ~copied /\ TooLong
  /\ copied' = TRUE /\ length' = TxSize
  /\ IF payload = 0 /\ Head(parts).flash
     THEN /\ txBuffer' = Head(parts).bytes
          /\ gsmQueue' = Append(gsmQueue, BufferFull)
     ELSE UNCHANGED <<txBuffer, gsmQueue>>
  /\ UNCHANGED <<payload, readIx, udrie, wire, comQueue, comTimer, gsmVars, parts>>

(* A text that does not fit is cut, if it is in flash and the buffer is    *)
(* free; else nothing is copied.                                           *)
CopyCut ==
  /\ parts # <<>> /\ length # 0 /\ ~copied /\ TooLong
  /\ copied' = TRUE /\ length' = TxSize
  /\ IF payload = 0 /\ Head(parts).flash
     THEN /\ txBuffer' = SubSeq(Head(parts).bytes, 1, TxSize)
          /\ gsmQueue' = Append(gsmQueue, BufferFull)
     ELSE UNCHANGED <<txBuffer, gsmQueue>>
  /\ UNCHANGED <<payload, readIx, udrie, wire, comQueue, comTimer, gsmVars, parts>>

(* The first part: strcpy, with interrupts on. *)
CopyFirst ==
  /\ parts # <<>> /\ length # 0 /\ ~copied /\ ~TooLong /\ payload = 0
  /\ txBuffer' = Head(parts).bytes
  /\ copied' = TRUE
  /\ UNCHANGED <<payload, readIx, udrie, wire, comQueue, comTimer, gsmQueue, gsmVars,
                 parts, length>>

(* ... then the length is set, and Com is asked to send. *)
Posted == comQueue' = Append(comQueue, "SEND_REQUEST")
Return == parts' = Tail(parts) /\ length' = 0 /\ copied' = FALSE

Store ==
  /\ copied
  /\ payload' = length
  /\ Posted /\ Return
  /\ UNCHANGED <<txBuffer, readIx, udrie, wire, comTimer, gsmQueue, gsmVars>>

(* A further part: strcat and the new length, with interrupts off. *)
AppendPart ==
  /\ parts # <<>> /\ length # 0 /\ ~copied /\ ~TooLong /\ payload # 0
  /\ txBuffer' = txBuffer \o Head(parts).bytes
  /\ payload' = length
  /\ Posted /\ Return
  /\ UNCHANGED <<readIx, udrie, wire, comTimer, gsmQueue, gsmVars>>

-----------------------------------------------------------------------------
(* The GSM driver. *)

(* No handler is running and Com has nothing to do. *)
Ready == parts = <<>> /\ comQueue = <<>>

(* An operation begins, and the modem answers, when what was sent before   *)
(* is long through: the shortest time-out is a second, an answer is seen   *)
(* 400 ms after it came, and the buffer is empty in 26 ms.                 *)
Through == Ready /\ gsmQueue = <<>> /\ ~udrie /\ payload = 0

Sends(p, n) ==
  /\ parts' = p
  /\ numbered' = numbered + n
  /\ UNCHANGED <<bufferVars, comQueue, comTimer, length, copied>>

(* The parts of a command, from texts in RAM and in flash that are short. *)
PartsOf(ends) ==
  [i \in DOMAIN ends |->
     LET start == IF i = 1 THEN 0 ELSE ends[i - 1]
     IN Part(Bytes(start, ends[i] - start), FALSE)]

(* A command other than a message's: one handler sends all its parts.  It  *)
(* may begin while the last one goes out (Hasty) when that was ended by    *)
(* the answer to the one before, which came after its time-out.            *)
Operation(ends) ==
  /\ Through \/ (Hasty /\ Ready)
  /\ gsm = "active_idle" /\ ops < MaxOps
  /\ ops' = ops + 1
  /\ Sends(PartsOf(ends), ends[Len(ends)])
  /\ UNCHANGED <<gsm, useFlash, text, gsmQueue>>

(* EVENT_GSM_SMS_SEND and the entry of active_sms_send: the command with   *)
(* the number, in three parts.                                             *)
SmsSend(flash) ==
  /\ Through /\ gsm = "active_idle" /\ ops < MaxOps
  /\ ops' = ops + 1
  /\ gsm' = "active_sms_send"
  /\ useFlash' = IF flash THEN 1 ELSE 0
  /\ Sends(PartsOf(<<1, 2, 3>>), 3)
  /\ UNCHANGED <<text, gsmQueue>>

(* GSM_MSG_SMS_PROMPT: the text is sent, one in RAM with its ^Z.           *)
Prompt ==
  /\ Through /\ gsm = "active_sms_send" /\ text = <<>>
  /\ \E n \in IF useFlash # 0 THEN FlashTexts ELSE RamTexts :
       /\ text' = Bytes(0, n)
       /\ Sends(<<Part(text', useFlash # 0)>>, n)
  /\ UNCHANGED <<gsm, useFlash, ops, gsmQueue>>

(* EVENT_GSM_BUFFER_FULL: where the text continues.                        *)
BufferFullEvent ==
  /\ Ready /\ gsmQueue # <<>> /\ Head(gsmQueue).sig = "BUFFER_FULL"
  /\ gsmQueue' = Tail(gsmQueue)
  /\ useFlash' = Head(gsmQueue).par
  /\ gsm' = "active_sms_send_support"
  /\ UNCHANGED <<bufferVars, comQueue, comTimer, text, numbered, ops, handlerVars>>

(* EVENT_COM_SEND_DONE: the rest of the text and a ^Z.                     *)
Continue ==
  /\ Ready /\ gsmQueue # <<>> /\ Head(gsmQueue).sig = "SEND_DONE"
  /\ gsm = "active_sms_send_support" /\ useFlash # 0
  /\ gsmQueue' = Tail(gsmQueue)
  /\ useFlash' = 0
  /\ Sends(<<Part(SubSeq(text, useFlash + 1, Len(text)), TRUE), Part(Bytes(0, 1), FALSE)>>, 1)
  /\ UNCHANGED <<gsm, text, ops>>

SendDoneIgnored ==
  /\ Ready /\ gsmQueue # <<>> /\ Head(gsmQueue).sig = "SEND_DONE"
  /\ gsm # "active_sms_send_support" \/ useFlash = 0
  /\ gsmQueue' = Tail(gsmQueue)
  /\ UNCHANGED <<bufferVars, comQueue, comTimer, gsmVars, handlerVars>>

(* The modem acknowledges the message, or the driver gives up.             *)
SmsOver ==
  /\ Through /\ gsm # "active_idle"
  /\ gsm' = "active_idle"
  /\ text' = <<>>
  /\ UNCHANGED <<bufferVars, comQueue, comTimer, gsmQueue, useFlash, numbered, ops, handlerVars>>

-----------------------------------------------------------------------------
(* Com and the interrupts. *)

(* Com's handlers run when no handler of the driver does.                  *)
ComTakes(sig) ==
  /\ parts = <<>> /\ comQueue # <<>> /\ Head(comQueue) = sig
  /\ comQueue' = Tail(comQueue)

ComSend ==
  /\ ComTakes("SEND_REQUEST")
  /\ udrie' = TRUE
  /\ UNCHANGED <<payload, txBuffer, readIx, wire, comTimer, gsmQueue, gsmVars, handlerVars>>

ComSendDone ==
  /\ ComTakes("SERIAL_SEND_DONE")
  /\ gsmQueue' = Append(gsmQueue, [sig |-> "SEND_DONE", par |-> 0])
  /\ UNCHANGED <<bufferVars, comTimer, gsmVars, handlerVars>>

(* Every 20 ms Com looks for received data, which is ComRx's part.         *)
ComTimeout ==
  /\ ComTakes("TIMEOUT")
  /\ comTimer' = TRUE
  /\ UNCHANGED <<bufferVars, gsmQueue, gsmVars, handlerVars>>

(* Mutant: the timer need not be armed again. *)
TickPeriodic ==
  /\ comTimer
  /\ comQueue' = Append(comQueue, "TIMEOUT")
  /\ UNCHANGED <<bufferVars, comTimer, gsmQueue, gsmVars, handlerVars>>
Tick ==
  /\ comTimer
  /\ comTimer' = FALSE
  /\ comQueue' = Append(comQueue, "TIMEOUT")
  /\ UNCHANGED <<bufferVars, gsmQueue, gsmVars, handlerVars>>

(* The buffer's byte i; 0 stands for what lies behind the string. *)
ByteAt(i) == IF i <= Len(txBuffer) THEN txBuffer[i] ELSE 0

(* Mutant: the end is reported with the last byte. *)
UdreByteLast ==
  /\ udrie /\ readIx < payload
  /\ wire' = Append(wire, ByteAt(readIx + 1))
  /\ readIx' = readIx + 1
  /\ comQueue' = IF readIx' = payload THEN Append(comQueue, "SERIAL_SEND_DONE") ELSE comQueue
  /\ UNCHANGED <<payload, txBuffer, udrie, comTimer, gsmQueue, gsmVars, handlerVars>>

(* The data register is empty: the next byte, or the end.                  *)
UdreByte ==
  /\ udrie /\ readIx < payload
  /\ wire' = Append(wire, ByteAt(readIx + 1))
  /\ readIx' = readIx + 1
  /\ UNCHANGED <<payload, txBuffer, udrie, comQueue, comTimer, gsmQueue, gsmVars, handlerVars>>

UdreEndSilent ==
  /\ udrie /\ readIx >= payload
  /\ readIx' = 0 /\ payload' = 0 /\ udrie' = FALSE
  /\ UNCHANGED <<txBuffer, wire, comQueue, comTimer, gsmQueue, gsmVars, handlerVars>>
UdreEnd ==
  /\ udrie /\ readIx >= payload
  /\ readIx' = 0 /\ payload' = 0 /\ udrie' = FALSE
  /\ comQueue' = Append(comQueue, "SERIAL_SEND_DONE")
  /\ UNCHANGED <<txBuffer, wire, comTimer, gsmQueue, gsmVars, handlerVars>>

ComTxNext ==
  \/ Measure \/ CopyCut \/ CopyFirst \/ Store \/ AppendPart
  \/ \E ends \in Commands : Operation(ends)
  \/ \E flash \in {b \in BOOLEAN : IF b THEN FlashTexts # {} ELSE RamTexts # {}} : SmsSend(flash)
  \/ Prompt \/ BufferFullEvent \/ Continue \/ SendDoneIgnored \/ SmsOver
  \/ ComSend \/ ComSendDone \/ ComTimeout \/ Tick \/ UdreByte \/ UdreEnd

ComTxSpec == ComTxInit /\ [][ComTxNext]_comTxVars

(* Interrupts are taken and handlers return; the driver's turn comes,      *)
(* however often the timer of Com expires meanwhile (SF): handlers take    *)
(* microseconds, the timer 20 ms.  Operations need not begin.              *)
ComTxFairness ==
  /\ WF_comTxVars(Measure \/ CopyCut \/ CopyFirst \/ Store \/ AppendPart)
  /\ WF_comTxVars(ComSend \/ ComSendDone \/ ComTimeout)
  /\ WF_comTxVars(UdreByte \/ UdreEnd)
  /\ SF_comTxVars(BufferFullEvent \/ Continue \/ SendDoneIgnored)

ComTxFairSpec == ComTxSpec /\ ComTxFairness

-----------------------------------------------------------------------------

(* The indices and the handlers' variables have their types, and what is   *)
(* written stays within the transmit buffer.                               *)
ComTxTypeOK ==
  /\ payload \in 0 .. TxSize /\ readIx \in 0 .. TxSize
  /\ txBuffer \in Seq(1 .. numbered) /\ Len(txBuffer) <= TxSize /\ wire \in Seq(0 .. numbered)
  /\ udrie \in BOOLEAN /\ comTimer \in BOOLEAN /\ copied \in BOOLEAN
  /\ comQueue \in Seq({"SEND_REQUEST", "TIMEOUT", "SERIAL_SEND_DONE"})
  /\ gsmQueue \in Seq([sig : {"SEND_DONE", "BUFFER_FULL"}, par : 0 .. TxSize + 1])
  /\ gsm \in {"active_idle", "active_sms_send", "active_sms_send_support"}
  /\ useFlash \in 0 .. TxSize + 1 /\ length \in 0 .. 2 * TxSize
  /\ text \in Seq(1 .. numbered) /\ numbered \in Nat /\ ops \in 0 .. MaxOps
  /\ parts \in Seq([bytes : Seq(1 .. numbered), flash : BOOLEAN])

(* A command of four parts, the timer and the end of a transmission        *)
(* together never overflow Com's queue of five, nor the driver's.          *)
ComQueueHolds == Len(comQueue) <= 5 /\ Len(gsmQueue) <= 5

(* What has been asked for and is not on the wire: the rest of the buffer, *)
(* the parts to send, and the rest of a text that was cut.                 *)
Cuts == {i \in DOMAIN gsmQueue : gsmQueue[i].sig = "BUFFER_FULL"}
CutAt ==
  IF copied THEN 0
  ELSE IF Cuts # {} THEN gsmQueue[CHOOSE i \in Cuts : TRUE].par
  ELSE IF gsm = "active_sms_send_support" THEN useFlash ELSE 0
InBuffer == [i \in 1 .. payload - readIx |-> ByteAt(readIx + i)]
BytesOf(i) == IF i \in DOMAIN parts THEN parts[i].bytes ELSE <<>>
Rest == IF CutAt = 0 THEN <<>> ELSE SubSeq(text, CutAt + 1, Len(text))
Unsent == InBuffer \o BytesOf(1) \o BytesOf(2) \o BytesOf(3) \o BytesOf(4) \o Rest

(* The line is a channel: whatever the interrupts do between the parts of  *)
(* a command, its bytes go out in order, once, and all of them, but for    *)
(* what is lost where a text in flash is cut.                              *)
TxLine == INSTANCE Channel WITH
  mayLose <- useFlash # 0, inTransit <- Unsent, delivered <- wire
SentAsWritten == TxLine!ChannelSpec

(* The rest of a cut text is begun when the first part is out, never over  *)
(* a buffer that is still being sent: no SEND_DONE is taken for another's. *)
RestWaits == [][gsm = "active_sms_send_support" /\ useFlash # 0 /\ useFlash' = 0
                  => payload = 0 /\ ~udrie /\ readIx = 0]_comTxVars

(* What has been asked for goes out.                                       *)
AllGoesOut == (Unsent # <<>>) ~> (Unsent = <<>>)

(* "there should be some form of mechanism to lock the buffer for others,  *)
(* until the current action is complete": a command added while another is *)
(* going out never makes the interrupt send what nobody wrote.             *)
SaysLocked == 0 \notin ToSet(wire)

(* "Set session bit, update timings and send menu list of commands         *)
(* message": the menu, as written.                                         *)
SaysMenu == Through => ToSet(wire) = 1 .. numbered
=============================================================================
