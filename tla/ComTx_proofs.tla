----------------------------- MODULE ComTx_proofs -----------------------------
(***************************************************************************)
(* The transmitting side of the serial line, proved for every size of the  *)
(* buffer, all commands and texts and any number of operations: its types, *)
(* that the rest of a cut text waits, and, when no operation begins while  *)
(* a command goes out, that its queues hold and that it implements         *)
(* Channel.                                                                *)
(***************************************************************************)
EXTENDS ComTx, SequenceTheorems, TLAPS

-----------------------------------------------------------------------------
(* The invariant. *)

(* Nothing is on the way when a handler of the driver begins to send.      *)
Undisturbed == ~Hasty \/ gsm # "active_idle"
Quiet == payload = 0 /\ ~udrie /\ readIx = 0

(* What Com has to do: nothing but to look for data, or one thing more.    *)
NothingElse == comQueue = <<>> \/ (~comTimer /\ comQueue = <<"TIMEOUT">>)
OneEvent(sig) ==
  \/ comQueue = <<sig>>
  \/ ~comTimer /\ comQueue = <<sig, "TIMEOUT">>
  \/ ~comTimer /\ comQueue = <<"TIMEOUT", sig>>

SendDone == [sig |-> "SEND_DONE", par |-> 0]

(* A text in flash is sent: its first part is with the handler, ...        *)
Texting == gsm # "active_idle" /\ useFlash # 0 /\ text # <<>>
AtText ==
  /\ gsm = "active_sms_send" /\ useFlash # 0
  /\ parts = <<Part(text, TRUE)>> /\ payload = 0 /\ NothingElse
  /\ Len(text) \in TxSize + 2 .. 2 * TxSize
  /\ gsmQueue = IF copied THEN <<BufferFull>> ELSE <<>>
(* ... with Com or the interrupt, ... *)
OnTheWay ==
  /\ parts = <<>>
  /\ gsmQueue = IF gsm = "active_sms_send" THEN <<BufferFull>> ELSE <<>>
  /\ \/ OneEvent("SEND_REQUEST") /\ ~udrie
     \/ NothingElse /\ udrie
     \/ OneEvent("SERIAL_SEND_DONE") /\ Quiet
(* ... or out, and the driver has been told.                               *)
FirstPartOut ==
  /\ parts = <<>> /\ NothingElse /\ Quiet
  /\ gsmQueue = IF gsm = "active_sms_send" THEN <<BufferFull, SendDone>> ELSE <<SendDone>>

(* The driver's queue has word of a cut text only while it is sent, and it *)
(* says where the text was cut.                                            *)
OneText ==
  /\ gsm = "active_idle" => text = <<>>
  /\ gsm = "active_sms_send_support" => text # <<>> /\ useFlash \in {0, TxSize + 1}
  /\ Texting => /\ Len(text) \in TxSize + 2 .. 2 * TxSize
                /\ AtText \/ OnTheWay \/ FirstPartOut
  /\ ~Texting => \A i \in DOMAIN gsmQueue : gsmQueue[i].sig = "SEND_DONE"

(* What is left to send fits, but for a text that is to be cut.            *)
LenOf(i) == Len(BytesOf(i))
Left == payload + LenOf(1) + LenOf(2) + LenOf(3) + LenOf(4)
PartsFit ==
  /\ Len(parts) <= 4
  /\ \A i \in DOMAIN parts : parts[i].flash => gsm # "active_idle"
  /\ AtText \/ \A i \in 1 .. 4 : LenOf(i) <= TxSize
  /\ AtText \/ (Undisturbed => Left <= TxSize)

(* The length is that of the buffer with the part, as long as nothing goes *)
(* out meanwhile.                                                          *)
Measured ==
  /\ length # 0 => parts # <<>>
  /\ length # 0 /\ ~copied => length >= LenOf(1)
  /\ length # 0 /\ ~copied /\ (payload # 0 \/ Undisturbed) => length = payload + LenOf(1)
  /\ copied => length \in 1 .. TxSize /\ Len(txBuffer) <= length
  /\ payload # 0 => Len(txBuffer) <= payload
  /\ Undisturbed /\ parts # <<>> => ~udrie
  /\ ~udrie => readIx = 0

(* What the buffer holds is what was written, or its beginning.            *)
Filled ==
  Undisturbed =>
    /\ payload # 0 => Len(txBuffer) = payload
    /\ copied => /\ payload = 0
                 /\ length = IF LenOf(1) <= TxSize THEN LenOf(1) ELSE TxSize
                 /\ txBuffer = SubSeq(BytesOf(1), 1, length)

(* A part to send becomes a request, a transmission, its end, and word to  *)
(* the driver: one of these at a time.  The timer is armed or expired.     *)
One(b) == IF b THEN 1 ELSE 0
Tokens == Len(parts) + Len(comQueue) + Len(gsmQueue) + One(udrie) + One(comTimer)
FewTokens == ~Hasty => Tokens <= 5

ComTxInv ==
  /\ ComTxTypeOK /\ OneText /\ PartsFit /\ Measured /\ Filled /\ FewTokens

-----------------------------------------------------------------------------
(* The constants, and what a state whose types are right looks like. *)

LEMMA Constants ==
  /\ TxSize \in Nat /\ TxSize >= 3 /\ TxSize <= 127 /\ MaxOps \in Nat /\ Hasty \in BOOLEAN
  /\ RamTexts \subseteq 1 .. TxSize /\ FlashTexts \subseteq TxSize + 2 .. 2 * TxSize
BY ComTxAssumption

LEMMA Shapes ==
  ASSUME ComTxTypeOK
  PROVE  /\ payload \in Nat /\ payload <= TxSize /\ readIx \in Nat /\ readIx <= TxSize
         /\ length \in Nat /\ length <= 2 * TxSize /\ numbered \in Nat
         /\ txBuffer \in Seq(1 .. numbered) /\ Len(txBuffer) \in Nat /\ Len(txBuffer) <= TxSize
         /\ text \in Seq(1 .. numbered) /\ Len(text) \in Nat
         /\ Len(parts) \in Nat /\ DOMAIN parts = 1 .. Len(parts)
         /\ Len(comQueue) \in Nat /\ DOMAIN comQueue = 1 .. Len(comQueue)
         /\ Len(gsmQueue) \in Nat /\ DOMAIN gsmQueue = 1 .. Len(gsmQueue)
BY Constants, LenProperties DEF ComTxTypeOK

(* The type of a part depends on the number of bytes asked for.            *)
PartType == [bytes : Seq(1 .. numbered), flash : BOOLEAN]

LEMMA Parts ==
  ASSUME ComTxTypeOK
  PROVE  /\ \A i \in DOMAIN parts : parts[i] \in PartType
         /\ \A i : BytesOf(i) \in Seq(1 .. numbered) /\ LenOf(i) \in Nat
         /\ Left \in Nat /\ Left = payload + LenOf(1) + LenOf(2) + LenOf(3) + LenOf(4)
<1>1. \A i \in DOMAIN parts : parts[i] \in PartType
  BY ElementOfSeq, Shapes DEF ComTxTypeOK, PartType
<1>2. <<>> \in Seq(1 .. numbered)
  OBVIOUS
<1>3. \A i : BytesOf(i) \in Seq(1 .. numbered)
  BY <1>1, <1>2 DEF BytesOf, PartType
<1>4. \A i : LenOf(i) \in Nat
  BY <1>3, LenProperties DEF LenOf
<1>5. LenOf(1) \in Nat /\ LenOf(2) \in Nat /\ LenOf(3) \in Nat /\ LenOf(4) \in Nat
  BY <1>4
<1>6. Left \in Nat
  <2>1. payload \in Nat
    BY Shapes
  <2> DEFINE a == LenOf(1)
             b == LenOf(2)
             c == LenOf(3)
             d == LenOf(4)
  <2>2. a \in Nat /\ b \in Nat /\ c \in Nat /\ d \in Nat /\ Left = payload + a + b + c + d
    BY <1>5 DEF Left
  <2> HIDE DEF a, b, c, d
  <2> QED
    BY <2>1, <2>2
<1> QED
  BY <1>1, <1>3, <1>4, <1>6 DEF Left

LEMMA FirstPart ==
  ASSUME ComTxTypeOK, parts # <<>>
  PROVE  /\ Len(parts) >= 1 /\ Head(parts) = parts[1] /\ 1 \in DOMAIN parts
         /\ BytesOf(1) = Head(parts).bytes /\ LenOf(1) = Len(Head(parts).bytes)
         /\ Head(parts).flash \in BOOLEAN
         /\ Tail(parts) \in Seq(PartType) /\ Len(Tail(parts)) = Len(parts) - 1
         /\ \A i \in DOMAIN Tail(parts) : i + 1 \in DOMAIN parts /\ Tail(parts)[i] = parts[i + 1]
<1>1. parts \in Seq(PartType)
  BY DEF ComTxTypeOK, PartType
<1>2. Len(parts) \in Nat /\ Len(parts) # 0 /\ DOMAIN parts = 1 .. Len(parts) /\ Head(parts) = parts[1]
  BY <1>1, EmptySeq, HeadTailProperties, LenProperties
<1>3. 1 \in DOMAIN parts
  BY <1>2
<1>4. /\ Tail(parts) \in Seq(PartType) /\ Len(Tail(parts)) = Len(parts) - 1
      /\ \A i \in 1 .. Len(parts) - 1 : Tail(parts)[i] = parts[i + 1]
  BY <1>1, HeadTailProperties
<1>5. DOMAIN Tail(parts) = 1 .. Len(parts) - 1
  BY <1>2, <1>4, LenProperties
<1>6. parts[1] \in PartType
  BY <1>3, Parts
<1>7. BytesOf(1) = Head(parts).bytes /\ LenOf(1) = Len(Head(parts).bytes)
  BY <1>2, <1>3 DEF BytesOf, LenOf
<1>8. \A i \in DOMAIN Tail(parts) : i + 1 \in DOMAIN parts /\ Tail(parts)[i] = parts[i + 1]
  BY <1>2, <1>4, <1>5
<1>9. Head(parts).flash \in BOOLEAN
  BY <1>2, <1>6 DEF PartType
<1> QED
  BY <1>2, <1>3, <1>4, <1>7, <1>8, <1>9

LEMMA NoParts ==
  ASSUME parts = <<>>
  PROVE  \A i : BytesOf(i) = <<>> /\ LenOf(i) = 0
BY EmptySeq DEF BytesOf, LenOf

(* The parts that are left when the first has been stored.                 *)
LEMMA RestOfParts ==
  ASSUME ComTxTypeOK, PartsFit, parts # <<>>, parts' = Tail(parts)
  PROVE  /\ BytesOf(1)' = BytesOf(2) /\ BytesOf(2)' = BytesOf(3)
         /\ BytesOf(3)' = BytesOf(4) /\ BytesOf(4)' = <<>>
         /\ LenOf(1)' = LenOf(2) /\ LenOf(2)' = LenOf(3)
         /\ LenOf(3)' = LenOf(4) /\ LenOf(4)' = 0
         /\ Len(parts') = Len(parts) - 1
         /\ \A i \in DOMAIN parts' : i + 1 \in DOMAIN parts /\ parts'[i] = parts[i + 1]
<1>1. /\ Len(parts) \in 1 .. 4 /\ DOMAIN parts = 1 .. Len(parts)
  <2>1. Len(parts) <= 4
    BY DEF PartsFit
  <2>2. Len(parts) >= 1 /\ Len(parts) \in Nat /\ DOMAIN parts = 1 .. Len(parts)
    BY FirstPart, Shapes
  <2> QED
    BY <2>1, <2>2
<1>2. /\ Len(parts') = Len(parts) - 1 /\ parts' \in Seq(PartType)
      /\ \A i \in DOMAIN parts' : i + 1 \in DOMAIN parts /\ parts'[i] = parts[i + 1]
  BY FirstPart
<1>3. DOMAIN parts' = 1 .. Len(parts) - 1
  BY <1>2, LenProperties
<1>4. ASSUME NEW i \in 1 .. 4
      PROVE  (i \in DOMAIN parts' <=> i + 1 \in DOMAIN parts)
             /\ (i \in DOMAIN parts' => parts'[i] = parts[i + 1])
  BY <1>1, <1>2, <1>3
<1>5. ASSUME NEW i \in 1 .. 4
      PROVE  BytesOf(i)' = IF i + 1 \in DOMAIN parts THEN parts[i + 1].bytes ELSE <<>>
  BY <1>4 DEF BytesOf
<1>6. 1 + 1 = 2 /\ 2 + 1 = 3 /\ 3 + 1 = 4 /\ 4 + 1 \notin DOMAIN parts
  BY <1>1
<1>7. /\ BytesOf(1)' = BytesOf(2) /\ BytesOf(2)' = BytesOf(3)
      /\ BytesOf(3)' = BytesOf(4) /\ BytesOf(4)' = <<>>
  <2>1. BytesOf(1)' = IF 2 \in DOMAIN parts THEN parts[2].bytes ELSE <<>>
    BY <1>5, <1>6
  <2>2. BytesOf(2)' = IF 3 \in DOMAIN parts THEN parts[3].bytes ELSE <<>>
    BY <1>5, <1>6
  <2>3. BytesOf(3)' = IF 4 \in DOMAIN parts THEN parts[4].bytes ELSE <<>>
    BY <1>5, <1>6
  <2>4. BytesOf(4)' = <<>>
    BY <1>5, <1>6
  <2> QED
    BY <2>1, <2>2, <2>3, <2>4 DEF BytesOf
<1>8. Len(<<>>) = 0
  OBVIOUS
<1> QED
  BY <1>2, <1>7, <1>8 DEF LenOf

-----------------------------------------------------------------------------
(* Com's queue, while a text is sent. *)

LEMMA AppendOne ==
  ASSUME NEW a, NEW b
  PROVE  Append(<<a>>, b) = <<a, b>>
<1> DEFINE S == {a, b}
           x == Append(<<a>>, b)
           y == <<a, b>>
<1>1. a \in S /\ b \in S
  OBVIOUS
<1> HIDE DEF S
<1>2. <<a>> \in Seq(S) /\ y \in Seq(S) /\ Len(<<a>>) = 1 /\ Len(y) = 2
  BY <1>1
<1>3. x \in Seq(S) /\ Len(x) = 2 /\ x[1] = a /\ x[2] = b
  BY <1>1, <1>2, AppendProperties
<1>4. y[1] = a /\ y[2] = b
  OBVIOUS
<1> HIDE DEF x, y
<1>5. \A i \in 1 .. Len(x) : x[i] = y[i]
  BY <1>3, <1>4
<1>6. x = y
  BY <1>2, <1>3, <1>5, SeqEqual
<1> QED
  BY <1>6 DEF x, y

(* An expired timer is one more event; a taken one arms it again.          *)
LEMMA TickQueue ==
  ASSUME Tick
  PROVE  /\ NothingElse => NothingElse'
         /\ \A sig : OneEvent(sig) => OneEvent(sig)'
<1>1. comTimer /\ ~comTimer' /\ comQueue' = Append(comQueue, "TIMEOUT")
  BY DEF Tick
<1>2. ASSUME comQueue = <<>> PROVE comQueue' = <<"TIMEOUT">>
  BY <1>1, <1>2
<1>3. ASSUME NEW sig, comQueue = <<sig>> PROVE comQueue' = <<sig, "TIMEOUT">>
  BY <1>1, <1>3, AppendOne
<1> QED
  BY <1>1, <1>2, <1>3 DEF NothingElse, OneEvent

LEMMA TimeoutQueue ==
  ASSUME ComTimeout
  PROVE  /\ NothingElse => NothingElse'
         /\ OneEvent("SEND_REQUEST") => OneEvent("SEND_REQUEST")'
         /\ OneEvent("SERIAL_SEND_DONE") => OneEvent("SERIAL_SEND_DONE")'
<1>1. comTimer' /\ comQueue # <<>> /\ Head(comQueue) = "TIMEOUT" /\ comQueue' = Tail(comQueue)
  BY DEF ComTimeout, ComTakes
<1>2. ASSUME comQueue = <<"TIMEOUT">> PROVE comQueue' = <<>>
  BY <1>1, <1>2
<1>3. ASSUME NEW sig, comQueue = <<"TIMEOUT", sig>> PROVE comQueue' = <<sig>>
  BY <1>1, <1>3
<1>4. ASSUME NEW sig, comQueue = <<sig>> \/ comQueue = <<sig, "TIMEOUT">>
      PROVE  sig = "TIMEOUT"
  BY <1>1, <1>4
<1>5. NothingElse => NothingElse'
  BY <1>1, <1>2 DEF NothingElse
<1>6. "SEND_REQUEST" # "TIMEOUT" /\ "SERIAL_SEND_DONE" # "TIMEOUT"
  OBVIOUS
<1>7. OneEvent("SEND_REQUEST") => OneEvent("SEND_REQUEST")'
  BY <1>3, <1>4, <1>6 DEF OneEvent
<1>8. OneEvent("SERIAL_SEND_DONE") => OneEvent("SERIAL_SEND_DONE")'
  BY <1>3, <1>4, <1>6 DEF OneEvent
<1> QED
  BY <1>5, <1>7, <1>8

LEMMA PostQueue ==
  ASSUME NothingElse, NEW sig, comQueue' = Append(comQueue, sig), comTimer' = comTimer
  PROVE  OneEvent(sig)'
<1>1. ASSUME comQueue = <<>> PROVE comQueue' = <<sig>>
  BY <1>1
<1>2. ASSUME comQueue = <<"TIMEOUT">> PROVE comQueue' = <<"TIMEOUT", sig>>
  BY <1>2, AppendOne
<1> QED
  BY <1>1, <1>2 DEF NothingElse, OneEvent

LEMMA TakeQueue ==
  ASSUME NEW sig, sig # "TIMEOUT", OneEvent(sig), ComTakes(sig), comTimer' = comTimer
  PROVE  NothingElse'
<1>1. comQueue # <<>> /\ Head(comQueue) = sig /\ comQueue' = Tail(comQueue)
  BY DEF ComTakes
<1>2. ASSUME comQueue = <<sig>> PROVE comQueue' = <<>>
  BY <1>1, <1>2
<1>3. ASSUME comQueue = <<sig, "TIMEOUT">> PROVE comQueue' = <<"TIMEOUT">>
  BY <1>1, <1>3
<1>4. comQueue # <<"TIMEOUT", sig>>
  BY <1>1
<1> QED
  BY <1>2, <1>3, <1>4 DEF NothingElse, OneEvent

(* What Com's queue does not begin with, and how long it is.               *)
LEMMA QueueFacts ==
  /\ NothingElse => /\ ~ComTakes("SEND_REQUEST") /\ ~ComTakes("SERIAL_SEND_DONE")
                    /\ Len(comQueue) + One(comTimer) <= 1 /\ Len(comQueue) \in Nat
  /\ \A sig : OneEvent(sig) => comQueue # <<>>
  /\ OneEvent("SEND_REQUEST") => ~ComTakes("SERIAL_SEND_DONE")
  /\ OneEvent("SERIAL_SEND_DONE") => ~ComTakes("SEND_REQUEST")
<1>1. ASSUME NEW sig, NEW other, other # "TIMEOUT", sig # other,
             \/ comQueue = <<>> \/ comQueue = <<sig>> \/ comQueue = <<sig, "TIMEOUT">>
             \/ comQueue = <<"TIMEOUT", sig>> \/ comQueue = <<"TIMEOUT">>
      PROVE  ~ComTakes(other)
  BY <1>1 DEF ComTakes
<1>2. "SEND_REQUEST" # "TIMEOUT" /\ "SERIAL_SEND_DONE" # "TIMEOUT"
      /\ "SEND_REQUEST" # "SERIAL_SEND_DONE"
  OBVIOUS
<1>3. NothingElse => ~ComTakes("SEND_REQUEST") /\ ~ComTakes("SERIAL_SEND_DONE")
  BY <1>1, <1>2 DEF NothingElse
<1>4. OneEvent("SEND_REQUEST") => ~ComTakes("SERIAL_SEND_DONE")
  BY <1>1, <1>2 DEF OneEvent
<1>5. OneEvent("SERIAL_SEND_DONE") => ~ComTakes("SEND_REQUEST")
  BY <1>1, <1>2 DEF OneEvent
<1>6. NothingElse => Len(comQueue) + One(comTimer) <= 1 /\ Len(comQueue) \in Nat
  <2>1. Len(<<>>) = 0 /\ Len(<<"TIMEOUT">>) = 1
    OBVIOUS
  <2>2. ASSUME comQueue = <<>> PROVE Len(comQueue) + One(comTimer) <= 1 /\ Len(comQueue) \in Nat
    BY <2>1, <2>2 DEF One
  <2>3. ASSUME comQueue = <<"TIMEOUT">>, ~comTimer
        PROVE  Len(comQueue) + One(comTimer) <= 1 /\ Len(comQueue) \in Nat
    BY <2>1, <2>3 DEF One
  <2> QED
    BY <2>2, <2>3 DEF NothingElse
<1>7. \A sig : OneEvent(sig) => comQueue # <<>>
  BY DEF OneEvent
<1> QED
  BY <1>3, <1>4, <1>5, <1>6, <1>7

-----------------------------------------------------------------------------
(* The queues' types and lengths. *)

Events == {"SEND_REQUEST", "TIMEOUT", "SERIAL_SEND_DONE"}
Answers == [sig : {"SEND_DONE", "BUFFER_FULL"}, par : 0 .. TxSize + 1]

LEMMA Queues ==
  ASSUME ComTxTypeOK
  PROVE  /\ comQueue \in Seq(Events) /\ gsmQueue \in Seq(Answers)
         /\ \A sig \in Events : /\ Append(comQueue, sig) \in Seq(Events)
                                /\ Len(Append(comQueue, sig)) = Len(comQueue) + 1
         /\ \A e \in Answers : /\ Append(gsmQueue, e) \in Seq(Answers)
                               /\ Len(Append(gsmQueue, e)) = Len(gsmQueue) + 1
         /\ comQueue # <<>> => /\ Tail(comQueue) \in Seq(Events)
                               /\ Len(Tail(comQueue)) = Len(comQueue) - 1
         /\ gsmQueue # <<>> => /\ Tail(gsmQueue) \in Seq(Answers)
                               /\ Len(Tail(gsmQueue)) = Len(gsmQueue) - 1
                               /\ Head(gsmQueue) \in Answers /\ Head(gsmQueue) = gsmQueue[1]
<1>1. comQueue \in Seq(Events) /\ gsmQueue \in Seq(Answers)
  BY DEF ComTxTypeOK, Events, Answers
<1> HIDE DEF Events, Answers
<1> QED
  BY <1>1, AppendProperties, HeadTailProperties

LEMMA TheAnswers ==
  /\ SendDone \in Answers /\ BufferFull \in Answers
  /\ SendDone.sig = "SEND_DONE" /\ BufferFull.sig = "BUFFER_FULL" /\ BufferFull.par = TxSize + 1
BY Constants DEF SendDone, BufferFull, Answers

(* How many tokens there are. *)
LEMMA TokensAre ==
  ASSUME ComTxTypeOK
  PROVE  /\ Len(parts) \in Nat /\ Len(comQueue) \in Nat /\ Len(gsmQueue) \in Nat
         /\ One(udrie) \in 0 .. 1 /\ One(comTimer) \in 0 .. 1
BY Shapes DEF One

-----------------------------------------------------------------------------
(* Steps that do not touch the running handler's variables. *)

LEMMA SameParts ==
  ASSUME UNCHANGED parts
  PROVE  \A i : BytesOf(i)' = BytesOf(i) /\ LenOf(i)' = LenOf(i)
BY DEF BytesOf, LenOf

(* The handler waits, or is interrupted by what does not disturb it.       *)
LEMMA HandlerKept ==
  ASSUME ComTxInv, UNCHANGED <<parts, length, copied, txBuffer>>,
         payload' = payload \/ (payload' = 0 /\ (parts = <<>> \/ ~Undisturbed)),
         gsm' = gsm \/ parts = <<>>,
         Undisturbed' => Undisturbed,
         AtText => AtText',
         Undisturbed /\ parts # <<>> => UNCHANGED udrie,
         UNCHANGED <<udrie, readIx>> \/ udrie' \/ readIx' = 0
  PROVE  PartsFit' /\ Measured' /\ Filled'
<1>1. /\ \A i : LenOf(i)' = LenOf(i) /\ BytesOf(i)' = BytesOf(i) /\ LenOf(i) \in Nat
      /\ payload \in Nat /\ payload <= TxSize /\ TxSize \in Nat
  BY SameParts, Parts, Shapes, Constants DEF ComTxInv
<1>2. PartsFit'
  <2>1. Len(parts') <= 4
    BY DEF ComTxInv, PartsFit
  <2>2. \A i \in DOMAIN parts' : parts'[i].flash => gsm' # "active_idle"
    <3>1. CASE gsm' = gsm
      BY <3>1 DEF ComTxInv, PartsFit
    <3>2. CASE parts = <<>>
      BY <3>2, EmptySeq
    <3> QED
      BY <3>1, <3>2
  <2>3. AtText' \/ \A i \in 1 .. 4 : LenOf(i)' <= TxSize
    BY <1>1 DEF ComTxInv, PartsFit
  <2>4. AtText' \/ (Undisturbed' => Left' <= TxSize)
    <3>1. CASE payload' = payload
      BY <3>1, <1>1 DEF ComTxInv, PartsFit, Left
    <3>2. CASE payload' = 0 /\ parts = <<>>
      BY <3>2, <1>1, NoParts DEF Left
    <3>3. CASE ~Undisturbed
      BY <3>3
    <3> QED
      BY <3>1, <3>2, <3>3
  <2> QED
    BY <2>1, <2>2, <2>3, <2>4 DEF PartsFit
<1>3. Measured'
  <2>1. ~udrie' => readIx' = 0
    BY DEF ComTxInv, Measured
  <2>2. CASE payload' = payload
    BY <2>1, <2>2, <1>1 DEF ComTxInv, Measured
  <2>3. CASE payload' = 0 /\ parts = <<>>
    BY <2>1, <2>3 DEF ComTxInv, Measured
  <2>4. CASE payload' = 0 /\ ~Undisturbed
    BY <2>1, <2>4, <1>1 DEF ComTxInv, Measured
  <2> QED
    BY <2>2, <2>3, <2>4
<1>4. Filled'
  <2>1. CASE payload' = payload
    BY <2>1, <1>1 DEF ComTxInv, Filled
  <2>2. CASE payload' = 0
    <3>1. copied => parts # <<>>
      BY Constants DEF ComTxInv, Measured
    <3> QED
      BY <2>2, <3>1, <1>1 DEF ComTxInv, Filled
  <2> QED
    BY <2>1, <2>2
<1> QED
  BY <1>2, <1>3, <1>4

(* The timer expires, or Com takes its event: a sending handler goes on.   *)
LEMMA TextGoesOn ==
  ASSUME ComTxInv, UNCHANGED <<gsmVars, parts, copied, payload, udrie, readIx, gsmQueue>>,
         NothingElse => NothingElse',
         OneEvent("SEND_REQUEST") => OneEvent("SEND_REQUEST")',
         OneEvent("SERIAL_SEND_DONE") => OneEvent("SERIAL_SEND_DONE")'
  PROVE  OneText' /\ (AtText => AtText')
<1>1. UNCHANGED <<gsm, useFlash, text>>
  BY DEF gsmVars
<1>2. AtText => AtText'
  BY <1>1 DEF AtText, BufferFull
<1>3. OnTheWay => OnTheWay'
  BY <1>1 DEF OnTheWay, BufferFull, Quiet
<1>4. FirstPartOut => FirstPartOut'
  BY <1>1 DEF FirstPartOut, BufferFull, SendDone, Quiet
<1>5. Texting' = Texting
  BY <1>1 DEF Texting
<1> QED
  BY <1>1, <1>2, <1>3, <1>4, <1>5 DEF ComTxInv, OneText

-----------------------------------------------------------------------------
(* Com and the interrupts keep the invariant. *)

LEMMA TickInv ==
  ASSUME ComTxInv, Tick
  PROVE  ComTxInv'
<1>1. /\ comTimer /\ comTimer' = FALSE /\ comQueue' = Append(comQueue, "TIMEOUT")
      /\ UNCHANGED <<bufferVars, gsmQueue, gsmVars, handlerVars>>
  BY DEF Tick
<1>2. /\ UNCHANGED <<payload, txBuffer, readIx, udrie, wire>>
      /\ UNCHANGED <<gsm, useFlash, text, numbered, ops>> /\ UNCHANGED <<parts, length, copied>>
  BY <1>1 DEF bufferVars, gsmVars, handlerVars
<1>3. comQueue' \in Seq(Events) /\ Len(comQueue') = Len(comQueue) + 1
  BY <1>1, Queues DEF ComTxInv, Events
<1>4. ComTxTypeOK'
  BY <1>1, <1>2, <1>3 DEF ComTxInv, ComTxTypeOK, Events
<1>5. OneText' /\ (AtText => AtText')
  BY <1>1, <1>2, TickQueue, TextGoesOn
<1>6. PartsFit' /\ Measured' /\ Filled'
  BY <1>2, <1>5, HandlerKept DEF Undisturbed
<1>7. FewTokens'
  BY <1>1, <1>2, <1>3, TokensAre DEF ComTxInv, FewTokens, Tokens, One
<1> QED
  BY <1>4, <1>5, <1>6, <1>7 DEF ComTxInv

LEMMA ComTimeoutInv ==
  ASSUME ComTxInv, ComTimeout
  PROVE  ComTxInv'
<1>1. /\ parts = <<>> /\ comQueue # <<>> /\ comQueue' = Tail(comQueue) /\ comTimer' = TRUE
      /\ UNCHANGED <<bufferVars, gsmQueue, gsmVars, handlerVars>>
  BY DEF ComTimeout, ComTakes
<1>2. /\ UNCHANGED <<payload, txBuffer, readIx, udrie, wire>>
      /\ UNCHANGED <<gsm, useFlash, text, numbered, ops>> /\ UNCHANGED <<parts, length, copied>>
  BY <1>1 DEF bufferVars, gsmVars, handlerVars
<1>3. comQueue' \in Seq(Events) /\ Len(comQueue') = Len(comQueue) - 1
  BY <1>1, Queues DEF ComTxInv
<1>4. ComTxTypeOK'
  BY <1>1, <1>2, <1>3 DEF ComTxInv, ComTxTypeOK, Events
<1>5. OneText' /\ (AtText => AtText')
  BY <1>1, <1>2, TimeoutQueue, TextGoesOn
<1>6. PartsFit' /\ Measured' /\ Filled'
  BY <1>2, <1>5, HandlerKept DEF Undisturbed
<1>7. FewTokens'
  BY <1>1, <1>2, <1>3, TokensAre DEF ComTxInv, FewTokens, Tokens, One
<1> QED
  BY <1>4, <1>5, <1>6, <1>7 DEF ComTxInv

LEMMA ComSendInv ==
  ASSUME ComTxInv, ComSend
  PROVE  ComTxInv'
<1>1. /\ ComTakes("SEND_REQUEST") /\ udrie' = TRUE
      /\ UNCHANGED <<payload, txBuffer, readIx, wire, comTimer, gsmQueue, gsmVars, handlerVars>>
  BY DEF ComSend
<1>2. /\ parts = <<>> /\ comQueue # <<>> /\ comQueue' = Tail(comQueue)
      /\ UNCHANGED <<gsm, useFlash, text, numbered, ops>> /\ UNCHANGED <<parts, length, copied>>
  BY <1>1 DEF gsmVars, handlerVars, ComTakes
<1>3. comQueue' \in Seq(Events) /\ Len(comQueue') = Len(comQueue) - 1
  BY <1>2, Queues DEF ComTxInv
<1>4. ComTxTypeOK'
  BY <1>1, <1>2, <1>3 DEF ComTxInv, ComTxTypeOK, Events
<1>5. ~AtText
  BY <1>2 DEF AtText
<1>6. OneText'
  <2>1. CASE Texting
    <3>1. OnTheWay /\ OneEvent("SEND_REQUEST")
      BY <2>1, <1>1, <1>5, QueueFacts DEF ComTxInv, OneText, OnTheWay, FirstPartOut
    <3>2. NothingElse'
      BY <3>1, <1>1, TakeQueue
    <3>3. OnTheWay'
      BY <3>1, <3>2, <1>1, <1>2 DEF OnTheWay, BufferFull
    <3> QED
      BY <2>1, <3>3, <1>1, <1>2 DEF ComTxInv, OneText, Texting
  <2>2. CASE ~Texting
    BY <2>2, <1>1, <1>2 DEF ComTxInv, OneText, Texting
  <2> QED
    BY <2>1, <2>2
<1>7. PartsFit' /\ Measured' /\ Filled'
  BY <1>1, <1>2, <1>5, HandlerKept DEF Undisturbed
<1>8. FewTokens'
  BY <1>1, <1>2, <1>3, TokensAre DEF ComTxInv, FewTokens, Tokens, One
<1> QED
  BY <1>4, <1>6, <1>7, <1>8 DEF ComTxInv

LEMMA ComSendDoneInv ==
  ASSUME ComTxInv, ComSendDone
  PROVE  ComTxInv'
<1>1. /\ ComTakes("SERIAL_SEND_DONE") /\ gsmQueue' = Append(gsmQueue, SendDone)
      /\ UNCHANGED <<bufferVars, comTimer, gsmVars, handlerVars>>
  BY DEF ComSendDone, SendDone
<1>2. /\ parts = <<>> /\ comQueue # <<>> /\ comQueue' = Tail(comQueue)
      /\ UNCHANGED <<payload, txBuffer, readIx, udrie, wire>>
      /\ UNCHANGED <<gsm, useFlash, text, numbered, ops>> /\ UNCHANGED <<parts, length, copied>>
  BY <1>1 DEF gsmVars, handlerVars, bufferVars, ComTakes
<1>3. /\ comQueue' \in Seq(Events) /\ Len(comQueue') = Len(comQueue) - 1
      /\ gsmQueue' \in Seq(Answers) /\ Len(gsmQueue') = Len(gsmQueue) + 1
  BY <1>1, <1>2, Queues, TheAnswers DEF ComTxInv
<1>4. ComTxTypeOK'
  BY <1>1, <1>2, <1>3 DEF ComTxInv, ComTxTypeOK, Events, Answers
<1>5. ~AtText
  BY <1>2 DEF AtText
<1>6. OneText'
  <2>1. CASE Texting
    <3>1. OnTheWay /\ OneEvent("SERIAL_SEND_DONE") /\ Quiet
      BY <2>1, <1>1, <1>5, QueueFacts DEF ComTxInv, OneText, OnTheWay, FirstPartOut
    <3>2. NothingElse'
      BY <3>1, <1>1, TakeQueue
    <3>3. gsmQueue' = IF gsm = "active_sms_send" THEN <<BufferFull, SendDone>> ELSE <<SendDone>>
      BY <3>1, <1>1, AppendOne DEF OnTheWay
    <3>4. FirstPartOut'
      BY <3>1, <3>2, <3>3, <1>1, <1>2 DEF FirstPartOut, BufferFull, SendDone, Quiet
    <3> QED
      BY <2>1, <3>4, <1>1, <1>2 DEF ComTxInv, OneText, Texting
  <2>2. CASE ~Texting
    <3>1. \A i \in DOMAIN gsmQueue : gsmQueue[i].sig = "SEND_DONE"
      BY <2>2 DEF ComTxInv, OneText
    <3>2. \A i \in DOMAIN gsmQueue' : gsmQueue'[i].sig = "SEND_DONE"
      BY <3>1, <1>1, <1>3, TheAnswers, Queues, Shapes, AppendProperties, LenProperties DEF ComTxInv
    <3> QED
      BY <2>2, <3>2, <1>2 DEF ComTxInv, OneText, Texting
  <2> QED
    BY <2>1, <2>2
<1>7. PartsFit' /\ Measured' /\ Filled'
  BY <1>1, <1>2, <1>5, HandlerKept DEF Undisturbed
<1>8. FewTokens'
  BY <1>1, <1>2, <1>3, TokensAre DEF ComTxInv, FewTokens, Tokens, One
<1> QED
  BY <1>4, <1>6, <1>7, <1>8 DEF ComTxInv

(* A byte goes out: no handler sends meanwhile, unless it began hastily.   *)
LEMMA UdreByteInv ==
  ASSUME ComTxInv, UdreByte
  PROVE  ComTxInv'
<1>1. /\ udrie /\ readIx < payload /\ readIx' = readIx + 1
      /\ wire' = Append(wire, ByteAt(readIx + 1))
      /\ UNCHANGED <<payload, txBuffer, udrie, comQueue, comTimer, gsmQueue, gsmVars, handlerVars>>
  BY DEF UdreByte
<1>2. /\ UNCHANGED <<gsm, useFlash, text, numbered, ops>> /\ UNCHANGED <<parts, length, copied>>
  BY <1>1 DEF gsmVars, handlerVars
<1>3. Undisturbed => parts = <<>>
  BY <1>1 DEF ComTxInv, Measured
<1>4. ComTxTypeOK'
  <2>1. readIx' \in 0 .. TxSize
    BY <1>1, Shapes, Constants DEF ComTxInv
  <2>2. wire' \in Seq(0 .. numbered)
    <3>1. ByteAt(readIx + 1) \in 0 .. numbered
      <4>1. readIx + 1 <= Len(txBuffer) => txBuffer[readIx + 1] \in 1 .. numbered
        BY Shapes, ElementOfSeq DEF ComTxInv
      <4> QED
        BY <4>1, Shapes DEF ByteAt, ComTxInv
    <3>2. wire \in Seq(0 .. numbered)
      BY DEF ComTxInv, ComTxTypeOK
    <3> QED
      BY <1>1, <3>1, <3>2, AppendProperties
  <2> QED
    BY <1>1, <1>2, <2>1, <2>2 DEF ComTxInv, ComTxTypeOK
<1>5. AtText => FALSE
  BY <1>3 DEF AtText, Undisturbed, Part
<1>6. OneText'
  <2>1. CASE Texting
    <3>1. OnTheWay /\ NothingElse
      BY <2>1, <1>1, <1>5 DEF ComTxInv, OneText, OnTheWay, FirstPartOut, Quiet
    <3>2. OnTheWay'
      BY <3>1, <1>1, <1>2 DEF OnTheWay, NothingElse, BufferFull
    <3> QED
      BY <2>1, <3>2, <1>1, <1>2 DEF ComTxInv, OneText, Texting
  <2>2. CASE ~Texting
    BY <2>2, <1>1, <1>2 DEF ComTxInv, OneText, Texting
  <2> QED
    BY <2>1, <2>2
<1>7. PartsFit' /\ Measured' /\ Filled'
  BY <1>1, <1>2, <1>3, <1>5, HandlerKept DEF Undisturbed
<1>8. FewTokens'
  BY <1>1, <1>2 DEF ComTxInv, FewTokens, Tokens
<1> QED
  BY <1>4, <1>6, <1>7, <1>8 DEF ComTxInv

(* The end of a transmission leaves nothing behind. *)
LEMMA UdreEndInv ==
  ASSUME ComTxInv, UdreEnd
  PROVE  ComTxInv'
<1>1. /\ udrie /\ readIx' = 0 /\ payload' = 0 /\ udrie' = FALSE
      /\ comQueue' = Append(comQueue, "SERIAL_SEND_DONE")
      /\ UNCHANGED <<txBuffer, wire, comTimer, gsmQueue, gsmVars, handlerVars>>
  BY DEF UdreEnd
<1>2. /\ UNCHANGED <<gsm, useFlash, text, numbered, ops>> /\ UNCHANGED <<parts, length, copied>>
  BY <1>1 DEF gsmVars, handlerVars
<1>3. Undisturbed => parts = <<>>
  BY <1>1 DEF ComTxInv, Measured
<1>4. comQueue' \in Seq(Events) /\ Len(comQueue') = Len(comQueue) + 1
  BY <1>1, Queues DEF ComTxInv, Events
<1>5. ComTxTypeOK'
  <2>1. payload' \in 0 .. TxSize /\ readIx' \in 0 .. TxSize
    BY <1>1, Constants
  <2> QED
    BY <1>1, <1>2, <1>4, <2>1 DEF ComTxInv, ComTxTypeOK, Events
<1>6. AtText => FALSE
  BY <1>3 DEF AtText, Undisturbed, Part
<1>7. OneText'
  <2>1. CASE Texting
    <3>1. OnTheWay /\ NothingElse
      BY <2>1, <1>1, <1>6 DEF ComTxInv, OneText, OnTheWay, FirstPartOut, Quiet
    <3>2. OneEvent("SERIAL_SEND_DONE")'
      BY <3>1, <1>1, PostQueue
    <3>3. OnTheWay'
      BY <3>1, <3>2, <1>1, <1>2 DEF OnTheWay, BufferFull, Quiet
    <3> QED
      BY <2>1, <3>3, <1>1, <1>2 DEF ComTxInv, OneText, Texting
  <2>2. CASE ~Texting
    BY <2>2, <1>1, <1>2 DEF ComTxInv, OneText, Texting
  <2> QED
    BY <2>1, <2>2
<1>8. PartsFit' /\ Measured' /\ Filled'
  BY <1>1, <1>2, <1>3, <1>6, HandlerKept DEF Undisturbed
<1>9. FewTokens'
  BY <1>1, <1>2, <1>4, TokensAre DEF ComTxInv, FewTokens, Tokens, One
<1> QED
  BY <1>5, <1>7, <1>8, <1>9 DEF ComTxInv

-----------------------------------------------------------------------------
(* The driver's handlers that send nothing keep the invariant. *)

(* Word of a cut text is taken by the handler of that text.                *)
LEMMA BufferFullTaken ==
  ASSUME ComTxInv, BufferFullEvent
  PROVE  /\ Texting /\ gsm = "active_sms_send" /\ useFlash' = TxSize + 1
         /\ \/ OnTheWay /\ gsmQueue = <<BufferFull>> /\ gsmQueue' = <<>>
            \/ FirstPartOut /\ gsmQueue = <<BufferFull, SendDone>> /\ gsmQueue' = <<SendDone>>
<1>1. /\ parts = <<>> /\ gsmQueue # <<>> /\ Head(gsmQueue).sig = "BUFFER_FULL"
      /\ gsmQueue' = Tail(gsmQueue) /\ useFlash' = Head(gsmQueue).par
  BY DEF BufferFullEvent, Ready
<1>2. Texting
  <2>1. 1 \in DOMAIN gsmQueue /\ Head(gsmQueue) = gsmQueue[1]
    BY <1>1, Queues, EmptySeq, LenProperties DEF ComTxInv
  <2> QED
    BY <1>1, <2>1 DEF ComTxInv, OneText
<1>3. OnTheWay \/ FirstPartOut
  BY <1>1, <1>2 DEF ComTxInv, OneText, AtText
<1>4. gsm = "active_sms_send"
  <2>1. SendDone.sig # "BUFFER_FULL" /\ Head(<<SendDone>>) = SendDone
    BY TheAnswers
  <2> QED
    BY <1>1, <1>3, <2>1 DEF OnTheWay, FirstPartOut
<1>5. /\ Head(<<BufferFull>>) = BufferFull /\ Tail(<<BufferFull>>) = <<>>
      /\ Head(<<BufferFull, SendDone>>) = BufferFull
      /\ Tail(<<BufferFull, SendDone>>) = <<SendDone>>
  OBVIOUS
<1> QED
  BY <1>1, <1>2, <1>3, <1>4, <1>5, TheAnswers DEF OnTheWay, FirstPartOut

LEMMA BufferFullEventInv ==
  ASSUME ComTxInv, BufferFullEvent
  PROVE  ComTxInv'
<1>1. /\ parts = <<>> /\ comQueue = <<>> /\ gsmQueue # <<>>
      /\ gsmQueue' = Tail(gsmQueue) /\ gsm' = "active_sms_send_support"
      /\ UNCHANGED <<bufferVars, comQueue, comTimer, text, numbered, ops, handlerVars>>
  BY DEF BufferFullEvent, Ready
<1>2. /\ UNCHANGED <<payload, txBuffer, readIx, udrie, wire>> /\ UNCHANGED <<parts, length, copied>>
  BY <1>1 DEF bufferVars, handlerVars
<1>3. /\ gsmQueue' \in Seq(Answers) /\ Len(gsmQueue') = Len(gsmQueue) - 1
  BY <1>1, Queues DEF ComTxInv
<1>4. /\ Texting /\ gsm = "active_sms_send" /\ useFlash' = TxSize + 1
      /\ \/ OnTheWay /\ gsmQueue' = <<>>
         \/ FirstPartOut /\ gsmQueue' = <<SendDone>>
  BY BufferFullTaken
<1>5. useFlash' \in 0 .. TxSize + 1 /\ useFlash' # 0
  BY <1>4, Constants
<1>6. ComTxTypeOK'
  BY <1>1, <1>2, <1>3, <1>5 DEF ComTxInv, ComTxTypeOK, Answers
<1>7. OneText'
  <2>1. gsm' # "active_sms_send" /\ gsm' # "active_idle"
    BY <1>1
  <2>2. NothingElse' = NothingElse /\ Quiet' = Quiet
        /\ OneEvent("SEND_REQUEST")' = OneEvent("SEND_REQUEST")
        /\ OneEvent("SERIAL_SEND_DONE")' = OneEvent("SERIAL_SEND_DONE")
    BY <1>1, <1>2 DEF NothingElse, Quiet, OneEvent
  <2>3. OnTheWay' \/ FirstPartOut'
    BY <1>1, <1>2, <1>4, <2>1, <2>2 DEF OnTheWay, FirstPartOut, SendDone
  <2>4. text' # <<>> /\ Len(text') \in TxSize + 2 .. 2 * TxSize /\ Texting'
    BY <1>1, <1>4, <1>5, <2>1 DEF ComTxInv, OneText, Texting
  <2> QED
    BY <1>4, <2>1, <2>3, <2>4, <1>1 DEF OneText
<1>8. PartsFit' /\ Measured' /\ Filled'
  <2>1. AtText => FALSE
    BY <1>1 DEF AtText, Part
  <2>2. Undisturbed
    BY <1>4 DEF Undisturbed
  <2> QED
    BY <1>1, <1>2, <2>1, <2>2, HandlerKept
<1>9. FewTokens'
  BY <1>1, <1>2, <1>3, TokensAre DEF ComTxInv, FewTokens, Tokens
<1> QED
  BY <1>6, <1>7, <1>8, <1>9 DEF ComTxInv

LEMMA SendDoneIgnoredInv ==
  ASSUME ComTxInv, SendDoneIgnored
  PROVE  ComTxInv' /\ ~Texting
<1>1. /\ parts = <<>> /\ comQueue = <<>> /\ gsmQueue # <<>> /\ Head(gsmQueue).sig = "SEND_DONE"
      /\ gsm # "active_sms_send_support" \/ useFlash = 0
      /\ gsmQueue' = Tail(gsmQueue)
      /\ UNCHANGED <<bufferVars, comQueue, comTimer, gsmVars, handlerVars>>
  BY DEF SendDoneIgnored, Ready
<1>2. /\ UNCHANGED <<payload, txBuffer, readIx, udrie, wire>> /\ UNCHANGED <<parts, length, copied>>
      /\ UNCHANGED <<gsm, useFlash, text, numbered, ops>>
  BY <1>1 DEF bufferVars, handlerVars, gsmVars
<1>3. /\ gsmQueue' \in Seq(Answers) /\ Len(gsmQueue') = Len(gsmQueue) - 1
  BY <1>1, Queues DEF ComTxInv
<1>4. AtText => FALSE
  BY <1>1 DEF AtText, Part
<1>5. ~Texting
  <2> SUFFICES ASSUME Texting PROVE FALSE
    OBVIOUS
  <2>1. gsm = "active_sms_send"
    BY <1>1 DEF ComTxInv, ComTxTypeOK, Texting
  <2>2. gsmQueue = <<BufferFull>> \/ gsmQueue = <<BufferFull, SendDone>>
    BY <1>4, <2>1 DEF ComTxInv, OneText, OnTheWay, FirstPartOut
  <2>3. Head(gsmQueue) = BufferFull
    BY <2>2
  <2> QED
    BY <1>1, <2>3, TheAnswers
<1>6. ComTxTypeOK'
  BY <1>1, <1>2, <1>3 DEF ComTxInv, ComTxTypeOK, Answers
<1>7. OneText'
  <2>1. \A i \in DOMAIN gsmQueue : gsmQueue[i].sig = "SEND_DONE"
    BY <1>5 DEF ComTxInv, OneText
  <2>2. \A i \in DOMAIN gsmQueue' : i + 1 \in DOMAIN gsmQueue /\ gsmQueue'[i] = gsmQueue[i + 1]
    <3>1. \A i \in 1 .. Len(gsmQueue) - 1 : gsmQueue'[i] = gsmQueue[i + 1]
      BY <1>1, Queues, HeadTailProperties DEF ComTxInv
    <3>2. DOMAIN gsmQueue' = 1 .. Len(gsmQueue) - 1
      BY <1>3, LenProperties
    <3>3. DOMAIN gsmQueue = 1 .. Len(gsmQueue) /\ Len(gsmQueue) \in Nat
      BY Shapes DEF ComTxInv
    <3> QED
      BY <3>1, <3>2, <3>3
  <2> QED
    BY <1>2, <1>5, <2>1, <2>2 DEF ComTxInv, OneText, Texting
<1>8. PartsFit' /\ Measured' /\ Filled'
  BY <1>1, <1>2, <1>4, HandlerKept DEF Undisturbed
<1>9. FewTokens'
  BY <1>1, <1>2, <1>3, TokensAre DEF ComTxInv, FewTokens, Tokens
<1> QED
  BY <1>5, <1>6, <1>7, <1>8, <1>9 DEF ComTxInv

(* A message is over when nothing is on the way. *)
LEMMA SmsOverInv ==
  ASSUME ComTxInv, SmsOver
  PROVE  ComTxInv' /\ ~Texting
<1>1. /\ parts = <<>> /\ comQueue = <<>> /\ gsmQueue = <<>> /\ ~udrie /\ payload = 0
      /\ gsm' = "active_idle" /\ gsm # "active_idle" /\ text' = <<>>
      /\ UNCHANGED <<bufferVars, comQueue, comTimer, gsmQueue, useFlash, numbered, ops, handlerVars>>
  BY DEF SmsOver, Through, Ready
<1>2. /\ UNCHANGED <<payload, txBuffer, readIx, udrie, wire>> /\ UNCHANGED <<parts, length, copied>>
  BY <1>1 DEF bufferVars, handlerVars
<1>3. AtText => FALSE
  BY <1>1 DEF AtText, Part
<1>4. ~Texting
  <2>1. ~OneEvent("SEND_REQUEST") /\ ~OneEvent("SERIAL_SEND_DONE")
    BY <1>1, QueueFacts
  <2>2. ~OnTheWay
    BY <1>1, <2>1 DEF OnTheWay
  <2>3. ~FirstPartOut
    BY <1>1 DEF FirstPartOut
  <2> QED
    BY <1>3, <2>2, <2>3 DEF ComTxInv, OneText
<1>5. ComTxTypeOK'
  <2>1. text' \in Seq(1 .. numbered')
    BY <1>1
  <2> QED
    BY <1>1, <1>2, <2>1 DEF ComTxInv, ComTxTypeOK
<1>6. OneText'
  BY <1>1, EmptySeq DEF OneText, Texting
<1>7. PartsFit' /\ Measured' /\ Filled'
  BY <1>1, <1>2, <1>3, HandlerKept DEF Undisturbed
<1>8. FewTokens'
  BY <1>1, <1>2 DEF ComTxInv, FewTokens, Tokens
<1> QED
  BY <1>4, <1>5, <1>6, <1>7, <1>8 DEF ComTxInv

-----------------------------------------------------------------------------
(* The driver's handlers that send: fresh bytes, and the parts of them. *)

LEMMA SeqWider ==
  ASSUME NEW S, NEW T, S \subseteq T, NEW s \in Seq(S)
  PROVE  s \in Seq(T)
<1>1. Len(s) \in Nat /\ s = [i \in 1 .. Len(s) |-> s[i]] /\ \A i \in 1 .. Len(s) : s[i] \in T
  BY LenProperties, ElementOfSeq
<1> QED
  BY <1>1, IsASeq

LEMMA BytesAre ==
  ASSUME ComTxTypeOK, NEW k \in Nat, NEW n \in Nat, NEW m \in Nat, k + n <= m
  PROVE  Bytes(k, n) \in Seq(1 .. numbered + m) /\ Len(Bytes(k, n)) = n
<1>1. numbered \in Nat
  BY Shapes
<1>2. \A i \in 1 .. n : numbered + k + i \in 1 .. numbered + m
  BY <1>1
<1>3. [i \in 1 .. n |-> numbered + k + i] \in Seq(1 .. numbered + m)
  BY <1>2, IsASeq
<1> QED
  BY <1>3, LenProperties DEF Bytes

(* More bytes have been asked for: the types of the bytes grow.            *)
LEMMA Numbered ==
  ASSUME ComTxTypeOK, NEW n \in Nat, numbered' = numbered + n
  PROVE  /\ numbered' \in Nat
         /\ txBuffer \in Seq(1 .. numbered') /\ wire \in Seq(0 .. numbered')
         /\ text \in Seq(1 .. numbered')
<1>1. numbered \in Nat /\ numbered' \in Nat
  BY Shapes
<1>2. 1 .. numbered \subseteq 1 .. numbered' /\ 0 .. numbered \subseteq 0 .. numbered'
  BY <1>1
<1>3. txBuffer \in Seq(1 .. numbered) /\ wire \in Seq(0 .. numbered) /\ text \in Seq(1 .. numbered)
  BY DEF ComTxTypeOK
<1> QED
  BY <1>1, <1>2, <1>3, SeqWider

(* The handler has measured nothing yet. *)
LEMMA SendsBegins ==
  ASSUME ComTxInv, parts = <<>>, UNCHANGED <<payload, txBuffer, readIx, udrie, length, copied>>,
         Undisturbed' => Quiet
  PROVE  Measured' /\ Filled' /\ length = 0 /\ ~copied
<1>1. length = 0 /\ ~copied
  BY Constants DEF ComTxInv, Measured
<1>2. payload # 0 => Len(txBuffer) <= payload
  BY DEF ComTxInv, Measured
<1>3. Measured'
  <2>1. ~udrie => readIx = 0
    BY DEF ComTxInv, Measured
  <2> QED
    BY <1>1, <1>2, <2>1 DEF Measured, Quiet
<1>4. Filled'
  BY <1>1 DEF Filled, Quiet
<1> QED
  BY <1>1, <1>3, <1>4

LEMMA QuietThrough ==
  ASSUME ComTxInv, Through
  PROVE  Quiet /\ parts = <<>> /\ comQueue = <<>> /\ gsmQueue = <<>>
BY DEF Through, Ready, Quiet, ComTxInv, Measured

(* Where the parts of a command begin and end. *)
IsCommand(ends) ==
  /\ ends \in Seq(1 .. TxSize) /\ Len(ends) \in 1 .. 4
  /\ \A i \in 2 .. Len(ends) : ends[i - 1] < ends[i]
Start(ends, i) == IF i = 1 THEN 0 ELSE ends[i - 1]

LEMMA CommandParts ==
  ASSUME ComTxTypeOK, NEW ends, IsCommand(ends)
  PROVE  /\ ends[Len(ends)] \in 1 .. TxSize
         /\ PartsOf(ends) \in Seq([bytes : Seq(1 .. numbered + ends[Len(ends)]), flash : BOOLEAN])
         /\ Len(PartsOf(ends)) = Len(ends) /\ DOMAIN PartsOf(ends) = 1 .. Len(ends)
         /\ \A i \in 1 .. Len(ends) :
              /\ PartsOf(ends)[i].flash = FALSE
              /\ Len(PartsOf(ends)[i].bytes) = ends[i] - Start(ends, i)
              /\ ends[i] \in Nat /\ Start(ends, i) \in Nat /\ Start(ends, i) <= ends[i]
<1> DEFINE n == Len(ends)
           m == ends[n]
           T == [bytes : Seq(1 .. numbered + m), flash : BOOLEAN]
<1>1. /\ n \in 1 .. 4 /\ DOMAIN ends = 1 .. n /\ \A i \in 1 .. n : ends[i] \in 1 .. TxSize
      /\ \A i \in 2 .. n : ends[i - 1] < ends[i]
  BY ElementOfSeq, LenProperties DEF IsCommand
<1>2. \A i \in 1 .. n : ends[i] <= m
  <2>1. n >= 2 => ends[1] < ends[2]
    <3>1. n >= 2 => 2 \in 2 .. n /\ 2 - 1 = 1
      BY <1>1
    <3> QED
      BY <1>1, <3>1
  <2>2. n >= 3 => ends[2] < ends[3]
    <3>1. n >= 3 => 3 \in 2 .. n /\ 3 - 1 = 2
      BY <1>1
    <3> QED
      BY <1>1, <3>1
  <2>3. n >= 4 => ends[3] < ends[4]
    <3>1. n >= 4 => 4 \in 2 .. n /\ 4 - 1 = 3
      BY <1>1
    <3> QED
      BY <1>1, <3>1
  <2> DEFINE a == ends[1]
             b == ends[2]
             c == ends[3]
             d == ends[4]
  <2>4. /\ a \in Nat /\ (n >= 2 => b \in Nat) /\ (n >= 3 => c \in Nat) /\ (n >= 4 => d \in Nat)
    <3>1. \A i \in 1 .. n : ends[i] \in Nat
      BY <1>1, Constants
    <3> QED
      BY <1>1, <3>1
  <2> HIDE DEF a, b, c, d
  <2>5. (n >= 2 => a < b) /\ (n >= 3 => b < c) /\ (n >= 4 => c < d)
    BY <2>1, <2>2, <2>3 DEF a, b, c, d
  <2> HIDE DEF n
  <2>6. n \in {1, 2, 3, 4}
    BY <1>1
  <2>7. /\ n = 1 => a <= a
        /\ n = 2 => a <= b /\ b <= b
        /\ n = 3 => a <= c /\ b <= c /\ c <= c
        /\ n = 4 => a <= d /\ b <= d /\ c <= d /\ d <= d
    BY <2>4, <2>5
  <2>8. TAKE i \in 1 .. n
  <2>9. i \in {1, 2, 3, 4} /\ i <= n
    BY <2>6, <2>8
  <2>10. m = IF n = 1 THEN a ELSE IF n = 2 THEN b ELSE IF n = 3 THEN c ELSE d
    BY <2>6 DEF a, b, c, d, m
  <2>11. ends[i] = IF i = 1 THEN a ELSE IF i = 2 THEN b ELSE IF i = 3 THEN c ELSE d
    BY <2>9 DEF a, b, c, d
  <2> HIDE DEF m
  <2> QED
    BY <2>6, <2>7, <2>9, <2>10, <2>11
<1>3. m \in 1 .. TxSize /\ m \in Nat
  <2>1. n \in 1 .. n
    BY <1>1
  <2> QED
    BY <1>1, <2>1, Constants
<1>4. ASSUME NEW i \in 1 .. n
      PROVE  ends[i] \in Nat /\ Start(ends, i) \in Nat /\ Start(ends, i) <= ends[i]
  <2>1. ends[i] \in Nat
    BY <1>1, Constants
  <2>2. CASE i = 1
    BY <2>1, <2>2 DEF Start
  <2>3. CASE i # 1
    <3>1. i \in 2 .. n /\ i - 1 \in 1 .. n
      BY <1>1, <2>3
    <3>2. ends[i - 1] < ends[i] /\ ends[i - 1] \in Nat
      BY <1>1, <3>1, Constants
    <3> QED
      BY <2>1, <2>3, <3>2 DEF Start
  <2> QED
    BY <2>2, <2>3
<1>5. PartsOf(ends) = [i \in 1 .. n |-> Part(Bytes(Start(ends, i), ends[i] - Start(ends, i)), FALSE)]
  BY <1>1 DEF PartsOf, Start
<1> HIDE DEF m, n
<1>6. ASSUME NEW i \in 1 .. n
      PROVE  /\ Bytes(Start(ends, i), ends[i] - Start(ends, i)) \in Seq(1 .. numbered + m)
             /\ Len(Bytes(Start(ends, i), ends[i] - Start(ends, i))) = ends[i] - Start(ends, i)
  <2>1. /\ Start(ends, i) \in Nat /\ ends[i] - Start(ends, i) \in Nat
        /\ Start(ends, i) + (ends[i] - Start(ends, i)) <= m
    BY <1>2, <1>3, <1>4
  <2> QED
    BY <1>3, <2>1, BytesAre
<1>7. \A i \in 1 .. n : /\ PartsOf(ends)[i] \in T /\ PartsOf(ends)[i].flash = FALSE
                        /\ Len(PartsOf(ends)[i].bytes) = ends[i] - Start(ends, i)
  BY <1>5, <1>6 DEF Part
<1>8. n \in Nat /\ PartsOf(ends) = [i \in 1 .. n |-> PartsOf(ends)[i]]
  <2>1. n \in Nat
    BY <1>1 DEF n
  <2> QED
    BY <1>5, <2>1
<1> HIDE DEF T
<1>9. PartsOf(ends) \in Seq(T) /\ DOMAIN PartsOf(ends) = 1 .. n
  <2> DEFINE p == PartsOf(ends)
  <2>1. \A i \in 1 .. n : p[i] \in T
    BY <1>7
  <2>2. n \in Nat /\ p = [i \in 1 .. n |-> p[i]] /\ DOMAIN p = 1 .. n
    BY <1>5, <1>8
  <2> HIDE DEF p
  <2>3. [i \in 1 .. n |-> p[i]] \in Seq(T)
    BY <2>1, <2>2, IsASeq
  <2> QED
    BY <2>2, <2>3 DEF p
<1>10. Len(PartsOf(ends)) = n
  BY <1>8, <1>9, LenProperties
<1> QED
  BY <1>3, <1>4, <1>7, <1>9, <1>10 DEF T, m, n

(* They fit when nothing else is in the buffer. *)
LEMMA CommandFits ==
  ASSUME ComTxTypeOK, NEW ends, IsCommand(ends), parts' = PartsOf(ends)
  PROVE  /\ \A i \in 1 .. 4 : LenOf(i)' \in 0 .. TxSize
         /\ LenOf(1)' + LenOf(2)' + LenOf(3)' + LenOf(4)' <= TxSize
<1> DEFINE n == Len(ends)
<1>1. n \in 1 .. 4 /\ DOMAIN parts' = 1 .. n /\ ends[n] \in 1 .. TxSize
  BY CommandParts DEF IsCommand
<1>2. \A i \in 1 .. n : /\ Len(parts'[i].bytes) = ends[i] - Start(ends, i)
                        /\ ends[i] \in Nat /\ Start(ends, i) \in Nat /\ Start(ends, i) <= ends[i]
  BY CommandParts
<1>3. Len(<<>>) = 0
  OBVIOUS
<1>4. \A i : LenOf(i)' = IF i \in 1 .. n THEN ends[i] - Start(ends, i) ELSE 0
  BY <1>1, <1>2, <1>3 DEF LenOf, BytesOf
<1> DEFINE a == ends[1]
           b == ends[2]
           c == ends[3]
           d == ends[4]
           l1 == LenOf(1)'
           l2 == LenOf(2)'
           l3 == LenOf(3)'
           l4 == LenOf(4)'
<1>5. Start(ends, 1) = 0 /\ Start(ends, 2) = a /\ Start(ends, 3) = b /\ Start(ends, 4) = c
  <2>1. 2 - 1 = 1 /\ 3 - 1 = 2 /\ 4 - 1 = 3
    OBVIOUS
  <2> QED
    BY <2>1 DEF Start
<1>6. /\ l1 = (IF 1 \in 1 .. n THEN a - 0 ELSE 0) /\ l2 = (IF 2 \in 1 .. n THEN b - a ELSE 0)
      /\ l3 = (IF 3 \in 1 .. n THEN c - b ELSE 0) /\ l4 = (IF 4 \in 1 .. n THEN d - c ELSE 0)
  BY <1>4, <1>5
<1>7. /\ 1 \in 1 .. n => a \in Nat
      /\ 2 \in 1 .. n => b \in Nat /\ a <= b
      /\ 3 \in 1 .. n => c \in Nat /\ b <= c
      /\ 4 \in 1 .. n => d \in Nat /\ c <= d
  BY <1>2, <1>5
<1>8. /\ n = 1 => a \in 1 .. TxSize
      /\ n = 2 => b \in 1 .. TxSize
      /\ n = 3 => c \in 1 .. TxSize
      /\ n = 4 => d \in 1 .. TxSize
  BY <1>1
<1> HIDE DEF a, b, c, d, l1, l2, l3, l4, n
<1>9. n \in {1, 2, 3, 4} /\ TxSize \in Nat
  BY <1>1, Constants
<1>10. /\ l1 \in 0 .. TxSize /\ l2 \in 0 .. TxSize /\ l3 \in 0 .. TxSize /\ l4 \in 0 .. TxSize
       /\ l1 + l2 + l3 + l4 <= TxSize
  <2>1. CASE n = 1
    BY <2>1, <1>6, <1>7, <1>8, <1>9
  <2>2. CASE n = 2
    BY <2>2, <1>6, <1>7, <1>8, <1>9
  <2>3. CASE n = 3
    BY <2>3, <1>6, <1>7, <1>8, <1>9
  <2>4. CASE n = 4
    BY <2>4, <1>6, <1>7, <1>8, <1>9
  <2> QED
    BY <1>9, <2>1, <2>2, <2>3, <2>4
<1>11. \A i \in 1 .. 4 : i = 1 \/ i = 2 \/ i = 3 \/ i = 4
  OBVIOUS
<1> QED
  BY <1>10, <1>11 DEF l1, l2, l3, l4

(* A command: nothing of a text, and it fits where nothing else is.        *)
LEMMA CommandSent ==
  ASSUME ComTxInv, NEW ends, IsCommand(ends), parts = <<>>,
         Sends(PartsOf(ends), ends[Len(ends)]),
         gsm' \in {"active_idle", "active_sms_send", "active_sms_send_support"},
         useFlash' \in 0 .. 1 \/ useFlash' = useFlash, ops' \in 0 .. MaxOps, text' = text,
         gsmQueue' = gsmQueue,
         Undisturbed' => Quiet
  PROVE  ComTxTypeOK' /\ PartsFit' /\ Measured' /\ Filled' /\ Len(parts') = Len(ends)
<1> DEFINE m == ends[Len(ends)]
<1>1. /\ parts' = PartsOf(ends) /\ numbered' = numbered + m
      /\ UNCHANGED <<payload, txBuffer, readIx, udrie, wire>>
      /\ UNCHANGED <<comQueue, comTimer, length, copied>>
  BY DEF Sends, bufferVars
<1>2. ComTxTypeOK
  BY DEF ComTxInv
<1>3. /\ m \in 1 .. TxSize /\ m \in Nat
      /\ parts' \in Seq([bytes : Seq(1 .. numbered + m), flash : BOOLEAN])
      /\ Len(parts') = Len(ends) /\ DOMAIN parts' = 1 .. Len(ends)
      /\ \A i \in 1 .. Len(ends) : parts'[i].flash = FALSE
  <2>1. m \in 1 .. TxSize
    BY <1>2, CommandParts
  <2>2. m \in Nat
    BY <2>1, Constants
  <2>3. parts' \in Seq([bytes : Seq(1 .. numbered + m), flash : BOOLEAN])
    BY <1>1, <1>2, CommandParts
  <2>4. /\ Len(parts') = Len(ends) /\ DOMAIN parts' = 1 .. Len(ends)
        /\ \A i \in 1 .. Len(ends) : parts'[i].flash = FALSE
    BY <1>1, <1>2, CommandParts
  <2> QED
    BY <2>1, <2>2, <2>3, <2>4
<1> HIDE DEF m
<1>4. numbered' \in Nat /\ txBuffer \in Seq(1 .. numbered') /\ wire \in Seq(0 .. numbered')
      /\ text \in Seq(1 .. numbered')
  BY <1>1, <1>2, <1>3, Numbered
<1>5. parts' \in Seq([bytes : Seq(1 .. numbered'), flash : BOOLEAN])
  BY <1>1, <1>3
<1>6. useFlash' \in 0 .. TxSize + 1
  BY <1>2, Constants DEF ComTxTypeOK
<1>7. ComTxTypeOK'
  BY <1>1, <1>2, <1>4, <1>5, <1>6 DEF ComTxTypeOK
<1>8. PartsFit'
  <2>1. Len(parts') <= 4
    <3>1. Len(ends) <= 4
      BY SMTT(30) DEF IsCommand
    <3> QED
      BY <1>3, <3>1
  <2>2. \A i \in DOMAIN parts' : ~parts'[i].flash
    BY <1>3
  <2>3. /\ \A i \in 1 .. 4 : LenOf(i)' \in 0 .. TxSize
        /\ LenOf(1)' + LenOf(2)' + LenOf(3)' + LenOf(4)' <= TxSize
    BY <1>1, <1>2, CommandFits
  <2>4. Undisturbed' => Left' <= TxSize
    <3> SUFFICES ASSUME Undisturbed' PROVE Left' <= TxSize
      OBVIOUS
    <3>1. payload' = 0
      BY <1>1 DEF Quiet
    <3> DEFINE a == LenOf(1)'
               b == LenOf(2)'
               c == LenOf(3)'
               d == LenOf(4)'
    <3>2. a \in 0 .. TxSize /\ b \in 0 .. TxSize /\ c \in 0 .. TxSize /\ d \in 0 .. TxSize
          /\ a + b + c + d <= TxSize /\ Left' = 0 + a + b + c + d
      BY <2>3, <3>1 DEF Left
    <3> HIDE DEF a, b, c, d
    <3> QED
      BY <3>2, Constants
  <2>5. \A i \in 1 .. 4 : LenOf(i)' <= TxSize
    BY <2>3, Constants
  <2> QED
    BY <2>1, <2>2, <2>4, <2>5 DEF PartsFit
<1>9. Measured' /\ Filled'
  BY <1>1, SendsBegins
<1> QED
  BY <1>3, <1>7, <1>8, <1>9

(* How many tokens there are when the parts are all there is.              *)
LEMMA TokensOfParts ==
  ASSUME comQueue' = <<>>, gsmQueue' = <<>>, ~udrie', Len(parts') \in 0 .. 4
  PROVE  FewTokens'
<1>1. Len(comQueue') = 0 /\ Len(gsmQueue') = 0 /\ One(udrie') = 0 /\ One(comTimer') \in 0 .. 1
  BY DEF One
<1> DEFINE n == Len(parts')
           t == One(comTimer')
<1>2. Tokens' = n + 0 + 0 + 0 + t /\ n \in 0 .. 4 /\ t \in 0 .. 1
  BY <1>1 DEF Tokens
<1> HIDE DEF n, t
<1>3. Tokens' <= 5
  BY <1>2
<1> QED
  BY <1>3 DEF FewTokens

LEMMA OperationInv ==
  ASSUME ComTxInv, NEW ends \in Commands, Operation(ends)
  PROVE  ComTxInv'
<1>1. /\ Through \/ (Hasty /\ Ready)
      /\ gsm = "active_idle" /\ ops < MaxOps /\ ops' = ops + 1
      /\ Sends(PartsOf(ends), ends[Len(ends)]) /\ UNCHANGED <<gsm, useFlash, text, gsmQueue>>
  BY DEF Operation
<1>2. IsCommand(ends)
  BY ComTxAssumption DEF IsCommand
<1>3. parts = <<>> /\ (~Hasty => Through)
  BY <1>1 DEF Through, Ready
<1>4. text = <<>> /\ ~Texting /\ ~Texting'
  BY <1>1 DEF ComTxInv, OneText, Texting
<1>5. Undisturbed' => ~Hasty
  BY <1>1 DEF Undisturbed
<1>6. Undisturbed' => Quiet
  BY <1>3, <1>5, QuietThrough
<1>7. ops' \in 0 .. MaxOps /\ gsm' = "active_idle"
  <2>1. ops \in 0 .. MaxOps
    BY DEF ComTxInv, ComTxTypeOK
  <2> QED
    BY <1>1, <2>1, Constants
<1>8. ComTxTypeOK' /\ PartsFit' /\ Measured' /\ Filled' /\ Len(parts') = Len(ends)
  BY <1>1, <1>2, <1>3, <1>6, <1>7, CommandSent
<1>9. OneText'
  BY <1>1, <1>4, <1>7 DEF ComTxInv, OneText
<1>10. FewTokens'
  <2>1. CASE Hasty
    <3>1. Hasty' = Hasty
      OBVIOUS
    <3> QED
      BY <2>1, <3>1 DEF FewTokens
  <2>2. CASE ~Hasty
    <3>1. comQueue' = <<>> /\ gsmQueue' = <<>> /\ ~udrie'
      BY <2>2, <1>1, <1>3, QuietThrough DEF Sends, bufferVars, Quiet
    <3>2. Len(parts') \in 0 .. 4
      BY <1>2, <1>8 DEF IsCommand
    <3> QED
      BY <3>1, <3>2, TokensOfParts
  <2> QED
    BY <2>1, <2>2
<1> QED
  BY <1>8, <1>9, <1>10 DEF ComTxInv

LEMMA SmsSendInv ==
  ASSUME ComTxInv, NEW flash \in BOOLEAN, SmsSend(flash)
  PROVE  ComTxInv'
<1> DEFINE ends == <<1, 2, 3>>
<1>1. /\ Through /\ gsm = "active_idle" /\ ops < MaxOps /\ ops' = ops + 1
      /\ gsm' = "active_sms_send" /\ useFlash' \in 0 .. 1 /\ Sends(PartsOf(ends), 3)
      /\ UNCHANGED <<text, gsmQueue>>
  BY DEF SmsSend
<1>2. IsCommand(ends) /\ Len(ends) = 3 /\ ends[3] = 3
  <2>1. 1 \in 1 .. TxSize /\ 2 \in 1 .. TxSize /\ 3 \in 1 .. TxSize
    BY Constants
  <2>2. ends \in Seq(1 .. TxSize) /\ Len(ends) = 3 /\ ends[1] = 1 /\ ends[2] = 2 /\ ends[3] = 3
    BY <2>1
  <2> HIDE DEF ends
  <2>3. \A i \in 2 .. 3 : ends[i - 1] < ends[i]
    <3>1. \A i \in 2 .. 3 : (i = 2 /\ i - 1 = 1) \/ (i = 3 /\ i - 1 = 2)
      OBVIOUS
    <3>2. ends[1] < ends[2] /\ ends[2] < ends[3]
      BY <2>2
    <3> QED
      BY <3>1, <3>2
  <2> QED
    BY <2>2, <2>3 DEF IsCommand
<1> HIDE DEF ends
<1>3. parts = <<>> /\ comQueue = <<>> /\ gsmQueue = <<>> /\ Quiet
  BY <1>1, QuietThrough
<1>4. text = <<>> /\ ~Texting'
  BY <1>1 DEF ComTxInv, OneText, Texting
<1>5. ops' \in 0 .. MaxOps
  <2>1. ops \in 0 .. MaxOps
    BY DEF ComTxInv, ComTxTypeOK
  <2> QED
    BY <1>1, <2>1, Constants
<1>6. Sends(PartsOf(ends), ends[Len(ends)])
  BY <1>1, <1>2
<1>7. ComTxTypeOK' /\ PartsFit' /\ Measured' /\ Filled' /\ Len(parts') = Len(ends)
  BY <1>1, <1>2, <1>3, <1>5, <1>6, CommandSent
<1>8. OneText'
  BY <1>1, <1>3, <1>4, EmptySeq DEF OneText
<1>9. FewTokens'
  <2>1. comQueue' = <<>> /\ gsmQueue' = <<>> /\ ~udrie' /\ Len(parts') \in 0 .. 4
    BY <1>1, <1>2, <1>3, <1>7 DEF Sends, bufferVars, Quiet
  <2> QED
    BY <2>1, TokensOfParts
<1> QED
  BY <1>7, <1>8, <1>9 DEF ComTxInv

(* The text of a message: it fits, or is in flash and will be cut.         *)
LEMMA PromptInv ==
  ASSUME ComTxInv, Prompt
  PROVE  ComTxInv'
<1>1. PICK n \in IF useFlash # 0 THEN FlashTexts ELSE RamTexts :
        /\ text' = Bytes(0, n) /\ Sends(<<Part(text', useFlash # 0)>>, n)
  BY DEF Prompt
<1>2. /\ Through /\ gsm = "active_sms_send" /\ text = <<>>
      /\ UNCHANGED <<gsm, useFlash, ops, gsmQueue>>
  BY DEF Prompt
<1>3. parts = <<>> /\ comQueue = <<>> /\ gsmQueue = <<>> /\ Quiet
  BY <1>2, QuietThrough
<1>4. /\ parts' = <<Part(text', useFlash # 0)>> /\ numbered' = numbered + n
      /\ UNCHANGED <<payload, txBuffer, readIx, udrie, wire, comQueue, comTimer, length, copied>>
  BY <1>1 DEF Sends, bufferVars
<1>5. /\ n \in Nat
      /\ useFlash # 0 => n \in TxSize + 2 .. 2 * TxSize
      /\ useFlash = 0 => n \in 1 .. TxSize
  BY Constants
<1>6. ComTxTypeOK
  BY DEF ComTxInv
<1>7. text' \in Seq(1 .. numbered') /\ Len(text') = n
  <2>1. 0 \in Nat /\ 0 + n <= n
    BY <1>5
  <2>2. Bytes(0, n) \in Seq(1 .. numbered + n) /\ Len(Bytes(0, n)) = n
    BY <1>5, <1>6, <2>1, BytesAre
  <2> QED
    BY <1>1, <1>4, <2>2
<1>8. Len(parts') = 1 /\ DOMAIN parts' = {1} /\ parts'[1] = Part(text', useFlash # 0)
  <2> DEFINE t == Part(text', useFlash # 0)
  <2> HIDE DEF t
  <2>1. Len(<<t>>) = 1 /\ DOMAIN <<t>> = {1} /\ <<t>>[1] = t
    OBVIOUS
  <2> QED
    BY <1>4, <2>1 DEF t
<1>9. ComTxTypeOK'
  <2>1. numbered' \in Nat /\ txBuffer \in Seq(1 .. numbered') /\ wire \in Seq(0 .. numbered')
    BY <1>4, <1>5, <1>6, Numbered
  <2>2. parts' \in Seq([bytes : Seq(1 .. numbered'), flash : BOOLEAN])
    <3> DEFINE t == Part(text', useFlash # 0)
               T == [bytes : Seq(1 .. numbered'), flash : BOOLEAN]
    <3>1. t \in T
      BY <1>7 DEF Part
    <3> HIDE DEF t, T
    <3>2. <<t>> \in Seq(T)
      BY <3>1
    <3> QED
      BY <1>4, <3>2 DEF t, T
  <2> QED
    BY <1>2, <1>4, <1>6, <1>7, <2>1, <2>2 DEF ComTxTypeOK
<1>10. Measured' /\ Filled' /\ length = 0 /\ ~copied
  BY <1>3, <1>4, SendsBegins
<1>11. useFlash # 0 => AtText'
  <2> SUFFICES ASSUME useFlash # 0 PROVE AtText'
    OBVIOUS
  <2>1. NothingElse' /\ gsmQueue' = <<>> /\ ~copied' /\ payload' = 0 /\ gsm' = "active_sms_send"
    BY <1>2, <1>3, <1>4, <1>10 DEF NothingElse, Quiet
  <2>2. (useFlash # 0) = TRUE
    OBVIOUS
  <2>3. parts' = <<Part(text', TRUE)>> /\ useFlash' # 0
    BY <1>2, <1>4, <2>2
  <2> QED
    BY <1>5, <1>7, <2>1, <2>3 DEF AtText
<1>12. OneText'
  <2>1. gsm' = "active_sms_send"
    BY <1>2
  <2>2. useFlash = 0 => ~Texting'
    BY <1>2 DEF Texting
  <2>3. \A i \in DOMAIN gsmQueue' : gsmQueue'[i].sig = "SEND_DONE"
    BY <1>2, <1>3, EmptySeq
  <2> QED
    BY <1>11, <2>1, <2>2, <2>3 DEF OneText, AtText
<1>13. PartsFit'
  <2>1. \A i : LenOf(i)' = IF i = 1 THEN n ELSE 0
    <3>1. Len(<<>>) = 0
      OBVIOUS
    <3> QED
      BY <1>7, <1>8, <3>1 DEF LenOf, BytesOf, Part
  <2>2. gsm' # "active_idle" /\ payload' = 0
    BY <1>2, <1>3, <1>4 DEF Quiet
  <2>3. LenOf(1)' = n /\ LenOf(2)' = 0 /\ LenOf(3)' = 0 /\ LenOf(4)' = 0
    BY <2>1
  <2>4. Left' = n
    BY <1>5, <2>2, <2>3 DEF Left
  <2>5. useFlash = 0 => n <= TxSize /\ \A i \in 1 .. 4 : LenOf(i)' <= TxSize
    BY <1>5, <2>1, Constants
  <2> QED
    BY <1>8, <1>11, <2>2, <2>4, <2>5 DEF PartsFit
<1>14. FewTokens'
  BY <1>2, <1>3, <1>4, <1>8, TokensOfParts DEF Quiet
<1> QED
  BY <1>9, <1>10, <1>12, <1>13, <1>14 DEF ComTxInv

(* The rest of a text is begun when its first part is out.                 *)
LEMMA ContinueQuiet ==
  ASSUME ComTxInv, Continue
  PROVE  /\ Texting /\ Quiet /\ useFlash = TxSize + 1
         /\ gsmQueue = <<SendDone>> /\ gsmQueue' = <<>>
<1>1. /\ parts = <<>> /\ gsmQueue # <<>> /\ Head(gsmQueue).sig = "SEND_DONE"
      /\ gsm = "active_sms_send_support" /\ useFlash # 0 /\ gsmQueue' = Tail(gsmQueue)
  BY DEF Continue, Ready
<1>2. Texting /\ useFlash = TxSize + 1
  BY <1>1 DEF ComTxInv, OneText, Texting
<1>3. gsm # "active_sms_send"
  BY <1>1
<1>4. FirstPartOut
  BY <1>1, <1>2, <1>3 DEF ComTxInv, OneText, AtText, OnTheWay
<1>5. gsmQueue = <<SendDone>> /\ Quiet
  BY <1>3, <1>4 DEF FirstPartOut
<1>6. Tail(<<SendDone>>) = <<>>
  OBVIOUS
<1> QED
  BY <1>1, <1>2, <1>5, <1>6

LEMMA ContinueInv ==
  ASSUME ComTxInv, Continue
  PROVE  ComTxInv'
<1> DEFINE rest == SubSeq(text, useFlash + 1, Len(text))
           end == Bytes(0, 1)
<1>1. /\ parts = <<>> /\ comQueue = <<>> /\ gsm = "active_sms_send_support" /\ useFlash' = 0
      /\ Sends(<<Part(rest, TRUE), Part(end, FALSE)>>, 1)
      /\ UNCHANGED <<gsm, text, ops>>
  BY DEF Continue, Ready
<1>2. Texting /\ Quiet /\ useFlash = TxSize + 1 /\ gsmQueue' = <<>>
  BY ContinueQuiet
<1>3. /\ parts' = <<Part(rest, TRUE), Part(end, FALSE)>> /\ numbered' = numbered + 1
      /\ UNCHANGED <<payload, txBuffer, readIx, udrie, wire, comQueue, comTimer, length, copied>>
  BY <1>1 DEF Sends, bufferVars
<1>4. ComTxTypeOK
  BY DEF ComTxInv
<1>5. Len(text) \in TxSize + 2 .. 2 * TxSize /\ text # <<>>
  BY <1>2 DEF ComTxInv, OneText, Texting
<1>6. numbered' \in Nat /\ txBuffer \in Seq(1 .. numbered') /\ wire \in Seq(0 .. numbered')
      /\ text \in Seq(1 .. numbered')
  BY <1>3, <1>4, Numbered
<1>7. end \in Seq(1 .. numbered') /\ Len(end) = 1
  <2>1. 0 \in Nat /\ 1 \in Nat /\ 0 + 1 <= 1
    OBVIOUS
  <2>2. Bytes(0, 1) \in Seq(1 .. numbered + 1) /\ Len(Bytes(0, 1)) = 1
    BY <1>4, <2>1, BytesAre
  <2> QED
    BY <1>3, <2>2
<1>8. rest \in Seq(1 .. numbered') /\ Len(rest) = Len(text) - (TxSize + 1)
  <2>1. useFlash + 1 = TxSize + 2 /\ TxSize + 2 \in 1 .. Len(text) + 1 /\ Len(text) \in 1 - 1 .. Len(text)
    BY <1>2, <1>5, Constants
  <2>2. rest = SubSeq(text, TxSize + 2, Len(text))
    BY <2>1
  <2>3. /\ \A i \in TxSize + 2 .. Len(text) : i \in 1 .. Len(text)
        /\ Len(text) - (TxSize + 2) + 1 = Len(text) - (TxSize + 1)
    BY <1>5, Constants
  <2>4. TxSize + 2 <= Len(text) + 1 /\ TxSize + 2 \in 1 .. Len(text) + 1 /\ Len(text) \in TxSize + 2 - 1 .. Len(text)
    BY <1>5, Constants
  <2>5. SubSeq(text, TxSize + 2, Len(text)) \in Seq(1 .. numbered')
        /\ Len(SubSeq(text, TxSize + 2, Len(text))) = Len(text) - (TxSize + 2) + 1
    BY <1>6, <2>4, SubSeqProperties, SMTT(30)
  <2> QED
    BY <2>2, <2>3, <2>5
<1> HIDE DEF rest, end
<1>9. /\ Len(parts') = 2 /\ DOMAIN parts' = {1, 2}
      /\ parts'[1].bytes = rest /\ parts'[2].bytes = end
      /\ parts' \in Seq([bytes : Seq(1 .. numbered'), flash : BOOLEAN])
  <2> DEFINE t == Part(rest, TRUE)
             u == Part(end, FALSE)
             T == [bytes : Seq(1 .. numbered'), flash : BOOLEAN]
  <2>1. t \in T /\ u \in T /\ t.bytes = rest /\ u.bytes = end
    BY <1>7, <1>8 DEF Part
  <2>2. parts' = <<t, u>>
    BY <1>3
  <2> HIDE DEF t, u, T
  <2>3. Len(<<t, u>>) = 2 /\ DOMAIN <<t, u>> = {1, 2} /\ <<t, u>>[1] = t /\ <<t, u>>[2] = u
        /\ <<t, u>> \in Seq(T)
    BY <2>1
  <2>4. parts'[1].bytes = rest /\ parts'[2].bytes = end
    BY <2>1, <2>2, <2>3
  <2> QED
    BY <2>2, <2>3, <2>4 DEF T
<1>10. ComTxTypeOK'
  <2>1. gsmQueue' \in Seq([sig : {"SEND_DONE", "BUFFER_FULL"}, par : 0 .. TxSize + 1])
    BY <1>2
  <2>2. useFlash' \in 0 .. TxSize + 1
    BY <1>1, Constants
  <2> QED
    BY <1>1, <1>3, <1>4, <1>6, <1>9, <2>1, <2>2 DEF ComTxTypeOK
<1>11. Measured' /\ Filled'
  BY <1>1, <1>2, <1>3, SendsBegins
<1>12. OneText'
  BY <1>1, <1>2, <1>5, EmptySeq DEF OneText, Texting
<1>13. PartsFit'
  <2>1. Len(<<>>) = 0
    OBVIOUS
  <2>2. \A i : LenOf(i)' = IF i = 1 THEN Len(rest) ELSE IF i = 2 THEN Len(end) ELSE 0
    BY <1>9, <2>1 DEF LenOf, BytesOf
  <2>3. /\ LenOf(1)' = Len(text) - (TxSize + 1) /\ LenOf(2)' = 1
        /\ LenOf(3)' = 0 /\ LenOf(4)' = 0 /\ payload' = 0
    BY <2>2, <1>2, <1>3, <1>7, <1>8 DEF Quiet
  <2>4. Left' <= TxSize /\ LenOf(1)' <= TxSize
    <3>1. Len(text) - (TxSize + 1) \in 0 .. TxSize - 1 /\ TxSize \in Nat
      BY <1>5, Constants
    <3> DEFINE a == Len(text) - (TxSize + 1)
    <3> HIDE DEF a
    <3>2. Left' = 0 + a + 1 + 0 + 0 /\ LenOf(1)' = a /\ a \in 0 .. TxSize - 1
      BY <2>3, <3>1 DEF Left, a
    <3> QED
      BY <3>1, <3>2
  <2>5. \A i \in 1 .. 4 : LenOf(i)' <= TxSize
    BY <2>2, <2>4, <1>7, Constants
  <2>6. gsm' # "active_idle"
    BY <1>1
  <2> QED
    BY <1>9, <2>4, <2>5, <2>6 DEF PartsFit
<1>14. FewTokens'
  BY <1>1, <1>2, <1>3, <1>9, TokensOfParts DEF Quiet
<1> QED
  BY <1>10, <1>11, <1>12, <1>13, <1>14 DEF ComTxInv

-----------------------------------------------------------------------------
(* send_command_timeout keeps the invariant. *)

(* A text in flash that has been measured is too long; any other part that *)
(* is sent undisturbed fits.                                               *)
LEMMA AtTextIs ==
  ASSUME ComTxInv, AtText
  PROVE  /\ Undisturbed /\ Texting /\ ~udrie /\ readIx = 0 /\ payload = 0
         /\ parts # <<>> /\ Len(parts) = 1 /\ Tail(parts) = <<>> /\ Head(parts).flash = TRUE
         /\ BytesOf(1) = text /\ LenOf(1) = Len(text)
         /\ LenOf(2) = 0 /\ LenOf(3) = 0 /\ LenOf(4) = 0
         /\ Len(text) \in TxSize + 2 .. 2 * TxSize
         /\ length # 0 /\ ~copied => length = Len(text)
<1> DEFINE t == Part(text, TRUE)
<1>1. parts = <<t>> /\ gsm = "active_sms_send" /\ useFlash # 0 /\ payload = 0
      /\ Len(text) \in TxSize + 2 .. 2 * TxSize
  BY DEF AtText
<1>2. t.bytes = text /\ t.flash = TRUE
  BY DEF Part
<1> HIDE DEF t
<1>3. <<t>> # <<>> /\ Len(<<t>>) = 1 /\ Tail(<<t>>) = <<>> /\ Head(<<t>>) = t
      /\ DOMAIN <<t>> = {1} /\ <<t>>[1] = t /\ Len(<<>>) = 0
  OBVIOUS
<1>4. BytesOf(1) = text /\ BytesOf(2) = <<>> /\ BytesOf(3) = <<>> /\ BytesOf(4) = <<>>
  BY <1>1, <1>2, <1>3 DEF BytesOf
<1>5. LenOf(1) = Len(text) /\ LenOf(2) = 0 /\ LenOf(3) = 0 /\ LenOf(4) = 0
  BY <1>3, <1>4 DEF LenOf
<1>6. Undisturbed /\ text # <<>> /\ Texting
  <2>1. Len(text) # 0
    BY <1>1, Constants
  <2>2. gsm # "active_idle"
    BY <1>1
  <2> QED
    BY <1>1, <1>3, <2>1, <2>2 DEF Undisturbed, Texting
<1>7. parts # <<>>
  BY <1>1, <1>3
<1>8. ~udrie /\ readIx = 0
  BY <1>6, <1>7 DEF ComTxInv, Measured
<1>9. length # 0 /\ ~copied => length = Len(text)
  <2>1. length # 0 /\ ~copied => length = payload + LenOf(1)
    BY <1>6 DEF ComTxInv, Measured
  <2> QED
    BY <2>1, <1>1, <1>5, Shapes DEF ComTxInv
<1> QED
  BY <1>1, <1>2, <1>3, <1>4, <1>5, <1>6, <1>7, <1>8, <1>9

LEMMA PartsSendable ==
  ASSUME ComTxInv, parts # <<>>
  PROVE  /\ Texting => AtText
         /\ ~AtText => LenOf(1) <= TxSize /\ (Undisturbed => Left <= TxSize)
         /\ ~AtText /\ Undisturbed /\ length # 0 /\ ~copied => length <= TxSize
<1>1. Texting => AtText
  BY DEF ComTxInv, OneText, OnTheWay, FirstPartOut
<1>2. ~AtText => LenOf(1) <= TxSize /\ (Undisturbed => Left <= TxSize)
  <2>1. 1 \in 1 .. 4
    OBVIOUS
  <2> QED
    BY <2>1 DEF ComTxInv, PartsFit
<1>3. ASSUME ~AtText, Undisturbed, length # 0, ~copied
      PROVE  length <= TxSize
  <2> DEFINE a == LenOf(1)
             b == LenOf(2)
             c == LenOf(3)
             d == LenOf(4)
  <2>1. length = payload + a
    BY <1>3 DEF ComTxInv, Measured
  <2>2. payload + a + b + c + d <= TxSize
    BY <1>2, <1>3 DEF Left
  <2>3. a \in Nat /\ b \in Nat /\ c \in Nat /\ d \in Nat /\ payload \in Nat /\ TxSize \in Nat
    BY Parts, Shapes, Constants DEF ComTxInv
  <2> HIDE DEF a, b, c, d
  <2> QED
    BY <2>1, <2>2, <2>3
<1> QED
  BY <1>1, <1>2, <1>3

LEMMA MeasureInv ==
  ASSUME ComTxInv, Measure
  PROVE  ComTxInv'
<1>1. /\ parts # <<>> /\ length = 0 /\ length' = payload + Len(Head(parts).bytes)
      /\ UNCHANGED <<bufferVars, comQueue, comTimer, gsmQueue, gsmVars, parts, copied>>
  BY DEF Measure
<1>2. /\ UNCHANGED <<payload, txBuffer, readIx, udrie, wire>>
      /\ UNCHANGED <<gsm, useFlash, text, numbered, ops>>
  BY <1>1 DEF bufferVars, gsmVars
<1>3. ~copied
  BY <1>1, Constants DEF ComTxInv, Measured
<1>4. length' = payload + LenOf(1) /\ LenOf(1) \in Nat /\ payload \in Nat /\ payload <= TxSize
  BY <1>1, FirstPart, Parts, Shapes DEF ComTxInv
<1>5. length' \in 0 .. 2 * TxSize
  <2>1. CASE AtText
    BY <2>1, <1>4, AtTextIs, Constants
  <2>2. CASE ~AtText
    <3>1. LenOf(1) <= TxSize
      BY <1>1, <2>2, PartsSendable
    <3> QED
      BY <1>4, <3>1, Constants
  <2> QED
    BY <2>1, <2>2
<1>6. ComTxTypeOK'
  BY <1>1, <1>2, <1>5 DEF ComTxInv, ComTxTypeOK
<1>7. OneText' /\ (AtText => AtText')
  <2>1. NothingElse' = NothingElse
        /\ OneEvent("SEND_REQUEST")' = OneEvent("SEND_REQUEST")
        /\ OneEvent("SERIAL_SEND_DONE")' = OneEvent("SERIAL_SEND_DONE")
    BY <1>1 DEF NothingElse, OneEvent
  <2> QED
    BY <1>1, <1>2, <2>1, TextGoesOn
<1>8. /\ \A i : LenOf(i)' = LenOf(i)
      /\ Left' = Left /\ Undisturbed' = Undisturbed
  BY <1>1, <1>2, SameParts DEF Left, Undisturbed
<1>9. PartsFit'
  BY <1>1, <1>2, <1>7, <1>8 DEF ComTxInv, PartsFit
<1>10. Measured'
  BY <1>1, <1>2, <1>3, <1>4, <1>8 DEF ComTxInv, Measured
<1>11. Filled'
  BY <1>1, <1>2, <1>3, <1>8 DEF ComTxInv, Filled
<1>12. FewTokens'
  BY <1>1, <1>2 DEF ComTxInv, FewTokens, Tokens
<1> QED
  BY <1>6, <1>7, <1>9, <1>10, <1>11, <1>12 DEF ComTxInv

(* A part is cut only if it is a text in flash, the first there is; what   *)
(* else is too long is dropped, and only where an operation began hastily. *)
LEMMA CutIs ==
  ASSUME ComTxInv, CopyCut
  PROVE  \/ /\ AtText /\ length = Len(text)
            /\ txBuffer' = SubSeq(text, 1, TxSize) /\ gsmQueue' = <<BufferFull>>
         \/ ~AtText /\ ~Undisturbed /\ UNCHANGED <<txBuffer, gsmQueue>>
<1>1. /\ parts # <<>> /\ length # 0 /\ ~copied /\ length > TxSize
      /\ IF payload = 0 /\ Head(parts).flash
         THEN /\ txBuffer' = SubSeq(Head(parts).bytes, 1, TxSize)
              /\ gsmQueue' = Append(gsmQueue, BufferFull)
         ELSE UNCHANGED <<txBuffer, gsmQueue>>
  BY DEF CopyCut, TooLong
<1>2. CASE AtText
  <2>1. payload = 0 /\ Head(parts).flash /\ Head(parts).bytes = text /\ length = Len(text)
    BY <1>1, <1>2, AtTextIs, FirstPart DEF ComTxInv
  <2>2. gsmQueue = <<>>
    BY <1>1, <1>2 DEF AtText
  <2>3. Append(<<>>, BufferFull) = <<BufferFull>>
    OBVIOUS
  <2> QED
    BY <1>1, <1>2, <2>1, <2>2, <2>3
<1>3. CASE ~AtText
  <2>1. ~Undisturbed
    <3>1. ~(length <= TxSize)
      BY <1>1, Shapes, Constants DEF ComTxInv
    <3> QED
      BY <1>1, <1>3, <3>1, PartsSendable
  <2>2. ~Head(parts).flash
    <3>1. gsm = "active_idle" /\ Head(parts) = parts[1] /\ 1 \in DOMAIN parts
      BY <1>1, <2>1, FirstPart DEF Undisturbed, ComTxInv
    <3> QED
      BY <3>1 DEF ComTxInv, PartsFit
  <2> QED
    BY <1>1, <1>3, <2>1, <2>2
<1> QED
  BY <1>2, <1>3

LEMMA FirstBytes ==
  ASSUME NEW S, NEW s \in Seq(S), NEW n \in Nat, n <= Len(s)
  PROVE  SubSeq(s, 1, n) \in Seq(S) /\ Len(SubSeq(s, 1, n)) = n
<1>1. \A i \in 1 .. n : s[i] \in S
  BY ElementOfSeq, LenProperties
<1>2. 1 \in Int /\ n \in Int
  OBVIOUS
<1>3. SubSeq(s, 1, n) \in Seq(S) /\ Len(SubSeq(s, 1, n)) = IF 1 <= n THEN n - 1 + 1 ELSE 0
  BY <1>1, <1>2, SubSeqProperties
<1> QED
  BY <1>3

LEMMA CopyCutInv ==
  ASSUME ComTxInv, CopyCut
  PROVE  ComTxInv'
<1>1. /\ parts # <<>> /\ length # 0 /\ copied' = TRUE /\ length' = TxSize /\ length > TxSize
      /\ UNCHANGED <<payload, readIx, udrie, wire, comQueue, comTimer, gsmVars, parts>>
  BY DEF CopyCut, TooLong
<1>2. UNCHANGED <<gsm, useFlash, text, numbered, ops>>
  BY <1>1 DEF gsmVars
<1>3. /\ \A i : LenOf(i)' = LenOf(i) /\ BytesOf(i)' = BytesOf(i)
      /\ Left' = Left /\ Undisturbed' = Undisturbed
  BY <1>1, <1>2, SameParts DEF Left, Undisturbed
<1>4. CASE /\ AtText /\ length = Len(text)
           /\ txBuffer' = SubSeq(text, 1, TxSize) /\ gsmQueue' = <<BufferFull>>
  <2>1. /\ Undisturbed /\ Texting /\ ~udrie /\ readIx = 0 /\ payload = 0 /\ Len(parts) = 1
        /\ BytesOf(1) = text /\ LenOf(1) = Len(text) /\ Len(text) \in TxSize + 2 .. 2 * TxSize
    BY <1>4, AtTextIs
  <2>2. txBuffer' \in Seq(1 .. numbered) /\ Len(txBuffer') = TxSize
    <3>1. TxSize \in Nat /\ TxSize <= Len(text) /\ text \in Seq(1 .. numbered)
      BY <2>1, Constants, Shapes DEF ComTxInv
    <3> QED
      BY <1>4, <3>1, FirstBytes
  <2>3. ComTxTypeOK'
    <3>1. length' \in 0 .. 2 * TxSize /\ Len(txBuffer') <= TxSize
      BY <1>1, <2>2, Constants
    <3>2. gsmQueue' \in Seq(Answers)
      BY <1>4, TheAnswers
    <3>3. txBuffer' \in Seq(1 .. numbered')
      BY <1>2, <2>2
    <3> QED
      BY <1>1, <1>2, <3>1, <3>2, <3>3 DEF ComTxInv, ComTxTypeOK, Answers
  <2>4. AtText'
    <3>1. NothingElse'
      BY <1>1, <1>4 DEF AtText, NothingElse
    <3> QED
      BY <1>1, <1>2, <1>4, <3>1 DEF AtText, BufferFull
  <2>5. OneText'
    BY <1>2, <2>1, <2>4 DEF ComTxInv, OneText, Texting
  <2>6. PartsFit'
    BY <1>1, <1>2, <2>4 DEF ComTxInv, PartsFit
  <2>7. Measured'
    BY <1>1, <2>1, <2>2, Constants DEF Measured
  <2>8. Filled'
    <3>1. ~(LenOf(1) <= TxSize)
      BY <2>1, Constants
    <3> QED
      BY <1>1, <1>3, <1>4, <2>1, <3>1 DEF Filled
  <2>9. FewTokens'
    <3>1. Len(comQueue) + One(comTimer) <= 1 /\ Len(comQueue) \in Nat
      BY <1>4, QueueFacts DEF AtText
    <3>2. Len(parts') = 1 /\ Len(gsmQueue') = 1 /\ One(udrie') = 0 /\ One(comTimer) \in 0 .. 1
      BY <1>1, <1>4, <2>1 DEF One
    <3> DEFINE q == Len(comQueue)
               t == One(comTimer)
    <3>3. Tokens' = 1 + q + 1 + 0 + t /\ q + t <= 1 /\ q \in Nat /\ t \in 0 .. 1
      BY <1>1, <3>1, <3>2 DEF Tokens
    <3> HIDE DEF q, t
    <3>4. Tokens' <= 5
      BY <3>3
    <3> QED
      BY <3>4 DEF FewTokens
  <2> QED
    BY <2>3, <2>5, <2>6, <2>7, <2>8, <2>9 DEF ComTxInv
<1>5. CASE ~AtText /\ ~Undisturbed /\ UNCHANGED <<txBuffer, gsmQueue>>
  <2>1. gsm = "active_idle" /\ Hasty
    BY <1>5 DEF Undisturbed
  <2>2. ComTxTypeOK'
    <3>1. length' \in 0 .. 2 * TxSize
      BY <1>1, Constants
    <3> QED
      BY <1>1, <1>2, <1>5, <3>1 DEF ComTxInv, ComTxTypeOK
  <2>3. OneText'
    BY <2>1, <1>2, <1>5 DEF ComTxInv, OneText, Texting
  <2>4. PartsFit'
    BY <1>1, <1>2, <1>3, <1>5 DEF ComTxInv, PartsFit
  <2>5. Measured'
    <3>1. Len(txBuffer) <= TxSize /\ TxSize \in 1 .. TxSize
      BY Shapes, Constants DEF ComTxInv
    <3> QED
      BY <1>1, <1>3, <1>5, <3>1 DEF ComTxInv, Measured
  <2>6. Filled'
    BY <1>3, <1>5 DEF Filled
  <2>7. FewTokens'
    BY <2>1 DEF FewTokens
  <2> QED
    BY <2>2, <2>3, <2>4, <2>5, <2>6, <2>7 DEF ComTxInv
<1> QED
  BY <1>4, <1>5, CutIs

(* A whole part is copied. *)
LEMMA CopyFirstInv ==
  ASSUME ComTxInv, CopyFirst
  PROVE  ComTxInv' /\ ~AtText
<1>1. /\ parts # <<>> /\ length # 0 /\ ~copied /\ payload = 0 /\ copied' = TRUE
      /\ txBuffer' = Head(parts).bytes /\ ~(length > TxSize)
      /\ UNCHANGED <<payload, readIx, udrie, wire, comQueue, comTimer, gsmQueue, gsmVars,
                     parts, length>>
  BY DEF CopyFirst, TooLong
<1>2. UNCHANGED <<gsm, useFlash, text, numbered, ops>>
  BY <1>1 DEF gsmVars
<1>3. /\ \A i : LenOf(i)' = LenOf(i) /\ BytesOf(i)' = BytesOf(i)
      /\ Left' = Left /\ Undisturbed' = Undisturbed
  BY <1>1, <1>2, SameParts DEF Left, Undisturbed
<1>4. /\ txBuffer' = BytesOf(1) /\ Len(txBuffer') = LenOf(1) /\ BytesOf(1) \in Seq(1 .. numbered)
      /\ LenOf(1) \in Nat /\ length \in 1 .. TxSize /\ LenOf(1) <= length /\ LenOf(1) <= TxSize
  <2>1. txBuffer' = BytesOf(1) /\ Len(txBuffer') = LenOf(1)
    BY <1>1, FirstPart DEF ComTxInv
  <2>2. length \in Nat /\ TxSize \in Nat /\ LenOf(1) \in Nat /\ BytesOf(1) \in Seq(1 .. numbered)
    BY Shapes, Constants, Parts DEF ComTxInv
  <2>3. length >= LenOf(1)
    BY <1>1 DEF ComTxInv, Measured
  <2> QED
    BY <1>1, <2>1, <2>2, <2>3
<1>5. ~AtText
  <2> SUFFICES ASSUME AtText PROVE FALSE
    OBVIOUS
  <2>1. length = Len(text) /\ Len(text) \in TxSize + 2 .. 2 * TxSize
    BY <1>1, AtTextIs
  <2> QED
    BY <1>4, <2>1, Constants
<1>6. ~Texting
  BY <1>1, <1>5, PartsSendable
<1>7. ComTxTypeOK'
  <2>1. Len(txBuffer') <= TxSize /\ txBuffer' \in Seq(1 .. numbered')
    BY <1>2, <1>4
  <2> QED
    BY <1>1, <1>2, <2>1 DEF ComTxInv, ComTxTypeOK
<1>8. OneText'
  BY <1>1, <1>2, <1>6 DEF ComTxInv, OneText, Texting
<1>9. PartsFit'
  BY <1>1, <1>2, <1>3, <1>5 DEF ComTxInv, PartsFit
<1>10. Measured'
  BY <1>1, <1>3, <1>4 DEF ComTxInv, Measured
<1>11. Filled'
  <2> SUFFICES ASSUME Undisturbed PROVE Filled'
    BY <1>3 DEF Filled
  <2>1. length = LenOf(1)
    <3>1. length = payload + LenOf(1)
      BY <1>1 DEF ComTxInv, Measured
    <3> QED
      BY <1>1, <1>4, <3>1
  <2>2. SubSeq(BytesOf(1), 1, LenOf(1)) = BytesOf(1)
    BY <1>4, SubSeqFull DEF LenOf
  <2> QED
    BY <1>1, <1>3, <1>4, <2>1, <2>2 DEF Filled
<1>12. FewTokens'
  BY <1>1, <1>2 DEF ComTxInv, FewTokens, Tokens
<1> QED
  BY <1>5, <1>7, <1>8, <1>9, <1>10, <1>11, <1>12 DEF ComTxInv

(* The part is in the buffer: what is left is one part less.               *)
LEMMA Returned ==
  ASSUME ComTxInv, parts # <<>>, Return, payload' = length, length \in Nat, length <= TxSize,
         UNCHANGED <<gsm, readIx, udrie>>, Len(txBuffer') <= length,
         Undisturbed => Len(txBuffer') = length,
         Undisturbed /\ ~AtText => length <= payload + LenOf(1)
  PROVE  PartsFit' /\ Measured' /\ Filled'
<1>1. parts' = Tail(parts) /\ length' = 0 /\ copied' = FALSE /\ Undisturbed' = Undisturbed
  BY DEF Return, Undisturbed
<1>2. /\ LenOf(1)' = LenOf(2) /\ LenOf(2)' = LenOf(3)
      /\ LenOf(3)' = LenOf(4) /\ LenOf(4)' = 0
      /\ Len(parts') = Len(parts) - 1
      /\ \A i \in DOMAIN parts' : i + 1 \in DOMAIN parts /\ parts'[i] = parts[i + 1]
  BY <1>1, RestOfParts DEF ComTxInv
<1> DEFINE a == LenOf(1)
           b == LenOf(2)
           c == LenOf(3)
           d == LenOf(4)
<1>3. /\ a \in Nat /\ b \in Nat /\ c \in Nat /\ d \in Nat /\ TxSize \in Nat
      /\ payload \in Nat /\ Len(parts) \in Nat
  BY Parts, Shapes, Constants DEF ComTxInv
<1>4. Left' = length + b + c + d + 0 /\ Left = payload + a + b + c + d
  BY <1>2 DEF Left
<1>5. b <= TxSize /\ c <= TxSize /\ d <= TxSize
  <2>1. CASE AtText
    BY <2>1, AtTextIs, <1>3
  <2>2. CASE ~AtText
    <3>1. 2 \in 1 .. 4 /\ 3 \in 1 .. 4 /\ 4 \in 1 .. 4
      OBVIOUS
    <3> QED
      BY <2>2, <3>1 DEF ComTxInv, PartsFit
  <2> QED
    BY <2>1, <2>2
<1>6. PartsFit'
  <2>1. Len(parts') <= 4
    BY <1>2, <1>3 DEF ComTxInv, PartsFit
  <2>2. \A i \in DOMAIN parts' : parts'[i].flash => gsm' # "active_idle"
    BY <1>2 DEF ComTxInv, PartsFit
  <2>3. \A i \in 1 .. 4 : LenOf(i)' <= TxSize
    <3>1. LenOf(1)' <= TxSize /\ LenOf(2)' <= TxSize /\ LenOf(3)' <= TxSize /\ LenOf(4)' <= TxSize
      BY <1>2, <1>3, <1>5
    <3>2. \A i \in 1 .. 4 : i = 1 \/ i = 2 \/ i = 3 \/ i = 4
      OBVIOUS
    <3> QED
      BY <3>1, <3>2
  <2>4. Undisturbed => Left' <= TxSize
    <3>1. CASE AtText
      <4>1. b = 0 /\ c = 0 /\ d = 0
        BY <3>1, AtTextIs
      <4> HIDE DEF a, b, c, d
      <4> QED
        BY <4>1, <1>3, <1>4
    <3>2. CASE ~AtText /\ Undisturbed
      <4>1. Left <= TxSize /\ length <= payload + a
        BY <3>2 DEF ComTxInv, PartsFit
      <4> HIDE DEF a, b, c, d
      <4> QED
        BY <4>1, <1>3, <1>4
    <3> QED
      BY <3>1, <3>2
  <2> QED
    BY <1>1, <2>1, <2>2, <2>3, <2>4 DEF PartsFit
<1>7. Measured'
  <2>1. Undisturbed => ~udrie
    BY DEF ComTxInv, Measured
  <2>2. ~udrie => readIx = 0
    BY DEF ComTxInv, Measured
  <2> QED
    BY <1>1, <2>1, <2>2 DEF Measured
<1>8. Filled'
  BY <1>1 DEF Filled
<1> QED
  BY <1>6, <1>7, <1>8

LEMMA StoreInv ==
  ASSUME ComTxInv, Store
  PROVE  ComTxInv'
<1>1. /\ copied /\ payload' = length /\ comQueue' = Append(comQueue, "SEND_REQUEST")
      /\ parts' = Tail(parts) /\ length' = 0 /\ copied' = FALSE /\ Return
      /\ UNCHANGED <<txBuffer, readIx, udrie, wire, comTimer, gsmQueue, gsmVars>>
  BY DEF Store, Posted, Return
<1>2. UNCHANGED <<gsm, useFlash, text, numbered, ops>>
  BY <1>1 DEF gsmVars
<1>3. length \in 1 .. TxSize /\ Len(txBuffer) <= length /\ parts # <<>>
  <2>1. length \in 1 .. TxSize /\ Len(txBuffer) <= length
    BY <1>1 DEF ComTxInv, Measured
  <2>2. length # 0
    BY <2>1
  <2> QED
    BY <2>1, <2>2 DEF ComTxInv, Measured
<1>4. comQueue' \in Seq(Events) /\ Len(comQueue') = Len(comQueue) + 1
  BY <1>1, Queues DEF ComTxInv, Events
<1>5. /\ parts' \in Seq(PartType) /\ Len(parts') = Len(parts) - 1
  BY <1>1, <1>3, FirstPart DEF ComTxInv
<1>6. ComTxTypeOK'
  <2>1. payload' \in 0 .. TxSize /\ length' \in 0 .. 2 * TxSize
    BY <1>1, <1>3, Constants
  <2> QED
    BY <1>1, <1>2, <1>4, <1>5, <2>1 DEF ComTxInv, ComTxTypeOK, Events, PartType
<1>7. ASSUME Undisturbed
      PROVE  Len(txBuffer) = length /\ (~AtText => length <= payload + LenOf(1))
  <2>1. /\ payload = 0 /\ length = IF LenOf(1) <= TxSize THEN LenOf(1) ELSE TxSize
        /\ txBuffer = SubSeq(BytesOf(1), 1, length)
    BY <1>1, <1>7 DEF ComTxInv, Filled
  <2>2. LenOf(1) \in Nat /\ TxSize \in Nat /\ BytesOf(1) \in Seq(1 .. numbered) /\ length \in Nat
    BY <1>3, Parts, Constants, Shapes DEF ComTxInv
  <2>3. length <= LenOf(1)
    BY <2>1, <2>2
  <2>4. Len(SubSeq(BytesOf(1), 1, length)) = length
    BY <2>2, <2>3, FirstBytes DEF LenOf
  <2> QED
    BY <2>1, <2>2, <2>3, <2>4
<1>8. PartsFit' /\ Measured' /\ Filled'
  <2>1. length \in Nat /\ length <= TxSize
    BY <1>3, Constants
  <2> QED
    BY <1>1, <1>2, <1>3, <1>7, <2>1, Returned
<1>9. OneText'
  <2>1. CASE Texting
    <3>1. AtText
      BY <2>1, <1>3, PartsSendable
    <3>2. parts' = <<>> /\ ~udrie' /\ gsm' = "active_sms_send" /\ NothingElse
          /\ gsmQueue' = <<BufferFull>> /\ Len(text') \in TxSize + 2 .. 2 * TxSize
      BY <3>1, <1>1, <1>2, AtTextIs DEF AtText
    <3>3. OneEvent("SEND_REQUEST")'
      BY <3>2, <1>1, PostQueue
    <3>4. OnTheWay'
      BY <3>2, <3>3 DEF OnTheWay, BufferFull
    <3> QED
      BY <2>1, <3>2, <3>4, <1>2 DEF ComTxInv, OneText, Texting
  <2>2. CASE ~Texting
    BY <2>2, <1>1, <1>2 DEF ComTxInv, OneText, Texting
  <2> QED
    BY <2>1, <2>2
<1>10. FewTokens'
  BY <1>1, <1>4, <1>5, TokensAre DEF ComTxInv, FewTokens, Tokens
<1> QED
  BY <1>6, <1>8, <1>9, <1>10 DEF ComTxInv

LEMMA AppendPartInv ==
  ASSUME ComTxInv, AppendPart
  PROVE  ComTxInv' /\ ~AtText
<1>1. /\ parts # <<>> /\ length # 0 /\ ~copied /\ ~(length > TxSize) /\ payload # 0
      /\ txBuffer' = txBuffer \o Head(parts).bytes
      /\ payload' = length /\ comQueue' = Append(comQueue, "SEND_REQUEST")
      /\ parts' = Tail(parts) /\ length' = 0 /\ copied' = FALSE /\ Return
      /\ UNCHANGED <<readIx, udrie, wire, comTimer, gsmQueue, gsmVars>>
  BY DEF AppendPart, Posted, Return, TooLong
<1>2. UNCHANGED <<gsm, useFlash, text, numbered, ops>>
  BY <1>1 DEF gsmVars
<1>3. ~AtText /\ ~Texting
  BY <1>1, PartsSendable DEF AtText
<1>4. /\ length = payload + LenOf(1) /\ length <= TxSize /\ length \in Nat
      /\ LenOf(1) \in Nat /\ payload \in Nat /\ Len(txBuffer) <= payload /\ Len(txBuffer) \in Nat
      /\ Undisturbed => Len(txBuffer) = payload
  <2>1. length = payload + LenOf(1) /\ Len(txBuffer) <= payload
    BY <1>1 DEF ComTxInv, Measured
  <2>2. length \in Nat /\ TxSize \in Nat /\ LenOf(1) \in Nat /\ payload \in Nat /\ Len(txBuffer) \in Nat
    BY Shapes, Constants, Parts DEF ComTxInv
  <2>3. Undisturbed => Len(txBuffer) = payload
    BY <1>1 DEF ComTxInv, Filled
  <2>4. length <= TxSize
    BY <1>1, <2>2
  <2> QED
    BY <2>1, <2>2, <2>3, <2>4
<1>5. /\ txBuffer' = txBuffer \o BytesOf(1) /\ txBuffer' \in Seq(1 .. numbered)
      /\ Len(txBuffer') = Len(txBuffer) + LenOf(1)
  <2>1. BytesOf(1) = Head(parts).bytes /\ BytesOf(1) \in Seq(1 .. numbered)
        /\ txBuffer \in Seq(1 .. numbered)
    BY <1>1, FirstPart, Parts, Shapes DEF ComTxInv
  <2> QED
    BY <1>1, <2>1, ConcatProperties DEF LenOf
<1>6. Len(txBuffer') <= length /\ (Undisturbed => Len(txBuffer') = length)
  BY <1>4, <1>5
<1>7. comQueue' \in Seq(Events) /\ Len(comQueue') = Len(comQueue) + 1
  BY <1>1, Queues DEF ComTxInv, Events
<1>8. /\ parts' \in Seq(PartType) /\ Len(parts') = Len(parts) - 1
  BY <1>1, FirstPart DEF ComTxInv
<1>9. ComTxTypeOK'
  <2>1. payload' \in 0 .. TxSize /\ length' \in 0 .. 2 * TxSize /\ Len(txBuffer') <= TxSize
    <3>1. Len(txBuffer') \in Nat
      BY <1>4, <1>5
    <3> QED
      BY <1>1, <1>4, <1>6, <3>1, Constants
  <2>2. txBuffer' \in Seq(1 .. numbered')
    BY <1>2, <1>5
  <2> QED
    BY <1>1, <1>2, <1>7, <1>8, <2>1, <2>2 DEF ComTxInv, ComTxTypeOK, Events, PartType
<1>10. PartsFit' /\ Measured' /\ Filled'
  <2>1. length <= payload + LenOf(1)
    BY <1>4
  <2> QED
    BY <1>1, <1>2, <1>4, <1>6, <2>1, Returned
<1>11. OneText'
  BY <1>1, <1>2, <1>3 DEF ComTxInv, OneText, Texting
<1>12. FewTokens'
  BY <1>1, <1>7, <1>8, TokensAre DEF ComTxInv, FewTokens, Tokens
<1> QED
  BY <1>3, <1>9, <1>10, <1>11, <1>12 DEF ComTxInv

-----------------------------------------------------------------------------

LEMMA InitInv == ComTxInit => ComTxInv
<1> SUFFICES ASSUME ComTxInit PROVE ComTxInv
  OBVIOUS
<1>1. /\ payload = 0 /\ txBuffer = <<>> /\ readIx = 0 /\ udrie = FALSE /\ wire = <<>>
      /\ comQueue = <<>> /\ comTimer = TRUE /\ gsmQueue = <<>>
      /\ gsm = "active_idle" /\ useFlash = 0 /\ text = <<>>
      /\ parts = <<>> /\ length = 0 /\ copied = FALSE
      /\ numbered = 0 /\ ops = 0
  BY DEF ComTxInit
<1>2. Len(<<>>) = 0 /\ DOMAIN <<>> = {}
  BY EmptySeq
<1>3. ComTxTypeOK
  <2>1. 0 \in 0 .. TxSize /\ 0 \in 0 .. 2 * TxSize /\ 0 \in 0 .. TxSize + 1 /\ 0 \in 0 .. MaxOps
        /\ 0 <= TxSize /\ 0 \in Nat
    BY Constants
  <2>2. \A S : <<>> \in Seq(S)
    BY EmptySeq
  <2>3. /\ txBuffer \in Seq(1 .. numbered) /\ wire \in Seq(0 .. numbered) /\ text \in Seq(1 .. numbered)
        /\ comQueue \in Seq(Events) /\ gsmQueue \in Seq(Answers) /\ parts \in Seq(PartType)
        /\ Len(txBuffer) <= TxSize
    BY <1>1, <1>2, <2>1, <2>2
  <2>4. /\ payload \in 0 .. TxSize /\ readIx \in 0 .. TxSize /\ useFlash \in 0 .. TxSize + 1
        /\ length \in 0 .. 2 * TxSize /\ numbered \in Nat /\ ops \in 0 .. MaxOps
    BY <1>1, <2>1
  <2>5. /\ udrie \in BOOLEAN /\ comTimer \in BOOLEAN /\ copied \in BOOLEAN
        /\ gsm \in {"active_idle", "active_sms_send", "active_sms_send_support"}
    BY <1>1
  <2> QED
    BY <2>3, <2>4, <2>5 DEF ComTxTypeOK, Events, Answers, PartType
<1>4. OneText
  BY <1>1, <1>2 DEF OneText, Texting
<1>5. \A i : LenOf(i) = 0
  BY <1>1, NoParts
<1>6. Left = 0
  <2>1. Left = 0 + 0 + 0 + 0 + 0
    BY <1>1, <1>5 DEF Left
  <2> QED
    BY <2>1
<1>7. PartsFit
  BY <1>1, <1>2, <1>5, <1>6, Constants DEF PartsFit
<1>8. Measured /\ Filled
  BY <1>1 DEF Measured, Filled
<1>9. FewTokens
  BY <1>1, <1>2 DEF FewTokens, Tokens, One
<1> QED
  BY <1>3, <1>4, <1>7, <1>8, <1>9 DEF ComTxInv

LEMMA NextInv ==
  ASSUME ComTxInv, [ComTxNext]_comTxVars
  PROVE  ComTxInv'
<1>1. CASE ComTxNext
  <2>1. CASE Measure \/ CopyCut \/ CopyFirst \/ Store \/ AppendPart
    BY <2>1, MeasureInv, CopyCutInv, CopyFirstInv, StoreInv, AppendPartInv
  <2>2. CASE \E ends \in Commands : Operation(ends)
    BY <2>2, OperationInv
  <2>3. CASE \E flash \in {b \in BOOLEAN : IF b THEN FlashTexts # {} ELSE RamTexts # {}} :
               SmsSend(flash)
    BY <2>3, SmsSendInv
  <2>4. CASE Prompt \/ BufferFullEvent \/ Continue \/ SendDoneIgnored \/ SmsOver
    BY <2>4, PromptInv, BufferFullEventInv, ContinueInv, SendDoneIgnoredInv, SmsOverInv
  <2>5. CASE ComSend \/ ComSendDone \/ ComTimeout \/ Tick \/ UdreByte \/ UdreEnd
    BY <2>5, ComSendInv, ComSendDoneInv, ComTimeoutInv, TickInv, UdreByteInv, UdreEndInv
  <2> QED
    BY <1>1, <2>1, <2>2, <2>3, <2>4, <2>5 DEF ComTxNext
<1>2. CASE UNCHANGED comTxVars
  <2>1. /\ UNCHANGED <<payload, txBuffer, readIx, udrie, wire>>
        /\ UNCHANGED <<comQueue, comTimer, gsmQueue>>
        /\ UNCHANGED <<gsm, useFlash, text, numbered, ops>> /\ UNCHANGED <<parts, length, copied>>
    BY <1>2 DEF comTxVars, bufferVars, gsmVars, handlerVars
  <2>2. NothingElse' = NothingElse
        /\ OneEvent("SEND_REQUEST")' = OneEvent("SEND_REQUEST")
        /\ OneEvent("SERIAL_SEND_DONE")' = OneEvent("SERIAL_SEND_DONE")
    BY <2>1 DEF NothingElse, OneEvent
  <2>3. OneText' /\ (AtText => AtText')
    BY <2>1, <2>2, TextGoesOn DEF gsmVars
  <2>4. PartsFit' /\ Measured' /\ Filled'
    BY <2>1, <2>3, HandlerKept DEF Undisturbed
  <2>5. ComTxTypeOK'
    BY <2>1 DEF ComTxInv, ComTxTypeOK
  <2>6. FewTokens'
    BY <2>1 DEF ComTxInv, FewTokens, Tokens
  <2> QED
    BY <2>3, <2>4, <2>5, <2>6 DEF ComTxInv
<1> QED
  BY <1>1, <1>2

(* The invariant holds in every run.                                       *)
THEOREM ComTxHolds == ComTxSpec => []ComTxInv
BY InitInv, NextInv, PTL DEF ComTxSpec

(* Whatever is sent, and whenever it is begun, the indices and the         *)
(* handlers' variables have their types, and nothing is written behind the *)
(* end of the transmit buffer.                                             *)
THEOREM ComTxTypesHold == ComTxSpec => []ComTxTypeOK
BY ComTxHolds, PTL DEF ComTxInv

(* When no operation begins while a command goes out, Com's queue of five  *)
(* and the driver's never overflow: the parts of a command, the end of a   *)
(* transmission and the timer together are five events at most.            *)
THEOREM QueuesOfFive == ASSUME ~Hasty PROVE ComTxSpec => []ComQueueHolds
<1>1. ComTxInv => ComQueueHolds
  <2> SUFFICES ASSUME ComTxInv PROVE ComQueueHolds
    OBVIOUS
  <2>1. Tokens <= 5
    BY DEF ComTxInv, FewTokens
  <2>2. /\ Len(parts) \in Nat /\ Len(comQueue) \in Nat /\ Len(gsmQueue) \in Nat
        /\ One(udrie) \in 0 .. 1 /\ One(comTimer) \in 0 .. 1
    BY TokensAre DEF ComTxInv
  <2> QED
    BY <2>1, <2>2 DEF Tokens, ComQueueHolds
<1> QED
  BY <1>1, ComTxHolds, PTL

(* The rest of a text that was cut waits until its first part is out: no   *)
(* SEND_DONE of another transmission is taken for that of the text.        *)
THEOREM RestAlwaysWaits == ComTxSpec => RestWaits
<1>1. ASSUME ComTxInv, [ComTxNext]_comTxVars,
             gsm = "active_sms_send_support", useFlash # 0, useFlash' = 0
      PROVE  payload = 0 /\ ~udrie /\ readIx = 0
  <2>1. useFlash' # useFlash
    BY <1>1
  <2>2. ~UNCHANGED gsmVars /\ ~UNCHANGED comTxVars
    BY <2>1 DEF gsmVars, comTxVars
  <2>3. ComTxNext
    BY <1>1, <2>2
  <2>4. gsm # "active_idle" /\ gsm # "active_sms_send"
    BY <1>1
  <2>5. ~BufferFullEvent
    BY <1>1, <2>4, BufferFullTaken
  <2>6. Continue
    BY <2>1, <2>2, <2>3, <2>4, <2>5
       DEF ComTxNext, Measure, CopyCut, CopyFirst, Store, AppendPart, Operation, SmsSend, Prompt,
           SendDoneIgnored, SmsOver, ComSend, ComSendDone, ComTimeout, Tick, UdreByte, UdreEnd
  <2> QED
    BY <1>1, <2>6, ContinueQuiet DEF Quiet
<1>2. ComTxInv /\ [ComTxNext]_comTxVars
      => [gsm = "active_sms_send_support" /\ useFlash # 0 /\ useFlash' = 0
            => payload = 0 /\ ~udrie /\ readIx = 0]_comTxVars
  BY <1>1
<1> QED
  BY <1>2, ComTxHolds, PTL DEF ComTxSpec, RestWaits

-----------------------------------------------------------------------------
(* The line is a channel. *)

LEMMA PiecesOfConcat ==
  ASSUME NEW S, NEW a \in Seq(S), NEW b \in Seq(S)
  PROVE  /\ SubSeq(a \o b, 1, Len(a)) = a
         /\ SubSeq(a \o b, Len(a) + 1, Len(a) + Len(b)) = b
<1>1. Len(a) \in Nat /\ Len(b) \in Nat
  BY LenProperties
<1>2. CASE a = <<>>
  <2>1. Len(a) = 0 /\ a \o b = b
    BY <1>2, EmptySeq, ConcatEmptySeq
  <2>2. SubSeq(b, 1, 0) = <<>> /\ SubSeq(b, 1, Len(b)) = b
    BY SubSeqEmpty, SubSeqFull
  <2>3. 0 + 1 = 1 /\ 0 + Len(b) = Len(b)
    BY <1>1
  <2> QED
    BY <1>2, <2>1, <2>2, <2>3
<1>3. CASE b = <<>>
  <2>1. Len(b) = 0 /\ a \o b = a
    BY <1>3, EmptySeq, ConcatEmptySeq
  <2>2. SubSeq(a, 1, Len(a)) = a /\ SubSeq(a, Len(a) + 1, Len(a)) = <<>>
    BY <1>1, SubSeqEmpty, SubSeqFull
  <2>3. Len(a) + 0 = Len(a)
    BY <1>1
  <2> QED
    BY <1>3, <2>1, <2>2, <2>3
<1>4. CASE a # <<>> /\ b # <<>>
  <2>1. Len(a) # 0 /\ Len(b) # 0
    BY <1>4, EmptySeq
  <2>2. SubSeq(a \o b, 1, Len(a)) = SubSeq(a, 1, Len(a))
    <3>1. 1 \in 1 .. Len(a) /\ Len(a) \in 1 .. Len(a)
      BY <1>1, <2>1
    <3> QED
      BY <3>1, SubSeqOfConcat1
  <2>3. SubSeq(a \o b, Len(a) + 1, Len(a) + Len(b)) = SubSeq(b, 1, Len(b))
    <3>1. /\ Len(a) + 1 \in Len(a) + 1 .. Len(a) + Len(b)
          /\ Len(a) + Len(b) \in Len(a) + 1 .. Len(a) + Len(b)
          /\ Len(a) + 1 - Len(a) = 1 /\ Len(a) + Len(b) - Len(a) = Len(b)
      BY <1>1, <2>1
    <3>2. SubSeq(a \o b, Len(a) + 1, Len(a) + Len(b))
            = SubSeq(b, Len(a) + 1 - Len(a), Len(a) + Len(b) - Len(a))
      BY <3>1, SubSeqOfConcat2
    <3> QED
      BY <3>1, <3>2
  <2> QED
    BY <2>2, <2>3, SubSeqFull
<1> QED
  BY <1>2, <1>3, <1>4

(* The rest of a text that was cut, while it waits. *)
RestOfText == SubSeq(text, TxSize + 2, Len(text))
RestForm == Rest = IF Texting /\ parts = <<>> THEN RestOfText ELSE <<>>

LEMMA CutAtIs ==
  ASSUME ComTxInv
  PROVE  CutAt = IF Texting /\ parts = <<>> THEN TxSize + 1 ELSE 0
<1>1. copied => parts # <<>>
  BY Constants DEF ComTxInv, Measured
<1>2. CASE Texting /\ parts = <<>>
  <2>1. ~copied /\ useFlash # 0
    BY <1>1, <1>2 DEF Texting
  <2>2. AtText => FALSE
    BY <1>2, AtTextIs
  <2>3. OnTheWay \/ FirstPartOut
    BY <1>2, <2>2 DEF ComTxInv, OneText
  <2>4. CASE gsm = "active_sms_send"
    <3>1. gsmQueue = <<BufferFull>> \/ gsmQueue = <<BufferFull, SendDone>>
      BY <2>3, <2>4 DEF OnTheWay, FirstPartOut
    <3>2. \A i \in DOMAIN gsmQueue : gsmQueue[i].sig = "BUFFER_FULL" <=> i = 1
      BY <3>1, TheAnswers
    <3>3. 1 \in DOMAIN gsmQueue /\ gsmQueue[1] = BufferFull
      BY <3>1
    <3>4. Cuts = {1}
      BY <3>2, <3>3, TheAnswers DEF Cuts
    <3>5. (CHOOSE i \in Cuts : TRUE) = 1
      BY <3>4
    <3> QED
      BY <1>2, <2>1, <3>3, <3>4, <3>5, TheAnswers DEF CutAt
  <2>5. CASE gsm = "active_sms_send_support"
    <3>1. gsm # "active_sms_send"
      BY <2>5
    <3>2. gsmQueue = <<>> \/ gsmQueue = <<SendDone>>
      BY <2>3, <3>1 DEF OnTheWay, FirstPartOut
    <3>3. Cuts = {}
      BY <3>2, TheAnswers DEF Cuts
    <3>4. useFlash = TxSize + 1
      BY <2>1, <2>5 DEF ComTxInv, OneText
    <3> QED
      BY <1>2, <2>1, <2>5, <3>3, <3>4 DEF CutAt
  <2> QED
    BY <1>2, <2>4, <2>5 DEF Texting, ComTxInv, ComTxTypeOK
<1>3. CASE ~(Texting /\ parts = <<>>)
  <2> SUFFICES ASSUME ~copied PROVE CutAt = 0
    BY <1>3 DEF CutAt
  <2>1. Cuts = {}
    <3>1. CASE Texting
      <4>1. AtText
        BY <3>1, <1>3, PartsSendable
      <4>2. gsmQueue = <<>>
        BY <4>1 DEF AtText
      <4> QED
        BY <4>2 DEF Cuts
    <3>2. CASE ~Texting
      BY <3>2 DEF ComTxInv, OneText, Cuts
    <3> QED
      BY <3>1, <3>2
  <2>2. gsm = "active_sms_send_support" => useFlash = 0
    <3>1. ASSUME gsm = "active_sms_send_support", useFlash # 0 PROVE FALSE
      <4>1. Texting /\ gsm # "active_sms_send"
        BY <3>1 DEF ComTxInv, OneText, Texting
      <4>2. AtText
        BY <4>1, <1>3, PartsSendable
      <4> QED
        BY <4>1, <4>2 DEF AtText
    <3> QED
      BY <3>1
  <2> QED
    BY <2>1, <2>2 DEF CutAt
<1> QED
  BY <1>2, <1>3

LEMMA RestIs == ComTxInv => RestForm
<1> SUFFICES ASSUME ComTxInv PROVE RestForm
  OBVIOUS
<1>1. CutAt = IF Texting /\ parts = <<>> THEN TxSize + 1 ELSE 0
  BY CutAtIs
<1>2. TxSize + 1 # 0 /\ TxSize + 1 + 1 = TxSize + 2
  BY Constants
<1> QED
  BY <1>1, <1>2 DEF Rest, RestForm, RestOfText

(* What is in the buffer: the string, until a byte of it has gone out. *)
BufferForm ==
  /\ InBuffer \in Seq(Nat)
  /\ payload <= readIx => InBuffer = <<>>
  /\ readIx = 0 /\ payload # 0 => InBuffer = txBuffer

LEMMA BufferIs == ComTxInv /\ Undisturbed => BufferForm
<1> SUFFICES ASSUME ComTxInv, Undisturbed PROVE BufferForm
  OBVIOUS
<1>1. payload \in Nat /\ readIx \in Nat /\ numbered \in Nat
  BY Shapes DEF ComTxInv
<1>2. txBuffer \in Seq(1 .. numbered) /\ (payload # 0 => Len(txBuffer) = payload)
  BY Shapes DEF ComTxInv, Filled
<1>3. 1 .. numbered \subseteq Nat
  BY <1>1
<1>4. txBuffer \in Seq(Nat)
  BY <1>2, <1>3, SeqWider
<1>5. CASE payload <= readIx
  <2>1. 1 .. payload - readIx = {}
    BY <1>1, <1>5
  <2>2. InBuffer = <<>>
    BY <2>1 DEF InBuffer
  <2>3. readIx = 0 => payload = 0
    BY <1>1, <1>5
  <2>4. <<>> \in Seq(Nat)
    OBVIOUS
  <2> QED
    BY <2>2, <2>3, <2>4 DEF BufferForm
<1>6. CASE ~(payload <= readIx)
  <2>1. payload - readIx \in Nat /\ payload # 0
    BY <1>1, <1>6
  <2>2. Len(txBuffer) = payload
    BY <1>2, <2>1
  <2>3. ASSUME NEW i \in 1 .. payload - readIx
        PROVE  ByteAt(readIx + i) = txBuffer[readIx + i] /\ ByteAt(readIx + i) \in Nat
    <3>1. readIx + i \in 1 .. payload /\ readIx + i <= payload
      BY <1>1, <2>1
    <3>2. readIx + i \in 1 .. Len(txBuffer) /\ readIx + i <= Len(txBuffer)
      BY <2>2, <3>1
    <3>3. txBuffer[readIx + i] \in Nat
      BY <1>4, <3>2, ElementOfSeq
    <3> QED
      BY <3>2, <3>3 DEF ByteAt
  <2>4. [i \in 1 .. payload - readIx |-> ByteAt(readIx + i)] \in Seq(Nat)
    BY <2>1, <2>3, IsASeq
  <2>5. ASSUME readIx = 0 PROVE InBuffer = txBuffer
    <3>1. payload - readIx = payload /\ \A i \in 1 .. payload : readIx + i = i
      BY <1>1, <2>5
    <3>2. \A i \in 1 .. payload : ByteAt(readIx + i) = txBuffer[i]
      BY <2>3, <3>1
    <3>3. InBuffer = [i \in 1 .. payload |-> txBuffer[i]]
      BY <3>1, <3>2 DEF InBuffer
    <3>4. txBuffer \in [1 .. payload -> Nat]
      BY <1>4, <2>2, LenProperties
    <3>5. txBuffer = [i \in 1 .. payload |-> txBuffer[i]]
      BY <3>4
    <3> QED
      BY <3>3, <3>5
  <2> QED
    BY <1>6, <2>4, <2>5 DEF BufferForm, InBuffer
<1> QED
  BY <1>5, <1>6

(* The pieces of what is to be sent. *)
PiecesForm ==
  /\ RestForm /\ BufferForm
  /\ BytesOf(1) \in Seq(Nat) /\ BytesOf(2) \in Seq(Nat)
  /\ BytesOf(3) \in Seq(Nat) /\ BytesOf(4) \in Seq(Nat)
  /\ Rest \in Seq(Nat) /\ Unsent \in Seq(Nat)

LEMMA Five ==
  ASSUME NEW a \in Seq(Nat), NEW b \in Seq(Nat), NEW c \in Seq(Nat), NEW d \in Seq(Nat),
         NEW e \in Seq(Nat)
  PROVE  a \o b \o c \o d \o e \in Seq(Nat)
<1>1. a \o b \in Seq(Nat)
  BY ConcatProperties
<1>2. a \o b \o c \in Seq(Nat)
  BY <1>1, ConcatProperties
<1>3. a \o b \o c \o d \in Seq(Nat)
  BY <1>2, ConcatProperties
<1> QED
  BY <1>3, ConcatProperties

LEMMA PiecesAre == ComTxInv /\ Undisturbed => PiecesForm
<1> SUFFICES ASSUME ComTxInv, Undisturbed PROVE PiecesForm
  OBVIOUS
<1>1. RestForm /\ BufferForm /\ InBuffer \in Seq(Nat)
  BY RestIs, BufferIs DEF BufferForm
<1>2. numbered \in Nat /\ 1 .. numbered \subseteq Nat
  BY Shapes DEF ComTxInv
<1>3. \A i : BytesOf(i) \in Seq(Nat)
  BY <1>2, Parts, SeqWider DEF ComTxInv
<1>4. Rest \in Seq(Nat)
  <2>1. CASE Texting /\ parts = <<>>
    <3>1. Len(text) \in TxSize + 2 .. 2 * TxSize
      BY <2>1 DEF ComTxInv, OneText
    <3>2. text \in Seq(Nat) /\ TxSize + 2 \in Int /\ Len(text) \in Int
      BY <1>2, <3>1, Shapes, SeqWider, Constants DEF ComTxInv
    <3>3. \A i \in TxSize + 2 .. Len(text) : text[i] \in Nat
      <4> TAKE i \in TxSize + 2 .. Len(text)
      <4>1. i \in 1 .. Len(text)
        BY <3>1, Constants
      <4> QED
        BY <3>2, <4>1, ElementOfSeq
    <3>4. RestOfText \in Seq(Nat)
      BY <3>2, <3>3, SubSeqProperties DEF RestOfText
    <3> QED
      BY <1>1, <2>1, <3>4 DEF RestForm
  <2>2. CASE ~(Texting /\ parts = <<>>)
    BY <1>1, <2>2 DEF RestForm
  <2> QED
    BY <2>1, <2>2
<1>5. Unsent \in Seq(Nat)
  <2>1. /\ BytesOf(1) \in Seq(Nat) /\ BytesOf(2) \in Seq(Nat)
        /\ BytesOf(3) \in Seq(Nat) /\ BytesOf(4) \in Seq(Nat)
    BY <1>3
  <2> DEFINE sent == InBuffer \o BytesOf(1) \o BytesOf(2) \o BytesOf(3) \o BytesOf(4)
  <2>2. sent \in Seq(Nat)
    BY <1>1, <2>1, Five
  <2>3. Unsent = sent \o Rest
    BY DEF Unsent
  <2> HIDE DEF sent
  <2> QED
    BY <1>4, <2>2, <2>3, ConcatProperties
<1> QED
  BY <1>1, <1>3, <1>4, <1>5 DEF PiecesForm

LEMMA PiecesNext == ComTxInv' /\ Undisturbed' => PiecesForm'
BY PiecesAre, PTL

-----------------------------------------------------------------------------
(* Steps of the line: bytes are put in behind those in transit, ...        *)
LEMMA MoreIn ==
  ASSUME NEW more \in Seq(Nat), Unsent \in Seq(Nat), Unsent' = Unsent \o more, wire' = wire
  PROVE  TxLine!PutIn
<1>1. Len(Unsent) \in Nat /\ Len(more) \in Nat
  BY LenProperties
<1>2. Len(Unsent') = Len(Unsent) + Len(more)
  BY ConcatProperties
<1>3. SubSeq(Unsent, 1, Len(Unsent)) = Unsent
  BY SubSeqFull
<1>4. SubSeq(Unsent', 1, Len(Unsent)) = Unsent
  BY PiecesOfConcat
<1>5. Len(Unsent) <= Len(Unsent')
  BY <1>1, <1>2
<1>6. TxLine!IsPrefix(Unsent, Unsent')
  BY <1>3, <1>4, <1>5 DEF TxLine!IsPrefix
<1> QED
  BY <1>6 DEF TxLine!PutIn

(* ... or where none are.                                                  *)
LEMMA FirstIn ==
  ASSUME Unsent = <<>>, Unsent' \in Seq(Nat), wire' = wire
  PROVE  TxLine!PutIn
<1> DEFINE more == Unsent'
<1>1. more \in Seq(Nat) /\ <<>> \in Seq(Nat)
  OBVIOUS
<1> HIDE DEF more
<1>2. <<>> \o more = more
  BY <1>1, ConcatEmptySeq
<1>3. Unsent' = Unsent \o more /\ Unsent \in Seq(Nat)
  BY <1>1, <1>2 DEF more
<1> QED
  BY <1>1, <1>3, MoreIn

(* Nothing moves when no piece of what is in transit does. *)
LEMMA UnsentOfNext ==
  ASSUME InBuffer' = InBuffer, \A i : BytesOf(i)' = BytesOf(i), Rest' = Rest
  PROVE  Unsent' = Unsent
BY DEF Unsent

LEMMA NoneIn ==
  ASSUME NEW s \in Seq(Nat)
  PROVE  s \o <<>> = s /\ <<>> \o s = s
BY ConcatEmptySeq

(* Nothing is in transit when a handler of the driver begins to send.      *)
LEMMA NothingBefore ==
  ASSUME ComTxInv, Undisturbed, Quiet, parts = <<>>, ~Texting
  PROVE  Unsent = <<>>
<1>1. PiecesForm /\ \A i : BytesOf(i) = <<>>
  BY PiecesAre, NoParts
<1>2. InBuffer = <<>>
  <2>1. payload <= readIx
    BY DEF Quiet
  <2> QED
    BY <1>1, <2>1 DEF PiecesForm, BufferForm
<1>3. Rest = <<>>
  BY <1>1 DEF PiecesForm, RestForm
<1>4. Unsent = <<>> \o <<>> \o <<>> \o <<>> \o <<>> \o <<>>
  BY <1>1, <1>2, <1>3 DEF Unsent
<1>5. <<>> \o <<>> = <<>>
  BY EmptySeq, ConcatEmptySeq
<1> QED
  BY <1>4, <1>5

(* The operations' commands and the texts are put in. *)
LEMMA SendsIn ==
  ASSUME ComTxInv, ComTxInv', Undisturbed, Undisturbed', Quiet, parts = <<>>, ~Texting, wire' = wire
  PROVE  TxLine!PutIn
<1>1. Unsent = <<>>
  BY NothingBefore
<1>2. Unsent' \in Seq(Nat)
  BY PiecesNext DEF PiecesForm
<1> QED
  BY <1>1, <1>2, FirstIn

LEMMA BeginIn ==
  ASSUME ComTxInv, ~Hasty,
         \/ \E ends \in Commands : Operation(ends)
         \/ \E flash \in BOOLEAN : SmsSend(flash)
         \/ Prompt
  PROVE  TxLine!PutIn
<1>1. Through
  BY DEF Operation, SmsSend, Prompt
<1>2. Quiet /\ parts = <<>>
  BY <1>1, QuietThrough
<1>3. ~Texting
  BY DEF Operation, SmsSend, Prompt, Texting
<1>4. wire' = wire
  BY DEF Operation, SmsSend, Prompt, Sends, bufferVars
<1>5. ComTxInv'
  BY OperationInv, SmsSendInv, PromptInv
<1>6. Undisturbed /\ Undisturbed'
  BY DEF Undisturbed
<1> QED
  BY <1>2, <1>3, <1>4, <1>5, <1>6, SendsIn

(* The rest of a text is where it was; a ^Z is put in behind it.           *)
LEMMA ContinueIn ==
  ASSUME ComTxInv, ~Hasty, Continue
  PROVE  TxLine!PutIn
<1> DEFINE end == Bytes(0, 1)
<1>1. /\ parts = <<>> /\ parts' = <<Part(SubSeq(text, useFlash + 1, Len(text)), TRUE), Part(end, FALSE)>>
      /\ UNCHANGED <<payload, txBuffer, readIx, udrie, wire>>
      /\ useFlash' = 0
  BY DEF Continue, Ready, Sends, bufferVars
<1>2. Texting /\ Quiet /\ useFlash = TxSize + 1
  BY ContinueQuiet
<1>3. ComTxInv' /\ Undisturbed /\ Undisturbed'
  BY ContinueInv DEF Undisturbed
<1>4. PiecesForm /\ PiecesForm'
  BY <1>3, PiecesAre, PiecesNext
<1>5. InBuffer = <<>> /\ InBuffer' = <<>>
  <2>1. payload <= readIx /\ payload' <= readIx'
    BY <1>1, <1>2 DEF Quiet
  <2> QED
    BY <1>4, <2>1 DEF PiecesForm, BufferForm
<1>6. Rest = RestOfText
  BY <1>1, <1>2, <1>4 DEF PiecesForm, RestForm
<1>7. Rest' = <<>>
  BY <1>1, <1>4 DEF PiecesForm, RestForm, Texting
<1>8. SubSeq(text, useFlash + 1, Len(text)) = RestOfText
  <2>1. useFlash + 1 = TxSize + 2
    BY <1>2, Constants
  <2> QED
    BY <2>1 DEF RestOfText
<1> DEFINE rest == RestOfText
<1> HIDE DEF rest, end
<1>9. /\ BytesOf(1)' = rest /\ BytesOf(2)' = end /\ BytesOf(3)' = <<>> /\ BytesOf(4)' = <<>>
  <2> DEFINE t == Part(rest, TRUE)
             u == Part(end, FALSE)
  <2>1. parts' = <<t, u>> /\ t.bytes = rest /\ u.bytes = end
    BY <1>1, <1>8 DEF rest, Part
  <2> HIDE DEF t, u
  <2>2. DOMAIN <<t, u>> = {1, 2} /\ <<t, u>>[1] = t /\ <<t, u>>[2] = u
    OBVIOUS
  <2> QED
    BY <2>1, <2>2 DEF BytesOf
<1>10. \A i : BytesOf(i) = <<>>
  BY <1>1, NoParts
<1>11. /\ rest \in Seq(Nat) /\ end \in Seq(Nat) /\ rest \o end \in Seq(Nat) /\ Unsent \in Seq(Nat)
  <2>1. rest \in Seq(Nat) /\ end \in Seq(Nat) /\ Unsent \in Seq(Nat)
    BY <1>4, <1>6, <1>9 DEF PiecesForm, rest
  <2> QED
    BY <2>1, ConcatProperties
<1>12. Unsent = rest
  <2>1. Unsent = <<>> \o <<>> \o <<>> \o <<>> \o <<>> \o rest
    BY <1>5, <1>6, <1>10 DEF Unsent, rest
  <2>2. <<>> \o <<>> = <<>> /\ <<>> \o rest = rest
    BY <1>11, EmptySeq, ConcatEmptySeq
  <2> QED
    BY <2>1, <2>2
<1>13. Unsent' = rest \o end
  <2>1. Unsent' = <<>> \o rest \o end \o <<>> \o <<>> \o <<>>
    BY <1>5, <1>7, <1>9 DEF Unsent
  <2>2. <<>> \o rest = rest /\ (rest \o end) \o <<>> = rest \o end
    BY <1>11, NoneIn
  <2> QED
    BY <2>1, <2>2
<1>14. Unsent' = Unsent \o end /\ wire' = wire
  BY <1>1, <1>12, <1>13
<1> QED
  BY <1>11, <1>14, MoreIn

(* A byte comes out. *)
LEMMA UdreByteOut ==
  ASSUME ComTxInv, ~Hasty, UdreByte
  PROVE  TxLine!ComeOut
<1> DEFINE h == ByteAt(readIx + 1)
           tail == InBuffer'
<1>1. /\ udrie /\ readIx < payload /\ readIx' = readIx + 1 /\ wire' = Append(wire, h)
      /\ UNCHANGED <<payload, txBuffer, parts, text, gsm, useFlash>>
  BY DEF UdreByte, gsmVars, handlerVars
<1>2. ComTxInv' /\ Undisturbed /\ Undisturbed'
  BY UdreByteInv DEF Undisturbed
<1>3. parts = <<>>
  BY <1>1, <1>2 DEF ComTxInv, Measured
<1>4. PiecesForm /\ PiecesForm'
  BY <1>2, PiecesAre, PiecesNext
<1>5. payload \in Nat /\ readIx \in Nat /\ payload - readIx \in Nat /\ 1 \in 1 .. payload - readIx
  BY <1>1, Shapes DEF ComTxInv
<1>6. InBuffer \in Seq(Nat) /\ tail \in Seq(Nat)
  BY <1>4 DEF PiecesForm, BufferForm
<1>7. /\ DOMAIN InBuffer = 1 .. payload - readIx /\ Len(InBuffer) = payload - readIx
      /\ InBuffer[1] = h
      /\ \A i \in 1 .. payload - readIx : InBuffer[i] = ByteAt(readIx + i)
  <2>1. DOMAIN InBuffer = 1 .. payload - readIx
    BY DEF InBuffer
  <2>2. \A i \in 1 .. payload - readIx : InBuffer[i] = ByteAt(readIx + i)
    BY DEF InBuffer
  <2>3. Len(InBuffer) = payload - readIx
    BY <1>5, <1>6, <2>1, LenProperties
  <2> QED
    BY <1>5, <2>1, <2>2, <2>3
<1>8. h \in Nat /\ <<h>> \in Seq(Nat) /\ Len(<<h>>) = 1 /\ <<h>>[1] = h
  <2>1. h \in Nat
    BY <1>5, <1>6, <1>7, ElementOfSeq
  <2> HIDE DEF h
  <2> QED
    BY <2>1
<1>9. /\ DOMAIN tail = 1 .. payload - (readIx + 1) /\ Len(tail) = payload - (readIx + 1)
      /\ \A i \in 1 .. payload - (readIx + 1) : tail[i] = ByteAt((readIx + 1) + i)
  <2>1. tail = [i \in 1 .. payload - (readIx + 1) |-> ByteAt((readIx + 1) + i)]
    BY <1>1 DEF InBuffer, ByteAt
  <2>2. DOMAIN tail = 1 .. payload - (readIx + 1)
    BY <2>1
  <2>3. Len(tail) = payload - (readIx + 1)
    <3>1. payload - (readIx + 1) \in Nat
      BY <1>5
    <3> HIDE DEF tail
    <3> QED
      BY <1>6, <2>2, <3>1, LenProperties
  <2>4. \A i \in 1 .. payload - (readIx + 1) : tail[i] = ByteAt((readIx + 1) + i)
    BY <2>1
  <2> QED
    BY <2>2, <2>3, <2>4
<1> HIDE DEF h, tail
<1>10. InBuffer = <<h>> \o tail
  <2> DEFINE was == InBuffer
             again == <<h>> \o tail
  <2>1. /\ again \in Seq(Nat) /\ Len(again) = 1 + Len(tail)
        /\ \A i \in 1 .. 1 + Len(tail) : again[i] = IF i <= 1 THEN <<h>>[i] ELSE tail[i - 1]
    BY <1>6, <1>8, ConcatProperties
  <2>2. was \in Seq(Nat) /\ Len(was) = Len(again)
    BY <1>5, <1>6, <1>7, <1>9, <2>1
  <2>3. ASSUME NEW i \in 1 .. Len(was) PROVE was[i] = again[i]
    <3>1. i \in 1 .. payload - readIx /\ i \in 1 .. 1 + Len(tail)
      BY <1>5, <1>7, <1>9
    <3>2. CASE i = 1
      BY <3>1, <3>2, <1>7, <1>8, <2>1
    <3>3. CASE i # 1
      <4>1. i - 1 \in 1 .. payload - (readIx + 1) /\ (readIx + 1) + (i - 1) = readIx + i /\ ~(i <= 1)
        BY <1>5, <3>1, <3>3
      <4>2. tail[i - 1] = ByteAt(readIx + i)
        BY <1>9, <4>1
      <4> QED
        BY <1>7, <2>1, <3>1, <4>1, <4>2
    <3> QED
      BY <3>2, <3>3
  <2> HIDE DEF was, again
  <2>4. was = again
    BY <2>1, <2>2, <2>3, SeqEqual
  <2> QED
    BY <2>4 DEF was, again
<1>11. Rest' = Rest
  BY <1>1, <1>4 DEF PiecesForm, RestForm, RestOfText, Texting
<1>12. Unsent = InBuffer \o Rest /\ Unsent' = tail \o Rest
  <2>1. /\ \A i : BytesOf(i) = <<>> /\ BytesOf(i)' = <<>>
    BY <1>1, <1>3, NoParts, SameParts
  <2>2. /\ Unsent = InBuffer \o <<>> \o <<>> \o <<>> \o <<>> \o Rest
        /\ Unsent' = tail \o <<>> \o <<>> \o <<>> \o <<>> \o Rest
    BY <1>11, <2>1 DEF Unsent, tail
  <2>3. InBuffer \o <<>> = InBuffer /\ tail \o <<>> = tail
    BY <1>6, NoneIn
  <2> QED
    BY <2>2, <2>3
<1>13. Unsent = <<h>> \o Unsent'
  <2> DEFINE p == <<h>>
             r == Rest
  <2>1. p \in Seq(Nat) /\ tail \in Seq(Nat) /\ r \in Seq(Nat)
    BY <1>4, <1>6, <1>8 DEF PiecesForm
  <2>2. Unsent = (p \o tail) \o r /\ Unsent' = tail \o r
    BY <1>10, <1>12
  <2> HIDE DEF p, r
  <2>3. Unsent = p \o Unsent'
    BY <2>1, <2>2, ConcatAssociative, SMTT(30)
  <2> QED
    BY <2>3 DEF p
<1> DEFINE first == <<h>>
           rest == Unsent'
<1>14. first \in Seq(Nat) /\ rest \in Seq(Nat) /\ Len(first) = 1 /\ Unsent = first \o rest
  BY <1>4, <1>8, <1>13 DEF PiecesForm
<1>15. Len(Unsent) = 1 + Len(rest) /\ Len(rest) \in Nat /\ DOMAIN Unsent = 1 .. Len(Unsent)
  <2> HIDE DEF first, rest
  <2>1. Len(first \o rest) = Len(first) + Len(rest) /\ first \o rest \in Seq(Nat)
    BY <1>14, ConcatProperties
  <2> QED
    BY <1>14, <2>1, LenProperties
<1>16. SubSeq(Unsent, 1, 1) = first /\ SubSeq(Unsent, 1 + 1, Len(Unsent)) = rest
  <2> HIDE DEF first, rest
  <2>1. /\ SubSeq(Unsent, 1, Len(first)) = first
        /\ SubSeq(Unsent, Len(first) + 1, Len(first) + Len(rest)) = rest
    BY <1>14, PiecesOfConcat
  <2> QED
    BY <1>14, <1>15, <2>1
<1>17. wire' = wire \o SubSeq(Unsent, 1, 1)
  <2>1. wire \in Seq(Nat)
    <3>1. 0 .. numbered \subseteq Nat /\ wire \in Seq(0 .. numbered)
      BY Shapes DEF ComTxInv, ComTxTypeOK
    <3> QED
      BY <3>1, SeqWider
  <2> QED
    BY <1>1, <1>8, <1>16, <2>1, AppendIsConcat DEF h, first
<1>18. 1 \in DOMAIN Unsent
  BY <1>15
<1>19. Unsent' = SubSeq(Unsent, 1 + 1, Len(Unsent))
  BY <1>16 DEF rest
<1> HIDE DEF first, rest
<1> QED
  BY <1>17, <1>18, <1>19 DEF TxLine!ComeOut

(* send_command_timeout moves a part into the buffer: of a text that does  *)
(* not fit, a byte is lost where it is cut.                                *)
LEMMA StoreMoves ==
  ASSUME ComTxInv, ~Hasty, Store
  PROVE  TxLine!Lost \/ UNCHANGED <<Unsent, wire>>
<1>1. /\ copied /\ payload' = length /\ parts' = Tail(parts) /\ copied' = FALSE
      /\ UNCHANGED <<txBuffer, readIx, udrie, wire, gsm, useFlash, text>>
  BY DEF Store, Return, gsmVars
<1>2. ComTxInv' /\ Undisturbed /\ Undisturbed'
  BY StoreInv DEF Undisturbed
<1>3. PiecesForm /\ PiecesForm'
  BY <1>2, PiecesAre, PiecesNext
<1>4. /\ payload = 0 /\ length = (IF LenOf(1) <= TxSize THEN LenOf(1) ELSE TxSize)
      /\ txBuffer = SubSeq(BytesOf(1), 1, length) /\ length # 0 /\ length \in Nat
  <2>1. length \in 1 .. TxSize
    BY <1>1 DEF ComTxInv, Measured
  <2> QED
    BY <1>1, <1>2, <2>1, Constants DEF ComTxInv, Filled
<1>5. parts # <<>> /\ readIx = 0
  BY <1>2, <1>4 DEF ComTxInv, Measured
<1>6. InBuffer = <<>> /\ InBuffer' = txBuffer
  <2>1. payload <= readIx /\ readIx' = 0 /\ payload' # 0 /\ txBuffer' = txBuffer
    BY <1>1, <1>4, <1>5
  <2> QED
    BY <1>3, <2>1 DEF PiecesForm, BufferForm
<1>7. Rest = <<>>
  BY <1>3, <1>5 DEF PiecesForm, RestForm
<1>8. /\ BytesOf(1)' = BytesOf(2) /\ BytesOf(2)' = BytesOf(3)
      /\ BytesOf(3)' = BytesOf(4) /\ BytesOf(4)' = <<>>
  BY <1>1, <1>5, RestOfParts DEF ComTxInv
<1> DEFINE a == BytesOf(1)
           b == BytesOf(2)
           c == BytesOf(3)
           d == BytesOf(4)
<1>9. a \in Seq(Nat) /\ b \in Seq(Nat) /\ c \in Seq(Nat) /\ d \in Seq(Nat)
  BY <1>3 DEF PiecesForm
<1>10. Unsent = <<>> \o a \o b \o c \o d \o <<>> /\ Unsent' = txBuffer \o b \o c \o d \o <<>> \o Rest'
  BY <1>6, <1>7, <1>8 DEF Unsent
<1>11. LenOf(1) = Len(a)
  BY DEF LenOf
<1>12. CASE AtText
  <2>1. /\ a = text /\ LenOf(2) = 0 /\ LenOf(3) = 0 /\ LenOf(4) = 0
        /\ Len(text) \in TxSize + 2 .. 2 * TxSize /\ Texting /\ Tail(parts) = <<>>
    BY <1>12, AtTextIs
  <2>2. Len(b) = 0 /\ Len(c) = 0 /\ Len(d) = 0
    BY <2>1 DEF LenOf
  <2> HIDE DEF a, b, c, d
  <2>3. b = <<>> /\ c = <<>> /\ d = <<>>
    BY <1>9, <2>2, EmptySeq
  <2>4. Rest' = RestOfText
    <3>1. Texting' /\ parts' = <<>> /\ RestOfText' = RestOfText
      BY <1>1, <2>1 DEF Texting, RestOfText
    <3> QED
      BY <1>3, <3>1 DEF PiecesForm, RestForm
  <2>5. length = TxSize /\ txBuffer = SubSeq(text, 1, TxSize)
    <3>1. ~(Len(a) <= TxSize)
      BY <2>1, Constants
    <3> QED
      BY <1>4, <1>11, <2>1, <3>1 DEF a
  <2>6. Unsent = text /\ text \in Seq(Nat)
    <3>1. text \in Seq(Nat)
      BY <1>9, <2>1
    <3>2. <<>> \o text = text /\ text \o <<>> = text
      BY <3>1, NoneIn
    <3> QED
      BY <1>10, <2>1, <2>3, <3>1, <3>2
  <2>7. Unsent' = txBuffer \o RestOfText
    <3>1. txBuffer \in Seq(Nat)
      BY <1>3, <1>6 DEF PiecesForm, BufferForm
    <3>2. txBuffer \o <<>> = txBuffer
      BY <3>1, NoneIn
    <3> QED
      BY <1>10, <2>3, <2>4, <3>2
  <2> DEFINE n == TxSize + 1
  <2>8. /\ TxSize \in 0 .. Len(Unsent) /\ n \in 0 .. Len(Unsent) /\ TxSize <= n
        /\ n + 1 = TxSize + 2
    BY <2>1, <2>6, Constants
  <2> HIDE DEF n
  <2>9. Unsent' = SubSeq(Unsent, 1, TxSize) \o SubSeq(Unsent, n + 1, Len(Unsent))
    BY <2>5, <2>6, <2>7, <2>8 DEF RestOfText
  <2>10. useFlash # 0 /\ wire' = wire
    BY <1>1, <2>1 DEF Texting
  <2> QED
    BY <2>8, <2>9, <2>10 DEF TxLine!Lost
<1>13. CASE ~AtText
  <2>1. txBuffer = a
    <3>1. LenOf(1) <= TxSize
      BY <1>5, <1>13, PartsSendable
    <3>2. length = Len(a)
      BY <1>4, <1>11, <3>1
    <3>3. txBuffer = SubSeq(a, 1, Len(a))
      BY <1>4, <3>2
    <3> HIDE DEF a
    <3> QED
      BY <1>9, <3>3, SubSeqFull
  <2>2. ~Texting /\ ~Texting'
    BY <1>1, <1>5, <1>13, PartsSendable DEF Texting
  <2>3. Rest' = <<>>
    BY <1>3, <2>2 DEF PiecesForm, RestForm
  <2> HIDE DEF a, b, c, d
  <2>4. <<>> \o a = a
    BY <1>9, NoneIn
  <2> DEFINE all == a \o b \o c \o d
  <2>5. all \in Seq(Nat)
    <3>1. a \o b \in Seq(Nat)
      BY <1>9, ConcatProperties
    <3>2. a \o b \o c \in Seq(Nat)
      BY <1>9, <3>1, ConcatProperties
    <3> QED
      BY <1>9, <3>2, ConcatProperties
  <2>6. Unsent = all \o <<>> /\ Unsent' = (all \o <<>>) \o <<>>
    BY <1>10, <2>1, <2>3, <2>4
  <2> HIDE DEF all
  <2>7. Unsent' = Unsent
    BY <2>5, <2>6, NoneIn
  <2> QED
    BY <1>1, <2>7
<1> QED
  BY <1>12, <1>13

LEMMA AppendMoves ==
  ASSUME ComTxInv, ~Hasty, AppendPart
  PROVE  UNCHANGED <<Unsent, wire>>
<1>1. /\ parts # <<>> /\ length # 0 /\ payload # 0 /\ payload' = length /\ parts' = Tail(parts)
      /\ txBuffer' = txBuffer \o Head(parts).bytes
      /\ UNCHANGED <<readIx, udrie, wire, gsm, useFlash, text>>
  BY DEF AppendPart, Return, gsmVars
<1>2. ComTxInv' /\ Undisturbed /\ Undisturbed' /\ ~AtText
  BY AppendPartInv DEF Undisturbed
<1>3. PiecesForm /\ PiecesForm'
  BY <1>2, PiecesAre, PiecesNext
<1>4. readIx = 0 /\ readIx' = 0 /\ payload' # 0
  BY <1>1, <1>2 DEF ComTxInv, Measured
<1>5. InBuffer = txBuffer /\ InBuffer' = txBuffer'
  BY <1>1, <1>3, <1>4 DEF PiecesForm, BufferForm
<1>6. txBuffer' = txBuffer \o BytesOf(1)
  BY <1>1, FirstPart DEF ComTxInv
<1>7. Rest = <<>> /\ Rest' = <<>>
  <2>1. ~Texting /\ ~Texting'
    BY <1>1, <1>2, PartsSendable DEF Texting
  <2> QED
    BY <1>3, <2>1 DEF PiecesForm, RestForm
<1>8. /\ BytesOf(1)' = BytesOf(2) /\ BytesOf(2)' = BytesOf(3)
      /\ BytesOf(3)' = BytesOf(4) /\ BytesOf(4)' = <<>>
  BY <1>1, RestOfParts DEF ComTxInv
<1> DEFINE a == BytesOf(1)
           b == BytesOf(2)
           c == BytesOf(3)
           d == BytesOf(4)
           all == txBuffer \o a \o b \o c \o d
<1>9. all \in Seq(Nat)
  BY <1>3, <1>5, Five DEF PiecesForm, BufferForm
<1>10. Unsent = all \o <<>> /\ Unsent' = (all \o <<>>) \o <<>>
  BY <1>5, <1>6, <1>7, <1>8 DEF Unsent
<1> HIDE DEF all
<1>11. Unsent' = Unsent
  BY <1>9, <1>10, NoneIn
<1> QED
  BY <1>1, <1>11

(* The other handlers and the ends of transmissions move no byte. *)
LEMMA SameUnsent ==
  ASSUME ComTxInv, ComTxInv', ~Hasty, UNCHANGED <<parts, wire>>,
         (Texting' <=> Texting), Texting => text' = text,
         \/ UNCHANGED <<payload, txBuffer, readIx>>
         \/ payload <= readIx /\ payload' <= readIx'
  PROVE  UNCHANGED <<Unsent, wire>>
<1>1. Undisturbed /\ Undisturbed'
  BY DEF Undisturbed
<1>2. PiecesForm /\ PiecesForm'
  BY <1>1, PiecesAre, PiecesNext
<1>3. InBuffer' = InBuffer
  <2>1. CASE UNCHANGED <<payload, txBuffer, readIx>>
    BY <2>1 DEF InBuffer, ByteAt
  <2>2. CASE payload <= readIx /\ payload' <= readIx'
    BY <1>2, <2>2 DEF PiecesForm, BufferForm
  <2> QED
    BY <2>1, <2>2
<1>4. Rest' = Rest
  BY <1>2 DEF PiecesForm, RestForm, RestOfText
<1> QED
  BY <1>3, <1>4, SameParts, UnsentOfNext

LEMMA OthersMoveNone ==
  ASSUME ComTxInv, ~Hasty,
         \/ Measure \/ CopyCut \/ CopyFirst \/ BufferFullEvent \/ SendDoneIgnored \/ SmsOver
         \/ ComSend \/ ComSendDone \/ ComTimeout \/ Tick \/ UdreEnd
  PROVE  UNCHANGED <<Unsent, wire>>
<1>1. ComTxInv'
  BY MeasureInv, CopyCutInv, CopyFirstInv, BufferFullEventInv, SendDoneIgnoredInv, SmsOverInv,
     ComSendInv, ComSendDoneInv, ComTimeoutInv, TickInv, UdreEndInv
<1>2. UNCHANGED <<parts, wire>>
  BY DEF Measure, CopyCut, CopyFirst, BufferFullEvent, SendDoneIgnored, SmsOver,
         ComSend, ComSendDone, ComTimeout, Tick, UdreEnd, bufferVars, handlerVars
<1>3. CASE BufferFullEvent
  <2>1. Texting /\ useFlash' = TxSize + 1
    BY <1>3, BufferFullTaken
  <2>2. gsm' # "active_idle" /\ text' = text /\ UNCHANGED <<payload, txBuffer, readIx>>
    BY <1>3 DEF BufferFullEvent, bufferVars
  <2>3. Texting'
    BY <2>1, <2>2, Constants DEF Texting
  <2> QED
    BY <1>1, <1>2, <2>1, <2>2, <2>3, SameUnsent
<1>4. CASE SmsOver
  <2>1. ~Texting /\ ~Texting' /\ UNCHANGED <<payload, txBuffer, readIx>>
    BY <1>4, SmsOverInv DEF SmsOver, bufferVars, Texting
  <2> QED
    BY <1>1, <1>2, <2>1, SameUnsent
<1>5. CASE CopyCut \/ CopyFirst
  <2>1. Undisturbed
    BY DEF Undisturbed
  <2>2. payload = 0
    BY <1>5, <2>1, CutIs, AtTextIs DEF CopyFirst
  <2>3. UNCHANGED <<payload, readIx>> /\ UNCHANGED <<gsm, useFlash, text>>
    BY <1>5 DEF CopyCut, CopyFirst, gsmVars
  <2>4. payload <= readIx /\ payload' <= readIx'
    BY <2>2, <2>3, Shapes DEF ComTxInv
  <2> QED
    BY <1>1, <1>2, <2>3, <2>4, SameUnsent DEF Texting
<1>6. CASE UdreEnd
  <2>1. payload <= readIx /\ payload' <= readIx' /\ UNCHANGED <<gsm, useFlash, text>>
    BY <1>6, Shapes DEF ComTxInv, UdreEnd, gsmVars
  <2> QED
    BY <1>1, <1>2, <2>1, SameUnsent DEF Texting
<1>7. CASE Measure \/ SendDoneIgnored \/ ComSend \/ ComSendDone \/ ComTimeout \/ Tick
  <2>1. UNCHANGED <<payload, txBuffer, readIx>> /\ UNCHANGED <<gsm, useFlash, text>>
    BY <1>7 DEF Measure, SendDoneIgnored, ComSend, ComSendDone, ComTimeout, Tick,
                bufferVars, gsmVars
  <2> QED
    BY <1>1, <1>2, <2>1, SameUnsent DEF Texting
<1> QED
  BY <1>3, <1>4, <1>5, <1>6, <1>7

(* The line implements the channel when no operation begins while a        *)
(* command goes out: whatever the interrupts do between the parts of a     *)
(* command and while Com and the driver are told, its bytes go out in      *)
(* order and once, and none is lost but where a text in flash is cut.      *)
THEOREM TransmitterIsAChannel == ASSUME ~Hasty PROVE ComTxSpec => SentAsWritten
<1>1. ComTxInit => TxLine!ChannelInit
  <2> SUFFICES ASSUME ComTxInit PROVE TxLine!ChannelInit
    OBVIOUS
  <2>1. ComTxInv /\ Undisturbed
    BY InitInv DEF Undisturbed
  <2>2. Quiet /\ parts = <<>> /\ ~Texting /\ wire = <<>>
    BY DEF ComTxInit, Quiet, Texting
  <2> QED
    BY <2>1, <2>2, NothingBefore DEF TxLine!ChannelInit
<1>2. ASSUME ComTxInv, [ComTxNext]_comTxVars
      PROVE  [TxLine!PutIn \/ TxLine!ComeOut \/ TxLine!Lost]_(TxLine!channelVars)
  <2>1. CASE ComTxNext
    BY <2>1, <1>2, OthersMoveNone, StoreMoves, AppendMoves, BeginIn, ContinueIn, UdreByteOut
       DEF ComTxNext, TxLine!channelVars
  <2>2. CASE UNCHANGED comTxVars
    <3>1. /\ UNCHANGED <<payload, txBuffer, readIx>> /\ UNCHANGED <<gsm, useFlash, text>>
          /\ UNCHANGED <<parts, wire>>
      BY <2>2 DEF comTxVars, bufferVars, gsmVars, handlerVars
    <3>2. ComTxInv'
      BY <1>2, NextInv
    <3>3. UNCHANGED <<Unsent, wire>>
      BY <1>2, <3>1, <3>2, SameUnsent DEF Texting
    <3> QED
      BY <3>3 DEF TxLine!channelVars
  <2> QED
    BY <1>2, <2>1, <2>2
<1> QED
  BY <1>1, <1>2, ComTxHolds, PTL DEF ComTxSpec, SentAsWritten, TxLine!ChannelSpec
=============================================================================
