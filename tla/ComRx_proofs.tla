----------------------------- MODULE ComRx_proofs -----------------------------
(***************************************************************************)
(* The receiving side of the serial line, proved for every size of the     *)
(* buffer and the UART, every time-out and number of bytes: its types, why *)
(* no byte is stuck, for what causes bytes are lost, and that it           *)
(* implements Channel.  And the parser, proved for every size of the       *)
(* buffer, every table of result codes and every text: what it hears, how  *)
(* far it looks behind the block, and that its loop ends.                  *)
(***************************************************************************)
EXTENDS ComRx, Parser, SequenceTheorems, TLAPS

-----------------------------------------------------------------------------
(* The invariant. *)

(* At most one block is out; its size is in the queue or with its handler. *)
OneBlock ==
  \/ gsmQueue = <<>>
  \/ /\ handler = "none"
     /\ \E n \in 0 .. RxSize : gsmQueue = <<n>>
BlockSize == IF handler = "none" THEN Head(gsmQueue) ELSE size

(* Its bytes are in the buffer and stay there until the buffer is opened.  *)
InBuffer == BlockOut => BlockSize <= writeIx

(* The counter is back before a second block could be announced, and never *)
(* reaches the value that means it is stopped.                             *)
Silence ==
  /\ timeout = Inactive \/ timeout <= 2 * RxTimeout
  /\ ~BlockOut /\ handler = "none" => timeout = Inactive \/ timeout < RxTimeout
  /\ handler = "reopen" => timeout \in {0, Inactive}
  /\ handler \in {"report", "read"} => timeout <= RxTimeout

(* Bytes behind the block came while it was out.                           *)
Late == BlockOut => \A i \in BlockSize + 1 .. writeIx : rxBuffer[i] \in excused

(* Where a byte may be: with the parser, in the buffer, in the UART.       *)
Read(b) == \E i \in DOMAIN parsed : parsed[i] = b
Stored(b) == \E i \in UnreadFrom .. writeIx : rxBuffer[i] = b
Coming(b) == \E i \in DOMAIN uart : uart[i] = b
Accounted == \A b \in 1 .. arrived : Read(b) \/ Stored(b) \/ Coming(b) \/ b \in excused

ComRxInv ==
  /\ ComRxTypeOK /\ OneBlock /\ InBuffer /\ Silence /\ NoneStuck
  /\ Late /\ Accounted

-----------------------------------------------------------------------------

LEMMA Constants ==
  /\ RxSize \in Nat \ {0} /\ RxTimeout \in Nat \ {0} /\ 2 * RxTimeout < Inactive
  /\ UartDepth \in Nat \ {0} /\ MaxBytes \in Nat /\ Inactive = 255
BY ComRxAssumption DEF Inactive

(* A queue of one size. *)
LEMMA OneSize ==
  ASSUME NEW n \in 0 .. RxSize
  PROVE  /\ Append(<<>>, n) = <<n>> /\ Head(<<n>>) = n /\ Tail(<<n>>) = <<>> /\ <<n>> # <<>>
         /\ <<n>> \in Seq(0 .. RxSize) /\ <<>> \in Seq(0 .. RxSize)
OBVIOUS

(* What the proofs use of a state whose types are right.                   *)
LEMMA Shapes ==
  ASSUME ComRxTypeOK
  PROVE  /\ writeIx \in Nat /\ writeIx <= RxSize /\ size \in Nat
         /\ timeout \in Nat /\ arrived \in Nat /\ UnreadFrom \in Nat /\ UnreadFrom >= 1
         /\ Len(uart) \in Nat /\ DOMAIN uart = 1 .. Len(uart)
         /\ Len(parsed) \in Nat /\ DOMAIN parsed = 1 .. Len(parsed)
<1>1. /\ writeIx \in 0 .. RxSize /\ size \in 0 .. RxSize
      /\ timeout \in 0 .. 255 /\ arrived \in 0 .. MaxBytes
      /\ uart \in Seq(1 .. MaxBytes) /\ parsed \in Seq(0 .. MaxBytes)
  BY DEF ComRxTypeOK
<1>2. /\ writeIx \in Nat /\ writeIx <= RxSize /\ size \in Nat
      /\ timeout \in Nat /\ arrived \in Nat
  BY <1>1, Constants
<1>3. UnreadFrom \in Nat /\ UnreadFrom >= 1
  BY <1>2 DEF UnreadFrom
<1>4. /\ Len(uart) \in Nat /\ DOMAIN uart = 1 .. Len(uart)
      /\ Len(parsed) \in Nat /\ DOMAIN parsed = 1 .. Len(parsed)
  BY <1>1, LenProperties
<1> QED
  BY <1>2, <1>3, <1>4

LEMMA InitInv == ComRxInit => ComRxInv
<1> SUFFICES ASSUME ComRxInit PROVE ComRxInv
  OBVIOUS
<1>1. /\ uart = <<>> /\ overrun = FALSE /\ masked = FALSE /\ arrived = 0
      /\ rxBuffer = [i \in 1 .. RxSize |-> 0] /\ writeIx = 0
      /\ timeout = 255 /\ errorFlag = FALSE
      /\ handler = "none" /\ size = 0 /\ gsmQueue = <<>>
      /\ parsed = <<>> /\ excused = {}
  BY DEF ComRxInit, Inactive
<1>2. ComRxTypeOK
  <2>1. rxBuffer \in [1 .. RxSize -> 0 .. MaxBytes]
    BY <1>1, Constants
  <2>2. uart \in Seq(1 .. MaxBytes) /\ Len(uart) <= UartDepth
    BY <1>1, Constants
  <2>3. gsmQueue \in Seq(0 .. RxSize) /\ parsed \in Seq(0 .. MaxBytes)
    BY <1>1
  <2>4. /\ writeIx \in 0 .. RxSize /\ timeout \in 0 .. 255 /\ size \in 0 .. RxSize
        /\ arrived \in 0 .. MaxBytes
    BY <1>1, Constants
  <2> QED
    BY <1>1, <2>1, <2>2, <2>3, <2>4 DEF ComRxTypeOK
<1>3. OneBlock /\ ~BlockOut /\ Silence /\ NoneStuck
  BY <1>1, Constants DEF OneBlock, BlockOut, Silence, NoneStuck
<1>4. InBuffer /\ Late
  BY <1>1, <1>3 DEF InBuffer, Late
<1>5. Accounted
  BY <1>1 DEF Accounted
<1> QED
  BY <1>2, <1>3, <1>4, <1>5 DEF ComRxInv

-----------------------------------------------------------------------------
(* Steps that leave the bytes where they are. *)

LEMMA BytesStay ==
  ASSUME ComRxTypeOK, Accounted, UnreadFrom' \in Nat, UnreadFrom' <= UnreadFrom,
         UNCHANGED <<uart, arrived, rxBuffer, writeIx, parsed, excused>>
  PROVE  Accounted'
<1>1. ASSUME NEW b, Stored(b) PROVE Stored(b)'
  BY <1>1, Shapes DEF Stored
<1>2. ASSUME NEW b PROVE (Read(b) => Read(b)') /\ (Coming(b) => Coming(b)')
  BY DEF Read, Coming
<1> QED
  BY <1>1, <1>2 DEF Accounted

LEMMA SendByteInv ==
  ASSUME ComRxInv, SendByteBegin \/ SendByteEnd
  PROVE  ComRxInv'
<1>1. /\ masked' \in BOOLEAN
      /\ UNCHANGED <<uart, overrun, arrived, rxBuffer, writeIx, timeout, errorFlag, handler,
                     size, gsmQueue, parsed, excused>>
  BY DEF SendByteBegin, SendByteEnd, uartVars, bufferVars
<1>2. ComRxTypeOK'
  BY <1>1 DEF ComRxInv, ComRxTypeOK
<1>3. OneBlock' /\ InBuffer' /\ Silence' /\ NoneStuck' /\ Late'
  BY <1>1 DEF ComRxInv, OneBlock, InBuffer, BlockSize, BlockOut, Silence, NoneStuck, Late
<1>4. Accounted'
  BY <1>1, BytesStay, Shapes DEF ComRxInv, UnreadFrom
<1> QED
  BY <1>2, <1>3, <1>4 DEF ComRxInv

(* The counter gets past the silence only while a block is out, and Tick's *)
(* guard keeps it short of a second one.                                   *)
LEMMA TickInv ==
  ASSUME ComRxInv, Tick
  PROVE  ComRxInv'
<1>1. /\ ComRxTypeOK /\ OneBlock /\ InBuffer /\ Silence /\ NoneStuck /\ Late /\ Accounted
      /\ handler = "none" /\ timeout # Inactive /\ InTime /\ timeout' = timeout + 1
      /\ UNCHANGED <<uart, overrun, arrived, rxBuffer, writeIx, errorFlag, gsmQueue,
                     parsed, excused>>
  BY DEF ComRxInv, Tick, uartVars, bufferVars
<1>2. \/ timeout' # RxTimeout /\ UNCHANGED <<handler, size, masked>>
      \/ timeout' = RxTimeout /\ handler' = "report" /\ masked' = TRUE /\ size' = size
      \/ timeout' = RxTimeout /\ handler' = "post" /\ size' = writeIx /\ masked' = masked
  BY DEF Tick
<1>3. timeout \in Nat /\ timeout <= 2 * RxTimeout
  BY <1>1, Shapes DEF Silence
<1>4. BlockOut => timeout' # RxTimeout /\ timeout < 2 * RxTimeout
  BY <1>1 DEF InTime
<1>5. ~BlockOut => timeout < RxTimeout /\ gsmQueue = <<>>
  BY <1>1 DEF BlockOut, Silence
<1>6. timeout' \in Nat /\ timeout' <= 2 * RxTimeout /\ timeout' # Inactive
  BY <1>1, <1>3, <1>4, <1>5, Constants
<1>7. ComRxTypeOK'
  <2>1. timeout' \in 0 .. 255
    BY <1>6, Constants
  <2>2. size' \in 0 .. RxSize /\ masked' \in BOOLEAN
        /\ handler' \in {"none", "report", "read", "post", "parse", "astray", "reopen"}
    BY <1>1, <1>2 DEF ComRxTypeOK
  <2> QED
    BY <1>1, <2>1, <2>2 DEF ComRxTypeOK
<1>8. OneBlock' /\ InBuffer' /\ NoneStuck' /\ Late'
  <2>1. CASE BlockOut
    <3>1. UNCHANGED <<handler, size>> /\ BlockOut' /\ BlockSize' = BlockSize
      BY <2>1, <1>1, <1>2, <1>4 DEF BlockOut, BlockSize
    <3>2. OneBlock'
      BY <3>1, <1>1 DEF OneBlock
    <3>3. NoneStuck' /\ InBuffer'
      BY <2>1, <3>1, <1>1, <1>6 DEF InBuffer, NoneStuck
    <3>4. Late'
      BY <2>1, <3>1, <1>1 DEF Late
    <3> QED
      BY <3>2, <3>3, <3>4
  <2>2. CASE ~BlockOut
    <3>1. gsmQueue' = <<>> /\ handler' \in {"none", "report", "post"}
          /\ (handler' = "post" => size' = writeIx)
      BY <1>1, <1>2, <1>5, <2>2
    <3>2. (BlockOut' => BlockSize' = writeIx') /\ writeIx' = writeIx /\ writeIx \in Nat
      BY <3>1, <1>1, Shapes DEF BlockOut, BlockSize
    <3>3. writeIx + 1 .. writeIx = {}
      BY <3>2
    <3> QED
      BY <3>1, <3>2, <3>3, <1>1, <1>6 DEF OneBlock, InBuffer, NoneStuck, Late
  <2> QED
    BY <2>1, <2>2
<1>9. Silence'
  <2>1. CASE BlockOut
    BY <2>1, <1>1, <1>2, <1>4, <1>6 DEF BlockOut, Silence
  <2>2. CASE ~BlockOut
    <3>1. \/ timeout' < RxTimeout /\ handler' = "none"
          \/ timeout' = RxTimeout /\ handler' \in {"report", "post"}
      BY <2>2, <1>1, <1>2, <1>3, <1>5, Constants
    <3> QED
      BY <3>1, <1>6, Constants DEF BlockOut, Silence
  <2> QED
    BY <2>1, <2>2
<1>10. UnreadFrom' = UnreadFrom
  BY <1>1, <1>2 DEF UnreadFrom
<1>11. Accounted'
  BY <1>1, <1>10, BytesStay, Shapes
<1> QED
  BY <1>7, <1>8, <1>9, <1>11 DEF ComRxInv

LEMMA ReportedInv ==
  ASSUME ComRxInv, Reported
  PROVE  ComRxInv'
<1>1. /\ ComRxTypeOK /\ OneBlock /\ InBuffer /\ Silence /\ NoneStuck /\ Late /\ Accounted
      /\ handler = "report" /\ handler' = "read" /\ errorFlag' = FALSE
      /\ UNCHANGED <<uart, overrun, masked, arrived, rxBuffer, writeIx, timeout, size,
                     gsmQueue, parsed, excused>>
  BY DEF ComRxInv, Reported, uartVars, bufferVars
<1>2. gsmQueue = <<>>
  BY <1>1 DEF OneBlock
<1>3. ComRxTypeOK'
  BY <1>1 DEF ComRxTypeOK
<1>4. ~BlockOut'
  BY <1>1, <1>2 DEF BlockOut
<1>5. OneBlock' /\ InBuffer' /\ Silence' /\ NoneStuck' /\ Late'
  BY <1>1, <1>2, <1>4 DEF OneBlock, InBuffer, Silence, NoneStuck, Late
<1>6. Accounted'
  BY <1>1, BytesStay, Shapes DEF UnreadFrom
<1> QED
  BY <1>3, <1>5, <1>6 DEF ComRxInv

(* What is announced is all that has come.                                 *)
LEMMA ReadSizeInv ==
  ASSUME ComRxInv, ReadSize
  PROVE  ComRxInv'
<1>1. /\ ComRxTypeOK /\ OneBlock /\ InBuffer /\ Silence /\ NoneStuck /\ Late /\ Accounted
      /\ handler = "read" /\ handler' = "post" /\ size' = writeIx
      /\ UNCHANGED <<uart, overrun, masked, arrived, rxBuffer, writeIx, timeout, errorFlag,
                     gsmQueue, parsed, excused>>
  BY DEF ComRxInv, ReadSize, uartVars, bufferVars
<1>2. gsmQueue = <<>>
  BY <1>1 DEF OneBlock
<1>3. ComRxTypeOK'
  BY <1>1 DEF ComRxTypeOK
<1>4. BlockSize' = writeIx' /\ writeIx' = writeIx /\ writeIx \in Nat
  BY <1>1, Shapes DEF BlockSize
<1>5. BlockSize' + 1 .. writeIx' = {}
  BY <1>4
<1>6. OneBlock' /\ InBuffer' /\ Silence' /\ NoneStuck' /\ Late'
  BY <1>1, <1>2, <1>4, <1>5 DEF OneBlock, InBuffer, Silence, NoneStuck, Late, BlockOut
<1>7. Accounted'
  BY <1>1, BytesStay, Shapes DEF UnreadFrom
<1> QED
  BY <1>3, <1>6, <1>7 DEF ComRxInv

LEMMA AnnounceInv ==
  ASSUME ComRxInv, Announce
  PROVE  ComRxInv'
<1>1. /\ ComRxTypeOK /\ OneBlock /\ InBuffer /\ Silence /\ NoneStuck /\ Late /\ Accounted
      /\ handler = "post" /\ handler' = "none" /\ gsmQueue' = Append(gsmQueue, size)
      /\ UNCHANGED <<uart, overrun, masked, arrived, rxBuffer, writeIx, timeout, errorFlag,
                     size, parsed, excused>>
  BY DEF ComRxInv, Announce, uartVars, bufferVars
<1>2. gsmQueue = <<>> /\ size \in 0 .. RxSize
  BY <1>1 DEF OneBlock, ComRxTypeOK
<1>3. gsmQueue' = <<size>> /\ Head(gsmQueue') = size /\ gsmQueue' # <<>>
      /\ gsmQueue' \in Seq(0 .. RxSize)
  BY <1>1, <1>2, OneSize
<1>4. ComRxTypeOK'
  BY <1>1, <1>3 DEF ComRxTypeOK
<1>5. BlockOut /\ BlockOut' /\ BlockSize = size /\ BlockSize' = size
  BY <1>1, <1>3 DEF BlockOut, BlockSize
<1>6. OneBlock' /\ InBuffer' /\ Silence' /\ NoneStuck' /\ Late'
  BY <1>1, <1>2, <1>3, <1>5 DEF OneBlock, InBuffer, Silence, NoneStuck, Late
<1>7. Accounted'
  BY <1>1, BytesStay, Shapes DEF UnreadFrom
<1> QED
  BY <1>4, <1>6, <1>7 DEF ComRxInv

LEMMA ParseBeginInv ==
  ASSUME ComRxInv, ParseBegin
  PROVE  ComRxInv'
<1>1. /\ ComRxTypeOK /\ OneBlock /\ InBuffer /\ Silence /\ NoneStuck /\ Late /\ Accounted
      /\ handler = "none" /\ handler' = "parse" /\ gsmQueue # <<>>
      /\ size' = Head(gsmQueue) /\ gsmQueue' = Tail(gsmQueue)
      /\ UNCHANGED <<uart, overrun, masked, arrived, rxBuffer, writeIx, timeout, errorFlag,
                     parsed, excused>>
  BY DEF ComRxInv, ParseBegin, uartVars, bufferVars
<1>2. PICK n \in 0 .. RxSize : gsmQueue = <<n>>
  BY <1>1 DEF OneBlock
<1>3. size' = n /\ gsmQueue' = <<>> /\ gsmQueue' \in Seq(0 .. RxSize)
  BY <1>1, <1>2, OneSize
<1>4. ComRxTypeOK'
  BY <1>1, <1>3 DEF ComRxTypeOK
<1>5. BlockOut /\ BlockOut' /\ BlockSize = n /\ BlockSize' = n
  BY <1>1, <1>2, <1>3, OneSize DEF BlockOut, BlockSize
<1>6. OneBlock' /\ InBuffer' /\ Silence' /\ Late'
  BY <1>1, <1>3, <1>5 DEF OneBlock, InBuffer, Silence, Late
<1>7. NoneStuck'
  BY <1>1 DEF NoneStuck
<1>8. Accounted'
  BY <1>1, BytesStay, Shapes DEF UnreadFrom
<1> QED
  BY <1>4, <1>6, <1>7, <1>8 DEF ComRxInv

LEMMA AstrayInv ==
  ASSUME ComRxInv, Astray
  PROVE  ComRxInv'
<1>1. /\ ComRxTypeOK /\ OneBlock /\ InBuffer /\ Silence /\ NoneStuck /\ Late /\ Accounted
      /\ handler = "parse" /\ handler' = "astray"
      /\ UNCHANGED <<uart, overrun, masked, arrived, rxBuffer, writeIx, timeout, errorFlag,
                     size, gsmQueue, parsed, excused>>
  BY DEF ComRxInv, Astray, uartVars, bufferVars
<1>2. ComRxTypeOK'
  BY <1>1 DEF ComRxTypeOK
<1>3. BlockOut /\ BlockOut' /\ BlockSize = size /\ BlockSize' = size
  BY <1>1 DEF BlockOut, BlockSize
<1>4. OneBlock' /\ InBuffer' /\ Silence' /\ NoneStuck' /\ Late'
  BY <1>1, <1>3 DEF OneBlock, InBuffer, Silence, NoneStuck, Late
<1>5. Accounted'
  BY <1>1, BytesStay, Shapes DEF UnreadFrom
<1> QED
  BY <1>2, <1>4, <1>5 DEF ComRxInv

-----------------------------------------------------------------------------
(* Steps that move bytes. *)

(* The byte that comes in is in the UART or one too many.                  *)
LEMMA ArrivesInv ==
  ASSUME ComRxInv, Arrives
  PROVE  ComRxInv'
<1>1. /\ ComRxTypeOK /\ OneBlock /\ InBuffer /\ Silence /\ NoneStuck /\ Late /\ Accounted
      /\ arrived < MaxBytes /\ arrived' = arrived + 1
      /\ UNCHANGED <<masked, rxBuffer, writeIx, timeout, errorFlag, handler, size, gsmQueue,
                     parsed>>
  BY DEF ComRxInv, Arrives, bufferVars
<1>2. arrived' \in 1 .. MaxBytes /\ arrived \in Nat
  BY <1>1, Shapes, Constants
<1>3. \/ /\ Len(uart) < UartDepth
         /\ uart' = Append(uart, arrived') /\ UNCHANGED <<overrun, excused>>
      \/ overrun' = TRUE /\ excused' = excused \cup {arrived'} /\ uart' = uart
  BY DEF Arrives
<1>4. excused \subseteq excused'
  BY <1>3
<1>5. OneBlock' /\ InBuffer' /\ Silence' /\ NoneStuck' /\ Late'
  BY <1>1, <1>4 DEF OneBlock, InBuffer, BlockSize, BlockOut, Silence, NoneStuck, Late
<1>6. /\ uart' \in Seq(1 .. MaxBytes) /\ Len(uart') <= UartDepth
      /\ overrun' \in BOOLEAN /\ excused' \subseteq 1 .. MaxBytes
  <2>1. CASE uart' = uart
    BY <1>1, <1>2, <1>3, <2>1 DEF ComRxTypeOK
  <2>2. CASE /\ Len(uart) < UartDepth
             /\ uart' = Append(uart, arrived') /\ UNCHANGED <<overrun, excused>>
    <3>1. uart \in Seq(1 .. MaxBytes)
      BY <1>1 DEF ComRxTypeOK
    <3>2. uart' \in Seq(1 .. MaxBytes) /\ Len(uart') = Len(uart) + 1 /\ Len(uart) \in Nat
      BY <3>1, <2>2, <1>2, AppendProperties, LenProperties
    <3> QED
      BY <3>2, <2>2, <1>1, Constants DEF ComRxTypeOK
  <2> QED
    BY <1>3, <2>1, <2>2
<1>7. ComRxTypeOK'
  <2>1. arrived' \in 0 .. MaxBytes
    BY <1>2
  <2> QED
    BY <1>1, <1>6, <2>1 DEF ComRxTypeOK
<1>8. ASSUME NEW b PROVE (Read(b) => Read(b)') /\ (Stored(b) => Stored(b)')
  BY <1>1 DEF Read, Stored, UnreadFrom
<1>9. ASSUME NEW b
      PROVE  /\ Coming(b) => Coming(b)'
             /\ b = arrived' => Coming(b)' \/ b \in excused'
  <2>1. CASE overrun' = TRUE /\ excused' = excused \cup {arrived'} /\ uart' = uart
    BY <2>1 DEF Coming
  <2>2. CASE /\ Len(uart) < UartDepth
             /\ uart' = Append(uart, arrived') /\ UNCHANGED <<overrun, excused>>
    <3>1. uart \in Seq(1 .. MaxBytes)
      BY <1>1 DEF ComRxTypeOK
    <3>2. /\ DOMAIN uart' = 1 .. Len(uart) + 1 /\ Len(uart) \in Nat /\ DOMAIN uart = 1 .. Len(uart)
          /\ \A i \in 1 .. Len(uart) : uart'[i] = uart[i]
          /\ uart'[Len(uart) + 1] = arrived'
      BY <3>1, <2>2, <1>2, AppendProperties, LenProperties
    <3> QED
      BY <3>2 DEF Coming
  <2> QED
    BY <1>3, <2>1, <2>2
<1>10. Accounted'
  <2> SUFFICES ASSUME NEW b \in 1 .. arrived'
               PROVE  Read(b)' \/ Stored(b)' \/ Coming(b)' \/ b \in excused'
    BY DEF Accounted
  <2>1. b \in 1 .. arrived \/ b = arrived'
    BY <1>1, <1>2
  <2> QED
    BY <2>1, <1>1, <1>4, <1>8, <1>9 DEF Accounted
<1> QED
  BY <1>5, <1>7, <1>10 DEF ComRxInv

(* The interrupt winds the counter back; what it stores behind a block, or *)
(* finds no room for, it may lose.                                         *)
LEMMA RxIsrInv ==
  ASSUME ComRxInv, RxIsr
  PROVE  ComRxInv'
<1>1. /\ ComRxTypeOK /\ OneBlock /\ InBuffer /\ Silence /\ NoneStuck /\ Late /\ Accounted
      /\ uart # <<>> /\ uart' = Tail(uart) /\ timeout' = 0
      /\ errorFlag' = (overrun \/ errorFlag) /\ overrun' = FALSE
      /\ UNCHANGED <<masked, handler, size, gsmQueue, arrived, parsed>>
  BY DEF ComRxInv, RxIsr
<1>2. \/ /\ writeIx < RxSize
         /\ rxBuffer' = [rxBuffer EXCEPT ![writeIx + 1] = Head(uart)]
         /\ writeIx' = writeIx + 1
      \/ ~(writeIx < RxSize) /\ UNCHANGED <<rxBuffer, writeIx>>
  BY DEF RxIsr, bufferVars
<1>3. /\ excused' = excused \/ excused' = excused \cup {Head(uart)}
      /\ writeIx = RxSize \/ BlockOut => Head(uart) \in excused'
  BY DEF RxIsr
<1>4. /\ uart \in Seq(1 .. MaxBytes) /\ Head(uart) \in 1 .. MaxBytes
      /\ uart' \in Seq(1 .. MaxBytes) /\ Len(uart') = Len(uart) - 1 /\ Len(uart) >= 1
      /\ Len(uart) \in Nat /\ Head(uart) = uart[1]
      /\ \A i \in 1 .. Len(uart') : uart'[i] = uart[i + 1]
      /\ DOMAIN uart = 1 .. Len(uart) /\ DOMAIN uart' = 1 .. Len(uart) - 1
  <2>1. uart \in Seq(1 .. MaxBytes)
    BY <1>1 DEF ComRxTypeOK
  <2>2. /\ Head(uart) \in 1 .. MaxBytes /\ Tail(uart) \in Seq(1 .. MaxBytes)
        /\ Len(Tail(uart)) = Len(uart) - 1
        /\ \A i \in 1 .. Len(Tail(uart)) : Tail(uart)[i] = uart[i + 1]
    BY <2>1, <1>1, HeadTailProperties
  <2>3. Len(uart) \in Nat /\ Len(uart) # 0 /\ Head(uart) = uart[1]
    BY <2>1, <1>1, EmptySeq, LenProperties
  <2>4. DOMAIN uart = 1 .. Len(uart) /\ DOMAIN Tail(uart) = 1 .. Len(Tail(uart))
    BY <2>1, <2>2, LenProperties
  <2> QED
    BY <2>1, <2>2, <2>3, <2>4, <1>1
<1>5. /\ writeIx \in Nat /\ writeIx <= RxSize /\ writeIx' \in Nat /\ writeIx' <= RxSize
      /\ writeIx <= writeIx'
  BY <1>1, <1>2, Shapes, Constants
<1>6. /\ rxBuffer' \in [1 .. RxSize -> 0 .. MaxBytes]
      /\ \A i \in 1 .. writeIx : rxBuffer'[i] = rxBuffer[i]
      /\ writeIx' = writeIx \/ /\ writeIx' = writeIx + 1
                               /\ rxBuffer'[writeIx'] = Head(uart)
  <2>1. rxBuffer \in [1 .. RxSize -> 0 .. MaxBytes]
    BY <1>1 DEF ComRxTypeOK
  <2>2. Head(uart) \in 0 .. MaxBytes
    BY <1>4
  <2>3. CASE ~(writeIx < RxSize) /\ UNCHANGED <<rxBuffer, writeIx>>
    BY <2>1, <2>3
  <2>4. CASE /\ writeIx < RxSize
             /\ rxBuffer' = [rxBuffer EXCEPT ![writeIx + 1] = Head(uart)]
             /\ writeIx' = writeIx + 1
    <3>1. writeIx + 1 \in 1 .. RxSize /\ \A i \in 1 .. writeIx : i \in 1 .. RxSize /\ i # writeIx + 1
      BY <2>4, <1>5, Constants
    <3> QED
      BY <2>1, <2>2, <2>4, <3>1
  <2> QED
    BY <1>2, <2>3, <2>4
<1>7. ComRxTypeOK'
  <2>1. Len(uart') <= UartDepth
    BY <1>1, <1>4, Constants DEF ComRxTypeOK
  <2>2. overrun' \in BOOLEAN /\ errorFlag' \in BOOLEAN /\ excused' \subseteq 1 .. MaxBytes
    BY <1>1, <1>3, <1>4 DEF ComRxTypeOK
  <2>3. writeIx' \in 0 .. RxSize /\ timeout' \in 0 .. 255
    BY <1>1, <1>5, Constants
  <2> QED
    BY <1>1, <1>4, <1>6, <2>1, <2>2, <2>3 DEF ComRxTypeOK
<1>8. (BlockOut' <=> BlockOut) /\ BlockSize' = BlockSize
  BY <1>1 DEF BlockOut, BlockSize
<1>9. BlockOut => BlockSize \in Nat
  <2>1. gsmQueue # <<>> => Head(gsmQueue) \in 0 .. RxSize
    BY <1>1, OneSize DEF OneBlock
  <2> QED
    BY <2>1, <1>1, Shapes, Constants DEF BlockOut, BlockSize
<1>10. InBuffer'
  BY <1>1, <1>5, <1>8, <1>9 DEF InBuffer
<1>11. OneBlock' /\ Silence' /\ NoneStuck'
  BY <1>1, <1>8, Constants DEF OneBlock, Silence, NoneStuck
<1>12. Late'
  <2> SUFFICES ASSUME BlockOut, NEW i \in BlockSize + 1 .. writeIx'
               PROVE  rxBuffer'[i] \in excused'
    BY <1>8 DEF Late
  <2>1. i \in Nat /\ (i \in BlockSize + 1 .. writeIx \/ (i = writeIx' /\ writeIx' = writeIx + 1))
    BY <1>5, <1>6, <1>9
  <2>2. CASE i \in BlockSize + 1 .. writeIx
    <3>1. i \in 1 .. writeIx
      BY <2>2, <1>5, <1>9
    <3> QED
      BY <3>1, <2>2, <1>1, <1>3, <1>6 DEF Late
  <2>3. CASE i = writeIx' /\ writeIx' = writeIx + 1
    BY <2>3, <1>3, <1>5, <1>6
  <2> QED
    BY <2>1, <2>2, <2>3
<1>13. UnreadFrom' = UnreadFrom /\ UnreadFrom \in Nat /\ UnreadFrom >= 1
  BY <1>1, Shapes DEF UnreadFrom
<1>14. BlockOut => UnreadFrom <= writeIx + 1
  BY <1>1, <1>5, <1>9, Shapes DEF InBuffer, UnreadFrom, BlockSize, BlockOut
<1>15. UnreadFrom <= writeIx + 1
  BY <1>14, <1>5, Shapes DEF BlockOut, UnreadFrom
<1>16. ASSUME NEW b
       PROVE  /\ Read(b) => Read(b)'
              /\ Stored(b) => Stored(b)'
              /\ Coming(b) => Coming(b)' \/ b = Head(uart)
              /\ b = Head(uart) => Stored(b)' \/ b \in excused'
  <2>1. Read(b) => Read(b)'
    BY <1>1 DEF Read
  <2>2. Stored(b) => Stored(b)'
    <3> SUFFICES ASSUME NEW i \in UnreadFrom .. writeIx, rxBuffer[i] = b PROVE Stored(b)'
      BY DEF Stored
    <3>1. i \in UnreadFrom .. writeIx' /\ i \in 1 .. writeIx
      BY <1>5, <1>13
    <3> QED
      BY <3>1, <1>6, <1>13 DEF Stored
  <2>3. Coming(b) => Coming(b)' \/ b = Head(uart)
    <3> SUFFICES ASSUME NEW i \in 1 .. Len(uart), uart[i] = b, i # 1 PROVE Coming(b)'
      BY <1>4 DEF Coming
    <3>1. i - 1 \in 1 .. Len(uart) - 1 /\ (i - 1) + 1 = i
      BY <1>4
    <3>2. uart'[i - 1] = b
      BY <3>1, <1>4
    <3> QED
      BY <3>1, <3>2, <1>4 DEF Coming
  <2>4. b = Head(uart) => Stored(b)' \/ b \in excused'
    <3>1. CASE writeIx' = writeIx + 1 /\ rxBuffer'[writeIx'] = Head(uart)
      <4>1. writeIx' \in UnreadFrom' .. writeIx'
        BY <3>1, <1>5, <1>13, <1>15
      <4> QED
        BY <4>1, <3>1 DEF Stored
    <3>2. CASE writeIx' = writeIx
      BY <3>2, <1>2, <1>3, <1>5, Constants
    <3> QED
      BY <3>1, <3>2, <1>6
  <2> QED
    BY <2>1, <2>2, <2>3, <2>4
<1>17. Accounted'
  BY <1>1, <1>3, <1>16 DEF Accounted
<1> QED
  BY <1>7, <1>10, <1>11, <1>12, <1>17 DEF ComRxInv

(* The block, as it stands when the parser is done with it.                *)
LEMMA BlockBytes ==
  ASSUME ComRxInv, handler \in {"parse", "astray"}
  PROVE  /\ SubSeq(rxBuffer, 1, size) \in Seq(0 .. MaxBytes)
         /\ Len(SubSeq(rxBuffer, 1, size)) = size
         /\ \A i \in 1 .. size : SubSeq(rxBuffer, 1, size)[i] = rxBuffer[i]
         /\ size \in Nat /\ size <= writeIx
<1>1. /\ rxBuffer \in [1 .. RxSize -> 0 .. MaxBytes] /\ size \in Nat /\ size <= writeIx
      /\ writeIx \in Nat /\ writeIx <= RxSize
  BY Shapes DEF ComRxInv, ComRxTypeOK, InBuffer, BlockOut, BlockSize
<1>2. \A i \in 1 .. size : rxBuffer[i] \in 0 .. MaxBytes
  BY <1>1, Constants
<1> DEFINE whole == SubSeq(rxBuffer, 1, size)
<1>3. /\ whole \in Seq(0 .. MaxBytes) /\ Len(whole) = IF 1 <= size THEN size - 1 + 1 ELSE 0
      /\ \A i \in 1 .. size - 1 + 1 : whole[i] = rxBuffer[1 + i - 1]
  BY <1>1, <1>2, SubSeqProperties
<1> HIDE DEF whole
<1>4. Len(whole) = size
  BY <1>1, <1>3
<1>5. ASSUME NEW i \in 1 .. size PROVE whole[i] = rxBuffer[i]
  <2>1. i \in 1 .. size - 1 + 1 /\ 1 + i - 1 = i
    BY <1>1
  <2> QED
    BY <1>3, <2>1
<1> QED
  BY <1>1, <1>3, <1>4, <1>5 DEF whole

(* The parser is done with its block.                                      *)
LEMMA ReopenInv ==
  ASSUME ComRxInv, Reopen
  PROVE  ComRxInv'
<1> DEFINE whole == SubSeq(rxBuffer, 1, size)
<1>1. /\ ComRxTypeOK /\ OneBlock /\ InBuffer /\ Silence /\ NoneStuck /\ Late /\ Accounted
      /\ handler \in {"parse", "astray"} /\ handler' = "reopen" /\ timeout' = Inactive
      /\ parsed' = parsed \o whole
      /\ UNCHANGED <<uart, overrun, masked, arrived, rxBuffer, writeIx, errorFlag, size,
                     gsmQueue, excused>>
  BY DEF ComRxInv, Reopen, uartVars, bufferVars
<1>2. /\ whole \in Seq(0 .. MaxBytes) /\ Len(whole) = size
      /\ \A i \in 1 .. size : whole[i] = rxBuffer[i]
      /\ size \in Nat /\ size <= writeIx /\ writeIx \in Nat
  BY <1>1, BlockBytes, Shapes
<1> HIDE DEF whole
<1>3. parsed \in Seq(0 .. MaxBytes) /\ Len(parsed) \in Nat /\ DOMAIN parsed = 1 .. Len(parsed)
  BY <1>1, Shapes DEF ComRxTypeOK
<1>4. /\ parsed' \in Seq(0 .. MaxBytes) /\ Len(parsed') = Len(parsed) + size
      /\ \A i \in 1 .. Len(parsed) + size :
           parsed'[i] = IF i <= Len(parsed) THEN parsed[i] ELSE whole[i - Len(parsed)]
  BY <1>1, <1>2, <1>3, ConcatProperties
<1>5. DOMAIN parsed' = 1 .. Len(parsed) + size
  BY <1>4, LenProperties
<1>6. ComRxTypeOK'
  BY <1>1, <1>4, Constants DEF ComRxTypeOK
<1>7. BlockOut /\ BlockOut' /\ BlockSize = size /\ BlockSize' = size
  BY <1>1 DEF BlockOut, BlockSize
<1>8. OneBlock' /\ InBuffer' /\ Silence' /\ NoneStuck' /\ Late'
  BY <1>1, <1>7 DEF OneBlock, InBuffer, Silence, NoneStuck, Late
<1>9. ASSUME NEW b, Read(b) PROVE Read(b)'
  <2>1. PICK i \in 1 .. Len(parsed) : parsed[i] = b
    BY <1>3, <1>9 DEF Read
  <2>2. i \in 1 .. Len(parsed) + size /\ i <= Len(parsed)
    BY <1>2, <1>3
  <2> QED
    BY <2>1, <2>2, <1>4, <1>5 DEF Read
<1>10. ASSUME NEW b, Stored(b) PROVE Stored(b)' \/ Read(b)'
  <2>1. UnreadFrom = 1 /\ UnreadFrom' = size + 1
    BY <1>1 DEF UnreadFrom
  <2>2. PICK i \in 1 .. writeIx : rxBuffer[i] = b
    BY <2>1, <1>10 DEF Stored
  <2>3. CASE i <= size
    <3>1. /\ i \in 1 .. size /\ Len(parsed) + i \in 1 .. Len(parsed) + size
          /\ ~(Len(parsed) + i <= Len(parsed)) /\ (Len(parsed) + i) - Len(parsed) = i
      BY <2>3, <1>2, <1>3
    <3>2. parsed'[Len(parsed) + i] = b
      BY <3>1, <2>2, <1>2, <1>4
    <3> QED
      BY <3>1, <3>2, <1>5 DEF Read
  <2>4. CASE ~(i <= size)
    <3>1. i \in size + 1 .. writeIx
      BY <2>4, <1>2
    <3> QED
      BY <3>1, <2>1, <2>2, <1>1 DEF Stored
  <2> QED
    BY <2>3, <2>4
<1>11. ASSUME NEW b, Coming(b) PROVE Coming(b)'
  BY <1>1, <1>11 DEF Coming
<1>12. Accounted'
  BY <1>1, <1>9, <1>10, <1>11 DEF Accounted
<1> QED
  BY <1>6, <1>8, <1>12 DEF ComRxInv

(* What is behind the block when the buffer is opened came while it was    *)
(* out.                                                                    *)
LEMMA RestartInv ==
  ASSUME ComRxInv, Restart
  PROVE  ComRxInv'
<1>1. /\ ComRxTypeOK /\ OneBlock /\ InBuffer /\ Silence /\ NoneStuck /\ Late /\ Accounted
      /\ handler = "reopen" /\ handler' = "none" /\ writeIx' = 0
      /\ UNCHANGED <<uart, overrun, masked, arrived, rxBuffer, timeout, errorFlag,
                     size, gsmQueue, parsed, excused>>
  BY DEF ComRxInv, Restart, uartVars
<1>2. gsmQueue' = <<>> /\ ~BlockOut'
  BY <1>1 DEF OneBlock, BlockOut
<1>3. ComRxTypeOK'
  <2>1. writeIx' \in 0 .. RxSize
    BY <1>1, Constants
  <2> QED
    BY <1>1, <2>1 DEF ComRxTypeOK
<1>4. OneBlock' /\ InBuffer' /\ Silence' /\ NoneStuck' /\ Late'
  <2>1. timeout' = Inactive \/ timeout' < RxTimeout
    BY <1>1, Constants DEF Silence
  <2> QED
    BY <1>1, <1>2, <2>1 DEF OneBlock, InBuffer, Silence, NoneStuck, Late
<1>5. ASSUME NEW b
      PROVE  /\ Read(b) => Read(b)'
             /\ Coming(b) => Coming(b)'
             /\ Stored(b) => b \in excused'
  <2>1. UnreadFrom = BlockSize + 1 /\ BlockOut
    BY <1>1 DEF UnreadFrom, BlockSize, InBuffer, BlockOut
  <2>2. Stored(b) => b \in excused'
    BY <1>1, <2>1 DEF Stored, Late
  <2>3. (Read(b) => Read(b)') /\ (Coming(b) => Coming(b)')
    BY <1>1 DEF Read, Coming
  <2> QED
    BY <2>2, <2>3
<1>6. Accounted'
  BY <1>1, <1>5 DEF Accounted
<1> QED
  BY <1>3, <1>4, <1>6 DEF ComRxInv

-----------------------------------------------------------------------------

LEMMA NextInv ==
  ASSUME ComRxInv, [ComRxNext]_comRxVars
  PROVE  ComRxInv'
<1>1. CASE UNCHANGED comRxVars
  <2>1. UNCHANGED <<uart, overrun, masked, rxBuffer, writeIx, timeout, errorFlag, handler,
                    size, gsmQueue, arrived, parsed, excused>>
    BY <1>1 DEF comRxVars
  <2>2. ComRxTypeOK'
    BY <2>1 DEF ComRxInv, ComRxTypeOK
  <2>3. OneBlock' /\ InBuffer' /\ Silence' /\ NoneStuck' /\ Late'
    BY <2>1 DEF ComRxInv, OneBlock, InBuffer, BlockSize, BlockOut, Silence, NoneStuck, Late
  <2>4. Accounted'
    BY <2>1, BytesStay, Shapes DEF ComRxInv, UnreadFrom
  <2> QED
    BY <2>2, <2>3, <2>4 DEF ComRxInv
<1>2. CASE ComRxNext
  BY <1>2, ArrivesInv, RxIsrInv, SendByteInv, TickInv, ReportedInv, ReadSizeInv, AnnounceInv,
     ParseBeginInv, AstrayInv, ReopenInv, RestartInv DEF ComRxNext
<1> QED
  BY <1>1, <1>2

(* The invariant holds in every run. *)
THEOREM ComRxHolds == ComRxSpec => []ComRxInv
BY InitInv, NextInv, PTL DEF ComRxSpec

(* The types of the receiver's state: no interrupt stores past the end of  *)
(* the buffer, the UART holds no more than it can and no block is announced*)
(* that is longer than the buffer, for every size and time-out main could  *)
(* configure.  (What the parser reads behind a block: ParserTypesHold.)    *)
THEOREM ComRxTypesHold == ComRxSpec => []ComRxTypeOK
BY ComRxHolds, PTL DEF ComRxInv

(* A byte in the buffer is always counted towards its silence, or about to *)
(* be cleared away: no order of interrupts, ticks and the steps of         *)
(* Com_reopen leaves one there with the counter stopped.                   *)
THEOREM NoneIsStuck == ComRxSpec => []NoneStuck
BY ComRxHolds, PTL DEF ComRxInv

-----------------------------------------------------------------------------
(* The buffer and the UART as one sequence. *)

Byte == 0 .. MaxBytes
Buffered == SubSeq(rxBuffer, UnreadFrom, writeIx)

LEMMA StartsWithin ==
  ASSUME ComRxInv
  PROVE  UnreadFrom \in Nat /\ UnreadFrom >= 1 /\ UnreadFrom <= writeIx + 1 /\ writeIx \in Nat
<1>1. ComRxTypeOK /\ InBuffer
  BY DEF ComRxInv
<1>2. /\ writeIx \in Nat /\ size \in Nat /\ UnreadFrom \in Nat /\ UnreadFrom >= 1
  BY <1>1, Shapes
<1>3. CASE handler = "reopen"
  <2>1. size <= writeIx /\ UnreadFrom = size + 1
    BY <1>1, <1>2, <1>3 DEF InBuffer, BlockOut, BlockSize, UnreadFrom
  <2> QED
    BY <1>2, <2>1
<1>4. CASE handler # "reopen"
  BY <1>2, <1>4 DEF UnreadFrom
<1> QED
  BY <1>2, <1>3, <1>4

BufferAndUart ==
  /\ Buffered \in Seq(Byte) /\ uart \in Seq(Byte) /\ Unread = Buffered \o uart
  /\ Len(Buffered) = writeIx - UnreadFrom + 1
  /\ \A i \in 1 .. writeIx - UnreadFrom + 1 : Buffered[i] = rxBuffer[UnreadFrom + i - 1]

LEMMA BufferedBytes == ComRxInv => BufferAndUart
<1> SUFFICES ASSUME ComRxInv PROVE BufferAndUart
  OBVIOUS
<1>1. /\ UnreadFrom \in Nat /\ UnreadFrom >= 1 /\ UnreadFrom <= writeIx + 1
      /\ writeIx \in Nat /\ writeIx <= RxSize
  BY StartsWithin, Shapes DEF ComRxInv
<1>2. rxBuffer \in [1 .. RxSize -> Byte] /\ uart \in Seq(1 .. MaxBytes)
  BY DEF ComRxInv, ComRxTypeOK, Byte
<1>3. \A i \in UnreadFrom .. writeIx : rxBuffer[i] \in Byte
  BY <1>1, <1>2, Constants
<1>4. UnreadFrom \in Int /\ writeIx \in Int
  BY <1>1
<1>5. /\ Buffered \in Seq(Byte)
      /\ Len(Buffered) = IF UnreadFrom <= writeIx THEN writeIx - UnreadFrom + 1 ELSE 0
      /\ \A i \in 1 .. writeIx - UnreadFrom + 1 : Buffered[i] = rxBuffer[UnreadFrom + i - 1]
  BY <1>3, <1>4, SubSeqProperties DEF Buffered
<1>6. Len(Buffered) = writeIx - UnreadFrom + 1
  BY <1>1, <1>5
<1>7. 1 .. MaxBytes \subseteq Byte
  BY Constants DEF Byte
<1>8. uart \in Seq(Byte)
  BY <1>2, <1>7, SeqMonotonic
<1>9. Unread = Buffered \o uart
  BY DEF Unread, Buffered, UnreadFrom
<1> QED
  BY <1>5, <1>6, <1>8, <1>9 DEF BufferAndUart

LEMMA BufferedBytesNext == ComRxInv' => BufferAndUart'
BY BufferedBytes, PTL

(* The bytes the parser misses came too many at a time, or behind a block. *)
LEMMA AccountedIsLost == ComRxInv => LostForCause
<1> SUFFICES ASSUME ComRxInv, NEW b \in 1 .. arrived
             PROVE  b \in ToSet(parsed) \cup ToSet(Unread) \cup excused
  BY DEF LostForCause
<1>1. /\ Buffered \in Seq(Byte) /\ uart \in Seq(Byte) /\ Unread = Buffered \o uart
      /\ Len(Buffered) = writeIx - UnreadFrom + 1
      /\ \A i \in 1 .. writeIx - UnreadFrom + 1 : Buffered[i] = rxBuffer[UnreadFrom + i - 1]
  BY BufferedBytes DEF BufferAndUart
<1>2. UnreadFrom \in Nat /\ UnreadFrom >= 1 /\ UnreadFrom <= writeIx + 1 /\ writeIx \in Nat
  BY StartsWithin
<1>3. /\ DOMAIN Unread = 1 .. Len(Buffered) + Len(uart)
      /\ \A i \in 1 .. Len(Buffered) : Unread[i] = Buffered[i]
      /\ \A i \in 1 .. Len(uart) : Unread[Len(Buffered) + i] = uart[i]
      /\ Len(uart) \in Nat /\ Len(Buffered) \in Nat /\ DOMAIN uart = 1 .. Len(uart)
  <2>1. /\ Unread \in Seq(Byte) /\ Len(Unread) = Len(Buffered) + Len(uart)
        /\ \A i \in 1 .. Len(Buffered) + Len(uart) :
             Unread[i] = IF i <= Len(Buffered) THEN Buffered[i] ELSE uart[i - Len(Buffered)]
    BY <1>1, ConcatProperties
  <2>2. /\ Len(uart) \in Nat /\ Len(Buffered) \in Nat /\ DOMAIN uart = 1 .. Len(uart)
        /\ DOMAIN Unread = 1 .. Len(Unread)
    BY <1>1, <2>1, LenProperties
  <2>3. ASSUME NEW i \in 1 .. Len(Buffered) PROVE Unread[i] = Buffered[i]
    BY <2>1, <2>2
  <2>4. ASSUME NEW i \in 1 .. Len(uart) PROVE Unread[Len(Buffered) + i] = uart[i]
    <3>1. /\ Len(Buffered) + i \in 1 .. Len(Buffered) + Len(uart)
          /\ ~(Len(Buffered) + i <= Len(Buffered)) /\ (Len(Buffered) + i) - Len(Buffered) = i
      BY <2>2
    <3> QED
      BY <2>1, <3>1
  <2> QED
    BY <2>1, <2>2, <2>3, <2>4
<1>4. Stored(b) => b \in ToSet(Unread)
  <2> SUFFICES ASSUME NEW i \in UnreadFrom .. writeIx, rxBuffer[i] = b
               PROVE  b \in ToSet(Unread)
    BY DEF Stored
  <2>1. /\ i - UnreadFrom + 1 \in 1 .. writeIx - UnreadFrom + 1
        /\ UnreadFrom + (i - UnreadFrom + 1) - 1 = i
    BY <1>2
  <2>2. Buffered[i - UnreadFrom + 1] = b
    BY <1>1, <2>1
  <2>3. Unread[i - UnreadFrom + 1] = b /\ i - UnreadFrom + 1 \in DOMAIN Unread
    BY <1>1, <1>3, <2>1, <2>2
  <2> QED
    BY <2>3 DEF ToSet
<1>5. Coming(b) => b \in ToSet(Unread)
  <2> SUFFICES ASSUME NEW i \in 1 .. Len(uart), uart[i] = b PROVE b \in ToSet(Unread)
    BY <1>3 DEF Coming
  <2>1. Unread[Len(Buffered) + i] = b /\ Len(Buffered) + i \in DOMAIN Unread
    BY <1>3
  <2> QED
    BY <2>1 DEF ToSet
<1>6. Read(b) => b \in ToSet(parsed)
  BY DEF Read, ToSet
<1> QED
  BY <1>4, <1>5, <1>6 DEF ComRxInv, Accounted

(* Every byte the modem has sent stood in a block the parser has gone      *)
(* through, is still to come there, or came when the UART or the buffer    *)
(* was full or an earlier block was out: an answer that comes alone and    *)
(* fits is in a block to its last byte.                                    *)
THEOREM BytesLostForCause == ComRxSpec => []LostForCause
BY ComRxHolds, AccountedIsLost, PTL

-----------------------------------------------------------------------------
(* The line is a channel. *)

LEMMA PiecesOfConcat ==
  ASSUME NEW S, NEW a \in Seq(S), NEW b \in Seq(S)
  PROVE  /\ SubSeq(a \o b, 1, Len(a)) = a
         /\ SubSeq(a \o b, Len(a) + 1, Len(a) + Len(b)) = b
<1>1. /\ a \o b \in Seq(S) /\ Len(a \o b) = Len(a) + Len(b)
      /\ \A i \in 1 .. Len(a) + Len(b) : (a \o b)[i] = IF i <= Len(a) THEN a[i] ELSE b[i - Len(a)]
  BY ConcatProperties
<1>2. Len(a) \in Nat /\ Len(b) \in Nat
  BY LenProperties
<1>3. \A i \in 1 .. Len(a) + Len(b) : (a \o b)[i] \in S
  BY <1>1, ElementOfSeq
<1> DEFINE left == SubSeq(a \o b, 1, Len(a))
           right == SubSeq(a \o b, Len(a) + 1, Len(a) + Len(b))
<1>4. left = a
  <2>1. \A i \in 1 .. Len(a) : (a \o b)[i] \in S
    BY <1>2, <1>3
  <2>2. /\ left \in Seq(S) /\ Len(left) = IF 1 <= Len(a) THEN Len(a) - 1 + 1 ELSE 0
        /\ \A i \in 1 .. Len(a) - 1 + 1 : left[i] = (a \o b)[1 + i - 1]
    BY <2>1, <1>2, SubSeqProperties
  <2> HIDE DEF left
  <2>3. Len(left) = Len(a)
    BY <2>2, <1>2
  <2>4. ASSUME NEW i \in 1 .. Len(left) PROVE left[i] = a[i]
    BY <2>2, <2>3, <1>1, <1>2
  <2> QED
    BY <2>2, <2>3, <2>4, SeqEqual
<1>5. right = b
  <2>1. \A i \in Len(a) + 1 .. Len(a) + Len(b) : (a \o b)[i] \in S
    BY <1>2, <1>3
  <2>2. /\ right \in Seq(S)
        /\ Len(right) = IF Len(a) + 1 <= Len(a) + Len(b)
                        THEN Len(a) + Len(b) - (Len(a) + 1) + 1 ELSE 0
        /\ \A i \in 1 .. Len(a) + Len(b) - (Len(a) + 1) + 1 :
             right[i] = (a \o b)[Len(a) + 1 + i - 1]
    BY <2>1, <1>2, SubSeqProperties
  <2> HIDE DEF right
  <2>3. Len(right) = Len(b)
    BY <2>2, <1>2
  <2>4. ASSUME NEW i \in 1 .. Len(right) PROVE right[i] = b[i]
    <3>1. /\ i \in 1 .. Len(a) + Len(b) - (Len(a) + 1) + 1 /\ Len(a) + 1 + i - 1 = Len(a) + i
          /\ Len(a) + i \in 1 .. Len(a) + Len(b) /\ ~(Len(a) + i <= Len(a))
          /\ Len(a) + i - Len(a) = i
      BY <2>3, <1>2
    <3>2. right[i] = (a \o b)[Len(a) + i]
      BY <2>2, <3>1
    <3> QED
      BY <3>1, <3>2, <1>1
  <2> QED
    BY <2>2, <2>3, <2>4, SeqEqual
<1> QED
  BY <1>4, <1>5

(* Bytes put in behind those in transit. *)
LEMMA MoreIn ==
  ASSUME NEW more \in Seq(Byte), Unread \in Seq(Byte), Unread' = Unread \o more, parsed' = parsed
  PROVE  RxLine!PutIn
<1>1. Len(Unread) \in Nat /\ Len(more) \in Nat
  BY LenProperties
<1>2. Len(Unread') = Len(Unread) + Len(more)
  BY ConcatProperties
<1>3. SubSeq(Unread, 1, Len(Unread)) = Unread
  BY SubSeqFull
<1>4. SubSeq(Unread', 1, Len(Unread)) = Unread
  BY PiecesOfConcat
<1>5. Len(Unread) <= Len(Unread')
  BY <1>1, <1>2
<1>6. RxLine!IsPrefix(Unread, Unread')
  BY <1>3, <1>4, <1>5 DEF RxLine!IsPrefix
<1> QED
  BY <1>6 DEF RxLine!PutIn

(* Bytes lost from among those in transit. *)
LEMMA SomeLost ==
  ASSUME NEW a \in Seq(Byte), NEW b \in Seq(Byte), NEW c \in Seq(Byte),
         Unread = (a \o b) \o c, Unread' = a \o c, parsed' = parsed
  PROVE  RxLine!Lost
<1> DEFINE m == Len(a)
           n == Len(a) + Len(b)
<1>1. /\ a \o b \in Seq(Byte) /\ Len(a \o b) = n /\ b \o c \in Seq(Byte)
      /\ Len(a) \in Nat /\ Len(b) \in Nat /\ Len(c) \in Nat
  BY ConcatProperties, LenProperties
<1>2. Len(Unread) = n + Len(c)
  BY <1>1, ConcatProperties
<1>3. Unread = a \o (b \o c)
  BY ConcatAssociative, SMTT(30)
<1>4. SubSeq(Unread, 1, m) = a
  BY <1>1, <1>3, PiecesOfConcat
<1>5. SubSeq(Unread, n + 1, Len(Unread)) = c
  BY <1>1, <1>2, PiecesOfConcat
<1>6. m \in 0 .. Len(Unread) /\ n \in 0 .. Len(Unread) /\ m <= n
  BY <1>1, <1>2
<1>7. Unread' = SubSeq(Unread, 1, m) \o SubSeq(Unread, n + 1, Len(Unread))
  BY <1>4, <1>5
<1> HIDE DEF m, n
<1> QED
  BY <1>6, <1>7 DEF RxLine!Lost

LEMMA ArrivesIn ==
  ASSUME ComRxInv, Arrives
  PROVE  RxLine!PutIn \/ UNCHANGED <<Unread, parsed>>
<1>1. /\ Buffered \in Seq(Byte) /\ uart \in Seq(Byte) /\ Unread = Buffered \o uart
  BY BufferedBytes DEF BufferAndUart
<1>2. /\ UNCHANGED <<rxBuffer, writeIx, handler, size, parsed>> /\ arrived' = arrived + 1
      /\ uart' = Append(uart, arrived') \/ uart' = uart
      /\ arrived' \in Byte
  <2>1. arrived \in Nat
    BY Shapes DEF ComRxInv
  <2> QED
    BY <2>1, Constants DEF Arrives, bufferVars, Byte
<1>3. Buffered' = Buffered /\ Unread' = Buffered' \o uart'
  BY <1>2 DEF Buffered, Unread, UnreadFrom
<1>4. CASE uart' = uart
  BY <1>1, <1>2, <1>3, <1>4
<1>5. CASE uart' = Append(uart, arrived')
  <2>1. <<arrived'>> \in Seq(Byte) /\ uart' = uart \o <<arrived'>>
    BY <1>1, <1>2, <1>5, AppendIsConcat
  <2>2. Unread' = Unread \o <<arrived'>> /\ Unread \in Seq(Byte)
    BY <1>1, <1>3, <2>1, ConcatAssociative, ConcatProperties
  <2> QED
    BY <2>1, <2>2, <1>2, MoreIn
<1> QED
  BY <1>2, <1>4, <1>5

(* A byte that finds room only changes its place. *)
LEMMA RxIsrMoves ==
  ASSUME ComRxInv, RxIsr
  PROVE  RxLine!Lost \/ UNCHANGED <<Unread, parsed>>
<1> DEFINE h == Head(uart)
<1>1. /\ Buffered \in Seq(Byte) /\ uart \in Seq(Byte) /\ Unread = Buffered \o uart
      /\ Len(Buffered) = writeIx - UnreadFrom + 1
      /\ \A i \in 1 .. writeIx - UnreadFrom + 1 : Buffered[i] = rxBuffer[UnreadFrom + i - 1]
  BY BufferedBytes DEF BufferAndUart
<1>2. /\ uart # <<>> /\ uart' = Tail(uart) /\ UNCHANGED <<handler, size, parsed>>
      /\ \/ /\ writeIx < RxSize /\ rxBuffer' = [rxBuffer EXCEPT ![writeIx + 1] = h]
            /\ writeIx' = writeIx + 1
         \/ UNCHANGED <<rxBuffer, writeIx>>
  BY DEF RxIsr, bufferVars
<1>3. h \in Byte /\ <<h>> \in Seq(Byte) /\ uart' \in Seq(Byte) /\ uart = <<h>> \o uart'
  <2>1. h \in Byte /\ uart' \in Seq(Byte) /\ Len(uart') = Len(uart) - 1
        /\ \A i \in 1 .. Len(uart') : uart'[i] = uart[i + 1]
    BY <1>1, <1>2, HeadTailProperties
  <2>2. h = uart[1] /\ Len(uart) \in Nat /\ Len(uart) # 0
    BY <1>1, <1>2, EmptySeq, LenProperties
  <2>3. <<h>> \in Seq(Byte) /\ Len(<<h>>) = 1 /\ <<h>>[1] = h
    BY <2>1
  <2> HIDE DEF h
  <2>4. /\ <<h>> \o uart' \in Seq(Byte) /\ Len(<<h>> \o uart') = 1 + Len(uart')
        /\ \A i \in 1 .. 1 + Len(uart') : (<<h>> \o uart')[i] = IF i <= 1 THEN <<h>>[i] ELSE uart'[i - 1]
    BY <2>1, <2>3, ConcatProperties
  <2> DEFINE again == <<h>> \o uart'
  <2>5. again \in Seq(Byte) /\ Len(again) = Len(uart)
    BY <2>1, <2>2, <2>4
  <2>6. ASSUME NEW i \in 1 .. Len(again) PROVE again[i] = uart[i]
    <3>1. CASE i = 1
      BY <3>1, <2>1, <2>2, <2>3, <2>4
    <3>2. CASE i # 1
      <4>1. i - 1 \in 1 .. Len(uart') /\ (i - 1) + 1 = i /\ ~(i <= 1) /\ i \in 1 .. 1 + Len(uart')
        BY <3>2, <2>1, <2>2, <2>5
      <4>2. uart'[i - 1] = uart[i]
        BY <2>1, <4>1
      <4> QED
        BY <2>4, <4>1, <4>2
    <3> QED
      BY <3>1, <3>2
  <2> HIDE DEF again
  <2>7. again = uart
    BY <1>1, <2>5, <2>6, SeqEqual
  <2> QED
    BY <2>1, <2>3, <2>7 DEF again
<1>4. Unread' = Buffered' \o uart'
  BY DEF Buffered, Unread, UnreadFrom
<1> HIDE DEF h
<1>5. CASE UNCHANGED <<rxBuffer, writeIx>>
  <2>1. Buffered' = Buffered
    BY <1>2, <1>5 DEF Buffered, UnreadFrom
  <2>2. Unread = (Buffered \o <<h>>) \o uart' /\ Unread' = Buffered \o uart'
    BY <1>1, <1>3, <1>4, <2>1, ConcatAssociative, SMTT(30)
  <2> QED
    BY <2>2, <1>1, <1>2, <1>3, SomeLost
<1>6. CASE /\ writeIx < RxSize /\ rxBuffer' = [rxBuffer EXCEPT ![writeIx + 1] = h]
           /\ writeIx' = writeIx + 1
  <2>1. /\ UnreadFrom \in Nat /\ UnreadFrom >= 1 /\ UnreadFrom <= writeIx + 1 /\ writeIx \in Nat
        /\ UnreadFrom' = UnreadFrom
    BY <1>2, StartsWithin DEF UnreadFrom
  <2>2. ComRxInv'
    BY RxIsrInv
  <2>3. /\ Buffered' \in Seq(Byte) /\ Len(Buffered') = writeIx + 1 - UnreadFrom + 1
        /\ \A i \in 1 .. writeIx + 1 - UnreadFrom + 1 : Buffered'[i] = rxBuffer'[UnreadFrom + i - 1]
    <3>1. /\ Buffered' \in Seq(Byte) /\ Len(Buffered') = writeIx' - UnreadFrom' + 1
          /\ \A i \in 1 .. writeIx' - UnreadFrom' + 1 :
               Buffered'[i] = rxBuffer'[UnreadFrom' + i - 1]
      BY <2>2, BufferedBytesNext DEF BufferAndUart
    <3> QED
      BY <3>1, <2>1, <1>6
  <2>4. rxBuffer \in [1 .. RxSize -> 0 .. MaxBytes]
    BY DEF ComRxInv, ComRxTypeOK
  <2>5. /\ Buffered \o <<h>> \in Seq(Byte) /\ Len(Buffered \o <<h>>) = Len(Buffered) + 1
        /\ \A i \in 1 .. Len(Buffered) + 1 :
             (Buffered \o <<h>>)[i] = IF i <= Len(Buffered) THEN Buffered[i] ELSE <<h>>[i - Len(Buffered)]
    BY <1>1, <1>3, ConcatProperties
  <2>6. ASSUME NEW i \in 1 .. Len(Buffered) + 1
        PROVE  Buffered'[i] = (Buffered \o <<h>>)[i]
    <3>1. /\ i \in 1 .. writeIx + 1 - UnreadFrom + 1 /\ UnreadFrom + i - 1 \in 1 .. writeIx + 1
          /\ writeIx + 1 \in 1 .. RxSize
      BY <1>1, <1>6, <2>1, Constants
    <3>2. Buffered'[i] = rxBuffer'[UnreadFrom + i - 1]
      BY <2>3, <3>1
    <3>3. CASE i <= Len(Buffered)
      <4>1. UnreadFrom + i - 1 # writeIx + 1 /\ UnreadFrom + i - 1 \in 1 .. RxSize
            /\ i \in 1 .. writeIx - UnreadFrom + 1
        BY <3>1, <3>3, <1>1, <1>6, <2>1, Constants
      <4>2. rxBuffer'[UnreadFrom + i - 1] = rxBuffer[UnreadFrom + i - 1]
        BY <4>1, <1>6, <2>4
      <4> QED
        BY <3>2, <3>3, <4>1, <4>2, <1>1, <2>5
    <3>4. CASE i = Len(Buffered) + 1
      <4>1. UnreadFrom + i - 1 = writeIx + 1 /\ ~(i <= Len(Buffered)) /\ i - Len(Buffered) = 1
        BY <3>4, <1>1, <2>1
      <4>2. rxBuffer'[writeIx + 1] = h
        BY <3>1, <1>6, <2>4
      <4>3. <<h>>[1] = h
        OBVIOUS
      <4> QED
        BY <3>2, <4>1, <4>2, <4>3, <2>5
    <3> QED
      BY <3>3, <3>4, <1>1, <2>1
  <2> DEFINE was == Buffered \o <<h>>
             now == Buffered'
  <2>7. /\ was \in Seq(Byte) /\ now \in Seq(Byte) /\ Len(now) = Len(was)
        /\ \A i \in 1 .. Len(now) : now[i] = was[i]
    <3>1. was \in Seq(Byte) /\ now \in Seq(Byte)
      BY <2>3, <2>5
    <3>2. Len(now) = Len(Buffered) + 1 /\ Len(was) = Len(Buffered) + 1
      BY <1>1, <2>1, <2>3, <2>5
    <3>3. ASSUME NEW i \in 1 .. Len(now) PROVE now[i] = was[i]
      BY <3>2, <2>6
    <3> HIDE DEF was, now
    <3> QED
      BY <3>1, <3>2, <3>3
  <2> HIDE DEF was, now
  <2>8. now = was
    BY <2>7, SeqEqual
  <2>9. Buffered' = Buffered \o <<h>>
    BY <2>8 DEF now, was
  <2>10. Unread' = Unread
    BY <2>9, <1>1, <1>3, <1>4, ConcatAssociative
  <2> QED
    BY <2>10, <1>2
<1> QED
  BY <1>2, <1>5, <1>6

(* A block comes out, if it is not empty. *)
LEMMA ReopenOut ==
  ASSUME ComRxInv, Reopen
  PROVE  RxLine!ComeOut \/ UNCHANGED <<Unread, parsed>>
<1> DEFINE whole == SubSeq(rxBuffer, 1, size)
<1>1. /\ Buffered \in Seq(Byte) /\ uart \in Seq(Byte) /\ Unread = Buffered \o uart
      /\ Len(Buffered) = writeIx - UnreadFrom + 1
      /\ \A i \in 1 .. writeIx - UnreadFrom + 1 : Buffered[i] = rxBuffer[UnreadFrom + i - 1]
  BY BufferedBytes DEF BufferAndUart
<1>2. /\ handler \in {"parse", "astray"} /\ handler' = "reopen"
      /\ parsed' = parsed \o whole
      /\ UNCHANGED <<rxBuffer, writeIx, uart, size>>
  BY DEF Reopen, uartVars, bufferVars
<1>3. /\ whole \in Seq(Byte) /\ Len(whole) = size
      /\ \A i \in 1 .. size : whole[i] = rxBuffer[i]
      /\ size \in Nat /\ size <= writeIx /\ writeIx \in Nat
  BY <1>2, BlockBytes, Shapes DEF ComRxInv, Byte
<1> HIDE DEF whole
<1>4. UnreadFrom = 1 /\ UnreadFrom' = size + 1
  BY <1>2 DEF UnreadFrom
<1>5. ComRxInv'
  BY ReopenInv
<1>6. /\ Buffered' \in Seq(Byte) /\ Unread' = Buffered' \o uart
      /\ Len(Buffered') = writeIx - (size + 1) + 1
      /\ \A i \in 1 .. writeIx - (size + 1) + 1 : Buffered'[i] = rxBuffer[size + 1 + i - 1]
  BY <1>2, <1>4, <1>5, BufferedBytesNext DEF BufferAndUart
<1> DEFINE was == Buffered
           rest == Buffered'
           both == whole \o rest
<1>7. was = both
  <2>1. /\ both \in Seq(Byte) /\ Len(both) = Len(whole) + Len(rest)
        /\ \A i \in 1 .. Len(whole) + Len(rest) :
             both[i] = IF i <= Len(whole) THEN whole[i] ELSE rest[i - Len(whole)]
    BY <1>3, <1>6, ConcatProperties
  <2>2. was \in Seq(Byte) /\ Len(was) = writeIx /\ \A i \in 1 .. writeIx : was[i] = rxBuffer[i]
    <3>1. was \in Seq(Byte) /\ Len(was) = writeIx - 1 + 1
          /\ \A i \in 1 .. writeIx - 1 + 1 : was[i] = rxBuffer[1 + i - 1]
      BY <1>1, <1>4
    <3> HIDE DEF was
    <3>2. ASSUME NEW i \in 1 .. writeIx PROVE was[i] = rxBuffer[i]
      <4>1. i \in 1 .. writeIx - 1 + 1 /\ 1 + i - 1 = i
        BY <1>3
      <4> QED
        BY <3>1, <4>1
    <3>3. Len(was) = writeIx
      BY <3>1, <1>3
    <3> QED
      BY <3>1, <3>2, <3>3
  <2>3. Len(rest) = writeIx - size
    BY <1>3, <1>6
  <2>4. \A i \in 1 .. writeIx - (size + 1) + 1 : rest[i] = rxBuffer[size + 1 + i - 1]
    BY <1>6
  <2> HIDE DEF was, rest, both
  <2>5. Len(both) = writeIx
    BY <1>3, <2>1, <2>3
  <2>6. ASSUME NEW i \in 1 .. writeIx PROVE both[i] = rxBuffer[i]
    <3>1. i \in 1 .. Len(whole) + Len(rest)
      BY <1>3, <2>3
    <3>2. CASE i <= size
      <4>1. i \in 1 .. size
        BY <3>2
      <4> QED
        BY <3>1, <3>2, <4>1, <2>1, <1>3
    <3>3. CASE ~(i <= size)
      <4>1. i - size \in 1 .. writeIx - (size + 1) + 1 /\ size + 1 + (i - size) - 1 = i
        BY <3>3, <1>3
      <4>2. rest[i - size] = rxBuffer[i]
        BY <4>1, <2>4
      <4> QED
        BY <3>1, <3>3, <4>2, <2>1, <1>3
    <3> QED
      BY <3>2, <3>3
  <2>7. ASSUME NEW i \in 1 .. Len(was) PROVE was[i] = both[i]
    BY <2>2, <2>6
  <2> QED
    BY <2>1, <2>2, <2>5, <2>7, SeqEqual
<1>8. rest \in Seq(Byte) /\ Unread' = rest \o uart /\ Unread = both \o uart
  BY <1>1, <1>6, <1>7
<1> HIDE DEF was, rest
<1>9. Unread = whole \o Unread' /\ Unread' \in Seq(Byte) /\ Unread \in Seq(Byte)
  <2>1. uart \in Seq(Byte)
    BY <1>1
  <2>2. (whole \o rest) \o uart = whole \o (rest \o uart)
    <3>1. whole \in Seq(Byte)
      BY <1>3
    <3>2. rest \in Seq(Byte)
      BY <1>8
    <3> HIDE DEF both, whole
    <3> QED
      BY ONLY <2>1, <3>1, <3>2, ConcatAssociative
  <2>3. rest \o uart \in Seq(Byte)
    BY <2>1, <1>8, ConcatProperties
  <2>4. whole \o (rest \o uart) \in Seq(Byte)
    BY <2>3, <1>3, ConcatProperties
  <2> QED
    BY <2>2, <2>3, <2>4, <1>8
<1> HIDE DEF both
<1>10. CASE size = 0
  <2>1. whole = <<>>
    BY <1>3, <1>10, EmptySeq
  <2>2. parsed \in Seq(0 .. MaxBytes)
    BY DEF ComRxInv, ComRxTypeOK
  <2>3. parsed' = parsed /\ Unread' = Unread
    BY <2>1, <2>2, <1>2, <1>9, ConcatEmptySeq
  <2> QED
    BY <2>3
<1>11. CASE size > 0
  <2> DEFINE left == Unread'
  <2>1. /\ left \in Seq(Byte) /\ Unread = whole \o left
        /\ Len(Unread) = size + Len(left) /\ Len(left) \in Nat /\ DOMAIN Unread = 1 .. Len(Unread)
    BY <1>3, <1>9, ConcatProperties, LenProperties
  <2> HIDE DEF left
  <2>2. SubSeq(Unread, 1, Len(whole)) = whole
        /\ SubSeq(Unread, Len(whole) + 1, Len(whole) + Len(left)) = left
    BY <2>1, <1>3, PiecesOfConcat
  <2>3. SubSeq(Unread, 1, size) = whole /\ SubSeq(Unread, size + 1, Len(Unread)) = left
    BY <2>1, <2>2, <1>3
  <2>4. size \in DOMAIN Unread
    BY <2>1, <1>3, <1>11
  <2>5. /\ parsed' = parsed \o SubSeq(Unread, 1, size)
        /\ Unread' = SubSeq(Unread, size + 1, Len(Unread))
    BY <2>3, <1>2 DEF left
  <2> QED
    BY <2>4, <2>5 DEF RxLine!ComeOut
<1> QED
  BY <1>3, <1>10, <1>11

(* Opening the buffer loses what came behind the block. *)
LEMMA RestartLoses ==
  ASSUME ComRxInv, Restart
  PROVE  RxLine!Lost
<1>1. /\ Buffered \in Seq(Byte) /\ uart \in Seq(Byte) /\ Unread = Buffered \o uart
  BY BufferedBytes DEF BufferAndUart
<1>2. writeIx' = 0 /\ handler' = "none" /\ UNCHANGED <<rxBuffer, uart, parsed>>
  BY DEF Restart, uartVars
<1>3. Unread' = SubSeq(rxBuffer, 1, 0) \o uart
  BY <1>2 DEF Unread, UnreadFrom
<1>4. SubSeq(rxBuffer, 1, 0) = <<>>
  BY SubSeqEmpty
<1>5. Unread' = <<>> \o uart /\ Unread = (<<>> \o Buffered) \o uart /\ <<>> \in Seq(Byte)
  BY <1>1, <1>3, <1>4, ConcatEmptySeq, EmptySeq
<1> QED
  BY <1>1, <1>2, <1>5, SomeLost

(* The others move no byte. *)
LEMMA OthersStutter ==
  ASSUME ComRxInv,
         \/ SendByteBegin \/ SendByteEnd \/ Tick \/ Reported \/ ReadSize \/ Announce
         \/ ParseBegin \/ Astray \/ UNCHANGED comRxVars
  PROVE  UNCHANGED <<Unread, parsed>>
<1>1. UNCHANGED <<uart, rxBuffer, writeIx, parsed>>
  BY DEF SendByteBegin, SendByteEnd, Tick, Reported, ReadSize, Announce, ParseBegin, Astray,
     comRxVars, uartVars, bufferVars
<1>2. UnreadFrom' = UnreadFrom
  BY DEF SendByteBegin, SendByteEnd, Tick, Reported, ReadSize, Announce, ParseBegin, Astray,
     comRxVars, uartVars, bufferVars, UnreadFrom
<1>3. Unread = Buffered \o uart /\ Unread' = Buffered' \o uart'
  BY DEF Unread, Buffered, UnreadFrom
<1>4. Buffered' = Buffered
  BY <1>1, <1>2 DEF Buffered
<1> QED
  BY <1>1, <1>3, <1>4

(* The line implements the channel: whatever the interrupts do while the   *)
(* parser goes through a block and the buffer is opened, the blocks it is  *)
(* given, as they stand when it is done with them, hold the bytes in the   *)
(* order in which they came and none twice; those that are lost follow one *)
(* another.                                                                *)
THEOREM ReceiverIsAChannel == ComRxSpec => BlocksAsSent
<1>1. ComRxInit => RxLine!ChannelInit
  <2> SUFFICES ASSUME ComRxInit PROVE RxLine!ChannelInit
    OBVIOUS
  <2>1. writeIx = 0 /\ uart = <<>> /\ parsed = <<>> /\ handler = "none"
    BY DEF ComRxInit
  <2>2. SubSeq(rxBuffer, 1, 0) = <<>>
    BY SubSeqEmpty
  <2>3. Unread = <<>> \o <<>>
    BY <2>1, <2>2 DEF Unread, UnreadFrom
  <2>4. <<>> \o <<>> = <<>>
    BY EmptySeq, ConcatEmptySeq
  <2> QED
    BY <2>1, <2>3, <2>4 DEF RxLine!ChannelInit
<1>2. ComRxInv /\ [ComRxNext]_comRxVars
      => [RxLine!PutIn \/ RxLine!ComeOut \/ RxLine!Lost]_(RxLine!channelVars)
  BY ArrivesIn, RxIsrMoves, ReopenOut, RestartLoses, OthersStutter
     DEF ComRxNext, RxLine!channelVars
<1> QED
  BY <1>1, <1>2, ComRxHolds, PTL DEF ComRxSpec, BlocksAsSent, RxLine!ChannelSpec

-----------------------------------------------------------------------------
(* The parser.  An answer of the block is still ahead of it or was heard;  *)
(* what was heard is behind it, and genuine.                               *)

Busy == stage \in {"scan", "line", "match", "reopen"}
Wanted(a) == a \in 0 .. block - 1 /\ SetOff(a) /\ Ended(a)
Done(a) ==
  \A n \in DOMAIN Tables[op] :
    FirstCode(n, a) => \E k \in DOMAIN heard : heard[k] = [at |-> a, code |-> n]
Ahead(a) ==
  \/ stage = "scan" /\ a >= ix + 2
  \/ stage = "line" /\ a >= pStr
  \/ stage = "match" /\ (a = pStr \/ a >= ix + 2)
Passed(a) ==
  /\ stage = "scan" => a <= ix + 1
  /\ stage \in {"line", "match"} => a < pStr
Genuine(h) ==
  /\ Opens(h.at) /\ h.at <= block
  /\ op = "other" => Ended(h.at) /\ FirstCode(h.code, h.at)

(* The index stays near the block, which stays in the buffer.              *)
Scanning ==
  /\ Busy => block <= stored
  /\ stage = "scan" => ix <= block + 4
  /\ stage = "line" => pStr = ix /\ 2 <= pStr /\ pStr <= block + 1
                       /\ (pStr <= block => Opens(pStr))
  /\ stage = "match" => /\ 2 <= pStr /\ pStr <= block /\ Opens(pStr)
                        /\ pStr <= ix + 1 /\ ix <= block + 4
                        /\ op = "other" => Ended(pStr)
Heeded == Busy => \A a \in 0 .. block - 1 : Wanted(a) => Ahead(a) \/ Done(a)
Sound == Busy => \A k \in DOMAIN heard : Genuine(heard[k]) /\ Passed(heard[k].at)
InOrder == Busy => \A j, k \in DOMAIN heard : j < k => heard[j].at < heard[k].at

ParserInv == ParserTypeOK /\ Scanning /\ Heeded /\ Sound /\ InOrder

-----------------------------------------------------------------------------

LEMMA ParserConstants ==
  /\ BufferSize \in Nat /\ Margin \in Nat /\ Margin >= 4 /\ MaxPieces \in Nat
  /\ CR # LF /\ Addresses = 0 .. BufferSize + Margin
BY ParserAssumption DEF CR, LF, Addresses

LEMMA Codes ==
  ASSUME NEW o \in Operations, NEW n \in DOMAIN Tables[o]
  PROVE  /\ n \in Nat
         /\ DOMAIN Tables[o][n] = 1 .. Len(Tables[o][n]) /\ Len(Tables[o][n]) \in Nat
         /\ Len(Tables[o][n]) >= 1
         /\ \A k \in DOMAIN Tables[o][n] : Tables[o][n][k] # CR
<1>1. Tables[o] \in Seq(Seq(Characters \ {CR})) /\ Len(Tables[o][n]) \in 1 .. Margin
  BY ParserAssumption
<1>2. Len(Tables[o]) \in Nat /\ n \in 1 .. Len(Tables[o])
  BY <1>1, LenProperties
<1>3. Tables[o][n] \in Seq(Characters \ {CR})
  BY <1>1, <1>2, ElementOfSeq
<1>4. /\ DOMAIN Tables[o][n] = 1 .. Len(Tables[o][n]) /\ Len(Tables[o][n]) \in Nat
  BY <1>3, LenProperties
<1>5. ASSUME NEW k \in DOMAIN Tables[o][n] PROVE Tables[o][n][k] # CR
  <2>1. Tables[o][n][k] \in Characters \ {CR}
    BY <1>3, <1>4, ElementOfSeq
  <2> QED
    BY <2>1
<1> QED
  BY <1>1, <1>2, <1>4, <1>5, ParserConstants

LEMMA ParserShapes ==
  ASSUME ParserTypeOK
  PROVE  /\ stored \in Nat /\ stored <= BufferSize /\ received \in Nat
         /\ block \in Nat /\ block <= BufferSize /\ ix \in Nat /\ pStr \in Nat
         /\ op \in Operations /\ memory \in [Addresses -> Characters]
         /\ Len(heard) \in Nat /\ DOMAIN heard = 1 .. Len(heard)
         /\ \A k \in DOMAIN heard : heard[k].at \in Nat /\ heard[k].code \in Nat
<1>1. /\ stored \in 0 .. BufferSize /\ received \in 0 .. MaxPieces /\ block \in 0 .. BufferSize
      /\ ix \in 0 .. BufferSize + 4 /\ pStr \in 0 .. BufferSize + 1
      /\ op \in Operations /\ memory \in [Addresses -> Characters]
      /\ heard \in Seq([at : 0 .. BufferSize, code : Nat])
  BY DEF ParserTypeOK
<1>2. Len(heard) \in Nat /\ DOMAIN heard = 1 .. Len(heard)
  BY <1>1, LenProperties
<1>3. ASSUME NEW k \in DOMAIN heard PROVE heard[k].at \in Nat /\ heard[k].code \in Nat
  <2>1. heard[k] \in [at : 0 .. BufferSize, code : Nat]
    BY <1>1, <1>2, ElementOfSeq
  <2> QED
    BY <2>1, ParserConstants
<1> QED
  BY <1>1, <1>2, <1>3, ParserConstants

(* The steps of the loop leave the block and what was heard as they are.   *)
LEMMA SameBlock ==
  ASSUME UNCHANGED <<memory, op, block, heard>>
  PROVE  \A a : /\ Wanted(a)' = Wanted(a) /\ Done(a)' = Done(a) /\ Genuine(a)' = Genuine(a)
                /\ Opens(a)' = Opens(a) /\ Ended(a)' = Ended(a)
BY DEF Wanted, Done, Genuine, Opens, Ended, SetOff, FirstCode, CodeAt

(* A code that matches at a line with an end matches within the block.     *)
LEMMA CodeWithin ==
  ASSUME NEW a \in Nat, NEW e \in Nat, a <= e, memory[e] = CR, op \in Operations,
         NEW n \in DOMAIN Tables[op], CodeAt(n, a)
  PROVE  \A k \in DOMAIN Tables[op][n] : a + k - 1 < e
<1>1. /\ DOMAIN Tables[op][n] = 1 .. Len(Tables[op][n]) /\ Len(Tables[op][n]) \in Nat
      /\ \A k \in DOMAIN Tables[op][n] : Tables[op][n][k] # CR
  BY Codes
<1> SUFFICES ASSUME NEW k \in DOMAIN Tables[op][n], ~(a + k - 1 < e) PROVE FALSE
  OBVIOUS
<1>2. k \in 1 .. Len(Tables[op][n])
  BY <1>1
<1>3. e - a + 1 \in 1 .. Len(Tables[op][n]) /\ a + (e - a + 1) - 1 = e
  BY <1>1, <1>2
<1>4. memory[e] = Tables[op][n][e - a + 1]
  BY <1>1, <1>3 DEF CodeAt
<1> QED
  BY <1>1, <1>3, <1>4

(* What comes in is stored behind the block, and does not change it.       *)
BlockStays ==
  /\ UNCHANGED <<op, block, heard>> /\ op \in Operations /\ block \in Nat
  /\ \A j \in 0 .. block - 1 : memory'[j] = memory[j]

LEMMA LinesStay ==
  ASSUME BlockStays, NEW a \in 0 .. block
  PROVE  (Opens(a)' <=> Opens(a)) /\ (SetOff(a)' <=> SetOff(a)) /\ (Ended(a)' <=> Ended(a))
<1>1. /\ block' = block /\ block \in Nat /\ a \in Nat /\ a <= block
      /\ \A j \in 0 .. block - 1 : memory'[j] = memory[j]
  BY DEF BlockStays
<1>2. ASSUME NEW b \in Nat, b <= block PROVE Opens(b)' <=> Opens(b)
  <2>1. CASE b >= 2
    <3>1. b - 2 \in 0 .. block - 1 /\ b - 1 \in 0 .. block - 1
      BY <1>1, <1>2, <2>1
    <3>2. memory'[b - 2] = memory[b - 2] /\ memory'[b - 1] = memory[b - 1]
      BY <1>1, <3>1
    <3> QED
      BY <3>2 DEF Opens
  <2>2. CASE ~(b >= 2)
    BY <2>2 DEF Opens
  <2> QED
    BY <2>1, <2>2
<1>3. Opens(a)' <=> Opens(a)
  BY <1>1, <1>2
<1>4. a >= 4 => (Opens(a - 2)' <=> Opens(a - 2))
  <2>1. a >= 4 => a - 2 \in Nat /\ a - 2 <= block
    BY <1>1
  <2> QED
    BY <2>1, <1>2
<1>5. SetOff(a)' <=> SetOff(a)
  BY <1>3, <1>4 DEF SetOff
<1>6. Ended(a)' <=> Ended(a)
  <2>1. \A e \in a .. block - 1 : memory'[e] = memory[e]
    BY <1>1
  <2> QED
    BY <2>1, <1>1 DEF Ended
<1> QED
  BY <1>3, <1>5, <1>6

LEMMA CodesStay ==
  ASSUME BlockStays, NEW a \in Nat, Ended(a), NEW n \in DOMAIN Tables[op]
  PROVE  CodeAt(n, a)' <=> CodeAt(n, a)
<1>1. /\ op' = op /\ op \in Operations /\ block \in Nat
      /\ \A j \in 0 .. block - 1 : memory'[j] = memory[j]
  BY DEF BlockStays
<1>2. PICK e \in a .. block - 1 : memory[e] = CR
  BY DEF Ended
<1>3. e \in Nat /\ a <= e /\ e \in 0 .. block - 1 /\ e < block
  BY <1>1, <1>2
<1>4. memory'[e] = CR
  BY <1>1, <1>2, <1>3
<1>5. /\ DOMAIN Tables[op][n] = 1 .. Len(Tables[op][n]) /\ Len(Tables[op][n]) \in Nat
      /\ \A k \in DOMAIN Tables[op][n] : Tables[op][n][k] # CR
  BY <1>1, Codes
<1>6. ASSUME CodeAt(n, a) PROVE CodeAt(n, a)'
  <2> SUFFICES ASSUME NEW k \in DOMAIN Tables[op][n]
               PROVE  memory'[a + k - 1] = Tables[op][n][k]
    BY <1>1 DEF CodeAt
  <2>1. a + k - 1 < e
    BY <1>1, <1>2, <1>3, <1>6, CodeWithin
  <2>2. a + k - 1 \in 0 .. block - 1
    BY <2>1, <1>3, <1>5, <1>1
  <2>3. memory[a + k - 1] = Tables[op][n][k]
    BY <1>6 DEF CodeAt
  <2> QED
    BY <2>2, <2>3, <1>1
<1>7. ASSUME CodeAt(n, a)' PROVE CodeAt(n, a)
  <2>1. \A k \in DOMAIN Tables[op][n] : memory'[a + k - 1] = Tables[op][n][k]
    BY <1>1, <1>7 DEF CodeAt
  <2>2. ASSUME NEW k \in DOMAIN Tables[op][n] PROVE a + k - 1 < e
    <3> SUFFICES ASSUME ~(a + k - 1 < e) PROVE FALSE
      OBVIOUS
    <3>1. k \in 1 .. Len(Tables[op][n])
      BY <1>5
    <3>2. e - a + 1 \in 1 .. Len(Tables[op][n]) /\ a + (e - a + 1) - 1 = e
      BY <1>3, <1>5, <3>1
    <3>3. memory'[e] = Tables[op][n][e - a + 1]
      BY <1>5, <2>1, <3>2
    <3> QED
      BY <1>4, <1>5, <3>2, <3>3
  <2> SUFFICES ASSUME NEW k \in DOMAIN Tables[op][n]
               PROVE  memory[a + k - 1] = Tables[op][n][k]
    BY DEF CodeAt
  <2>3. a + k - 1 \in 0 .. block - 1
    BY <2>2, <1>3, <1>5, <1>1
  <2> QED
    BY <2>1, <2>3, <1>1
<1> QED
  BY <1>6, <1>7

LEMMA BlockStable ==
  ASSUME BlockStays, NEW a \in 0 .. block
  PROVE  /\ Wanted(a)' <=> Wanted(a)
         /\ Ended(a) => \A n \in DOMAIN Tables[op] : FirstCode(n, a)' <=> FirstCode(n, a)
         /\ Wanted(a) => (Done(a)' <=> Done(a))
<1>1. op' = op /\ block' = block /\ heard' = heard /\ a \in Nat
  BY DEF BlockStays
<1>2. Wanted(a)' <=> Wanted(a)
  BY <1>1, LinesStay DEF Wanted
<1>3. ASSUME Ended(a), NEW n \in DOMAIN Tables[op] PROVE FirstCode(n, a)' <=> FirstCode(n, a)
  <2>1. \A m \in DOMAIN Tables[op] : CodeAt(m, a)' <=> CodeAt(m, a)
    BY <1>1, <1>3, CodesStay
  <2> QED
    BY <2>1, <1>1 DEF FirstCode
<1>4. Wanted(a) => (Done(a)' <=> Done(a))
  <2> SUFFICES ASSUME Ended(a) PROVE Done(a)' <=> Done(a)
    BY DEF Wanted
  <2>1. \A n \in DOMAIN Tables[op] : FirstCode(n, a)' <=> FirstCode(n, a)
    BY <1>3
  <2> QED
    BY <2>1, <1>1 DEF Done
<1> QED
  BY <1>2, <1>3, <1>4

LEMMA GenuineStays ==
  ASSUME BlockStays, NEW h, h.at \in Nat, h.code \in Nat, Genuine(h)
  PROVE  Genuine(h)'
<1>1. op' = op /\ block' = block /\ h.at \in 0 .. block
  BY DEF BlockStays, Genuine
<1>2. Opens(h.at)'
  BY <1>1, LinesStay DEF Genuine
<1>3. ASSUME op = "other" PROVE Ended(h.at)' /\ FirstCode(h.code, h.at)'
  <2>1. Ended(h.at) /\ FirstCode(h.code, h.at)
    BY <1>3 DEF Genuine
  <2>2. h.code \in DOMAIN Tables[op]
    BY <2>1 DEF FirstCode
  <2> QED
    BY <1>1, <2>1, <2>2, LinesStay, BlockStable
<1> QED
  BY <1>1, <1>2, <1>3 DEF Genuine

-----------------------------------------------------------------------------
(* The steps. *)

LEMMA ParserStarts == ParserInit => ParserInv
<1> SUFFICES ASSUME ParserInit PROVE ParserInv
  OBVIOUS
<1>1. /\ memory \in [Addresses -> Characters] /\ stored = 0 /\ received = 0 /\ stage = "idle"
      /\ op = "other" /\ block = 0 /\ ix = 0 /\ pStr = 0 /\ heard = <<>>
  BY ParserAssumption DEF ParserInit
<1>2. ParserTypeOK
  <2>1. heard \in Seq([at : 0 .. BufferSize, code : Nat])
    BY <1>1
  <2> QED
    BY <1>1, <2>1, ParserConstants DEF ParserTypeOK, Operations
<1>3. Scanning /\ Heeded /\ Sound /\ InOrder
  BY <1>1 DEF Scanning, Heeded, Sound, InOrder, Busy
<1> QED
  BY <1>2, <1>3 DEF ParserInv

LEMMA ReceiveInv ==
  ASSUME ParserInv, Receive
  PROVE  ParserInv'
<1>1. /\ ParserTypeOK /\ Scanning /\ Heeded /\ Sound /\ InOrder
      /\ received < MaxPieces /\ received' = received + 1
      /\ UNCHANGED <<stage, op, block, ix, pStr, heard>>
  BY DEF ParserInv, Receive
<1>2. PICK piece \in Pieces :
        LET room == BufferSize - stored
            n == IF Len(piece) < room THEN Len(piece) ELSE room
        IN /\ stored' = stored + n
           /\ memory' = [a \in Addresses |-> IF a \in stored .. stored + n - 1
                                             THEN piece[a - stored + 1] ELSE memory[a]]
  BY DEF Receive
<1> DEFINE room == BufferSize - stored
           n == IF Len(piece) < room THEN Len(piece) ELSE room
<1>3. /\ stored' = stored + n
      /\ memory' = [a \in Addresses |-> IF a \in stored .. stored + n - 1
                                        THEN piece[a - stored + 1] ELSE memory[a]]
  BY <1>2
<1>4. piece \in Seq(Characters) /\ Len(piece) \in Nat
  BY ParserAssumption, LenProperties
<1>5. /\ stored \in Nat /\ stored <= BufferSize /\ BufferSize \in Nat /\ received \in Nat
      /\ block \in Nat /\ block <= BufferSize /\ op \in Operations
      /\ memory \in [Addresses -> Characters] /\ Margin \in Nat /\ MaxPieces \in Nat
      /\ DOMAIN heard = 1 .. Len(heard)
      /\ \A k \in DOMAIN heard : heard[k].at \in Nat /\ heard[k].code \in Nat
  BY <1>1, ParserShapes, ParserConstants
<1>6. n \in Nat /\ n <= Len(piece) /\ stored + n <= BufferSize
  BY <1>4, <1>5
<1> HIDE DEF n
<1>7. memory' \in [Addresses -> Characters]
  <2> SUFFICES ASSUME NEW a \in Addresses
               PROVE  (IF a \in stored .. stored + n - 1
                       THEN piece[a - stored + 1] ELSE memory[a]) \in Characters
    BY <1>3
  <2>1. ASSUME a \in stored .. stored + n - 1 PROVE piece[a - stored + 1] \in Characters
    <3>1. a - stored + 1 \in 1 .. Len(piece)
      BY <1>4, <1>5, <1>6, <2>1
    <3> QED
      BY <3>1, <1>4, ElementOfSeq
  <2> QED
    BY <2>1, <1>5
<1>8. ParserTypeOK'
  <2>1. stored' \in 0 .. BufferSize /\ received' \in 0 .. MaxPieces
    BY <1>1, <1>3, <1>5, <1>6
  <2> QED
    BY <1>1, <1>7, <2>1 DEF ParserTypeOK
<1>9. Busy' = Busy
  BY <1>1 DEF Busy
<1>10. CASE ~Busy
  <2>1. ~Busy'
    BY <1>9, <1>10
  <2>2. Scanning'
    BY <2>1 DEF Scanning, Busy
  <2> QED
    BY <2>1, <2>2, <1>8 DEF ParserInv, Heeded, Sound, InOrder
<1>11. CASE Busy
  <2>1. block <= stored /\ block <= stored'
    BY <1>1, <1>3, <1>5, <1>6, <1>11 DEF Scanning
  <2>2. BlockStays
    <3>1. ASSUME NEW j \in 0 .. block - 1 PROVE memory'[j] = memory[j]
      <4>1. j \in Addresses /\ ~(j \in stored .. stored + n - 1)
        BY <2>1, <1>5, ParserConstants
      <4> QED
        BY <4>1, <1>3
    <3> QED
      BY <3>1, <1>1, <1>5 DEF BlockStays
  <2>3. Scanning'
    <3>1. stage = "line" /\ pStr <= block => pStr \in 0 .. block /\ Opens(pStr)
      BY <1>1, <1>5, ParserShapes DEF Scanning
    <3>2. stage = "match" => pStr \in 0 .. block /\ Opens(pStr)
                             /\ (op = "other" => Ended(pStr))
      BY <1>1, <1>5, ParserShapes DEF Scanning
    <3>3. /\ stage = "line" /\ pStr <= block => Opens(pStr)'
          /\ stage = "match" => Opens(pStr)' /\ (op = "other" => Ended(pStr)')
      <4>1. ASSUME pStr \in 0 .. block
            PROVE  (Opens(pStr)' <=> Opens(pStr)) /\ (Ended(pStr)' <=> Ended(pStr))
        BY <4>1, <2>2, <1>1, LinesStay DEF Opens, Ended
      <4> QED
        BY <3>1, <3>2, <4>1
    <3> QED
      BY <1>1, <1>11, <2>1, <3>3 DEF Scanning, Busy
  <2>4. Heeded'
    <3>1. \A a \in 0 .. block - 1 : Wanted(a) => Ahead(a) \/ Done(a)
      BY <1>1, <1>11 DEF Heeded
    <3> SUFFICES ASSUME NEW a \in 0 .. block - 1, Wanted(a)' PROVE Ahead(a)' \/ Done(a)'
      BY <1>1 DEF Heeded
    <3>2. a \in 0 .. block
      BY <1>5
    <3>3. Wanted(a) /\ (Done(a)' <=> Done(a))
      BY <3>2, <2>2, BlockStable
    <3>4. Ahead(a)' = Ahead(a)
      BY <1>1 DEF Ahead
    <3> QED
      BY <3>1, <3>3, <3>4
  <2>5. Sound'
    <3> SUFFICES ASSUME NEW k \in DOMAIN heard
                 PROVE  Genuine(heard[k])' /\ Passed(heard[k].at)'
      BY <1>1 DEF Sound
    <3>1. Genuine(heard[k]) /\ Passed(heard[k].at)
      BY <1>1, <1>11 DEF Sound
    <3> DEFINE h == heard[k]
    <3>2. Passed(h.at)'
      BY <1>1, <3>1 DEF Passed
    <3>3. h' = h /\ h.at \in Nat /\ h.code \in Nat
      BY <1>1, <1>5
    <3>4. Genuine(h)'
      <4>1. PICK g : g = heard[k]
        OBVIOUS
      <4>2. Genuine(g)'
        BY <4>1, <3>1, <3>3, <2>2, GenuineStays
      <4>3. heard'[k] = g
        BY <4>1, <1>1
      <4> QED
        BY <4>2, <4>3 DEF Genuine
    <3> QED
      BY <3>2, <3>4
  <2>6. InOrder'
    BY <1>1, <1>11 DEF InOrder
  <2> QED
    BY <1>8, <2>3, <2>4, <2>5, <2>6 DEF ParserInv
<1> QED
  BY <1>10, <1>11

LEMMA BlockComesInv ==
  ASSUME ParserInv, BlockComes
  PROVE  ParserInv'
<1>1. /\ ParserTypeOK /\ stage' = "scan" /\ block' = stored /\ ix' = 0 /\ heard' = <<>>
      /\ op' \in Operations /\ UNCHANGED <<memory, stored, received, pStr>>
  BY DEF ParserInv, BlockComes
<1>2. stored \in Nat /\ stored <= BufferSize /\ BufferSize \in Nat
  BY <1>1, ParserShapes, ParserConstants
<1>3. ParserTypeOK'
  <2>1. heard' \in Seq([at : 0 .. BufferSize, code : Nat])
    BY <1>1
  <2>2. block' \in 0 .. BufferSize /\ ix' \in 0 .. BufferSize + 4
    BY <1>1, <1>2
  <2> QED
    BY <1>1, <2>1, <2>2 DEF ParserTypeOK
<1>4. Scanning'
  BY <1>1, <1>2 DEF Scanning
<1>5. Heeded'
  <2> SUFFICES ASSUME NEW a \in 0 .. stored - 1, Wanted(a)' PROVE Ahead(a)'
    BY <1>1 DEF Heeded
  <2>1. a >= 2
    BY DEF Wanted, SetOff, Opens
  <2> QED
    BY <2>1, <1>1 DEF Ahead
<1>6. Sound' /\ InOrder'
  BY <1>1 DEF Sound, InOrder
<1> QED
  BY <1>3, <1>4, <1>5, <1>6 DEF ParserInv

(* A step of the loop: what was ahead still is or was heard, what was      *)
(* passed is.                                                              *)
LEMMA Onward ==
  ASSUME ParserInv, Busy, Busy', UNCHANGED <<memory, stored, received, op, block, heard>>,
         ix' \in Nat, ix' <= block + 4, pStr' \in 0 .. BufferSize + 1, Scanning',
         \A a \in 0 .. block - 1 : Wanted(a) /\ Ahead(a) => Ahead(a)',
         \A a \in Nat : Passed(a) => Passed(a)'
  PROVE  ParserInv'
<1>1. ParserTypeOK /\ Heeded /\ Sound /\ InOrder
  BY DEF ParserInv
<1>2. /\ block \in Nat /\ block <= BufferSize /\ BufferSize \in Nat
      /\ \A k \in DOMAIN heard : heard[k].at \in Nat
  BY <1>1, ParserShapes, ParserConstants
<1>3. ParserTypeOK'
  <2>1. ix' \in 0 .. BufferSize + 4
    BY <1>2
  <2>2. stage' \in {"idle", "scan", "line", "match", "reopen", "astray"}
    BY DEF Busy
  <2> QED
    BY <1>1, <2>1, <2>2 DEF ParserTypeOK
<1>4. Heeded'
  <2> SUFFICES ASSUME NEW a \in 0 .. block - 1, Wanted(a)' PROVE Ahead(a)' \/ Done(a)'
    BY DEF Heeded
  <2>1. Wanted(a) /\ (Done(a)' = Done(a))
    BY SameBlock
  <2> QED
    BY <1>1, <2>1 DEF Heeded
<1>5. Sound'
  <2> SUFFICES ASSUME NEW k \in DOMAIN heard
               PROVE  Genuine(heard[k])' /\ Passed(heard[k].at)'
    BY DEF Sound
  <2>1. PICK h : h = heard[k]
    OBVIOUS
  <2>2. Genuine(h) /\ Passed(h.at) /\ h.at \in Nat
    BY <1>1, <1>2, <2>1 DEF Sound
  <2>3. Genuine(h)' /\ Passed(h.at)'
    BY <2>2, SameBlock
  <2>4. heard'[k] = h
    BY <2>1
  <2> QED
    BY <2>3, <2>4 DEF Genuine, Passed
<1>6. InOrder'
  BY <1>1 DEF InOrder
<1> QED
  BY <1>3, <1>4, <1>5, <1>6 DEF ParserInv

(* No answer begins where a character is left behind.                      *)
LEMMA SkipInv ==
  ASSUME ParserInv, SkipCharacter \/ SkipPair
  PROVE  ParserInv'
<1>1. /\ ParserTypeOK /\ Scanning /\ stage = "scan" /\ stage' = "scan" /\ ix < block
      /\ UNCHANGED <<memory, stored, received, op, block, pStr, heard>>
      /\ \/ memory[ix] # CR /\ ix' = ix + 1
         \/ memory[ix] = CR /\ memory[ix + 1] # LF /\ ix' = ix + 2
  BY DEF ParserInv, SkipCharacter, SkipPair
<1>2. ix \in Nat /\ block \in Nat /\ pStr \in Nat /\ CR # LF
  BY <1>1, ParserShapes, ParserConstants
<1>3. Busy /\ Busy' /\ ix' \in Nat /\ ix' <= block + 4
  BY <1>1, <1>2 DEF Busy
<1>4. Scanning'
  BY <1>1, <1>3 DEF Scanning, Busy
<1>5. ASSUME NEW a \in 0 .. block - 1, Wanted(a), Ahead(a) PROVE Ahead(a)'
  <2>1. /\ a \in Nat /\ a >= ix + 2 /\ a >= 2 /\ memory[a - 2] = CR /\ memory[a - 1] = LF
        /\ a # 2 => a >= 4 /\ memory[a - 2 - 2] = CR /\ memory[a - 2 - 1] = LF
    BY <1>1, <1>2, <1>5 DEF Wanted, Ahead, SetOff, Opens
  <2>2. a # ix + 2
    <3> SUFFICES ASSUME a = ix + 2 PROVE FALSE
      OBVIOUS
    <3>1. a - 2 = ix /\ a - 1 = ix + 1
      BY <1>2
    <3> QED
      BY <3>1, <2>1, <1>1
  <2>3. CASE ix' = ix + 1
    BY <2>1, <2>2, <2>3, <1>1, <1>2 DEF Ahead
  <2>4. CASE memory[ix] = CR /\ ix' = ix + 2
    <3>1. a # ix + 3
      <4> SUFFICES ASSUME a = ix + 3 PROVE FALSE
        OBVIOUS
      <4>1. a - 2 - 1 = ix /\ a # 2
        BY <1>2
      <4> QED
        BY <4>1, <2>1, <2>4, <1>2
    <3> QED
      BY <3>1, <2>1, <2>2, <2>4, <1>1, <1>2 DEF Ahead
  <2> QED
    BY <2>3, <2>4, <1>1
<1>6. ASSUME NEW a \in Nat, Passed(a) PROVE Passed(a)'
  BY <1>1, <1>2, <1>6 DEF Passed
<1>7. pStr' \in 0 .. BufferSize + 1
  BY <1>1 DEF ParserTypeOK
<1> QED
  BY <1>1, <1>3, <1>4, <1>5, <1>6, <1>7, Onward

LEMMA LineBeginsInv ==
  ASSUME ParserInv, LineBegins
  PROVE  ParserInv'
<1>1. /\ ParserTypeOK /\ Scanning /\ stage = "scan" /\ stage' = "line" /\ ix < block
      /\ memory[ix] = CR /\ memory[ix + 1] = LF /\ ix' = ix + 2 /\ pStr' = ix + 2
      /\ UNCHANGED <<memory, stored, received, op, block, heard>>
  BY DEF ParserInv, LineBegins
<1>2. ix \in Nat /\ block \in Nat /\ block <= BufferSize /\ BufferSize \in Nat
  BY <1>1, ParserShapes, ParserConstants
<1>3. Busy /\ Busy' /\ ix' \in Nat /\ ix' <= block + 4 /\ pStr' \in 0 .. BufferSize + 1
  BY <1>1, <1>2 DEF Busy
<1>4. Scanning'
  <2>1. pStr' - 2 = ix /\ pStr' - 1 = ix + 1 /\ pStr' >= 2 /\ pStr' <= block + 1
    BY <1>1, <1>2
  <2>2. Opens(pStr)'
    BY <1>1, <2>1 DEF Opens
  <2> QED
    BY <1>1, <2>1, <2>2 DEF Scanning, Busy
<1>5. ASSUME NEW a \in 0 .. block - 1, Wanted(a), Ahead(a) PROVE Ahead(a)'
  BY <1>1, <1>5 DEF Ahead
<1>6. ASSUME NEW a \in Nat, Passed(a) PROVE Passed(a)'
  BY <1>1, <1>2, <1>6 DEF Passed
<1> QED
  BY <1>1, <1>3, <1>4, <1>5, <1>6, Onward

(* Where the index goes from a line that ends at e.                        *)
LEMMA BehindLine ==
  ASSUME ix \in Nat, pStr = ix, NEW e \in Nat, pStr <= e
  PROVE  /\ e > pStr => Behind(e - pStr) \in {e + 1, e + 2}
         /\ e = pStr => \/ Behind(e - pStr) = pStr - 1
                        \/ Behind(e - pStr) = pStr
<1>1. ix + 1 + (e - pStr) = e + 1 /\ (e - pStr = 0 <=> e = pStr)
  OBVIOUS
<1>2. Behind(e - pStr) = LET m == IF memory[e + 1] = LF THEN e + 1 + 1 ELSE e + 1
                         IN IF e - pStr = 0 THEN m - 2 ELSE m
  BY <1>1 DEF Behind
<1> QED
  BY <1>1, <1>2

(* An answer behind this line begins behind its end, and with another CR LF*)
(* before its own; back at the end of an empty line, that is ahead again.  *)
LEMMA LineEndsInv ==
  ASSUME ParserInv, LineEnds
  PROVE  ParserInv'
<1>1. /\ ParserTypeOK /\ Scanning /\ stage = "line" /\ stage' = "match"
      /\ UNCHANGED <<memory, stored, received, op, block, pStr, heard>>
  BY DEF ParserInv, LineEnds
<1>2. PICK e \in Ends : FirstEnd(e) /\ ix' = Behind(e - pStr)
  BY DEF LineEnds
<1>3. /\ ix \in Nat /\ pStr \in Nat /\ block \in Nat /\ block <= BufferSize /\ BufferSize \in Nat
      /\ CR # LF /\ pStr = ix /\ 2 <= pStr
  BY <1>1, ParserShapes, ParserConstants DEF Scanning
<1>4. /\ e \in Nat /\ pStr <= e /\ e < block /\ memory[e] = CR
      /\ \A f \in pStr .. block - 1 : memory[f] = CR => e <= f
  BY <1>2, <1>3 DEF Ends, FirstEnd
<1>5. /\ e > pStr => ix' \in {e + 1, e + 2}
      /\ e = pStr => ix' = pStr - 1 \/ ix' = pStr
  BY <1>2, <1>3, <1>4, BehindLine
<1>6. Busy /\ Busy' /\ ix' \in Nat /\ ix' <= block + 4 /\ pStr' \in 0 .. BufferSize + 1
  BY <1>1, <1>3, <1>4, <1>5 DEF Busy
<1>7. Opens(pStr) /\ memory[pStr - 1] = LF
  BY <1>1, <1>3, <1>4 DEF Scanning, Opens
<1>8. Scanning'
  <2>1. Ended(pStr)
    BY <1>3, <1>4 DEF Ended
  <2>2. pStr <= block /\ pStr <= ix' + 1
    BY <1>3, <1>4, <1>5
  <2>3. Opens(pStr)' /\ Ended(pStr)'
    BY <1>1, <1>7, <2>1 DEF Opens, Ended
  <2> QED
    BY <1>1, <1>3, <1>6, <2>2, <2>3 DEF Scanning, Busy
<1>9. ASSUME NEW a \in 0 .. block - 1, Wanted(a), Ahead(a) PROVE Ahead(a)'
  <2>1. /\ a \in Nat /\ a < block /\ a >= pStr /\ a >= 2 /\ memory[a - 2] = CR
        /\ a # 2 => a >= 4 /\ memory[a - 2 - 2] = CR
    BY <1>1, <1>3, <1>9 DEF Wanted, Ahead, SetOff, Opens
  <2>2. CASE a = pStr
    BY <2>2, <1>1 DEF Ahead
  <2>3. CASE a > pStr
    <3>1. a # pStr + 1
      <4> SUFFICES ASSUME a = pStr + 1 PROVE FALSE
        OBVIOUS
      <4>1. a - 2 = pStr - 1
        BY <1>3
      <4> QED
        BY <4>1, <2>1, <1>7, <1>3
    <3>2. a >= e + 2
      <4>1. a - 2 \in pStr .. block - 1
        BY <1>3, <2>1, <2>3, <3>1
      <4>2. e <= a - 2
        BY <4>1, <2>1, <1>4
      <4> QED
        BY <4>2, <1>4, <2>1
    <3>3. CASE e = pStr
      BY <3>2, <3>3, <1>1, <1>3, <1>5, <2>1 DEF Ahead
    <3>4. CASE e > pStr
      <4>1. a - 2 - 2 # pStr - 1
        BY <1>3, <1>7, <2>1, <2>3
      <4>2. a - 2 - 2 \in pStr .. block - 1
        BY <4>1, <1>3, <1>4, <2>1, <3>2, <3>4
      <4>3. e <= a - 2 - 2
        BY <4>2, <1>3, <1>4, <2>1, <2>3
      <4>4. a >= ix' + 2
        BY <4>3, <3>4, <1>3, <1>4, <1>5, <2>1
      <4> QED
        BY <4>4, <1>1 DEF Ahead
    <3> QED
      BY <3>3, <3>4, <1>3, <1>4
  <2> QED
    BY <2>1, <2>2, <2>3, <1>3
<1>10. ASSUME NEW a \in Nat, Passed(a) PROVE Passed(a)'
  BY <1>1, <1>10 DEF Passed
<1> QED
  BY <1>1, <1>6, <1>8, <1>9, <1>10, Onward

(* A line without an end holds no answer that has one.                     *)
LEMMA LineOpenInv ==
  ASSUME ParserInv, LineOpen
  PROVE  ParserInv'
<1>1. /\ ParserTypeOK /\ Scanning /\ stage = "line" /\ pStr <= block /\ Ends = {}
      /\ UNCHANGED <<memory, stored, received, op, block, pStr, heard>>
      /\ \/ op = "sms" /\ stage' = "match" /\ ix' = Behind(2)
         \/ op # "sms" /\ stage' = "reopen" /\ ix' = ix
  BY DEF ParserInv, LineOpen
<1>2. /\ ix \in Nat /\ pStr \in Nat /\ block \in Nat /\ block <= BufferSize /\ BufferSize \in Nat
      /\ pStr = ix /\ 2 <= pStr /\ Opens(pStr)
  BY <1>1, ParserShapes, ParserConstants DEF Scanning
<1>3. op = "sms" => ix' \in {ix + 3, ix + 4}
  <2>1. Behind(2) \in {ix + 3, ix + 4}
    <3>1. ix + 1 + 2 = ix + 3 /\ ix + 1 + 2 + 1 = ix + 4 /\ 2 # 0
      BY <1>2
    <3>2. Behind(2) = LET m == IF memory[ix + 3] = LF THEN ix + 4 ELSE ix + 3
                      IN IF 2 = 0 THEN m - 2 ELSE m
      BY <3>1 DEF Behind
    <3> QED
      BY <3>1, <3>2
  <2> QED
    BY <1>1, <2>1
<1>4. Busy /\ Busy' /\ ix' \in Nat /\ ix' <= block + 4 /\ pStr' \in 0 .. BufferSize + 1
  BY <1>1, <1>2, <1>3 DEF Busy
<1>5. Scanning'
  <2>1. Opens(pStr)' /\ pStr <= ix' + 1
    BY <1>1, <1>2, <1>3 DEF Opens
  <2>2. op = "sms" => op # "other"
    OBVIOUS
  <2> QED
    BY <1>1, <1>2, <1>4, <2>1, <2>2 DEF Scanning, Busy
<1>6. ASSUME NEW a \in 0 .. block - 1, Wanted(a), Ahead(a) PROVE Ahead(a)'
  <2>1. a \in Nat /\ a >= pStr
    BY <1>1, <1>2, <1>6 DEF Ahead
  <2>2. PICK e \in a .. block - 1 : memory[e] = CR
    BY <1>6 DEF Wanted, Ended
  <2>3. e \in pStr .. block - 1
    BY <2>1, <2>2, <1>2
  <2> QED
    BY <2>2, <2>3, <1>1 DEF Ends
<1>7. ASSUME NEW a \in Nat, Passed(a) PROVE Passed(a)'
  BY <1>1, <1>2, <1>7 DEF Passed
<1> QED
  BY <1>1, <1>4, <1>5, <1>6, <1>7, Onward

LEMMA LoopEndsInv ==
  ASSUME ParserInv, LoopEnds
  PROVE  ParserInv'
<1>1. /\ ParserTypeOK /\ Scanning /\ stage = "scan" /\ stage' = "reopen" /\ ix >= block
      /\ UNCHANGED <<memory, stored, received, op, block, ix, pStr, heard>>
  BY DEF ParserInv, LoopEnds
<1>2. /\ ix \in Nat /\ block \in Nat
  BY <1>1, ParserShapes
<1>3. Busy /\ Busy' /\ ix' \in Nat /\ ix' <= block + 4 /\ pStr' \in 0 .. BufferSize + 1
  BY <1>1, <1>2 DEF Busy, Scanning, ParserTypeOK
<1>4. Scanning'
  BY <1>1 DEF Scanning, Busy
<1>5. ASSUME NEW a \in 0 .. block - 1, Wanted(a), Ahead(a) PROVE Ahead(a)'
  <2>1. a >= ix + 2 /\ a \in Nat /\ a < block
    BY <1>1, <1>2, <1>5 DEF Ahead
  <2> QED
    BY <2>1, <1>1, <1>2
<1>6. ASSUME NEW a \in Nat, Passed(a) PROVE Passed(a)'
  BY <1>1 DEF Passed
<1> QED
  BY <1>1, <1>3, <1>4, <1>5, <1>6, Onward

(* The parser leaves the block. *)
LEMMA LeavesInv ==
  ASSUME ParserInv, GoesAstray \/ ParserReopens
  PROVE  ParserInv'
<1>1. /\ ParserTypeOK /\ stage' \in {"astray", "idle"} /\ stored' \in {0, stored}
      /\ UNCHANGED <<memory, received, op, block, ix, pStr, heard>>
  BY DEF ParserInv, GoesAstray, ParserReopens
<1>2. ParserTypeOK'
  BY <1>1, ParserConstants DEF ParserTypeOK
<1>3. Scanning' /\ ~Busy'
  BY <1>1 DEF Scanning, Busy
<1> QED
  BY <1>2, <1>3 DEF ParserInv, Heeded, Sound, InOrder

(* The code of a line, if it has one, is heard behind the others.          *)
LEMMA MatchInv ==
  ASSUME ParserInv, Match
  PROVE  ParserInv'
<1>1. /\ ParserTypeOK /\ Scanning /\ Heeded /\ Sound /\ InOrder
      /\ stage = "match" /\ stage' = "scan"
      /\ UNCHANGED <<memory, stored, received, op, block, ix, pStr>>
  BY DEF ParserInv, Match
<1>2. /\ ix \in Nat /\ pStr \in Nat /\ block \in Nat /\ block <= BufferSize /\ BufferSize \in Nat
      /\ op \in Operations /\ Len(heard) \in Nat /\ DOMAIN heard = 1 .. Len(heard)
      /\ \A k \in DOMAIN heard : heard[k].at \in Nat /\ heard[k].code \in Nat
      /\ heard \in Seq([at : 0 .. BufferSize, code : Nat])
  BY <1>1, ParserShapes, ParserConstants DEF ParserTypeOK
<1>3. /\ 2 <= pStr /\ pStr <= block /\ Opens(pStr) /\ pStr <= ix + 1 /\ ix <= block + 4
      /\ op = "other" => Ended(pStr)
      /\ block <= stored
  BY <1>1 DEF Scanning, Busy
<1>4. Scanning'
  BY <1>1, <1>3 DEF Scanning
<1>5. \A a \in 0 .. block - 1 : Wanted(a) => Ahead(a) \/ Done(a)
  BY <1>1 DEF Heeded, Busy
<1>6. \A k \in DOMAIN heard : Genuine(heard[k]) /\ Passed(heard[k].at)
  BY <1>1 DEF Sound, Busy
<1>7. \A j, k \in DOMAIN heard : j < k => heard[j].at < heard[k].at
  BY <1>1 DEF InOrder, Busy
<1>8. \A a : /\ Wanted(a)' = Wanted(a) /\ Opens(a)' = Opens(a) /\ Ended(a)' = Ended(a)
             /\ \A n : FirstCode(n, a)' = FirstCode(n, a)
  BY <1>1 DEF Wanted, Opens, Ended, SetOff, FirstCode, CodeAt
<1>9. \A h : Genuine(h)' = Genuine(h)
  BY <1>1 DEF Genuine, Opens, Ended, FirstCode, CodeAt
<1>10. \A a \in Nat : Passed(a) => Passed(a)' /\ a < pStr
  BY <1>1, <1>2, <1>3 DEF Passed
<1>11. CASE (\A n \in DOMAIN Tables[op] : ~CodeAt(n, pStr)) /\ heard' = heard
  <2>1. ParserTypeOK'
    BY <1>1, <1>11 DEF ParserTypeOK
  <2>2. Heeded'
    <3> SUFFICES ASSUME NEW a \in 0 .. block - 1, Wanted(a) PROVE Ahead(a)' \/ Done(a)'
      BY <1>1, <1>8 DEF Heeded
    <3>1. CASE Done(a)
      BY <3>1, <1>1, <1>8, <1>11 DEF Done
    <3>2. CASE a = pStr
      BY <3>2, <1>1, <1>8, <1>11 DEF Done, FirstCode
    <3>3. CASE a >= ix + 2
      BY <3>3, <1>1 DEF Ahead
    <3>4. Ahead(a) => a = pStr \/ a >= ix + 2
      BY <1>1 DEF Ahead
    <3> QED
      BY <3>1, <3>2, <3>3, <3>4, <1>5
  <2>3. Sound'
    <3> SUFFICES ASSUME NEW k \in DOMAIN heard
                 PROVE  Genuine(heard[k])' /\ Passed(heard[k].at)'
      BY <1>11 DEF Sound
    <3>1. PICK h : h = heard[k]
      OBVIOUS
    <3>2. Genuine(h) /\ Passed(h.at) /\ h.at \in Nat
      BY <1>2, <1>6, <3>1
    <3>3. Genuine(h)' /\ Passed(h.at)' /\ heard'[k] = h
      BY <3>1, <3>2, <1>9, <1>10, <1>11
    <3> QED
      BY <3>3 DEF Genuine, Passed
  <2>4. InOrder'
    BY <1>7, <1>11 DEF InOrder
  <2> QED
    BY <2>1, <2>2, <2>3, <2>4, <1>4 DEF ParserInv
<1>12. ASSUME NEW n \in DOMAIN Tables[op], FirstCode(n, pStr),
              heard' = Append(heard, [at |-> pStr, code |-> n])
       PROVE  ParserInv'
  <2> DEFINE new == [at |-> pStr, code |-> n]
  <2>1. n \in Nat /\ new \in [at : 0 .. BufferSize, code : Nat] /\ new.at = pStr /\ new.code = n
    BY <1>2, <1>3, Codes
  <2> HIDE DEF new
  <2>2. heard' = Append(heard, new)
    BY <1>12 DEF new
  <2>3. /\ heard' \in Seq([at : 0 .. BufferSize, code : Nat])
        /\ DOMAIN heard' = 1 .. Len(heard) + 1
        /\ \A k \in 1 .. Len(heard) : heard'[k] = heard[k]
        /\ heard'[Len(heard) + 1] = new
    BY <1>2, <2>1, <2>2, AppendProperties, LenProperties
  <2>4. ParserTypeOK'
    BY <1>1, <2>3 DEF ParserTypeOK
  <2>5. Heeded'
    <3> SUFFICES ASSUME NEW a \in 0 .. block - 1, Wanted(a) PROVE Ahead(a)' \/ Done(a)'
      BY <1>1, <1>8 DEF Heeded
    <3>1. CASE Done(a)
      <4> SUFFICES ASSUME NEW m \in DOMAIN Tables[op], FirstCode(m, a)
                   PROVE  \E k \in DOMAIN heard' : heard'[k] = [at |-> a, code |-> m]
        BY <1>1, <1>8 DEF Done
      <4>1. PICK k \in DOMAIN heard : heard[k] = [at |-> a, code |-> m]
        BY <3>1 DEF Done
      <4>2. k \in 1 .. Len(heard) + 1 /\ k \in 1 .. Len(heard)
        BY <1>2, <4>1
      <4> QED
        BY <4>1, <4>2, <2>3
    <3>2. CASE a = pStr
      <4> SUFFICES ASSUME NEW m \in DOMAIN Tables[op], FirstCode(m, pStr)
                   PROVE  \E k \in DOMAIN heard' : heard'[k] = [at |-> pStr, code |-> m]
        BY <3>2, <1>1, <1>8 DEF Done
      <4>1. m \in Nat /\ m <= n /\ n <= m
        BY <1>2, <1>12, Codes DEF FirstCode
      <4>2. m = n
        BY <4>1, <2>1
      <4>3. heard'[Len(heard) + 1] = [at |-> pStr, code |-> m] /\ Len(heard) + 1 \in DOMAIN heard'
        BY <4>2, <2>3, <1>2 DEF new
      <4> QED
        BY <4>3
    <3>3. CASE a >= ix + 2
      BY <3>3, <1>1 DEF Ahead
    <3>4. Ahead(a) => a = pStr \/ a >= ix + 2
      BY <1>1 DEF Ahead
    <3> QED
      BY <3>1, <3>2, <3>3, <3>4, <1>5
  <2>6. PICK h : h = new
    OBVIOUS
  <2>7. Genuine(h)' /\ Passed(h.at)'
    <3>1. Genuine(h) /\ h.at = pStr
      BY <1>3, <1>12, <2>1, <2>6 DEF Genuine
    <3>2. Passed(h.at)'
      BY <3>1, <1>1, <1>3 DEF Passed
    <3> QED
      BY <3>1, <3>2, <1>9
  <2>8. Sound'
    <3> SUFFICES ASSUME NEW k \in 1 .. Len(heard) + 1
                 PROVE  Genuine(heard[k])' /\ Passed(heard[k].at)'
      BY <2>3 DEF Sound
    <3>1. CASE k = Len(heard) + 1
      <4>1. heard'[k] = h
        BY <2>3, <2>6, <3>1
      <4> QED
        BY <4>1, <2>7 DEF Genuine, Passed
    <3>2. CASE k \in 1 .. Len(heard)
      <4>1. PICK g : g = heard[k]
        OBVIOUS
      <4>2. Genuine(g) /\ Passed(g.at) /\ g.at \in Nat
        BY <1>2, <1>6, <3>2, <4>1
      <4>3. Genuine(g)' /\ Passed(g.at)' /\ heard'[k] = g
        BY <4>1, <4>2, <3>2, <1>9, <1>10, <2>3
      <4> QED
        BY <4>3 DEF Genuine, Passed
    <3> QED
      BY <3>1, <3>2, <1>2
  <2>9. InOrder'
    <3> SUFFICES ASSUME NEW j \in 1 .. Len(heard) + 1, NEW k \in 1 .. Len(heard) + 1, j < k
                 PROVE  heard'[j].at < heard'[k].at
      BY <2>3 DEF InOrder
    <3>1. j \in 1 .. Len(heard)
      BY <1>2
    <3>2. heard'[j] = heard[j]
      BY <3>1, <2>3
    <3>3. CASE k = Len(heard) + 1
      <4>1. heard'[k].at = pStr
        BY <2>1, <2>3, <3>3
      <4>2. heard[j].at \in Nat /\ Passed(heard[j].at)
        BY <1>2, <1>6, <3>1
      <4> QED
        BY <4>1, <4>2, <3>2, <1>10
    <3>4. CASE k \in 1 .. Len(heard)
      <4>1. heard'[k] = heard[k] /\ j \in DOMAIN heard /\ k \in DOMAIN heard
        BY <3>1, <3>4, <2>3, <1>2
      <4> QED
        BY <4>1, <3>2, <1>7
    <3> QED
      BY <3>3, <3>4, <1>2
  <2> QED
    BY <2>4, <2>5, <2>8, <2>9, <1>4 DEF ParserInv
<1> QED
  BY <1>11, <1>12 DEF Match

-----------------------------------------------------------------------------

LEMMA ParserNextInv ==
  ASSUME ParserInv, [ParserNext]_parserVars
  PROVE  ParserInv'
<1>1. CASE UNCHANGED parserVars
  <2>1. UNCHANGED <<memory, stored, received, stage, op, block, ix, pStr, heard>>
    BY <1>1 DEF parserVars
  <2>2. ParserTypeOK' /\ Scanning' /\ Busy' = Busy
    BY <2>1 DEF ParserInv, ParserTypeOK, Scanning, Busy, Opens, Ended
  <2>3. Heeded'
    BY <2>1, <2>2 DEF ParserInv, Heeded, Wanted, SetOff, Opens, Ended, Ahead, Done, FirstCode,
       CodeAt
  <2>4. Sound' /\ InOrder'
    BY <2>1, <2>2 DEF ParserInv, Sound, InOrder, Genuine, Passed, Opens, Ended, FirstCode, CodeAt
  <2> QED
    BY <2>2, <2>3, <2>4 DEF ParserInv
<1>2. CASE ParserNext
  BY <1>2, ReceiveInv, BlockComesInv, SkipInv, LineBeginsInv, LineEndsInv, LineOpenInv,
     LeavesInv, MatchInv, LoopEndsInv DEF ParserNext
<1> QED
  BY <1>1, <1>2

(* The parser's invariant holds in every run. *)
LEMMA ParserHolds == ParserSpec => []ParserInv
BY ParserStarts, ParserNextInv, PTL DEF ParserSpec

(* The index is never more than four characters past the buffer, where the *)
(* parser looks for an LF or for the length of a code.                     *)
THEOREM ParserTypesHold == ParserSpec => []ParserTypeOK
BY ParserHolds, PTL DEF ParserInv

LEMMA HeededIsHeard == ParserInv => AnswersHeard
<1> SUFFICES ASSUME ParserInv, stage = "reopen" PROVE AnswersHeard
  BY DEF AnswersHeard
<1>1. Busy /\ Heeded /\ Sound /\ InOrder
  BY DEF ParserInv, Busy
<1>2. \A a \in 0 .. block - 1, n \in DOMAIN Tables[op] :
        SetOff(a) /\ Ended(a) /\ FirstCode(n, a) =>
          \E k \in DOMAIN heard : heard[k] = [at |-> a, code |-> n]
  <2> SUFFICES ASSUME NEW a \in 0 .. block - 1, NEW n \in DOMAIN Tables[op],
                      SetOff(a), Ended(a), FirstCode(n, a)
               PROVE  \E k \in DOMAIN heard : heard[k] = [at |-> a, code |-> n]
    OBVIOUS
  <2>1. Wanted(a) /\ ~Ahead(a)
    BY DEF Wanted, Ahead
  <2>2. Done(a)
    BY <1>1, <2>1 DEF Heeded
  <2> QED
    BY <2>2 DEF Done
<1>3. \A j, k \in DOMAIN heard : j < k => heard[j].at < heard[k].at
  BY <1>1 DEF InOrder
<1>4. \A k \in DOMAIN heard : Genuine(heard[k])
  BY <1>1 DEF Sound
<1> QED
  BY <1>2, <1>3, <1>4 DEF AnswersHeard, Genuine

(* Whatever a block holds besides, and whatever lies behind it: a result   *)
(* code in a line of its own with an empty line before it is heard once,   *)
(* and in the order of the lines; outside of the SMS operations nothing is *)
(* heard that is not a line of the block.                                  *)
THEOREM AnswersAreHeard == ParserSpec => []AnswersHeard
BY ParserHolds, HeededIsHeard, PTL

(* How far the loop is from its end: three for every character, and less   *)
(* for a line that is begun than for the two characters before it.         *)
InLoop == stage \in {"scan", "line", "match"}
ToGo ==
  IF stage = "scan" THEN 3 * (block + 5 - ix)
  ELSE IF stage = "line" THEN 3 * (block + 5 - ix) + 5
  ELSE 3 * (block + 5 - ix) + 1
GoesOn == InLoop /\ InLoop' /\ received' = received => ToGo' \in Nat /\ ToGo' < ToGo

LEMMA StepGoesOn ==
  ASSUME ParserInv, ParserNext
  PROVE  GoesOn
<1> SUFFICES ASSUME InLoop, InLoop', received' = received
             PROVE  ToGo' \in Nat /\ ToGo' < ToGo
  BY DEF GoesOn
<1>1. ParserTypeOK /\ Scanning
  BY DEF ParserInv
<1>2. ix \in Nat /\ block \in Nat /\ received \in Nat /\ pStr \in Nat
  BY <1>1, ParserShapes
<1>3. CASE Receive \/ BlockComes \/ LoopEnds \/ GoesAstray \/ ParserReopens
  BY <1>2, <1>3 DEF InLoop, Receive, BlockComes, LoopEnds, GoesAstray, ParserReopens
<1>4. CASE SkipCharacter \/ SkipPair
  <2>1. /\ stage = "scan" /\ stage' = "scan" /\ block' = block /\ ix < block
        /\ ix' = ix + 1 \/ ix' = ix + 2
    BY <1>4 DEF SkipCharacter, SkipPair
  <2> QED
    BY <2>1, <1>2 DEF ToGo
<1>5. CASE LineBegins
  <2>1. stage = "scan" /\ stage' = "line" /\ block' = block /\ ix < block /\ ix' = ix + 2
    BY <1>5 DEF LineBegins
  <2> QED
    BY <2>1, <1>2 DEF ToGo
<1>6. CASE LineEnds
  <2>1. stage = "line" /\ stage' = "match" /\ block' = block
    BY <1>6 DEF LineEnds
  <2>2. PICK e \in Ends : FirstEnd(e) /\ ix' = Behind(e - pStr)
    BY <1>6 DEF LineEnds
  <2>3. pStr = ix /\ 2 <= pStr
    BY <1>1, <2>1 DEF Scanning
  <2>4. e \in Nat /\ pStr <= e /\ e < block
    BY <2>2, <1>2 DEF Ends
  <2>5. /\ e > pStr => ix' \in {e + 1, e + 2}
        /\ e = pStr => ix' = pStr - 1 \/ ix' = pStr
    BY <2>2, <2>3, <2>4, <1>2, BehindLine
  <2>6. ix' \in Nat /\ ix' >= ix - 1 /\ ix' <= block + 1
    BY <2>3, <2>4, <2>5, <1>2
  <2>7. ToGo = 3 * (block + 5 - ix) + 5 /\ ToGo' = 3 * (block + 5 - ix') + 1
    BY <2>1 DEF ToGo
  <2>8. PICK m \in Nat : m = ix'
    BY <2>6
  <2>9. m >= ix - 1 /\ m <= block + 1 /\ ToGo' = 3 * (block + 5 - m) + 1
    BY <2>6, <2>7, <2>8
  <2> HIDE DEF ToGo
  <2>10. 3 * (block + 5 - m) + 1 \in Nat /\ 3 * (block + 5 - m) + 1 < 3 * (block + 5 - ix) + 5
    BY <2>9, <1>2
  <2> QED
    BY <2>7, <2>9, <2>10
<1>7. CASE LineOpen
  <2>1. stage = "line" /\ stage' = "match" /\ block' = block /\ ix' = Behind(2)
        /\ pStr <= block
    BY <1>7 DEF LineOpen, InLoop
  <2>2. Behind(2) \in {ix + 3, ix + 4}
    <3>1. ix + 1 + 2 = ix + 3 /\ ix + 1 + 2 + 1 = ix + 4 /\ 2 # 0
      BY <1>2
    <3>2. Behind(2) = LET m == IF memory[ix + 3] = LF THEN ix + 4 ELSE ix + 3
                      IN IF 2 = 0 THEN m - 2 ELSE m
      BY <3>1 DEF Behind
    <3> QED
      BY <3>1, <3>2
  <2>3. ix <= block
    BY <1>1, <2>1 DEF Scanning
  <2>4. ToGo = 3 * (block + 5 - ix) + 5 /\ ToGo' = 3 * (block + 5 - ix') + 1
    BY <2>1 DEF ToGo
  <2> QED
    BY <2>1, <2>2, <2>3, <2>4, <1>2
<1>8. CASE Match
  <2>1. stage = "match" /\ stage' = "scan" /\ block' = block /\ ix' = ix
    BY <1>8 DEF Match
  <2>2. ix <= block + 4
    BY <1>1, <2>1 DEF Scanning
  <2>3. ToGo = 3 * (block + 5 - ix) + 1 /\ ToGo' = 3 * (block + 5 - ix)
    BY <2>1 DEF ToGo
  <2> QED
    BY <2>2, <2>3, <1>2
<1> QED
  BY <1>3, <1>4, <1>5, <1>6, <1>7, <1>8 DEF ParserNext

(* The loop ends, although it goes back over the end of an empty line: a   *)
(* step of it brings it nearer to its end, and it cannot come nearer for   *)
(* ever.                                                                   *)
THEOREM ParserGoesOn == ParserSpec => [][GoesOn]_parserVars
<1>1. ParserInv /\ [ParserNext]_parserVars => [GoesOn]_parserVars
  BY StepGoesOn
<1> QED
  BY <1>1, ParserHolds, PTL DEF ParserSpec
=============================================================================
