------------------------------- MODULE ComRx --------------------------------
(***************************************************************************)
(* The receiving side of the serial line, down to the interrupt: the       *)
(* UART's own buffer, the receive interrupt, which stores bytes and winds  *)
(* the silence counter back, the Com object, which counts every 20 ms and  *)
(* announces what has come after 400 ms of silence, and the GSM driver's   *)
(* parser, which goes through the announced block and opens the buffer     *)
(* again; what it finds there is Parser's matter.  The debug port sends a  *)
(* byte with interrupts off for a millisecond, in which the modem sends    *)
(* four.  The bytes are numbered as they come.                             *)
(***************************************************************************)
EXTENDS Naturals, Sequences, SequencesExt

CONSTANTS
  RxSize,       \* COM_RX_BUFFER_SIZE
  RxTimeout,    \* config.rx_timeout, in ticks of Com's timer
  UartDepth,    \* bytes the UART keeps: two and one in its shift register
  MaxBytes,     \* bound: bytes the modem sends
  Returns       \* those of them that are a CR

ASSUME ComRxAssumption ==
  /\ RxSize \in 1 .. 100 /\ RxTimeout \in 1 .. 100
  /\ UartDepth \in Nat \ {0} /\ MaxBytes \in Nat /\ Returns \subseteq 1 .. MaxBytes

VARIABLES
  uart,         \* bytes in the UART
  overrun,      \* its data overrun bit
  masked,       \* the debug port has turned the interrupts off
  rxBuffer,     \* rx.p_data
  writeIx,      \* rx.write_ix
  timeout,      \* rx.timeout
  errorFlag,    \* rx.error_flag is set
  handler,      \* where the running handler is; "none": another object's, or none
  size,         \* Com's and the parser's size
  gsmQueue,     \* the announced sizes
  arrived,      \* how many bytes the modem has sent
  parsed,       \* the blocks the parser is done with, one behind the other
  excused       \* the bytes it may miss

comRxVars == <<uart, overrun, masked, rxBuffer, writeIx, timeout, errorFlag, handler,
               size, gsmQueue, arrived, parsed, excused>>
uartVars == <<uart, overrun, arrived>>
bufferVars == <<rxBuffer, writeIx>>

Inactive == 255

(* com.c: open, after Serial_init. *)
ComRxInit ==
  /\ uart = <<>> /\ overrun = FALSE /\ masked = FALSE /\ arrived = 0
  /\ rxBuffer = [i \in 1 .. RxSize |-> 0] /\ writeIx = 0
  /\ timeout = Inactive /\ errorFlag = FALSE
  /\ handler = "none" /\ size = 0 /\ gsmQueue = <<>>
  /\ parsed = <<>> /\ excused = {}

(* A block is out from the reading of its size until the buffer is open.   *)
BlockOut == gsmQueue # <<>> \/ handler \in {"post", "parse", "astray", "reopen"}

-----------------------------------------------------------------------------
(* The hardware and the interrupt. *)

(* A byte comes in.  With interrupts on, the one before has been taken.    *)
Arrives ==
  /\ arrived < MaxBytes
  /\ masked \/ uart = <<>>
  /\ arrived' = arrived + 1
  /\ IF Len(uart) < UartDepth
     THEN uart' = Append(uart, arrived') /\ UNCHANGED <<overrun, excused>>
     ELSE overrun' = TRUE /\ excused' = excused \cup {arrived'} /\ UNCHANGED uart
  /\ UNCHANGED <<masked, bufferVars, timeout, errorFlag, handler, size, gsmQueue, parsed>>

(* Mutants: there is always room; the counter is left alone. *)
RxIsrUnlimited ==
  /\ uart # <<>> /\ ~masked
  /\ uart' = Tail(uart)
  /\ timeout' = 0
  /\ errorFlag' = (overrun \/ errorFlag) /\ overrun' = FALSE
  /\ rxBuffer' = [rxBuffer EXCEPT ![writeIx + 1] = Head(uart)]
  /\ writeIx' = writeIx + 1
  /\ excused' = IF BlockOut THEN excused \cup {Head(uart)} ELSE excused
  /\ UNCHANGED <<masked, handler, size, gsmQueue, parsed, arrived>>
RxIsrNoRewind ==
  /\ uart # <<>> /\ ~masked
  /\ uart' = Tail(uart)
  /\ errorFlag' = (overrun \/ errorFlag) /\ overrun' = FALSE
  /\ IF writeIx < RxSize
     THEN /\ rxBuffer' = [rxBuffer EXCEPT ![writeIx + 1] = Head(uart)]
          /\ writeIx' = writeIx + 1
     ELSE UNCHANGED bufferVars
  /\ excused' = IF writeIx = RxSize \/ BlockOut THEN excused \cup {Head(uart)} ELSE excused
  /\ UNCHANGED <<masked, timeout, handler, size, gsmQueue, parsed, arrived>>

(* ISR(USART_RX_vect).  A byte that finds the buffer full is dropped; one  *)
(* that comes when a block is out will be, when the buffer is opened.      *)
RxIsr ==
  /\ uart # <<>> /\ ~masked
  /\ uart' = Tail(uart)
  /\ timeout' = 0
  /\ errorFlag' = (overrun \/ errorFlag) /\ overrun' = FALSE
  /\ IF writeIx < RxSize
     THEN /\ rxBuffer' = [rxBuffer EXCEPT ![writeIx + 1] = Head(uart)]
          /\ writeIx' = writeIx + 1
     ELSE UNCHANGED bufferVars
  /\ excused' = IF writeIx = RxSize \/ BlockOut THEN excused \cup {Head(uart)} ELSE excused
  /\ UNCHANGED <<masked, handler, size, gsmQueue, parsed, arrived>>

(* send_byte of the debug port, called by the parser for every line, by    *)
(* Serial_read_size for an error, and by the other objects' handlers.      *)
SendByteBegin ==
  /\ ~masked /\ handler \in {"none", "report", "parse", "astray"}
  /\ masked' = TRUE
  /\ UNCHANGED <<uartVars, bufferVars, timeout, errorFlag, handler, size, gsmQueue,
                 parsed, excused>>

SendByteEnd ==
  /\ masked
  /\ masked' = FALSE
  /\ UNCHANGED <<uartVars, bufferVars, timeout, errorFlag, handler, size, gsmQueue,
                 parsed, excused>>

-----------------------------------------------------------------------------
(* Com. *)

(* A block is parsed long before the next could be complete: the timer     *)
(* takes 400 ms to get there, the handlers of all objects less.            *)
InTime == BlockOut => timeout + 1 # RxTimeout /\ timeout < 2 * RxTimeout

(* Mutant: announced at every tick from there on. *)
TickAgain ==
  /\ handler = "none" /\ ~masked /\ timeout # Inactive /\ InTime
  /\ timeout' = timeout + 1
  /\ IF timeout' < RxTimeout THEN UNCHANGED <<handler, size, masked>>
     ELSE IF errorFlag THEN handler' = "report" /\ masked' = TRUE /\ UNCHANGED size
     ELSE handler' = "post" /\ size' = writeIx /\ UNCHANGED masked
  /\ UNCHANGED <<uartVars, bufferVars, errorFlag, gsmQueue, parsed, excused>>

(* Q_TIMEOUT_SIG, with interrupts off: count, and after enough silence     *)
(* read the size; with an error, report it first, which turns them on.     *)
Tick ==
  /\ handler = "none" /\ ~masked /\ timeout # Inactive /\ InTime
  /\ timeout' = timeout + 1
  /\ IF timeout' # RxTimeout THEN UNCHANGED <<handler, size, masked>>
     ELSE IF errorFlag THEN handler' = "report" /\ masked' = TRUE /\ UNCHANGED size
     ELSE handler' = "post" /\ size' = writeIx /\ UNCHANGED masked
  /\ UNCHANGED <<uartVars, bufferVars, errorFlag, gsmQueue, parsed, excused>>

(* Serial_read_size: the error has been reported ... *)
Reported ==
  /\ handler = "report" /\ ~masked
  /\ errorFlag' = FALSE
  /\ handler' = "read"
  /\ UNCHANGED <<uartVars, masked, bufferVars, timeout, size, gsmQueue, parsed, excused>>

(* ... and the size is read. *)
ReadSize ==
  /\ handler = "read"
  /\ size' = writeIx
  /\ handler' = "post"
  /\ UNCHANGED <<uartVars, masked, bufferVars, timeout, errorFlag, gsmQueue, parsed, excused>>

(* EVENT_COM_DATA_AVAILABLE, with interrupts on again.  (Mutant: one less.) *)
AnnounceLess ==
  /\ handler = "post"
  /\ gsmQueue' = Append(gsmQueue, IF size > 0 THEN size - 1 ELSE 0)
  /\ handler' = "none"
  /\ UNCHANGED <<uartVars, masked, bufferVars, timeout, errorFlag, size, parsed, excused>>
Announce ==
  /\ handler = "post"
  /\ gsmQueue' = Append(gsmQueue, size)
  /\ handler' = "none"
  /\ UNCHANGED <<uartVars, masked, bufferVars, timeout, errorFlag, size, parsed, excused>>

-----------------------------------------------------------------------------
(* The parser, comm_rx_handler. *)

ParseBegin ==
  /\ handler = "none" /\ ~masked /\ gsmQueue # <<>>
  /\ size' = Head(gsmQueue)
  /\ gsmQueue' = Tail(gsmQueue)
  /\ handler' = "parse"
  /\ UNCHANGED <<uartVars, masked, bufferVars, timeout, errorFlag, parsed, excused>>

(* A block that ends in CR, with what happens to be an LF behind it: the   *)
(* parser searches all of the memory (Parser's GoesAstray).                *)
Astray ==
  /\ handler = "parse" /\ ~masked
  /\ size > 0 /\ rxBuffer[size] \in Returns
  /\ handler' = "astray"
  /\ UNCHANGED <<uartVars, masked, bufferVars, timeout, errorFlag, size, gsmQueue, parsed, excused>>

(* The loop is over, the block as it stands now has been gone through.     *)
(* Com_reopen: the counter is stopped ...                                  *)
Reopen ==
  /\ handler \in {"parse", "astray"} /\ ~masked
  /\ parsed' = parsed \o SubSeq(rxBuffer, 1, size)
  /\ timeout' = Inactive
  /\ handler' = "reopen"
  /\ UNCHANGED <<uartVars, masked, bufferVars, errorFlag, size, gsmQueue, excused>>

(* Mutant: the buffer is not emptied. *)
RestartKeeps ==
  /\ handler = "reopen"
  /\ handler' = "none"
  /\ UNCHANGED <<uartVars, masked, bufferVars, timeout, errorFlag, size, gsmQueue, parsed, excused>>

(* ... and, an interrupt later, the buffer is emptied: Serial_restart_rx.  *)
Restart ==
  /\ handler = "reopen"
  /\ writeIx' = 0
  /\ handler' = "none"
  /\ UNCHANGED <<uartVars, masked, rxBuffer, timeout, errorFlag, size, gsmQueue, parsed, excused>>

ComRxNext ==
  \/ Arrives \/ RxIsr \/ SendByteBegin \/ SendByteEnd
  \/ Tick \/ Reported \/ ReadSize \/ Announce
  \/ ParseBegin \/ Astray \/ Reopen \/ Restart

ComRxSpec == ComRxInit /\ [][ComRxNext]_comRxVars

(* Interrupts are taken and handlers return, the debug port notwithstanding *)
(* (SF: between two of its bytes the interrupts are on and handlers begin); *)
(* a parser gone astray need not.                                          *)
ComRxFairness ==
  /\ SF_comRxVars(RxIsr) /\ WF_comRxVars(SendByteEnd)
  /\ SF_comRxVars(Tick) /\ SF_comRxVars(Reported \/ ReadSize \/ Announce)
  /\ SF_comRxVars(ParseBegin \/ Astray \/ (handler = "parse" /\ Reopen)) /\ WF_comRxVars(Restart)

ComRxFairSpec == ComRxSpec /\ ComRxFairness

-----------------------------------------------------------------------------

(* The write index stays within the buffer and the UART's within the UART, *)
(* the counter in a byte.                                                  *)
ComRxTypeOK ==
  /\ uart \in Seq(1 .. MaxBytes) /\ Len(uart) <= UartDepth
  /\ overrun \in BOOLEAN /\ masked \in BOOLEAN /\ errorFlag \in BOOLEAN
  /\ rxBuffer \in [1 .. RxSize -> 0 .. MaxBytes] /\ writeIx \in 0 .. RxSize
  /\ timeout \in 0 .. 255
  /\ handler \in {"none", "report", "read", "post", "parse", "astray", "reopen"}
  /\ size \in 0 .. RxSize
  /\ gsmQueue \in Seq(0 .. RxSize)
  /\ arrived \in 0 .. MaxBytes /\ parsed \in Seq(0 .. MaxBytes)
  /\ excused \subseteq 1 .. MaxBytes

(* What the buffer and the UART hold and the parser is not done with.      *)
UnreadFrom == IF handler = "reopen" THEN size + 1 ELSE 1
Unread == SubSeq(rxBuffer, UnreadFrom, writeIx) \o uart

(* The line is a channel: whatever the interrupts do while the parser goes *)
(* through a block and the buffer is opened again, the blocks that the     *)
(* parser is given hold the bytes in order and none twice, and a block is  *)
(* the same when the parser is done as when it was announced.              *)
RxLine == INSTANCE Channel WITH mayLose <- TRUE, inTransit <- Unread, delivered <- parsed
BlocksAsSent == RxLine!ChannelSpec

(* The bytes that no block holds are those that came too many at a time    *)
(* for the buffer or the UART, or while an earlier block was out: an       *)
(* answer that comes alone and fits is in a block to its last byte.  (What *)
(* the parser makes of a block is not asked here: it throws away a line    *)
(* without a CR.)                                                          *)
LostForCause ==
  1 .. arrived \subseteq ToSet(parsed) \cup ToSet(Unread) \cup excused

(* No byte lies in the buffer with the counter stopped, unheard of until   *)
(* more bytes come: Com_reopen stops the counter before it empties.        *)
NoneStuck == writeIx > 0 /\ timeout = Inactive => handler = "reopen"

(* What has come is announced, gone through and cleared away, but for a    *)
(* block whose last byte is a CR: there the parser may stay for ever.      *)
BufferOpens ==
  writeIx > 0 ~> writeIx = 0 \/ (handler = "astray" /\ rxBuffer[size] \in Returns)
=============================================================================
