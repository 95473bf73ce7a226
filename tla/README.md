# A verification of the SMS motor controller

The repository is the firmware of an ATmega328 board that switches a motor
starter on orders received by SMS through a SIM900 modem, and reports the line
voltages to its users. It is written as active objects (QP-nano): hierarchical
state machines with an event queue and one timer each, on a cooperative kernel.
The modules in this directory model its control in TLA+; TLC checks them on
small instances and TLAPS proves most of the invariants and the refinements the
runs check for every instance.

## 1. Inventory

### Components

| part | code | state | operations |
|---|---|---|---|
| kernel | `main.c`, `bsp.c`, `qpn_port.h`; QP-nano itself is not in the repository | one event queue (5, 5, 5 and 3 slots) and one tick counter per object | post, dispatch by priority (GSM lowest, then application, Com, energy monitor), arm, disarm, tick; `Q_onAssert` stops the device |
| GSM driver | `gsm.c`, `gsm_settings.h` | current state, `control` (`busy`, `current_op`, `response`, `timeout`, `ix`, `use_flash`) | bring the modem up; network status; send, find, read and delete messages; read and set the clock; extract a message's time stamp; parse the receive buffer |
| serial link | `com.c`, `serial.c`, `send_command_timeout` and the parser, `comm_rx_handler`, in `gsm.c` | transmit buffer, its payload size and read index, receive buffer and its write index, silence counter, error flag | open, send, count and announce, read size, reopen; the transmit, receive and tick interrupts |
| debug port | `softserial.c`, `debug.c` | - | send a byte with interrupts off |
| application | `app.c`, `app.h`, `app_settings.h` | current state, `history`, `motor_on`, `defered_event`, `user_gprs_updates`, `i_generic`, the session bits, `session_details` | start up, fetch a message, check its sender, switch the motor, report the status, lead a menu session, broadcast the status, delete the message |
| energy monitor | `emon.c`, `adc.c` | current state, `numberOfSamples`, `crossCount`, `vcc`; the running conversion | read the supply voltage, find a zero crossing, sample the half waves, answer or give up; the conversion interrupt |
| reading of texts | `validate`, `update_menu_state`, `extract_numbers` and the options in `app.c`, `util.c` | - | find the order in a text, the index of an option, a number, EN or DI, a password |
| ring buffer | `fifo_buffer.c`; its callers are under `#if 0` at this commit | read and write index, the array | put, get, peek, remove, clear; a single byte is returned as an `int8_t` |
| EEPROM tables | `edb.c` and its use in `app.c` | a table of users and one of settings, the first-boot flag, `no_users` | create, append, read, update, delete; first boot, `add_no`, `del_no`, the options that change a user's record |

### How they interact

Objects share nothing but events and two buffers. The application posts
requests to the GSM driver and waits for the one event that answers each; it
handles one message at a time and counts notifications that come in meanwhile.
The driver carries out one request at a time: it puts a command into the
transmit buffer, arms its timer and waits. The receive interrupt fills the
receive buffer; when the line has been quiet the link announces the buffer, and
the driver's parser turns its lines into events *for the driver itself*, which
join its queue behind whatever is there. The tick interrupt posts TIMEOUT to an
object whose counter runs out. A handler runs to completion, but any interrupt
may post between two handlers, and during one.

### What is hard

* An answer has no identity. Which operation an OK completes, and which
  operation a TIMEOUT fails, is decided by the state that happens to be current
  when the event is taken from the queue.
* Each object has a single timer, which several states use for different things:
  the application's is the update period, the pulse of the motor pins and the
  retry of the start-up.
* Requests, responses and notifications are dropped silently in the states that
  do not handle them, and the application has no time-out for a wait.
* Queues are short, and a full one stops the device.
* The receive buffer is reopened while events still point into it, and it is not
  erased: the parser's index is not kept within a block, behind which lies what is
  left of an earlier one.
* An operation on the EEPROM is many writes, and the power may fail between and
  during them.
* `send_command_timeout` and `Com_reopen` touch what the interrupts touch in
  several critical sections each, and the debug port turns interrupts on that its
  caller had turned off.
* Sessions and countdowns are known by a user's id, status messages by the
  position of his record, and a deletion moves the records only.
* Indices, numbers and counters are bytes, and wrap round.

### What makes each component correct

* Kernel: no queue overflows.
* GSM driver: it never waits without a guard; it is idle only when clean; its
  time-outs and its answers belong to the operation they end.
* Application: the pins are energised one at a time, in the right position, for
  a bounded time; sessions expire; no notification is forgotten; every message
  is dealt with.
* Link: it is a channel in either direction: bytes come out in order and once,
  and those that are lost are lost for a reason; none is left behind.
* Energy monitor: one answer for each request, from the right channel.
* Sessions: each has time left and ends, whoever is deleted; a status goes to the
  one it was due to.
* Table: `no_users`, the records and the ids agree, across a power failure too.

The full list of hazards, with the line of each and the properties that cover
it, is in `PROJECT.json`.

## 2. Plan

| step | module | status |
|---|---|---|
| 1 | `QFNano`, `Modem`, `Gsm`, `App`, `SmsController`: the kernel, the driver, the application and a modem that may fail, composed | done |
| 2 | `MotorStarter`: the abstract specification of the outputs, implemented by the composition | done |
| 3 | `SmsSafety_proofs`: types, guarded waits, clean idle, session expiry | done |
| 4 | `Channel`, `ComTx`, `ComRx`: the two directions of the serial line at the level of the interrupts, with the critical sections of `send_command_timeout` and `Com_reopen`, the UART, Com's queue and the debug port, each shown to implement the abstract channel | done |
| 5 | `Edb`, `Users`: the tables in the EEPROM, first boot, `add_no` and `del_no`, power failures between two writes | done |
| 6 | `Sessions`: the sessions and the broadcasts of `App` while the list of users changes | done |
| 7 | `EmonService`, `Emon`: the conversion loop, the zero-crossing search and its time-outs; `SmsController` uses the abstract service | done |
| 8 | `Input`: how a text is read; `BoundedQueue`, `Fifo`: the ring buffer as a bounded queue; `Parser`: how the lines of a received block are found | done |
| 9 | proofs: types of every module (`Input` has but one variable, a sequence); `RelaySafe`, `NoticesKept` and the step refinement of `MotorStarter`; `Sessions`, `Emon` with `AnswersOnce`, `ComTx` and `ComRx` with their channels, `Users`, `Fifo` as a bounded queue | done |
| 10 | `SmsOrder_proofs`: `OwnTimeouts` (it needs the order of requests, answers and a TIMEOUT in the driver's queue) | done |
| 11 | proofs: `OwnAnswers`, in `SmsOrder_proofs`; `ListChanges`, in `Users_proofs`; `FrequencyRead`, with the ring in `Libraries_proofs`; `Parser`, in `ComRx_proofs` | done |
| - | a proof of `WaitsServed` | left to TLC, see "Only model-checked" |
| - | the GPRS states of `gsm.c` | not planned: unreachable (`app.c:465`, `if (0)`) |

## 3. The modules

* `QFNano` - the kernel. `queue[a]`, `timer[a]` and `current`, the event being
  handled. `Dispatch` takes the head of the ready queue of highest priority;
  a handler is an action enabled by `Handling(a, sig)` that ends with
  `Return(queues, timers)`. `Expire` is the tick. Everything but the expiry of a
  timer sees `current` set while a handler runs, so interrupts are interleaved
  with handlers; only the parser, which takes a line at a time, is several steps.
  `timer[a]` holds the state that armed it and the TIMEOUT carries it along: the
  model's way to say whose time-out it is. The code has no such parameter and
  no handler of the model reads it.
* `Modem` - the link and the SIM900, which is external. `tx` is the transmit
  buffer as a sequence of commands, `rx` the receive buffer as a sequence of
  lines, `avail` how many of them have been announced. The modem answers the
  oldest command, refuses it, or stays silent; it announces a new message at any
  moment.
* `Gsm` - `gsm.c`. `gsm` is the current state; one action per state and signal,
  with the entry and exit actions of the transition it takes folded in.
  `BackToIdle` is `generic_exit_operations` with the transition to `active_idle`,
  and `GsmReacts` lists which signals a state handles, so that `GsmIgnores`
  drops the others as `QHsm_top` does. `NetworkFallsThrough` is the missing
  `break` at `gsm.c:1155`.
* `App` - `app.c`, in the same way. Composite states are entered together with
  the sub-state their `Q_INIT_SIG` leads to, so `action_status` and
  `send_broadcast` appear as `get_status` with a `history`, and `menu_parse` as
  the option it chooses. A message is what it asks for, and who sent it is
  chosen freely.
* `MotorStarter` - what the outputs promise, with no firmware in it.
* `SmsController` - the composition, the fairness, and all properties. Com and
  the energy monitor appear only through the events they post.
* `Edb` - `edb.c`. `eeprom` maps cells (the header and the records of each table)
  to values, and an operation is the sequence of writes it makes: `todo` holds
  those of the running handler. `EdbWrite` makes the next one; `EdbLost` is a
  power failure, after which the write under way is made, not made, or half made.
* `Users` - the user table of `app.c` over `Edb`: first boot and start, the second
  steps of `add_no` and `del_no`, and the options with which a user changes his own
  record, all of which read the record of number `current_userid` and write it
  back. A record is its id, its number, and whose order last changed the rest.
  The handler's writes are all that goes on while it runs (the kernel is
  cooperative and no interrupt touches the EEPROM), so this is a system of its
  own and needs no part of `SmsController`.
* `Channel` - what either direction of the serial line promises: bytes come out in
  the order they went in, each at most once, and, while none may be lost, all; what
  is lost at a time is a stretch of bytes that follow one another.
* `ComTx` - the transmitting side. A command is a list of `parts`, as the handlers
  send them, given in the constant by where each part ends; the bytes are numbered in the order they are asked for.
  `send_command_timeout` is three steps, one for each critical section (`Measure`,
  `CopyCut` or `CopyFirst`, `Store`), or two (`Measure`, `AppendPart`), and the tick
  and the transmit interrupt come anywhere between them. `ComSend`, `ComSendDone`
  and `ComTimeout` are Com's handlers. A text in flash that is too long is cut, and
  the rest of it goes out on BUFFER_FULL and SEND_DONE (`BufferFullEvent`,
  `Continue`). Refinement: `inTransit` is the rest of the buffer, the parts still to
  be sent and the rest of a cut text; `delivered` is the wire.
* `ComRx` - the receiving side: the UART's own bytes and its overrun bit, the
  receive interrupt, the debug port (`masked`), Com's silence counter, the size and
  where it is read, and the parser as long as it has the block, up to `Com_reopen` in
  its two steps. What it does with the block is `Parser`'s matter, but for one thing:
  if the last byte of the block is a CR (`Returns`), it may go astray, and then return
  at any time or never.
  `excused` is history: the bytes that found the UART or the buffer full, or came
  while a block was out. Refinement: `inTransit` is what lies in the buffer and
  the UART and in no block that is done with; `delivered` is the blocks, one behind
  the other.
* `Parser` - `comm_rx_handler`, an action for each turn its loop can take: `ix`, `pStr` and
  `block` are the code's `i`, `p_str` and `size`, and `memory` is the receive buffer and what
  lies behind it, never erased. The receive interrupt goes on storing behind the
  block. As in the code nothing compares `ix` with the size but the loop's condition:
  the character behind a CR is read in any case, an empty line takes the index back by
  two (`Behind`), in an SMS operation a line without an end is taken for the prompt
  (`LineOpen`), in the others it is thrown away with the rest of the block, and a block
  that ends in CR with an old LF behind it sends `memchr` through all of the memory
  (`GoesAstray`; what it finds there, and what is posted for it, is not modelled).
  `heard` is history: which codes were found where. A result code is a sequence of
  characters, and there are as many as the constant `Tables` lists. `Gsm` and `Modem`
  take whole lines instead, one event for each: what `AnswersHeard` says of answers in
  lines of their own is what they rest on. Codes that are found in what is left of an
  earlier block, and answers that are not found because an echo's CR stands before
  them, are in `Parser` only.
* `EmonService`, `Emon` - one answer for each request, and `emon.c` with the ADC under
  it, one action per state and event. A sample is reduced to whether it is near
  zero, and whether it crosses the first one's level.
* `Sessions` - the application once more, at a coarser step: a message is one
  action and its answer another, but the users are those of the table, with ids and
  positions that part. It has the session bits, the times, options and countdowns,
  the status messages that are owed, and restarts. A user's order for himself
  changes the record whose number is his id, as in the code; if there is no such
  record, what is read is what the stack holds, a choice.
* `Input` - the reading of a text: a state is a text typed so far, and the operators
  are the functions of the code with the width of their variables.
* `BoundedQueue`, `Fifo` - a queue of bytes, and the ring that implements it: a call
  is an action, its result a variable. `fifoBuf_getByte` and `fifoBuf_getBytePeek`
  return an `int8_t` (`Int8`): the upper half of the bytes is negative, and 255 is -1, the
  answer of an empty buffer. The queue promises just that of them, and the bytes
  themselves of the calls that take a block.
* `MCSmsController`, `MCUsers`, `MCComTx`, `MCComRx`, `MCLibraries` - the instances; the last
  two put `ComRx` and `Parser`, and `Fifo` and `Input`, side by side, one at rest while the
  other runs.
* `SmsSafety_proofs`, `SmsOrder_proofs`, `Sessions_proofs`, `Users_proofs`,
  `ComTx_proofs`, `ComRx_proofs` (with `Parser`), `Emon_proofs`, `Libraries_proofs` (`Fifo` and
  `Input`) - the proofs.

### What the model takes from time

Timers run for a second or more, everything else takes milliseconds. Three
guards say so: a timer does not expire again before its last TIMEOUT has been
handled (`Expire`); the driver's timer does not expire before its command has
left the UART and SEND_DONE has been handled (`GsmTick`); the application's first
second is not over before the UART is open (`AppTick`). The link announces a
buffer once: the next announcement needs 400 ms of quiet, by which time the
parser has run. Otherwise a running timer may expire at any moment.

In `ComTx` an operation begins, and the modem answers, when what was sent before is
through (`Through`): the shortest time-out is a second, an answer is seen 400 ms after
it came, and a full buffer is out in 26 ms. The one exception the code allows, an
operation ended by a late answer to another, is the constant `Hasty`. In `ComRx` a block
is parsed before the counter could announce the next (`InTime`). In `Emon` the
application sends nothing after an error before what the measurement left behind
is gone (`ReadEntity`): it needs another message for that, which takes seconds. The
update period is 45 seconds in the code, though the texts to the user speak of
minutes; the model counts periods.

## 4. The runs

All runs of the composition use the queue sizes and priorities of `main.c`; `ConfigurationOfMain`
asserts it. Deadlock is not checked, because the system may really stop: an
assertion that fails halts the device, and an application that waits for an
event nobody will produce has nothing left to do once its bounds are used up. The
same holds of `measure`, where the requests are bounded, of `com_receive`, where the
modem has sent all its pieces, and of `libraries`, where a text ends; the other runs
check it.

| run | shows | instance |
|---|---|---|
| boot | `TypeOK`, `QueuesHold`, `GuardedWait`, `IdleIsClean`, `OwnTimeouts` | unreliable modem, lines one at a time, registered or searching, 2 initial commands, 1 AT retry, 1 message, 2 time-outs (530,000 states) |
| motor | under fairness, `PulsesEnd` (refinement of `MotorStarter`) | unreliable modem, 3 messages ON or OFF one after the other, 1 time-out (61,000 states) |
| notices | `RelaySafe`, `OwnAnswers`, `NoticesKept` | reliable modem, 2 users with broadcasts in every period, 2 messages ON or OFF at any time (900,000 states) |
| dialog | `WaitsServed`, `SessionsExpire`, and under fairness `ReturnsToIdle` | reliable modem, any registration, 3 messages one after the other, a status, sessions of 2 periods and three options |
| users | `UsersTypeOK`, `CountsAgree`, `NoneHidden`, `OwnerStays`, `ListChanges` | the sizes of the firmware: tables for 5 users and 9 settings, 4 users, two numbers to add, 2 power failures during writes and any number between them (835,000 states) |
| com_transmit | `ComTxTypeOK`, `ComQueueHolds`, `RestWaits`, `SentAsWritten` (refinement of `Channel`), and under fairness `AllGoesOut` | a buffer of 4, commands of 1 and 4 parts, messages of 1 and 4 bytes in RAM and of 6 and 8 in flash, 3 operations (29,000 states) |
| com_receive | `ComRxTypeOK`, `LostForCause`, `NoneStuck`, `AnswersHeard`, `BlocksAsSent` (refinement of `Channel`), and under fairness `BufferOpens` | a buffer of 3, a silence of 2 ticks, a UART of 2 bytes, 6 bytes, two of them a CR; the parser: a buffer of 14 and what may lie behind it, any three of nine pieces, in any operation (363,000 states) |
| measure | `EmonTypeOK`, `VccFromReference`, `AnswersOnce` (refinement of `EmonService`), and under fairness `MeasurementEnds` | 3 crossings, 3 requests, a mains that may stop at any time |
| sessions_menu | `SessionsTypeOK`, `SessionTimed`, `InputHasOption`, and under fairness `SessionsAge` | 3 users and 2 numbers to add, sessions of 2 periods, add_no and del_no, restarts |
| sessions_status | `RightRecipient`, and under fairness `BroadcastEnds` | 2 users and 2 numbers to add, frequencies 0 and 1, all four options, restarts (390,000 states) |
| libraries | `FrequencyRead`, `QueueKept` (refinement of `BoundedQueue`) | texts of up to 4 of 12 characters (every digit class, the space, the letters of the orders and options, one small letter); a ring of 4 with indices of 3 bits, blocks of up to 3 and two bytes, one positive and one that is -1 (51,000 states) |
| says_current_user | a comment of the code it does not keep, see below | the smallest instance that shows it |

The bounds and why they suffice. A time-out costs one unit of `MaxTimeouts`: one
is enough for a late answer to meet the next operation, two for that to happen
again or for the retry of AT or of the registration to run out. Two messages let
a second notification arrive during the first and an OFF follow an ON; three let
a session be opened and both steps of an option be taken. `RxLines = 3` holds the
longest answer plus one notification, so the buffer also overflows in the
unreliable runs. `MaxPending` is what the modem holds: 1 where commands may be
lost, 2 where a session needs both halves of a long text. Two initial commands
make the table's loop turn; the proofs hold for any number. The pins are looked at
twice: with faults of the modem and an ON, an OFF and a third order in sequence
(motor), and with orders and broadcasts that meet in every way (notices); what ends
a pulse, the application's own timer, is bounded in neither. `OwnAnswers` is about
runs without time-outs, and notices has none. Of the registration results boot has
the two that lead to different waits; dialog has all. The dialog run leaves ON and OFF
out, see `WaitsServed`. In the users run two failures let the counts part twice, and
two numbers fill a table of four because a number may be added again. Users are
not symmetric (the lowest number is served first), so no symmetry is used.

Three operations let one of each kind follow each other, and the texts are the
shortest and the longest that fit, the first that is cut with something left, and the
longest the code can send in two buffers. Six bytes fill the receive buffer, overrun
the UART and begin a second block. The parser's pieces are two answers, parts of
answers and empty lines: three of them make blocks of two answers with something
between, answers cut in two by an announcement, and a block with the rest of an
earlier one behind it; 14 characters are two answers and two more, so that the buffer
also overflows. In sessions_menu a third user is needed for an id to
differ from a position; in sessions_status a deleted user's position can be taken by
another, which is what a status could go astray by. A ring of four in three bits has
the proportions of 128 in a byte: the largest size for which a removal is right.

### What the properties say

* `QueuesHold`: with one message, whatever the modem does, no queue overflows.
  The claim is limited on purpose: with three messages and time-outs the
  driver's queue of five does receive a sixth event.
* `GuardedWait`: where the driver waits for the end of a command, its timer runs
  or the TIMEOUT or the OK is already on its way. The parser stops the timer
  early, when it sees the OK and before the OK is handled, and this is why that
  is safe. Three waits of the code are unguarded and excluded by name: after the
  prompt of AT+CMGS, in `sms_extract_time`, and after an OK without a response in
  `network_status`.
* `IdleIsClean`: no state forgets the exit operations. (Not that the application has
  been told: after a garbled clock it has not, `gsm.c:1357`.)
* `OwnTimeouts`: a TIMEOUT is handled by the state that armed the timer, or is
  ignored. The exceptions are a support state of the same operation, and one
  case in which the code really takes a stale one: `device_config` that fails on
  ERROR.
* `OwnAnswers`: without time-outs the OK that ends an operation is its own.
  After a time-out the code confuses answers. It does so without one, too, when the
  lines of an answer come one by one, which is why the theorem has the hypothesis `Burst`.
* `RelaySafe`, `PulsesEnd`: the pins, with TIMEOUTs of the update period arriving in
  the pulse states (a queued one makes the pulse short, and the record must stay
  right all the same). `PulsesEnd` is the abstract motor starter with its fairness: a
  refinement.
* `SessionsExpire`: see the comment in the module.
* `NoticesKept`: notifications that are put off, in the application's queue or in hand.
  The counter of those put off has 16 bits and may wrap, which takes 65536 messages
  in one visit to another state; the property excepts that step.
* `CountsAgree`, `NoneHidden`: `add_no` counts before it appends and `del_no`
  counts after it deletes, so a power failure leaves a number without a record
  and never a record out of reach; the two counts part by at most one a failure.
* `OwnerStays`: the first boot is complete before it is on record, and the record
  by record copying of `edb_deleterec` never touches the owner.
* `ListChanges`: the abstract effect of every handler on the list of numbers, while the
  power holds. Steps with a power failure are excepted; what those leave is the
  subject of `CountsAgree`, `NoneHidden` and `OwnerStays`.
* `WaitsServed`, `ReturnsToIdle`: for every state of the application, the event
  that takes it out is still to be produced by someone, and so it gets back to
  `app_idle`. This needs a reliable modem, answers that arrive in one burst, and
  senders who wait (`Patient`). Outside of that the code does hang: the
  application ignores MODULE_FAILURE, BUSY and EMON_ERROR, and a READ request
  that overtakes the OK of the listing is dropped. It hangs with a perfect modem,
  too, after an order for the position the motor is already in: the TIMEOUT of an
  update period that meets it is taken for the end of a pulse (`app.c:849`), the clock
  is asked for a second time while the answer is being sent, and the driver
  refuses the SMS_DELETE that follows. Hence no ON and OFF in this run.
* `SentAsWritten`, `AllGoesOut`: a byte goes out once, in order and at last. The
  channel may lose bytes only while a text is in flash, for the one byte that the
  code drops where it cuts (`gsm.c:379`); that it is one byte, and which, is not claimed.
* `RestWaits`: SEND_DONE has no sender; the first one after BUFFER_FULL must be that of
  the first half.
* `LostForCause`, `NoneStuck`, `BufferOpens`: which bytes may be lost on the way into a
  block, and that none waits for the next to be noticed. A line without a CR, which
  the parser throws away (`gsm.c:188`), was in a block and is not lost in this sense.
  `BufferOpens` makes one exception: a parser gone astray behind a block whose last
  byte is a CR may not come back.
* `BlocksAsSent`: the blocks hold the bytes in order and once, and a block is the same
  when the parser is done with it. It lets bytes vanish, which is why `LostForCause`
  is stated, and it says nothing of the order in which the parser reads a block: that
  is what `AnswersHeard` and `ParserGoesOn` are about.
* `AnswersHeard`: an answer in a line of its own, with an empty line before it as the
  modem sends it, is heard once, in order and where it stands, whatever is around it.
  In the operations that are not SMS nothing else is heard; in those that are, what
  is heard last may be left over from an earlier block (`SaysFramed`).
* `AnswersOnce`, `VccFromReference`: a TIMEOUT and a conversion that cross each other
  produce no second answer and no voltage from the wrong channel.
* `SessionTimed`, `SessionsAge`: a session of an id beyond the number of users is not
  counted, but has time left, and ends when it is counted again.
* `RightRecipient`: no record moves between the expiry that marks a position and the
  sending: SEND_BROADCAST is dropped rather than kept when a message comes first,
  and while a status is owed none is added.
* `FrequencyRead`: a frequency that is set is the number that was typed, and all below
  255 get set. Whether 255 does, the texts and comments leave open; the code sets it
  (`SaysFrequency`, `SaysTerminated`).

### Fairness

The scheduler never stops and handlers return, so their steps are weakly fair;
dispatch, the drivers and the serial interrupts are strongly fair, because what
disables them (an interrupt between two handlers, an object of higher priority)
passes within milliseconds and is never repeated for ever. An armed timer
expires (weak). The modem answers what it holds (weak) where the run is
`Reliable`. New messages need not arrive.

`ComTx`: the steps of a running handler, Com's handlers and the transmit interrupt are
weakly fair; the driver's own events strongly, since Com, which comes first, is
called by its timer every 20 ms for microseconds. `ComRx`: the receive interrupt and
the beginning of handlers are strongly fair, as the debug port masks them again and
again for a millisecond; the parser returns unless it has gone astray (`ParserGoesOn`
proves that its loop ends); the end of a byte of the debug port and of `Com_reopen` is
weakly fair. `Parser` has no fairness, its property is about safety. `Emon`: the timer, the conversion and the handlers are weakly fair, and
nobody need ask. `Sessions`: dealing with a message, the answer, the update period
and the sending of a status are weakly fair. The period needs a word: `app_idle` arms
its timer anew after every message, so that this is an assumption on the senders,
who must leave the device alone for 45 seconds now and then.

### Comments the code does not keep

One is a run:

* `app.c:1395` - "Read current user from memory and update the settings": after a
  deletion ids and positions differ, two records may carry the same id, and a
  user's order changes another user's record (`OwnSettings`; the "TODO: Update
  userid after delete" of `app.c:1292` is not done).

The others are stated in the modules, each with a configuration in which TLC finds it
violated; `tlc -config <name>.cfg <module>` shows the behaviour. Where two names stand
in a row, the second takes the place of the first in its configuration.

| configuration, module | what the code says | what it does |
|---|---|---|
| `SaysRetry`, `MCSmsController` | `app.c:454` "Retry after 30 seconds" | the retry posts a signal the driver ignores by then: the application never asks for the network again |
| `SaysBroadcast`, `MCSmsController` | `app.c:525` "Ignore timeouts if the system is already sending some data" | SEND_BROADCAST can be dropped, after which every period is ignored with nothing being sent |
| `SaysMeasured`, `MCSmsController` | `app.c:929` "Check the voltage of the lines and current" | `!me->i_generic == 2` (`app.c:961`) is never true: the third reading is not stored, the current not requested |
| `SaysToggle`, `MCSmsController` | `gsm.c:754` "no response toggle power again" | nobody sends what `powering_on` waits for |
| `SaysMenu`, `MCComTx` | `app.c:1091` "send menu list of commands message" | byte number `size` of a text that is cut is never sent (`gsm.c:379`) |
| `SaysLocked`, `MCComTx` | `serial.c:19` "there should be some form of mechanism to lock the buffer" | there is none: an operation that begins while a command goes out may have the interrupt send what lies behind its string (`gsm.c:365`) |
| `SaysHalfWaves`, `Emon` | `emon.c:142` "sample an integer number of half wavelengths" | a TIMEOUT of the zero-crossing search that is queued behind the conversion ends the measurement on its first sample |
| `SaysEntered`, `Sessions` | `app.c:1082` "Menu has already been entered" | a new user inherits the session of the id he gets |
| `SaysDisabled`, `Sessions` | `app.c:1475` "BROADCAST DISABLED" | after a restart the countdown runs again: the flag is never looked at |
| `SaysZero`, `Sessions` | `app.c:1518` "If 0 disable Auto Status Messages" | the countdown that runs ends with one more status |
| `SaysInvalidOption`, `Input` | `app.c:1625` "Invalid Option Discontinue MENU Operations" | an index is a byte: 515 is option 3 |
| `SaysPassword`, `SaysInput`, `Input` | `app_settings.h:127` "Should be less than 6 characters" | five are refused (`app.c:1192`); a password with ON or OFF in it is an order (`app.c:761`): the motor is switched |
| `SaysFrequency`, `SaysTerminated`, `Input` | `app_settings.h:152` "should be less than 255"; `app.c:1518` "Terminate higher values at 255" | 255 is set; 256 to 999 are answered with Invalid, nothing is set |
| `SaysFramed`, `SaysFound`, `MCComRx` | `gsm.c:165` "Search for \r\n<Result codes>\r\n" | in an SMS operation a code is found in a line that is cut off, or behind the block, where an earlier one left it (`gsm.c:184`); the line after a CR that no LF follows, as in an echo, is not found: the second CR is skipped (`gsm.c:175`) |
| `SaysRemoved`, `SaysByte`, `Fifo` | `fifo_buffer.c:62` "remove a number of bytes from the buffer"; `fifo_buffer.c:91` "get a data byte from the buffer without removing it" | in a ring of more than half the range of the indices the sum loses 256 instead of the size; 128 and more come back negative, 255 as -1, the answer of an empty buffer |

## 5. The proofs

Each proof module extends the component's module, states its inductive invariant
as a conjunction of named parts, has one lemma per operation and puts them
together at the end. The invariants were run through TLC on the instances of
section 4 first.

### The composition

`SmsSafety_proofs` begins with `TypeCorrect`, `Spec => []TypeOK`: the type of every
variable, by way of one lemma per kernel operator (posting, arming, returning)
and one per handler group. It then proves:

* `WaitsAreGuarded`, `Spec => []GuardedWait`. `GuardedWait` is inductive given the
  types. The argument: dispatching an event keeps it pending, since the event
  being handled counts; every other object's handler leaves the driver's timer
  and its queue's head alone; the parser stops the timer only in the step that
  appends ACK; every transition into a guarded state arms the timer.
* `IdleStaysClean`, `Spec => []IdleIsClean`. Not inductive alone: the strengthening
  `Clean` adds that in the states before `active_idle` the driver is not busy and
  has no current operation (`InactiveIsClean`), which is what makes the step
  from `device_config` preserve it.
* `SessionsAlwaysExpire`, `Spec => []SessionsExpire`: only `StartSession` opens a
  session, with the full time, and `update_session_timings` closes it in the step
  that takes the last period away.
* `CoilsAreSafe`, `Spec => []RelaySafe`, from `StarterInv`. A pin may be left
  energised if the state of its pulse were left by something else than the TIMEOUT
  that ends the pulse: by an SMS_SENT that nobody waits for any more. Such answers
  exist. An order for the position the motor is in, met by the TIMEOUT of an update
  period, asks for the clock twice (`app.c:849`), and the second request is still in
  the driver's queue when the answer has been sent. What saves the next pulse is the
  deletion in between: SMS_DELETE joins the queue behind the old requests, and they
  are carried out or dropped before it. `StarterInv` says so: while an answer is
  outstanding anywhere (`Answering`) the application is in a state that waits for
  answers and no pin is energised (`AnswersHeld`); there is one deletion at a time
  (`DeletesOnce`), behind every older request, and none of them is left when it is
  done (`DeletesLast`); a message is turned away once (`TurnsAwayOnce`); and the
  driver runs only when the application has dealt with what it was told
  (`AppFirst`, which is the priorities of `main.c`).
* `NoticesAreKept`, `Spec => NoticesKept`: by what each step posts to the application's
  queue (`Posted`: at most one event, behind the others) and what appending an event
  or taking the head does to the number of notifications in it (`NewsPosted`, `NewsTaken`).
* `ImplementsMotor`, `Spec => Motor!Spec`: every step of the firmware is a step of
  the abstract motor starter or a stutter. Its fairness, and with it `PulsesEnd`, is
  left to TLC.

`SmsOrder_proofs` extends it by the order of what waits in the two queues and proves
`TimeoutsAreOwn`, `Spec => []OwnTimeouts`. QP-nano does not take back a TIMEOUT that
has expired: an answer handled before it ends the operation, and the TIMEOUT is left
for whatever state comes next. Which state that is depends on what else lies ahead
of it, so the inductive invariant, `OrderInv`, speaks of positions in queues:

* `TimerInv`: one TIMEOUT at most waits, the timer runs for the state that armed it, and
  no ACK lies ahead of its TIMEOUT, since the timer starts with a command. In
  `network_status` and `powering_on` it may start with none (`Unsent`).
* `ParserInv`: what the parser may still post while a buffer is with it.
* `RequestInv`: the requests in the driver's queue are those the application's state
  explains; its priority is over the driver's, so that the answer to the last
  request finds no other behind it.
* `AnswersInv`: clock, measurements and messages take turns with the application, and
  while it sets the clock it does not ask for it.
* `LateInv`: a clock response that ends `time_get` is not ahead of another request.
* `OwnInv`: a TIMEOUT that waits is the state's own or ahead of the next request, so
  that `active_idle` drops it; only that of a clock reading may meet another clock
  reading, which it would end as its own would.

The same module proves `AnswersAreOwn`: if the lines of an answer come without a pause
(`Burst`), `Spec => []OwnAnswers`, for a modem that refuses commands or stays silent,
any registration and any orders. What has to be known is where a command and its
answer are: in the transmit buffer, with the modem, in its answer, in the receive
buffer, or in the driver's queue as events. The inductive invariant, `ReplyInv`, holds
as long as no command has timed out:

* `Journey`: in each of these five places nothing is behind a command or its answer,
  and when the answer is in one of them the places before it are empty (`TxLast`,
  `PendingLast`, `AnswerLast`, `RxLast`, `RepliesLast`). This is what makes the OK the last
  that is heard of an operation, and what the theorem is read off from.
* `NoParts`, `BringUp`, `IdleFree`, `TextParts`: what may be on its way in the states of
  the driver: no part of a text before the modem is up, nothing until AT is sent,
  in `active_idle` no answer behind a request, and nothing from the modem while a
  cut text waits for BUFFER_FULL.
* `LateReply`: a clock response that is garbled ends its operation with the OK still to
  come; no request lies between the two. This is where `Burst` is needed: were the OK
  a burst of its own, the next operation could begin before it and be ended by it.
* `NoLateTimeout`, `FirstResponse`, `Searching`: two expiries are not counted as time-outs,
  that of the power key and that of the wait before the registration is asked for once
  more. Neither may come while a command is under way. The second would, if it could
  fall between CREG_SEARCHING and its OK; with `Burst` the two are announced together.

The assumptions are those the modules name (`ModemAssumption`, `GsmAssumption`,
`AppAssumption`, `ConfigurationOfMain`): all retry counts, users, messages, menu
options, sizes of the receive buffer and bounds.

### The serial link

* `ComTxHolds`, `ComTxTypesHold`, `RestAlwaysWaits`: `ComTxInv` is preserved and gives
  the types (the buffer is never written behind its end, by a command of any parts
  that fit) and `RestWaits`. Its parts: a text in flash is with the handler, on its
  way, or out, and each stage determines both queues (`AtText`, `OnTheWay`,
  `FirstPartOut` in `OneText`); what is still to be put into the buffer fits it
  (`PartsFit`); the length measured in one critical section still holds in the next
  as long as nothing went out between them (`Measured`); what is to be sent lies in
  the buffer (`Filled`); and, unless an operation is hasty, the parts, the events in
  both queues, the interrupt and the timer are never more than five (`FewTokens`).
* `QueuesOfFive` and `TransmitterIsAChannel` (`ComTxSpec => SentAsWritten`, every
  step mapped to `PutIn`, `ComeOut`, `Lost` or a stutter) have the hypothesis `~Hasty`: no
  operation begins while the command of another goes out. Without it they are
  false, and `SaysLocked` shows how.
* `ComRxHolds`, `ComRxTypesHold`, `NoneIsStuck`, `BytesLostForCause`, `ReceiverIsAChannel`
  (`ComRxSpec => BlocksAsSent`), without a hypothesis. `ComRxInv`: at most one block is
  out (`OneBlock`), its bytes lie in the buffer (`InBuffer`), the counter never reaches the value that means "stopped" (`Silence`), and
  every byte that came is in a block that is done with, in the buffer, in the UART or
  excused (`Accounted`), those behind a block that is out being excused already (`Late`).
* `ParserTypesHold`, `AnswersAreHeard` (`ParserSpec => []AnswersHeard`) and `ParserGoesOn`
  (`ParserSpec => [][GoesOn]_parserVars`), for every buffer, memory, tables and pieces.
  `ParserInv`: where the index can be in each stage, at most four behind the block
  (`Scanning`); every answer in a line of its own that the index has passed has been
  heard, and from every other the parser still has the CR LF before it to come (`Heeded`),
  which is why going back over an empty line matters; what was heard is a line of
  the block that has been passed (`Sound`), and in order (`InOrder`). `ParserGoesOn`: the
  loop has a measure (`ToGo`) that each of its steps lowers, the step that goes back
  included.

`ComTxAssumption` gives the buffer 3 to 127 bytes (100 in the code, `com.h:20`; a length of
twice as much must fit the `uint8_t` of `gsm.c:345`) and a command one to four parts
that fit together. `ComRxAssumption` bounds the buffer and the silence so that twice
the silence stays below 255.

### The user table

`UsersHold` proves `UsersInv`, and from it `UsersTypesHold`, `OwnerIsFirst`
(`OwnerStays`), `NoRecordHidden` (`NoneHidden`) and `CountsAgreeAtRest` (`CountsAgree`). The
properties speak of a table at rest; the invariant has to say where a handler is,
for the power may fail anywhere: it is in the first boot at write k (`Booting`), it
changes records only (`Changing`), it is adding a user who is counted but has no
record (`Adding`, then `Appending`), or deleting one (`Deleting`, then `Settling`). In each
phase it bounds how far the two counts are apart by the number of failures, and
says that no write still to be made touches the owner's number (`Harmless`). `no_users`
is a byte (`app.h:51`), so `MaxUsers` is at most 255; the tables must hold that many.

`ListChangesAsPromised` (`UsersSpec => ListChanges`) says what the handlers make of the
list of numbers, through the record by record copying of `edb_deleterec`. The property
speaks of the table as it will be when the writes of the running handler are made,
so two things are to be shown: that a handler, when it begins, settles on a list
the property allows, and that each write it then makes changes nothing of it. `ListInv` gives the second: no handler writes a cell twice
(`Once`), so that the write that is made is the last of its cell, and no count that is
still to be written exceeds its table (`CountFits`). The first needs no induction over
the table, because the last write of a cell can be named: `edb_deleterec` writes
record p once, with what was in record p + 1.

### The other components

* `Sessions_proofs`: `SessionsTypesHold`, `SessionsAreTimed`, `InputsHaveOptions` and
  `StatusToItsRecipient` (`SessionsSpec => RightRecipient`, an action property). `SessionsInv`
  adds to the checked invariants that a status that is owed is owed to the user
  whose record is at that position (`DueToHolder`).
* `Emon_proofs`: `EmonTypesHold`, `VccIsTheReference`, `EmonImplementsService`
  (`EmonSpec => AnswersOnce`). `EmonInv` lists the phases of a measurement, and for each
  what can be in the queue and which timer and conversion run; a phase determines
  whether an answer is owed.
* `Libraries_proofs`, the ring: `FifoTypesHold`, for every size and word; `FifoIsAQueue`
  (`FifoSpec => QueueKept`), when twice the size less one fits the word. The hypothesis is
  needed: beyond it the sum in `fifoBuf_removeData` loses a carry (`SaysRemoved`). The
  ring of the code has 128 bytes and indices of a byte.
  The bytes have all values; the calls for a single one are shown to answer with its
  signed number, which is all the abstract queue promises of them.
* `Libraries_proofs`, the texts: `FrequencyIsAsTyped` (`InputSpec => []FrequencyRead`), for
  texts of any length over any characters. What `convert_uppercase` and the cut at the
  first space leave is stated by lemmas (`UpperIs`, `CutIs`; the first space is the least
  of a set of numbers, which exists by well-foundedness). `extract_numbers` is a loop;
  its caller limits it to three digits, so that the function it computes can be
  written down digit by digit (`ExtractIs`) and compared with the numeral (`NumeralIs`),
  carries and all (`Sums`).

### Only model-checked

* `QueuesHold`, which does not hold without a bound on the messages.
* `WaitsServed`, which holds only of a modem that is reliable, of senders who wait
  (`Patient`) and while nothing times out. A proof needs, beyond `ReplyInv`, the exact
  contents of the line, the modem and both queues in every phase of every dialogue:
  the model once more, written as an invariant.
* The liveness properties `PulsesEnd`, `ReturnsToIdle`, `AllGoesOut`, `BufferOpens`,
  `MeasurementEnds`, `SessionsAge` and `BroadcastEnds`, which are out of TLAPS's reach.

## 6. Not modelled

* The GPRS states, `sms_extract_mssg`, `update_server`: never entered.
* The case for STATUS_READ_DONE in `app_idle`: the event never reaches it.
* What the parser does after a search through all of the memory (`GoesAstray`).
* The extraction of numbers and texts from the modem's responses, the composition
  of answers, the set_time input and the time: abstracted to what the control
  distinguishes, as are phone numbers and voltages. How orders, options and numbers
  are read from a text is in `Input`, apart from `App`.
* The bits on the pin of the debug port, and its reception, which is under `#if 0`.
* `ascii_to_integer`, `Debug_Panic`: never called. `fifo_buffer.c` is called under `#if 0`
  only; it is modelled as a library.
* `EVENT_GSM_MODULE_FAILURE` and
  `EVNET_GSM_MODULE_FAILURE` are one signal, since the application ignores both.
* `edb_insertrec`, `edb_clear`, `edb_init`: never called. The sessions that lead to
  `add_no` and `del_no` are in `Sessions`; `Users` lets every second step happen at any
  time.
* Tick counts: see "What the model takes from time".
