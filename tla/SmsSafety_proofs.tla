-------------------------- MODULE SmsSafety_proofs ---------------------------
(***************************************************************************)
(* The types of the firmware and its safety, proved for every number of    *)
(* retries, messages, users, menu options and time-outs: the invariants of *)
(* the GSM object's waits, of the sessions and of the motor starter, and   *)
(* the notifications of new messages.                                      *)
(***************************************************************************)
EXTENDS SmsController, SequenceTheorems, FiniteSetTheorems, TLAPS

-----------------------------------------------------------------------------
(* The kernel's operators. *)

(* A counter of 16 bits has values. *)
LEMMA WordType == Word \in Nat \ {0}
BY SMT DEF Word

(* An event of a known signal and parameter is an event. *)
LEMMA EventType ==
  ASSUME NEW sig \in Signals, NEW par \in Pars
  PROVE  EventPar(sig, par) \in Events
BY DEF EventPar, Events

(* The parameters that stand for nothing are parameters. *)
LEMMA PlainEventType ==
  ASSUME NEW sig \in Signals
  PROVE  Event(sig) \in Events
<1>1. "0" \in Pars
  BY DEF Pars
<1> QED
  BY <1>1, EventType DEF Event

(* Posting an event keeps the queues queues of events. *)
LEMMA PostType ==
  ASSUME NEW q \in Queues, NEW a \in Objects, NEW e \in Events
  PROVE  Post(q, a, e) \in Queues
<1>1. Append(q[a], e) \in Seq(Events)
  BY AppendProperties DEF Queues
<1> QED
  BY <1>1 DEF Post, Queues

(* Timers are armed for a state, or off. *)
LEMMA ArmType ==
  ASSUME NEW t \in Timers, NEW a \in Objects
  PROVE  /\ Disarm(t, a) \in Timers
         /\ \A s \in GsmStates \cup AppStates : Arm(t, a, s) \in Timers
BY DEF Arm, Disarm, Timers

(* A handler that returns typed queues and timers leaves a typed kernel. *)
LEMMA ReturnType ==
  ASSUME NEW q \in Queues, NEW t \in Timers, Return(q, t)
  PROVE  KernelType'
BY DEF Return, KernelType, Idle, Pars, Queues, Timers, Events

(* What the GSM object tells the application, and what the application     *)
(* asks of it or posts to itself.                                          *)
LEMMA MessageType ==
  ASSUME KernelType, NEW sig \in Signals, NEW par \in Pars
  PROVE  /\ Told(sig) \in Queues /\ Asks(sig) \in Queues /\ Self(sig) \in Queues
         /\ AskWith(sig, par) \in Queues
<1>1. {"gsm", "app"} \subseteq Objects
  BY ConfigurationOfMain DEF ObjectsOfMain
<1>2. queue \in Queues
  BY DEF KernelType
<1> QED
  BY <1>1, <1>2, PostType, EventType, PlainEventType DEF Told, Asks, Self, AskWith

(* The ways in which a handler of the GSM object leaves the kernel: it     *)
(* keeps the queues or tells the application, and keeps, stops or arms its *)
(* timer.                                                                  *)
LEMMA GsmReturnType ==
  ASSUME KernelType,
         NEW q, q = queue \/ (\E sig \in Signals : q = Told(sig)) \/ q \in Queues,
         NEW t, t \in {timer, Disarm(timer, "gsm")} \/ \E s \in GsmStates : t = Armed(s),
         Return(q, t)
  PROVE  KernelType'
<1>1. q \in Queues
  <2>1. "0" \in Pars
    BY DEF Pars
  <2> QED
    BY <2>1, MessageType DEF KernelType
<1>2. "gsm" \in Objects
  BY ConfigurationOfMain DEF ObjectsOfMain
<1>3. t \in Timers
  BY <1>2, ArmType DEF KernelType, Armed
<1> QED
  BY <1>1, <1>3, ReturnType

-----------------------------------------------------------------------------
(* Types. *)

(* Sending a command. *)
LEMMA SendsType ==
  ASSUME LinkType, NEW c \in Commands, Sends(c)
  PROVE  LinkType'
<1>1. tx' \in Seq(Commands)
  BY AppendProperties DEF LinkType, Sends
<1> QED
  BY <1>1 DEF LinkType, Sends

LEMMA GsmOnlyType ==
  ASSUME LinkType, GsmOnly
  PROVE  LinkType'
BY DEF LinkType, GsmOnly, linkVars

(* The end of an operation. *)
LEMMA BackToIdleType ==
  ASSUME KernelType, GsmType, NEW q \in Queues, BackToIdle(q)
  PROVE  KernelType' /\ GsmType'
<1>1. KernelType'
  BY GsmReturnType DEF BackToIdle
<1>2. busy' = FALSE
  BY DEF BackToIdle
<1>3. gsm' \in GsmStates /\ tries' \in 0 .. 255 /\ op' = "NONE"
  BY DEF BackToIdle, GsmStates
<1>4. response' \in Pars /\ ix' \in Nat /\ flash' \in Pars
  BY DEF BackToIdle, GsmType
<1> QED
  BY <1>1, <1>2, <1>3, <1>4 DEF GsmType

(* Bringing the modem up keeps the types. *)
LEMMA InactiveType ==
  ASSUME KernelType, LinkType, GsmType, GsmInactive
  PROVE  KernelType' /\ LinkType' /\ GsmType'
<1>s. {"opencom", "powering_on", "check_comlink", "device_config", "active_idle"}
        \subseteq GsmStates
  BY DEF GsmStates, InactiveStates
<1>1. CASE StartAo
  <2>1. Post(queue, "com", Event("OPEN_REQUEST")) \in Queues
    BY ConfigurationOfMain, PostType, PlainEventType DEF ObjectsOfMain, Signals, KernelType
  <2>2. KernelType'
    BY <1>1, <2>1, GsmReturnType DEF StartAo
  <2> QED
    BY <1>1, <1>s, <2>2, GsmOnlyType DEF StartAo, GsmType, controlVars
<1>2. CASE ComOpened \/ PowerKey
  <2>1. KernelType'
    BY <1>2, <1>s, GsmReturnType DEF ComOpened, PowerKey, Ignore
  <2> QED
    BY <1>2, <1>s, <2>1, GsmOnlyType DEF ComOpened, PowerKey, GsmType, gsmVars, controlVars
<1>3. CASE PoweredOn \/ RetryAt
  <2>1. KernelType'
    BY <1>3, <1>s, GsmReturnType DEF PoweredOn, RetryAt
  <2>2. LinkType'
    BY <1>3, SendsType DEF PoweredOn, RetryAt, Commands
  <2> QED
    BY <1>3, <1>s, <2>1, <2>2, GsmAssumption DEF PoweredOn, RetryAt, GsmType, Decremented
<1>4. CASE NoModem
  <2>1. KernelType'
    BY <1>4, GsmReturnType DEF NoModem, Signals
  <2> QED
    BY <1>4, <1>s, <2>1, GsmOnlyType DEF NoModem, GsmType, Decremented
<1>5. CASE LinkUp \/ ConfigNext
  <2>1. KernelType'
    BY <1>5, <1>s, GsmReturnType DEF LinkUp, ConfigNext
  <2>2. LinkType'
    BY <1>5, SendsType DEF LinkUp, ConfigNext, Commands
  <2> QED
    BY <1>5, <1>s, <2>1, <2>2 DEF LinkUp, ConfigNext, GsmType
<1>6. CASE ConfigDone \/ ConfigFails
  <2>1. KernelType'
    BY <1>6, GsmReturnType DEF ConfigDone, ConfigFails, Signals
  <2> QED
    BY <1>6, <1>s, <2>1, GsmOnlyType DEF ConfigDone, ConfigFails, GsmType, controlVars
<1> QED
  BY <1>1, <1>2, <1>3, <1>4, <1>5, <1>6 DEF GsmInactive

(* Accepting or refusing a request keeps the types. *)
LEMMA RequestType ==
  ASSUME KernelType, LinkType, GsmType,
         IdleTells \/ \E r \in Requests : Accept(r)
  PROVE  KernelType' /\ LinkType' /\ GsmType'
<1>1. CASE IdleTells
  <2>1. KernelType'
    BY <1>1, GsmReturnType DEF IdleTells, Signals
  <2> QED
    BY <1>1, <2>1, GsmOnlyType DEF IdleTells, GsmType, gsmVars, controlVars
<1>2. ASSUME NEW r \in Requests, Accept(r)
      PROVE  KernelType' /\ LinkType' /\ GsmType'
  <2>1. Operation[r] \in GsmStates
    BY DEF Requests, Operation, GsmStates, OperationStates
  <2>2. KernelType'
    BY <1>2, <2>1, GsmReturnType DEF Accept
  <2>3. LinkType'
    <3>1. \E c \in Commands : Sends(c)
      BY <1>2 DEF Accept, Commands
    <3> QED
      BY <3>1, SendsType
  <2>4. response' \in Pars /\ flash' \in Pars
    <3>1. current.par \in Pars /\ "1" \in Pars
      BY DEF KernelType, Pars
    <3> QED
      BY <1>2, <3>1 DEF Accept, GsmType
  <2>5. op' \in {"NETWORK", "ACC", "SMS"} /\ busy' = TRUE
    BY <1>2 DEF Accept, OpOf
  <2>6. gsm' \in GsmStates /\ tries' \in 0 .. 255 /\ ix' \in Nat
    BY <1>2, <2>1 DEF Accept, GsmType
  <2> QED
    BY <2>2, <2>3, <2>4, <2>5, <2>6 DEF GsmType
<1> QED
  BY <1>1, <1>2

(* The parser posts at most one event for a line. *)
LEMMA ParsedType ==
  ASSUME NEW line
  PROVE  Parsed(line) \in Seq(Events)
<1>1. \A par \in Lines \cup {"0"} : par \in Pars
  BY DEF Pars
<1>2. \A sig \in Signals, par \in Lines \cup {"0"} : <<EventPar(sig, par)>> \in Seq(Events)
  BY <1>1, EventType
<1>3. Parsed(line) = <<>> \/ \E sig \in Signals, par \in Lines \cup {"0"} :
                                Parsed(line) = <<EventPar(sig, par)>>
  <2>1. CASE line \in {"OK", "ERROR", "CMTI"}
    BY <2>1, ModemAssumption DEF Parsed, Event, Signals, Lines
  <2>2. CASE line \notin {"OK", "ERROR", "CMTI"} /\ op = "SMS"
    BY <2>2, ModemAssumption DEF Parsed, Event, Signals, Lines
  <2>3. CASE line \notin {"OK", "ERROR", "CMTI"} /\ op # "SMS"
    BY <2>3, ModemAssumption DEF Parsed, Event, Signals, Lines
  <2> QED
    BY <2>1, <2>2, <2>3
<1> QED
  BY <1>2, <1>3, EmptySeq

(* Parsing the receive buffer keeps the types. *)
LEMMA ParseType ==
  ASSUME KernelType, LinkType, GsmType, ParseLine \/ ParseDone
  PROVE  KernelType' /\ LinkType' /\ GsmType'
<1>0. "gsm" \in Objects
  BY ConfigurationOfMain DEF ObjectsOfMain
<1>1. CASE ParseLine
  <2>1. rx # <<>>
    BY <1>1, EmptySeq DEF ParseLine, LinkType
  <2>2. rx' \in Seq(Lines) /\ Len(rx') = Len(rx) - 1
    BY <1>1, <2>1, HeadTailProperties DEF ParseLine, LinkType
  <2>3. LinkType'
    <3>1. Len(rx) \in Nat
      BY LenProperties DEF LinkType
    <3>2. avail' \in 0 .. Len(rx') /\ Len(rx') <= RxLines
      BY <1>1, <2>2, <3>1, ModemAssumption DEF ParseLine, LinkType
    <3> QED
      BY <1>1, <2>2, <3>2 DEF ParseLine, LinkType
  <2>4. queue["gsm"] \o Parsed(Head(rx)) \in Seq(Events)
    BY <1>0, ParsedType, ConcatProperties DEF KernelType, Queues
  <2>5. queue' \in Queues
    BY <1>1, <2>4 DEF ParseLine, KernelType, Queues
  <2>6. timer' \in Timers
    BY <1>0, <1>1, ArmType DEF ParseLine, KernelType
  <2> QED
    BY <1>1, <2>3, <2>5, <2>6 DEF ParseLine, KernelType, GsmType, gsmVars, controlVars
<1>2. CASE ParseDone
  <2>1. KernelType'
    BY <1>2, GsmReturnType DEF ParseDone, Ignore
  <2>2. LinkType'
    BY <1>2, EmptySeq, ModemAssumption DEF ParseDone, LinkType
  <2> QED
    BY <1>2, <2>1, <2>2 DEF ParseDone, GsmType, gsmVars, controlVars
<1> QED
  BY <1>1, <1>2

(* Carrying out an operation keeps the types. *)
LEMMA OperationType ==
  ASSUME KernelType, LinkType, GsmType, GsmOperation
  PROVE  KernelType' /\ LinkType' /\ GsmType'
<1>p. current.par \in Pars /\ {"0", "rest"} \subseteq Pars
  BY DEF KernelType, Pars
<1>s. "sms_send_support" \in GsmStates /\ "network_status" \in GsmStates
      /\ "active_idle" \in GsmStates
  BY DEF GsmStates, OperationStates, Requests, Operation
<1>q. queue \in Queues /\ \A sig \in Signals : Told(sig) \in Queues
  BY <1>p, MessageType DEF KernelType
<1>1. CASE OperationTimesOut \/ NetworkTimesOut \/ NetworkReport \/ OperationDone
           \/ PresenceDone
  <2>1. \E q \in Queues : BackToIdle(q)
    BY <1>1, <1>q
    DEF OperationTimesOut, NetworkTimesOut, NetworkReport, OperationDone, PresenceDone,
        Outcome, Signals
  <2> QED
    BY <1>1, <2>1, BackToIdleType, GsmOnlyType
    DEF OperationTimesOut, NetworkTimesOut, NetworkReport, OperationDone, PresenceDone
<1>2. CASE NetworkRetry \/ NetworkSearching \/ NetworkFallsThrough
  <2>1. KernelType'
    BY <1>2, <1>s, GsmReturnType DEF NetworkRetry, NetworkSearching, NetworkFallsThrough
  <2>2. LinkType'
    BY <1>2, SendsType, GsmOnlyType
    DEF NetworkRetry, NetworkSearching, NetworkFallsThrough, Commands
  <2>3. gsm' = gsm /\ response' = response /\ ix' = ix /\ flash' = flash
        /\ tries' \in 0 .. 255 /\ op' \in {op, "NONE"}
    BY <1>2 DEF NetworkRetry, NetworkSearching, NetworkFallsThrough, GsmType, Decremented
  <2>4. busy' \in BOOLEAN
    BY <1>2 DEF NetworkRetry, NetworkSearching, NetworkFallsThrough, GsmType
  <2> QED
    BY <2>1, <2>2, <2>3, <2>4 DEF GsmType
<1>3. CASE NetworkResponse \/ KeepResponse \/ ExtractTime
  <2>1. Post(queue, "app", EventPar("SMS_FOUND", "ix")) \in Queues
    BY <1>q, ConfigurationOfMain, PostType, EventType DEF ObjectsOfMain, Signals, Pars
  <2>2. KernelType'
    BY <1>3, <1>q, <2>1, GsmReturnType
    DEF NetworkResponse, KeepResponse, ExtractTime, Ignore, Signals
  <2>3. LinkType'
    BY <1>3, GsmOnlyType DEF NetworkResponse, KeepResponse, ExtractTime
  <2>4. response' \in Pars /\ UNCHANGED <<gsm, busy, op, tries, ix, flash>>
    BY <1>3, <1>p DEF NetworkResponse, KeepResponse, ExtractTime
  <2> QED
    BY <2>2, <2>3, <2>4 DEF GsmType
<1>4. CASE SendText \/ BufferFull \/ SendRest
  <2>1. Post(queue, "gsm", EventPar("BUFFER_FULL", "rest")) \in Queues
    BY <1>p, <1>q, ConfigurationOfMain, PostType, EventType DEF ObjectsOfMain, Signals
  <2>2. KernelType'
    BY <1>4, <1>s, <2>1, GsmReturnType DEF SendText, BufferFull, SendRest, Ignore
  <2>3. LinkType'
    BY <1>4, SendsType, GsmOnlyType DEF SendText, BufferFull, SendRest, Commands
  <2>4. gsm' \in GsmStates /\ response' \in Pars /\ flash' \in Pars
    BY <1>4, <1>p, <1>s DEF SendText, BufferFull, SendRest, GsmType
  <2>5. UNCHANGED <<busy, op, tries, ix>>
    BY <1>4 DEF SendText, BufferFull, SendRest
  <2> QED
    BY <2>2, <2>3, <2>4, <2>5 DEF GsmType
<1>5. CASE ClockGarbled
  <2>1. KernelType'
    BY <1>5, GsmReturnType DEF ClockGarbled
  <2>2. gsm' \in GsmStates /\ response' \in Pars /\ tries' \in 0 .. 255 /\ op' = "NONE"
    BY <1>5, <1>p, <1>s DEF ClockGarbled
  <2>3. busy' = FALSE /\ ix' \in Nat /\ flash' \in Pars
    BY <1>5 DEF ClockGarbled, GsmType
  <2>4. LinkType'
    BY <1>5, GsmOnlyType DEF ClockGarbled
  <2>5. GsmType'
    BY <2>2, <2>3 DEF GsmType
  <2> QED
    BY <2>1, <2>4, <2>5
<1> QED
  BY <1>1, <1>2, <1>3, <1>4, <1>5 DEF GsmOperation

(* A step of the GSM object keeps the types. *)
LEMMA GsmHandlerType ==
  ASSUME KernelType, LinkType, GsmType, GsmHandler
  PROVE  KernelType' /\ LinkType' /\ GsmType'
<1>1. CASE GsmIgnores
  <2>1. KernelType'
    BY <1>1, GsmReturnType DEF GsmIgnores, Ignore
  <2> QED
    BY <1>1, <2>1, GsmOnlyType DEF GsmIgnores, GsmType, gsmVars, controlVars
<1> QED
  BY <1>1, InactiveType, RequestType, ParseType, OperationType DEF GsmHandler

-----------------------------------------------------------------------------
(* The link and the modem. *)

(* A prefix is a sequence of the same elements, no longer than its bound. *)
LEMMA PrefixType ==
  ASSUME NEW S, NEW s \in Seq(S), NEW n \in Nat
  PROVE  Prefix(s, n) \in Seq(S) /\ Len(Prefix(s, n)) <= n /\ Len(Prefix(s, n)) <= Len(s)
         /\ (Len(s) <= n => Len(Prefix(s, n)) = Len(s))
<1> DEFINE m == IF Len(s) > n THEN n ELSE Len(s)
<1>1. Len(s) \in Nat /\ m \in 0 .. Len(s)
  BY LenProperties
<1>2. SubSeq(s, 1, m) \in Seq(S)
  <2>1. \A i \in 1 .. m : s[i] \in S
    BY <1>1, ElementOfSeq
  <2> QED
    BY <1>1, <2>1, SubSeqProperties
<1>3. Len(SubSeq(s, 1, m)) = m
  BY <1>1, SubSeqProperties
<1> QED
  BY <1>1, <1>2, <1>3 DEF Prefix

(* What the modem answers are lines, and the SIM card keeps its type. *)
LEMMA ExecutesType ==
  ASSUME LinkType, NEW c, Executes(c, answer')
  PROVE  answer' \in Seq(Lines) /\ sim' \in [unread : Nat, read : Nat]
<1>1. {"OK", "CCLK", "CMGL", "CMGR", "PROMPT", "CMGS"} \cup Registrations \subseteq Lines
  BY DEF Lines
<1>2. /\ <<"OK">> \in Seq(Lines) /\ <<"PROMPT">> \in Seq(Lines) /\ <<>> \in Seq(Lines)
      /\ \A l \in Lines : <<l, "OK">> \in Seq(Lines)
  BY <1>1
<1>3. [i \in 1 .. sim.unread |-> "CMGL"] \o <<"OK">> \in Seq(Lines)
  <2>1. [i \in 1 .. sim.unread |-> "CMGL"] \in Seq(Lines)
    BY <1>1 DEF LinkType
  <2> QED
    BY <1>2, <2>1, ConcatProperties
<1>4. answer' \in Seq(Lines)
  BY <1>1, <1>2, <1>3 DEF Executes
<1>5. CASE sim' = sim
  BY <1>4, <1>5 DEF LinkType
<1>6. CASE sim' \in OneRead
  BY <1>4, <1>6 DEF LinkType, OneRead
<1>7. CASE sim' = [sim EXCEPT !.read = 0]
  BY <1>4, <1>7 DEF LinkType
<1> QED
  BY <1>5, <1>6, <1>7 DEF Executes

(* The interrupts and the modem keep the types. *)
LEMMA LinkStepType ==
  ASSUME KernelType, LinkType,
         TxDone \/ RxTimeout \/ ModemAnswers \/ ModemSends \/ MessageArrives
  PROVE  KernelType' /\ LinkType'
<1>0. "gsm" \in Objects
  BY ConfigurationOfMain DEF ObjectsOfMain
<1>p. ASSUME NEW sig \in Signals, PostedTo("gsm", Event(sig))
      PROVE  KernelType'
  BY <1>0, <1>p, PostType, PlainEventType DEF PostedTo, KernelType
<1>u. kernelVars' = kernelVars => KernelType'
  BY DEF kernelVars, KernelType
<1>l. Len(rx) \in Nat
  BY LenProperties DEF LinkType
<1>r. ASSUME NEW lines \in Seq(Lines)
      PROVE  /\ Received(lines) \in Seq(Lines)
             /\ Len(Received(lines)) <= RxLines
             /\ avail \in 0 .. Len(Received(lines))
  <2>1. /\ rx \o lines \in Seq(Lines)
        /\ Len(rx \o lines) = Len(rx) + Len(lines) /\ Len(lines) \in Nat
    BY ConcatProperties, LenProperties DEF LinkType
  <2>2. /\ Received(lines) \in Seq(Lines) /\ Len(Received(lines)) \in Nat
        /\ Len(Received(lines)) <= RxLines
    BY <2>1, PrefixType, LenProperties, ModemAssumption DEF Received
  <2>3. Len(rx) <= Len(Received(lines))
    <3>1. CASE Len(rx \o lines) <= RxLines
      <4>1. Len(Prefix(rx \o lines, RxLines)) = Len(rx \o lines)
        BY <2>1, <3>1, PrefixType, ModemAssumption
      <4> QED
        BY <2>1, <4>1, <1>l DEF Received
    <3>2. CASE Len(rx \o lines) > RxLines
      <4>1. Len(Received(lines)) = RxLines
        BY <2>1, <3>2, SubSeqProperties, LenProperties, ModemAssumption, <1>l DEF Received, Prefix
      <4> QED
        BY <4>1 DEF LinkType
    <3> QED
      BY <2>1, <3>1, <3>2, <1>l, ModemAssumption
  <2> QED
    BY <1>l, <2>2, <2>3 DEF LinkType
<1>1. CASE TxDone
  <2>1. KernelType'
    BY <1>1, <1>p DEF TxDone, Signals
  <2>2. pending' \in Seq(Commands)
    BY <1>1, ConcatProperties, PrefixType, ModemAssumption DEF TxDone, LinkType
  <2> QED
    BY <1>1, <2>1, <2>2 DEF TxDone, LinkType
<1>2. CASE RxTimeout
  <2>1. KernelType'
    BY <1>2, <1>p DEF RxTimeout, Signals
  <2> QED
    BY <1>2, <2>1, <1>l DEF RxTimeout, LinkType
<1>3. CASE ModemAnswers
  <2>1. pending' \in Seq(Commands)
    BY <1>3, HeadTailProperties DEF ModemAnswers, LinkType
  <2>2. answer' \in Seq(Lines) /\ sim' \in [unread : Nat, read : Nat]
    <3>1. CASE Executes(Head(pending), answer')
      BY <3>1, ExecutesType
    <3>2. CASE answer' \in {<<>>, <<"ERROR">>} /\ UNCHANGED sim
      <4>1. <<>> \in Seq(Lines) /\ <<"ERROR">> \in Seq(Lines)
        BY EmptySeq DEF Lines
      <4> QED
        BY <3>2, <4>1 DEF LinkType
    <3> QED
      BY <1>3, <3>1, <3>2 DEF ModemAnswers
  <2> QED
    BY <1>3, <1>u, <2>1, <2>2 DEF ModemAnswers, LinkType
<1>4. CASE ModemSends
  <2> DEFINE n == IF Burst THEN Len(answer) ELSE 1
  <2>1. Len(answer) \in Nat /\ n \in 1 .. Len(answer)
    BY <1>4, LenProperties, EmptySeq DEF ModemSends, LinkType
  <2>2. SubSeq(answer, 1, n) \in Seq(Lines) /\ SubSeq(answer, n + 1, Len(answer)) \in Seq(Lines)
    <3>1. \A i \in 1 .. Len(answer) : answer[i] \in Lines
      BY ElementOfSeq DEF LinkType
    <3> QED
      BY <2>1, <3>1, SubSeqProperties
  <2>3. rx' = Received(SubSeq(answer, 1, n)) /\ answer' = SubSeq(answer, n + 1, Len(answer))
        /\ UNCHANGED <<kernelVars, tx, avail, pending, sim, arrived>>
    BY <1>4 DEF ModemSends
  <2> HIDE DEF n
  <2> QED
    BY <1>u, <1>r, <2>2, <2>3 DEF LinkType
<1>5. CASE MessageArrives
  <2>1. <<"CMTI">> \in Seq(Lines)
    BY DEF Lines
  <2>2. sim' \in [unread : Nat, read : Nat] /\ arrived' \in Nat
    BY <1>5 DEF MessageArrives, LinkType
  <2> QED
    BY <1>5, <1>u, <1>r, <2>1, <2>2 DEF MessageArrives, LinkType
<1> QED
  BY <1>1, <1>2, <1>3, <1>4, <1>5


-----------------------------------------------------------------------------
(* The application. *)

(* The states the actions name, and the parameters they pass on. *)
LEMMA AppStatesNamed ==
  /\ {"app_idle", "reciever", "validate", "get_status", "action_on", "action_off",
      "action_menu", "cleanup", "init"} \cup MenuOptions \subseteq AppStates
  /\ {"0", "1", "SMS_UNREAD"} \subseteq Pars
BY DEF AppStates, ActiveStates, ActionStates, MenuStates, Pars

(* The signals the application posts. *)
LEMMA AppSignals ==
  {"GSM_INIT", "NETWORK_READ", "CHECK_PRESENCE", "SMS_READ", "SMS_SEND", "SMS_DELETE",
   "SMS_SENT", "CLOCK_READ", "CLOCK_SET", "EXTRACT_TIME", "TRANSITION_OUT",
   "START_SESSION", "STATUS_READ_DONE", "SEND_BROADCAST", "READ_ENTITY", "SMS_NEW"}
    \subseteq Signals
BY DEF Signals, Requests, Operation

(* What a handler of the application leaves behind: the queues it found,   *)
(* or one more event for the GSM object, the energy monitor or itself; and *)
(* its own timer as it was, off, or armed.                                 *)
AppQueues ==
  {queue} \cup {Asks(sig) : sig \in Signals} \cup {Self(sig) : sig \in Signals}
    \cup {AskWith(sig, par) : sig \in Signals, par \in Pars}
    \cup {Post(queue, "emon", Event("READ_ENTITY"))}
AppTimers ==
  {timer, Disarm(timer, "app")} \cup {Arm(timer, "app", s) : s \in AppStates}
AppReturns == \E q \in AppQueues, t \in AppTimers : Return(q, t)

LEMMA AppQueuesNamed ==
  /\ queue \in AppQueues /\ Post(queue, "emon", Event("READ_ENTITY")) \in AppQueues
  /\ \A sig \in Signals : Asks(sig) \in AppQueues /\ Self(sig) \in AppQueues
  /\ \A sig \in Signals, par \in Pars : AskWith(sig, par) \in AppQueues
  /\ timer \in AppTimers /\ Disarm(timer, "app") \in AppTimers
  /\ \A s \in AppStates : Arm(timer, "app", s) \in AppTimers
BY DEF AppQueues, AppTimers

(* Every handler of the application returns that way. *)
LEMMA AppHandlerReturns ==
  ASSUME KernelType, AppType, AppHandler
  PROVE  AppReturns /\ current.ao = "app"
<1> USE AppSignals, AppStatesNamed, AppQueuesNamed DEF AppReturns, Handling, MessageRead
<1>p. current.par \in Pars /\ app \in AppStates
  BY DEF KernelType, AppType
<1>1. CASE StartModem \/ ModemUp \/ NetworkDown
  BY <1>1 DEF StartModem, ModemUp, NetworkDown
<1>2. ASSUME EnterIdle(queue)
      PROVE  AppReturns
  BY <1>2 DEF EnterIdle, Self
<1>3. CASE Registered \/ Deleted
  BY <1>2, <1>3 DEF Registered, Deleted
<1>4. CASE IdlePeriod \/ ActivePeriod
  BY <1>p, <1>4 DEF IdlePeriod, ActivePeriod
<1>5. CASE Recieve \/ Defer \/ MessageFound \/ Reject \/ AskStatus \/ AskSession
  BY <1>p, <1>5 DEF Recieve, Defer, Ignore, MessageFound, Reject, AskStatus, AskSession
<1>6. CASE AskOn \/ AskOff \/ OnEnds \/ OffEnds
  BY <1>6 DEF AskOn, AskOff, AskMotor, Switch, OnEnds, OffEnds, PulseEnds
<1>7. CASE \E u \in Users, o \in MenuOptions : MenuStep(u, o)
  BY <1>7 DEF MenuStep
<1>8. CASE StartSession \/ SetTimeRead \/ SetTimeDone \/ ClockRead
  BY <1>p, <1>8 DEF StartSession, SetTimeRead, SetTimeDone, ClockRead
<1>9. CASE Measured \/ StatusRead \/ Broadcast \/ BroadcastNext \/ AppIgnores
  BY <1>9 DEF Measured, StatusRead, Broadcast, BroadcastNext, AppIgnores, Ignore
<1>10. ASSUME Leave
       PROVE  AppReturns
  BY <1>10 DEF Leave
<1>11. CASE Answered \/ TurnedAway
  BY <1>10, <1>11 DEF Answered, TurnedAway
<1> QED
  BY <1>1, <1>3, <1>4, <1>5, <1>6, <1>7, <1>8, <1>9, <1>11 DEF AppHandler

(* ... which keeps the kernel's types. *)
LEMMA AppReturnType ==
  ASSUME KernelType, AppReturns
  PROVE  KernelType'
<1>1. {"app", "emon"} \subseteq Objects /\ "0" \in Pars
  BY ConfigurationOfMain DEF ObjectsOfMain, Pars
<1>2. queue \in Queues /\ timer \in Timers
  BY DEF KernelType
<1>3. Post(queue, "emon", Event("READ_ENTITY")) \in Queues
  BY <1>1, <1>2, PostType, PlainEventType DEF Signals
<1>4. AppQueues \subseteq Queues
  BY <1>1, <1>2, <1>3, MessageType DEF AppQueues
<1>5. AppTimers \subseteq Timers
  BY <1>1, <1>2, ArmType DEF AppTimers
<1> QED
  BY <1>4, <1>5, ReturnType DEF AppReturns

(* A session that is closed, aged or in its menu is a session. *)
SessionType == [open : BOOLEAN, menu : BOOLEAN, timing : 0 .. SessionTime,
                option : MenuOptions \cup {"none"}]

LEMMA SessionsType ==
  ASSUME session \in [Users -> SessionType]
  PROVE  /\ \A u \in Users : Closed(u) \in [Users -> SessionType]
         /\ Aged \in [Users -> SessionType]
<1>1. ASSUME NEW u \in Users
      PROVE  Closed(u) \in [Users -> SessionType]
  BY <1>1 DEF Closed, SessionType
<1>2. ASSUME NEW u \in Users
      PROVE  (IF session[u].timing = 0 THEN session[u]
              ELSE [session[u] EXCEPT !.timing = @ - 1,
                                      !.open = @ /\ session[u].timing > 1]) \in SessionType
  <2>1. session[u] \in SessionType
    OBVIOUS
  <2>2. (session[u].open /\ session[u].timing > 1) \in BOOLEAN
    OBVIOUS
  <2>3. session[u].timing # 0 => session[u].timing - 1 \in 0 .. SessionTime
    BY <2>1, AppAssumption DEF SessionType
  <2> QED
    BY <2>1, <2>2, <2>3 DEF SessionType
<1> QED
  BY <1>1, <1>2 DEF Aged

(* The session after a step of its user's menu is a session. *)
LEMMA MenuStepType ==
  ASSUME AppType, NEW u \in Users, NEW o \in MenuOptions, MenuStep(u, o)
  PROVE  session' \in [Users -> SessionType]
<1> DEFINE first == ~session[u].menu
           next == [session[u] EXCEPT !.option = o,
                                      !.menu = @ \/ o \in TwoStep,
                                      !.open = o \notin TwoStep \/ first]
<1>1. session[u] \in SessionType
  BY DEF AppType, SessionType
<1>2. (session[u].menu \/ o \in TwoStep) \in BOOLEAN /\ (o \notin TwoStep \/ first) \in BOOLEAN
  OBVIOUS
<1>3. next \in SessionType
  BY <1>1, <1>2 DEF SessionType
<1>4. session' = [session EXCEPT ![u] = next]
  BY DEF MenuStep
<1> HIDE DEF next
<1> QED
  BY <1>3, <1>4 DEF AppType, SessionType

(* A step of the application keeps the types. *)
LEMMA AppHandlerType ==
  ASSUME KernelType, AppType, AppHandler
  PROVE  KernelType' /\ AppType'
<1>0. KernelType'
  BY AppHandlerReturns, AppReturnType
<1>s. session \in [Users -> SessionType]
  BY DEF AppType, SessionType
<1>1. CASE StartModem \/ ModemUp \/ NetworkDown \/ MessageFound \/ AppIgnores
           \/ SetTimeRead \/ SetTimeDone \/ ClockRead \/ StatusRead
  <2>1. UNCHANGED appVars
    BY <1>1 DEF StartModem, ModemUp, NetworkDown, MessageFound, AppIgnores, SetTimeRead,
                SetTimeDone, ClockRead, StatusRead
  <2> QED
    BY <1>0, <2>1 DEF appVars, sessionVars, AppType
<1>2. CASE Registered \/ Deleted
  <2>1. app' \in AppStates /\ defered' \in 0 .. Word - 1
    BY <1>2, AppStatesNamed, WordType DEF Registered, Deleted, EnterIdle, AppType
  <2> QED
    BY <1>0, <1>2, <2>1 DEF Registered, Deleted, sessionVars, AppType
<1>3. CASE IdlePeriod \/ ActivePeriod
  <2>1. session' \in [Users -> SessionType]
    BY <1>3, <1>s, SessionsType DEF IdlePeriod, ActivePeriod
  <2>2. countdown' \in [Users -> 0 .. MaxFreq] /\ updates' \in SUBSET Users
    BY <1>3 DEF IdlePeriod, ActivePeriod, AppType, CountedDown, Due
  <2>3. UNCHANGED <<app, history, motorOn, coil, defered, reading, userid>>
    BY <1>3 DEF IdlePeriod, ActivePeriod
  <2> QED
    BY <1>0, <2>1, <2>2, <2>3 DEF AppType, SessionType
<1>4. CASE Recieve \/ Defer \/ Reject \/ AskStatus \/ AskSession \/ Measured
           \/ Broadcast \/ BroadcastNext
  <2>1. app' \in AppStates /\ userid' \in Users /\ updates' \in SUBSET Users
    BY <1>4, AppStatesNamed DEF Recieve, Defer, Reject, AskStatus, AskSession, Measured,
                                Broadcast, BroadcastNext, sessionVars, AppType
  <2>3. history' \in {"none", "action_status", "send_broadcast"}
    BY <1>4 DEF Recieve, Defer, Reject, AskStatus, AskSession, Measured, Broadcast,
                BroadcastNext, AppType
  <2>4. defered' \in 0 .. Word - 1 /\ reading' \in 0 .. 2
    BY <1>4, WordType DEF Recieve, Defer, Reject, AskStatus, AskSession, Measured, Broadcast,
                BroadcastNext, AppType
  <2>2. UNCHANGED <<motorOn, coil, session, countdown>>
    BY <1>4 DEF Recieve, Defer, Reject, AskStatus, AskSession, Measured, Broadcast,
                BroadcastNext, sessionVars
  <2> QED
    BY <1>0, <2>1, <2>2, <2>3, <2>4 DEF AppType
<1>5. CASE AskOn \/ AskOff \/ OnEnds \/ OffEnds
  <2>1. app' \in AppStates /\ coil' \in SUBSET {"ON", "OFF"} /\ userid' \in Users
    BY <1>5, AppStatesNamed
    DEF AskOn, AskOff, AskMotor, Switch, OnEnds, OffEnds, PulseEnds, AppType, sessionVars
  <2>2. motorOn' \in BOOLEAN
    BY <1>5 DEF AskOn, AskOff, AskMotor, OnEnds, OffEnds, PulseEnds, AppType
  <2>3. UNCHANGED <<history, defered, reading, updates, session, countdown>>
    BY <1>5 DEF AskOn, AskOff, AskMotor, OnEnds, OffEnds, PulseEnds, sessionVars
  <2> QED
    BY <1>0, <2>1, <2>2, <2>3 DEF AppType
<1>6. ASSUME NEW u \in Users, NEW o \in MenuOptions, MenuStep(u, o)
      PROVE  AppType'
  <2>1. session' \in [Users -> SessionType]
    BY <1>6, MenuStepType
  <2>2. countdown' \in [Users -> 0 .. MaxFreq]
    BY <1>6 DEF MenuStep, AppType
  <2>3. app' \in AppStates /\ userid' \in Users
        /\ UNCHANGED <<history, motorOn, coil, defered, reading, updates>>
    BY <1>6, AppStatesNamed DEF MenuStep
  <2> QED
    BY <2>1, <2>2, <2>3 DEF AppType, SessionType
<1>7. CASE StartSession
  <2>1. [open |-> TRUE, menu |-> FALSE, timing |-> SessionTime, option |-> "none"]
          \in SessionType
    BY AppAssumption DEF SessionType
  <2>2. session' \in [Users -> SessionType]
    BY <1>7, <1>s, <2>1 DEF StartSession
  <2>3. UNCHANGED <<app, history, motorOn, coil, defered, reading, updates, userid, countdown>>
    BY <1>7 DEF StartSession
  <2> QED
    BY <1>0, <2>2, <2>3 DEF AppType, SessionType
<1>8. CASE Answered \/ TurnedAway
  <2>1. Leave
    BY <1>8 DEF Answered, TurnedAway
  <2>2. session' \in [Users -> SessionType]
    BY <1>s, <2>1, SessionsType DEF Leave, AppType
  <2>3. app' \in AppStates
        /\ UNCHANGED <<history, motorOn, coil, defered, reading, updates, userid, countdown>>
    BY <2>1, AppStatesNamed DEF Leave
  <2> QED
    BY <1>0, <2>2, <2>3 DEF AppType, SessionType
<1> QED
  BY <1>0, <1>1, <1>2, <1>3, <1>4, <1>5, <1>6, <1>7, <1>8 DEF AppHandler

-----------------------------------------------------------------------------
(* The whole firmware. *)

(* Taking an event and posting a time-out keep the kernel's types. *)
LEMMA KernelStepType ==
  ASSUME KernelType, NEW a \in Objects, Dispatch(a) \/ Expire(a)
  PROVE  KernelType'
<1>1. CASE Dispatch(a)
  <2>1. queue[a] \in Seq(Events) /\ queue[a] # <<>>
    BY <1>1 DEF Dispatch, Ready, KernelType, Queues
  <2>2. Head(queue[a]) \in Events /\ Tail(queue[a]) \in Seq(Events)
    BY <2>1, HeadTailProperties
  <2> QED
    BY <1>1, <2>2 DEF Dispatch, KernelType, Queues, Events
<1>2. CASE Expire(a)
  <2>1. timer[a] \in Pars
    BY <1>2 DEF Expire, KernelType, Timers, Pars
  <2>2. Post(queue, a, EventPar("TIMEOUT", timer[a])) \in Queues
    BY <2>1, PostType, EventType DEF KernelType, Signals
  <2> QED
    BY <1>2, <2>2, ArmType DEF Expire, KernelType
<1> QED
  BY <1>1, <1>2

(* The serial driver and the energy monitor post events to the objects. *)
LEMMA DriversType ==
  ASSUME KernelType, measuring \in BOOLEAN, Drivers
  PROVE  KernelType' /\ measuring' \in BOOLEAN
<1>1. /\ queue \in Queues /\ timer \in Timers
      /\ \A a \in {"gsm", "app"}, sig \in Signals : Post(queue, a, Event(sig)) \in Queues
  BY ConfigurationOfMain, PostType, PlainEventType DEF ObjectsOfMain, KernelType
<1>2. CASE ComOpen
  BY <1>1, <1>2, ReturnType DEF ComOpen, Signals
<1>3. CASE EmonStart
  BY <1>1, <1>3, ReturnType DEF EmonStart, Ignore
<1>4. CASE EmonDone
  <2>1. \E sig \in Signals : PostedTo("app", Event(sig))
    BY <1>4 DEF EmonDone, Signals
  <2>2. KernelType'
    BY <1>1, <2>1 DEF PostedTo, KernelType
  <2> QED
    BY <1>4, <2>2 DEF EmonDone
<1> QED
  BY <1>2, <1>3, <1>4 DEF Drivers

LEMMA InitType == Init => TypeOK
<1> SUFFICES ASSUME Init PROVE TypeOK
  OBVIOUS
<1>1. KernelType
  <2>1. Event("START_AO") \in Events
    BY PlainEventType DEF Signals
  <2>2. queue \in Queues
    BY <2>1 DEF Init, Queues
  <2>3. timer \in Timers
    BY DEF Init, Timers, AppStates
  <2> QED
    BY <2>2, <2>3 DEF Init, KernelType, Idle, Pars
<1>2. LinkType
  <2>1. tx = <<>> /\ rx = <<>> /\ avail = 0 /\ pending = <<>> /\ answer = <<>>
        /\ sim = [unread |-> 0, read |-> 0] /\ arrived = 0
    BY DEF Init, LinkInit
  <2>2. tx \in Seq(Commands) /\ pending \in Seq(Commands)
    BY <2>1
  <2>3. rx \in Seq(Lines) /\ answer \in Seq(Lines) /\ Len(rx) = 0
    BY <2>1
  <2> QED
    BY <2>1, <2>2, <2>3, ModemAssumption DEF LinkType
<1>3. GsmType
  <2>1. gsm \in GsmStates /\ op = "NONE" /\ response \in Pars /\ flash \in Pars
    BY DEF Init, GsmInit, GsmStates, InactiveStates, Pars
  <2>2. busy \in BOOLEAN
    BY DEF Init, GsmInit
  <2>3. tries \in 0 .. 255 /\ ix \in Nat
    BY DEF Init, GsmInit
  <2> QED
    BY <2>1, <2>2, <2>3 DEF GsmType
<1>4. AppType
  <2>1. [open |-> FALSE, menu |-> FALSE, timing |-> 0, option |-> "none"] \in SessionType
    BY AppAssumption DEF SessionType
  <2>2. session \in [Users -> SessionType]
    BY <2>1 DEF Init, AppInit
  <2>3. motorOn \in BOOLEAN
    BY DEF Init, AppInit
  <2>4. defered \in 0 .. Word - 1 /\ reading \in 0 .. 2
    BY WordType DEF Init, AppInit
  <2>5. app \in AppStates /\ history = "none" /\ coil = {} /\ updates = {} /\ userid = 1
        /\ countdown \in [Users -> 0 .. MaxFreq]
    BY DEF Init, AppInit, AppStates
  <2> QED
    BY <2>2, <2>3, <2>4, <2>5, AppAssumption DEF AppType, SessionType
<1> QED
  BY <1>1, <1>2, <1>3, <1>4 DEF Init, TypeOK

LEMMA NextType == TypeOK /\ [Next]_vars => TypeOK'
<1> SUFFICES ASSUME TypeOK, [Next]_vars PROVE TypeOK'
  OBVIOUS
<1>0. KernelType /\ LinkType /\ GsmType /\ AppType /\ measuring \in BOOLEAN
      /\ timeouts \in Nat
  BY DEF TypeOK
<1>k. kernelVars' = kernelVars => KernelType'
  BY <1>0 DEF kernelVars, KernelType
<1>l. linkVars' = linkVars => LinkType'
  BY <1>0 DEF linkVars, LinkType
<1>g. gsmVars' = gsmVars => GsmType'
  BY <1>0 DEF gsmVars, controlVars, GsmType
<1>a. appVars' = appVars => AppType'
  BY <1>0 DEF appVars, sessionVars, AppType
<1>o. {"gsm", "app"} \subseteq Objects
  BY ConfigurationOfMain DEF ObjectsOfMain
<1>1. CASE Schedule
  BY <1>0, <1>1, <1>l, <1>g, <1>a, KernelStepType DEF Schedule, TypeOK
<1>2. CASE GsmStep
  BY <1>0, <1>2, <1>a, GsmHandlerType DEF GsmStep, TypeOK
<1>3. CASE AppStep
  BY <1>0, <1>3, <1>l, <1>g, AppHandlerType DEF AppStep, TypeOK
<1>4. CASE Drivers
  <2>1. UNCHANGED <<linkVars, gsmVars, appVars, timeouts>>
    BY <1>4 DEF Drivers, ComOpen, EmonStart, EmonDone
  <2> QED
    BY <1>0, <1>4, <1>l, <1>g, <1>a, <2>1, DriversType DEF TypeOK
<1>5. CASE Link
  <2>1. KernelType' /\ LinkType'
    BY <1>0, <1>5, LinkStepType DEF Link
  <2> QED
    BY <1>0, <1>5, <1>g, <1>a, <2>1 DEF Link, TypeOK
<1>6. CASE GsmTick
  <2>1. timeouts' \in Nat
    BY <1>0, <1>6 DEF GsmTick
  <2> QED
    BY <1>0, <1>6, <1>l, <1>g, <1>a, <1>o, <2>1, KernelStepType DEF GsmTick, TypeOK
<1>7. CASE AppTick
  BY <1>0, <1>7, <1>l, <1>g, <1>a, <1>o, KernelStepType DEF AppTick, TypeOK
<1>8. CASE UNCHANGED vars
  BY <1>0, <1>8, <1>k, <1>l, <1>g, <1>a DEF vars, TypeOK
<1> QED
  BY <1>1, <1>2, <1>3, <1>4, <1>5, <1>6, <1>7, <1>8 DEF Next

(* Every variable keeps its type in every state of the firmware: the       *)
(* counters of gsm.c and app.c stay within their bytes and what has been   *)
(* announced of the receive buffer within the buffer.                      *)
THEOREM TypeCorrect == Spec => []TypeOK
BY InitType, NextType, PTL DEF Spec

-----------------------------------------------------------------------------
(* Events that wait. *)

(* An event that waits keeps waiting when others are posted behind it. *)
LEMMA WaitingStays ==
  ASSUME NEW a, NEW sig, queue[a] \in Seq(Events), Waiting(a, sig),
         \/ queue'[a] = queue[a]
         \/ \E s \in Seq(Events) : queue'[a] = queue[a] \o s
         \/ \E e \in Events : queue'[a] = Append(queue[a], e)
  PROVE  Waiting(a, sig)'
<1>1. PICK i \in DOMAIN queue[a] : queue[a][i].sig = sig
  BY DEF Waiting
<1>2. i \in 1 .. Len(queue[a]) /\ Len(queue[a]) \in Nat
  BY <1>1, LenProperties
<1>3. CASE queue'[a] = queue[a]
  BY <1>1, <1>3 DEF Waiting
<1>4. ASSUME NEW s \in Seq(Events), queue'[a] = queue[a] \o s
      PROVE  Waiting(a, sig)'
  <2>1. Len(s) \in Nat
    BY LenProperties
  <2>2. i \in DOMAIN (queue[a] \o s) /\ (queue[a] \o s)[i] = queue[a][i]
    BY <1>2, <2>1, ConcatProperties, LenProperties
  <2> QED
    BY <1>1, <1>4, <2>2 DEF Waiting
<1>5. ASSUME NEW e \in Events, queue'[a] = Append(queue[a], e)
      PROVE  Waiting(a, sig)'
  <2>1. i \in DOMAIN Append(queue[a], e) /\ Append(queue[a], e)[i] = queue[a][i]
    BY <1>2, AppendProperties, LenProperties
  <2> QED
    BY <1>1, <1>5, <2>1 DEF Waiting
<1> QED
  BY <1>3, <1>4, <1>5

(* A pending event is still pending when the scheduler takes an event. *)
LEMMA DispatchKeepsPending ==
  ASSUME KernelType, NEW a \in Objects, Dispatch(a), NEW b \in Objects, NEW sig,
         Pending(b, sig)
  PROVE  Pending(b, sig)'
<1>1. Waiting(b, sig)
  <2>1. "none" \notin Objects
    BY ConfigurationOfMain DEF ObjectsOfMain
  <2> QED
    BY <2>1 DEF Dispatch, Idle, Pending
<1>2. queue[a] \in Seq(Events) /\ queue[b] \in Seq(Events)
  BY DEF KernelType, Queues
<1>3. CASE a # b
  <2>1. queue'[b] = queue[b]
    BY <1>3 DEF Dispatch, KernelType, Queues
  <2> QED
    BY <1>1, <1>2, <2>1, WaitingStays DEF Pending
<1>4. CASE a = b
  <2>1. PICK i \in 1 .. Len(queue[a]) : queue[a][i].sig = sig
    BY <1>1, <1>2, <1>4, LenProperties DEF Waiting
  <2>2. queue[a] # <<>> /\ Len(queue[a]) \in Nat
    BY <1>2, LenProperties DEF Dispatch, Ready
  <2>3. queue'[a] = Tail(queue[a]) /\ current'.ao = a /\ current'.sig = Head(queue[a]).sig
    BY DEF Dispatch, KernelType, Queues
  <2>4. CASE i = 1
    BY <1>4, <2>1, <2>2, <2>3, <2>4 DEF Pending
  <2>5. CASE i # 1
    <3>1. i - 1 \in DOMAIN Tail(queue[a]) /\ Tail(queue[a])[i - 1] = queue[a][i]
      BY <1>2, <2>1, <2>2, <2>5, HeadTailProperties, LenProperties
    <3> QED
      BY <1>4, <2>1, <2>3, <3>1 DEF Pending, Waiting
  <2> QED
    BY <2>4, <2>5
<1> QED
  BY <1>3, <1>4

(* What a step may do to the events and the timer of the GSM object        *)
(* without taking any: post it at most some more.                          *)
GsmUndisturbed ==
  /\ timer'["gsm"] = timer["gsm"]
  /\ \/ queue'["gsm"] = queue["gsm"]
     \/ \E s \in Seq(Events) : queue'["gsm"] = queue["gsm"] \o s
     \/ \E e \in Events : queue'["gsm"] = Append(queue["gsm"], e)

(* A handler of the application leaves them so. *)
LEMMA AppUndisturbing ==
  ASSUME KernelType, AppReturns
  PROVE  GsmUndisturbed
<1>1. {"gsm", "app"} \subseteq Objects
  BY ConfigurationOfMain DEF ObjectsOfMain
<1>2. PICK q \in AppQueues, t \in AppTimers : Return(q, t)
  BY DEF AppReturns
<1>3. t["gsm"] = timer["gsm"]
  BY <1>1 DEF AppTimers, Arm, Disarm, KernelType, Timers
<1>4. \A sig \in Signals, par \in Pars : EventPar(sig, par) \in Events /\ Event(sig) \in Events
  BY EventType, PlainEventType
<1>5. \A e \in Events : /\ Post(queue, "gsm", e)["gsm"] = Append(queue["gsm"], e)
                       /\ Post(queue, "app", e)["gsm"] = queue["gsm"]
                       /\ Post(queue, "emon", e)["gsm"] = queue["gsm"]
  BY <1>1 DEF Post, KernelType, Queues
<1>6. "0" \in Pars /\ "READ_ENTITY" \in Signals
  BY AppSignals, AppStatesNamed
<1>7. q["gsm"] = queue["gsm"] \/ \E e \in Events : q["gsm"] = Append(queue["gsm"], e)
  BY <1>4, <1>5, <1>6 DEF AppQueues, Asks, AskWith, Self
<1> QED
  BY <1>2, <1>3, <1>7 DEF GsmUndisturbed, Return

(* The timer of the GSM object runs, or the event that ends a wait is on   *)
(* its way.                                                                *)
Guarded == timer["gsm"] # "off" \/ Pending("gsm", "TIMEOUT") \/ Pending("gsm", "ACK")

(* A guard is not lost in a step that neither handles TIMEOUT or ACK nor   *)
(* touches the timer.                                                      *)
LEMMA GuardStays ==
  ASSUME KernelType, Guarded, GsmUndisturbed,
         current.ao = "gsm" => current.sig \notin {"TIMEOUT", "ACK"}
  PROVE  Guarded'
<1>1. CASE timer["gsm"] # "off"
  BY <1>1 DEF Guarded, GsmUndisturbed
<1>2. ASSUME NEW sig \in {"TIMEOUT", "ACK"}, Pending("gsm", sig)
      PROVE  Guarded'
  <2>1. Waiting("gsm", sig) /\ queue["gsm"] \in Seq(Events)
    BY <1>2, ConfigurationOfMain DEF Pending, ObjectsOfMain, KernelType, Queues
  <2>2. Waiting("gsm", sig)'
    BY <2>1, WaitingStays DEF GsmUndisturbed
  <2> QED
    BY <1>2, <2>2 DEF Guarded, Pending
<1> QED
  BY <1>1, <1>2 DEF Guarded

(* An event posted to the GSM object waits. *)
LEMMA PostedWaits ==
  ASSUME KernelType, NEW e \in Events, queue'["gsm"] = Append(queue["gsm"], e)
  PROVE  Waiting("gsm", e.sig)'
<1>1. queue["gsm"] \in Seq(Events)
  BY ConfigurationOfMain DEF ObjectsOfMain, KernelType, Queues
<1>2. /\ Len(queue["gsm"]) + 1 \in DOMAIN Append(queue["gsm"], e)
      /\ Append(queue["gsm"], e)[Len(queue["gsm"]) + 1] = e
  BY <1>1, AppendProperties, LenProperties
<1> QED
  BY <1>2 DEF Waiting

-----------------------------------------------------------------------------
(* The guards of the GSM object's waits. *)

(* A handler of the GSM object leaves its next wait guarded. *)
LEMMA GsmGuards ==
  ASSUME KernelType, LinkType, GsmType, GuardedWait, GsmHandler
  PROVE  GuardedWait'
<1>0. "gsm" \in Objects /\ "app" \in Objects /\ "off" \notin GsmStates
  BY ConfigurationOfMain
  DEF ObjectsOfMain, GsmStates, InactiveStates, OperationStates, Requests, Operation
<1>t. \A s : Armed(s)["gsm"] = s
  BY <1>0 DEF Armed, Arm, KernelType, Timers
<1>1. CASE gsm' \notin GuardedStates
  BY <1>1 DEF GuardedWait
<1>2. CASE timer'["gsm"] # "off"
  BY <1>2 DEF GuardedWait
<1>3. ASSUME gsm' = gsm, GsmUndisturbed, current.ao = "gsm", current.sig \notin {"TIMEOUT", "ACK"}
      PROVE  GuardedWait'
  BY <1>3, GuardStays DEF GuardedWait, Guarded
<1>4. CASE PoweredOn \/ RetryAt \/ LinkUp \/ ConfigNext
  BY <1>2, <1>4, <1>t DEF PoweredOn, RetryAt, LinkUp, ConfigNext, Return
<1>5. CASE StartAo \/ ComOpened \/ PowerKey \/ NoModem \/ ConfigDone \/ ConfigFails
  BY <1>1, <1>5 DEF StartAo, ComOpened, PowerKey, NoModem, ConfigDone, ConfigFails,
                    GuardedStates, gsmVars
<1>6. ASSUME NEW r \in Requests, Accept(r)
      PROVE  GuardedWait'
  <2>1. Operation[r] # "off"
    BY DEF Requests, Operation
  <2> QED
    BY <1>2, <1>6, <1>t, <2>1 DEF Accept, Return
<1>7. CASE IdleTells
  BY <1>1, <1>7 DEF IdleTells, GuardedStates, gsmVars
<1>8. CASE ParseLine
  <2>1. CASE Head(rx) = "OK"
    <3>1. Parsed(Head(rx)) = <<EventPar("ACK", "OK")>>
      BY <2>1, ModemAssumption DEF Parsed
    <3>2. EventPar("ACK", "OK") \in Events /\ queue["gsm"] \in Seq(Events)
      BY <1>0, EventType DEF Signals, Pars, Lines, KernelType, Queues
    <3>3. queue'["gsm"] = queue["gsm"] \o <<EventPar("ACK", "OK")>>
      BY <1>0, <1>8, <3>1 DEF ParseLine, KernelType, Queues
    <3>4. queue'["gsm"] = Append(queue["gsm"], EventPar("ACK", "OK"))
      BY <3>2, <3>3, AppendIsConcat
    <3>5. Waiting("gsm", "ACK")'
      BY <3>2, <3>4, PostedWaits DEF EventPar
    <3> QED
      BY <3>5 DEF GuardedWait, Pending
  <2>2. CASE Head(rx) # "OK"
    <3>1. GsmUndisturbed
      BY <1>0, <1>8, <2>2, ParsedType DEF ParseLine, GsmUndisturbed, KernelType, Queues
    <3> QED
      BY <1>3, <1>8, <3>1 DEF ParseLine, Handling, gsmVars
  <2> QED
    BY <2>1, <2>2
<1>9. CASE ParseDone
  BY <1>3, <1>9 DEF ParseDone, Handling, Ignore, Return, GsmUndisturbed, gsmVars
<1>10. CASE \/ OperationTimesOut \/ NetworkTimesOut \/ NetworkReport \/ OperationDone
            \/ PresenceDone \/ ClockGarbled
  BY <1>1, <1>10
  DEF OperationTimesOut, NetworkTimesOut, NetworkReport, OperationDone, PresenceDone,
      ClockGarbled, BackToIdle, GuardedStates
<1>11. CASE \/ NetworkRetry \/ NetworkResponse \/ NetworkSearching \/ NetworkFallsThrough
            \/ SendText \/ BufferFull \/ SendRest \/ ExtractTime
  BY <1>1, <1>11
  DEF NetworkRetry, NetworkResponse, NetworkSearching, NetworkFallsThrough, SendText,
      BufferFull, SendRest, ExtractTime, GuardedStates
<1>12. CASE KeepResponse
  <2>1. GsmUndisturbed
    BY <1>0, <1>12 DEF KeepResponse, Return, Post, GsmUndisturbed, KernelType, Queues
  <2> QED
    BY <1>3, <1>12, <2>1 DEF KeepResponse, Handling
<1>13. CASE GsmIgnores
  <2>1. gsm \in GuardedStates => current.sig \notin {"TIMEOUT", "ACK"}
    BY <1>13 DEF GsmIgnores, GuardedStates, GsmReacts
  <2>2. GsmUndisturbed
    BY <1>13 DEF GsmIgnores, Ignore, Return, GsmUndisturbed
  <2>3. gsm' = gsm /\ current.ao = "gsm"
    BY <1>13 DEF GsmIgnores, gsmVars
  <2> QED
    BY <1>1, <1>3, <2>1, <2>2, <2>3
<1> QED
  BY <1>4, <1>5, <1>6, <1>7, <1>8, <1>9, <1>10, <1>11, <1>12, <1>13
  DEF GsmHandler, GsmInactive, GsmOperation


(* Every step of the firmware leaves it guarded. *)
LEMMA NextGuards == TypeOK /\ GuardedWait /\ [Next]_vars => GuardedWait'
<1> SUFFICES ASSUME TypeOK, GuardedWait, [Next]_vars PROVE GuardedWait'
  OBVIOUS
<1>0. KernelType /\ LinkType /\ GsmType /\ AppType
  BY DEF TypeOK
<1>o. /\ {"gsm", "app", "com", "emon"} \subseteq Objects
      /\ \A sig \in Signals, a \in Objects :
           /\ Post(queue, "gsm", Event(sig))["gsm"] = Append(queue["gsm"], Event(sig))
           /\ a # "gsm" => Post(queue, a, Event(sig))["gsm"] = queue["gsm"]
           /\ Event(sig) \in Events
  BY <1>0, ConfigurationOfMain, PlainEventType DEF ObjectsOfMain, Post, KernelType, Queues
<1>s. ASSUME gsm' = gsm, GsmUndisturbed, current.ao # "gsm"
      PROVE  GuardedWait'
  BY <1>0, <1>s, GuardStays DEF GuardedWait, Guarded
<1>k. ASSUME UNCHANGED <<queue, timer, current, gsm>>
      PROVE  GuardedWait'
  BY <1>k DEF GuardedWait, Pending, Waiting
<1>i. ASSUME current = Idle, timer' = timer, gsm' = gsm,
             \/ \E sig \in Signals : queue' = Post(queue, "gsm", Event(sig))
             \/ \E sig \in Signals : queue' = Post(queue, "app", Event(sig))
      PROVE  GuardedWait'
  BY <1>i, <1>o, <1>s DEF Idle, GsmUndisturbed
<1>1. CASE Schedule
  <2>1. PICK a \in Objects : Dispatch(a)
    BY <1>1 DEF Schedule
  <2>2. \A sig : Pending("gsm", sig) => Pending("gsm", sig)'
    BY <1>0, <1>o, <2>1, DispatchKeepsPending
  <2>3. timer' = timer /\ gsm' = gsm
    BY <1>1, <2>1 DEF Schedule, Dispatch, gsmVars
  <2> QED
    BY <2>2, <2>3 DEF GuardedWait
<1>2. CASE GsmStep
  BY <1>0, <1>2, GsmGuards DEF GsmStep
<1>3. CASE AppStep
  <2>1. AppReturns /\ current.ao = "app" /\ gsm' = gsm
    BY <1>0, <1>3, AppHandlerReturns DEF AppStep, gsmVars
  <2> QED
    BY <1>0, <1>s, <2>1, AppUndisturbing
<1>4. CASE ComOpen
  <2>1. /\ current.ao = "com" /\ timer' = timer /\ gsm' = gsm
        /\ queue' = Post(queue, "gsm", Event("OPEN_DONE"))
    BY <1>4 DEF ComOpen, Handling, Return, gsmVars
  <2> QED
    BY <1>o, <1>s, <2>1 DEF GsmUndisturbed, Signals
<1>5. CASE EmonStart
  BY <1>5, <1>s DEF EmonStart, Handling, Ignore, Return, GsmUndisturbed, gsmVars
<1>6. CASE EmonDone
  BY <1>6, <1>i DEF EmonDone, PostedTo, Signals, gsmVars
<1>7. CASE Link
  <2>1. gsm' = gsm
    BY <1>7 DEF Link, gsmVars
  <2>2. CASE TxDone \/ RxTimeout
    BY <1>i, <2>1, <2>2 DEF TxDone, RxTimeout, PostedTo, Signals
  <2>3. CASE ModemAnswers \/ ModemSends \/ MessageArrives
    BY <1>k, <2>1, <2>3 DEF ModemAnswers, ModemSends, MessageArrives, kernelVars
  <2> QED
    BY <1>7, <2>2, <2>3 DEF Link
<1>8. CASE GsmTick
  <2>1. timer["gsm"] \in Pars
    BY <1>0, <1>o, <1>8 DEF GsmTick, Expire, KernelType, Timers, Pars
  <2>2. EventPar("TIMEOUT", timer["gsm"]) \in Events
    BY <2>1, EventType DEF Signals
  <2>3. queue'["gsm"] = Append(queue["gsm"], EventPar("TIMEOUT", timer["gsm"]))
    BY <1>0, <1>o, <1>8 DEF GsmTick, Expire, Post, KernelType, Queues
  <2>4. Waiting("gsm", "TIMEOUT")'
    BY <1>0, <2>2, <2>3, PostedWaits DEF EventPar
  <2> QED
    BY <2>4 DEF GuardedWait, Pending
<1>9. CASE AppTick
  <2>1. queue'["gsm"] = queue["gsm"] /\ timer'["gsm"] = timer["gsm"]
    BY <1>0, <1>o, <1>9 DEF AppTick, Expire, Post, Disarm, KernelType, Queues, Timers
  <2>2. current' = current /\ gsm' = gsm
    BY <1>9 DEF AppTick, Expire, gsmVars
  <2> QED
    BY <2>1, <2>2 DEF GuardedWait, Pending, Waiting
<1>10. CASE UNCHANGED vars
  BY <1>10, <1>k DEF vars, kernelVars, gsmVars
<1> QED
  BY <1>1, <1>2, <1>3, <1>4, <1>5, <1>6, <1>7, <1>8, <1>9, <1>10 DEF Next, Drivers

(* The GSM object never waits for the end of a command that nothing will   *)
(* end: comm_rx_handler stops the timer only when the OK is posted, and    *)
(* whoever handles TIMEOUT or ACK in such a state leaves it or arms the    *)
(* timer again.                                                            *)
THEOREM WaitsAreGuarded == Spec => []GuardedWait
<1>1. Init => GuardedWait
  BY DEF Init, GsmInit, GuardedWait, GuardedStates
<1> QED
  BY <1>1, TypeCorrect, NextGuards, PTL DEF Spec

-----------------------------------------------------------------------------
(* What an operation leaves behind. *)

(* The strengthening that makes IdleIsClean inductive: no operation is     *)
(* under way while the modem is brought up, so that the first idle state,  *)
(* entered without generic_exit_operations, is clean as well.              *)
InactiveIsClean == gsm \in InactiveStates => ~busy /\ op = "NONE"
Clean == IdleIsClean /\ InactiveIsClean

LEMMA NextClean == TypeOK /\ Clean /\ [Next]_vars => Clean'
<1> SUFFICES ASSUME TypeOK, Clean, [Next]_vars PROVE Clean'
  OBVIOUS
<1>0. KernelType /\ AppType /\ {"gsm", "app"} \subseteq Objects
  BY ConfigurationOfMain DEF TypeOK, ObjectsOfMain
<1>s. ASSUME UNCHANGED <<gsm, busy, op>>, timer'["gsm"] \in {timer["gsm"], "off"}
      PROVE  Clean'
  BY <1>s DEF Clean, IdleIsClean, InactiveIsClean
<1>t. timer \in Timers /\ Disarm(timer, "gsm")["gsm"] = "off"
  BY <1>0 DEF KernelType, Timers, Disarm
<1>1. CASE GsmStep
  <2>1. CASE GsmInactive
    <3>1. CASE ConfigDone
      <4>1. gsm = "device_config" /\ timer'["gsm"] = "off" /\ UNCHANGED <<busy, op>>
        BY <1>t, <3>1 DEF ConfigDone, Return
      <4> QED
        BY <4>1 DEF Clean, IdleIsClean, InactiveIsClean, InactiveStates
    <3>2. CASE ~ConfigDone
      <4>1. UNCHANGED <<busy, op>> /\ gsm' # "active_idle" /\ gsm \in InactiveStates
        BY <2>1, <3>2
        DEF GsmInactive, StartAo, ComOpened, PowerKey, PoweredOn, RetryAt, NoModem, LinkUp,
            ConfigNext, ConfigFails, gsmVars, controlVars, InactiveStates
      <4> QED
        BY <4>1 DEF Clean, IdleIsClean, InactiveIsClean
    <3> QED
      BY <3>1, <3>2
  <2>2. ASSUME NEW r \in Requests, Accept(r)
        PROVE  Clean'
    <3>1. gsm' \notin InactiveStates \cup {"active_idle"}
      BY <2>2 DEF Accept, Requests, Operation, InactiveStates
    <3> QED
      BY <3>1 DEF Clean, IdleIsClean, InactiveIsClean
  <2>3. CASE IdleTells \/ ParseLine \/ ParseDone \/ GsmIgnores
    BY <1>s, <1>t, <2>3 DEF IdleTells, ParseLine, ParseDone, GsmIgnores, Ignore, Return,
                            gsmVars, controlVars
  <2>4. CASE GsmOperation
    <3>1. CASE gsm' = "active_idle"
      <4>1. \/ \E q : BackToIdle(q)
            \/ ClockGarbled
        BY <2>4, <3>1
        DEF GsmOperation, OperationTimesOut, NetworkTimesOut, NetworkReport, OperationDone,
            PresenceDone, NetworkRetry, NetworkResponse, NetworkSearching,
            NetworkFallsThrough, SendText, BufferFull, SendRest, KeepResponse, ExtractTime
      <4>2. busy' = FALSE /\ op' = "NONE" /\ timer'["gsm"] = "off"
        BY <1>t, <4>1 DEF BackToIdle, ClockGarbled, Return
      <4> QED
        BY <3>1, <4>2 DEF Clean, IdleIsClean, InactiveIsClean, InactiveStates
    <3>2. CASE gsm' # "active_idle"
      <4>1. gsm' \in OperationStates
        BY <2>4, <3>2
        DEF GsmOperation, OperationTimesOut, NetworkTimesOut, NetworkReport, OperationDone,
            PresenceDone, NetworkRetry, NetworkResponse, NetworkSearching, ClockGarbled,
            NetworkFallsThrough, SendText, BufferFull, SendRest, KeepResponse, ExtractTime,
            BackToIdle, OperationStates, Requests, Operation
      <4>2. gsm' \notin InactiveStates
        BY <4>1 DEF OperationStates, Requests, Operation, InactiveStates
      <4> QED
        BY <3>2, <4>2 DEF Clean, IdleIsClean, InactiveIsClean
    <3> QED
      BY <3>1, <3>2
  <2> QED
    BY <1>1, <2>1, <2>2, <2>3, <2>4 DEF GsmStep, GsmHandler
<1>2. CASE AppStep
  <2>1. AppReturns /\ UNCHANGED <<gsm, busy, op>>
    BY <1>0, <1>2, AppHandlerReturns DEF AppStep, gsmVars, controlVars
  <2>2. timer'["gsm"] = timer["gsm"]
    BY <1>0, <2>1, AppUndisturbing DEF GsmUndisturbed
  <2> QED
    BY <1>s, <2>1, <2>2
<1>3. CASE Schedule \/ Drivers
  <2>1. timer' = timer /\ UNCHANGED <<gsm, busy, op>>
    BY <1>3 DEF Schedule, Dispatch, Drivers, ComOpen, EmonStart, EmonDone, Ignore, Return,
                PostedTo, gsmVars, controlVars
  <2> QED
    BY <1>s, <2>1
<1>4. CASE Link \/ UNCHANGED vars
  <2>1. timer' = timer /\ UNCHANGED <<gsm, busy, op>>
    BY <1>4 DEF Link, TxDone, RxTimeout, ModemAnswers, ModemSends, MessageArrives, PostedTo,
                vars, kernelVars, gsmVars, controlVars
  <2> QED
    BY <1>s, <2>1
<1>5. CASE GsmTick \/ AppTick
  <2>1. timer'["gsm"] \in {timer["gsm"], "off"}
    BY <1>0, <1>5, <1>t DEF GsmTick, AppTick, Expire, Disarm, Timers
  <2> QED
    BY <1>5, <1>s, <2>1 DEF GsmTick, AppTick, gsmVars, controlVars
<1> QED
  BY <1>1, <1>2, <1>3, <1>4, <1>5 DEF Next

(* The GSM object is idle only when nothing of the last operation is left: *)
(* generic_exit_operations runs on every way out of every operation.       *)
THEOREM IdleStaysClean == Spec => []IdleIsClean
<1>1. Init => Clean
  BY DEF Init, GsmInit, Clean, IdleIsClean, InactiveIsClean
<1>2. Clean => IdleIsClean
  BY DEF Clean
<1> QED
  BY <1>1, <1>2, TypeCorrect, NextClean, PTL DEF Spec


-----------------------------------------------------------------------------
(* The sessions of the users. *)

(* The application alone writes the sessions. *)
LEMMA OthersKeepSessions ==
  ASSUME [Next]_vars, ~AppStep
  PROVE  session' = session
<1>1. CASE Schedule \/ GsmStep \/ GsmTick \/ AppTick \/ Link
  BY <1>1 DEF Schedule, GsmStep, GsmTick, AppTick, Link, appVars, sessionVars
<1>2. CASE Drivers \/ UNCHANGED vars
  BY <1>2 DEF Drivers, ComOpen, EmonStart, EmonDone, vars, appVars, sessionVars
<1> QED
  BY <1>1, <1>2 DEF Next

LEMMA NextExpires == TypeOK /\ SessionsExpire /\ [Next]_vars => SessionsExpire'
<1> SUFFICES ASSUME TypeOK, SessionsExpire, [Next]_vars, NEW v \in Users, session'[v].open
             PROVE  session'[v].timing > 0
  BY DEF SessionsExpire
<1>0. /\ session \in [Users -> SessionType] /\ userid \in Users
      /\ \A u \in Users : session[u] \in SessionType
  BY DEF TypeOK, AppType, SessionType
<1>1. CASE session'[v] = session[v]
  BY <1>1 DEF SessionsExpire
<1>2. CASE session' = Aged
  <2>1. CASE session[v].timing = 0
    BY <1>1, <1>2, <2>1 DEF Aged
  <2>2. CASE session[v].timing # 0
    <3> DEFINE t == session[v].timing - 1
               o == session[v].open /\ session[v].timing > 1
    <3>1. session'[v] = [session[v] EXCEPT !.timing = t, !.open = o]
      BY <1>2, <2>2 DEF Aged
    <3>2. session'[v].timing = t /\ session'[v].open = o
      <4> HIDE DEF t, o
      <4> QED
        BY <1>0, <3>1 DEF SessionType
    <3>3. session[v].timing > 1
      BY <3>2
    <3> QED
      BY <1>0, <3>2, <3>3, AppAssumption DEF SessionType
  <2> QED
    BY <2>1, <2>2
<1>3. CASE AppStep
  <2>1. CASE IdlePeriod \/ ActivePeriod
    BY <1>2, <2>1 DEF IdlePeriod, ActivePeriod
  <2>2. CASE Leave
    <3>1. session'[v] = session[v] \/ (v = userid /\ ~session'[v].open)
      BY <1>0, <2>2 DEF Leave, Closed, SessionType
    <3> QED
      BY <1>1, <3>1
  <2>3. CASE StartSession
    <3>1. session'[v] = session[v] \/ session'[v].timing = SessionTime
      BY <1>0, <2>3 DEF StartSession
    <3> QED
      BY <1>1, <3>1, AppAssumption
  <2>4. ASSUME NEW u \in Users, NEW o \in MenuOptions, MenuStep(u, o)
        PROVE  session'[v].timing > 0
    <3>1. session[u].open /\ session[u].timing > 0
      BY <2>4 DEF MenuStep, SessionsExpire
    <3>2. session'[u].timing = session[u].timing /\ (v # u => session'[v] = session[v])
      BY <1>0, <2>4 DEF MenuStep, SessionType
    <3> QED
      BY <1>1, <3>1, <3>2
  <2>5. CASE \/ StartModem \/ ModemUp \/ NetworkDown \/ Registered \/ Recieve \/ Defer
             \/ MessageFound \/ Reject \/ AskStatus \/ AskOn \/ AskOff \/ AskSession
    BY <1>1, <2>5
    DEF StartModem, ModemUp, NetworkDown, Registered, Recieve, Defer, MessageFound, Reject,
        AskStatus, AskOn, AskOff, AskMotor, AskSession, appVars, sessionVars
  <2>6. CASE \/ SetTimeRead \/ SetTimeDone \/ ClockRead \/ OnEnds \/ OffEnds \/ Measured
             \/ StatusRead \/ Broadcast \/ BroadcastNext \/ Deleted \/ AppIgnores
    BY <1>1, <2>6
    DEF SetTimeRead, SetTimeDone, ClockRead, OnEnds, OffEnds, PulseEnds, Measured,
        StatusRead, Broadcast, BroadcastNext, Deleted, AppIgnores, appVars, sessionVars
  <2> QED
    BY <1>3, <2>1, <2>2, <2>3, <2>4, <2>5, <2>6
    DEF AppStep, AppHandler, Answered, TurnedAway
<1> QED
  BY <1>1, <1>3, OthersKeepSessions

(* No session is left open for ever: whichever option or period writes it, *)
(* an open session has time left for update_session_timings to count down. *)
THEOREM SessionsAlwaysExpire == Spec => []SessionsExpire
<1>1. Init => SessionsExpire
  BY DEF Init, AppInit, SessionsExpire
<1> QED
  BY <1>1, TypeCorrect, NextExpires, PTL DEF Spec

-----------------------------------------------------------------------------
(* The motor starter. *)

(* The position of the motor follows from the state of the application and *)
(* the coils: between a pulse and its end the motor is in the position it  *)
(* leaves.                                                                 *)
Position ==
  /\ app = "action_on" => coil = (IF motorOn THEN {} ELSE {"ON"})
  /\ app = "action_off" => coil = (IF motorOn THEN {"OFF"} ELSE {})
  /\ app \notin {"action_on", "action_off"} => coil = {}

(* The requests for an answer and for the deletion of a message, and the   *)
(* events that end a wait of the application.                              *)
AnswerAsks == {"CLOCK_READ", "SMS_SEND"}
Answers == {"CLOCK_READ_DONE", "SMS_SENT"}
Keys == AnswerAsks \cup Answers \cup {"SMS_DELETE", "SMS_DELETE_DONE", "TRANSITION_OUT"}

(* An answer is on its way; a deletion is.                                 *)
Answering == ClockAsked \/ Sending
Deleting == Asked("SMS_DELETE", "SMS_DELETE_DONE")

(* An event is being handled; it waits at most once; it waits or is being  *)
(* handled, at most once.                                                  *)
InHand(a, sig) == current.ao = a /\ current.sig = sig
Sole(a, sig) ==
  \A i, j \in DOMAIN queue[a] : queue[a][i].sig = sig /\ queue[a][j].sig = sig => i = j
Once(a, sig) == Sole(a, sig) /\ ~(Waiting(a, sig) /\ InHand(a, sig))

(* An answer is on its way only in the states that ask for one or clean up *)
(* after it, and never during a pulse.                                     *)
AnswerStates == {"get_status", "action_on", "action_off", "cleanup"} \cup MenuStates
AnswersHeld == Answering => app \in AnswerStates /\ coil = {}

(* A message is deleted once, in cleanup.                                  *)
DeletesOnce ==
  /\ Deleting => app = "cleanup"
  /\ Once("gsm", "SMS_DELETE") /\ Once("app", "SMS_DELETE_DONE")
  /\ ~(Pending("gsm", "SMS_DELETE") /\ gsm = "sms_delete")
  /\ ~(Pending("gsm", "SMS_DELETE") /\ Pending("app", "SMS_DELETE_DONE"))
  /\ ~(gsm = "sms_delete" /\ Pending("app", "SMS_DELETE_DONE"))

(* The deletion flushes what is on its way: no answer is asked for behind  *)
(* it, so none is when it is done.                                         *)
DeletesLast ==
  /\ \A i, j \in DOMAIN queue["gsm"] :
       queue["gsm"][i].sig = "SMS_DELETE" /\ queue["gsm"][j].sig \in AnswerAsks => j < i
  /\ InHand("gsm", "SMS_DELETE") \/ gsm = "sms_delete" =>
       \A sig \in AnswerAsks : ~Waiting("gsm", sig)
  /\ gsm = "sms_delete" => \A sig \in AnswerAsks : ~InHand("gsm", sig)
  /\ Pending("app", "SMS_DELETE_DONE") => ~Answering

(* A message is turned away once, in validate.                             *)
TurnsAwayOnce ==
  (Pending("app", "TRANSITION_OUT") => app = "validate") /\ Once("app", "TRANSITION_OUT")

(* The application has dealt with what it was told before the GSM object,  *)
(* of lower priority, runs again.                                          *)
AppFirst == current.ao = "gsm" => \A sig \in Keys : ~Waiting("app", sig)

StarterInv ==
  Position /\ AnswersHeld /\ DeletesOnce /\ DeletesLast /\ TurnsAwayOnce /\ AppFirst

-----------------------------------------------------------------------------
(* Keys in queues. *)

(* The keys in the queue of a after a step were there before it, in the    *)
(* same place, but for one of S at the end.                                *)
Adds(a, S) ==
  \A i \in DOMAIN queue'[a] :
    queue'[a][i].sig \in Keys =>
      \/ i \in DOMAIN queue[a] /\ queue'[a][i] = queue[a][i]
      \/ /\ queue'[a][i].sig \in S /\ i = Len(queue[a]) + 1

LEMMA AddsNone ==
  ASSUME NEW a, NEW S, queue'[a] = queue[a]
  PROVE  Adds(a, S)
BY DEF Adds

LEMMA AddsOne ==
  ASSUME NEW a, NEW S, queue[a] \in Seq(Events), NEW e \in Events, e.sig \in Keys => e.sig \in S,
         queue'[a] = Append(queue[a], e)
  PROVE  Adds(a, S)
<1>1. /\ Len(queue[a]) \in Nat /\ DOMAIN queue[a] = 1 .. Len(queue[a])
      /\ DOMAIN Append(queue[a], e) = 1 .. Len(queue[a]) + 1
      /\ \A i \in 1 .. Len(queue[a]) : Append(queue[a], e)[i] = queue[a][i]
      /\ Append(queue[a], e)[Len(queue[a]) + 1] = e
  BY AppendProperties, LenProperties
<1>2. \A i \in 1 .. Len(queue[a]) + 1 : i \in 1 .. Len(queue[a]) \/ i = Len(queue[a]) + 1
  BY <1>1
<1> QED
  BY <1>1, <1>2 DEF Adds

LEMMA AddsParsed ==
  ASSUME NEW a, NEW S, queue[a] \in Seq(Events), NEW s \in Seq(Events),
         \A i \in DOMAIN s : s[i].sig \notin Keys, queue'[a] = queue[a] \o s
  PROVE  Adds(a, S)
<1>1. /\ Len(queue[a]) \in Nat /\ Len(s) \in Nat /\ DOMAIN queue[a] = 1 .. Len(queue[a])
      /\ DOMAIN s = 1 .. Len(s)
      /\ DOMAIN (queue[a] \o s) = 1 .. Len(queue[a]) + Len(s)
      /\ \A i \in 1 .. Len(queue[a]) + Len(s) :
           (queue[a] \o s)[i] = IF i <= Len(queue[a]) THEN queue[a][i] ELSE s[i - Len(queue[a])]
  BY ConcatProperties, LenProperties
<1>2. \A i \in 1 .. Len(queue[a]) + Len(s) :
        i \in 1 .. Len(queue[a]) \/ (i - Len(queue[a]) \in 1 .. Len(s) /\ ~(i <= Len(queue[a])))
  BY <1>1
<1>3. \A i \in 1 .. Len(queue[a]) : i <= Len(queue[a]) /\ i \in 1 .. Len(queue[a]) + Len(s)
  BY <1>1
<1> QED
  BY <1>1, <1>2, <1>3 DEF Adds

(* What that means for the keys that wait.                                 *)
LEMMA AddedKeys ==
  ASSUME NEW a, NEW S, queue[a] \in Seq(Events), Adds(a, S), NEW key \in Keys
  PROVE  /\ Waiting(a, key)' => Waiting(a, key) \/ key \in S
         /\ Sole(a, key) /\ (key \in S => ~Waiting(a, key)) => Sole(a, key)'
<1>1. Waiting(a, key)' => Waiting(a, key) \/ key \in S
  BY DEF Adds, Waiting
<1>2. ASSUME Sole(a, key), key \in S => ~Waiting(a, key),
             NEW i \in DOMAIN queue'[a], NEW j \in DOMAIN queue'[a],
             queue'[a][i].sig = key, queue'[a][j].sig = key
      PROVE  i = j
  BY <1>2 DEF Adds, Waiting, Sole
<1> QED
  BY <1>1, <1>2 DEF Sole

(* The scheduler takes the head.                                           *)
LEMMA Taken ==
  ASSUME NEW a, queue[a] \in Seq(Events), queue[a] # <<>>, queue'[a] = Tail(queue[a])
  PROVE  /\ Len(queue[a]) \in Nat \ {0} /\ DOMAIN queue[a] = 1 .. Len(queue[a])
         /\ DOMAIN queue'[a] = 1 .. Len(queue[a]) - 1
         /\ \A i \in DOMAIN queue'[a] : queue'[a][i] = queue[a][i + 1]
         /\ Head(queue[a]) = queue[a][1]
BY HeadTailProperties, LenProperties, EmptySeq

LEMMA TakenKeys ==
  ASSUME NEW a, queue[a] \in Seq(Events), queue[a] # <<>>, queue'[a] = Tail(queue[a]), NEW key
  PROVE  /\ Waiting(a, key)' => Waiting(a, key)
         /\ Head(queue[a]).sig = key => Waiting(a, key)
         /\ Sole(a, key) => Sole(a, key)'
         /\ Sole(a, key) /\ Head(queue[a]).sig = key => ~Waiting(a, key)'
<1>1. /\ Len(queue[a]) \in Nat \ {0} /\ DOMAIN queue[a] = 1 .. Len(queue[a])
      /\ DOMAIN queue'[a] = 1 .. Len(queue[a]) - 1
      /\ \A i \in DOMAIN queue'[a] : queue'[a][i] = queue[a][i + 1]
      /\ Head(queue[a]) = queue[a][1]
  BY Taken
<1>2. /\ 1 \in DOMAIN queue[a]
      /\ \A i \in DOMAIN queue'[a] : i + 1 \in DOMAIN queue[a] /\ i + 1 # 1
      /\ \A i, j \in DOMAIN queue'[a] : i + 1 = j + 1 => i = j
  BY <1>1
<1>3. (Waiting(a, key)' => Waiting(a, key)) /\ (Head(queue[a]).sig = key => Waiting(a, key))
  BY <1>1, <1>2 DEF Waiting
<1>4. Sole(a, key) => Sole(a, key)'
  BY <1>1, <1>2 DEF Sole
<1>5. Sole(a, key) /\ Head(queue[a]).sig = key => ~Waiting(a, key)'
  BY <1>1, <1>2 DEF Sole, Waiting
<1> QED
  BY <1>3, <1>4, <1>5

-----------------------------------------------------------------------------
(* Steps that bring no key. *)

(* The states of the GSM object that carry out a request for an answer or  *)
(* for a deletion.                                                         *)
AnswerOps == {"time_get", "sms_send", "sms_send_support"}
KeyOps == AnswerOps \cup {"sms_delete"}

LEMMA TwoQueues ==
  ASSUME KernelType
  PROVE  /\ queue["gsm"] \in Seq(Events) /\ queue["app"] \in Seq(Events)
         /\ "gsm" \in Objects /\ "app" \in Objects
BY ConfigurationOfMain DEF ObjectsOfMain, KernelType, Queues

LEMMA KeysAre ==
  /\ {"CLOCK_READ", "SMS_SEND", "SMS_DELETE", "CLOCK_READ_DONE", "SMS_SENT",
      "SMS_DELETE_DONE", "TRANSITION_OUT"} = Keys
  /\ AnswerAsks \subseteq Keys
  /\ Operation["CLOCK_READ"] = "time_get" /\ Operation["SMS_SEND"] = "sms_send"
  /\ Operation["SMS_DELETE"] = "sms_delete"
BY DEF Keys, AnswerAsks, Answers, Operation

(* No key is added: the answers and deletions on their way are as before,  *)
(* or fewer.                                                               *)
LEMMA NoKeyComes ==
  ASSUME KernelType, StarterInv, Adds("gsm", {}), Adds("app", {}),
         UNCHANGED <<app, coil, motorOn>>, current' \in {current, Idle},
         \/ gsm' = gsm
         \/ gsm' \notin KeyOps
         \/ gsm' \in AnswerOps /\ gsm \in AnswerOps
  PROVE  StarterInv'
<1>1. ASSUME NEW a \in {"gsm", "app"}, NEW key \in Keys
      PROVE  /\ Waiting(a, key)' => Waiting(a, key)
             /\ InHand(a, key)' => InHand(a, key)
             /\ Sole(a, key) => Sole(a, key)'
  BY TwoQueues, AddedKeys DEF InHand, Idle
<1>2. ASSUME NEW a \in {"gsm", "app"}, NEW key \in Keys
      PROVE  (Pending(a, key)' => Pending(a, key)) /\ (Once(a, key) => Once(a, key)')
  BY <1>1 DEF Pending, InHand, Once
<1>3. (gsm' = "sms_delete" => gsm = "sms_delete") /\ (gsm' \in AnswerOps => gsm \in AnswerOps)
  BY DEF KeyOps, AnswerOps
<1>4. Answering' => Answering
  BY <1>2, <1>3, KeysAre DEF Answering, ClockAsked, Sending, Asked, AnswerOps
<1>5. Deleting' => Deleting
  BY <1>2, <1>3, KeysAre DEF Deleting, Asked
<1>6. Position' /\ AnswersHeld'
  BY <1>4 DEF StarterInv, Position, AnswersHeld, AnswerStates
<1>7. DeletesOnce'
  BY <1>2, <1>3, <1>5, KeysAre DEF StarterInv, DeletesOnce
<1>8. DeletesLast'
  <2>1. ASSUME NEW i \in DOMAIN queue'["gsm"], NEW j \in DOMAIN queue'["gsm"],
               queue'["gsm"][i].sig = "SMS_DELETE", queue'["gsm"][j].sig \in AnswerAsks
        PROVE  j < i
    BY <2>1, KeysAre DEF Adds, StarterInv, DeletesLast
  <2>2. InHand("gsm", "SMS_DELETE")' \/ gsm' = "sms_delete" =>
          \A sig \in AnswerAsks : ~Waiting("gsm", sig)'
    BY <1>1, <1>3, KeysAre DEF StarterInv, DeletesLast
  <2>3. gsm' = "sms_delete" => \A sig \in AnswerAsks : ~InHand("gsm", sig)'
    BY <1>1, <1>3, KeysAre DEF StarterInv, DeletesLast
  <2>4. Pending("app", "SMS_DELETE_DONE")' => ~Answering'
    BY <1>2, <1>4, KeysAre DEF StarterInv, DeletesLast
  <2> QED
    BY <2>1, <2>2, <2>3, <2>4 DEF DeletesLast
<1>9. TurnsAwayOnce'
  BY <1>2, KeysAre DEF StarterInv, TurnsAwayOnce
<1>10. AppFirst'
  BY <1>1 DEF StarterInv, AppFirst, Idle
<1> QED
  BY <1>6, <1>7, <1>8, <1>9, <1>10 DEF StarterInv

(* The scheduler brings none, and hands the GSM object an event only when  *)
(* nothing waits for the application.                                      *)
LEMMA DispatchKeepsStarter ==
  ASSUME KernelType, StarterInv, NEW a \in Objects, Dispatch(a),
         UNCHANGED <<gsm, app, coil, motorOn>>
  PROVE  StarterInv'
<1>0. /\ queue[a] \in Seq(Events) /\ queue[a] # <<>> /\ current.ao = "none"
      /\ queue'[a] = Tail(queue[a]) /\ current'.ao = a /\ current'.sig = Head(queue[a]).sig
      /\ \A b \in Objects : b # a => queue'[b] = queue[b]
  BY DEF Dispatch, KernelType, Queues, Ready, Idle
<1>1. ASSUME NEW b \in {"gsm", "app"}, NEW key \in Keys
      PROVE  /\ Waiting(b, key)' => Waiting(b, key)
             /\ InHand(b, key)' => Waiting(b, key) /\ b = a
             /\ Sole(b, key) => Sole(b, key)'
             /\ Sole(b, key) /\ InHand(b, key)' => ~Waiting(b, key)'
  <2>1. CASE a = b
    BY <1>0, <2>1, TakenKeys DEF InHand
  <2>2. CASE a # b
    BY <1>0, <2>2, TwoQueues DEF InHand, Waiting, Sole
  <2> QED
    BY <2>1, <2>2
<1>2. ASSUME NEW b \in {"gsm", "app"}, NEW key \in Keys
      PROVE  (Pending(b, key)' => Pending(b, key)) /\ (Once(b, key) => Once(b, key)')
  BY <1>1 DEF Pending, InHand, Once
<1>4. Answering' => Answering
  BY <1>2, KeysAre DEF Answering, ClockAsked, Sending, Asked
<1>5. Deleting' => Deleting
  BY <1>2, KeysAre DEF Deleting, Asked
<1>6. Position' /\ AnswersHeld'
  BY <1>4 DEF StarterInv, Position, AnswersHeld, AnswerStates
<1>7. DeletesOnce'
  BY <1>2, <1>5, KeysAre DEF StarterInv, DeletesOnce
<1>8. DeletesLast'
  <2>0. CASE a # "gsm"
    <3>1. queue'["gsm"] = queue["gsm"] /\ ~InHand("gsm", "SMS_DELETE")'
          /\ \A sig \in AnswerAsks : ~InHand("gsm", sig)'
      BY <1>0, <2>0, TwoQueues DEF InHand
    <3> QED
      BY <1>2, <1>4, <3>1, KeysAre DEF StarterInv, DeletesLast, Waiting
  <2>1. CASE a = "gsm"
    <3>0. /\ Len(queue["gsm"]) \in Nat \ {0} /\ DOMAIN queue["gsm"] = 1 .. Len(queue["gsm"])
          /\ DOMAIN queue'["gsm"] = 1 .. Len(queue["gsm"]) - 1
          /\ \A i \in DOMAIN queue'["gsm"] : queue'["gsm"][i] = queue["gsm"][i + 1]
          /\ Head(queue["gsm"]) = queue["gsm"][1]
      BY <1>0, <2>1, Taken
    <3>1. ASSUME NEW i \in DOMAIN queue'["gsm"], NEW j \in DOMAIN queue'["gsm"],
                 queue'["gsm"][i].sig = "SMS_DELETE", queue'["gsm"][j].sig \in AnswerAsks
          PROVE  j < i
      <4>1. i \in Int /\ j \in Int /\ i + 1 \in DOMAIN queue["gsm"] /\ j + 1 \in DOMAIN queue["gsm"]
        BY <3>0
      <4>2. j + 1 < i + 1
        BY <3>0, <3>1, <4>1 DEF StarterInv, DeletesLast
      <4> QED
        BY <4>1, <4>2
    <3>2. ASSUME InHand("gsm", "SMS_DELETE")', NEW sig \in AnswerAsks, Waiting("gsm", sig)'
          PROVE  FALSE
      <4>1. queue["gsm"][1].sig = "SMS_DELETE"
        BY <1>0, <2>1, <3>0, <3>2 DEF InHand
      <4>2. PICK j \in DOMAIN queue'["gsm"] : queue'["gsm"][j].sig = sig
        BY <3>2 DEF Waiting
      <4>3. j \in Nat \ {0} /\ j + 1 \in DOMAIN queue["gsm"] /\ 1 \in DOMAIN queue["gsm"]
            /\ queue["gsm"][j + 1].sig \in AnswerAsks
        BY <3>0, <4>2
      <4>4. j + 1 < 1
        BY <4>1, <4>3 DEF StarterInv, DeletesLast
      <4> QED
        BY <4>3, <4>4
    <3>3. gsm' = "sms_delete" => \A sig \in AnswerAsks : ~Waiting("gsm", sig)' /\ ~InHand("gsm", sig)'
      BY <1>1, KeysAre DEF StarterInv, DeletesLast
    <3>4. Pending("app", "SMS_DELETE_DONE")' => ~Answering'
      BY <1>2, <1>4, KeysAre DEF StarterInv, DeletesLast
    <3> QED
      BY <3>1, <3>2, <3>3, <3>4 DEF DeletesLast
  <2> QED
    BY <2>0, <2>1
<1>9. TurnsAwayOnce'
  BY <1>2, KeysAre DEF StarterInv, TurnsAwayOnce
<1>10. AppFirst'
  <2>1. a = "gsm" => queue["app"] = <<>>
    BY ConfigurationOfMain DEF Dispatch, Ready, PriorityOfMain, ObjectsOfMain
  <2>2. current'.ao = "gsm" => a = "gsm" /\ queue'["app"] = queue["app"]
    BY <1>0, TwoQueues
  <2> QED
    BY <2>1, <2>2 DEF AppFirst, Waiting
<1> QED
  BY <1>6, <1>7, <1>8, <1>9, <1>10 DEF StarterInv

(* A handler of the application, outside cleanup: what it adds is an       *)
(* answer asked for, where there may be one.                               *)
LEMMA AppAsks ==
  ASSUME KernelType, StarterInv, current.ao = "app", current' = Idle, gsm' = gsm,
         Adds("gsm", AnswerAsks), Adds("app", {"SMS_SENT"}), Position',
         app # "cleanup", app' # "cleanup",
         Answering' => app' \in AnswerStates /\ coil' = {},
         app = "validate" => app' = "validate"
  PROVE  StarterInv'
<1>1. ASSUME NEW a \in {"gsm", "app"}, NEW key \in Keys \ (AnswerAsks \cup {"SMS_SENT"})
      PROVE  /\ Waiting(a, key)' => Waiting(a, key)
             /\ Sole(a, key) => Sole(a, key)'
             /\ Pending(a, key)' => Pending(a, key)
             /\ Once(a, key) => Once(a, key)'
  <2>1. key \in Keys /\ key \notin AnswerAsks /\ key # "SMS_SENT"
    OBVIOUS
  <2>2. (Waiting(a, key)' => Waiting(a, key)) /\ (Sole(a, key) => Sole(a, key)')
    BY <2>1, TwoQueues, AddedKeys
  <2> QED
    BY <2>2 DEF Pending, Once, InHand, Idle
<1>2. \A key \in {"SMS_DELETE", "SMS_DELETE_DONE", "TRANSITION_OUT"} :
        key \in Keys \ (AnswerAsks \cup {"SMS_SENT"})
  BY DEF Keys, AnswerAsks
<1>3. ~Deleting /\ ~Deleting'
  <2>1. Deleting' => Deleting
    BY <1>1, <1>2, KeysAre DEF Deleting, Asked
  <2> QED
    BY <2>1 DEF StarterInv, DeletesOnce
<1>4. AnswersHeld'
  BY DEF AnswersHeld
<1>5. DeletesOnce'
  BY <1>1, <1>2, <1>3, KeysAre DEF StarterInv, DeletesOnce, Deleting, Asked
<1>6. DeletesLast'
  <2>1. ~Pending("gsm", "SMS_DELETE")' /\ gsm' # "sms_delete" /\ ~Pending("app", "SMS_DELETE_DONE")'
    BY <1>3, KeysAre DEF Deleting, Asked
  <2> QED
    BY <2>1 DEF DeletesLast, Pending, Waiting, InHand
<1>7. TurnsAwayOnce'
  BY <1>1, <1>2 DEF StarterInv, TurnsAwayOnce
<1>8. AppFirst'
  BY DEF AppFirst, Idle
<1> QED
  BY <1>4, <1>5, <1>6, <1>7, <1>8 DEF StarterInv

(* Leaving for cleanup.                                                    *)
LEMMA LeaveKeeps ==
  ASSUME TypeOK, StarterInv, current.ao = "app",
         app # "cleanup", coil = {}, app = "validate" => current.sig = "TRANSITION_OUT",
         Leave, gsm' = gsm
  PROVE  StarterInv'
<1>0. KernelType /\ EventPar("SMS_DELETE", "1") \in Events /\ "SMS_DELETE" \in Keys
  BY EventType DEF TypeOK, Signals, Requests, Operation, Pars, Keys
<1>1. /\ queue'["gsm"] = Append(queue["gsm"], EventPar("SMS_DELETE", "1"))
      /\ queue'["app"] = queue["app"] /\ current' = Idle
      /\ app' = "cleanup" /\ coil' = coil /\ motorOn' = motorOn
  BY <1>0, TwoQueues DEF Leave, AskWith, Post, Return, KernelType, Queues
<1>2. Adds("gsm", {"SMS_DELETE"}) /\ Adds("app", {})
  BY <1>0, <1>1, TwoQueues, AddsOne, AddsNone DEF EventPar
<1>3. ASSUME NEW key \in Keys
      PROVE  /\ Waiting("app", key)' => Waiting("app", key)
             /\ Sole("app", key) => Sole("app", key)'
             /\ Waiting("gsm", key)' => Waiting("gsm", key) \/ key = "SMS_DELETE"
             /\ Sole("gsm", key) /\ ~Waiting("gsm", key) => Sole("gsm", key)'
             /\ ~InHand("gsm", key)' /\ ~InHand("app", key)'
  BY <1>0, <1>1, <1>2, TwoQueues, AddedKeys DEF InHand, Idle
<1>4. ~Deleting /\ gsm # "sms_delete"
  BY KeysAre DEF StarterInv, DeletesOnce, Deleting, Asked
<1>5. ~Pending("gsm", "SMS_DELETE") /\ ~Pending("app", "SMS_DELETE_DONE")
  BY <1>4 DEF Deleting, Asked
<1>6. Position' /\ AnswersHeld'
  BY <1>1 DEF Position, AnswersHeld, AnswerStates
<1>7. DeletesOnce'
  <2>1. app' = "cleanup" /\ gsm' # "sms_delete"
    BY <1>1, <1>4
  <2>2. ~Pending("app", "SMS_DELETE_DONE")' /\ Once("app", "SMS_DELETE_DONE")'
    BY <1>3, <1>5, KeysAre DEF Pending, InHand, Once, StarterInv, DeletesOnce
  <2>3. Once("gsm", "SMS_DELETE")'
    BY <1>3, <1>5, KeysAre DEF Pending, Once, StarterInv, DeletesOnce
  <2> QED
    BY <2>1, <2>2, <2>3 DEF DeletesOnce
<1>8. DeletesLast'
  <2>1. ASSUME NEW i \in DOMAIN queue'["gsm"], NEW j \in DOMAIN queue'["gsm"],
               queue'["gsm"][i].sig = "SMS_DELETE", queue'["gsm"][j].sig \in AnswerAsks
        PROVE  j < i
    <3>1. i \notin DOMAIN queue["gsm"] \/ queue["gsm"][i].sig # "SMS_DELETE"
      BY <1>5 DEF Pending, Waiting
    <3>2. i = Len(queue["gsm"]) + 1
      BY <1>0, <1>2, <2>1, <3>1 DEF Adds
    <3>3. j \in DOMAIN queue["gsm"]
      BY <1>2, <2>1, KeysAre DEF Adds, AnswerAsks
    <3>4. Len(queue["gsm"]) \in Nat /\ DOMAIN queue["gsm"] = 1 .. Len(queue["gsm"])
      BY <1>0, TwoQueues, LenProperties
    <3> QED
      BY <3>2, <3>3, <3>4
  <2>2. ~InHand("gsm", "SMS_DELETE")' /\ gsm' # "sms_delete"
    BY <1>0, <1>3, <1>4
  <2>3. ~Pending("app", "SMS_DELETE_DONE")'
    BY <1>3, <1>5, KeysAre DEF Pending, InHand
  <2> QED
    BY <2>1, <2>2, <2>3 DEF DeletesLast
<1>9. TurnsAwayOnce'
  <2>1. Pending("app", "TRANSITION_OUT") => current.sig = "TRANSITION_OUT"
    BY DEF StarterInv, TurnsAwayOnce
  <2>2. ~Waiting("app", "TRANSITION_OUT")
    BY <2>1 DEF StarterInv, TurnsAwayOnce, Once, InHand, Pending
  <2> QED
    BY <1>3, <2>2, KeysAre DEF TurnsAwayOnce, Once, Pending, InHand, StarterInv
<1>10. AppFirst'
  BY <1>1 DEF AppFirst, Idle
<1> QED
  BY <1>6, <1>7, <1>8, <1>9, <1>10 DEF StarterInv

-----------------------------------------------------------------------------
(* What a handler posts that is no key. *)

KeylessPosts ==
  {queue} \cup {Post(queue, a, e) : a \in Objects, e \in {f \in Events : f.sig \notin Keys}}

LEMMA KeylessAdds ==
  ASSUME KernelType, queue' \in KeylessPosts
  PROVE  Adds("gsm", {}) /\ Adds("app", {})
<1>1. CASE queue' = queue
  BY <1>1, AddsNone
<1>2. ASSUME NEW b \in Objects, NEW e \in Events, e.sig \notin Keys, queue' = Post(queue, b, e),
             NEW a \in {"gsm", "app"}
      PROVE  Adds(a, {})
  <2>1. a \in Objects /\ queue[a] \in Seq(Events)
    BY TwoQueues
  <2>2. queue'[a] = Append(queue[a], e) \/ queue'[a] = queue[a]
    BY <1>2, <2>1 DEF Post, KernelType, Queues
  <2> QED
    BY <1>2, <2>1, <2>2, AddsNone, AddsOne
<1> QED
  BY <1>1, <1>2 DEF KeylessPosts

LEMMA KeylessNamed ==
  ASSUME KernelType
  PROVE  /\ queue \in KeylessPosts
         /\ \A sig \in Signals \ Keys, par \in Pars :
              /\ Told(sig) \in KeylessPosts /\ Asks(sig) \in KeylessPosts
              /\ Self(sig) \in KeylessPosts /\ AskWith(sig, par) \in KeylessPosts
              /\ \A a \in Objects : /\ Post(queue, a, Event(sig)) \in KeylessPosts
                                    /\ Post(queue, a, EventPar(sig, par)) \in KeylessPosts
<1>1. queue \in KeylessPosts
  BY DEF KeylessPosts
<1>2. ASSUME NEW sig \in Signals \ Keys, NEW par \in Pars, NEW a \in Objects
      PROVE  /\ Post(queue, a, EventPar(sig, par)) \in KeylessPosts
             /\ Post(queue, a, Event(sig)) \in KeylessPosts
  <2>1. EventPar(sig, par) \in Events /\ EventPar(sig, par).sig = sig
    BY EventType DEF EventPar
  <2>2. Event(sig) \in Events /\ Event(sig).sig = sig
    BY PlainEventType DEF Event, EventPar
  <2> QED
    BY <2>1, <2>2 DEF KeylessPosts
<1> QED
  BY <1>1, <1>2, TwoQueues DEF Told, Asks, Self, AskWith

(* The other signals the firmware posts.                                   *)
LEMMA Keyless ==
  {"OPEN_REQUEST", "MODULE_FAILURE", "INIT_DONE", "INIT_FAILURE", "SMS_NEW", "BUSY",
   "NETWORK_CONNECTED", "NETWORK_ERROR", "BUFFER_FULL", "SMS_FOUND", "PARSING_ERROR",
   "CLOCK_SET_DONE", "SMS_READ_DONE", "SMS_NOT_FOUND", "GSM_INIT", "NETWORK_READ",
   "SEND_BROADCAST", "CHECK_PRESENCE", "SMS_READ", "START_SESSION", "EXTRACT_TIME",
   "CLOCK_SET", "READ_ENTITY", "STATUS_READ_DONE", "OPEN_DONE", "MEASUREMENT_DONE",
   "EMON_ERROR", "SEND_DONE", "DATA_AVAILABLE", "TIMEOUT"} \subseteq Signals \ Keys
BY DEF Signals, Requests, Operation, Keys, AnswerAsks, Answers

-----------------------------------------------------------------------------
(* The GSM object. *)

(* It accepts a request.                                                   *)
LEMMA AcceptKeepsStarter ==
  ASSUME KernelType, StarterInv, NEW r \in Requests, Accept(r), UNCHANGED <<app, coil, motorOn>>
  PROVE  StarterInv'
<1>0. /\ InHand("gsm", r) /\ gsm = "active_idle" /\ gsm' = Operation[r]
      /\ queue' = queue /\ current' = Idle
  BY DEF Accept, Handling, InHand, Return
<1>1. CASE r \notin AnswerAsks \cup {"SMS_DELETE"}
  <2>1. gsm' \notin KeyOps
    BY <1>0, <1>1 DEF Requests, Operation, KeyOps, AnswerOps, AnswerAsks
  <2>2. Adds("gsm", {}) /\ Adds("app", {})
    BY <1>0, AddsNone
  <2> QED
    BY <1>0, <2>1, <2>2, NoKeyComes
<1>2. CASE r \in AnswerAsks \cup {"SMS_DELETE"}
  <2>0. /\ gsm' = "time_get" <=> r = "CLOCK_READ"
        /\ gsm' = "sms_send" <=> r = "SMS_SEND"
        /\ gsm' = "sms_delete" <=> r = "SMS_DELETE"
        /\ gsm' # "sms_send_support"
    BY <1>0, <1>2, KeysAre DEF AnswerAsks
  <2>1. ASSUME NEW a \in {"gsm", "app"}, NEW key \in Keys
        PROVE  /\ Waiting(a, key)' = Waiting(a, key) /\ ~InHand(a, key)'
               /\ Sole(a, key)' = Sole(a, key)
               /\ Pending(a, key)' = Waiting(a, key) /\ (Waiting(a, key) => Pending(a, key))
    BY <1>0 DEF Waiting, InHand, Idle, Sole, Pending
  <2>2. Pending("gsm", r) /\ (\A key \in Keys : ~Waiting("app", key))
    BY <1>0 DEF InHand, Pending, StarterInv, AppFirst
  <2>3. Answering' => Answering
    BY <2>0, <2>1, <2>2, KeysAre DEF Answering, ClockAsked, Sending, Asked
  <2>4. Deleting' => Deleting
    BY <2>0, <2>1, <2>2, KeysAre DEF Deleting, Asked
  <2>5. Position' /\ AnswersHeld'
    BY <2>3 DEF StarterInv, Position, AnswersHeld, AnswerStates
  <2>6. DeletesOnce'
    <3>1. gsm' = "sms_delete" => ~Waiting("gsm", "SMS_DELETE")
      BY <1>0, <2>0 DEF StarterInv, DeletesOnce, Once
    <3> QED
      BY <2>1, <2>2, <2>4, <3>1, KeysAre DEF StarterInv, DeletesOnce, Once
  <2>7. DeletesLast'
    <3>1. \A i, j \in DOMAIN queue'["gsm"] :
            queue'["gsm"][i].sig = "SMS_DELETE" /\ queue'["gsm"][j].sig \in AnswerAsks => j < i
      BY <1>0 DEF StarterInv, DeletesLast
    <3>2. gsm' = "sms_delete" => \A sig \in AnswerAsks : ~Waiting("gsm", sig)
      BY <1>0, <2>0 DEF StarterInv, DeletesLast
    <3> QED
      BY <2>1, <2>2, <3>1, <3>2, KeysAre DEF DeletesLast
  <2>8. TurnsAwayOnce' /\ AppFirst'
    BY <1>0, <2>1, <2>2, KeysAre DEF StarterInv, TurnsAwayOnce, AppFirst, Once, Idle
  <2> QED
    BY <2>5, <2>6, <2>7, <2>8 DEF StarterInv
<1> QED
  BY <1>1, <1>2

(* It reports that a request has been carried out.                         *)
LEMMA DoneKeepsStarter ==
  ASSUME KernelType, StarterInv, OperationDone, UNCHANGED <<app, coil, motorOn>>
  PROVE  StarterInv'
<1>0. /\ InHand("gsm", "ACK") /\ gsm' = "active_idle" /\ current' = Idle
      /\ queue' = Told(Outcome(gsm))
      /\ gsm \in OperationStates \ {"network_status", "sms_presence"}
  BY DEF OperationDone, BackToIdle, Return, Handling, InHand
<1> DEFINE k == Outcome(gsm)
<1>1. CASE k \notin Keys
  <2>1. k \in Signals \ Keys
    BY <1>0, <1>1, Keyless DEF Outcome, Keys, Answers
  <2>2. "0" \in Pars
    BY DEF Pars
  <2>3. queue' \in KeylessPosts
    BY <1>0, <2>1, <2>2, KeylessNamed
  <2>4. gsm' \notin KeyOps
    BY <1>0 DEF KeyOps, AnswerOps
  <2> QED
    BY <1>0, <2>3, <2>4, KeylessAdds, NoKeyComes
<1>2. CASE k \in Keys
  <2>0. /\ k \in Answers \cup {"SMS_DELETE_DONE"}
        /\ k = "SMS_DELETE_DONE" <=> gsm = "sms_delete"
        /\ k = "CLOCK_READ_DONE" => gsm = "time_get"
        /\ k = "SMS_SENT" => gsm \in {"sms_send", "sms_send_support"}
        /\ k \in Signals
    BY <1>0, <1>2 DEF Outcome, Keys, Answers, AnswerAsks, Signals
  <2>1. Event(k) \in Events /\ Event(k).sig = k
    BY <2>0, PlainEventType DEF Event, EventPar
  <2>2. queue'["app"] = Append(queue["app"], Event(k)) /\ queue'["gsm"] = queue["gsm"]
    BY <1>0, TwoQueues DEF Told, Post, KernelType, Queues
  <2>3. Adds("app", {k}) /\ Adds("gsm", {})
    BY <2>1, <2>2, TwoQueues, AddsOne, AddsNone
  <2>4. \A key \in Keys : ~Waiting("app", key)
    BY <1>0 DEF StarterInv, AppFirst, InHand
  <2>5. ASSUME NEW key \in Keys
        PROVE  /\ Waiting("app", key)' => key = k
               /\ Sole("app", key)'
               /\ Waiting("gsm", key)' => Waiting("gsm", key)
               /\ Sole("gsm", key) => Sole("gsm", key)'
               /\ ~InHand("gsm", key)' /\ ~InHand("app", key)'
    <3>1. Sole("app", key)
      BY <2>4 DEF Sole, Waiting
    <3> QED
      BY <1>0, <2>3, <2>4, <3>1, TwoQueues, AddedKeys DEF InHand, Idle
  <2>6. ASSUME NEW key \in Keys
        PROVE  /\ Pending("app", key)' => key = k
               /\ Pending("gsm", key)' => Pending("gsm", key)
    BY <2>5 DEF Pending, InHand
  <2>7. Answering' => Answering
    <3>1. Pending("app", "CLOCK_READ_DONE")' => gsm = "time_get"
      BY <2>0, <2>6, KeysAre
    <3>2. Pending("app", "SMS_SENT")' => gsm \in {"sms_send", "sms_send_support"}
      BY <2>0, <2>6, KeysAre
    <3> QED
      BY <1>0, <2>6, <3>1, <3>2, KeysAre DEF Answering, ClockAsked, Sending, Asked
  <2>8. Pending("app", "SMS_DELETE_DONE")' => gsm = "sms_delete"
    BY <2>0, <2>6, KeysAre
  <2>9. Deleting' => Deleting
    BY <1>0, <2>6, <2>8, KeysAre DEF Deleting, Asked
  <2>10. Position' /\ AnswersHeld'
    BY <2>7 DEF StarterInv, Position, AnswersHeld, AnswerStates
  <2>11. DeletesOnce'
    <3>1. ~(Pending("gsm", "SMS_DELETE")' /\ Pending("app", "SMS_DELETE_DONE")')
      BY <2>6, <2>8, KeysAre DEF StarterInv, DeletesOnce
    <3>2. Once("gsm", "SMS_DELETE")' /\ Once("app", "SMS_DELETE_DONE")'
      BY <2>5, KeysAre DEF StarterInv, DeletesOnce, Once
    <3> QED
      BY <1>0, <2>9, <3>1, <3>2 DEF StarterInv, DeletesOnce
  <2>12. DeletesLast'
    <3>1. ASSUME NEW i \in DOMAIN queue'["gsm"], NEW j \in DOMAIN queue'["gsm"],
                 queue'["gsm"][i].sig = "SMS_DELETE", queue'["gsm"][j].sig \in AnswerAsks
          PROVE  j < i
      BY <2>2, <3>1 DEF StarterInv, DeletesLast
    <3>2. ~InHand("gsm", "SMS_DELETE")' /\ gsm' # "sms_delete"
      BY <1>0, <2>5, KeysAre
    <3>3. ASSUME Pending("app", "SMS_DELETE_DONE")'
          PROVE  ~Answering'
      <4>1. \A sig \in AnswerAsks : ~Pending("gsm", sig)
        BY <2>8, <3>3 DEF StarterInv, DeletesLast, Pending, InHand
      <4>2. k = "SMS_DELETE_DONE"
        BY <2>6, <3>3, KeysAre
      <4>3. ~Pending("app", "CLOCK_READ_DONE")' /\ ~Pending("app", "SMS_SENT")'
        BY <2>6, <4>2, KeysAre
      <4>4. ~Pending("gsm", "CLOCK_READ")' /\ ~Pending("gsm", "SMS_SEND")'
        BY <2>6, <4>1, KeysAre DEF AnswerAsks
      <4> QED
        BY <1>0, <4>3, <4>4, KeysAre DEF Answering, ClockAsked, Sending, Asked
    <3> QED
      BY <3>1, <3>2, <3>3 DEF DeletesLast
  <2>13. TurnsAwayOnce'
    <3>1. ~Pending("app", "TRANSITION_OUT")'
      BY <2>0, <2>6, KeysAre DEF Answers
    <3> QED
      BY <2>5, <3>1, KeysAre DEF TurnsAwayOnce, Once, Pending
  <2>14. AppFirst'
    BY <1>0 DEF AppFirst, Idle
  <2> QED
    BY <2>10, <2>11, <2>12, <2>13, <2>14 DEF StarterInv
<1> QED
  BY <1>1, <1>2

(* Nor does the parser find a key in a line of the modem.                  *)
LEMMA ParsedKeyless ==
  ASSUME NEW line
  PROVE  \A i \in DOMAIN Parsed(line) : Parsed(line)[i].sig \notin Keys
<1>1. \A sig \in {"ACK", "ERROR", "RECIEVE_URC", "SMS_RESPONSE", "CLOCK_RESPONSE",
                  "NETWORK_RESPONSE"} : sig \notin Keys
  BY DEF Keys, AnswerAsks, Answers
<1>2. Parsed(line) = <<>> \/ \E e : Parsed(line) = <<e>> /\ e.sig \notin Keys
  BY <1>1 DEF Parsed, Event, EventPar
<1>3. ASSUME NEW e, Parsed(line) = <<e>>, e.sig \notin Keys
      PROVE  \A i \in DOMAIN Parsed(line) : Parsed(line)[i].sig \notin Keys
  BY <1>3
<1> QED
  BY <1>2, <1>3

(* Every handler of the GSM object.                                        *)
LEMMA GsmKeepsStarter ==
  ASSUME KernelType, StarterInv, GsmHandler, UNCHANGED <<app, coil, motorOn>>
  PROVE  StarterInv'
<1> USE DEF Handling
<1>o. "com" \in Objects /\ "gsm" \in Objects /\ "app" \in Objects
      /\ "0" \in Pars /\ "rest" \in Pars /\ "ix" \in Pars
  BY ConfigurationOfMain DEF ObjectsOfMain, Pars
<1>k. ASSUME queue' \in KeylessPosts, current' = Idle,
             \/ gsm' = gsm
             \/ gsm' \notin KeyOps
             \/ gsm' \in AnswerOps /\ gsm \in AnswerOps
      PROVE  StarterInv'
  BY <1>k, KeylessAdds, NoKeyComes
<1>p. /\ queue \in KeylessPosts
      /\ \A sig \in Signals \ Keys : Told(sig) \in KeylessPosts
      /\ Post(queue, "com", Event("OPEN_REQUEST")) \in KeylessPosts
      /\ Post(queue, "gsm", EventPar("BUFFER_FULL", "rest")) \in KeylessPosts
      /\ Post(queue, "app", EventPar("SMS_FOUND", "ix")) \in KeylessPosts
  BY <1>o, KeylessNamed, Keyless
<1>1. CASE GsmInactive
  <2>1. queue' \in KeylessPosts /\ current' = Idle
    BY <1>1, <1>p, Keyless
    DEF GsmInactive, StartAo, ComOpened, PowerKey, PoweredOn, RetryAt, NoModem, LinkUp,
        ConfigNext, ConfigDone, ConfigFails, Ignore, Return
  <2>2. gsm' = gsm \/ gsm' \in InactiveStates \cup {"active_idle"}
    BY <1>1
    DEF GsmInactive, StartAo, ComOpened, PowerKey, PoweredOn, RetryAt, NoModem, LinkUp,
        ConfigNext, ConfigDone, ConfigFails, gsmVars, InactiveStates
  <2>3. gsm' = gsm \/ gsm' \notin KeyOps
    BY <2>2 DEF KeyOps, AnswerOps, InactiveStates
  <2> QED
    BY <1>k, <2>1, <2>3
<1>2. ASSUME NEW r \in Requests, Accept(r)
      PROVE  StarterInv'
  BY <1>2, AcceptKeepsStarter
<1>3. CASE IdleTells \/ ParseDone \/ GsmIgnores
  <2>1. queue' \in KeylessPosts /\ current' = Idle /\ gsm' = gsm
    BY <1>3, <1>p, Keyless DEF IdleTells, ParseDone, GsmIgnores, Ignore, Return, gsmVars
  <2> QED
    BY <1>k, <2>1
<1>4. CASE ParseLine
  <2>1. /\ queue'["gsm"] = queue["gsm"] \o Parsed(Head(rx)) /\ queue'["app"] = queue["app"]
        /\ current' = current /\ gsm' = gsm
    BY <1>4, TwoQueues DEF ParseLine, KernelType, Queues, gsmVars
  <2>2. Adds("app", {})
    BY <2>1, AddsNone
  <2>3. Adds("gsm", {})
    BY <2>1, TwoQueues, ParsedType, ParsedKeyless, AddsParsed
  <2> QED
    BY <2>1, <2>2, <2>3, NoKeyComes
<1>5. CASE GsmOperation
  <2>1. CASE OperationDone
    BY <2>1, DoneKeepsStarter
  <2>2. CASE \/ OperationTimesOut \/ NetworkTimesOut \/ NetworkReport \/ PresenceDone
             \/ ClockGarbled
    <3>1. queue' \in KeylessPosts /\ current' = Idle /\ gsm' = "active_idle"
      BY <2>2, <1>p, Keyless
      DEF OperationTimesOut, NetworkTimesOut, NetworkReport, PresenceDone, ClockGarbled,
          BackToIdle, Return
    <3> QED
      BY <1>k, <3>1 DEF KeyOps, AnswerOps
  <2>3. CASE \/ NetworkRetry \/ NetworkResponse \/ NetworkSearching \/ NetworkFallsThrough
             \/ SendText \/ SendRest \/ KeepResponse \/ ExtractTime
    <3>1. queue' \in KeylessPosts /\ current' = Idle /\ gsm' = gsm
      BY <2>3, <1>p, Keyless
      DEF NetworkRetry, NetworkResponse, NetworkSearching, NetworkFallsThrough, SendText,
          SendRest, KeepResponse, ExtractTime, Ignore, Return
    <3> QED
      BY <1>k, <3>1
  <2>4. CASE BufferFull
    <3>1. queue' \in KeylessPosts /\ current' = Idle /\ gsm' \in AnswerOps /\ gsm \in AnswerOps
      BY <2>4, <1>p DEF BufferFull, Ignore, Return, AnswerOps
    <3> QED
      BY <1>k, <3>1
  <2> QED
    BY <1>5, <2>1, <2>2, <2>3, <2>4 DEF GsmOperation
<1> QED
  BY <1>1, <1>2, <1>3, <1>4, <1>5 DEF GsmHandler

-----------------------------------------------------------------------------
(* The application. *)

(* A handler that posts no key asks for no answer.                         *)
LEMMA NoAnswer ==
  ASSUME KernelType, StarterInv, gsm' = gsm, current' = Idle, queue' \in KeylessPosts
  PROVE  Answering' => Answering
<1>1. ASSUME NEW a \in {"gsm", "app"}, NEW key \in Keys
      PROVE  Pending(a, key)' => Pending(a, key)
  <2>1. queue[a] \in Seq(Events) /\ Adds(a, {})
    BY TwoQueues, KeylessAdds
  <2>2. Waiting(a, key)' => Waiting(a, key)
    BY <2>1, AddedKeys
  <2> QED
    BY <2>2 DEF Pending, Idle
<1> QED
  BY <1>1, KeysAre DEF Answering, ClockAsked, Sending, Asked

(* A handler that changes nothing the motor starter depends on.            *)
LEMMA AppRests ==
  ASSUME KernelType, StarterInv, gsm' = gsm, current' = Idle, queue' \in KeylessPosts,
         UNCHANGED <<app, coil, motorOn>>
  PROVE  StarterInv'
BY KeylessAdds, NoKeyComes

(* A handler that moves on without asking for an answer, from a state that *)
(* has asked for none.                                                     *)
LEMMA AppMoves ==
  ASSUME KernelType, StarterInv, current.ao = "app",
         gsm' = gsm, current' = Idle, queue' \in KeylessPosts,
         app \notin AnswerStates \cup {"validate"}, app' # "cleanup", Position'
  PROVE  StarterInv'
<1>1. ~Answering'
  BY NoAnswer DEF StarterInv, AnswersHeld
<1>2. Adds("gsm", AnswerAsks) /\ Adds("app", {"SMS_SENT"})
  BY KeylessAdds DEF Adds
<1>3. app # "cleanup" /\ app # "validate"
  BY DEF AnswerStates
<1> QED
  BY <1>1, <1>2, <1>3, AppAsks

(* A handler that asks for an answer, in a state that may, the coils off.  *)
LEMMA AppAwaits ==
  ASSUME KernelType, StarterInv, current.ao = "app", gsm' = gsm, current' = Idle,
         queue' \in {Asks(sig) : sig \in AnswerAsks}
                    \cup {AskWith("SMS_SEND", "1"), Self("SMS_SENT")},
         app \notin {"cleanup", "validate"}, app' \in AnswerStates \ {"cleanup"},
         coil' = {}, Position'
  PROVE  StarterInv'
<1>1. "0" \in Pars /\ "1" \in Pars /\ AnswerAsks \cup {"SMS_SENT"} \subseteq Signals
  BY DEF Pars, AnswerAsks, Signals, Requests, Operation
<1>2. ASSUME NEW sig \in AnswerAsks, NEW par \in Pars,
             queue' = Post(queue, "gsm", EventPar(sig, par))
      PROVE  Adds("gsm", AnswerAsks) /\ Adds("app", {"SMS_SENT"})
  <2>1. EventPar(sig, par) \in Events /\ EventPar(sig, par).sig \in AnswerAsks
    BY <1>1, EventType DEF EventPar
  <2>2. queue'["gsm"] = Append(queue["gsm"], EventPar(sig, par)) /\ queue'["app"] = queue["app"]
    BY <1>2, TwoQueues DEF Post, KernelType, Queues
  <2> QED
    BY <2>1, <2>2, TwoQueues, AddsOne, AddsNone
<1>3. ASSUME queue' = Self("SMS_SENT")
      PROVE  Adds("gsm", AnswerAsks) /\ Adds("app", {"SMS_SENT"})
  <2>1. Event("SMS_SENT") \in Events /\ Event("SMS_SENT").sig \in {"SMS_SENT"}
    BY <1>1, PlainEventType DEF Event, EventPar
  <2>2. queue'["app"] = Append(queue["app"], Event("SMS_SENT")) /\ queue'["gsm"] = queue["gsm"]
    BY <1>3, TwoQueues DEF Self, Post, KernelType, Queues
  <2> QED
    BY <2>1, <2>2, TwoQueues, AddsOne, AddsNone
<1>4. Adds("gsm", AnswerAsks) /\ Adds("app", {"SMS_SENT"})
  BY <1>1, <1>2, <1>3 DEF Asks, AskWith, Event, AnswerAsks
<1>5. app' # "cleanup" /\ app # "cleanup" /\ app # "validate" /\ app' \in AnswerStates
  OBVIOUS
<1> QED
  BY <1>4, <1>5, AppAsks

(* It turns a message away.                                                *)
LEMMA RejectKeepsStarter ==
  ASSUME TypeOK, StarterInv, Reject, gsm' = gsm
  PROVE  StarterInv'
<1>0. /\ KernelType /\ app = "reciever" /\ app' = "validate" /\ UNCHANGED <<coil, motorOn>>
      /\ current.ao = "app" /\ current' = Idle /\ queue' = Self("TRANSITION_OUT")
  BY DEF Reject, MessageRead, Handling, Return, TypeOK
<1>1. /\ Event("TRANSITION_OUT") \in Events
      /\ Event("TRANSITION_OUT").sig = "TRANSITION_OUT"
  BY PlainEventType DEF Event, EventPar, Signals
<1>2. queue'["app"] = Append(queue["app"], Event("TRANSITION_OUT")) /\ queue'["gsm"] = queue["gsm"]
  BY <1>0, TwoQueues DEF Self, Post, KernelType, Queues
<1>3. Adds("app", {"TRANSITION_OUT"}) /\ Adds("gsm", {})
  BY <1>0, <1>1, <1>2, TwoQueues, AddsOne, AddsNone
<1>4. ASSUME NEW key \in Keys
      PROVE  /\ Waiting("app", key)' => Waiting("app", key) \/ key = "TRANSITION_OUT"
             /\ Sole("app", key) /\ ~Waiting("app", key) => Sole("app", key)'
             /\ key # "TRANSITION_OUT" /\ Sole("app", key) => Sole("app", key)'
             /\ Waiting("gsm", key)' => Waiting("gsm", key)
             /\ Sole("gsm", key) => Sole("gsm", key)'
             /\ ~InHand("gsm", key)' /\ ~InHand("app", key)'
  BY <1>0, <1>3, TwoQueues, AddedKeys DEF InHand, Idle
<1>5. /\ \A key \in AnswerAsks : ~Pending("gsm", key)
      /\ \A key \in Answers : ~Pending("app", key)
      /\ gsm \notin AnswerOps
  <2>1. ~Answering
    BY <1>0, AppAssumption DEF StarterInv, AnswersHeld, AnswerStates, MenuStates
  <2> QED
    BY <2>1, KeysAre DEF Answering, ClockAsked, Sending, Asked, AnswerAsks, Answers, AnswerOps
<1>6. /\ ~Pending("gsm", "SMS_DELETE") /\ gsm # "sms_delete"
      /\ ~Pending("app", "SMS_DELETE_DONE") /\ ~Pending("app", "TRANSITION_OUT")
  BY <1>0, KeysAre DEF StarterInv, DeletesOnce, Deleting, Asked, TurnsAwayOnce
<1>7. ASSUME NEW key \in Keys
      PROVE  /\ Pending("gsm", key)' => Pending("gsm", key)
             /\ Pending("app", key)' => Pending("app", key) \/ key = "TRANSITION_OUT"
  BY <1>4 DEF Pending, InHand
<1>8. ~Answering' /\ ~Deleting'
  BY <1>0, <1>5, <1>6, <1>7, KeysAre
  DEF Answering, Deleting, ClockAsked, Sending, Asked, AnswerAsks, Answers, AnswerOps
<1>9. Position' /\ AnswersHeld'
  BY <1>0, <1>8 DEF StarterInv, Position, AnswersHeld
<1>10. DeletesOnce'
  BY <1>4, <1>6, <1>7, <1>8, KeysAre DEF StarterInv, DeletesOnce, Once
<1>11. DeletesLast'
  <2>1. ~Pending("gsm", "SMS_DELETE")' /\ gsm' # "sms_delete" /\ ~Pending("app", "SMS_DELETE_DONE")'
    BY <1>6, <1>7, KeysAre
  <2> QED
    BY <2>1 DEF DeletesLast, Pending, Waiting, InHand
<1>12. TurnsAwayOnce'
  <2>1. Sole("app", "TRANSITION_OUT")'
    BY <1>4, <1>6, KeysAre DEF StarterInv, TurnsAwayOnce, Once, Pending
  <2> QED
    BY <1>0, <1>4, <2>1, KeysAre DEF TurnsAwayOnce, Once
<1>13. AppFirst'
  BY <1>0 DEF AppFirst, Idle
<1> QED
  BY <1>9, <1>10, <1>11, <1>12, <1>13 DEF StarterInv

(* It is done with a message.                                              *)
LEMMA DeletedKeepsStarter ==
  ASSUME TypeOK, StarterInv, Deleted, gsm' = gsm
  PROVE  StarterInv'
<1>0. /\ KernelType /\ app = "cleanup" /\ app' = "app_idle" /\ UNCHANGED <<coil, motorOn>>
      /\ InHand("app", "SMS_DELETE_DONE") /\ current' = Idle
      /\ queue' \in {queue, Self("SMS_NEW")}
  BY DEF Deleted, EnterIdle, Handling, InHand, Return, TypeOK, Self
<1>1. Adds("gsm", {}) /\ Adds("app", {})
  <2>1. Self("SMS_NEW") \in KeylessPosts /\ queue \in KeylessPosts
    BY <1>0, KeylessNamed, Keyless, AppStatesNamed
  <2> QED
    BY <1>0, <2>1, KeylessAdds
<1>2. ASSUME NEW a \in {"gsm", "app"}, NEW key \in Keys
      PROVE  /\ Waiting(a, key)' => Waiting(a, key)
             /\ Sole(a, key) => Sole(a, key)'
             /\ ~InHand(a, key)'
             /\ Pending(a, key)' => Waiting(a, key)
             /\ Waiting(a, key) => Pending(a, key)
  <2>1. (Waiting(a, key)' => Waiting(a, key)) /\ (Sole(a, key) => Sole(a, key)')
    BY <1>0, <1>1, TwoQueues, AddedKeys
  <2> QED
    BY <1>0, <2>1 DEF InHand, Idle, Pending
<1>3. Pending("app", "SMS_DELETE_DONE") /\ ~Waiting("app", "SMS_DELETE_DONE")
  BY <1>0 DEF StarterInv, DeletesOnce, Once, Pending, InHand
<1>4. ~Answering /\ ~Pending("gsm", "SMS_DELETE") /\ gsm # "sms_delete"
  BY <1>3 DEF StarterInv, DeletesOnce, DeletesLast
<1>5. ~Answering'
  BY <1>2, <1>4, KeysAre DEF Answering, ClockAsked, Sending, Asked
<1>6. ~Pending("gsm", "SMS_DELETE")' /\ ~Pending("app", "SMS_DELETE_DONE")'
  BY <1>2, <1>3, <1>4, KeysAre
<1>7. Position' /\ AnswersHeld'
  BY <1>0, <1>5 DEF StarterInv, Position, AnswersHeld
<1>8. DeletesOnce'
  BY <1>2, <1>4, <1>6, KeysAre DEF StarterInv, DeletesOnce, Once, Deleting, Asked
<1>9. DeletesLast'
  BY <1>4, <1>6 DEF DeletesLast, Pending, Waiting, InHand
<1>10. TurnsAwayOnce'
  <2>1. ~Pending("app", "TRANSITION_OUT")
    BY <1>0 DEF StarterInv, TurnsAwayOnce
  <2> QED
    BY <1>2, <2>1, KeysAre DEF StarterInv, TurnsAwayOnce, Once
<1>11. AppFirst'
  BY <1>0 DEF AppFirst, Idle
<1> QED
  BY <1>7, <1>8, <1>9, <1>10, <1>11 DEF StarterInv

(* Every handler of the application.                                       *)
LEMMA AppKeepsStarter ==
  ASSUME TypeOK, StarterInv, AppHandler, gsm' = gsm
  PROVE  StarterInv'
<1>0. /\ KernelType /\ AppType /\ current.ao = "app" /\ current' = Idle
      /\ Position /\ coil \in SUBSET {"ON", "OFF"} /\ motorOn \in BOOLEAN
  BY AppHandlerReturns DEF TypeOK, AppType, AppReturns, Return, StarterInv
<1>o. /\ "emon" \in Objects /\ "app" \in Objects /\ current.par \in Pars
      /\ "0" \in Pars /\ "1" \in Pars /\ "SMS_UNREAD" \in Pars
  BY <1>0, ConfigurationOfMain, AppStatesNamed DEF ObjectsOfMain, KernelType
<1>m. /\ \A o \in MenuStates : o \in AnswerStates /\ o \notin {"cleanup", "validate",
             "action_on", "action_off", "reciever", "app_idle", "init", "get_status"}
      /\ {"get_status", "action_on", "action_off"} \subseteq AnswerStates \ {"cleanup"}
      /\ "reciever" \notin AnswerStates /\ "app_idle" \notin AnswerStates
      /\ "init" \notin AnswerStates
  BY AppAssumption DEF MenuStates, AnswerStates
<1>p. /\ queue \in KeylessPosts
      /\ \A sig \in Signals \ Keys, par \in Pars :
           Asks(sig) \in KeylessPosts /\ Self(sig) \in KeylessPosts
           /\ AskWith(sig, par) \in KeylessPosts
      /\ Post(queue, "emon", Event("READ_ENTITY")) \in KeylessPosts
      /\ Post(queue, "app", Event("SMS_NEW")) \in KeylessPosts
  BY <1>0, <1>o, KeylessNamed, Keyless
<1>h. ASSUME NEW sig \in Keys, current.sig = sig
      PROVE  Pending("app", sig)
  BY <1>0, <1>h DEF Pending
<1>r. ASSUME UNCHANGED <<app, coil, motorOn>>, queue' \in KeylessPosts
      PROVE  StarterInv'
  BY <1>0, <1>r, AppRests
<1>1. CASE \/ StartModem \/ ModemUp \/ NetworkDown \/ IdlePeriod \/ ActivePeriod \/ Defer
           \/ MessageFound \/ SetTimeRead \/ Measured \/ AppIgnores
  <2>1. UNCHANGED <<app, coil, motorOn>>
    BY <1>1 DEF StartModem, ModemUp, NetworkDown, IdlePeriod, ActivePeriod, Defer,
                MessageFound, SetTimeRead, Measured, AppIgnores, appVars
  <2>2. queue' \in KeylessPosts
    BY <1>o, <1>1, <1>p, Keyless
    DEF StartModem, ModemUp, NetworkDown, IdlePeriod, ActivePeriod, Defer,
        MessageFound, SetTimeRead, Measured, AppIgnores, Ignore, Return
  <2> QED
    BY <1>r, <2>1, <2>2
<1>2. CASE Registered \/ Recieve \/ AskSession
  <2>1. /\ app \in {"init", "app_idle", "reciever"}
        /\ app' \in {"app_idle", "reciever", "action_menu"} /\ UNCHANGED <<coil, motorOn>>
    BY <1>2 DEF Registered, Recieve, AskSession, EnterIdle, MessageRead, Handling
  <2>2. queue' \in KeylessPosts
    BY <1>o, <1>2, <1>p, Keyless DEF Registered, Recieve, AskSession, EnterIdle, Return
  <2>3. Position'
    BY <1>0, <2>1 DEF Position
  <2> QED
    BY <1>0, <1>m, <2>1, <2>2, <2>3, AppMoves
<1>3. CASE Reject
  BY <1>3, RejectKeepsStarter
<1>4. CASE AskStatus \/ Broadcast
  <2>1. /\ app \in {"reciever", "app_idle"} /\ app' = "get_status"
        /\ UNCHANGED <<coil, motorOn>> /\ queue' = Asks("CLOCK_READ")
    BY <1>4 DEF AskStatus, Broadcast, MessageRead, Handling, Return
  <2>2. Position' /\ coil' = {}
    BY <1>0, <2>1 DEF Position
  <2> QED
    BY <1>0, <1>m, <2>1, <2>2, AppAwaits DEF AnswerAsks
<1>5. ASSUME NEW s, NEW pin, NEW on,
             \/ s = "action_on" /\ pin = "ON" /\ on = TRUE
             \/ s = "action_off" /\ pin = "OFF" /\ on = FALSE,
             AskMotor(s, pin, on)
      PROVE  StarterInv'
  <2>1. app = "reciever" /\ app' = s /\ motorOn' = motorOn /\ coil = {}
    BY <1>0, <1>5 DEF AskMotor, Switch, MessageRead, Handling, Position
  <2>2. CASE motorOn = on
    <3>1. coil' = {} /\ queue' = Asks("CLOCK_READ")
      BY <1>5, <2>1, <2>2 DEF AskMotor, Switch, Return
    <3>2. Position'
      BY <1>5, <2>1, <2>2, <3>1 DEF Position
    <3>3. app \notin {"cleanup", "validate"} /\ app' \in AnswerStates \ {"cleanup"}
      BY <1>5, <1>m, <2>1
    <3> QED
      BY <1>0, <2>1, <3>1, <3>2, <3>3, AppAwaits DEF AnswerAsks
  <2>3. CASE motorOn # on
    <3>1. coil' = {pin} /\ queue' = queue
      BY <1>5, <2>1, <2>3 DEF AskMotor, Switch, Return
    <3>2. Position'
      BY <1>0, <1>5, <2>1, <2>3, <3>1 DEF Position
    <3>3. app \notin AnswerStates \cup {"validate"} /\ app' # "cleanup"
      BY <1>5, <1>m, <2>1
    <3> QED
      BY <1>0, <1>p, <3>1, <3>2, <3>3, AppMoves
  <2> QED
    BY <2>2, <2>3
<1>6. ASSUME NEW u \in Users, NEW o \in MenuOptions, MenuStep(u, o)
      PROVE  StarterInv'
  <2>1. app = "reciever" /\ app' = o /\ UNCHANGED <<coil, motorOn>> /\ o \in MenuStates
    BY <1>6 DEF MenuStep, MessageRead, Handling, MenuStates
  <2>2. Position' /\ coil' = {}
    BY <1>0, <1>m, <2>1 DEF Position
  <2>3. queue' = Asks("SMS_SEND") \/ queue' \in KeylessPosts
    BY <1>6, <1>o, <1>p, Keyless DEF MenuStep, Return
  <2>4. app \notin AnswerStates \cup {"cleanup", "validate"} /\ app' \in AnswerStates \ {"cleanup"}
    BY <1>m, <2>1
  <2>5. CASE queue' = Asks("SMS_SEND")
    BY <1>0, <2>2, <2>4, <2>5, AppAwaits DEF AnswerAsks
  <2>6. CASE queue' \in KeylessPosts
    BY <1>0, <2>2, <2>4, <2>6, AppMoves
  <2> QED
    BY <2>3, <2>5, <2>6
<1>7. CASE StartSession
  <2>1. app \in MenuStates /\ UNCHANGED <<app, coil, motorOn>> /\ queue' = AskWith("SMS_SEND", "1")
    BY <1>7 DEF StartSession, Return
  <2>2. Position' /\ coil' = {}
    BY <1>0, <1>m, <2>1 DEF Position
  <2> QED
    BY <1>0, <1>m, <2>1, <2>2, AppAwaits
<1>s. app \in {"set_time", "get_status", "action_on", "action_off"} =>
        app \in AnswerStates \ {"cleanup"} /\ app # "validate"
  <2>1. app = "set_time" => app \in MenuStates
    BY <1>0 DEF AppType, AppStates, ActiveStates, ActionStates
  <2> QED
    BY <1>m, <2>1
<1>8. CASE SetTimeDone \/ StatusRead \/ BroadcastNext
  <2>1. /\ app \in {"set_time", "get_status"} /\ UNCHANGED <<app, coil, motorOn>>
        /\ queue' \in {Asks("CLOCK_READ"), Asks("SMS_SEND"), Self("SMS_SENT")}
    BY <1>8 DEF SetTimeDone, StatusRead, BroadcastNext, Return, appVars
  <2>2. Position' /\ coil' = {}
    BY <1>0, <2>1 DEF Position
  <2> QED
    BY <1>0, <1>s, <2>1, <2>2, AppAwaits DEF AnswerAsks
<1>9. CASE ClockRead
  <2>1. /\ app \in {"set_time", "get_status", "action_on", "action_off"}
        /\ UNCHANGED <<app, coil, motorOn>> /\ current.sig = "CLOCK_READ_DONE"
        /\ queue' \in {Asks("SMS_SEND"), Post(queue, "emon", Event("READ_ENTITY"))}
    BY <1>9 DEF ClockRead, Return, Handling, appVars
  <2>2. CASE queue' = Asks("SMS_SEND")
    <3>1. Answering
      BY <1>h, <2>1, KeysAre DEF Answering, ClockAsked, Asked
    <3>2. Position' /\ coil' = {}
      BY <1>0, <2>1, <3>1 DEF Position, StarterInv, AnswersHeld
    <3> QED
      BY <1>0, <1>s, <2>1, <2>2, <3>2, AppAwaits DEF AnswerAsks
  <2>3. CASE queue' = Post(queue, "emon", Event("READ_ENTITY"))
    BY <1>p, <1>r, <2>1, <2>3
  <2> QED
    BY <2>1, <2>2, <2>3
<1>10. ASSUME NEW s, NEW pin, NEW on,
              \/ s = "action_on" /\ pin = "ON" /\ on = TRUE
              \/ s = "action_off" /\ pin = "OFF" /\ on = FALSE,
              PulseEnds(s, pin, on)
       PROVE  StarterInv'
  <2>1. /\ app = s /\ app' = app /\ motorOn' = on /\ queue' = Asks("CLOCK_READ")
        /\ coil' = coil \ {pin}
    BY <1>10 DEF PulseEnds, Handling, Return
  <2>2. coil' = {}
    BY <1>0, <1>10, <2>1 DEF Position
  <2>3. Position'
    BY <1>10, <2>1, <2>2 DEF Position
  <2>4. app \notin {"cleanup", "validate"} /\ app' \in AnswerStates \ {"cleanup"}
    BY <1>10, <1>s, <2>1
  <2> QED
    BY <1>0, <2>1, <2>2, <2>3, <2>4, AppAwaits DEF AnswerAsks
<1>11. CASE Answered
  <2>1. app \in ActionStates \ {"validate"} /\ current.sig = "SMS_SENT" /\ Leave
    BY <1>11 DEF Answered, Handling
  <2>2. Answering
    BY <1>h, <2>1, KeysAre DEF Answering, Sending, Asked
  <2>3. coil = {} /\ app # "cleanup" /\ app # "validate"
    BY <2>1, <2>2, AppAssumption DEF StarterInv, AnswersHeld, ActionStates, MenuStates
  <2> QED
    BY <1>0, <2>1, <2>3, LeaveKeeps
<1>12. CASE TurnedAway
  <2>1. Leave /\ \/ current.sig = "TRANSITION_OUT" /\ app \in ActiveStates
                 \/ current.sig = "SMS_NOT_FOUND" /\ app = "reciever"
                 \/ current.sig = "PARSING_ERROR" /\ app = "set_time"
    BY <1>12 DEF TurnedAway, LeavesOn, Handling
  <2>2. current.sig = "TRANSITION_OUT" => app = "validate"
    BY <1>h, KeysAre DEF StarterInv, TurnsAwayOnce
  <2>3. app # "cleanup" /\ coil = {} /\ (app = "validate" => current.sig = "TRANSITION_OUT")
    BY <1>0, <2>1, <2>2 DEF Position
  <2> QED
    BY <1>0, <2>1, <2>3, LeaveKeeps
<1>13. CASE Deleted
  BY <1>13, DeletedKeepsStarter
<1> QED
  BY <1>1, <1>2, <1>3, <1>4, <1>5, <1>6, <1>7, <1>8, <1>9, <1>10, <1>11, <1>12, <1>13
  DEF AppHandler, AskOn, AskOff, OnEnds, OffEnds

(* Every step of the firmware.                                             *)
LEMMA NextKeepsStarter == TypeOK /\ StarterInv /\ [Next]_vars => StarterInv'
<1> SUFFICES ASSUME TypeOK, StarterInv, [Next]_vars PROVE StarterInv'
  OBVIOUS
<1>0. KernelType
  BY DEF TypeOK
<1>k. ASSUME queue' \in KeylessPosts, current' \in {current, Idle},
             UNCHANGED <<gsm, app, coil, motorOn>>
      PROVE  StarterInv'
  BY <1>0, <1>k, KeylessAdds, NoKeyComes
<1>p. /\ queue \in KeylessPosts
      /\ \A sig \in Signals \ Keys, a \in {"gsm", "app"} :
           Post(queue, a, Event(sig)) \in KeylessPosts
  <2>1. "0" \in Pars
    BY DEF Pars
  <2> QED
    BY <1>0, <2>1, TwoQueues, KeylessNamed
<1>1. CASE Schedule
  <2>1. PICK a \in Objects : Dispatch(a)
    BY <1>1 DEF Schedule
  <2>2. UNCHANGED <<gsm, app, coil, motorOn>>
    BY <1>1 DEF Schedule, gsmVars, appVars
  <2> QED
    BY <1>0, <2>1, <2>2, DispatchKeepsStarter
<1>2. CASE GsmStep
  BY <1>0, <1>2, GsmKeepsStarter DEF GsmStep, appVars
<1>3. CASE AppStep
  BY <1>3, AppKeepsStarter DEF AppStep, gsmVars
<1>4. CASE Drivers
  <2>1. UNCHANGED <<gsm, app, coil, motorOn>> /\ current' \in {current, Idle}
    BY <1>4 DEF Drivers, ComOpen, EmonStart, EmonDone, Ignore, Return, PostedTo, gsmVars, appVars
  <2>2. queue' \in KeylessPosts
    BY <1>4, <1>p, Keyless DEF Drivers, ComOpen, EmonStart, EmonDone, Ignore, Return, PostedTo
  <2> QED
    BY <1>k, <2>1, <2>2
<1>5. CASE Link
  <2>1. UNCHANGED <<gsm, app, coil, motorOn>> /\ current' = current
    BY <1>5 DEF Link, TxDone, RxTimeout, ModemAnswers, ModemSends, MessageArrives, PostedTo,
                kernelVars, gsmVars, appVars
  <2>2. queue' \in KeylessPosts
    BY <1>5, <1>p, Keyless DEF Link, TxDone, RxTimeout, ModemAnswers, ModemSends,
                               MessageArrives, PostedTo, kernelVars
  <2> QED
    BY <1>k, <2>1, <2>2
<1>6. ASSUME NEW a \in {"gsm", "app"}, Expire(a), UNCHANGED <<gsm, app, coil, motorOn>>
      PROVE  StarterInv'
  <2>1. a \in Objects /\ timer[a] \in Pars
    BY <1>0, <1>6, TwoQueues DEF Expire, KernelType, Timers, Pars
  <2>2. queue' \in KeylessPosts
    BY <1>0, <1>6, <2>1, KeylessNamed, Keyless DEF Expire
  <2> QED
    BY <1>6, <1>k, <2>2 DEF Expire
<1>7. CASE GsmTick \/ AppTick
  BY <1>6, <1>7 DEF GsmTick, AppTick, gsmVars, appVars
<1>8. CASE UNCHANGED vars
  BY <1>8, <1>k, <1>p DEF vars, kernelVars, gsmVars, appVars
<1> QED
  BY <1>1, <1>2, <1>3, <1>4, <1>5, <1>7, <1>8 DEF Next

(* At the start nothing is asked for and the coils are off.                *)
LEMMA InitStarter == Init => StarterInv
<1> SUFFICES ASSUME Init PROVE StarterInv
  OBVIOUS
<1>1. /\ current.ao = "none" /\ gsm = "systemsetup" /\ app = "init" /\ coil = {}
      /\ queue["app"] = <<>> /\ queue["gsm"] = <<Event("START_AO")>>
  BY ConfigurationOfMain DEF Init, GsmInit, AppInit, Idle, ObjectsOfMain
<1>2. Event("START_AO").sig \notin Keys
  BY DEF Event, EventPar, Keys, AnswerAsks, Answers
<1>3. ASSUME NEW a \in {"gsm", "app"}, NEW key \in Keys
      PROVE  ~Waiting(a, key) /\ ~InHand(a, key)
  BY <1>1, <1>2 DEF Waiting, InHand
<1>4. ASSUME NEW a \in {"gsm", "app"}, NEW key \in Keys
      PROVE  ~Pending(a, key) /\ Once(a, key)
  BY <1>3 DEF Pending, InHand, Once, Sole, Waiting
<1>5. ~Answering /\ ~Deleting
  BY <1>1, <1>4, KeysAre DEF Answering, Deleting, ClockAsked, Sending, Asked
<1>6. Position /\ AnswersHeld /\ TurnsAwayOnce /\ AppFirst
  BY <1>1, <1>4, <1>5, KeysAre DEF Position, AnswersHeld, TurnsAwayOnce, AppFirst
<1>7. DeletesOnce
  BY <1>4, <1>5, KeysAre DEF DeletesOnce
<1>8. DeletesLast
  BY <1>1, <1>3, <1>4, KeysAre DEF DeletesLast, Waiting
<1> QED
  BY <1>6, <1>7, <1>8 DEF StarterInv

(* StarterInv is inductive, with the types.                                *)
LEMMA StarterHolds == Spec => []StarterInv
BY InitStarter, NextKeepsStarter, TypeCorrect, PTL DEF Spec

(* A starter pin is high only in its own action state, with the motor in   *)
(* the other position: whatever answers, time-outs and notices come in     *)
(* while the pulse lasts, the TIMEOUT of the periodic timer included, no   *)
(* way out of the state leaves the pin behind, and no order for the other  *)
(* position is taken before it is down (app.c, action_on and action_off).  *)
THEOREM CoilsAreSafe == Spec => []RelaySafe
<1>1. StarterInv => RelaySafe
  BY DEF StarterInv, Position, RelaySafe
<1> QED
  BY <1>1, StarterHolds, PTL

(* Only AskOn and AskOff energise a coil, and only OnEnds and OffEnds      *)
(* release one or write the position; a pulse that is not needed is none.  *)
LEMMA StarterStep == TypeOK /\ StarterInv /\ [Next]_vars => [Motor!Next]_(Motor!starter)
<1> SUFFICES ASSUME TypeOK, StarterInv, [Next]_vars, ~UNCHANGED <<coil, motorOn>>
             PROVE  Motor!Next
  BY DEF Motor!starter
<1> USE DEF Motor!Next, Motor!Energise, Motor!Release, Motor!Changes
<1>0. Position /\ motorOn \in BOOLEAN /\ coil \in SUBSET {"ON", "OFF"}
  BY DEF TypeOK, AppType, StarterInv
<1>1. CASE AskOn \/ AskOff
  BY <1>0, <1>1 DEF AskOn, AskOff, AskMotor, Switch, MessageRead, Handling, Position
<1>2. CASE OnEnds \/ OffEnds
  BY <1>0, <1>2 DEF OnEnds, OffEnds, PulseEnds, Handling, Position
<1>3. CASE AppStep /\ ~(AskOn \/ AskOff \/ OnEnds \/ OffEnds)
  BY <1>3
  DEF AppStep, AppHandler, StartModem, ModemUp, NetworkDown, Registered, IdlePeriod,
      ActivePeriod, Recieve, Defer, MessageFound, Reject, AskStatus, AskSession, MenuStep,
      StartSession, SetTimeRead, SetTimeDone, ClockRead, Measured, StatusRead, Broadcast,
      BroadcastNext, Answered, TurnedAway, Leave, Deleted, AppIgnores, appVars
<1>4. CASE ~AppStep
  BY <1>4 DEF Next, Schedule, GsmStep, Drivers, ComOpen, EmonStart, EmonDone, Link, GsmTick,
              AppTick, vars, appVars
<1> QED
  BY <1>1, <1>2, <1>3, <1>4

(* The firmware implements the motor starter, but for the fairness of its  *)
(* pulses: the position on record changes exactly when the pulse for it    *)
(* ends, one coil at a time, and never without a pulse.                    *)
THEOREM ImplementsMotor == Spec => Motor!Spec
<1>1. Init => Motor!Init
  BY DEF Init, AppInit, Motor!Init
<1> QED
  BY <1>1, StarterStep, StarterHolds, TypeCorrect, PTL DEF Spec, Motor!Spec

-----------------------------------------------------------------------------
(* Notifications. *)

(* Where a queue holds a notification of a new message.                    *)
NewsIn(s) == {i \in DOMAIN s : s[i].sig = "SMS_NEW"}
New(e) == IF e.sig = "SMS_NEW" THEN 1 ELSE 0

LEMMA NewsAreFinite ==
  ASSUME NEW s \in Seq(Events)
  PROVE  IsFiniteSet(NewsIn(s)) /\ Cardinality(NewsIn(s)) \in Nat
<1>1. Len(s) \in Nat /\ DOMAIN s = 1 .. Len(s)
  BY LenProperties
<1>2. IsFiniteSet(1 .. Len(s))
  BY <1>1, FS_Interval
<1>3. IsFiniteSet(NewsIn(s))
  BY <1>1, <1>2, FS_Subset DEF NewsIn
<1> QED
  BY <1>3, FS_CardinalityType

(* Posting an event adds to them what it is.                               *)
LEMMA NewsPosted ==
  ASSUME NEW s \in Seq(Events), NEW e \in Events
  PROVE  Cardinality(NewsIn(Append(s, e))) = Cardinality(NewsIn(s)) + New(e)
<1>1. /\ Len(s) \in Nat /\ DOMAIN s = 1 .. Len(s)
      /\ DOMAIN Append(s, e) = 1 .. Len(s) + 1
      /\ \A i \in 1 .. Len(s) : Append(s, e)[i] = s[i]
      /\ Append(s, e)[Len(s) + 1] = e
  BY AppendProperties, LenProperties
<1>2. \A i : i \in 1 .. Len(s) + 1 <=> i \in 1 .. Len(s) \/ i = Len(s) + 1
  BY <1>1
<1>3. Len(s) + 1 \notin NewsIn(s)
  BY <1>1 DEF NewsIn
<1>4. CASE e.sig = "SMS_NEW"
  <2>1. NewsIn(Append(s, e)) = NewsIn(s) \cup {Len(s) + 1}
    BY <1>1, <1>2, <1>4 DEF NewsIn
  <2> QED
    BY <1>3, <1>4, <2>1, NewsAreFinite, FS_AddElement DEF New
<1>5. CASE e.sig # "SMS_NEW"
  <2>1. NewsIn(Append(s, e)) = NewsIn(s)
    BY <1>1, <1>2, <1>5 DEF NewsIn
  <2> QED
    BY <1>5, <2>1, NewsAreFinite DEF New
<1> QED
  BY <1>4, <1>5

(* Taking the head takes away what it is.                                  *)
LEMMA NewsTaken ==
  ASSUME NEW s \in Seq(Events), s # <<>>
  PROVE  Cardinality(NewsIn(s)) = Cardinality(NewsIn(Tail(s))) + New(Head(s))
<1> DEFINE t == Tail(s)
           rest == NewsIn(s) \ {1}
           f == [i \in NewsIn(t) |-> i + 1]
<1>1. /\ Len(s) \in Nat \ {0} /\ DOMAIN s = 1 .. Len(s)
      /\ t \in Seq(Events) /\ DOMAIN t = 1 .. Len(s) - 1
      /\ \A i \in 1 .. Len(s) - 1 : t[i] = s[i + 1]
      /\ Head(s) = s[1]
  BY HeadTailProperties, LenProperties, EmptySeq
<1> HIDE DEF t
<1>2. \A i : i \in NewsIn(t) <=> i \in 1 .. Len(s) - 1 /\ s[i + 1].sig = "SMS_NEW"
  BY <1>1 DEF NewsIn
<1>3. \A i \in NewsIn(t) : i \in Nat /\ i + 1 \in rest
  BY <1>1, <1>2 DEF NewsIn
<1>4. \A j \in rest : j - 1 \in NewsIn(t) /\ (j - 1) + 1 = j
  BY <1>1, <1>2 DEF NewsIn
<1>5. f \in Bijection(NewsIn(t), rest)
  <2>1. f \in [NewsIn(t) -> rest]
    BY <1>3
  <2>2. \A i, j \in NewsIn(t) : f[i] = f[j] => i = j
    BY <1>3
  <2>3. \A j \in rest : \E i \in NewsIn(t) : f[i] = j
    BY <1>4
  <2> HIDE DEF f, rest
  <2> QED
    BY <2>1, <2>2, <2>3 DEF Bijection, Injection, Surjection, IsInjective
<1>6. IsFiniteSet(NewsIn(t)) /\ Cardinality(rest) = Cardinality(NewsIn(t))
  BY <1>1, <1>5, NewsAreFinite, FS_Bijection DEF ExistsBijection
<1>7. Cardinality(rest) = IF 1 \in NewsIn(s) THEN Cardinality(NewsIn(s)) - 1
                                             ELSE Cardinality(NewsIn(s))
  BY NewsAreFinite, FS_RemoveElement
<1>8. 1 \in NewsIn(s) <=> Head(s).sig = "SMS_NEW"
  BY <1>1 DEF NewsIn
<1>9. Cardinality(NewsIn(s)) \in Nat
  BY NewsAreFinite
<1> QED
  BY <1>6, <1>7, <1>8, <1>9 DEF t, New

(* What a step may do to the application's queue without taking an event.  *)
Posted(a) ==
  \/ queue'[a] = queue[a]
  \/ \E e \in Events : queue'[a] = Append(queue[a], e)
NewsInHand == IF current.ao = "app" /\ current.sig = "SMS_NEW" THEN 1 ELSE 0
NewsWaiting == Cardinality(NewsIn(queue["app"]))

NoticesCount ==
  /\ Notices = defered + NewsWaiting + NewsInHand
  /\ NewsWaiting \in Nat /\ NewsInHand \in {0, 1} /\ defered \in Nat

LEMMA NoticesAre == TypeOK => NoticesCount
<1> SUFFICES ASSUME TypeOK PROVE NoticesCount
  OBVIOUS
<1>1. queue["app"] \in Seq(Events)
  BY TwoQueues DEF TypeOK
<1>2. defered \in Nat
  BY WordType DEF TypeOK, AppType
<1> QED
  BY <1>1, <1>2, NewsAreFinite
  DEF NoticesCount, Notices, NoticesQueued, NewsIn, NewsWaiting, NewsInHand

LEMMA NoticesAreNext == TypeOK' => NoticesCount'
BY NoticesAre, PTL

LEMMA NewsStay ==
  ASSUME TypeOK, Posted("app")
  PROVE  NewsWaiting' >= NewsWaiting
<1>1. queue["app"] \in Seq(Events)
  BY TwoQueues DEF TypeOK
<1>2. NewsWaiting \in Nat
  BY NoticesAre DEF NoticesCount
<1>3. ASSUME NEW e \in Events, queue'["app"] = Append(queue["app"], e)
      PROVE  NewsWaiting' = NewsWaiting + New(e)
  BY <1>1, <1>3, NewsPosted DEF NewsWaiting
<1>4. \A e : New(e) \in {0, 1}
  BY DEF New
<1>5. CASE queue'["app"] = queue["app"]
  BY <1>2, <1>5 DEF NewsWaiting
<1> QED
  BY <1>2, <1>3, <1>4, <1>5 DEF Posted

(* No step but the handling of a notification and the way back to idle     *)
(* makes them fewer.                                                       *)
LEMMA NoticesStay ==
  ASSUME TypeOK, TypeOK', Posted("app"), defered' = defered, NewsInHand' >= NewsInHand
  PROVE  Notices' >= Notices
<1>1. Notices' = defered' + NewsWaiting' + NewsInHand'
      /\ NewsWaiting' \in Nat /\ NewsInHand' \in {0, 1} /\ defered' \in Nat
  BY NoticesAreNext DEF NoticesCount
<1>2. NewsWaiting' >= NewsWaiting
  BY NewsStay
<1> QED
  BY <1>1, <1>2, NoticesAre DEF NoticesCount

LEMMA PostedTold ==
  ASSUME KernelType
  PROVE  /\ \A a \in Objects, sig \in Signals, par \in Pars :
              /\ queue' = Post(queue, a, EventPar(sig, par)) => Posted("app")
              /\ queue' = Post(queue, a, Event(sig)) => Posted("app")
         /\ queue' = queue => Posted("app")
<1>1. ASSUME NEW a \in Objects, NEW e \in Events, queue' = Post(queue, a, e)
      PROVE  Posted("app")
  <2>1. queue'["app"] = Append(queue["app"], e) \/ queue'["app"] = queue["app"]
    BY <1>1, TwoQueues DEF Post, KernelType, Queues
  <2> QED
    BY <2>1 DEF Posted
<1>2. ASSUME NEW a \in Objects, NEW sig \in Signals, NEW par \in Pars
      PROVE  /\ queue' = Post(queue, a, EventPar(sig, par)) => Posted("app")
             /\ queue' = Post(queue, a, Event(sig)) => Posted("app")
  <2>1. EventPar(sig, par) \in Events /\ Event(sig) \in Events
    BY EventType, PlainEventType
  <2> QED
    BY <1>1, <2>1
<1> QED
  BY <1>2 DEF Posted

LEMMA OutcomeSignal ==
  ASSUME NEW s
  PROVE  Outcome(s) \in Signals
BY DEF Outcome, Signals

(* The GSM object takes no event of the application.                       *)
LEMMA GsmPosts ==
  ASSUME TypeOK, GsmHandler
  PROVE  Posted("app") /\ current.ao = "gsm" /\ current' \in {current, Idle}
<1> USE DEF Handling
<1>0. KernelType
  BY DEF TypeOK
<1>o. /\ "com" \in Objects /\ "gsm" \in Objects /\ "app" \in Objects
      /\ "0" \in Pars /\ "rest" \in Pars /\ "ix" \in Pars
  BY ConfigurationOfMain DEF ObjectsOfMain, Pars
<1>p. /\ \A sig \in Signals : queue' = Told(sig) => Posted("app")
      /\ queue' = queue => Posted("app")
      /\ queue' = Post(queue, "com", Event("OPEN_REQUEST")) => Posted("app")
      /\ queue' = Post(queue, "gsm", EventPar("BUFFER_FULL", "rest")) => Posted("app")
      /\ queue' = Post(queue, "app", EventPar("SMS_FOUND", "ix")) => Posted("app")
  BY <1>0, <1>o, PostedTold, Keyless DEF Told
<1>1. CASE GsmInactive
  BY <1>1, <1>p, Keyless
  DEF GsmInactive, StartAo, ComOpened, PowerKey, PoweredOn, RetryAt, NoModem, LinkUp,
      ConfigNext, ConfigDone, ConfigFails, Ignore, Return
<1>2. ASSUME NEW r \in Requests, Accept(r)
      PROVE  Posted("app") /\ current.ao = "gsm" /\ current' \in {current, Idle}
  BY <1>2, <1>p DEF Accept, Return
<1>3. CASE IdleTells \/ ParseDone \/ GsmIgnores
  BY <1>3, <1>p, Keyless DEF IdleTells, ParseDone, GsmIgnores, Ignore, Return
<1>4. CASE ParseLine
  <2>1. queue'["app"] = queue["app"]
    BY <1>0, <1>4, TwoQueues DEF ParseLine, KernelType, Queues
  <2> QED
    BY <1>4, <2>1 DEF ParseLine, Posted
<1>5. CASE GsmOperation
  <2>1. CASE OperationDone \/ PresenceDone
    BY <1>p, <2>1, OutcomeSignal, Keyless DEF OperationDone, PresenceDone, BackToIdle, Return
  <2>2. CASE OperationTimesOut \/ NetworkTimesOut \/ NetworkReport \/ ClockGarbled
    BY <1>p, <2>2, Keyless
    DEF OperationTimesOut, NetworkTimesOut, NetworkReport, ClockGarbled, BackToIdle, Return
  <2>3. CASE \/ NetworkRetry \/ NetworkResponse \/ NetworkSearching \/ NetworkFallsThrough
             \/ SendText \/ BufferFull \/ SendRest \/ KeepResponse \/ ExtractTime
    BY <1>p, <2>3, Keyless
    DEF NetworkRetry, NetworkResponse, NetworkSearching, NetworkFallsThrough, SendText,
        BufferFull, SendRest, KeepResponse, ExtractTime, Ignore, Return
  <2> QED
    BY <1>5, <2>1, <2>2, <2>3 DEF GsmOperation
<1> QED
  BY <1>1, <1>2, <1>3, <1>4, <1>5 DEF GsmHandler

(* Nor do the interrupts and the drivers.                                  *)
LEMMA OthersPost ==
  ASSUME TypeOK, Drivers \/ Link \/ GsmTick \/ AppTick \/ UNCHANGED vars
  PROVE  /\ Posted("app") /\ UNCHANGED <<app, defered>>
         /\ current' = current \/ current.ao \in {"com", "emon"}
<1>0. /\ KernelType /\ "com" \in Objects /\ "gsm" \in Objects /\ "app" \in Objects
      /\ "0" \in Pars
  BY ConfigurationOfMain DEF TypeOK, ObjectsOfMain, Pars
<1>t. \A a \in Objects : timer[a] # "off" => timer[a] \in Pars
  BY <1>0 DEF Pars, KernelType, Timers
<1>p. /\ \A a \in Objects, sig \in Signals : queue' = Post(queue, a, Event(sig)) => Posted("app")
      /\ \A a \in Objects, par \in Pars :
           queue' = Post(queue, a, EventPar("TIMEOUT", par)) => Posted("app")
      /\ queue' = queue => Posted("app")
  BY <1>0, PostedTold, Keyless
<1>1. CASE Drivers
  BY <1>0, <1>1, <1>p, Keyless
  DEF Drivers, ComOpen, EmonStart, EmonDone, Handling, PostedTo, Ignore, Return, appVars
<1>2. CASE Link
  BY <1>0, <1>2, <1>p, Keyless
  DEF Link, TxDone, RxTimeout, PostedTo, ModemAnswers, ModemSends, MessageArrives, kernelVars,
      appVars
<1>3. CASE GsmTick \/ AppTick
  BY <1>0, <1>3, <1>p, <1>t DEF GsmTick, AppTick, Expire, appVars
<1>4. CASE UNCHANGED vars
  BY <1>4, <1>p DEF vars, kernelVars, appVars
<1> QED
  BY <1>1, <1>2, <1>3, <1>4

(* The application handles a notification, comes back to idle, or does     *)
(* neither.                                                                *)
LEMMA AppPosts ==
  ASSUME TypeOK, AppHandler, current.sig # "SMS_NEW", ~Registered, ~Deleted
  PROVE  Posted("app") /\ defered' = defered
<1> USE DEF Handling
<1>0. KernelType /\ AppType
  BY DEF TypeOK
<1>1. AppReturns
  BY <1>0, AppHandlerReturns
<1>2. PICK q \in AppQueues : queue' = q
  BY <1>1 DEF AppReturns, Return
<1>3. "gsm" \in Objects /\ "app" \in Objects /\ "emon" \in Objects /\ "0" \in Pars
  BY ConfigurationOfMain DEF ObjectsOfMain, Pars
<1>4. Posted("app")
  BY <1>0, <1>2, <1>3, PostedTold, AppSignals DEF AppQueues, Asks, Self, AskWith
<1>5. defered' = defered
  <2>1. CASE \/ StartModem \/ ModemUp \/ NetworkDown \/ IdlePeriod \/ ActivePeriod
             \/ Recieve \/ Defer \/ MessageFound \/ Reject \/ AskStatus \/ AskSession
    BY <2>1
    DEF StartModem, ModemUp, NetworkDown, IdlePeriod, ActivePeriod, Recieve, Defer,
        MessageFound, Reject, AskStatus, AskSession, appVars
  <2>2. CASE AskOn \/ AskOff \/ OnEnds \/ OffEnds
    BY <2>2 DEF AskOn, AskOff, AskMotor, OnEnds, OffEnds, PulseEnds
  <2>3. CASE \E u \in Users, o \in MenuOptions : MenuStep(u, o)
    BY <2>3 DEF MenuStep
  <2>4. CASE \/ StartSession \/ SetTimeRead \/ SetTimeDone \/ ClockRead \/ Measured
             \/ StatusRead \/ Broadcast \/ BroadcastNext \/ AppIgnores
    BY <2>4
    DEF StartSession, SetTimeRead, SetTimeDone, ClockRead, Measured, StatusRead, Broadcast,
        BroadcastNext, AppIgnores, appVars
  <2>5. CASE Answered \/ TurnedAway
    BY <2>5 DEF Answered, TurnedAway, Leave
  <2> QED
    BY <2>1, <2>2, <2>3, <2>4, <2>5 DEF AppHandler
<1> QED
  BY <1>4, <1>5

(* On the way back one notification that was put off comes to the queue.   *)
LEMMA DeletedKeepsNotices ==
  ASSUME TypeOK, TypeOK', Deleted
  PROVE  Notices' >= Notices
<1> DEFINE q == queue["app"]
<1>1. /\ KernelType /\ current.ao = "app" /\ current.sig = "SMS_DELETE_DONE"
      /\ current' = Idle /\ NewsInHand = 0 /\ NewsInHand' = 0
  BY DEF TypeOK, Deleted, Handling, EnterIdle, Return, NewsInHand, Idle
<1>2. /\ q \in Seq(Events) /\ Event("SMS_NEW") \in Events
      /\ New(Event("SMS_NEW")) = 1
  BY <1>1, TwoQueues, PlainEventType, AppSignals DEF New, Event, EventPar
<1>3. /\ Notices = defered + NewsWaiting /\ Notices' = defered' + NewsWaiting'
      /\ NewsWaiting \in Nat /\ NewsWaiting' \in Nat /\ defered \in Nat /\ defered' \in Nat
  BY <1>1, NoticesAre, NoticesAreNext DEF NoticesCount
<1>4. CASE defered > 0
  <2>1. /\ defered' = defered - 1
        /\ queue'["app"] = Append(q, Event("SMS_NEW"))
    BY <1>1, <1>4, TwoQueues DEF Deleted, EnterIdle, Return, Post, KernelType, Queues
  <2>2. NewsWaiting' = NewsWaiting + 1
    BY <1>2, <2>1, NewsPosted DEF NewsWaiting
  <2> QED
    BY <1>3, <2>1, <2>2
<1>5. CASE ~(defered > 0)
  <2>1. defered' = defered /\ queue' = queue
    BY <1>5 DEF Deleted, EnterIdle, Return
  <2> QED
    BY <1>3, <2>1 DEF NewsWaiting
<1> QED
  BY <1>4, <1>5

(* The scheduler hands one over.                                           *)
LEMMA ScheduleKeepsNotices ==
  ASSUME TypeOK, TypeOK', Schedule
  PROVE  Notices' = Notices
<1> DEFINE q == queue["app"]
<1>1. PICK a \in Objects : Dispatch(a)
  BY DEF Schedule
<1>2. /\ q \in Seq(Events) /\ queue \in Queues /\ current = Idle /\ defered' = defered
      /\ NewsInHand = 0
  BY <1>1, TwoQueues DEF TypeOK, KernelType, Dispatch, Schedule, appVars, NewsInHand, Idle
<1>3. /\ Notices = defered + NewsWaiting /\ Notices' = defered + NewsWaiting' + NewsInHand'
      /\ NewsWaiting \in Nat /\ NewsWaiting' \in Nat /\ defered \in Nat
      /\ NewsInHand' \in {0, 1}
  BY <1>2, NoticesAre, NoticesAreNext DEF NoticesCount
<1>4. CASE a = "app"
  <2>1. /\ q # <<>> /\ queue'["app"] = Tail(q)
        /\ current'.ao = "app" /\ current'.sig = Head(q).sig
    BY <1>1, <1>2, <1>4 DEF Dispatch, Ready, Queues
  <2>2. NewsInHand' = New(Head(q))
    BY <2>1 DEF NewsInHand, New
  <2>3. NewsWaiting = NewsWaiting' + New(Head(q))
    BY <1>2, <2>1, NewsTaken DEF NewsWaiting
  <2> QED
    BY <1>3, <2>2, <2>3
<1>5. CASE a # "app"
  <2>1. queue'["app"] = q /\ current'.ao = a
    BY <1>1, <1>2, <1>5 DEF Dispatch, Queues
  <2>2. NewsInHand' = 0 /\ NewsWaiting' = NewsWaiting
    BY <1>5, <2>1 DEF NewsInHand, NewsWaiting
  <2> QED
    BY <1>3, <2>2
<1> QED
  BY <1>4, <1>5

LEMMA NoticesStep ==
  ASSUME TypeOK, TypeOK', [Next]_vars, app # "init"
  PROVE  Notices' >= Notices \/ app' = "reciever" \/ defered = Word - 1
<1>r. /\ Notices \in Nat
      /\ Notices = defered + NewsWaiting + NewsInHand
      /\ Notices' = defered' + NewsWaiting' + NewsInHand'
      /\ NewsWaiting \in Nat /\ NewsWaiting' \in Nat /\ NewsInHand \in {0, 1}
      /\ NewsInHand' \in {0, 1} /\ defered \in Nat /\ defered' \in Nat
  BY NoticesAre, NoticesAreNext DEF NoticesCount
<1>n. NewsInHand = 0 => NewsInHand' >= NewsInHand
  BY <1>r
<1>1. CASE Schedule
  <2>1. Notices' = Notices
    BY <1>1, ScheduleKeepsNotices
  <2>2. Notices \in Nat
    BY <1>r
  <2>3. Notices' >= Notices
    BY <2>1, <2>2
  <2> QED
    BY <2>3
<1>2. CASE GsmStep
  <2>1. Posted("app") /\ current.ao = "gsm" /\ defered' = defered
    BY <1>2, GsmPosts DEF GsmStep, appVars
  <2>2. NewsInHand = 0
    BY <2>1 DEF NewsInHand
  <2> QED
    BY <1>n, <2>1, <2>2, NoticesStay
<1>3. CASE Drivers \/ Link \/ GsmTick \/ AppTick \/ UNCHANGED vars
  <2>1. /\ Posted("app") /\ defered' = defered
        /\ current' = current \/ current.ao \in {"com", "emon"}
    BY <1>3, OthersPost
  <2>2. NewsInHand' = NewsInHand \/ NewsInHand = 0
    BY <2>1 DEF NewsInHand
  <2>3. NewsInHand' >= NewsInHand
    BY <1>r, <2>2
  <2> QED
    BY <2>1, <2>3, NoticesStay
<1>4. CASE AppStep
  <2>1. AppHandler /\ app \in AppStates /\ current.ao = "app" /\ defered < Word
    BY <1>4, AppHandlerReturns, WordType DEF AppStep, TypeOK, AppType
  <2>2. ~Registered
    BY DEF Registered
  <2>3. CASE Deleted
    BY <2>3, DeletedKeepsNotices
  <2>4. CASE current.sig # "SMS_NEW" /\ ~Deleted
    <3>1. NewsInHand = 0
      BY <2>4 DEF NewsInHand
    <3> QED
      BY <1>n, <2>1, <2>2, <2>4, <3>1, AppPosts, NoticesStay
  <2>5. CASE current.sig = "SMS_NEW"
    <3>1. CASE Recieve
      BY <3>1 DEF Recieve
    <3>2. CASE Defer
      <4>1. /\ defered' = (defered + 1) % Word
            /\ NewsWaiting' = NewsWaiting /\ NewsInHand = 1
        BY <2>1, <2>5, <3>2 DEF Defer, Ignore, Return, NewsWaiting, NewsInHand
      <4>2. defered # Word - 1 => (defered + 1) % Word = defered + 1
        BY <1>r, <2>1, WordType
      <4> QED
        BY <1>r, <4>1, <4>2
    <3>3. CASE AppIgnores
      <4>1. current.sig \in AppReacts(app)
        BY <2>1, <2>5, AppAssumption
        DEF AppReacts, AppStates, ActiveStates, ActionStates, MenuStates
      <4> QED
        BY <3>3, <4>1 DEF AppIgnores
    <3> QED
      BY <2>1, <2>5, <3>1, <3>2, <3>3
      DEF AppHandler, StartModem, ModemUp, NetworkDown, Registered, IdlePeriod, ActivePeriod,
          MessageFound, Reject, AskStatus, AskOn, AskOff, AskMotor, AskSession, MenuStep,
          MessageRead, StartSession, SetTimeRead, SetTimeDone, ClockRead, OnEnds, OffEnds,
          PulseEnds, Measured, StatusRead, Broadcast, BroadcastNext, Answered, TurnedAway,
          LeavesOn, Deleted, Handling
  <2> QED
    BY <2>3, <2>4, <2>5
<1> QED
  BY <1>1, <1>2, <1>3, <1>4 DEF Next

(* An application that is up loses no notification: whatever else happens, *)
(* a message put off, queued or in hand stays so until app_idle goes to    *)
(* fetch one.                                                              *)
THEOREM NoticesAreKept == Spec => NoticesKept
<1>1. TypeOK /\ TypeOK' /\ [Next]_vars =>
        [app # "init" /\ Notices' < Notices => app' = "reciever" \/ defered = Word - 1]_vars
  <2> SUFFICES ASSUME TypeOK, TypeOK', [Next]_vars, app # "init", Notices' < Notices
               PROVE  app' = "reciever" \/ defered = Word - 1
    OBVIOUS
  <2>1. Notices \in Nat /\ Notices' \in Nat
    BY NoticesAre, NoticesAreNext DEF NoticesCount
  <2> QED
    BY <2>1, NoticesStep
<1>2. Spec => []TypeOK
  BY TypeCorrect
<1> QED
  BY <1>1, <1>2, PTL DEF Spec, NoticesKept

=============================================================================
