------------------------------ MODULE Emon_proofs ------------------------------
(***************************************************************************)
(* The energy monitor, proved for every number of crossings and requests,  *)
(* with mains that stays or not: its types and the bound of its queue,     *)
(* where the supply voltage comes from, and that it implements             *)
(* EmonService: one answer for every request.                              *)
(***************************************************************************)
EXTENDS Emon, SequenceTheorems, TLAPS

-----------------------------------------------------------------------------
(* Short queues. *)

(* Taking the first event of a queue of at most three leaves the others.   *)
LEMMA ShortQueues ==
  ASSUME NEW a, NEW b, NEW c
  PROVE  /\ <<a>> # <<>> /\ <<a, b>> # <<>> /\ <<a, b, c>> # <<>>
         /\ Head(<<a>>) = a /\ Head(<<a, b>>) = a /\ Head(<<a, b, c>>) = a
         /\ Tail(<<a>>) = <<>> /\ Tail(<<a, b>>) = <<b>> /\ Tail(<<a, b, c>>) = <<b, c>>
OBVIOUS

(* An event is put behind those that wait. *)
LEMMA AppendToShort ==
  ASSUME NEW a, NEW b, NEW c
  PROVE  /\ Append(<<>>, a) = <<a>>
         /\ Append(<<a>>, b) = <<a, b>>
         /\ Append(<<a, b>>, c) = <<a, b, c>>
<1> DEFINE S == {a, b, c}
<1>1. <<a>> \in Seq(S) /\ <<a, b>> \in Seq(S) /\ <<a, b, c>> \in Seq(S)
  OBVIOUS
<1>2. Append(<<a>>, b) = <<a, b>>
  <2>1. /\ Append(<<a>>, b) \in Seq(S) /\ Len(Append(<<a>>, b)) = 2
        /\ Append(<<a>>, b)[1] = a /\ Append(<<a>>, b)[2] = b
    BY <1>1, AppendProperties
  <2>2. \A i \in 1 .. 2 : Append(<<a>>, b)[i] = <<a, b>>[i]
    BY <2>1
  <2> QED
    BY <1>1, <2>1, <2>2, SeqEqual
<1>3. Append(<<a, b>>, c) = <<a, b, c>>
  <2>1. /\ Append(<<a, b>>, c) \in Seq(S) /\ Len(Append(<<a, b>>, c)) = 3
        /\ Append(<<a, b>>, c)[1] = a /\ Append(<<a, b>>, c)[2] = b
        /\ Append(<<a, b>>, c)[3] = c
    BY <1>1, AppendProperties
  <2>2. \A i \in 1 .. 3 : Append(<<a, b>>, c)[i] = <<a, b, c>>[i]
    BY <2>1
  <2> QED
    BY <1>1, <2>1, <2>2, SeqEqual
<1> QED
  BY <1>2, <1>3

-----------------------------------------------------------------------------
(* The invariant: the phases of a measurement. *)

(* The object waits for one thing at a time: an event it has sent itself,  *)
(* a time-out, or a conversion.                                            *)
WaitsFor(e) == queue = <<e>> /\ converting = "none"
Converting(channel) ==
  \/ queue = <<>> /\ converting = channel
  \/ WaitsFor(Complete(channel))

(* Only when the timer runs beside the conversions is there a time-out     *)
(* before or behind one.                                                   *)
TimedOut ==
  \/ queue = <<Event("TIMEOUT")>> /\ converting = "pin"
  \/ queue = <<Event("TIMEOUT"), Complete("pin")>> /\ converting = "none"
  \/ queue = <<Complete("pin"), Event("TIMEOUT")>> /\ converting = "none"

(* What a measurement leaves behind; after an error, a conversion that may *)
(* still be under way.                                                     *)
Resting ==
  /\ state = "idle" /\ timer = "off" /\ requests = answers
  /\ \/ queue = <<>> /\ converting \in {"none", "pin"} /\ (converting = "pin" => erred)
     \/ queue = <<Complete("pin")>> /\ converting = "none"
     \/ queue = <<Event("TIMEOUT"), Complete("pin")>> /\ converting = "none"

Asked ==
  /\ state = "idle" /\ timer = "off" /\ requests = answers + 1 /\ converting = "none"
  /\ \/ queue = <<Event("READ_ENTITY")>>
     \/ queue = <<Complete("pin"), Event("READ_ENTITY")>>
     \/ queue = <<Event("TIMEOUT"), Complete("pin"), Event("READ_ENTITY")>>

Started ==
  /\ state = "read_entity" /\ timer = "off" /\ requests = answers + 1
  /\ WaitsFor(Event("START"))

(* The reference settles, is converted, and the voltage computed.          *)
ReadingVcc ==
  /\ state = "read_vcc" /\ requests = answers + 1
  /\ \/ timer = "read_vcc" /\ queue = <<>> /\ converting = "none"
     \/ timer = "off" /\ WaitsFor(Event("TIMEOUT"))
     \/ timer = "off" /\ Converting("vcc")
     \/ timer = "off" /\ WaitsFor(Event("VCC_READ_DONE"))

Seeking ==
  /\ state = "zero_crossing" /\ requests = answers + 1
  /\ \/ timer = "zero_crossing" /\ Converting("pin")
     \/ timer = "off" /\ TimedOut

(* The zero crossing is found; its time-out may have come meanwhile.       *)
Found ==
  /\ state = "read_entity" /\ timer = "off" /\ requests = answers + 1 /\ converting = "none"
  /\ queue \in {<<Event("ZERO_CROSS_FOUND")>>,
                <<Event("TIMEOUT"), Event("ZERO_CROSS_FOUND")>>}

Sampling ==
  /\ state = "read_entity" /\ requests = answers + 1
  /\ \/ timer \in {"off", "read_entity"} /\ Converting("pin")
     \/ timer = "off" /\ TimedOut

Phase == Resting \/ Asked \/ Started \/ ReadingVcc \/ Seeking \/ Found \/ Sampling

(* The counters, and the channel of the supply voltage.                    *)
Counters ==
  /\ samples \in 0 .. Crossings + 1 /\ crossCount \in 0 .. Crossings
  /\ answers \in Nat /\ requests \in 0 .. MaxRequests
  /\ vcc \in {"none", "vcc"}

EmonInv == Phase /\ Counters /\ erred \in BOOLEAN

-----------------------------------------------------------------------------
(* The steps. *)

LEMMA InitInv ==
  ASSUME EmonInit
  PROVE  EmonInv
<1>1. Resting
  BY DEF EmonInit, Resting
<1>2. Counters
  BY EmonAssumption DEF EmonInit, Counters
<1> QED
  BY <1>1, <1>2 DEF EmonInit, EmonInv, Phase

(* The application asks when the object rests. *)
LEMMA ReadEntityInv ==
  ASSUME EmonInv, ReadEntity
  PROVE  EmonInv'
<1>1. Resting
  BY DEF EmonInv, Phase, ReadEntity, Resting, Asked, Started, ReadingVcc, Seeking, Found, Sampling,
         Counters
<1>2. Asked'
  BY <1>1, AppendToShort, ZenonT(40) DEF Resting, ReadEntity, Asked, EmonInv, Counters
<1>3. Counters' /\ erred' \in BOOLEAN
  BY EmonAssumption DEF ReadEntity, EmonInv, Counters, countVars
<1> QED
  BY <1>2, <1>3 DEF EmonInv, Phase

(* The timer runs while the reference settles, zero is sought and the      *)
(* mains is sampled.                                                       *)
LEMMA TickInv ==
  ASSUME EmonInv, Tick
  PROVE  EmonInv'
<1>1. Counters' /\ erred' \in BOOLEAN
  BY DEF Tick, EmonInv, Counters, countVars, clientVars
<1>2. CASE ReadingVcc
  <2>1. queue = <<>> /\ converting = "none"
    BY <1>2 DEF ReadingVcc, Tick
  <2>2. ReadingVcc'
    BY <1>2, <2>1, AppendToShort DEF ReadingVcc, Tick, WaitsFor, clientVars
  <2> QED
    BY <1>1, <2>2 DEF EmonInv, Phase
<1>3. ASSUME Converting("pin")
      PROVE  TimedOut'
  BY <1>3, AppendToShort DEF Converting, WaitsFor, TimedOut, Tick
<1>4. CASE Seeking
  <2>1. Seeking'
    BY <1>3, <1>4 DEF Seeking, Tick, clientVars
  <2> QED
    BY <1>1, <2>1 DEF EmonInv, Phase
<1>5. CASE Sampling
  <2>1. Sampling'
    BY <1>3, <1>5 DEF Sampling, Tick, clientVars
  <2> QED
    BY <1>1, <2>1 DEF EmonInv, Phase
<1> QED
  BY <1>2, <1>4, <1>5 DEF EmonInv, Phase, Tick, Resting, Asked, Started, Found

(* A conversion ends: the interrupt posts its event. *)
LEMMA ConvertedInv ==
  ASSUME EmonInv, Converted
  PROVE  EmonInv'
<1>1. Counters' /\ erred' \in BOOLEAN
  BY DEF Converted, EmonInv, Counters, countVars, clientVars
<1>2. CASE Resting
  <2>1. Resting'
    BY <1>2, AppendToShort DEF Resting, Converted, clientVars
  <2> QED
    BY <1>1, <2>1 DEF EmonInv, Phase
<1>3. ASSUME NEW channel, channel # "none", Converting(channel)
      PROVE  Converting(channel)'
  BY <1>3, AppendToShort DEF Converting, WaitsFor, Converted
<1>4. ASSUME TimedOut
      PROVE  TimedOut'
  BY <1>4, AppendToShort DEF TimedOut, Converted
<1>5. CASE ReadingVcc
  <2>1. ReadingVcc'
    BY <1>3, <1>5 DEF ReadingVcc, WaitsFor, Converted, clientVars
  <2> QED
    BY <1>1, <2>1 DEF EmonInv, Phase
<1>6. CASE Seeking
  <2>1. Seeking'
    BY <1>3, <1>4, <1>6 DEF Seeking, Converted, clientVars
  <2> QED
    BY <1>1, <2>1 DEF EmonInv, Phase
<1>7. CASE Sampling
  <2>1. Sampling'
    BY <1>3, <1>4, <1>7 DEF Sampling, Converted, clientVars
  <2> QED
    BY <1>1, <2>1 DEF EmonInv, Phase
<1> QED
  BY <1>2, <1>5, <1>6, <1>7
     DEF EmonInv, Phase, Converted, Asked, Started, WaitsFor, Found

(* What Head and Tail are of the queues of the phases. *)
LEMMA Heads ==
  /\ \A e : WaitsFor(e) => Head(queue) = e /\ Tail(queue) = <<>> /\ converting = "none"
  /\ \A channel : Converting(channel) /\ queue # <<>> =>
       Head(queue) = Complete(channel) /\ Tail(queue) = <<>> /\ converting = "none"
  /\ TimedOut =>
       \/ /\ Head(queue) = Event("TIMEOUT") /\ Tail(queue) = <<>> /\ converting = "pin"
       \/ /\ Head(queue) = Event("TIMEOUT") /\ Tail(queue) = <<Complete("pin")>>
          /\ converting = "none"
       \/ /\ Head(queue) = Complete("pin") /\ Tail(queue) = <<Event("TIMEOUT")>>
          /\ converting = "none"
<1>1. ASSUME NEW e, WaitsFor(e)
      PROVE  Head(queue) = e /\ Tail(queue) = <<>> /\ converting = "none"
  BY <1>1, ShortQueues DEF WaitsFor
<1>2. ASSUME NEW channel, Converting(channel), queue # <<>>
      PROVE  Head(queue) = Complete(channel) /\ Tail(queue) = <<>> /\ converting = "none"
  BY <1>1, <1>2 DEF Converting
<1>3. CASE queue = <<Event("TIMEOUT")>> /\ converting = "pin"
  <2>1. Head(queue) = Event("TIMEOUT") /\ Tail(queue) = <<>>
    BY <1>3, ShortQueues
  <2> QED
    BY <1>1, <1>2, <1>3, <2>1
<1>4. CASE queue = <<Event("TIMEOUT"), Complete("pin")>> /\ converting = "none"
  <2>1. Head(queue) = Event("TIMEOUT") /\ Tail(queue) = <<Complete("pin")>>
    BY <1>4, ShortQueues
  <2> QED
    BY <1>1, <1>2, <1>4, <2>1
<1>5. CASE queue = <<Complete("pin"), Event("TIMEOUT")>> /\ converting = "none"
  <2>1. Head(queue) = Complete("pin") /\ Tail(queue) = <<Event("TIMEOUT")>>
    BY <1>5, ShortQueues
  <2> QED
    BY <1>1, <1>2, <1>5, <2>1
<1> QED
  BY <1>1, <1>2, <1>3, <1>4, <1>5 DEF TimedOut

LEMMA IdleHeads ==
  ASSUME queue # <<>>
  PROVE  /\ Resting => \/ Head(queue) = Complete("pin") /\ Tail(queue) = <<>>
                       \/ Head(queue) = Event("TIMEOUT") /\ Tail(queue) = <<Complete("pin")>>
         /\ Asked => \/ Head(queue) = Event("READ_ENTITY") /\ Tail(queue) = <<>>
                     \/ /\ Head(queue) = Complete("pin")
                        /\ Tail(queue) = <<Event("READ_ENTITY")>>
                     \/ /\ Head(queue) = Event("TIMEOUT")
                        /\ Tail(queue) = <<Complete("pin"), Event("READ_ENTITY")>>
         /\ Found => \/ Head(queue) = Event("ZERO_CROSS_FOUND") /\ Tail(queue) = <<>>
                     \/ /\ Head(queue) = Event("TIMEOUT")
                        /\ Tail(queue) = <<Event("ZERO_CROSS_FOUND")>>
<1> DEFINE C == Complete("pin")
           T == Event("TIMEOUT")
           R == Event("READ_ENTITY")
           Z == Event("ZERO_CROSS_FOUND")
<1>1. ASSUME NEW a, queue = <<a>>
      PROVE  Head(queue) = a /\ Tail(queue) = <<>>
  BY <1>1, ShortQueues
<1>2. ASSUME NEW a, NEW b, queue = <<a, b>>
      PROVE  Head(queue) = a /\ Tail(queue) = <<b>>
  BY <1>2, ShortQueues
<1>3. ASSUME NEW a, NEW b, NEW c, queue = <<a, b, c>>
      PROVE  Head(queue) = a /\ Tail(queue) = <<b, c>>
  BY <1>3, ShortQueues
<1>4. Resting => queue = <<C>> \/ queue = <<T, C>>
  BY DEF Resting
<1>5. Asked => queue = <<R>> \/ queue = <<C, R>> \/ queue = <<T, C, R>>
  BY DEF Asked
<1>6. Found => queue = <<Z>> \/ queue = <<T, Z>>
  BY DEF Found
<1> HIDE DEF C, T, R, Z
<1>7. Resting => \/ Head(queue) = C /\ Tail(queue) = <<>>
                 \/ Head(queue) = T /\ Tail(queue) = <<C>>
  BY <1>1, <1>2, <1>4, Zenon
<1>8. Asked => \/ Head(queue) = R /\ Tail(queue) = <<>>
               \/ Head(queue) = C /\ Tail(queue) = <<R>>
               \/ Head(queue) = T /\ Tail(queue) = <<C, R>>
  BY <1>1, <1>2, <1>3, <1>5, Zenon
<1>9. Found => \/ Head(queue) = Z /\ Tail(queue) = <<>>
               \/ Head(queue) = T /\ Tail(queue) = <<Z>>
  BY <1>1, <1>2, <1>6, Zenon
<1> QED
  BY <1>7, <1>8, <1>9 DEF C, T, R, Z

LEMMA Signals ==
  /\ \A sig : Event(sig).sig = sig
  /\ \A channel : Complete(channel).sig = "COMPLETE" /\ Complete(channel).par = channel
BY DEF Event, Complete

(* Each handler takes its event in one phase, and leaves the same or the   *)
(* next.                                                                   *)
LEMMA BeginInv ==
  ASSUME EmonInv, Begin
  PROVE  EmonInv' /\ UNCHANGED <<requests, answers>>
<1>1. Asked /\ Tail(queue) = <<>>
  BY Heads, IdleHeads, Signals
     DEF EmonInv, Phase, Resting, Asked, Started, ReadingVcc, Seeking, Found, Sampling, Takes, Begin
<1>2. Started'
  BY <1>1, AppendToShort DEF Begin, Asked, Started, WaitsFor, clientVars
<1>3. Counters' /\ erred' \in BOOLEAN
  BY EmonAssumption DEF Begin, EmonInv, Counters, clientVars
<1> QED
  BY <1>2, <1>3 DEF EmonInv, Phase, Begin, clientVars

LEMMA SelectVccInv ==
  ASSUME EmonInv, SelectVcc
  PROVE  EmonInv' /\ UNCHANGED <<requests, answers>>
<1>1. Started /\ Tail(queue) = <<>>
  BY Heads, IdleHeads, Signals
     DEF EmonInv, Phase, Resting, Asked, Started, ReadingVcc, Seeking, Found, Sampling, Takes, SelectVcc
<1>2. ReadingVcc'
  BY <1>1, AppendToShort DEF SelectVcc, Started, ReadingVcc, WaitsFor, clientVars
<1>3. Counters' /\ erred' \in BOOLEAN
  BY <1>1 DEF SelectVcc, EmonInv, Counters, countVars, clientVars
<1> QED
  BY <1>2, <1>3 DEF EmonInv, Phase, SelectVcc, clientVars

LEMMA ReadVccInv ==
  ASSUME EmonInv, ReadVcc
  PROVE  EmonInv' /\ UNCHANGED <<requests, answers>>
<1>1. ReadingVcc /\ converting = "none" /\ Tail(queue) = <<>>
  BY Heads, IdleHeads, Signals
     DEF EmonInv, Phase, Resting, Asked, Started, ReadingVcc, Seeking, Found, Sampling, Takes, ReadVcc
<1>2. ReadingVcc'
  BY <1>1, AppendToShort DEF ReadVcc, AdcRead, ReadingVcc, Converting, clientVars
<1>3. Counters' /\ erred' \in BOOLEAN
  BY <1>1 DEF ReadVcc, EmonInv, Counters, countVars, clientVars
<1> QED
  BY <1>2, <1>3 DEF EmonInv, Phase, ReadVcc, clientVars

(* The conversion that is read is one of the reference. *)
LEMMA VccReadInv ==
  ASSUME EmonInv, VccRead
  PROVE  EmonInv' /\ UNCHANGED <<requests, answers>>
<1>1. ReadingVcc /\ timer = "off" /\ WaitsFor(Complete("vcc")) /\ Tail(queue) = <<>>
  <2>1. ReadingVcc
    BY DEF VccRead, Takes, EmonInv, Phase, Resting, Asked, Started, Seeking, Found, Sampling
  <2>2. queue # <<>> /\ Head(queue).sig = "COMPLETE"
    BY DEF VccRead, Takes
  <2>3. timer = "off" /\ Converting("vcc")
    BY <2>1, <2>2, Heads, Signals DEF ReadingVcc
  <2> QED
    BY <2>1, <2>2, <2>3, Heads DEF Converting
<1>2. ReadingVcc'
  BY <1>1, AppendToShort DEF VccRead, ReadingVcc, WaitsFor, clientVars
<1>3. Counters' /\ erred' \in BOOLEAN
  BY <1>1, ShortQueues DEF VccRead, EmonInv, Counters, WaitsFor, Complete, countVars, clientVars
<1> QED
  BY <1>2, <1>3 DEF EmonInv, Phase, VccRead, clientVars

LEMMA SeekZeroInv ==
  ASSUME EmonInv, SeekZero
  PROVE  EmonInv' /\ UNCHANGED <<requests, answers>>
<1>1. ReadingVcc /\ converting = "none" /\ Tail(queue) = <<>>
  BY Heads, IdleHeads, Signals
     DEF EmonInv, Phase, Resting, Asked, Started, ReadingVcc, Seeking, Found, Sampling, Takes, SeekZero
<1>2. Seeking'
  BY <1>1, AppendToShort DEF SeekZero, AdcRead, ReadingVcc, Seeking, Converting, clientVars
<1>3. Counters' /\ erred' \in BOOLEAN
  BY <1>1 DEF SeekZero, EmonInv, Counters, countVars, clientVars
<1> QED
  BY <1>2, <1>3 DEF EmonInv, Phase, SeekZero, clientVars

(* A conversion that is not the last has another started behind it.       *)
LEMMA NotZeroInv ==
  ASSUME EmonInv, NotZero
  PROVE  EmonInv' /\ UNCHANGED <<requests, answers>>
<1>1. /\ Seeking /\ converting = "none"
      /\ \/ timer = "zero_crossing" /\ Tail(queue) = <<>>
         \/ timer = "off" /\ Tail(queue) = <<Event("TIMEOUT")>>
  BY Heads, IdleHeads, Signals
     DEF EmonInv, Phase, Resting, Asked, Started, ReadingVcc, Seeking, Found, Sampling, Takes, NotZero
<1>2. Seeking'
  BY <1>1, AppendToShort DEF NotZero, AdcRead, Seeking, Converting, TimedOut, clientVars
<1>3. Counters' /\ erred' \in BOOLEAN
  BY <1>1 DEF NotZero, EmonInv, Counters, countVars, clientVars
<1> QED
  BY <1>2, <1>3 DEF EmonInv, Phase, NotZero, clientVars

LEMMA ZeroInv ==
  ASSUME EmonInv, Zero
  PROVE  EmonInv' /\ UNCHANGED <<requests, answers>>
<1>1. /\ Seeking /\ converting = "none"
      /\ \/ timer = "zero_crossing" /\ Tail(queue) = <<>>
         \/ timer = "off" /\ Tail(queue) = <<Event("TIMEOUT")>>
  BY Heads, IdleHeads, Signals
     DEF EmonInv, Phase, Resting, Asked, Started, ReadingVcc, Seeking, Found, Sampling, Takes, Zero
<1>2. Found'
  BY <1>1, AppendToShort DEF Zero, Seeking, Found, clientVars
<1>3. Counters' /\ erred' \in BOOLEAN
  BY <1>1 DEF Zero, EmonInv, Counters, countVars, clientVars
<1> QED
  BY <1>2, <1>3 DEF EmonInv, Phase, Zero, clientVars

(* An answer is owed when it is sent. *)
LEMMA NoZeroInv ==
  ASSUME EmonInv, NoZero
  PROVE  EmonInv' /\ answers < requests /\ answers' = answers + 1 /\ requests' = requests
<1>1. /\ Seeking
      /\ \/ converting = "pin" /\ Tail(queue) = <<>>
         \/ converting = "none" /\ Tail(queue) = <<Complete("pin")>>
  BY Heads, IdleHeads, Signals
     DEF EmonInv, Phase, Resting, Asked, Started, ReadingVcc, Seeking, Found, Sampling, Takes, NoZero
<1>2. Resting'
  BY <1>1, AppendToShort DEF NoZero, Seeking, Resting, clientVars
<1>3. Counters' /\ erred' \in BOOLEAN
  BY <1>1 DEF NoZero, EmonInv, Counters, countVars, clientVars
<1>4. answers < requests
  BY <1>1 DEF Seeking, EmonInv, Counters
<1> QED
  BY <1>2, <1>3, <1>4 DEF EmonInv, Phase, NoZero, clientVars

LEMMA BeginSamplesInv ==
  ASSUME EmonInv, BeginSamples
  PROVE  EmonInv' /\ UNCHANGED <<requests, answers>>
<1>1. Found /\ converting = "none" /\ Tail(queue) = <<>>
  BY Heads, IdleHeads, Signals
     DEF EmonInv, Phase, Resting, Asked, Started, ReadingVcc, Seeking, Found, Sampling, Takes, BeginSamples
<1>2. Sampling'
  BY <1>1, AppendToShort DEF BeginSamples, AdcRead, Found, Sampling, Converting, clientVars
<1>3. Counters' /\ erred' \in BOOLEAN
  BY <1>1 DEF BeginSamples, EmonInv, Counters, countVars, clientVars
<1> QED
  BY <1>2, <1>3 DEF EmonInv, Phase, BeginSamples, clientVars

LEMMA SampleInv ==
  ASSUME EmonInv, Sample
  PROVE  EmonInv' /\ UNCHANGED <<requests, answers>>
<1>1. /\ Sampling /\ converting = "none"
      /\ \/ timer \in {"off", "read_entity"} /\ Tail(queue) = <<>>
         \/ timer = "off" /\ Tail(queue) = <<Event("TIMEOUT")>>
  BY Heads, IdleHeads, Signals
     DEF EmonInv, Phase, Resting, Asked, Started, ReadingVcc, Seeking, Found, Sampling, Takes, Counted, Sample
<1>2. Sampling'
  BY <1>1, AppendToShort DEF Sample, AdcRead, Sampling, Converting, TimedOut, clientVars
<1>3. Counters' /\ erred' \in BOOLEAN
  BY <1>1, EmonAssumption DEF Sample, EmonInv, Counters, Counted, clientVars
<1> QED
  BY <1>2, <1>3 DEF EmonInv, Phase, Sample, clientVars

LEMMA LastSampleInv ==
  ASSUME EmonInv, LastSample
  PROVE  EmonInv' /\ answers < requests /\ answers' = answers + 1 /\ requests' = requests
<1>1. /\ Sampling /\ converting = "none"
      /\ \/ timer \in {"off", "read_entity"} /\ Tail(queue) = <<>>
         \/ timer = "off" /\ Tail(queue) = <<Event("TIMEOUT")>>
  BY Heads, IdleHeads, Signals
     DEF EmonInv, Phase, Resting, Asked, Started, ReadingVcc, Seeking, Found, Sampling, Takes, Counted, LastSample
<1>2. Resting'
  BY <1>1, AppendToShort DEF LastSample, Sampling, Resting, clientVars
<1>3. Counters'
  BY <1>1, EmonAssumption DEF LastSample, EmonInv, Counters, Counted, Sampling
<1>4. answers < requests
  BY <1>1 DEF Sampling, EmonInv, Counters
<1>5. erred' \in BOOLEAN
  BY DEF LastSample
<1> QED
  BY <1>2, <1>3, <1>4, <1>5 DEF EmonInv, Phase, LastSample, clientVars

LEMMA SamplesOverInv ==
  ASSUME EmonInv, SamplesOver
  PROVE  EmonInv' /\ UNCHANGED <<requests, answers>>
<1>1. /\ timer = "off"
      /\ \/ Found /\ converting = "none" /\ Tail(queue) = <<Event("ZERO_CROSS_FOUND")>>
         \/ Sampling /\ converting = "pin" /\ Tail(queue) = <<>>
         \/ Sampling /\ converting = "none" /\ Tail(queue) = <<Complete("pin")>>
  BY Heads, IdleHeads, Signals
     DEF EmonInv, Phase, Resting, Asked, Started, ReadingVcc, Seeking, Found, Sampling, Takes, SamplesOver
<1>2. (Found \/ Sampling)'
  BY <1>1, AppendToShort DEF SamplesOver, Found, Sampling, Converting, WaitsFor, clientVars
<1>3. Counters' /\ erred' \in BOOLEAN
  BY <1>1, EmonAssumption DEF SamplesOver, EmonInv, Counters, clientVars
<1> QED
  BY <1>2, <1>3 DEF EmonInv, Phase, SamplesOver, clientVars

LEMMA IgnoreInv ==
  ASSUME EmonInv, Ignore
  PROVE  EmonInv' /\ UNCHANGED <<requests, answers>>
<1>1. \/ Resting /\ Tail(queue) \in {<<>>, <<Complete("pin")>>} /\ converting = "none"
      \/ Asked /\ Tail(queue) \in {<<Event("READ_ENTITY")>>, <<Complete("pin"), Event("READ_ENTITY")>>}
  BY Heads, IdleHeads, Signals
     DEF EmonInv, Phase, Resting, Asked, Started, ReadingVcc, Seeking, Found, Sampling, Takes, Ignore
<1>2. (Resting \/ Asked)'
  BY <1>1, AppendToShort DEF Ignore, Resting, Asked, clientVars
<1>3. Counters' /\ erred' \in BOOLEAN
  BY <1>1 DEF Ignore, EmonInv, Counters, countVars, clientVars
<1> QED
  BY <1>2, <1>3 DEF EmonInv, Phase, Ignore, clientVars

LEMMA NextInv ==
  ASSUME EmonInv, [EmonNext]_emonVars
  PROVE  EmonInv'
<1>1. CASE UNCHANGED emonVars
  BY <1>1 DEF emonVars, countVars, clientVars, EmonInv, Phase, Resting, Asked, Started, ReadingVcc,
              Seeking, Found, Sampling, Converting, WaitsFor, TimedOut, Counters
<1> QED
  BY <1>1, ReadEntityInv, TickInv, ConvertedInv, BeginInv, SelectVccInv, ReadVccInv, VccReadInv,
     SeekZeroInv, NotZeroInv, ZeroInv, NoZeroInv, BeginSamplesInv, SampleInv, LastSampleInv,
     SamplesOverInv, IgnoreInv
     DEF EmonNext, Handlers

LEMMA EmonInvariant == EmonSpec => []EmonInv
BY InitInv, NextInv, PTL DEF EmonSpec

-----------------------------------------------------------------------------
(* What follows. *)

(* Every event, counter and flag has its type, and the queue of three is   *)
(* never asked to hold a fourth event: QActive_post would stop the device. *)
THEOREM EmonTypesHold == EmonSpec => []EmonTypeOK
<1>1. EmonInv => EmonTypeOK
  <2> SUFFICES ASSUME EmonInv
               PROVE  EmonTypeOK
    OBVIOUS
  <2> DEFINE Events == [sig : {"READ_ENTITY", "START", "TIMEOUT", "COMPLETE", "VCC_READ_DONE",
                               "ZERO_CROSS_FOUND"}, par : {"none", "pin", "vcc"}]
  <2>1. /\ \A sig \in {"READ_ENTITY", "START", "TIMEOUT", "VCC_READ_DONE", "ZERO_CROSS_FOUND"} :
             Event(sig) \in Events
        /\ \A channel \in {"pin", "vcc"} : Complete(channel) \in Events
    BY DEF Event, Complete
  <2> HIDE DEF Events
  <2>2. ASSUME NEW a \in Events, NEW b \in Events, NEW c \in Events
        PROVE  /\ <<>> \in Seq(Events) /\ Len(<<>>) <= 3
               /\ <<a>> \in Seq(Events) /\ Len(<<a>>) <= 3
               /\ <<a, b>> \in Seq(Events) /\ Len(<<a, b>>) <= 3
               /\ <<a, b, c>> \in Seq(Events) /\ Len(<<a, b, c>>) <= 3
    OBVIOUS
  <2>3. PICK a \in Events, b \in Events, c \in Events :
          queue = <<>> \/ queue = <<a>> \/ queue = <<a, b>> \/ queue = <<a, b, c>>
    <3>1. CASE Resting \/ Asked \/ Found
      BY <2>1, <3>1, Zenon DEF Resting, Asked, Found
    <3>2. CASE Started \/ ReadingVcc
      BY <2>1, <3>2, Zenon DEF Started, ReadingVcc, Converting, WaitsFor
    <3>3. CASE Seeking \/ Sampling
      BY <2>1, <3>3, Zenon DEF Seeking, Sampling, Converting, WaitsFor, TimedOut
    <3> QED
      BY <3>1, <3>2, <3>3 DEF EmonInv, Phase
  <2>4. queue \in Seq(Events) /\ Len(queue) <= 3
    BY <2>2, <2>3, Zenon
  <2>5. /\ state \in {"idle"} \cup Active /\ timer \in {"off"} \cup Active
        /\ converting \in {"none", "pin", "vcc"}
    BY DEF EmonInv, Phase, Resting, Asked, Started, ReadingVcc, Seeking, Found, Sampling,
           Converting, WaitsFor, TimedOut, Active
  <2>6. answers \in 0 .. MaxRequests
    BY EmonAssumption DEF EmonInv, Phase, Resting, Asked, Started, ReadingVcc, Seeking, Found,
                          Sampling, Counters
  <2> QED
    BY <2>4, <2>5, <2>6 DEF Events, EmonTypeOK, EmonInv, Counters
<1> QED
  BY <1>1, EmonInvariant, PTL

(* The supply voltage is computed from a conversion of the reference: no   *)
(* conversion of the mains is left when read_vcc takes its COMPLETE.       *)
THEOREM VccIsTheReference == EmonSpec => []VccFromReference
<1>1. EmonInv => VccFromReference
  BY DEF EmonInv, Counters, VccFromReference
<1> QED
  BY <1>1, EmonInvariant, PTL

(* The monitor implements EmonService: each request is answered once, by   *)
(* its own measurement or its error, and by nothing an earlier one left.   *)
THEOREM EmonImplementsService == EmonSpec => AnswersOnce
<1>1. EmonInit => Service!ServiceInit
  BY DEF EmonInit, Service!ServiceInit
<1>2. EmonInv /\ [EmonNext]_emonVars
        => [Service!Request \/ Service!Answer]_Service!serviceVars
  <2> SUFFICES ASSUME EmonInv, [EmonNext]_emonVars
               PROVE  [Service!Request \/ Service!Answer]_Service!serviceVars
    OBVIOUS
  <2>1. CASE ReadEntity
    BY <2>1 DEF ReadEntity, Service!Request
  <2>2. CASE NoZero \/ LastSample
    BY <2>2, NoZeroInv, LastSampleInv DEF Service!Answer
  <2>3. CASE UNCHANGED <<requests, answers>>
    BY <2>3 DEF Service!serviceVars
  <2>4. CASE Tick \/ Converted \/ UNCHANGED emonVars
    BY <2>3, <2>4 DEF Tick, Converted, emonVars, clientVars
  <2> QED
    BY <2>1, <2>2, <2>3, <2>4, BeginInv, SelectVccInv, ReadVccInv, VccReadInv, SeekZeroInv,
       NotZeroInv, ZeroInv, BeginSamplesInv, SampleInv, SamplesOverInv, IgnoreInv
       DEF EmonNext, Handlers
<1> QED
  BY <1>1, <1>2, EmonInvariant, PTL DEF EmonSpec, AnswersOnce, Service!ServiceSpec
=============================================================================
