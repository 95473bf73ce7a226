-------------------------------- MODULE Emon --------------------------------
(***************************************************************************)
(* The energy monitor: a request has it read the supply voltage, wait for  *)
(* the mains to cross zero, and sample the mains over a number of half     *)
(* waves, one conversion of the ADC after the other, each step with a      *)
(* time-out.  A sample is reduced to whether it is near zero, and whether  *)
(* it lies on the other side of the first than the one before.             *)
(***************************************************************************)
EXTENDS Naturals, Sequences

CONSTANTS
  Crossings,     \* EMON_CROSSINGS
  MaxRequests,   \* bound: requests of the application
  MainsStays     \* once it has crossed zero, the mains goes on doing so

ASSUME EmonAssumption ==
  Crossings \in Nat \ {0} /\ MaxRequests \in Nat /\ MainsStays \in BOOLEAN

VARIABLES
  state,        \* the state of the object
  queue,        \* its event queue, of 3
  timer,        \* the state that armed its timer, or "off"
  converting,   \* the channel the ADC converts, "pin" or "vcc", or "none"
  samples,      \* emon_vars.numberOfSamples, up to Crossings + 1
  crossCount,   \* emon_vars.crossCount
  vcc,          \* the channel emon_vars.vcc was computed from
  requests,     \* READ_ENTITY events the application has sent
  answers,      \* MEASUREMENT_DONE and EMON_ERROR events sent to it
  erred         \* the last of them was EMON_ERROR

countVars == <<samples, crossCount>>
clientVars == <<requests, answers, erred>>
emonVars == <<state, queue, timer, converting, countVars, vcc, clientVars>>

Event(sig) == [sig |-> sig, par |-> "none"]
Complete(channel) == [sig |-> "COMPLETE", par |-> channel]

EmonInit ==
  /\ state = "idle" /\ queue = <<>> /\ timer = "off" /\ converting = "none"
  /\ samples = 0 /\ crossCount = 0 /\ vcc = "none"
  /\ requests = 0 /\ answers = 0 /\ erred = FALSE

(* The object takes an event in a state; read_vcc and zero_crossing are    *)
(* sub-states of read_entity, and that is one of idle.                     *)
Takes(sig, states) ==
  /\ queue # <<>> /\ Head(queue).sig = sig
  /\ state \in states

Active == {"read_entity", "read_vcc", "zero_crossing"}

(* adc_read; a conversion that is running is not started over.             *)
AdcRead(channel) == converting' = IF converting = "none" THEN channel ELSE converting

-----------------------------------------------------------------------------
(* The application, the timer and the ADC. *)

(* The next line is asked for as soon as one is measured; after an error   *)
(* the application sends nothing before the next message.                  *)
ReadEntity ==
  /\ requests = answers /\ requests < MaxRequests
  /\ erred => queue = <<>> /\ converting = "none"
  /\ requests' = requests + 1
  /\ queue' = Append(queue, Event("READ_ENTITY"))
  /\ UNCHANGED <<state, timer, converting, countVars, vcc, answers, erred>>

(* Mutant: the timer goes on. *)
TickPeriodic ==
  /\ timer # "off" /\ (timer = "read_entity" => ~MainsStays)
  /\ queue' = Append(queue, Event("TIMEOUT"))
  /\ UNCHANGED <<state, timer, converting, countVars, vcc, clientVars>>

(* Ten waves take a fifth of a second, and the samples have two.           *)
Tick ==
  /\ timer # "off" /\ (timer = "read_entity" => ~MainsStays)
  /\ timer' = "off"
  /\ queue' = Append(queue, Event("TIMEOUT"))
  /\ UNCHANGED <<state, converting, countVars, vcc, clientVars>>

(* ISR(ADC_vect) *)
Converted ==
  /\ converting # "none"
  /\ queue' = Append(queue, Complete(converting))
  /\ converting' = "none"
  /\ UNCHANGED <<state, timer, countVars, vcc, clientVars>>

-----------------------------------------------------------------------------
(* The handlers. *)

(* idle and the entry of read_entity; all states inherit it. *)
Begin ==
  /\ Takes("READ_ENTITY", {"idle"} \cup Active)
  /\ state' = "read_entity"
  /\ timer' = IF state = "idle" THEN timer ELSE "off"
  /\ samples' = 0 /\ crossCount' = 0
  /\ queue' = Append(Tail(queue), Event("START"))
  /\ UNCHANGED <<converting, vcc, clientVars>>

(* EMON_START and the entry of read_vcc: the reference has to settle.      *)
SelectVcc ==
  /\ Takes("START", Active)
  /\ state' = "read_vcc"
  /\ timer' = "read_vcc"
  /\ queue' = Tail(queue)
  /\ UNCHANGED <<converting, countVars, vcc, clientVars>>

ReadVcc ==
  /\ Takes("TIMEOUT", {"read_vcc"})
  /\ timer' = "off"
  /\ AdcRead("vcc")
  /\ queue' = Tail(queue)
  /\ UNCHANGED <<state, countVars, vcc, clientVars>>

VccRead ==
  /\ Takes("COMPLETE", {"read_vcc"})
  /\ vcc' = Head(queue).par
  /\ queue' = Append(Tail(queue), Event("VCC_READ_DONE"))
  /\ UNCHANGED <<state, timer, converting, countVars, clientVars>>

(* VCC_READ_DONE and the entry of zero_crossing. *)
SeekZero ==
  /\ Takes("VCC_READ_DONE", Active)
  /\ state' = "zero_crossing"
  /\ timer' = "zero_crossing"
  /\ AdcRead("pin")
  /\ queue' = Tail(queue)
  /\ UNCHANGED <<countVars, vcc, clientVars>>

NotZero ==
  /\ Takes("COMPLETE", {"zero_crossing"})
  /\ AdcRead("pin")
  /\ queue' = Tail(queue)
  /\ UNCHANGED <<state, timer, countVars, vcc, clientVars>>

Zero ==
  /\ Takes("COMPLETE", {"zero_crossing"})
  /\ state' = "read_entity"
  /\ timer' = "off"
  /\ queue' = Append(Tail(queue), Event("ZERO_CROSS_FOUND"))
  /\ UNCHANGED <<converting, countVars, vcc, clientVars>>

(* Mutant: the error is reported, and the search goes on. *)
NoZeroStays ==
  /\ Takes("TIMEOUT", {"zero_crossing"})
  /\ answers' = answers + 1 /\ erred' = TRUE
  /\ queue' = Tail(queue)
  /\ UNCHANGED <<state, timer, converting, countVars, vcc, requests>>
NoZero ==
  /\ Takes("TIMEOUT", {"zero_crossing"})
  /\ state' = "idle"
  /\ timer' = "off"
  /\ answers' = answers + 1 /\ erred' = TRUE
  /\ queue' = Tail(queue)
  /\ UNCHANGED <<converting, countVars, vcc, requests>>

(* ZERO_CROSS_FOUND: the first sample. *)
BeginSamples ==
  /\ Takes("ZERO_CROSS_FOUND", Active)
  /\ timer' = "read_entity"
  /\ AdcRead("pin")
  /\ queue' = Tail(queue)
  /\ UNCHANGED <<state, countVars, vcc, clientVars>>

(* One more sample; but the first it may lie across the first one's value. *)
Counted ==
  /\ Takes("COMPLETE", {"read_entity"})
  /\ samples' = IF samples > Crossings THEN samples ELSE samples + 1
  /\ crossCount' \in {crossCount} \cup (IF samples > 0 /\ crossCount < Crossings
                                        THEN {crossCount + 1} ELSE {})

Sample ==
  /\ Counted /\ crossCount' < Crossings
  /\ AdcRead("pin")
  /\ queue' = Tail(queue)
  /\ UNCHANGED <<state, timer, vcc, clientVars>>

(* Mutant: the result is not printed. *)
LastSampleQuick ==
  /\ Counted /\ crossCount' >= Crossings
  /\ AdcRead("pin")
  /\ state' = "idle"
  /\ timer' = "off"
  /\ queue' = Tail(queue)
  /\ answers' = answers + 1 /\ erred' = FALSE
  /\ UNCHANGED <<vcc, requests>>

(* The last sample starts one conversion too many, which is over when the  *)
(* result is printed: EMON_SERIAL_DEBUG is defined, if as 0.               *)
LastSample ==
  /\ Counted /\ crossCount' >= Crossings
  /\ state' = "idle"
  /\ timer' = "off"
  /\ queue' = Append(Tail(queue), Complete("pin"))
  /\ answers' = answers + 1 /\ erred' = FALSE
  /\ UNCHANGED <<converting, vcc, requests>>

(* Mutant: the time-out is not heeded. *)
SamplesOverNever ==
  /\ Takes("TIMEOUT", {"read_entity"})
  /\ queue' = Tail(queue)
  /\ UNCHANGED <<state, timer, converting, countVars, vcc, clientVars>>

(* The time for the samples is up: the next one is the last. *)
SamplesOver ==
  /\ Takes("TIMEOUT", {"read_entity"})
  /\ crossCount' = Crossings
  /\ queue' = Tail(queue)
  /\ UNCHANGED <<state, timer, converting, samples, vcc, clientVars>>

(* idle ignores the rest. *)
Ignore ==
  /\ queue # <<>> /\ state = "idle" /\ Head(queue).sig # "READ_ENTITY"
  /\ queue' = Tail(queue)
  /\ UNCHANGED <<state, timer, converting, countVars, vcc, clientVars>>

Handlers ==
  \/ Begin \/ SelectVcc \/ ReadVcc \/ VccRead \/ SeekZero \/ NotZero \/ Zero \/ NoZero
  \/ BeginSamples \/ Sample \/ LastSample \/ SamplesOver \/ Ignore

EmonNext == ReadEntity \/ Tick \/ Converted \/ Handlers

EmonSpec == EmonInit /\ [][EmonNext]_emonVars

(* The timer runs, conversions end and events are handled; the application *)
(* need not ask.                                                           *)
EmonFairness == WF_emonVars(Tick) /\ WF_emonVars(Converted) /\ WF_emonVars(Handlers)

EmonFairSpec == EmonSpec /\ EmonFairness

-----------------------------------------------------------------------------

(* The states, events and counters have their types, and the queue of      *)
(* three holds: a time-out, a conversion and what the object sends itself  *)
(* never come together in a greater number.                                *)
EmonTypeOK ==
  /\ state \in {"idle"} \cup Active
  /\ queue \in Seq([sig : {"READ_ENTITY", "START", "TIMEOUT", "COMPLETE", "VCC_READ_DONE",
                           "ZERO_CROSS_FOUND"}, par : {"none", "pin", "vcc"}])
  /\ Len(queue) <= 3
  /\ timer \in {"off"} \cup Active
  /\ converting \in {"none", "pin", "vcc"} /\ vcc \in {"none", "pin", "vcc"}
  /\ samples \in 0 .. Crossings + 1 /\ crossCount \in 0 .. Crossings
  /\ requests \in 0 .. MaxRequests /\ answers \in 0 .. MaxRequests /\ erred \in BOOLEAN

(* The supply voltage is computed from a conversion of the reference: none *)
(* of the mains is under way, or in the queue, when it is read.            *)
VccFromReference == vcc # "pin"

(* Every request is answered once: no time-out that overtakes a conversion *)
(* and no conversion left over from an earlier request answers another.    *)
Service == INSTANCE EmonService
AnswersOnce == Service!ServiceSpec

(* With mains or without, every request is answered.                       *)
MeasurementEnds == requests # answers ~> requests = answers

(* "so this method allows us to sample an integer number of half           *)
(* wavelengths": with mains, the measurement ends on as many crossings as  *)
(* have been seen.                                                         *)
SaysHalfWaves == crossCount = Crossings => samples > Crossings
=============================================================================
