------------------------------- MODULE QFNano -------------------------------
(***************************************************************************)
(* The part of the QP-nano kernel the firmware runs on (QP-nano itself is  *)
(* not in the repository; this is how main.c, bsp.c and the active objects *)
(* use it).  Every active object owns an event queue and one one-shot      *)
(* timer.  The scheduler of the cooperative "vanilla" kernel takes the     *)
(* head of the queue of the ready object with the highest priority, and    *)
(* the handler of that event runs to completion before another is taken.   *)
(* The tick interrupt posts TIMEOUT to the owner of a timer that expires,  *)
(* between two handlers or during one.                                     *)
(***************************************************************************)
EXTENDS Naturals, Sequences

CONSTANTS
  Objects,     \* the active objects (QF_active[] of main.c)
  Priority,    \* the priority of each object, a number
  QueueSize    \* the dimension of each object's event queue

VARIABLES
  queue,       \* queue[a]: the events waiting for object a, oldest first
  timer,       \* timer[a]: "off", or the state of a that armed its timer
  current      \* the event being handled, with its object; Idle if none

kernelVars == <<queue, timer, current>>

-----------------------------------------------------------------------------

(* An event is a signal and a parameter.  "0" is a zero parameter. *)
EventPar(sig, par) == [sig |-> sig, par |-> par]
Event(sig) == EventPar(sig, "0")

Idle == [ao |-> "none", sig |-> "none", par |-> "0"]

(* QActive_post: a queue is a ring of events, filled at its tail. *)
Post(q, a, e) == [q EXCEPT ![a] = Append(@, e)]

(* The assertion of QActive_post: the queue it fills has a free slot.  When *)
(* it fails Q_onAssert disables the interrupts and loops for ever, so a     *)
(* queue longer than its ring stands for a device that has stopped.         *)
Asserts == \A a \in Objects : Len(queue[a]) <= QueueSize[a]

(* QActive_arm (a zero tick count leaves the timer off) and QActive_disarm. *)
Arm(t, a, state) == [t EXCEPT ![a] = state]
Disarm(t, a) == [t EXCEPT ![a] = "off"]

(* An event sig of object a is in its queue; or there or being handled. *)
Waiting(a, sig) == \E i \in DOMAIN queue[a] : queue[a][i].sig = sig
Pending(a, sig) == Waiting(a, sig) \/ (current.ao = a /\ current.sig = sig)

Ready(a) == queue[a] # <<>>

(* QF_run: the event is taken out of the queue before its handler runs. *)
Dispatch(a) ==
  /\ Asserts
  /\ current = Idle
  /\ Ready(a)
  /\ \A b \in Objects : Priority[b] > Priority[a] => ~Ready(b)
  /\ current' = [ao |-> a, sig |-> Head(queue[a]).sig, par |-> Head(queue[a]).par]
  /\ queue' = [queue EXCEPT ![a] = Tail(@)]
  /\ UNCHANGED timer

(* QF_tick, in the timer interrupt: the one-shot timer of a runs out.  The *)
(* parameter of the event only records who armed the timer.  Timers run    *)
(* for a second or more: by then the last TIMEOUT has been handled.        *)
Expire(a) ==
  /\ Asserts
  /\ timer[a] # "off"
  /\ ~Pending(a, "TIMEOUT")
  /\ queue' = Post(queue, a, EventPar("TIMEOUT", timer[a]))
  /\ timer' = Disarm(timer, a)
  /\ UNCHANGED current

(* An interrupt or an object outside the model posts an event to a. *)
PostedTo(a, e) ==
  /\ Asserts
  /\ queue' = Post(queue, a, e)
  /\ UNCHANGED <<timer, current>>

(* The handler of a for signal sig is running. *)
Handling(a, sig) ==
  /\ Asserts
  /\ current.ao = a
  /\ current.sig = sig

(* ... and returns, leaving the queues q and the timers t. *)
Return(q, t) ==
  /\ queue' = q
  /\ timer' = t
  /\ current' = Idle

(* An event no state of the object handles: QHsm_top ignores it. *)
Ignore == Return(queue, timer)

=============================================================================
