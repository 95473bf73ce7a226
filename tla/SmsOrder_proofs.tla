-------------------------- MODULE SmsOrder_proofs ----------------------------
(***************************************************************************)
(* The order of the events in the queues, and what follows from it: that   *)
(* the TIMEOUT of one operation never ends another, and that the OK that   *)
(* ends one is the answer to its own command.                              *)
(*                                                                         *)
(* QP-nano does not take an expired TIMEOUT back when the timer is         *)
(* stopped, so it stays in the queue of the GSM object; it is harmless     *)
(* only if it is taken out in active_idle, before the next request. The    *)
(* invariants say why it is:                                               *)
(*   TimerInv    one TIMEOUT at most waits, the state's own, and no ACK    *)
(*               waits ahead of it (the timer starts with a command);      *)
(*   ParserInv   the parser posts no response behind a request that has    *)
(*               an OK ahead of it;                                        *)
(*   RequestInv  what the application has asked for belongs to its state,  *)
(*               and it runs before the GSM object does;                   *)
(*   AnswersInv  the clock, the measurements and the messages take turns;  *)
(*   LateInv     a response of the clock is never ahead of a request that  *)
(*               is not for the clock;                                     *)
(*   OwnInv      the TIMEOUT that waits is the state's own, or is ahead of *)
(*               the next request.                                         *)
(* The modem is told one command at a time, if the object waits for each   *)
(* answer as long as it takes.  ReplyInv says that it does, and that the   *)
(* answer is heard out before the next command:                            *)
(*   Journey     a command or its answer is in one place at a time: the    *)
(*               transmit buffer, the modem, the line, the receive buffer, *)
(*               the queue;                                                *)
(*   IdleFree and the rest                                                 *)
(*               in what states nothing is on its way, so that a command   *)
(*               may be sent.                                              *)
(* Steps are taken by what they post, at most (Posts): the handlers of the *)
(* GSM object come to nine kinds (GsmDoes), those of the application to    *)
(* fourteen (AppMove).                                                     *)
(***************************************************************************)
EXTENDS SmsSafety_proofs

-----------------------------------------------------------------------------
(* The order of events. *)

(* What is still to be handled by a, in order: the event in hand, then its *)
(* queue.                                                                  *)
Inbox(a) ==
  IF current.ao = a THEN <<EventPar(current.sig, current.par)>> \o queue[a] ELSE queue[a]
ToGsm == Inbox("gsm")
ToApp == Inbox("app")

(* The events of some signals; a sequence that holds an event of a set, or *)
(* one of each of two or three sets, in their order.                       *)
Of(S) == {e \in Events : e.sig \in S}
Has(s, E) == \E i \in DOMAIN s : s[i] \in E
Before(s, E, F) == \E i, j \in DOMAIN s : i < j /\ s[i] \in E /\ s[j] \in F
Three(s, E, F, H) ==
  \E i, j, k \in DOMAIN s : i < j /\ j < k /\ s[i] \in E /\ s[j] \in F /\ s[k] \in H

LEMMA OneMore ==
  ASSUME NEW s \in Seq(Events), NEW e \in Events
  PROVE  /\ Append(s, e) \in Seq(Events)
         /\ \A E : Has(Append(s, e), E) <=> Has(s, E) \/ e \in E
         /\ \A E, F : Before(Append(s, e), E, F) <=> Before(s, E, F) \/ (Has(s, E) /\ e \in F)
         /\ \A E, F, H : Three(Append(s, e), E, F, H) <=>
              Three(s, E, F, H) \/ (Before(s, E, F) /\ e \in H)
<1> DEFINE t == Append(s, e)
           n == Len(s)
<1>1. /\ n \in Nat /\ DOMAIN s = 1 .. n /\ t \in Seq(Events) /\ DOMAIN t = 1 .. n + 1
      /\ \A i \in 1 .. n : t[i] = s[i]
      /\ t[n + 1] = e
  BY AppendProperties, LenProperties
<1> HIDE DEF t, n
<1>2. /\ \A i \in 1 .. n + 1 : i \in 1 .. n \/ i = n + 1
      /\ \A i \in 1 .. n : i \in 1 .. n + 1 /\ i < n + 1
      /\ n + 1 \in 1 .. n + 1
      /\ \A i, j \in 1 .. n + 1 : i < j => i \in 1 .. n
  BY <1>1
<1>3. \A E : Has(t, E) <=> Has(s, E) \/ e \in E
  BY <1>1, <1>2 DEF Has
<1>4. ASSUME NEW E, NEW F
      PROVE  Before(t, E, F) <=> Before(s, E, F) \/ (Has(s, E) /\ e \in F)
  <2>1. ASSUME Before(t, E, F) PROVE Before(s, E, F) \/ (Has(s, E) /\ e \in F)
    BY <1>1, <1>2, <2>1 DEF Has, Before
  <2>2. ASSUME Before(s, E, F) PROVE Before(t, E, F)
    BY <1>1, <1>2, <2>2 DEF Before
  <2>3. ASSUME Has(s, E), e \in F PROVE Before(t, E, F)
    BY <1>1, <1>2, <2>3 DEF Has, Before
  <2> QED
    BY <2>1, <2>2, <2>3
<1>5. ASSUME NEW E, NEW F, NEW H
      PROVE  Three(t, E, F, H) <=> Three(s, E, F, H) \/ (Before(s, E, F) /\ e \in H)
  <2>1. ASSUME Three(t, E, F, H) PROVE Three(s, E, F, H) \/ (Before(s, E, F) /\ e \in H)
    <3>1. PICK i, j, k \in 1 .. n + 1 :
            i < j /\ j < k /\ t[i] \in E /\ t[j] \in F /\ t[k] \in H
      BY <1>1, <2>1 DEF Three
    <3>2. i \in 1 .. n /\ j \in 1 .. n /\ t[i] = s[i] /\ t[j] = s[j]
      BY <1>1, <1>2, <3>1
    <3> QED
      BY <1>1, <1>2, <3>1, <3>2 DEF Three, Before
  <2>2. ASSUME Three(s, E, F, H) PROVE Three(t, E, F, H)
    BY <1>1, <1>2, <2>2 DEF Three
  <2>3. ASSUME Before(s, E, F), e \in H PROVE Three(t, E, F, H)
    BY <1>1, <1>2, <2>3 DEF Three, Before
  <2> QED
    BY <2>1, <2>2, <2>3
<1> QED
  BY <1>1, <1>3, <1>4, <1>5 DEF t

(* ... and with one before it.                                             *)
LEMMA OneFirst ==
  ASSUME NEW q \in Seq(Events), NEW c \in Events
  PROVE  LET s == <<c>> \o q
         IN /\ s \in Seq(Events) /\ s # <<>> /\ Head(s) = c /\ Tail(s) = q
            /\ \A E : Has(s, E) <=> c \in E \/ Has(q, E)
            /\ \A E, F : Before(s, E, F) <=> (c \in E /\ Has(q, F)) \/ Before(q, E, F)
            /\ \A E, F, H : Three(s, E, F, H) <=>
                 (c \in E /\ Before(q, F, H)) \/ Three(q, E, F, H)
<1> DEFINE s == <<c>> \o q
           n == Len(q)
<1>1. /\ n \in Nat /\ DOMAIN q = 1 .. n /\ s \in Seq(Events) /\ DOMAIN s = 1 .. n + 1
      /\ s # <<>> /\ Head(s) = c /\ Tail(s) = q
  BY ConcatProperties, LenProperties, EmptySeq, HeadTailProperties
<1>2. s[1] = c /\ \A i \in 1 .. n : s[i + 1] = q[i]
  BY <1>1, HeadTailProperties
<1> HIDE DEF s, n
<1>3. /\ \A i \in 1 .. n + 1 : i = 1 \/ (i - 1 \in 1 .. n /\ (i - 1) + 1 = i /\ 1 < i)
      /\ \A i \in 1 .. n : i + 1 \in 1 .. n + 1 /\ 1 < i + 1
      /\ 1 \in 1 .. n + 1
      /\ \A i, j \in 1 .. n + 1 : i < j => j # 1
      /\ \A i, j \in 1 .. n : i < j => i + 1 < j + 1
      /\ \A i, j \in 1 .. n + 1 : i < j => i - 1 < j - 1
  BY <1>1
<1>4. \A i \in 1 .. n + 1 : i # 1 => i - 1 \in 1 .. n /\ s[i] = q[i - 1]
  BY <1>2, <1>3
<1>5. ASSUME NEW E
      PROVE  Has(s, E) <=> c \in E \/ Has(q, E)
  <2>1. ASSUME Has(s, E) PROVE c \in E \/ Has(q, E)
    BY <1>1, <1>2, <1>3, <1>4, <2>1 DEF Has
  <2>2. ASSUME c \in E PROVE Has(s, E)
    BY <1>1, <1>2, <1>3, <2>2 DEF Has
  <2>3. ASSUME NEW i \in 1 .. n, q[i] \in E PROVE Has(s, E)
    <3>1. i + 1 \in 1 .. n + 1 /\ s[i + 1] \in E
      BY <1>2, <1>3, <2>3
    <3> QED
      BY <1>1, <3>1 DEF Has
  <2>4. Has(q, E) => Has(s, E)
    BY <1>1, <2>3 DEF Has
  <2> QED
    BY <2>1, <2>2, <2>4
<1>6. ASSUME NEW E, NEW F
      PROVE  Before(s, E, F) <=> (c \in E /\ Has(q, F)) \/ Before(q, E, F)
  <2>1. ASSUME Before(s, E, F) PROVE (c \in E /\ Has(q, F)) \/ Before(q, E, F)
    <3>1. PICK i, j \in 1 .. n + 1 : i < j /\ s[i] \in E /\ s[j] \in F
      BY <1>1, <2>1 DEF Before
    <3>2. j - 1 \in 1 .. n /\ q[j - 1] \in F
      BY <1>3, <1>4, <3>1
    <3>3. CASE i = 1
      BY <1>1, <1>2, <3>1, <3>2, <3>3 DEF Has
    <3>4. CASE i # 1
      <4>1. i - 1 \in 1 .. n /\ i - 1 < j - 1 /\ q[i - 1] \in E
        BY <1>3, <1>4, <3>1, <3>4
      <4> QED
        BY <1>1, <3>2, <4>1 DEF Before
    <3> QED
      BY <3>3, <3>4
  <2>2. ASSUME Before(q, E, F) PROVE Before(s, E, F)
    <3>1. PICK i, j \in 1 .. n : i < j /\ q[i] \in E /\ q[j] \in F
      BY <1>1, <2>2 DEF Before
    <3>2. /\ i + 1 \in 1 .. n + 1 /\ j + 1 \in 1 .. n + 1 /\ i + 1 < j + 1
          /\ s[i + 1] \in E /\ s[j + 1] \in F
      BY <1>2, <1>3, <3>1
    <3> QED
      BY <1>1, <3>2 DEF Before
  <2>3. ASSUME c \in E, Has(q, F) PROVE Before(s, E, F)
    BY <1>1, <1>2, <1>3, <2>3 DEF Has, Before
  <2> QED
    BY <2>1, <2>2, <2>3
<1>7. ASSUME NEW E, NEW F, NEW H
      PROVE  Three(s, E, F, H) <=> (c \in E /\ Before(q, F, H)) \/ Three(q, E, F, H)
  <2>1. ASSUME Three(s, E, F, H) PROVE (c \in E /\ Before(q, F, H)) \/ Three(q, E, F, H)
    <3>1. PICK i, j, k \in 1 .. n + 1 :
            i < j /\ j < k /\ s[i] \in E /\ s[j] \in F /\ s[k] \in H
      BY <1>1, <2>1 DEF Three
    <3>2. /\ j - 1 \in 1 .. n /\ k - 1 \in 1 .. n /\ j - 1 < k - 1
          /\ q[j - 1] \in F /\ q[k - 1] \in H
      BY <1>3, <1>4, <3>1
    <3>3. CASE i = 1
      BY <1>1, <1>2, <3>1, <3>2, <3>3 DEF Before
    <3>4. CASE i # 1
      <4>1. i - 1 \in 1 .. n /\ i - 1 < j - 1 /\ q[i - 1] \in E
        BY <1>3, <1>4, <3>1, <3>4
      <4> QED
        BY <1>1, <3>2, <4>1 DEF Three
    <3> QED
      BY <3>3, <3>4
  <2>2. ASSUME Three(q, E, F, H) PROVE Three(s, E, F, H)
    <3>1. PICK i, j, k \in 1 .. n : i < j /\ j < k /\ q[i] \in E /\ q[j] \in F /\ q[k] \in H
      BY <1>1, <2>2 DEF Three
    <3>2. /\ i + 1 \in 1 .. n + 1 /\ j + 1 \in 1 .. n + 1 /\ k + 1 \in 1 .. n + 1
          /\ i + 1 < j + 1 /\ j + 1 < k + 1
          /\ s[i + 1] \in E /\ s[j + 1] \in F /\ s[k + 1] \in H
      BY <1>2, <1>3, <3>1
    <3> QED
      BY <1>1, <3>2 DEF Three
  <2>3. ASSUME c \in E, Before(q, F, H) PROVE Three(s, E, F, H)
    <3>1. PICK j, k \in 1 .. n : j < k /\ q[j] \in F /\ q[k] \in H
      BY <1>1, <2>3 DEF Before
    <3>2. /\ j + 1 \in 1 .. n + 1 /\ k + 1 \in 1 .. n + 1 /\ 1 < j + 1 /\ j + 1 < k + 1
          /\ s[1] \in E /\ s[j + 1] \in F /\ s[k + 1] \in H
      BY <1>2, <1>3, <2>3, <3>1
    <3> QED
      BY <1>1, <1>3, <3>2 DEF Three
  <2> QED
    BY <2>1, <2>2, <2>3
<1> QED
  BY <1>1, <1>5, <1>6, <1>7 DEF s

(* Some of a sequence.                                                     *)
LEMMA SomeOf ==
  /\ \A s, E, F : Before(s, E, F) => Has(s, E) /\ Has(s, F)
  /\ \A s, E, F, H : Three(s, E, F, H) => Before(s, E, F) /\ Before(s, F, H)
  /\ \A s, E, F : E \subseteq F /\ Has(s, E) => Has(s, F)
  /\ \A X, Y : Of(X) \cap Of(Y) # {} => X \cap Y # {}
  /\ \A X, Y : X \subseteq Y => Of(X) \subseteq Of(Y)
<1>1. \A s, E, F : Before(s, E, F) => Has(s, E) /\ Has(s, F)
  BY DEF Before, Has
<1>2. \A s, E, F, H : Three(s, E, F, H) => Before(s, E, F) /\ Before(s, F, H)
  BY DEF Before, Three
<1>3. \A s, E, F : E \subseteq F /\ Has(s, E) => Has(s, F)
  BY DEF Has
<1>4. \A X, Y : Of(X) \cap Of(Y) # {} => X \cap Y # {}
  BY DEF Of
<1>5. \A X, Y : X \subseteq Y => Of(X) \subseteq Of(Y)
  BY DEF Of
<1> QED
  BY <1>1, <1>2, <1>3, <1>4, <1>5

-----------------------------------------------------------------------------
(* What a step does to an inbox. *)

Handled == EventPar(current.sig, current.par)
Handed == current.ao \in Objects => current.sig \in Signals

LEMMA Inboxes ==
  ASSUME KernelType, Handed, NEW a \in Objects
  PROVE  /\ queue[a] \in Seq(Events) /\ Inbox(a) \in Seq(Events)
         /\ current.ao = a => Handled \in Events /\ Inbox(a) = <<Handled>> \o queue[a]
         /\ current.ao # a => Inbox(a) = queue[a]
<1>1. queue[a] \in Seq(Events)
  BY DEF KernelType, Queues
<1>2. current.ao = a => Handled \in Events /\ Inbox(a) = <<Handled>> \o queue[a]
  BY EventType DEF KernelType, Handed, Handled, Inbox
<1>3. current.ao # a => Inbox(a) = queue[a]
  BY DEF Inbox
<1>4. Handled \in Events => <<Handled>> \o queue[a] \in Seq(Events)
  BY <1>1
<1> QED
  BY <1>1, <1>2, <1>3, <1>4

(* What is left of it when the event in hand has been handled, if that is  *)
(* what the step does; and one event of S at most may come.                *)
Left(a) == IF current.ao = a /\ current' = Idle THEN queue[a] ELSE Inbox(a)
Gains(a, S) == Inbox(a)' = Left(a) \/ \E e \in S : Inbox(a)' = Append(Left(a), e)

(* The event in hand is the first.                                         *)
LEMMA InHandFirst ==
  ASSUME KernelType, Handed, NEW a \in Objects, current.ao = a
  PROVE  /\ \A E : Has(Inbox(a), E) <=> Handled \in E \/ Has(queue[a], E)
         /\ \A E, F : Before(Inbox(a), E, F) <=>
              (Handled \in E /\ Has(queue[a], F)) \/ Before(queue[a], E, F)
         /\ \A E, F, H : Three(Inbox(a), E, F, H) <=>
              (Handled \in E /\ Before(queue[a], F, H)) \/ Three(queue[a], E, F, H)
         /\ \A S : Handled \in Of(S) <=> current.sig \in S
<1>1. /\ Inbox(a) = <<Handled>> \o queue[a] /\ queue[a] \in Seq(Events)
      /\ Handled \in Events /\ Handled.sig = current.sig
  BY Inboxes DEF Handled, EventPar
<1>2. \A S : Handled \in Of(S) <=> current.sig \in S
  BY <1>1 DEF Of
<1> HIDE DEF Handled
<1> QED
  BY <1>1, <1>2, OneFirst

LEMMA Gained ==
  ASSUME KernelType, Handed, NEW a \in Objects, NEW S \in SUBSET Events, Gains(a, S)
  PROVE  /\ \A E : Has(Inbox(a)', E) => Has(Left(a), E) \/ S \cap E # {}
         /\ \A E, F : Before(Inbox(a)', E, F) =>
              Before(Left(a), E, F) \/ (Has(Left(a), E) /\ S \cap F # {})
         /\ \A E, F, H : Three(Inbox(a)', E, F, H) =>
              Three(Left(a), E, F, H) \/ (Before(Left(a), E, F) /\ S \cap H # {})
         /\ \A E : Has(Left(a), E) => Has(Inbox(a), E)
         /\ \A E, F : Before(Left(a), E, F) => Before(Inbox(a), E, F)
         /\ \A E, F, H : Three(Left(a), E, F, H) => Three(Inbox(a), E, F, H)
<1> DEFINE l == Left(a)
<1>1. l \in Seq(Events) /\ (Inbox(a)' = l \/ \E e \in S : Inbox(a)' = Append(l, e))
  BY Inboxes DEF Left, Gains
<1>2. /\ \A E : Has(l, E) => Has(Inbox(a), E)
      /\ \A E, F : Before(l, E, F) => Before(Inbox(a), E, F)
      /\ \A E, F, H : Three(l, E, F, H) => Three(Inbox(a), E, F, H)
  <2>1. CASE l = Inbox(a)
    BY <2>1
  <2>2. CASE current.ao = a /\ l = queue[a]
    BY <2>2, InHandFirst
  <2> QED
    BY <2>1, <2>2 DEF Left
<1> HIDE DEF l
<1>3. CASE Inbox(a)' = l
  BY <1>2, <1>3 DEF l
<1>4. ASSUME NEW e \in S, Inbox(a)' = Append(l, e)
      PROVE  /\ \A E : Has(Inbox(a)', E) => Has(l, E) \/ S \cap E # {}
             /\ \A E, F : Before(Inbox(a)', E, F) =>
                  Before(l, E, F) \/ (Has(l, E) /\ S \cap F # {})
             /\ \A E, F, H : Three(Inbox(a)', E, F, H) =>
                  Three(l, E, F, H) \/ (Before(l, E, F) /\ S \cap H # {})
  <2>1. e \in Events /\ \A E : e \in E => S \cap E # {}
    OBVIOUS
  <2> QED
    BY <1>1, <1>4, <2>1, OneMore
<1> QED
  BY <1>1, <1>2, <1>3, <1>4 DEF l

(* How the kernel's operators come to that.                                *)
LEMMA Gaining ==
  ASSUME KernelType, Handed, current' \in {current, Idle}, NEW a \in Objects
  PROVE  /\ queue'[a] = queue[a] => Gains(a, {})
         /\ \A e \in Events : queue'[a] = Append(queue[a], e) => Gains(a, {e})
<1>0. "none" \notin Objects
  BY ConfigurationOfMain DEF ObjectsOfMain
<1>1. queue[a] \in Seq(Events) /\ Inbox(a) \in Seq(Events)
  BY Inboxes
<1>2. CASE current.ao = a /\ current' = Idle
  <2>1. Left(a) = queue[a] /\ Inbox(a)' = queue'[a]
    BY <1>0, <1>2 DEF Left, Inbox, Idle
  <2> QED
    BY <2>1 DEF Gains
<1>3. CASE current.ao # a
  <2>1. Left(a) = queue[a] /\ Inbox(a)' = queue'[a]
    BY <1>0, <1>3 DEF Left, Inbox, Idle
  <2> QED
    BY <2>1 DEF Gains
<1>4. CASE current.ao = a /\ current' = current /\ current # Idle
  <2>1. /\ Left(a) = Inbox(a) /\ Inbox(a)' = <<Handled>> \o queue'[a]
        /\ Inbox(a) = <<Handled>> \o queue[a] /\ Handled \in Events
    BY <1>4, Inboxes DEF Left, Inbox, Handled
  <2>2. ASSUME NEW e \in Events
        PROVE  <<Handled>> \o Append(queue[a], e) = Append(<<Handled>> \o queue[a], e)
    BY <1>1, <2>1 DEF Handled
  <2> QED
    BY <2>1, <2>2 DEF Gains
<1> QED
  BY <1>2, <1>3, <1>4

LEMMA PostGains ==
  ASSUME KernelType, Handed, current' \in {current, Idle}, NEW a \in Objects
  PROVE  /\ queue' = queue => Gains(a, {})
         /\ \A b \in Objects, sig \in Signals, par \in Pars :
              /\ queue' = Post(queue, b, EventPar(sig, par)) =>
                   Gains(a, IF a = b THEN {EventPar(sig, par)} ELSE {})
              /\ queue' = Post(queue, b, Event(sig)) =>
                   Gains(a, IF a = b THEN {Event(sig)} ELSE {})
<1>1. ASSUME NEW b \in Objects, NEW e \in Events, queue' = Post(queue, b, e)
      PROVE  Gains(a, IF a = b THEN {e} ELSE {})
  <2>1. CASE a = b
    <3>1. queue'[a] = Append(queue[a], e)
      BY <1>1, <2>1 DEF Post, KernelType, Queues
    <3> QED
      BY <2>1, <3>1, Gaining
  <2>2. CASE a # b
    <3>1. queue'[a] = queue[a]
      BY <1>1, <2>2 DEF Post, KernelType, Queues
    <3> QED
      BY <2>2, <3>1, Gaining
  <2> QED
    BY <2>1, <2>2
<1>2. ASSUME NEW sig \in Signals, NEW par \in Pars
      PROVE  EventPar(sig, par) \in Events /\ Event(sig) \in Events
  BY EventType, PlainEventType
<1> QED
  BY <1>1, <1>2, Gaining

(* The scheduler moves an event from a queue into a hand.                  *)
LEMMA DispatchMoves ==
  ASSUME KernelType, NEW b \in Objects, Dispatch(b), NEW a \in Objects
  PROVE  Inbox(a)' = Inbox(a) /\ Handed'
<1>0. "none" \notin Objects /\ current = Idle /\ queue[a] \in Seq(Events)
  BY ConfigurationOfMain DEF ObjectsOfMain, Dispatch, KernelType, Queues
<1>1. /\ queue[b] \in Seq(Events) /\ queue[b] # <<>> /\ Head(queue[b]) \in Events
      /\ queue[b] = <<Head(queue[b])>> \o Tail(queue[b])
  <2>1. queue[b] \in Seq(Events) /\ queue[b] # <<>>
    BY DEF Dispatch, Ready, KernelType, Queues
  <2> QED
    BY <2>1
<1>2. EventPar(current'.sig, current'.par) = Head(queue[b]) /\ current'.ao = b
  BY <1>1 DEF Dispatch, EventPar, Events
<1>3. Handed'
  BY <1>1 DEF Dispatch, Handed, Events
<1>4. Inbox(a) = queue[a]
  BY <1>0 DEF Inbox, Idle
<1>5. CASE a = b
  <2>1. queue'[a] = Tail(queue[b])
    BY <1>5 DEF Dispatch, KernelType, Queues
  <2> QED
    BY <1>1, <1>2, <1>3, <1>4, <1>5, <2>1 DEF Inbox
<1>6. CASE a # b
  <2>1. queue'[a] = queue[a]
    BY <1>6 DEF Dispatch, KernelType, Queues
  <2> QED
    BY <1>2, <1>3, <1>4, <1>6, <2>1 DEF Inbox
<1> QED
  BY <1>5, <1>6

-----------------------------------------------------------------------------
(* The timer of the GSM object. *)

Timeouts == Of({"TIMEOUT"})
Acks == Of({"ACK"})

(* Every ACK has a SEND_DONE behind it: a command has been sent since.     *)
Covered(s) ==
  \A i \in DOMAIN s : s[i].sig = "ACK" => \E j \in DOMAIN s : i < j /\ s[j].sig = "SEND_DONE"

(* The states that wait without having sent a command, and the TIMEOUTs of *)
(* the others.                                                             *)
Unsent == {"network_status", "powering_on"}
LateTimeouts == {e \in Timeouts : e.par \notin Unsent}

(* The timer runs for the state that armed it.                             *)
TimerOwned ==
  \/ timer["gsm"] \in {"off", gsm}
  \/ timer["gsm"] = "sms_send" /\ gsm = "sms_send_support"
TimerUnused ==
  gsm \in {"systemsetup", "opencom"} => timer["gsm"] = "off" /\ ~Has(ToGsm, Timeouts)
TimeoutOnce == ~Before(ToGsm, Timeouts, Timeouts)
RetriesOnce == gsm = "check_comlink" /\ Has(ToGsm, Timeouts) => timer["gsm"] = "off"

(* While it runs for an answer, the command is still to be sent, or has    *)
(* been sent behind every ACK; so a TIMEOUT never has an ACK before it.    *)
SentBehind == timer["gsm"] \notin Unsent \cup {"off"} => tx # <<>> \/ Covered(ToGsm)
NoAckFirst == ~Before(ToGsm, Acks, LateTimeouts)

TimerInv ==
  TimerOwned /\ TimerUnused /\ TimeoutOnce /\ RetriesOnce /\ SentBehind /\ NoAckFirst

LEMMA Coverage ==
  ASSUME NEW s \in Seq(Events), NEW e \in Events
  PROVE  /\ Covered(s) /\ e.sig # "ACK" => Covered(Append(s, e))
         /\ e.sig = "SEND_DONE" => Covered(Append(s, e))
         /\ Covered(<<e>> \o s) => Covered(s)
         /\ Covered(<<e>> \o s) /\ ~Has(s, Of({"SEND_DONE"})) => ~Has(<<e>> \o s, Acks)
<1> DEFINE t == Append(s, e)
           u == <<e>> \o s
           n == Len(s)
<1>1. /\ n \in Nat /\ DOMAIN s = 1 .. n /\ DOMAIN t = 1 .. n + 1 /\ DOMAIN u = 1 .. n + 1
      /\ \A i \in 1 .. n : t[i] = s[i] /\ u[i + 1] = s[i] /\ s[i] \in Events
      /\ t[n + 1] = e /\ u[1] = e
  BY AppendProperties, ConcatProperties, LenProperties
<1> HIDE DEF t, u, n
<1>2. /\ \A i \in 1 .. n + 1 : i \in 1 .. n \/ i = n + 1
      /\ \A i \in 1 .. n : i \in 1 .. n + 1 /\ i < n + 1 /\ i + 1 \in 1 .. n + 1
      /\ n + 1 \in 1 .. n + 1
      /\ \A i \in 1 .. n + 1 : i = 1 \/ (i - 1 \in 1 .. n /\ (i - 1) + 1 = i)
      /\ \A i \in 1 .. n, j \in 1 .. n + 1 : i + 1 < j => j - 1 \in 1 .. n /\ i < j - 1 /\ (j - 1) + 1 = j
      /\ \A i, j \in 1 .. n + 1 : i < j => j - 1 \in 1 .. n /\ (j - 1) + 1 = j
  BY <1>1
<1>3. Covered(s) /\ e.sig # "ACK" => Covered(t)
  BY <1>1, <1>2 DEF Covered
<1>4. e.sig = "SEND_DONE" => Covered(t)
  BY <1>1, <1>2 DEF Covered
<1>5. ASSUME Covered(u), NEW i \in 1 .. n, s[i].sig = "ACK"
      PROVE  \E j \in 1 .. n : i < j /\ s[j].sig = "SEND_DONE"
  <2>1. PICK j \in 1 .. n + 1 : i + 1 < j /\ u[j].sig = "SEND_DONE"
    BY <1>1, <1>2, <1>5 DEF Covered
  <2> QED
    BY <1>1, <1>2, <2>1
<1>6. ASSUME Covered(u), Has(u, Acks)
      PROVE  Has(s, Of({"SEND_DONE"}))
  <2>1. PICK i \in 1 .. n + 1 : u[i].sig = "ACK"
    BY <1>1, <1>6 DEF Has, Acks, Of
  <2>2. PICK j \in 1 .. n + 1 : i < j /\ u[j].sig = "SEND_DONE"
    BY <1>1, <1>6, <2>1 DEF Covered
  <2>3. j - 1 \in 1 .. n /\ s[j - 1].sig = "SEND_DONE" /\ s[j - 1] \in Events
    BY <1>1, <1>2, <2>2
  <2> QED
    BY <1>1, <2>3 DEF Has, Of
<1> QED
  BY <1>1, <1>3, <1>4, <1>5, <1>6 DEF Covered, t, u

(* A step that adds no TIMEOUT, ACK or SEND_DONE, and keeps the timer,     *)
(* stops it, or arms it with a command to be sent.                         *)
LEMMA TimerKept ==
  ASSUME KernelType, Handed, NEW S \in SUBSET Events, Gains("gsm", S),
         S \cap (Timeouts \cup Acks) = {}
  PROVE  /\ Has(ToGsm, Timeouts)' => Has(ToGsm, Timeouts)
         /\ TimeoutOnce => TimeoutOnce'
         /\ NoAckFirst => NoAckFirst'
         /\ Covered(ToGsm) => Covered(ToGsm)'
<1>0. "gsm" \in Objects
  BY TwoQueues
<1>1. S \cap Timeouts = {} /\ S \cap LateTimeouts = {}
  BY DEF LateTimeouts
<1>2. /\ Has(ToGsm, Timeouts)' => Has(ToGsm, Timeouts)
      /\ TimeoutOnce => TimeoutOnce'
      /\ NoAckFirst => NoAckFirst'
  BY <1>0, <1>1, Gained DEF TimeoutOnce, NoAckFirst, ToGsm
<1>3. ASSUME Covered(ToGsm) PROVE Covered(ToGsm)'
  <2>1. Left("gsm") \in Seq(Events) /\ Covered(Left("gsm"))
    <3>1. CASE Left("gsm") = Inbox("gsm")
      BY <1>0, <1>3, <3>1, Inboxes DEF ToGsm
    <3>2. CASE current.ao = "gsm" /\ Left("gsm") = queue["gsm"]
      <4>1. /\ queue["gsm"] \in Seq(Events) /\ Handled \in Events
            /\ Covered(<<Handled>> \o queue["gsm"])
        BY <1>0, <1>3, <3>2, Inboxes DEF ToGsm
      <4> HIDE DEF Handled
      <4> QED
        BY <3>2, <4>1, Coverage
    <3> QED
      BY <3>1, <3>2 DEF Left
  <2>2. CASE Inbox("gsm")' = Left("gsm")
    BY <2>1, <2>2 DEF ToGsm
  <2>3. ASSUME NEW e \in S, Inbox("gsm")' = Append(Left("gsm"), e)
        PROVE  Covered(ToGsm)'
    <3>1. e \in Events /\ e.sig # "ACK"
      BY DEF Acks, Of
    <3>2. Covered(Append(Left("gsm"), e))
      BY <2>1, <3>1, Coverage
    <3> QED
      BY <2>3, <3>2 DEF ToGsm
  <2> QED
    BY <2>2, <2>3 DEF Gains
<1> QED
  BY <1>2, <1>3

LEMMA TimerSteps ==
  ASSUME KernelType, Handed, TimerInv, NEW S \in SUBSET Events, Gains("gsm", S),
         S \cap (Timeouts \cup Acks) = {}
  PROVE  /\ /\ timer'["gsm"] = timer["gsm"]
            /\ gsm' = gsm \/ (gsm = "sms_send" /\ gsm' = "sms_send_support")
            /\ tx' = tx \/ tx' # <<>>
            => TimerInv'
         /\ timer'["gsm"] = "off" /\ gsm' \notin {"systemsetup", "opencom"} => TimerInv'
         /\ /\ timer'["gsm"] = gsm' /\ gsm' \notin {"systemsetup", "opencom", "off"}
            /\ gsm' = "check_comlink" => current.ao = "gsm" /\ current.sig = "TIMEOUT" /\ current' = Idle
            /\ gsm' \in Unsent \/ tx' # <<>>
            => TimerInv'
<1>1. TimeoutOnce' /\ NoAckFirst' /\ (Has(ToGsm, Timeouts)' => Has(ToGsm, Timeouts))
      /\ (Covered(ToGsm) => Covered(ToGsm)')
  BY TimerKept DEF TimerInv
<1>2. ASSUME timer'["gsm"] = timer["gsm"],
             gsm' = gsm \/ (gsm = "sms_send" /\ gsm' = "sms_send_support"),
             tx' = tx \/ tx' # <<>>
      PROVE  TimerInv'
  BY <1>1, <1>2 DEF TimerInv, TimerOwned, TimerUnused, RetriesOnce, SentBehind
<1>3. ASSUME timer'["gsm"] = "off", gsm' \notin {"systemsetup", "opencom"}
      PROVE  TimerInv'
  BY <1>1, <1>3 DEF TimerInv, TimerOwned, TimerUnused, RetriesOnce, SentBehind
<1>4. ASSUME timer'["gsm"] = gsm', gsm' \notin {"systemsetup", "opencom", "off"},
             gsm' = "check_comlink" => current.ao = "gsm" /\ current.sig = "TIMEOUT" /\ current' = Idle,
             gsm' \in Unsent \/ tx' # <<>>
      PROVE  TimerInv'
  <2>1. gsm' = "check_comlink" => ~Has(ToGsm, Timeouts)'
    <3> SUFFICES ASSUME gsm' = "check_comlink" PROVE ~Has(ToGsm, Timeouts)'
      OBVIOUS
    <3>1. Left("gsm") = queue["gsm"] /\ current.ao = "gsm" /\ "gsm" \in Objects
      BY <1>4, TwoQueues DEF Left
    <3>2. ~Has(queue["gsm"], Timeouts)
      BY <1>4, <3>1, InHandFirst DEF TimerInv, TimeoutOnce, ToGsm, Timeouts
    <3>3. Has(Inbox("gsm")', Timeouts) => Has(Left("gsm"), Timeouts) \/ S \cap Timeouts # {}
      BY <3>1, Gained
    <3> QED
      BY <3>1, <3>2, <3>3 DEF ToGsm
  <2> QED
    BY <1>1, <1>4, <2>1 DEF TimerInv, TimerOwned, TimerUnused, RetriesOnce, SentBehind
<1> QED
  BY <1>2, <1>3, <1>4

LEMMA GainsMore ==
  ASSUME NEW a, NEW S, NEW T, S \subseteq T, Gains(a, S)
  PROVE  Gains(a, T)
BY DEF Gains

-----------------------------------------------------------------------------
(* What a step posts to the GSM object, to the application and to the      *)
(* energy monitor, at most: one event of each set.                         *)
Posts(R, S, T) == Gains("gsm", Of(R)) /\ Gains("app", Of(S)) /\ Gains("emon", Of(T))

LEMMA Posting ==
  ASSUME KernelType, Handed, current' \in {current, Idle}, NEW R, NEW S, NEW T
  PROVE  /\ queue' = queue => Posts(R, S, T)
         /\ \A sig \in Signals, par \in Pars :
              /\ sig \in R /\ queue' = Post(queue, "gsm", EventPar(sig, par)) => Posts(R, S, T)
              /\ sig \in S /\ queue' = Post(queue, "app", EventPar(sig, par)) => Posts(R, S, T)
              /\ sig \in T /\ queue' = Post(queue, "emon", EventPar(sig, par)) => Posts(R, S, T)
              /\ queue' = Post(queue, "com", EventPar(sig, par)) => Posts(R, S, T)
<1>o. /\ "emon" \in Objects /\ "gsm" \in Objects /\ "app" \in Objects /\ "com" \in Objects
      /\ "emon" # "gsm" /\ "emon" # "app" /\ "app" # "gsm"
      /\ "com" # "gsm" /\ "com" # "app" /\ "com" # "emon"
  BY ConfigurationOfMain DEF ObjectsOfMain
<1>1. \A a : \A X : Gains(a, {}) => Gains(a, Of(X))
  <2>1. ASSUME NEW a, NEW X, Gains(a, {}) PROVE Gains(a, Of(X))
    <3>1. {} \subseteq Of(X)
      OBVIOUS
    <3> QED
      BY <2>1, <3>1, GainsMore
  <2> QED
    BY <2>1
<1>2. \A sig \in Signals, par \in Pars : \A X : sig \in X => {EventPar(sig, par)} \subseteq Of(X)
  BY EventType DEF Of, EventPar
<1>3. \A sig \in Signals, par \in Pars : \A a, X :
        sig \in X /\ Gains(a, {EventPar(sig, par)}) => Gains(a, Of(X))
  BY <1>2, GainsMore
<1>4. queue' = queue => Gains("gsm", {}) /\ Gains("app", {}) /\ Gains("emon", {})
  BY <1>o, PostGains
<1>5. ASSUME NEW sig \in Signals, NEW par \in Pars
      PROVE  /\ queue' = Post(queue, "gsm", EventPar(sig, par)) =>
                  Gains("gsm", {EventPar(sig, par)}) /\ Gains("app", {}) /\ Gains("emon", {})
             /\ queue' = Post(queue, "app", EventPar(sig, par)) =>
                  Gains("gsm", {}) /\ Gains("app", {EventPar(sig, par)}) /\ Gains("emon", {})
             /\ queue' = Post(queue, "emon", EventPar(sig, par)) =>
                  Gains("gsm", {}) /\ Gains("app", {}) /\ Gains("emon", {EventPar(sig, par)})
             /\ queue' = Post(queue, "com", EventPar(sig, par)) =>
                  Gains("gsm", {}) /\ Gains("app", {}) /\ Gains("emon", {})
  BY <1>o, PostGains
<1> QED
  BY <1>1, <1>3, <1>4, <1>5 DEF Posts

-----------------------------------------------------------------------------
(* What the handlers of the GSM object do, in nine kinds. *)

(* The events of the application that leave it where it is, whatever it    *)
(* does: at most it answers them with a request in reciever.               *)
Reports == {"MODULE_FAILURE", "INIT_FAILURE", "SMS_NEW", "BUSY", "SMS_FOUND",
            "SMS_NOT_FOUND", "NETWORK_ERROR"}

(* A line is parsed; any other handler returns.                            *)
Parsing == current.sig = "DATA_AVAILABLE" /\ avail > 0

Tells(S) == Posts({}, S, {})

GsmStays ==
  /\ UNCHANGED <<gsm, timer, tx, op>>
  /\ \/ Tells(Reports)
     \/ gsm = "sms_extract_time" /\ current.sig = "SMS_RESPONSE" /\ Tells({"PARSING_ERROR"})
GsmOpens ==
  /\ current.sig \in {"START_AO", "OPEN_DONE"}
  /\ \/ gsm = "systemsetup" /\ gsm' = "opencom"
     \/ gsm = "opencom" /\ gsm' = "powering_on"
  /\ UNCHANGED <<timer, tx, op>> /\ Tells({})
GsmArms ==
  /\ \/ gsm' = gsm /\ gsm \in {"powering_on", "check_comlink", "device_config",
                               "network_status", "sms_send_support"}
     \/ current.sig = "TIMEOUT" /\ gsm = "powering_on" /\ gsm' = "check_comlink"
     \/ current.sig = "ACK" /\ gsm = "check_comlink" /\ gsm' = "device_config"
  /\ gsm = "check_comlink" /\ gsm' = gsm => current.sig = "TIMEOUT"
  /\ gsm = "device_config" => current.sig = "ACK"
  /\ timer'["gsm"] = gsm' /\ (gsm' \in Unsent \/ tx' # <<>>) /\ op' = op
  /\ Tells({})
GsmFails ==
  /\ \/ current.sig = "TIMEOUT" /\ gsm = "check_comlink" /\ timer' = timer
     \/ gsm = "device_config" /\ timer'["gsm"] = "off"
  /\ gsm' = "powering_on" /\ op' = op /\ Tells(Reports)
GsmConfigured ==
  /\ current.sig = "ACK" /\ gsm = "device_config"
  /\ gsm' = "active_idle" /\ timer'["gsm"] = "off" /\ op' = op /\ Tells({"INIT_DONE"})
GsmAccepts ==
  /\ current.sig \in Requests /\ gsm = "active_idle"
  /\ gsm' = Operation[current.sig] /\ timer'["gsm"] = gsm' /\ tx' # <<>> /\ op' = OpOf(gsm')
  /\ Tells({})
GsmSends ==
  /\ gsm \in {"sms_send", "sms_send_support", "network_status"}
  /\ gsm' = gsm /\ timer'["gsm"] = "off" /\ op' \in {op, "NONE"}
  /\ Posts({"BUFFER_FULL"}, {}, {})
GsmOverflows ==
  /\ gsm \in {"sms_send", "sms_send_support"} /\ gsm' = "sms_send_support"
  /\ UNCHANGED <<timer, tx, op>> /\ Tells({})

(* How an operation ends, and what is told of it.                          *)
Outcomes ==
  [network_status |-> {"NETWORK_CONNECTED", "NETWORK_ERROR"},
   sms_delete |-> {"SMS_DELETE_DONE"}, time_set |-> {"CLOCK_SET_DONE"},
   time_get |-> {"CLOCK_READ_DONE"}, sms_send |-> {"SMS_SENT"},
   sms_send_support |-> {"SMS_SENT"}, sms_read |-> {"SMS_READ_DONE"},
   sms_extract_time |-> {"SMS_READ_DONE"}, sms_presence |-> {"SMS_NOT_FOUND"}]
GsmEnds ==
  /\ gsm \in OperationStates /\ gsm' = "active_idle"
  /\ timer'["gsm"] = "off" /\ op' = "NONE"
  /\ \/ current.sig = "TIMEOUT" /\ Tells(Reports)
     \/ current.sig = "CLOCK_RESPONSE" /\ gsm = "time_get" /\ Tells({})
     \/ current.sig = "ACK" /\ Tells(Outcomes[gsm] \cup Reports)

GsmDoes ==
  \/ GsmStays \/ GsmOpens \/ GsmArms \/ GsmFails \/ GsmConfigured
  \/ GsmAccepts \/ GsmSends \/ GsmOverflows \/ GsmEnds

LEMMA Telling ==
  ASSUME KernelType, Handed, current' = Idle
  PROVE  /\ queue' = queue => \A S : Tells(S)
         /\ \A S : \A sig \in Signals \cap S : queue' = Told(sig) => Tells(S)
         /\ queue' = Post(queue, "app", EventPar("SMS_FOUND", "ix")) => Tells(Reports)
         /\ queue' = Post(queue, "com", Event("OPEN_REQUEST")) => Tells({})
         /\ queue' \in {queue, Post(queue, "gsm", EventPar("BUFFER_FULL", "rest"))} =>
              Posts({"BUFFER_FULL"}, {}, {})
<1>o. /\ "0" \in Pars /\ "rest" \in Pars /\ "ix" \in Pars
      /\ "OPEN_REQUEST" \in Signals /\ "BUFFER_FULL" \in Signals /\ "SMS_FOUND" \in Signals
      /\ "SMS_FOUND" \in Reports
  BY Keyless DEF Pars, Reports
<1>1. /\ queue' = queue => \A S : Tells(S)
      /\ \A S : \A sig \in Signals \cap S : queue' = Told(sig) => Tells(S)
  BY <1>o, Posting DEF Tells, Told, Event
<1>2. queue' = Post(queue, "app", EventPar("SMS_FOUND", "ix")) => Tells(Reports)
  BY <1>o, Posting DEF Tells
<1>3. queue' = Post(queue, "com", Event("OPEN_REQUEST")) => Tells({})
  BY <1>o, Posting DEF Tells, Event
<1>4. queue' \in {queue, Post(queue, "gsm", EventPar("BUFFER_FULL", "rest"))} =>
        Posts({"BUFFER_FULL"}, {}, {})
  BY <1>o, Posting
<1> QED
  BY <1>1, <1>2, <1>3, <1>4

LEMMA TellsMore ==
  ASSUME NEW S, NEW T, S \subseteq T, Tells(S)
  PROVE  Tells(T)
<1>1. Of(S) \subseteq Of(T)
  BY DEF Of
<1> QED
  BY <1>1, GainsMore DEF Tells, Posts

LEMMA OutcomeTold ==
  ASSUME GsmType, gsm \in OperationStates \ {"network_status", "sms_presence"}
  PROVE  Outcome(gsm) \in Signals \cap (Outcomes[gsm] \cup Reports)
<1>1. gsm \in {"sms_delete", "time_set", "time_get", "sms_send", "sms_send_support",
               "sms_read", "sms_extract_time"}
  BY DEF OperationStates, Operation, Requests
<1>2. Outcome(gsm) \in Outcomes[gsm] \cup Reports
  BY <1>1 DEF Outcome, Outcomes, Reports
<1> QED
  BY <1>2, OutcomeSignal

LEMMA GsmDoing ==
  ASSUME TypeOK, Handed, GsmHandler, ~Parsing
  PROVE  current.ao = "gsm" /\ current' = Idle /\ GsmDoes
<1> USE DEF Handling
<1>0. KernelType /\ LinkType /\ GsmType /\ "gsm" \in Objects
  BY TwoQueues DEF TypeOK
<1> DEFINE G == current.ao = "gsm" /\ current' = Idle
<1>t. /\ timer \in Timers /\ Disarm(timer, "gsm")["gsm"] = "off"
      /\ \A s : Armed(s)["gsm"] = s
  BY <1>0 DEF KernelType, Timers, Disarm, Armed, Arm
<1>x. ASSUME NEW c, tx' = Append(tx, c)
      PROVE  tx' # <<>>
  BY <1>0, <1>x DEF LinkType
<1>r. {"MODULE_FAILURE", "INIT_FAILURE", "SMS_NEW", "BUSY", "SMS_FOUND", "SMS_NOT_FOUND",
       "NETWORK_ERROR"} \subseteq Signals \cap Reports
  BY Keyless DEF Reports
<1>q. ASSUME current' = Idle
      PROVE  /\ queue' = queue => Tells({}) /\ Tells(Reports)
             /\ \A sig \in {"MODULE_FAILURE", "INIT_FAILURE", "SMS_NEW", "BUSY",
                            "SMS_NOT_FOUND", "NETWORK_ERROR"} :
                  queue' = Told(sig) => Tells(Reports)
  BY <1>0, <1>q, <1>r, Telling
<1>1. CASE StartAo \/ ComOpened
  <2>1. CASE StartAo
    <3>1. G /\ Tells({})
      BY <1>0, <2>1, Telling DEF StartAo, Return
    <3>2. /\ UNCHANGED <<timer, tx, op>> /\ current.sig = "START_AO"
          /\ gsm = "systemsetup" /\ gsm' = "opencom"
      BY <2>1 DEF StartAo, Return, GsmOnly, linkVars, controlVars
    <3> QED
      BY <3>1, <3>2 DEF GsmDoes, GsmOpens
  <2>2. CASE ComOpened
    <3>1. G /\ Tells({})
      BY <1>q, <2>2 DEF ComOpened, Ignore, Return
    <3> QED
      BY <2>2, <3>1
      DEF ComOpened, Ignore, Return, GsmOnly, linkVars, controlVars, GsmDoes, GsmOpens
  <2> QED
    BY <1>1, <2>1, <2>2
<1>2. CASE PowerKey \/ PoweredOn \/ RetryAt \/ LinkUp \/ ConfigNext
  <2>1. G /\ Tells({})
    BY <1>q, <1>2 DEF PowerKey, PoweredOn, RetryAt, LinkUp, ConfigNext, Return
  <2>2. /\ timer'["gsm"] = gsm' /\ op' = op
        /\ gsm' = "powering_on" \/ \E c : tx' = Append(tx, c)
    BY <1>2, <1>t
    DEF PowerKey, PoweredOn, RetryAt, LinkUp, ConfigNext, Return, Sends, gsmVars, controlVars
  <2>3. /\ \/ gsm' = gsm /\ gsm \in {"powering_on", "check_comlink", "device_config"}
           \/ current.sig = "TIMEOUT" /\ gsm = "powering_on" /\ gsm' = "check_comlink"
           \/ current.sig = "ACK" /\ gsm = "check_comlink" /\ gsm' = "device_config"
        /\ gsm = "check_comlink" /\ gsm' = gsm => current.sig = "TIMEOUT"
        /\ gsm = "device_config" => current.sig = "ACK"
    BY <1>2 DEF PowerKey, PoweredOn, RetryAt, LinkUp, ConfigNext, gsmVars, controlVars
  <2> QED
    BY <1>x, <2>1, <2>2, <2>3 DEF GsmDoes, GsmArms, Unsent
<1>3. CASE NoModem \/ ConfigFails
  <2>1. G /\ Tells(Reports)
    BY <1>q, <1>3 DEF NoModem, ConfigFails, Return
  <2> QED
    BY <1>3, <1>t, <2>1
    DEF NoModem, ConfigFails, Return, controlVars, GsmDoes, GsmFails
<1>4. CASE ConfigDone
  <2>1. G /\ Tells({"INIT_DONE"})
    BY <1>0, <1>4, Telling, Keyless DEF ConfigDone, Return
  <2> QED
    BY <1>4, <1>t, <2>1 DEF ConfigDone, Return, GsmDoes, GsmConfigured
<1>5. ASSUME NEW r \in Requests, Accept(r)
      PROVE  G /\ GsmDoes
  <2>1. G /\ Tells({})
    BY <1>q, <1>5 DEF Accept, Return
  <2>2. /\ current.sig = r /\ gsm = "active_idle" /\ gsm' = Operation[r]
        /\ timer'["gsm"] = gsm' /\ op' = OpOf(gsm') /\ \E c : tx' = Append(tx, c)
    BY <1>5, <1>t DEF Accept, Return, Sends
  <2> QED
    BY <1>x, <2>1, <2>2 DEF GsmDoes, GsmAccepts
<1>6. CASE IdleTells \/ ParseDone \/ GsmIgnores
  <2>1. G /\ Tells(Reports)
    BY <1>q, <1>6 DEF IdleTells, ParseDone, GsmIgnores, Ignore, Return
  <2>2. UNCHANGED <<gsm, timer, tx, op>>
    BY <1>6
    DEF IdleTells, ParseDone, GsmIgnores, Ignore, Return, GsmOnly, linkVars, gsmVars, controlVars
  <2> QED
    BY <2>1, <2>2 DEF GsmDoes, GsmStays
<1>7. CASE OperationTimesOut \/ NetworkTimesOut
  <2>1. G /\ Tells(Reports)
    BY <1>q, <1>7 DEF OperationTimesOut, NetworkTimesOut, BackToIdle, Return
  <2>2. gsm \in OperationStates
    BY <1>7 DEF OperationTimesOut, NetworkTimesOut, OperationStates, Operation, Requests
  <2> QED
    BY <1>7, <1>t, <2>1, <2>2
    DEF OperationTimesOut, NetworkTimesOut, BackToIdle, Return, GsmDoes, GsmEnds
<1>8. CASE NetworkReport \/ OperationDone \/ PresenceDone
  <2>1. CASE NetworkReport
    <3>1. G /\ Tells({"NETWORK_CONNECTED", "NETWORK_ERROR"})
      BY <1>0, <2>1, Telling, Keyless DEF NetworkReport, BackToIdle, Return
    <3>2. Tells(Outcomes[gsm] \cup Reports)
      <4>1. {"NETWORK_CONNECTED", "NETWORK_ERROR"} \subseteq Outcomes[gsm] \cup Reports
        BY <2>1 DEF NetworkReport, Outcomes
      <4> QED
        BY <3>1, <4>1, TellsMore
    <3>3. gsm \in OperationStates
      BY <2>1 DEF NetworkReport, OperationStates, Operation, Requests
    <3> QED
      BY <1>t, <2>1, <3>1, <3>2, <3>3 DEF NetworkReport, BackToIdle, Return, GsmDoes, GsmEnds
  <2>2. CASE OperationDone
    <3>1. G /\ queue' = Told(Outcome(gsm)) /\ gsm \in OperationStates \ {"network_status", "sms_presence"}
      BY <2>2 DEF OperationDone, BackToIdle, Return
    <3>2. Tells(Outcomes[gsm] \cup Reports)
      BY <1>0, <3>1, OutcomeTold, Telling
    <3> QED
      BY <1>t, <2>2, <3>1, <3>2 DEF OperationDone, BackToIdle, Return, GsmDoes, GsmEnds
  <2>3. CASE PresenceDone
    <3>1. G /\ Tells(Reports)
      BY <1>q, <2>3 DEF PresenceDone, BackToIdle, Return
    <3>2. Tells(Outcomes[gsm] \cup Reports)
      BY <3>1, TellsMore
    <3>3. gsm \in OperationStates
      BY <2>3 DEF PresenceDone, OperationStates, Operation, Requests
    <3> QED
      BY <1>t, <2>3, <3>1, <3>2, <3>3 DEF PresenceDone, BackToIdle, Return, GsmDoes, GsmEnds
  <2> QED
    BY <1>8, <2>1, <2>2, <2>3
<1>9. CASE ClockGarbled
  <2>1. G /\ Tells({})
    BY <1>q, <1>9 DEF ClockGarbled, Return
  <2>2. gsm \in OperationStates
    BY <1>9 DEF ClockGarbled, OperationStates, Operation, Requests
  <2> QED
    BY <1>9, <1>t, <2>1, <2>2 DEF ClockGarbled, Return, GsmDoes, GsmEnds
<1>10. CASE NetworkRetry \/ NetworkSearching
  <2>1. G /\ Tells({})
    BY <1>q, <1>10 DEF NetworkRetry, NetworkSearching, Return
  <2> QED
    BY <1>10, <1>t, <2>1 DEF NetworkRetry, NetworkSearching, Return, GsmDoes, GsmArms, Unsent
<1>11. CASE NetworkResponse \/ KeepResponse
  <2>1. G /\ Tells(Reports)
    BY <1>0, <1>q, <1>11, Telling DEF NetworkResponse, KeepResponse, Ignore, Return
  <2> QED
    BY <1>11, <2>1 DEF NetworkResponse, KeepResponse, Ignore, Return, GsmOnly, linkVars,
                       GsmDoes, GsmStays
<1>12. CASE NetworkFallsThrough \/ SendText
  <2>1. ASSUME SendText, current.par # "PROMPT"
        PROVE  G /\ GsmDoes
    <3>1. G /\ Tells(Reports)
      BY <1>q, <2>1 DEF SendText, Ignore, Return
    <3> QED
      BY <2>1, <3>1 DEF SendText, Ignore, Return, GsmOnly, linkVars, GsmDoes, GsmStays
  <2>2. ASSUME NetworkFallsThrough \/ SendText, SendText => current.par = "PROMPT"
        PROVE  G /\ GsmDoes
    <3>1. /\ G /\ timer'["gsm"] = "off" /\ gsm' = gsm /\ op' \in {op, "NONE"}
          /\ gsm \in {"sms_send", "sms_send_support", "network_status"}
          /\ queue' = queue \/ queue' = Post(queue, "gsm", EventPar("BUFFER_FULL", "rest"))
      BY <2>2, <1>t DEF NetworkFallsThrough, SendText, Return
    <3>2. Posts({"BUFFER_FULL"}, {}, {})
      BY <1>0, <3>1, Telling
    <3> QED
      BY <3>1, <3>2 DEF GsmDoes, GsmSends
  <2> QED
    BY <1>12, <2>1, <2>2
<1>13. CASE BufferFull
  <2>1. G /\ Tells({})
    BY <1>q, <1>13 DEF BufferFull, Ignore, Return
  <2> QED
    BY <1>13, <2>1 DEF BufferFull, Ignore, Return, GsmOnly, linkVars, GsmDoes, GsmOverflows
<1>14. CASE SendRest
  <2>1. G /\ Tells({}) /\ Tells(Reports) /\ gsm' = gsm /\ op' = op /\ gsm = "sms_send_support"
    BY <1>q, <1>14 DEF SendRest, Ignore, Return
  <2>2. CASE flash # "0"
    <3>1. timer'["gsm"] = gsm' /\ \E c : tx' = Append(tx, c)
      BY <1>14, <1>t, <2>2 DEF SendRest, Return, Sends
    <3> QED
      BY <1>x, <2>1, <3>1 DEF GsmDoes, GsmArms
  <2>3. CASE flash = "0"
    BY <1>14, <2>1, <2>3 DEF SendRest, Ignore, Return, GsmOnly, linkVars, GsmDoes, GsmStays
  <2> QED
    BY <2>2, <2>3
<1>15. CASE ExtractTime
  <2>1. /\ G
        /\ Tells(Reports) \/ Tells({"PARSING_ERROR"})
        /\ gsm = "sms_extract_time" /\ current.sig = "SMS_RESPONSE"
    BY <1>0, <1>q, <1>15, Telling, Keyless DEF ExtractTime, Ignore, Return
  <2> QED
    BY <1>15, <2>1 DEF ExtractTime, Ignore, Return, GsmOnly, linkVars, GsmDoes, GsmStays
<1>16. ~ParseLine
  BY DEF ParseLine, Parsing
<1> QED
  BY <1>1, <1>2, <1>3, <1>4, <1>5, <1>6, <1>7, <1>8, <1>9, <1>10, <1>11, <1>12, <1>13, <1>14,
     <1>15, <1>16
  DEF GsmHandler, GsmInactive, GsmOperation

(* The parser: what an OK does, a response of the clock, any other line.   *)
OtherResults == {"ERROR", "RECIEVE_URC", "SMS_RESPONSE", "NETWORK_RESPONSE"}

LEMMA ParserGains ==
  ASSUME TypeOK, Handed, GsmHandler, Parsing
  PROVE  /\ InHand("gsm", "DATA_AVAILABLE") /\ UNCHANGED <<current, gsmVars, tx>>
         /\ avail' = avail - 1
         /\ \/ timer'["gsm"] = "off" /\ Posts({"ACK"}, {}, {})
            \/ timer' = timer /\ op = "ACC" /\ Posts({"CLOCK_RESPONSE"}, {}, {})
            \/ timer' = timer /\ Posts(OtherResults, {}, {})
<1>0. /\ KernelType /\ "gsm" \in Objects /\ "app" \in Objects /\ "emon" \in Objects
      /\ queue["gsm"] \in Seq(Events)
  BY TwoQueues, ConfigurationOfMain DEF TypeOK, ObjectsOfMain
<1>1. current.ao = "gsm"
  BY DEF GsmHandler, GsmInactive, StartAo, ComOpened, PowerKey, PoweredOn, RetryAt, NoModem,
         LinkUp, ConfigNext, ConfigDone, ConfigFails, Accept, IdleTells, ParseLine, ParseDone,
         GsmOperation, GsmIgnores, Handling, OperationDone, PresenceDone, OperationTimesOut,
         NetworkTimesOut, NetworkReport, ClockGarbled, NetworkRetry, NetworkResponse,
         NetworkSearching, NetworkFallsThrough, SendText, BufferFull, SendRest, KeepResponse,
         ExtractTime
<1>2. ParseLine
  BY DEF Parsing, GsmHandler, GsmInactive, StartAo, ComOpened, PowerKey, PoweredOn, RetryAt, NoModem,
         LinkUp, ConfigNext, ConfigDone, ConfigFails, Accept, IdleTells, ParseDone,
         GsmOperation, GsmIgnores, Handling, OperationDone, PresenceDone, OperationTimesOut,
         NetworkTimesOut, NetworkReport, ClockGarbled, NetworkRetry, NetworkResponse,
         NetworkSearching, NetworkFallsThrough, SendText, BufferFull, SendRest, KeepResponse,
         ExtractTime, Requests, Operation
<1>3. /\ current' = current /\ queue'["app"] = queue["app"] /\ queue'["emon"] = queue["emon"]
      /\ queue'["gsm"] = queue["gsm"] \o Parsed(Head(rx))
      /\ timer' = IF Head(rx) = "OK" THEN Disarm(timer, "gsm") ELSE timer
  BY <1>0, <1>2 DEF ParseLine, KernelType, Queues
<1> DEFINE l == Head(rx)
<1>4. l \in Lines
  BY DEF Parsing, TypeOK, LinkType
<1>5. \/ /\ l = "OK" /\ \E e \in Acks : Parsed(l) = <<e>>
      \/ /\ l # "OK" /\ op = "ACC" /\ \E e \in Of({"CLOCK_RESPONSE"}) : Parsed(l) = <<e>>
      \/ /\ l # "OK" /\ \E e \in Of(OtherResults) : Parsed(l) = <<e>>
      \/ /\ l # "OK" /\ Parsed(l) = <<>>
  <2> HIDE DEF l
  <2>0. /\ \A sig \in Signals, par \in Pars : \A S : sig \in S => EventPar(sig, par) \in Of(S)
        /\ l \in Pars /\ "0" \in Pars
        /\ {"ACK", "CLOCK_RESPONSE"} \cup OtherResults \subseteq Signals
    <3>1. {"ACK", "CLOCK_RESPONSE"} \cup OtherResults \subseteq Signals
      BY DEF OtherResults, Signals
    <3>2. l \in Pars /\ "0" \in Pars
      BY <1>4 DEF Pars
    <3>3. ASSUME NEW sig \in Signals, NEW par \in Pars, NEW S, sig \in S
          PROVE  EventPar(sig, par) \in Of(S)
      BY <3>3, EventType DEF Of, EventPar
    <3> QED
      BY <3>1, <3>2, <3>3
  <2>1. CASE l = "OK"
    <3>1. Parsed("OK") = <<EventPar("ACK", "OK")>>
      BY ModemAssumption DEF Parsed
    <3>2. EventPar("ACK", "OK") \in Acks
      BY <2>0, <2>1 DEF Acks
    <3> QED
      BY <2>1, <3>1, <3>2
  <2>2. CASE l \in {"ERROR", "CMTI"}
    BY <2>0, <2>2 DEF Parsed, OtherResults, Event
  <2>3. CASE l \in {"PROMPT", "CMGS", "CMGR", "CMGL"}
    BY <2>0, <2>3, ModemAssumption DEF Parsed, OtherResults
  <2>4. CASE l = "CCLK"
    BY <2>0, <2>4, ModemAssumption DEF Parsed
  <2>5. CASE l \in Registrations
    BY <2>0, <2>5, ModemAssumption DEF Parsed, OtherResults
  <2> QED
    BY <1>4, <2>1, <2>2, <2>3, <2>4, <2>5 DEF Lines
<1>6. ASSUME NEW e \in Events, Parsed(l) = <<e>>
      PROVE  queue'["gsm"] = Append(queue["gsm"], e) /\ Gains("gsm", {e})
  <2>1. queue["gsm"] \o <<e>> = Append(queue["gsm"], e)
    BY <1>0
  <2>2. queue'["gsm"] = queue["gsm"] \o <<e>>
    BY <1>3, <1>6
  <2>3. queue'["gsm"] = Append(queue["gsm"], e)
    BY <2>1, <2>2
  <2> QED
    BY <1>0, <1>3, <2>3, Gaining
<1>7. Parsed(l) = <<>> => queue'["gsm"] = queue["gsm"] /\ Gains("gsm", {})
  <2>0. queue["gsm"] \o <<>> = queue["gsm"]
    BY <1>0
  <2>1. Parsed(l) = <<>> => queue'["gsm"] = queue["gsm"]
    BY <1>3, <2>0
  <2> QED
    BY <1>0, <1>3, <2>1, Gaining
<1>8. /\ \A e \in Acks : {e} \subseteq Of({"ACK"}) /\ e \in Events
      /\ \A S : \A e \in Of(S) : {e} \subseteq Of(S) /\ e \in Events
      /\ \A S : {} \subseteq Of(S)
  BY DEF Of, Acks
<1>9. Gains("app", Of({})) /\ Gains("emon", Of({}))
  BY <1>0, <1>3, <1>8, Gaining, GainsMore
<1> HIDE DEF l
<1>10. /\ InHand("gsm", "DATA_AVAILABLE") /\ UNCHANGED <<current, gsmVars, tx>>
       /\ avail' = avail - 1
  BY <1>2, <1>3 DEF ParseLine, Handling, InHand
<1>11. CASE l = "OK" /\ \E e \in Acks : Parsed(l) = <<e>>
  <2>1. Gains("gsm", Of({"ACK"}))
    BY <1>6, <1>8, <1>11, GainsMore
  <2>2. timer'["gsm"] = "off"
    BY <1>0, <1>3, <1>11 DEF Disarm, KernelType, Timers, l
  <2> QED
    BY <1>9, <1>10, <2>1, <2>2 DEF Posts
<1>12. CASE l # "OK" /\ op = "ACC" /\ \E e \in Of({"CLOCK_RESPONSE"}) : Parsed(l) = <<e>>
  <2>1. Gains("gsm", Of({"CLOCK_RESPONSE"}))
    BY <1>6, <1>8, <1>12, GainsMore
  <2>2. timer' = timer
    BY <1>3, <1>12 DEF l
  <2> QED
    BY <1>9, <1>10, <1>12, <2>1, <2>2 DEF Posts
<1>13. CASE l # "OK" /\ (Parsed(l) = <<>> \/ \E e \in Of(OtherResults) : Parsed(l) = <<e>>)
  <2>1. Gains("gsm", Of(OtherResults))
    BY <1>6, <1>7, <1>8, <1>13, GainsMore
  <2>2. timer' = timer
    BY <1>3, <1>13 DEF l
  <2> QED
    BY <1>9, <1>10, <2>1, <2>2 DEF Posts
<1> QED
  BY <1>5, <1>11, <1>12, <1>13

-----------------------------------------------------------------------------
(* What the handlers of the application do: what brings the state forward, *)
(* and what is asked of the GSM object, of the application itself and of   *)
(* the energy monitor, at most.                                            *)
AppRemains(R, S, T) == app' = app /\ <<R, S, T>> = <<{"GSM_INIT"}, {"SEND_BROADCAST"}, {}>>
AppIdles(R, S, T) ==
  /\ \/ current.sig = "NETWORK_CONNECTED" /\ app = "init"
     \/ current.sig = "SMS_DELETE_DONE" /\ app = "cleanup"
  /\ app' = "app_idle" /\ <<R, S, T>> = <<{}, {"SMS_NEW"}, {}>>
AppConnects(R, S, T) ==
  /\ current.sig = "INIT_DONE" /\ app = "init" /\ app' = app
  /\ <<R, S, T>> = <<{"NETWORK_READ"}, {}, {}>>
AppRecieves(R, S, T) ==
  /\ current.sig = "SMS_NEW" /\ app = "app_idle" /\ app' = "reciever"
  /\ <<R, S, T>> = <<{"CHECK_PRESENCE"}, {}, {}>>
AppFinds(R, S, T) ==
  /\ current.sig = "SMS_FOUND" /\ app = "reciever" /\ app' = app
  /\ <<R, S, T>> = <<{"SMS_READ"}, {}, {}>>
AppActs(R, S, T) ==
  /\ current.sig = "SMS_READ_DONE" /\ app = "reciever"
  /\ \/ app' = "validate" /\ <<R, S, T>> = <<{}, {"TRANSITION_OUT"}, {}>>
     \/ app' \in {"get_status", "action_on", "action_off"} /\ <<R, S, T>> = <<{"CLOCK_READ"}, {}, {}>>
     \/ app' = "action_menu" /\ <<R, S, T>> = <<{}, {"START_SESSION"}, {}>>
     \/ app' \in MenuOptions \ {"set_time"} /\ <<R, S, T>> = <<{"SMS_SEND"}, {}, {}>>
     \/ app' \in MenuOptions \cap {"set_time"} /\ <<R, S, T>> = <<{"EXTRACT_TIME"}, {}, {}>>
AppPulses(R, S, T) ==
  /\ current.sig = "TIMEOUT" /\ app \in {"action_on", "action_off"} /\ app' = app
  /\ <<R, S, T>> = <<{"CLOCK_READ"}, {}, {}>>
AppOpens(R, S, T) ==
  /\ current.sig = "START_SESSION" /\ app \in MenuStates /\ app' = app
  /\ <<R, S, T>> = <<{"SMS_SEND"}, {}, {}>>
AppSets(R, S, T) ==
  /\ app = "set_time" /\ app' = app
  /\ \/ current.sig = "SMS_READ_DONE" /\ <<R, S, T>> = <<{"CLOCK_SET"}, {}, {}>>
     \/ current.sig = "CLOCK_SET_DONE" /\ <<R, S, T>> = <<{"CLOCK_READ"}, {}, {}>>
AppReads(R, S, T) ==
  /\ current.sig = "CLOCK_READ_DONE" /\ app' = app
  /\ \/ app \in {"action_on", "action_off", "set_time"} /\ <<R, S, T>> = <<{"SMS_SEND"}, {}, {}>>
     \/ app = "get_status" /\ <<R, S, T>> = <<{}, {}, {"READ_ENTITY"}>>
AppMeasures(R, S, T) ==
  /\ app = "get_status" /\ app' = app
  /\ \/ /\ current.sig = "MEASUREMENT_DONE"
        /\ <<R, S, T>> = <<{}, {}, {"READ_ENTITY"}>> \/ <<R, S, T>> = <<{}, {"STATUS_READ_DONE"}, {}>>
     \/ /\ current.sig = "STATUS_READ_DONE"
        /\ <<R, S, T>> = <<{"SMS_SEND"}, {}, {}>> \/ <<R, S, T>> = <<{}, {"SMS_SENT"}, {}>>
AppBroadcasts(R, S, T) ==
  /\ current.sig = "SEND_BROADCAST" /\ app = "app_idle" /\ app' = "get_status"
  /\ <<R, S, T>> = <<{"CLOCK_READ"}, {}, {}>>
AppGoesOn(R, S, T) ==
  /\ current.sig = "SMS_SENT" /\ app = "get_status" /\ app' = app
  /\ <<R, S, T>> = <<{"SMS_SEND"}, {}, {}>>
AppLeaves(R, S, T) ==
  /\ \/ current.sig = "SMS_SENT" /\ app \in ActionStates \ {"validate"}
     \/ current.sig = "TRANSITION_OUT" /\ app \in ActiveStates
     \/ current.sig = "SMS_NOT_FOUND" /\ app = "reciever"
     \/ current.sig = "PARSING_ERROR" /\ app = "set_time"
  /\ app' = "cleanup" /\ <<R, S, T>> = <<{"SMS_DELETE"}, {}, {}>>

AppMove(R, S, T) ==
  \/ AppRemains(R, S, T) \/ AppIdles(R, S, T) \/ AppConnects(R, S, T) \/ AppRecieves(R, S, T)
  \/ AppFinds(R, S, T) \/ AppActs(R, S, T) \/ AppPulses(R, S, T) \/ AppOpens(R, S, T)
  \/ AppSets(R, S, T) \/ AppReads(R, S, T) \/ AppMeasures(R, S, T) \/ AppBroadcasts(R, S, T)
  \/ AppGoesOn(R, S, T) \/ AppLeaves(R, S, T)
AppDoes == \E R, S, T : Posts(R, S, T) /\ AppMove(R, S, T)

LEMMA AppDoing ==
  ASSUME TypeOK, Handed, AppHandler
  PROVE  current.ao = "app" /\ current' = Idle /\ AppDoes
<1> USE DEF Handling, MessageRead
<1>0. KernelType /\ AppType /\ current.par \in Pars /\ "0" \in Pars /\ "1" \in Pars
      /\ "SMS_UNREAD" \in Pars
  BY AppStatesNamed DEF TypeOK, KernelType
<1>i. AppReturns /\ current.ao = "app"
  BY <1>0, AppHandlerReturns
<1>j. current' = Idle
  BY <1>i DEF AppReturns, Return
<1>n. "action_menu" \notin MenuOptions /\ "validate" \notin MenuOptions
  BY AppAssumption
<1>p. /\ queue' = queue => \A R, S, T : Posts(R, S, T)
      /\ \A R, S, T : \A sig \in R : sig \in Signals =>
           /\ queue' = Asks(sig) => Posts(R, S, T)
           /\ \A par \in Pars : queue' = AskWith(sig, par) => Posts(R, S, T)
      /\ \A R, S, T : \A sig \in S : sig \in Signals => (queue' = Self(sig) => Posts(R, S, T))
      /\ queue' = Post(queue, "emon", Event("READ_ENTITY")) =>
           Posts({}, {}, {"READ_ENTITY"})
  <2>1. "READ_ENTITY" \in Signals
    BY AppSignals
  <2>2. ASSUME NEW R, NEW S, NEW T, NEW sig \in R, sig \in Signals
        PROVE  /\ queue' = Asks(sig) => Posts(R, S, T)
               /\ \A par \in Pars : queue' = AskWith(sig, par) => Posts(R, S, T)
    BY <1>0, <1>j, <2>2, Posting DEF Asks, AskWith, Event
  <2>3. ASSUME NEW R, NEW S, NEW T, NEW sig \in S, sig \in Signals
        PROVE  queue' = Self(sig) => Posts(R, S, T)
    BY <1>0, <1>j, <2>3, Posting DEF Self, Event
  <2>4. /\ queue' = queue => \A R, S, T : Posts(R, S, T)
        /\ queue' = Post(queue, "emon", Event("READ_ENTITY")) => Posts({}, {}, {"READ_ENTITY"})
    BY <1>0, <1>j, <2>1, Posting DEF Event
  <2> QED
    BY <2>2, <2>3, <2>4
<1>1. CASE StartModem \/ NetworkDown \/ ActivePeriod \/ Defer \/ IdlePeriod \/ AppIgnores
  <2>1. /\ app' = app
        /\ queue' = queue \/ queue' = Asks("GSM_INIT") \/ queue' = Self("SEND_BROADCAST")
    BY <1>1
    DEF StartModem, NetworkDown, ActivePeriod, Defer, IdlePeriod, AppIgnores, Ignore, Return,
        appVars
  <2>2. Posts({"GSM_INIT"}, {"SEND_BROADCAST"}, {})
    BY <1>p, <2>1, AppSignals
  <2> QED
    BY <1>i, <1>j, <2>1, <2>2 DEF AppDoes, AppMove, AppRemains
<1>2. CASE Registered \/ Deleted
  <2>1. EnterIdle(queue)
    BY <1>2 DEF Registered, Deleted
  <2>2. app' = "app_idle" /\ (queue' = queue \/ queue' = Self("SMS_NEW"))
    BY <2>1 DEF EnterIdle, Return, Self
  <2>3. Posts({}, {"SMS_NEW"}, {})
    BY <1>p, <2>2, AppSignals
  <2> QED
    BY <1>2, <1>i, <1>j, <2>2, <2>3 DEF Registered, Deleted, AppDoes, AppMove, AppIdles
<1>3. CASE ModemUp
  <2>1. Posts({"NETWORK_READ"}, {}, {})
    BY <1>p, <1>3, AppSignals DEF ModemUp, Return
  <2> QED
    BY <1>3, <1>i, <1>j, <2>1 DEF ModemUp, appVars, AppDoes, AppMove, AppConnects
<1>4. CASE Recieve
  <2>1. Posts({"CHECK_PRESENCE"}, {}, {})
    BY <1>0, <1>p, <1>4, AppSignals DEF Recieve, Return
  <2> QED
    BY <1>4, <1>i, <1>j, <2>1 DEF Recieve, AppDoes, AppMove, AppRecieves
<1>5. CASE MessageFound
  <2>1. Posts({"SMS_READ"}, {}, {})
    BY <1>0, <1>p, <1>5, AppSignals DEF MessageFound, Return
  <2> QED
    BY <1>5, <1>i, <1>j, <2>1 DEF MessageFound, appVars, AppDoes, AppMove, AppFinds
<1>6. CASE Reject
  <2>1. Posts({}, {"TRANSITION_OUT"}, {})
    BY <1>p, <1>6, AppSignals DEF Reject, Return
  <2> QED
    BY <1>6, <1>i, <1>j, <2>1 DEF Reject, AppDoes, AppMove, AppActs
<1>7. CASE AskStatus \/ AskOn \/ AskOff
  <2>1. queue' = Asks("CLOCK_READ") \/ queue' = queue
    BY <1>7 DEF AskStatus, AskOn, AskOff, AskMotor, Switch, Return
  <2>2. Posts({"CLOCK_READ"}, {}, {})
    BY <1>p, <2>1, AppSignals
  <2> QED
    BY <1>7, <1>i, <1>j, <2>2 DEF AskStatus, AskOn, AskOff, AskMotor, Switch, AppDoes, AppMove, AppActs
<1>8. CASE AskSession
  <2>1. Posts({}, {"START_SESSION"}, {})
    BY <1>p, <1>8, AppSignals DEF AskSession, Return
  <2> QED
    BY <1>8, <1>i, <1>j, <2>1 DEF AskSession, AppDoes, AppMove, AppActs
<1>9. ASSUME NEW u \in Users, NEW o \in MenuOptions, MenuStep(u, o)
      PROVE  AppDoes
  <2>1. /\ current.sig = "SMS_READ_DONE" /\ app = "reciever" /\ app' = o
        /\ \/ o # "set_time" /\ queue' = Asks("SMS_SEND")
           \/ o = "set_time" /\ (queue' = Asks("EXTRACT_TIME") \/ queue' = queue)
    BY <1>9 DEF MenuStep, Return
  <2>2. /\ queue' = Asks("SMS_SEND") => Posts({"SMS_SEND"}, {}, {})
        /\ queue' = Asks("EXTRACT_TIME") \/ queue' = queue => Posts({"EXTRACT_TIME"}, {}, {})
    BY <1>p, AppSignals
  <2> QED
    BY <2>1, <2>2 DEF AppDoes, AppMove, AppActs
<1>10. CASE StartSession
  <2>1. Posts({"SMS_SEND"}, {}, {})
    BY <1>0, <1>p, <1>10, AppSignals DEF StartSession, Return
  <2> QED
    BY <1>10, <1>i, <1>j, <2>1 DEF StartSession, AppDoes, AppMove, AppOpens
<1>11. CASE SetTimeRead \/ SetTimeDone
  <2>1. /\ SetTimeRead => Posts({"CLOCK_SET"}, {}, {})
        /\ SetTimeDone => Posts({"CLOCK_READ"}, {}, {})
    BY <1>p, AppSignals DEF SetTimeRead, SetTimeDone, Return
  <2> QED
    BY <1>11, <1>i, <1>j, <2>1 DEF SetTimeRead, SetTimeDone, appVars, AppDoes, AppMove, AppSets
<1>12. CASE ClockRead
  <2>1. IF app = "get_status" THEN Posts({}, {}, {"READ_ENTITY"}) ELSE Posts({"SMS_SEND"}, {}, {})
    BY <1>p, <1>12, AppSignals DEF ClockRead, Return
  <2> QED
    BY <1>12, <1>i, <1>j, <2>1 DEF ClockRead, appVars, AppDoes, AppMove, AppReads
<1>13. CASE OnEnds \/ OffEnds
  <2>1. Posts({"CLOCK_READ"}, {}, {})
    BY <1>p, <1>13, AppSignals DEF OnEnds, OffEnds, PulseEnds, Return
  <2> QED
    BY <1>13, <1>i, <1>j, <2>1 DEF OnEnds, OffEnds, PulseEnds, AppDoes, AppMove, AppPulses
<1>14. CASE Measured
  <2>1. Posts({}, {}, {"READ_ENTITY"}) \/ Posts({}, {"STATUS_READ_DONE"}, {})
    BY <1>p, <1>14, AppSignals DEF Measured, Return
  <2> QED
    BY <1>14, <1>i, <1>j, <2>1 DEF Measured, AppDoes, AppMove, AppMeasures
<1>15. CASE StatusRead
  <2>1. Posts({"SMS_SEND"}, {}, {}) \/ Posts({}, {"SMS_SENT"}, {})
    BY <1>p, <1>15, AppSignals DEF StatusRead, Return
  <2> QED
    BY <1>15, <1>i, <1>j, <2>1 DEF StatusRead, appVars, AppDoes, AppMove, AppMeasures
<1>16. CASE Broadcast
  <2>1. Posts({"CLOCK_READ"}, {}, {})
    BY <1>p, <1>16, AppSignals DEF Broadcast, Return
  <2> QED
    BY <1>16, <1>i, <1>j, <2>1 DEF Broadcast, AppDoes, AppMove, AppBroadcasts
<1>17. CASE BroadcastNext
  <2>1. Posts({"SMS_SEND"}, {}, {})
    BY <1>p, <1>17, AppSignals DEF BroadcastNext, Return
  <2> QED
    BY <1>17, <1>i, <1>j, <2>1 DEF BroadcastNext, AppDoes, AppMove, AppGoesOn
<1>18. CASE Answered \/ TurnedAway
  <2>1. Leave
    BY <1>18 DEF Answered, TurnedAway
  <2>2. app' = "cleanup" /\ Posts({"SMS_DELETE"}, {}, {})
    BY <1>0, <1>p, <2>1, AppSignals DEF Leave, Return
  <2>3. \/ current.sig = "SMS_SENT" /\ app \in ActionStates \ {"validate"}
        \/ current.sig = "TRANSITION_OUT" /\ app \in ActiveStates
        \/ current.sig = "SMS_NOT_FOUND" /\ app = "reciever"
        \/ current.sig = "PARSING_ERROR" /\ app = "set_time"
    BY <1>18 DEF Answered, TurnedAway, LeavesOn
  <2> QED
    BY <1>i, <1>j, <2>2, <2>3 DEF AppDoes, AppMove, AppLeaves
<1> QED
  BY <1>1, <1>2, <1>3, <1>4, <1>5, <1>6, <1>7, <1>8, <1>9, <1>10, <1>11, <1>12, <1>13, <1>14,
     <1>15, <1>16, <1>17, <1>18, <1>i, <1>j
  DEF AppHandler

-----------------------------------------------------------------------------
(* What the interrupts, the drivers and the modem do. *)

SerialSends ==
  /\ current' = current /\ current = Idle
  /\ queue' = Post(queue, "gsm", Event("SEND_DONE"))
  /\ UNCHANGED <<timer, avail, measuring>>
SerialReceives ==
  /\ current' = current /\ current = Idle /\ avail = 0 /\ avail' > 0
  /\ Posts({"DATA_AVAILABLE"}, {}, {})
  /\ queue' = Post(queue, "gsm", Event("DATA_AVAILABLE"))
  /\ UNCHANGED <<timer, tx, measuring>>
TimerExpires ==
  /\ current' = current /\ timer["gsm"] # "off" /\ ~Pending("gsm", "TIMEOUT")
  /\ tx = <<>> /\ ~Waiting("gsm", "SEND_DONE")
  /\ queue' = Post(queue, "gsm", EventPar("TIMEOUT", timer["gsm"]))
  /\ timer'["gsm"] = "off"
  /\ UNCHANGED <<tx, avail, measuring>>
MeasuringStarts ==
  /\ current.ao = "emon" /\ current.sig = "READ_ENTITY" /\ current' = Idle
  /\ measuring' = TRUE /\ Posts({}, {}, {})
  /\ UNCHANGED <<queue, timer, tx, avail>>
MeasuringEnds ==
  /\ current' = current /\ current = Idle /\ measuring /\ measuring' = FALSE
  /\ Posts({}, {"MEASUREMENT_DONE", "EMON_ERROR"}, {})
  /\ UNCHANGED <<timer, tx, avail>>
NothingEnds ==
  /\ timer'["gsm"] = timer["gsm"] /\ UNCHANGED <<tx, avail, measuring>>
  /\ Posts({"OPEN_DONE"}, {"TIMEOUT"}, {})

OtherDoes ==
  \/ SerialSends \/ SerialReceives \/ TimerExpires
  \/ MeasuringStarts \/ MeasuringEnds \/ NothingEnds

OtherStep == Drivers \/ Link \/ GsmTick \/ AppTick \/ UNCHANGED vars

LEMMA OtherDoing ==
  ASSUME TypeOK, Handed, OtherStep
  PROVE  /\ UNCHANGED <<gsm, op, app>> /\ current' \in {current, Idle}
         /\ current' # current => current.ao \in {"com", "emon"}
         /\ OtherDoes
<1>0. KernelType /\ LinkType
  BY DEF TypeOK
<1>o. /\ "emon" \in Objects /\ "gsm" \in Objects /\ "app" \in Objects
      /\ "emon" # "gsm" /\ "emon" # "app" /\ "app" # "gsm" /\ "0" \in Pars
      /\ \A sig \in {"SEND_DONE", "DATA_AVAILABLE", "TIMEOUT", "OPEN_DONE",
                     "MEASUREMENT_DONE", "EMON_ERROR"} : sig \in Signals
  BY ConfigurationOfMain, Keyless DEF ObjectsOfMain, Pars
<1> DEFINE U == UNCHANGED <<gsm, op, app>> /\ current' \in {current, Idle}
                /\ (current' # current => current.ao \in {"com", "emon"})
<1>2. ASSUME current' \in {current, Idle}, queue' = queue, NEW R, NEW S, NEW T
      PROVE  Posts(R, S, T)
  BY <1>0, <1>2, Posting
<1>3. ASSUME current' \in {current, Idle}, NEW sig \in Signals, NEW par \in Pars
      PROVE  /\ \A R, S, T : sig \in R /\ queue' = Post(queue, "gsm", EventPar(sig, par)) => Posts(R, S, T)
             /\ \A R, S, T : sig \in S /\ queue' = Post(queue, "app", EventPar(sig, par)) => Posts(R, S, T)
  BY <1>0, <1>3, Posting
<1>4. CASE TxDone /\ Link
  BY <1>4 DEF TxDone, Link, PostedTo, gsmVars, controlVars, appVars, OtherDoes, SerialSends
<1>5. CASE RxTimeout /\ Link
  <2>1. /\ U /\ current' = current /\ current = Idle /\ avail = 0
        /\ queue' = Post(queue, "gsm", Event("DATA_AVAILABLE"))
        /\ UNCHANGED <<timer, tx, measuring>> /\ avail' = Len(rx) /\ rx # <<>>
    BY <1>5 DEF RxTimeout, Link, PostedTo, gsmVars, controlVars, appVars
  <2>2. Len(rx) > 0
    BY <1>0, <2>1, EmptySeq, LenProperties DEF LinkType
  <2>3. Posts({"DATA_AVAILABLE"}, {}, {})
    BY <1>3, <1>o, <2>1 DEF Event
  <2> QED
    BY <2>1, <2>2, <2>3 DEF OtherDoes, SerialReceives
<1>6. CASE ((ModemAnswers \/ ModemSends \/ MessageArrives) /\ Link) \/ UNCHANGED vars
  <2>1. U /\ current' = current /\ queue' = queue /\ UNCHANGED <<timer, tx, avail, measuring>>
    BY <1>6
    DEF ModemAnswers, ModemSends, MessageArrives, Link, kernelVars, gsmVars, controlVars,
        appVars, vars, linkVars
  <2> QED
    BY <1>2, <2>1 DEF OtherDoes, NothingEnds
<1>7. CASE GsmTick
  <2>1. timer'["gsm"] = "off"
    BY <1>0, <1>7, <1>o DEF GsmTick, Expire, KernelType, Timers, Disarm
  <2> QED
    BY <1>7, <2>1
    DEF GsmTick, Expire, linkVars, gsmVars, controlVars, appVars, OtherDoes, TimerExpires
<1>8. CASE AppTick
  <2>1. /\ U /\ current' = current /\ UNCHANGED <<tx, avail, measuring>>
        /\ queue' = Post(queue, "app", EventPar("TIMEOUT", timer["app"]))
        /\ timer' = Disarm(timer, "app") /\ timer["app"] # "off"
    BY <1>8 DEF AppTick, Expire, linkVars, gsmVars, controlVars, appVars
  <2>2. timer'["gsm"] = timer["gsm"] /\ timer["app"] \in Pars
    BY <1>0, <1>o, <2>1 DEF Disarm, KernelType, Timers, Pars
  <2>3. Posts({"OPEN_DONE"}, {"TIMEOUT"}, {})
    BY <1>3, <1>o, <2>1, <2>2
  <2> QED
    BY <2>1, <2>2, <2>3 DEF OtherDoes, NothingEnds
<1>9. CASE ComOpen
  <2>1. /\ U /\ UNCHANGED <<timer, tx, avail, measuring>>
        /\ queue' = Post(queue, "gsm", Event("OPEN_DONE"))
    BY <1>9 DEF ComOpen, Handling, Return, linkVars, gsmVars, controlVars, appVars
  <2>2. Posts({"OPEN_DONE"}, {"TIMEOUT"}, {})
    BY <1>3, <1>o, <2>1 DEF Event
  <2> QED
    BY <2>1, <2>2 DEF OtherDoes, NothingEnds
<1>10. CASE EmonStart
  <2>1. /\ U /\ UNCHANGED <<queue, timer, tx, avail>> /\ measuring' = TRUE
        /\ current.ao = "emon" /\ current.sig = "READ_ENTITY" /\ current' = Idle
    BY <1>10 DEF EmonStart, Handling, Ignore, Return, linkVars, gsmVars, controlVars, appVars
  <2>2. Posts({}, {}, {})
    BY <1>2, <2>1
  <2> QED
    BY <2>1, <2>2 DEF OtherDoes, MeasuringStarts
<1>11. CASE EmonDone
  <2>1. /\ U /\ current' = current /\ current = Idle /\ UNCHANGED <<timer, tx, avail>>
        /\ measuring /\ measuring' = FALSE
        /\ \E sig \in {"MEASUREMENT_DONE", "EMON_ERROR"} : queue' = Post(queue, "app", Event(sig))
    BY <1>11 DEF EmonDone, PostedTo, linkVars, gsmVars, controlVars, appVars
  <2>2. Posts({}, {"MEASUREMENT_DONE", "EMON_ERROR"}, {})
    BY <1>3, <1>o, <2>1 DEF Event
  <2> QED
    BY <2>1, <2>2 DEF OtherDoes, MeasuringEnds
<1>12. OtherStep =>
         \/ TxDone /\ Link
         \/ RxTimeout /\ Link
         \/ (ModemAnswers \/ ModemSends \/ MessageArrives) /\ Link
         \/ UNCHANGED vars \/ GsmTick \/ AppTick \/ ComOpen \/ EmonStart \/ EmonDone
  BY DEF OtherStep, Link, Drivers
<1> QED
  BY <1>4, <1>5, <1>6, <1>7, <1>8, <1>9, <1>10, <1>11, <1>12

-----------------------------------------------------------------------------
(* The five kinds of steps. *)

SchedulerMoves ==
  /\ \E a \in Objects : Dispatch(a)
  /\ current = Idle /\ \A a \in Objects : Inbox(a)' = Inbox(a)
  /\ UNCHANGED <<timer, gsm, op, app, tx, avail, measuring>>
GsmHandles ==
  /\ current.ao = "gsm" /\ current' = Idle /\ GsmDoes
  /\ UNCHANGED <<app, avail, measuring>>
GsmParses ==
  /\ current.ao = "gsm" /\ current.sig = "DATA_AVAILABLE" /\ avail > 0 /\ avail' = avail - 1
  /\ UNCHANGED <<current, gsm, op, app, tx, measuring>>
  /\ \/ timer'["gsm"] = "off" /\ Posts({"ACK"}, {}, {})
     \/ timer'["gsm"] = timer["gsm"] /\ op = "ACC" /\ Posts({"CLOCK_RESPONSE"}, {}, {})
     \/ timer'["gsm"] = timer["gsm"] /\ Posts(OtherResults, {}, {})
AppHandles ==
  /\ current.ao = "app" /\ current' = Idle /\ AppDoes
  /\ UNCHANGED <<gsm, op, tx, avail, measuring>> /\ timer'["gsm"] = timer["gsm"]
OthersStep ==
  /\ UNCHANGED <<gsm, op, app>> /\ current' \in {current, Idle}
  /\ current' # current => current.ao \in {"com", "emon"}
  /\ OtherDoes

LEMMA StepKinds ==
  ASSUME TypeOK, Handed, [Next]_vars
  PROVE  SchedulerMoves \/ GsmHandles \/ GsmParses \/ AppHandles \/ OthersStep
<1>0. KernelType /\ AppType /\ {"gsm", "app"} \subseteq Objects
  BY ConfigurationOfMain DEF TypeOK, ObjectsOfMain
<1>1. CASE Schedule
  <2>1. PICK b \in Objects : Dispatch(b)
    BY <1>1 DEF Schedule
  <2>2. \A a \in Objects : Inbox(a)' = Inbox(a)
    BY <1>0, <2>1, DispatchMoves
  <2> QED
    BY <1>1, <2>1, <2>2
    DEF Schedule, Dispatch, SchedulerMoves, linkVars, gsmVars, controlVars, appVars
<1>2. CASE GsmStep /\ ~Parsing
  <2>1. avail' = avail
    BY <1>2
    DEF GsmStep, GsmHandler, GsmInactive, StartAo, ComOpened, PowerKey, PoweredOn, RetryAt,
        NoModem, LinkUp, ConfigNext, ConfigDone, ConfigFails, Accept, IdleTells, ParseLine,
        ParseDone, GsmIgnores, GsmOperation, OperationTimesOut, NetworkRetry, NetworkTimesOut,
        NetworkResponse, NetworkReport, NetworkSearching, NetworkFallsThrough, SendText,
        BufferFull, SendRest, KeepResponse, ClockGarbled, ExtractTime, OperationDone,
        PresenceDone, GsmOnly, linkVars, Sends, Parsing, Handling
  <2> QED
    BY <1>2, <2>1, GsmDoing DEF GsmStep, GsmHandles, appVars
<1>3. CASE GsmStep /\ Parsing
  <2>1. /\ InHand("gsm", "DATA_AVAILABLE") /\ UNCHANGED <<current, gsmVars, tx>>
        /\ avail' = avail - 1
        /\ \/ timer'["gsm"] = "off" /\ Posts({"ACK"}, {}, {})
           \/ timer' = timer /\ op = "ACC" /\ Posts({"CLOCK_RESPONSE"}, {}, {})
           \/ timer' = timer /\ Posts(OtherResults, {}, {})
    BY <1>3, ParserGains DEF GsmStep
  <2> QED
    BY <1>3, <2>1
    DEF GsmStep, GsmParses, Parsing, InHand, gsmVars, controlVars, appVars
<1>4. CASE AppStep
  <2>1. timer'["gsm"] = timer["gsm"]
    <3>1. AppReturns
      BY <1>0, <1>4, AppHandlerReturns DEF AppStep
    <3> QED
      BY <1>0, <3>1, AppUndisturbing DEF GsmUndisturbed
  <2> QED
    BY <1>4, <2>1, AppDoing
    DEF AppStep, AppHandles, linkVars, gsmVars, controlVars
<1>5. CASE OtherStep
  BY <1>5, OtherDoing DEF OthersStep
<1> QED
  BY <1>1, <1>2, <1>3, <1>4, <1>5 DEF Next, OtherStep

-----------------------------------------------------------------------------
(* The TIMEOUT of the timer of the GSM object.                             *)

LEMMA OtherPosts ==
  ASSUME KernelType, Handed
  PROVE  /\ SerialSends => Posts({"SEND_DONE"}, {}, {})
         /\ TimerExpires => Posts({"TIMEOUT"}, {}, {})
<1>1. /\ "SEND_DONE" \in Signals /\ "TIMEOUT" \in Signals /\ "0" \in Pars
      /\ timer["gsm"] # "off" => timer["gsm"] \in Pars
  BY Keyless, TwoQueues DEF Pars, KernelType, Timers
<1> QED
  BY <1>1, Posting DEF SerialSends, TimerExpires, Event

(* The signals of what comes in.                                           *)
LEMMA OfSignals ==
  /\ \A S, X : Of(S) \cap Of(X) # {} => \E sig \in S : sig \in X
  /\ \A S : "TIMEOUT" \notin S /\ "ACK" \notin S => Of(S) \cap (Timeouts \cup Acks) = {}
  /\ \A S : Of(S) \in SUBSET Events
BY DEF Of, Timeouts, Acks

LEMMA TimerByGsm ==
  ASSUME KernelType, GsmType, Handed, TimerInv, GsmHandles
  PROVE  TimerInv'
<1>1. ASSUME NEW S, Gains("gsm", Of(S)), "TIMEOUT" \notin S, "ACK" \notin S
      PROVE  /\ /\ timer'["gsm"] = timer["gsm"]
                /\ gsm' = gsm \/ (gsm = "sms_send" /\ gsm' = "sms_send_support")
                /\ tx' = tx \/ tx' # <<>>
                => TimerInv'
             /\ timer'["gsm"] = "off" /\ gsm' \notin {"systemsetup", "opencom"} => TimerInv'
             /\ /\ timer'["gsm"] = gsm' /\ gsm' \notin {"systemsetup", "opencom", "off"}
                /\ gsm' = "check_comlink" => current.ao = "gsm" /\ current.sig = "TIMEOUT" /\ current' = Idle
                /\ gsm' \in Unsent \/ tx' # <<>>
                => TimerInv'
  BY <1>1, OfSignals, TimerSteps
<1>2. /\ "TIMEOUT" \notin {} /\ "ACK" \notin {}
      /\ \A S, T : Posts({}, S, T) => Gains("gsm", Of({}))
      /\ \A S : Tells(S) => Gains("gsm", Of({}))
  BY DEF Posts, Tells
<1>3. CASE GsmStays
  BY <1>1, <1>2, <1>3 DEF GsmStays
<1>4. CASE GsmOpens
  <2>1. /\ Gains("gsm", Of({})) /\ UNCHANGED <<timer, tx>>
        /\ gsm \in {"systemsetup", "opencom"} /\ gsm' \in {"opencom", "powering_on"}
    BY <1>2, <1>4 DEF GsmOpens
  <2>2. TimeoutOnce' /\ NoAckFirst' /\ (Has(ToGsm, Timeouts)' => Has(ToGsm, Timeouts))
    BY <1>2, <2>1, OfSignals, TimerKept DEF TimerInv
  <2>3. timer'["gsm"] = "off" /\ ~Has(ToGsm, Timeouts)
    BY <2>1 DEF TimerInv, TimerUnused
  <2> QED
    BY <2>1, <2>2, <2>3 DEF TimerInv, TimerOwned, TimerUnused, RetriesOnce, SentBehind
<1>5. CASE GsmArms
  <2>1. Gains("gsm", Of({})) /\ timer'["gsm"] = gsm' /\ (gsm' \in Unsent \/ tx' # <<>>)
    BY <1>2, <1>5 DEF GsmArms
  <2>2. /\ gsm' \notin {"systemsetup", "opencom", "off"}
        /\ gsm' = "check_comlink" => current.ao = "gsm" /\ current.sig = "TIMEOUT" /\ current' = Idle
    BY <1>5 DEF GsmArms, GsmHandles
  <2> QED
    BY <1>1, <1>2, <2>1, <2>2
<1>6. CASE GsmFails
  <2>1. Gains("gsm", Of({})) /\ gsm' = "powering_on"
    BY <1>2, <1>6 DEF GsmFails
  <2>2. timer'["gsm"] = "off"
    <3>1. CASE current.sig = "TIMEOUT" /\ gsm = "check_comlink" /\ timer' = timer
      <4>1. Has(ToGsm, Timeouts)
        BY <3>1, InHandFirst, TwoQueues DEF GsmHandles, Timeouts, ToGsm
      <4> QED
        BY <3>1, <4>1 DEF TimerInv, RetriesOnce
    <3> QED
      BY <1>6, <3>1 DEF GsmFails
  <2> QED
    BY <1>1, <1>2, <2>1, <2>2
<1>7. CASE GsmConfigured \/ GsmEnds
  <2>1. Gains("gsm", Of({})) /\ gsm' = "active_idle" /\ timer'["gsm"] = "off"
    BY <1>2, <1>7 DEF GsmConfigured, GsmEnds
  <2> QED
    BY <1>1, <1>2, <2>1
<1>8. CASE GsmAccepts
  <2>1. Gains("gsm", Of({})) /\ gsm' \in OperationStates /\ timer'["gsm"] = gsm' /\ tx' # <<>>
    BY <1>2, <1>8 DEF GsmAccepts, OperationStates
  <2>2. gsm' \notin {"systemsetup", "opencom", "off", "check_comlink"}
    BY <2>1 DEF OperationStates, Operation, Requests
  <2> QED
    BY <1>1, <1>2, <2>1, <2>2
<1>9. CASE GsmSends
  <2>1. Gains("gsm", Of({"BUFFER_FULL"})) /\ gsm' \notin {"systemsetup", "opencom"} /\ timer'["gsm"] = "off"
    BY <1>9 DEF GsmSends, Posts
  <2> QED
    BY <1>1, <2>1
<1>10. CASE GsmOverflows
  BY <1>1, <1>2, <1>10 DEF GsmOverflows
<1> QED
  BY <1>3, <1>4, <1>5, <1>6, <1>7, <1>8, <1>9, <1>10 DEF GsmHandles, GsmDoes

LEMMA TimerByParser ==
  ASSUME KernelType, Handed, TimerInv, GsmParses
  PROVE  TimerInv'
<1>1. CASE /\ timer'["gsm"] = timer["gsm"]
           /\ Posts({"CLOCK_RESPONSE"}, {}, {}) \/ Posts(OtherResults, {}, {})
  <2>1. PICK S : Gains("gsm", Of(S)) /\ "TIMEOUT" \notin S /\ "ACK" \notin S
    BY <1>1 DEF GsmParses, Posts, OtherResults
  <2> QED
    BY <1>1, <2>1, OfSignals, TimerSteps DEF GsmParses
<1>2. CASE timer'["gsm"] = "off" /\ Posts({"ACK"}, {}, {})
  <2>1. Gains("gsm", Of({"ACK"})) /\ "gsm" \in Objects
    BY <1>2, TwoQueues DEF Posts
  <2>2. Of({"ACK"}) \cap Timeouts = {} /\ Of({"ACK"}) \cap LateTimeouts = {}
    BY DEF Of, Timeouts, LateTimeouts
  <2>3. TimeoutOnce' /\ NoAckFirst' /\ (Has(ToGsm, Timeouts)' => Has(ToGsm, Timeouts))
    BY <2>1, <2>2, Gained, OfSignals DEF TimerInv, TimeoutOnce, NoAckFirst, ToGsm
  <2> QED
    BY <1>2, <2>3 DEF GsmParses, TimerInv, TimerOwned, TimerUnused, RetriesOnce, SentBehind
<1> QED
  BY <1>1, <1>2 DEF GsmParses

LEMMA TimerByOthers ==
  ASSUME KernelType, Handed, TimerInv, OthersStep
  PROVE  TimerInv'
<1>g. "gsm" \in Objects
  BY TwoQueues
<1>1. CASE TimerExpires
  <2>1. /\ Inbox("gsm") = ToGsm /\ ToGsm \in Seq(Events)
        /\ Gains("gsm", Timeouts)
    BY <1>g, <1>1, Inboxes, OtherPosts DEF ToGsm, Posts, Timeouts
  <2>2. ~Has(ToGsm, Timeouts)
    <3>1. ~Has(queue["gsm"], Timeouts)
      BY <1>1 DEF TimerExpires, Pending, Waiting, Has, Timeouts, Of
    <3>2. current.ao = "gsm" => Handled \notin Of({"TIMEOUT"})
      BY <1>g, <1>1, InHandFirst DEF TimerExpires, Pending
    <3> QED
      BY <1>g, <3>1, <3>2, InHandFirst, Inboxes DEF ToGsm, Timeouts
  <2>3. timer["gsm"] \notin Unsent => ~Has(ToGsm, Acks)
    <3> SUFFICES ASSUME timer["gsm"] \notin Unsent PROVE ~Has(ToGsm, Acks)
      OBVIOUS
    <3>1. Covered(ToGsm)
      BY <1>1 DEF TimerExpires, TimerInv, SentBehind
    <3>2. ~Has(queue["gsm"], Of({"SEND_DONE"}))
      BY <1>1 DEF TimerExpires, Waiting, Has, Of
    <3>3. CASE current.ao = "gsm"
      <4>1. /\ ToGsm = <<Handled>> \o queue["gsm"] /\ Handled \in Events
            /\ queue["gsm"] \in Seq(Events)
        BY <1>g, <3>3, Inboxes DEF ToGsm
      <4> HIDE DEF Handled
      <4> QED
        BY <3>1, <3>2, <4>1, Coverage
    <3>4. CASE current.ao # "gsm"
      <4>1. ToGsm = queue["gsm"] /\ \A i \in DOMAIN ToGsm : ToGsm[i] \in Events
        BY <1>g, <2>1, <3>4, Inboxes DEF ToGsm
      <4> QED
        BY <3>1, <3>2, <4>1 DEF Covered, Has, Acks, Of
    <3> QED
      BY <3>3, <3>4
  <2>4. TimeoutOnce'
    <3>1. Timeouts \in SUBSET Events
      BY OfSignals DEF Timeouts
    <3>2. Before(ToGsm, Timeouts, Timeouts)' => Before(ToGsm, Timeouts, Timeouts) \/ Has(ToGsm, Timeouts)
      BY <1>g, <2>1, <3>1, Gained DEF ToGsm
    <3> QED
      BY <2>2, <3>2 DEF TimerInv, TimeoutOnce
  <2>5. NoAckFirst'
    <3>1. /\ current' = current
          /\ queue' = Post(queue, "gsm", EventPar("TIMEOUT", timer["gsm"]))
          /\ EventPar("TIMEOUT", timer["gsm"]) \in Events
      BY <1>g, <1>1, Keyless DEF TimerExpires, KernelType, Timers, Pars, Events, EventPar
    <3>2. Gains("gsm", {EventPar("TIMEOUT", timer["gsm"])})
      BY <1>g, <3>1, Gaining DEF Post, KernelType, Queues
    <3>3. Before(ToGsm, Acks, LateTimeouts)' =>
            \/ Before(ToGsm, Acks, LateTimeouts)
            \/ Has(ToGsm, Acks) /\ {EventPar("TIMEOUT", timer["gsm"])} \cap LateTimeouts # {}
      BY <1>g, <3>1, <3>2, Gained DEF ToGsm
    <3>4. timer["gsm"] \in Unsent => EventPar("TIMEOUT", timer["gsm"]) \notin LateTimeouts
      BY DEF LateTimeouts, EventPar
    <3> QED
      BY <2>3, <3>3, <3>4 DEF TimerInv, NoAckFirst
  <2> QED
    BY <1>1, <2>4, <2>5 DEF OthersStep, TimerExpires, TimerInv, TimerOwned, TimerUnused, RetriesOnce,
       SentBehind
<1>2. CASE SerialSends
  <2>1. Gains("gsm", Of({"SEND_DONE"}))
    BY <1>2, OtherPosts DEF Posts
  <2>2. TimeoutOnce' /\ NoAckFirst' /\ (Has(ToGsm, Timeouts)' => Has(ToGsm, Timeouts))
    BY <2>1, OfSignals, TimerKept DEF TimerInv
  <2>3. Covered(ToGsm)'
    <3>1. /\ Inbox("gsm") = queue["gsm"] /\ Inbox("gsm")' = queue'["gsm"]
          /\ queue["gsm"] \in Seq(Events)
          /\ queue'["gsm"] = Append(queue["gsm"], Event("SEND_DONE"))
      BY <1>g, <1>2, ConfigurationOfMain
      DEF SerialSends, Inbox, Idle, Post, KernelType, Queues, ObjectsOfMain
    <3>2. Event("SEND_DONE") \in Events /\ Event("SEND_DONE").sig = "SEND_DONE"
      BY PlainEventType, Keyless DEF Event, EventPar
    <3>3. Covered(Append(queue["gsm"], Event("SEND_DONE")))
      BY <3>1, <3>2, Coverage
    <3> QED
      BY <3>1, <3>3 DEF ToGsm
  <2> QED
    BY <1>2, <2>2, <2>3 DEF OthersStep, SerialSends, TimerInv, TimerOwned, TimerUnused, RetriesOnce,
       SentBehind
<1>3. CASE SerialReceives \/ MeasuringStarts \/ MeasuringEnds \/ NothingEnds
  <2>1. PICK S : Gains("gsm", Of(S)) /\ "TIMEOUT" \notin S /\ "ACK" \notin S
    BY <1>3 DEF SerialReceives, MeasuringStarts, MeasuringEnds, NothingEnds, Posts
  <2>2. timer'["gsm"] = timer["gsm"] /\ tx' = tx /\ gsm' = gsm
    BY <1>3 DEF SerialReceives, MeasuringStarts, MeasuringEnds, NothingEnds, OthersStep
  <2> QED
    BY <2>1, <2>2, OfSignals, TimerSteps
<1> QED
  BY <1>1, <1>2, <1>3 DEF OthersStep, OtherDoes

LEMMA TimerByApp ==
  ASSUME KernelType, Handed, TimerInv, AppHandles
  PROVE  TimerInv'
<1>1. PICK R, S, T : Posts(R, S, T) /\ "TIMEOUT" \notin R /\ "ACK" \notin R
  BY DEF AppHandles, AppDoes, AppMove, AppRemains, AppIdles, AppConnects, AppRecieves, AppFinds, AppActs,
         AppPulses, AppOpens, AppSets, AppReads, AppMeasures, AppBroadcasts, AppGoesOn, AppLeaves
<1>2. Gains("gsm", Of(R))
  BY <1>1 DEF Posts
<1> QED
  BY <1>1, <1>2, OfSignals, TimerSteps DEF AppHandles

LEMMA TimerNext ==
  ASSUME TypeOK, Handed, TimerInv, [Next]_vars
  PROVE  TimerInv' /\ Handed'
<1>0. KernelType /\ GsmType /\ "gsm" \in Objects
  BY TwoQueues DEF TypeOK
<1>1. CASE SchedulerMoves
  <2>1. ToGsm' = ToGsm /\ Handed'
    BY <1>0, <1>1, DispatchMoves DEF SchedulerMoves, ToGsm
  <2> QED
    BY <1>1, <2>1
    DEF SchedulerMoves, TimerInv, TimerOwned, TimerUnused, TimeoutOnce, RetriesOnce, SentBehind,
        NoAckFirst
<1>2. Handed' \/ SchedulerMoves
  BY StepKinds, ConfigurationOfMain
  DEF ObjectsOfMain, Handed, GsmHandles, GsmParses, AppHandles, OthersStep, Idle
<1> QED
  BY <1>0, <1>1, <1>2, StepKinds, TimerByGsm, TimerByParser, TimerByApp, TimerByOthers

-----------------------------------------------------------------------------
(* The order of what the objects have to handle, by signals.               *)

InGsm(X) == Has(ToGsm, Of(X))
InApp(X) == Has(ToApp, Of(X))
InEmon(X) == Has(Inbox("emon"), Of(X))
GsmAhead(X, Y) == Before(ToGsm, Of(X), Of(Y))
AppAhead(X, Y) == Before(ToApp, Of(X), Of(Y))
EmonAhead(X, Y) == Before(Inbox("emon"), Of(X), Of(Y))
GsmRow(X, Y, Z) == Three(ToGsm, Of(X), Of(Y), Of(Z))

(* How a step moves it.                                                    *)
LEMMA Moved ==
  ASSUME KernelType, Handed, NEW a \in Objects, NEW S, Gains(a, Of(S))
  PROVE  /\ \A X : Has(Inbox(a), Of(X))' => Has(Inbox(a), Of(X)) \/ \E sig \in S : sig \in X
         /\ \A X, Y : Before(Inbox(a), Of(X), Of(Y))' =>
              \/ Before(Inbox(a), Of(X), Of(Y))
              \/ Has(Inbox(a), Of(X)) /\ \E sig \in S : sig \in Y
         /\ \A X, Y, Z : Three(Inbox(a), Of(X), Of(Y), Of(Z))' =>
              \/ Three(Inbox(a), Of(X), Of(Y), Of(Z))
              \/ Before(Inbox(a), Of(X), Of(Y)) /\ \E sig \in S : sig \in Z
         /\ current.ao = a /\ current' = Idle =>
              /\ \A X, Y : current.sig \in X /\ Has(Inbox(a), Of(Y))' =>
                   Before(Inbox(a), Of(X), Of(Y)) \/ \E sig \in S : sig \in Y
              /\ \A X, Y, Z : current.sig \in X /\ Before(Inbox(a), Of(Y), Of(Z))' =>
                   \/ Three(Inbox(a), Of(X), Of(Y), Of(Z))
                   \/ Before(Inbox(a), Of(X), Of(Y)) /\ \E sig \in S : sig \in Z
<1>1. Of(S) \in SUBSET Events /\ \A X : Of(S) \cap Of(X) # {} => \E sig \in S : sig \in X
  BY OfSignals
<1>2. /\ \A E : Has(Inbox(a)', E) => Has(Left(a), E) \/ Of(S) \cap E # {}
      /\ \A E, F : Before(Inbox(a)', E, F) =>
           Before(Left(a), E, F) \/ (Has(Left(a), E) /\ Of(S) \cap F # {})
      /\ \A E, F, H : Three(Inbox(a)', E, F, H) =>
           Three(Left(a), E, F, H) \/ (Before(Left(a), E, F) /\ Of(S) \cap H # {})
      /\ \A E : Has(Left(a), E) => Has(Inbox(a), E)
      /\ \A E, F : Before(Left(a), E, F) => Before(Inbox(a), E, F)
      /\ \A E, F, H : Three(Left(a), E, F, H) => Three(Inbox(a), E, F, H)
  BY <1>1, Gained
<1>3. ASSUME current.ao = a, current' = Idle
      PROVE  /\ \A X, F : current.sig \in X /\ Has(Left(a), F) => Before(Inbox(a), Of(X), F)
             /\ \A X, F, H : current.sig \in X /\ Before(Left(a), F, H) =>
                  Three(Inbox(a), Of(X), F, H)
  <2>1. Left(a) = queue[a]
    BY <1>3 DEF Left
  <2> QED
    BY <1>3, <2>1, InHandFirst
<1>4. /\ \A X : Has(Inbox(a), Of(X))' => Has(Inbox(a), Of(X)) \/ \E sig \in S : sig \in X
      /\ \A X, Y : Before(Inbox(a), Of(X), Of(Y))' =>
           \/ Before(Inbox(a), Of(X), Of(Y))
           \/ Has(Inbox(a), Of(X)) /\ \E sig \in S : sig \in Y
      /\ \A X, Y, Z : Three(Inbox(a), Of(X), Of(Y), Of(Z))' =>
           \/ Three(Inbox(a), Of(X), Of(Y), Of(Z))
           \/ Before(Inbox(a), Of(X), Of(Y)) /\ \E sig \in S : sig \in Z
  BY <1>1, <1>2
<1>5. ASSUME current.ao = a, current' = Idle, NEW X, current.sig \in X
      PROVE  /\ \A Y : Has(Inbox(a), Of(Y))' =>
                   Before(Inbox(a), Of(X), Of(Y)) \/ \E sig \in S : sig \in Y
             /\ \A Y, Z : Before(Inbox(a), Of(Y), Of(Z))' =>
                   \/ Three(Inbox(a), Of(X), Of(Y), Of(Z))
                   \/ Before(Inbox(a), Of(X), Of(Y)) /\ \E sig \in S : sig \in Z
  BY <1>1, <1>2, <1>3, <1>5
<1> QED
  BY <1>4, <1>5

LEMMA FirstInHand ==
  ASSUME KernelType, Handed, NEW a \in Objects, current.ao = a
  PROVE  /\ \A X : current.sig \in X => Has(Inbox(a), Of(X))
         /\ \A X, Y : current.sig \in X /\ current.sig \notin Y /\ Has(Inbox(a), Of(Y)) =>
              Before(Inbox(a), Of(X), Of(Y))
         /\ \A X, Y, Z : current.sig \in X /\ current.sig \notin Y /\ Before(Inbox(a), Of(Y), Of(Z)) =>
              Three(Inbox(a), Of(X), Of(Y), Of(Z))
BY InHandFirst

(* ... of the GSM object, the application, the energy monitor.             *)
LEMMA GsmOrder ==
  ASSUME KernelType, Handed, NEW R, NEW S, NEW T, Posts(R, S, T)
  PROVE  /\ \A X : InGsm(X)' => InGsm(X) \/ \E sig \in R : sig \in X
         /\ \A X, Y : GsmAhead(X, Y)' => GsmAhead(X, Y) \/ (InGsm(X) /\ \E sig \in R : sig \in Y)
         /\ \A X, Y, Z : GsmRow(X, Y, Z)' =>
              GsmRow(X, Y, Z) \/ (GsmAhead(X, Y) /\ \E sig \in R : sig \in Z)
         /\ current.ao = "gsm" /\ current' = Idle =>
              /\ \A X, Y : current.sig \in X /\ InGsm(Y)' =>
                   GsmAhead(X, Y) \/ \E sig \in R : sig \in Y
              /\ \A X, Y, Z : current.sig \in X /\ GsmAhead(Y, Z)' =>
                   GsmRow(X, Y, Z) \/ (GsmAhead(X, Y) /\ \E sig \in R : sig \in Z)
         /\ current.ao = "gsm" =>
              /\ \A X : current.sig \in X => InGsm(X)
              /\ \A X, Y, Z : current.sig \in X /\ current.sig \notin Y /\ GsmAhead(Y, Z) => GsmRow(X, Y, Z)
BY Moved, FirstInHand, TwoQueues DEF Posts, InGsm, GsmAhead, GsmRow, ToGsm

LEMMA AppOrder ==
  ASSUME KernelType, Handed, NEW R, NEW S, NEW T, Posts(R, S, T)
  PROVE  /\ \A X : InApp(X)' => InApp(X) \/ \E sig \in S : sig \in X
         /\ \A X, Y : AppAhead(X, Y)' => AppAhead(X, Y) \/ (InApp(X) /\ \E sig \in S : sig \in Y)
         /\ current.ao = "app" /\ current' = Idle =>
              /\ \A X, Y : current.sig \in X /\ InApp(Y)' => AppAhead(X, Y) \/ \E sig \in S : sig \in Y
              /\ \A X, Y, Z : current.sig \in X /\ AppAhead(Y, Z)' =>
                   AppAhead(Y, Z) \/ (AppAhead(X, Y) /\ \E sig \in S : sig \in Z)
         /\ current.ao = "app" =>
              /\ \A X : current.sig \in X => InApp(X)
              /\ \A X, Y : current.sig \in X /\ current.sig \notin Y /\ InApp(Y) => AppAhead(X, Y)
<1>1. \A s, E, F, H : Three(s, E, F, H) => Before(s, F, H)
  BY DEF Three, Before
<1> QED
  BY <1>1, Moved, FirstInHand, TwoQueues DEF Posts, InApp, AppAhead, ToApp

LEMMA EmonOrder ==
  ASSUME KernelType, Handed, NEW R, NEW S, NEW T, Posts(R, S, T)
  PROVE  /\ \A X : InEmon(X)' => InEmon(X) \/ \E sig \in T : sig \in X
         /\ \A X, Y : EmonAhead(X, Y)' => EmonAhead(X, Y) \/ (InEmon(X) /\ \E sig \in T : sig \in Y)
         /\ current.ao = "emon" /\ current' = Idle =>
              \A X, Y : current.sig \in X /\ InEmon(Y)' =>
                   EmonAhead(X, Y) \/ \E sig \in T : sig \in Y
         /\ current.ao = "emon" => \A X : current.sig \in X => InEmon(X)
BY Moved, FirstInHand, ConfigurationOfMain DEF Posts, InEmon, EmonAhead, ObjectsOfMain

LEMMA Smaller ==
  ASSUME NEW X, NEW Y, X \subseteq Y
  PROVE  /\ InGsm(X) => InGsm(Y)
         /\ InApp(X) => InApp(Y)
         /\ \A Z : /\ GsmAhead(X, Z) => GsmAhead(Y, Z)
                   /\ GsmAhead(Z, X) => GsmAhead(Z, Y)
                   /\ AppAhead(X, Z) => AppAhead(Y, Z)
                   /\ AppAhead(Z, X) => AppAhead(Z, Y)
                   /\ GsmAhead(X, Z) => InGsm(X) /\ InGsm(Z)
                   /\ AppAhead(X, Z) => InApp(X) /\ InApp(Z)
<1>1. Of(X) \subseteq Of(Y)
  BY DEF Of
<1> QED
  BY <1>1 DEF InGsm, InApp, GsmAhead, AppAhead, Has, Before

-----------------------------------------------------------------------------
(* The lines the parser works through, and what it finds in them.          *)

(* The parser works through the lines one DATA_AVAILABLE announced, while  *)
(* no request is posted.                                                   *)
Data == {"DATA_AVAILABLE"}
Parses == InHand("gsm", "DATA_AVAILABLE")
ParserInv ==
  /\ ~GsmAhead(Data, Data)
  /\ ~Parses => (InGsm(Data) => avail > 0) /\ ~GsmAhead(Data, {"ACK", "CLOCK_RESPONSE"})
  /\ Parses => ~GsmRow(Data, {"ACK"}, Requests)
  /\ ~GsmRow({"ACK"}, Requests, {"CLOCK_RESPONSE"})

LEMMA RequestsAre ==
  Requests = {"NETWORK_READ", "SMS_READ", "EXTRACT_TIME", "SMS_DELETE", "CLOCK_READ", "CLOCK_SET",
              "SMS_SEND", "CHECK_PRESENCE"}
BY DEF Requests, Operation

LEMMA InOrder ==
  /\ \A X, Y, Z : GsmRow(X, Y, Z) => GsmAhead(X, Y) /\ GsmAhead(Y, Z)
  /\ \A X, Y : GsmAhead(X, Y) => InGsm(X) /\ InGsm(Y)
  /\ \A X, Y : AppAhead(X, Y) => InApp(X) /\ InApp(Y)
BY SomeOf DEF GsmRow, GsmAhead, InGsm, AppAhead, InApp

(* What the handlers post, at most.                                        *)
LEMMA GsmGives ==
  ASSUME GsmHandles
  PROVE  \E R, S : Posts(R, S, {}) /\ R \subseteq {"BUFFER_FULL"}
<1>1. \/ \E S : Posts({}, S, {})
      \/ Posts({"BUFFER_FULL"}, {}, {})
  BY DEF GsmHandles, GsmDoes, GsmStays, GsmOpens, GsmArms, GsmFails, GsmConfigured, GsmAccepts,
         GsmSends, GsmOverflows, GsmEnds, Tells
<1>2. {} \subseteq {"BUFFER_FULL"} /\ {"BUFFER_FULL"} \subseteq {"BUFFER_FULL"}
  OBVIOUS
<1> QED
  BY <1>1, <1>2

ToItself == {"SEND_BROADCAST", "SMS_NEW", "TRANSITION_OUT", "START_SESSION",
             "STATUS_READ_DONE", "SMS_SENT"}

LEMMA AppGives ==
  ASSUME NEW R, NEW S, NEW T, AppMove(R, S, T)
  PROVE  R \subseteq Requests \cup {"GSM_INIT"} /\ S \subseteq ToItself /\ T \subseteq {"READ_ENTITY"}
<1>1. /\ R = {} \/ \E sig \in Requests \cup {"GSM_INIT"} : R = {sig}
      /\ S = {} \/ \E sig \in ToItself : S = {sig}
      /\ T = {} \/ T = {"READ_ENTITY"}
  BY RequestsAre
  DEF AppMove, AppRemains, AppIdles, AppConnects, AppRecieves, AppFinds, AppActs, AppPulses,
      AppOpens, AppSets, AppReads, AppMeasures, AppBroadcasts, AppGoesOn, AppLeaves, ToItself
<1> QED
  BY <1>1

LEMMA ParserKept ==
  ASSUME KernelType, Handed, ParserInv, NEW R, NEW S, NEW T, Posts(R, S, T),
         "DATA_AVAILABLE" \notin R, "ACK" \notin R, "CLOCK_RESPONSE" \notin R, avail' = avail,
         Parses' => Parses /\ \A r \in R : r \notin Requests,
         Parses /\ ~Parses' => current' = Idle
  PROVE  ParserInv'
<1>1. /\ InGsm(Data)' => InGsm(Data)
      /\ GsmAhead(Data, Data)' => GsmAhead(Data, Data)
      /\ GsmAhead(Data, {"ACK", "CLOCK_RESPONSE"})' => GsmAhead(Data, {"ACK", "CLOCK_RESPONSE"})
      /\ GsmRow({"ACK"}, Requests, {"CLOCK_RESPONSE"})' => GsmRow({"ACK"}, Requests, {"CLOCK_RESPONSE"})
      /\ Parses' => (GsmRow(Data, {"ACK"}, Requests)' => GsmRow(Data, {"ACK"}, Requests))
  BY GsmOrder DEF Data
<1>2. Parses /\ ~Parses' => ~InGsm(Data)'
  <2> SUFFICES ASSUME Parses, ~Parses' PROVE ~InGsm(Data)'
    OBVIOUS
  <2>1. current.ao = "gsm" /\ current' = Idle /\ current.sig \in Data
    BY DEF Parses, InHand, Data
  <2>2. InGsm(Data)' => GsmAhead(Data, Data) \/ \E sig \in R : sig \in Data
    BY <2>1, GsmOrder
  <2> QED
    BY <2>2 DEF ParserInv, Data
<1>3. GsmAhead(Data, {"ACK", "CLOCK_RESPONSE"})' => InGsm(Data)'
  BY DEF GsmAhead, InGsm, Before, Has
<1> QED
  BY <1>1, <1>2, <1>3 DEF ParserInv

LEMMA ParserNext ==
  ASSUME TypeOK, Handed, ParserInv, [Next]_vars
  PROVE  ParserInv'
<1>0. KernelType /\ "gsm" \in Objects
  BY TwoQueues DEF TypeOK
<1>r. /\ "DATA_AVAILABLE" \notin Requests /\ "ACK" \notin Requests /\ "CLOCK_RESPONSE" \notin Requests
      /\ \A sig \in OtherResults \cup {"ACK", "CLOCK_RESPONSE"} : sig \notin Requests
  BY RequestsAre DEF OtherResults
<1>1. CASE SchedulerMoves
  <2>1. /\ \A X : InGsm(X)' = InGsm(X)
        /\ \A X, Y : GsmAhead(X, Y)' = GsmAhead(X, Y)
        /\ \A X, Y, Z : GsmRow(X, Y, Z)' = GsmRow(X, Y, Z)
        /\ avail' = avail /\ ~Parses
    BY <1>0, <1>1, ConfigurationOfMain
    DEF SchedulerMoves, InGsm, GsmAhead, GsmRow, ToGsm, Parses, InHand, Idle, ObjectsOfMain
  <2>2. GsmRow(Data, {"ACK"}, Requests) => GsmAhead(Data, {"ACK", "CLOCK_RESPONSE"})
    <3>1. {"ACK"} \subseteq {"ACK", "CLOCK_RESPONSE"}
      OBVIOUS
    <3> QED
      BY <3>1, InOrder, Smaller
  <2> QED
    BY <2>1, <2>2 DEF ParserInv
<1>2. CASE GsmHandles
  <2>1. PICK R, S : Posts(R, S, {}) /\ R \subseteq {"BUFFER_FULL"}
    BY <1>2, GsmGives
  <2>2. ~Parses' /\ avail' = avail /\ current' = Idle
    BY <1>2 DEF GsmHandles, Parses, InHand, Idle
  <2> QED
    BY <1>0, <2>1, <2>2, ParserKept
<1>3. CASE GsmParses
  <2>1. PICK R : Posts(R, {}, {}) /\ R \subseteq OtherResults \cup {"ACK", "CLOCK_RESPONSE"}
    BY <1>3 DEF GsmParses
  <2>2. Parses /\ Parses' /\ current.ao = "gsm" /\ current.sig \in Data /\ current.sig \notin {"ACK"}
    BY <1>3 DEF GsmParses, Parses, InHand, Data
  <2>3. \A r \in R : r \notin Requests /\ r \notin Data
    BY <1>r, <2>1 DEF OtherResults, Data
  <2>4. ~GsmAhead(Data, Data)' /\ ~GsmRow(Data, {"ACK"}, Requests)'
    BY <1>0, <2>1, <2>2, <2>3, GsmOrder DEF ParserInv
  <2>5. ~GsmAhead({"ACK"}, Requests)
    BY <1>0, <2>1, <2>2, GsmOrder DEF ParserInv
  <2>6. ~GsmRow({"ACK"}, Requests, {"CLOCK_RESPONSE"})'
    BY <1>0, <2>1, <2>5, GsmOrder DEF ParserInv
  <2> QED
    BY <2>2, <2>4, <2>6 DEF ParserInv
<1>4. CASE AppHandles
  <2>0. PICK R, S, T : Posts(R, S, T) /\ AppMove(R, S, T)
    BY <1>4 DEF AppHandles, AppDoes
  <2>1. R \subseteq Requests \cup {"GSM_INIT"}
    BY <2>0, AppGives
  <2>2. ~Parses' /\ avail' = avail /\ current' = Idle
    BY <1>4 DEF AppHandles, Parses, InHand, Idle
  <2> QED
    BY <1>0, <1>r, <2>0, <2>1, <2>2, ParserKept
<1>5. CASE OthersStep /\ ~SerialReceives
  <2>1. PICK R, S : Posts(R, S, {}) /\ R \subseteq {"SEND_DONE", "TIMEOUT", "OPEN_DONE"}
    BY <1>0, <1>5, OtherPosts
    DEF OthersStep, OtherDoes, MeasuringStarts, MeasuringEnds, NothingEnds
  <2>2. avail' = avail /\ Parses' = Parses
    BY <1>5
    DEF OthersStep, OtherDoes, SerialSends, TimerExpires, MeasuringStarts, MeasuringEnds,
        NothingEnds, Parses, InHand, Idle
  <2>3. \A r \in R : r \notin Requests
    BY <2>1, RequestsAre
  <2> QED
    BY <1>0, <2>1, <2>2, <2>3, ParserKept
<1>6. CASE SerialReceives
  <2>1. /\ ~Parses /\ ~Parses' /\ avail = 0 /\ avail' > 0 /\ Posts({"DATA_AVAILABLE"}, {}, {})
    BY <1>6 DEF SerialReceives, Parses, InHand, Idle
  <2>2. ~InGsm(Data)
    BY <2>1 DEF ParserInv
  <2>3. ~GsmAhead(Data, Data)' /\ ~GsmAhead(Data, {"ACK", "CLOCK_RESPONSE"})'
    <3>1. ~GsmAhead(Data, Data) /\ ~GsmAhead(Data, {"ACK", "CLOCK_RESPONSE"})
      BY <2>2, InOrder
    <3> QED
      BY <1>0, <2>1, <2>2, <3>1, GsmOrder
  <2>4. ~GsmRow({"ACK"}, Requests, {"CLOCK_RESPONSE"})'
    BY <1>0, <2>1, GsmOrder DEF ParserInv
  <2> QED
    BY <2>1, <2>3, <2>4 DEF ParserInv
<1> QED
  BY <1>1, <1>2, <1>3, <1>4, <1>5, <1>6, StepKinds

-----------------------------------------------------------------------------
(* The requests of the application and their answers, one at a time.       *)

(* While the GSM object has its turn, the application has nothing to do:   *)
(* its priority is higher.                                                 *)
AppTurn == current.ao = "gsm" => ~InApp(Signals \ {"TIMEOUT"})

(* So an answer is behind no other event, except a TIMEOUT.                *)
FromGsm == {"INIT_DONE", "NETWORK_CONNECTED", "SMS_DELETE_DONE", "CLOCK_SET_DONE",
            "CLOCK_READ_DONE", "SMS_READ_DONE", "PARSING_ERROR"}
AnswerFirst ==
  /\ ~AppAhead(Signals \ {"TIMEOUT"}, FromGsm)
  /\ ~AppAhead(FromGsm \cup {"SMS_SENT"}, {"SMS_SENT"})

(* Nothing is asked before the modem is up, and the answer to the last     *)
(* request of start-up, or of cleanup, finds no other.                     *)
StartUp == gsm \in InactiveStates => app = "init" /\ ~InGsm(Requests)
Alone ==
  /\ InApp({"INIT_DONE", "NETWORK_CONNECTED"}) =>
       app = "init" /\ gsm = "active_idle" /\ ~InGsm(Requests)
  /\ InApp({"SMS_DELETE_DONE"}) =>
       app = "cleanup" /\ gsm = "active_idle" /\ ~InGsm(Requests)
Last == {"NETWORK_READ", "SMS_DELETE"}
LastRequest ==
  /\ ~GsmAhead(Last, Requests)
  /\ gsm \in {"network_status", "sms_delete"} => ~InGsm(Requests)
OutOnce ==
  /\ InApp({"TRANSITION_OUT"}) => app = "validate"
  /\ ~AppAhead({"TRANSITION_OUT"}, {"TRANSITION_OUT"})

(* What may have been asked for by a state of the application, or by those *)
(* it has come through since it was idle.                                  *)
Allowed(s) ==
  CASE s = "init" -> {"NETWORK_READ"}
    [] s = "app_idle" -> {}
    [] s \in {"reciever", "validate"} -> {"CHECK_PRESENCE", "SMS_READ"}
    [] s = "set_time" -> {"CHECK_PRESENCE", "SMS_READ", "EXTRACT_TIME", "CLOCK_SET",
                          "CLOCK_READ", "SMS_SEND"}
    [] s = "cleanup" -> Requests \ {"NETWORK_READ"}
    [] s \in MenuStates \ {"set_time"} -> {"CHECK_PRESENCE", "SMS_READ", "SMS_SEND"}
    [] OTHER -> {"CHECK_PRESENCE", "SMS_READ", "CLOCK_READ", "SMS_SEND"}
Serves(r) == gsm = Operation[r] \/ (r = "SMS_SEND" /\ gsm = "sms_send_support")
Belongs ==
  /\ \A r \in Requests : InGsm({r}) => r \in Allowed(app)
  /\ gsm \in OperationStates => \E r \in Allowed(app) : Serves(r)

RequestInv == AppTurn /\ AnswerFirst /\ StartUp /\ Alone /\ LastRequest /\ OutOnce /\ Belongs

LEMMA AllowedIs ==
  /\ Allowed("init") = {"NETWORK_READ"} /\ Allowed("app_idle") = {}
  /\ Allowed("reciever") = {"CHECK_PRESENCE", "SMS_READ"}
  /\ Allowed("cleanup") = Requests \ {"NETWORK_READ"}
  /\ Allowed("set_time") = Allowed("reciever") \cup {"EXTRACT_TIME", "CLOCK_SET", "CLOCK_READ", "SMS_SEND"}
  /\ \A s \in {"get_status", "action_on", "action_off"} :
       Allowed(s) = Allowed("reciever") \cup {"CLOCK_READ", "SMS_SEND"}
  /\ Allowed("validate") = Allowed("reciever")
  /\ \A s \in MenuStates \ {"set_time"} : Allowed(s) = Allowed("reciever") \cup {"SMS_SEND"}
<1>1. MenuStates \subseteq {"action_menu", "change_pass", "en_dis_pwd", "enable_broadcast",
                            "status_freq", "set_time", "generic"}
  BY AppAssumption DEF MenuStates
<1> QED
  BY <1>1 DEF Allowed

(* The steps of the scheduler, the parser, the interrupts and the drivers  *)
(* ask for nothing and answer nothing.                                     *)
FromDrivers == {"TIMEOUT", "MEASUREMENT_DONE", "EMON_ERROR"}
LEMMA NothingAsked ==
  ASSUME KernelType, Handed, SchedulerMoves \/ GsmParses \/ OthersStep
  PROVE  /\ UNCHANGED <<gsm, app, op>>
         /\ \A X : X \subseteq Requests => (InGsm(X)' => InGsm(X))
         /\ \A X, Y : Y \subseteq Requests => (GsmAhead(X, Y)' => GsmAhead(X, Y))
         /\ \A X, Y, Z : Z \subseteq Requests => (GsmRow(X, Y, Z)' => GsmRow(X, Y, Z))
         /\ \A X : X \cap FromDrivers = {} => (InApp(X)' => InApp(X))
         /\ \A X, Y : Y \cap FromDrivers = {} => (AppAhead(X, Y)' => AppAhead(X, Y))
         /\ \A X : InEmon(X)' => InEmon(X)
         /\ \A X, Y : EmonAhead(X, Y)' => EmonAhead(X, Y)
<1>1. CASE SchedulerMoves
  BY <1>1, ConfigurationOfMain
  DEF SchedulerMoves, InGsm, GsmAhead, GsmRow, InApp, AppAhead, InEmon, EmonAhead, ToGsm, ToApp,
      ObjectsOfMain
<1>2. CASE GsmParses \/ OthersStep
  <2>1. UNCHANGED <<gsm, app, op>>
    BY <1>2 DEF GsmParses, OthersStep
  <2>2. PICK R, S : Posts(R, S, {}) /\ R \cap Requests = {} /\ S \subseteq FromDrivers
    <3>1. CASE GsmParses
      <4>1. Posts({"ACK"}, {}, {}) \/ Posts({"CLOCK_RESPONSE"}, {}, {}) \/ Posts(OtherResults, {}, {})
        BY <3>1 DEF GsmParses
      <4>2. {"ACK"} \cap Requests = {} /\ {"CLOCK_RESPONSE"} \cap Requests = {}
            /\ OtherResults \cap Requests = {} /\ {} \subseteq FromDrivers
        BY RequestsAre DEF OtherResults
      <4> QED
        BY <4>1, <4>2
    <3>2. CASE OthersStep
      <4>1. \/ Posts({"SEND_DONE"}, {}, {}) \/ Posts({"DATA_AVAILABLE"}, {}, {})
            \/ Posts({"TIMEOUT"}, {}, {}) \/ Posts({}, {}, {})
            \/ Posts({}, {"MEASUREMENT_DONE", "EMON_ERROR"}, {})
            \/ Posts({"OPEN_DONE"}, {"TIMEOUT"}, {})
        BY <3>2, OtherPosts
        DEF OthersStep, OtherDoes, SerialReceives, MeasuringStarts, MeasuringEnds, NothingEnds
      <4>2. /\ {"SEND_DONE"} \cap Requests = {} /\ {"DATA_AVAILABLE"} \cap Requests = {}
            /\ {"TIMEOUT"} \cap Requests = {} /\ {} \cap Requests = {}
            /\ {"OPEN_DONE"} \cap Requests = {} /\ {} \subseteq FromDrivers
            /\ {"TIMEOUT"} \subseteq FromDrivers
            /\ {"MEASUREMENT_DONE", "EMON_ERROR"} \subseteq FromDrivers
        BY RequestsAre DEF FromDrivers
      <4> QED
        BY <4>1, <4>2
    <3> QED
      BY <1>2, <3>1, <3>2
  <2>3. /\ \A X : (\E sig \in R : sig \in X) => ~(X \subseteq Requests)
        /\ \A X : (\E sig \in S : sig \in X) => X \cap FromDrivers # {}
    BY <2>2
  <2>4. /\ \A X : InGsm(X)' => InGsm(X) \/ \E sig \in R : sig \in X
        /\ \A X, Y : GsmAhead(X, Y)' => GsmAhead(X, Y) \/ \E sig \in R : sig \in Y
        /\ \A X, Y, Z : GsmRow(X, Y, Z)' => GsmRow(X, Y, Z) \/ \E sig \in R : sig \in Z
    BY <2>2, GsmOrder
  <2>5. /\ \A X : InApp(X)' => InApp(X) \/ \E sig \in S : sig \in X
        /\ \A X, Y : AppAhead(X, Y)' => AppAhead(X, Y) \/ \E sig \in S : sig \in Y
    BY <2>2, AppOrder
  <2>6. /\ \A X : InEmon(X)' => InEmon(X)
        /\ \A X, Y : EmonAhead(X, Y)' => EmonAhead(X, Y)
    BY <2>2, EmonOrder
  <2> QED
    BY <2>1, <2>3, <2>4, <2>5, <2>6
<1> QED
  BY <1>1, <1>2

(* Something of the application's besides a TIMEOUT.                       *)
LEMMA NotIdle ==
  ASSUME NEW X, "TIMEOUT" \notin X
  PROVE  /\ InApp(X) => InApp(Signals \ {"TIMEOUT"})
         /\ \A Y : AppAhead(X, Y) => AppAhead(Signals \ {"TIMEOUT"}, Y)
<1>1. Of(X) \subseteq Of(Signals \ {"TIMEOUT"})
  BY DEF Of, Events
<1> QED
  BY <1>1 DEF InApp, AppAhead, Has, Before

(* A handler of the GSM object asks for nothing; it answers an application *)
(* that has nothing to do.                                                 *)
LEMMA GsmTurn ==
  ASSUME KernelType, Handed, GsmHandles
  PROVE  /\ UNCHANGED <<app, measuring>>
         /\ \A X : "BUFFER_FULL" \notin X => (InGsm(X)' => InGsm(X))
         /\ \A X, Y : "BUFFER_FULL" \notin Y => (GsmAhead(X, Y)' => GsmAhead(X, Y))
         /\ \A X, Y, Z : "BUFFER_FULL" \notin Z => (GsmRow(X, Y, Z)' => GsmRow(X, Y, Z))
         /\ \A X, Y : "BUFFER_FULL" \notin Y /\ current.sig \in X => (InGsm(Y)' => GsmAhead(X, Y))
         /\ \A X, Y, Z : "BUFFER_FULL" \notin Z /\ current.sig \in X =>
                           (GsmAhead(Y, Z)' => GsmRow(X, Y, Z))
         /\ \A X : current.sig \in X => InGsm(X)
         /\ \A X : InEmon(X)' => InEmon(X)
         /\ \A X, Y : EmonAhead(X, Y)' => EmonAhead(X, Y)
<1>1. PICK R, S : Posts(R, S, {}) /\ R \subseteq {"BUFFER_FULL"}
  BY GsmGives
<1>2. \A X : (\E sig \in R : sig \in X) => "BUFFER_FULL" \in X
  BY <1>1
<1>3. current.ao = "gsm" /\ current' = Idle /\ UNCHANGED <<app, measuring>>
  BY DEF GsmHandles
<1>4. /\ \A X : InGsm(X)' => InGsm(X) \/ \E sig \in R : sig \in X
      /\ \A X, Y : GsmAhead(X, Y)' => GsmAhead(X, Y) \/ \E sig \in R : sig \in Y
      /\ \A X, Y, Z : GsmRow(X, Y, Z)' => GsmRow(X, Y, Z) \/ \E sig \in R : sig \in Z
      /\ \A X, Y : current.sig \in X /\ InGsm(Y)' => GsmAhead(X, Y) \/ \E sig \in R : sig \in Y
      /\ \A X, Y, Z : current.sig \in X /\ GsmAhead(Y, Z)' =>
           GsmRow(X, Y, Z) \/ \E sig \in R : sig \in Z
      /\ \A X : current.sig \in X => InGsm(X)
  BY <1>1, <1>3, GsmOrder
<1>5. /\ \A X : InEmon(X)' => InEmon(X)
      /\ \A X, Y : EmonAhead(X, Y)' => EmonAhead(X, Y)
  BY <1>1, EmonOrder
<1> QED
  BY <1>2, <1>3, <1>4, <1>5

GsmAnswers(sig) ==
  \/ sig \in Reports
  \/ sig = "PARSING_ERROR" /\ gsm = "sms_extract_time" /\ gsm' = gsm
  \/ sig = "INIT_DONE" /\ gsm = "device_config" /\ gsm' = "active_idle"
  \/ /\ gsm \in OperationStates /\ gsm' = "active_idle" /\ current.sig = "ACK"
     /\ sig \in Outcomes[gsm]

LEMMA GsmReplies ==
  ASSUME KernelType, Handed, AppTurn, GsmHandles
  PROVE  /\ \A X : "TIMEOUT" \notin X /\ InApp(X)' => \E sig \in X : GsmAnswers(sig)
         /\ \A X, Y : "TIMEOUT" \notin X => ~AppAhead(X, Y)'
<1>1. PICK R, S : Posts(R, S, {}) /\ \A sig \in S : GsmAnswers(sig)
  <2>1. \/ \E S \in {{}, Reports} : Posts({}, S, {})
        \/ Posts({"BUFFER_FULL"}, {}, {})
        \/ gsm = "sms_extract_time" /\ gsm' = gsm /\ Posts({}, {"PARSING_ERROR"}, {})
        \/ gsm = "device_config" /\ gsm' = "active_idle" /\ Posts({}, {"INIT_DONE"}, {})
        \/ /\ gsm \in OperationStates /\ gsm' = "active_idle" /\ current.sig = "ACK"
           /\ Posts({}, Outcomes[gsm] \cup Reports, {})
    BY DEF GsmHandles, GsmDoes, GsmStays, GsmOpens, GsmArms, GsmFails, GsmConfigured, GsmAccepts,
           GsmSends, GsmOverflows, GsmEnds, Tells
  <2> QED
    BY <2>1 DEF GsmAnswers
<1>2. /\ \A X : InApp(X)' => InApp(X) \/ \E sig \in S : sig \in X
      /\ \A X, Y : AppAhead(X, Y)' => InApp(X)
  BY <1>1, AppOrder, InOrder
<1>3. \A X : "TIMEOUT" \notin X => ~InApp(X)
  BY NotIdle DEF AppTurn, GsmHandles
<1> QED
  BY <1>1, <1>2, <1>3

-----------------------------------------------------------------------------
(* What the application is waiting for.                                    *)

Clock == {"CLOCK_READ"}
ClockDone == {"CLOCK_READ_DONE"}
MeasureDone == {"MEASUREMENT_DONE", "STATUS_READ_DONE"}
Clocking == InGsm(Clock) \/ gsm = "time_get" \/ InApp(ClockDone)
Texting == InGsm({"SMS_SEND"}) \/ gsm \in {"sms_send", "sms_send_support"} \/ InApp({"SMS_SENT"})
Gauging == InEmon({"READ_ENTITY"}) \/ measuring \/ InApp(MeasureDone)
Extracting == InGsm({"EXTRACT_TIME"}) \/ gsm = "sms_extract_time"

(* The status of the motor takes the clock, the measurements and the       *)
(* messages one after the other.                                           *)
SentWhere == InApp({"SMS_SENT"}) => app \notin {"init", "app_idle", "reciever", "validate"}
ClockOnce == app = "get_status" =>
  /\ ~GsmAhead(Clock, Clock) /\ ~(InGsm(Clock) /\ gsm = "time_get")
  /\ InApp(ClockDone) => ~InGsm(Clock) /\ gsm # "time_get"
OneAsked ==
  /\ app = "get_status" => ~(Clocking /\ Texting)
  /\ Gauging => app = "get_status" /\ ~Clocking /\ ~Texting
MeasureOnce ==
  /\ ~EmonAhead({"READ_ENTITY"}, {"READ_ENTITY"})
  /\ measuring => ~InEmon({"READ_ENTITY"})
  /\ InApp(MeasureDone) => ~measuring /\ ~InEmon({"READ_ENTITY"})
  /\ ~AppAhead(MeasureDone, MeasureDone)

(* The clock is read only when it is set.                                  *)
TimeSet ==
  /\ Extracting => ~InGsm(Clock) /\ ~InApp({"CLOCK_SET_DONE"})
  /\ InGsm({"EXTRACT_TIME"}) => gsm # "time_set"
  /\ ~GsmAhead({"CLOCK_SET"}, {"EXTRACT_TIME"})
  /\ InApp({"CLOCK_SET_DONE"}) => app \in {"set_time", "cleanup"}
AnswersInv == SentWhere /\ ClockOnce /\ OneAsked /\ MeasureOnce /\ TimeSet

-----------------------------------------------------------------------------
(* Tables: the operations, how they end, what the states may ask for.      *)

LEMMA OperationsAre ==
  /\ OperationStates = {"network_status", "sms_read", "sms_extract_time", "sms_delete", "time_get",
                        "time_set", "sms_send", "sms_presence", "sms_send_support"}
  /\ \A r, s \in Requests : Operation[r] = Operation[s] => r = s
  /\ \A r \in Requests : Operation[r] # "sms_send_support"
BY DEF OperationStates, Operation, Requests

LEMMA OutcomesOf ==
  ASSUME NEW s \in OperationStates
  PROVE  /\ "NETWORK_CONNECTED" \in Outcomes[s] => s = "network_status"
         /\ "SMS_DELETE_DONE" \in Outcomes[s] => s = "sms_delete"
         /\ "CLOCK_SET_DONE" \in Outcomes[s] => s = "time_set"
         /\ "CLOCK_READ_DONE" \in Outcomes[s] => s = "time_get"
         /\ "SMS_SENT" \in Outcomes[s] => s \in {"sms_send", "sms_send_support"}
         /\ \A sig \in {"INIT_DONE", "PARSING_ERROR", "START_SESSION", "TRANSITION_OUT",
                        "STATUS_READ_DONE", "MEASUREMENT_DONE"} : sig \notin Outcomes[s]
BY OperationsAre DEF Outcomes

LEMMA AllowedTo ==
  ASSUME NEW s \in AppStates
  PROVE  /\ Allowed(s) \subseteq Requests
         /\ "NETWORK_READ" \in Allowed(s) => s = "init"
         /\ "SMS_DELETE" \in Allowed(s) => s = "cleanup"
         /\ "CLOCK_SET" \in Allowed(s) \/ "EXTRACT_TIME" \in Allowed(s) => s \in {"set_time", "cleanup"}
         /\ "CLOCK_READ" \in Allowed(s) =>
              s \in {"get_status", "action_on", "action_off", "set_time", "cleanup"}
         /\ "SMS_SEND" \in Allowed(s) => s \notin {"init", "app_idle", "reciever", "validate"}
<1>1. s \in {"init", "app_idle", "reciever", "validate", "get_status", "action_on", "action_off",
             "cleanup", "set_time"} \cup (MenuStates \ {"set_time"})
  BY DEF AppStates, ActiveStates, ActionStates
<1> QED
  BY <1>1, AllowedIs, RequestsAre

LEMMA ServedFor ==
  ASSUME Belongs, app \in AppStates
  PROVE  /\ \A r \in Requests : gsm = Operation[r] => r \in Allowed(app)
         /\ gsm = "sms_send_support" => "SMS_SEND" \in Allowed(app)
<1>1. Allowed(app) \subseteq Requests
  BY AllowedTo
<1>2. ASSUME gsm \in OperationStates
      PROVE  \E r \in Allowed(app) : Serves(r)
  BY <1>2 DEF Belongs
<1>3. (\A r \in Requests : Operation[r] \in OperationStates) /\ "sms_send_support" \in OperationStates
  BY DEF OperationStates
<1> QED
  BY <1>1, <1>2, <1>3, OperationsAre DEF Serves

LEMMA GsmBecomes ==
  ASSUME GsmHandles
  PROVE  /\ gsm' \in InactiveStates => gsm \in InactiveStates
         /\ gsm' \in OperationStates =>
              \/ gsm' = gsm
              \/ current.sig \in Requests /\ gsm' = Operation[current.sig]
              \/ gsm \in {"sms_send", "sms_send_support"} /\ gsm' = "sms_send_support"
<1>1. /\ InactiveStates \cap OperationStates = {} /\ "active_idle" \notin InactiveStates
      /\ "active_idle" \notin OperationStates
  BY OperationsAre DEF InactiveStates
<1>2. /\ current.sig \in Requests => Operation[current.sig] \in OperationStates
  BY DEF OperationStates
<1> QED
  BY <1>1, <1>2, OperationsAre
  DEF GsmHandles, GsmDoes, GsmStays, GsmOpens, GsmArms, GsmFails, GsmConfigured, GsmAccepts,
      GsmSends, GsmOverflows, GsmEnds, InactiveStates

-----------------------------------------------------------------------------
(* The requests: how each kind of step keeps RequestInv.                   *)

LEMMA AppTurnNext ==
  ASSUME TypeOK, Handed, AppTurn, [Next]_vars
  PROVE  AppTurn'
<1>0. KernelType /\ "gsm" \in Objects /\ "app" \in Objects
  BY TwoQueues DEF TypeOK
<1>1. CASE SchedulerMoves
  <2>1. PICK b \in Objects : Dispatch(b)
    BY <1>1 DEF SchedulerMoves
  <2>2. current = Idle /\ current'.ao = b /\ ToApp' = ToApp
    BY <1>0, <1>1, <2>1 DEF SchedulerMoves, Dispatch, ToApp
  <2>3. b = "gsm" => queue["app"] = <<>>
    BY <1>0, <2>1, ConfigurationOfMain DEF Dispatch, Ready, PriorityOfMain
  <2>4. ToApp = queue["app"]
    BY <1>0, <2>2, ConfigurationOfMain DEF ToApp, Inbox, Idle, ObjectsOfMain
  <2>5. queue["app"] = <<>> => ~Has(ToApp, Of(Signals \ {"TIMEOUT"}))
    BY <2>4 DEF Has
  <2>6. InApp(Signals \ {"TIMEOUT"})' => InApp(Signals \ {"TIMEOUT"})
    BY <2>2 DEF InApp
  <2> QED
    BY <2>2, <2>3, <2>5, <2>6 DEF AppTurn, InApp
<1>2. CASE GsmHandles \/ AppHandles
  BY <1>2 DEF GsmHandles, AppHandles, AppTurn, Idle
<1>3. CASE GsmParses
  <2>1. PICK R : Posts(R, {}, {})
    BY <1>3 DEF GsmParses
  <2>2. InApp(Signals \ {"TIMEOUT"})' => InApp(Signals \ {"TIMEOUT"})
    BY <1>0, <2>1, AppOrder
  <2> QED
    BY <1>3, <2>2 DEF GsmParses, AppTurn
<1>4. CASE OthersStep
  <2> SUFFICES ASSUME current'.ao = "gsm" PROVE ~InApp(Signals \ {"TIMEOUT"})'
    BY DEF AppTurn
  <2>1. current' = current /\ current # Idle
    BY <1>4 DEF OthersStep, Idle
  <2>2. PICK R : Posts(R, {"TIMEOUT"}, {}) \/ Posts(R, {}, {})
    BY <1>0, <1>4, <2>1, OtherPosts
    DEF OthersStep, OtherDoes, SerialSends, SerialReceives, MeasuringStarts, MeasuringEnds,
        NothingEnds
  <2>3. InApp(Signals \ {"TIMEOUT"})' => InApp(Signals \ {"TIMEOUT"})
    BY <1>0, <2>2, AppOrder
  <2> QED
    BY <2>1, <2>3 DEF AppTurn
<1> QED
  BY <1>1, <1>2, <1>3, <1>4, StepKinds

LEMMA RequestsByQuiet ==
  ASSUME KernelType, Handed, RequestInv, SchedulerMoves \/ GsmParses \/ OthersStep
  PROVE  (AnswerFirst /\ StartUp /\ Alone /\ LastRequest /\ OutOnce /\ Belongs)'
<1>1. /\ FromGsm \cap FromDrivers = {} /\ {"SMS_SENT"} \cap FromDrivers = {}
      /\ {"INIT_DONE", "NETWORK_CONNECTED"} \cap FromDrivers = {}
      /\ {"SMS_DELETE_DONE"} \cap FromDrivers = {} /\ {"TRANSITION_OUT"} \cap FromDrivers = {}
      /\ Requests \subseteq Requests /\ \A r \in Requests : {r} \subseteq Requests
  BY DEF FromGsm, FromDrivers
<1>2. /\ UNCHANGED <<gsm, app>>
      /\ AppAhead(Signals \ {"TIMEOUT"}, FromGsm)' => AppAhead(Signals \ {"TIMEOUT"}, FromGsm)
      /\ AppAhead(FromGsm \cup {"SMS_SENT"}, {"SMS_SENT"})' =>
           AppAhead(FromGsm \cup {"SMS_SENT"}, {"SMS_SENT"})
      /\ AppAhead({"TRANSITION_OUT"}, {"TRANSITION_OUT"})' =>
           AppAhead({"TRANSITION_OUT"}, {"TRANSITION_OUT"})
      /\ InGsm(Requests)' => InGsm(Requests)
      /\ GsmAhead(Last, Requests)' => GsmAhead(Last, Requests)
  BY <1>1, NothingAsked
<1>3. /\ InApp({"INIT_DONE", "NETWORK_CONNECTED"})' => InApp({"INIT_DONE", "NETWORK_CONNECTED"})
      /\ InApp({"SMS_DELETE_DONE"})' => InApp({"SMS_DELETE_DONE"})
      /\ InApp({"TRANSITION_OUT"})' => InApp({"TRANSITION_OUT"})
      /\ \A r \in Requests : InGsm({r})' => InGsm({r})
  BY <1>1, NothingAsked
<1> QED
  BY <1>2, <1>3
  DEF RequestInv, AnswerFirst, StartUp, Alone, LastRequest, OutOnce, Belongs, Serves

LEMMA RequestsByGsm ==
  ASSUME KernelType, app \in AppStates, Handed, RequestInv, GsmHandles
  PROVE  (AnswerFirst /\ StartUp /\ Alone /\ LastRequest /\ OutOnce /\ Belongs)'
<1>1. /\ "BUFFER_FULL" \notin Requests /\ (\A r \in Requests : "BUFFER_FULL" \notin {r})
      /\ "TIMEOUT" \notin Signals \ {"TIMEOUT"} /\ "TIMEOUT" \notin FromGsm \cup {"SMS_SENT"}
      /\ "TIMEOUT" \notin {"INIT_DONE", "NETWORK_CONNECTED"} /\ "TIMEOUT" \notin {"SMS_DELETE_DONE"}
      /\ "TIMEOUT" \notin {"TRANSITION_OUT"}
  BY RequestsAre DEF FromGsm
<1>2. /\ app' = app /\ (InGsm(Requests)' => InGsm(Requests))
      /\ \A r \in Requests : InGsm({r})' => InGsm({r})
      /\ GsmAhead(Last, Requests)' => GsmAhead(Last, Requests)
      /\ current.sig \in Last /\ InGsm(Requests)' => GsmAhead(Last, Requests)
      /\ \A r \in Requests : current.sig = r => InGsm({r})
  BY <1>1, GsmTurn
<1>3. AnswerFirst'
  <2>1. /\ ~AppAhead(Signals \ {"TIMEOUT"}, FromGsm)'
        /\ ~AppAhead(FromGsm \cup {"SMS_SENT"}, {"SMS_SENT"})'
    BY <1>1, GsmReplies DEF RequestInv
  <2> QED
    BY <2>1 DEF AnswerFirst
<1>4. StartUp'
  BY <1>2, GsmBecomes DEF RequestInv, StartUp
<1>5. Alone'
  <2>1. /\ InApp({"INIT_DONE", "NETWORK_CONNECTED"})' =>
             GsmAnswers("INIT_DONE") \/ GsmAnswers("NETWORK_CONNECTED")
        /\ InApp({"SMS_DELETE_DONE"})' => GsmAnswers("SMS_DELETE_DONE")
    BY <1>1, GsmReplies DEF RequestInv
  <2>2. /\ GsmAnswers("INIT_DONE") => gsm \in InactiveStates /\ gsm' = "active_idle"
        /\ GsmAnswers("NETWORK_CONNECTED") => gsm = "network_status" /\ gsm' = "active_idle"
        /\ GsmAnswers("SMS_DELETE_DONE") => gsm = "sms_delete" /\ gsm' = "active_idle"
    BY OutcomesOf DEF GsmAnswers, Reports, InactiveStates
  <2>3. /\ gsm = "network_status" => app = "init" /\ ~InGsm(Requests)
        /\ gsm = "sms_delete" => app = "cleanup" /\ ~InGsm(Requests)
    BY AllowedTo, ServedFor, RequestsAre DEF RequestInv, LastRequest, Operation
  <2> QED
    BY <1>2, <2>1, <2>2, <2>3 DEF RequestInv, StartUp, Alone
<1>6. LastRequest'
  <2>1. gsm' \in {"network_status", "sms_delete"} => gsm' = gsm \/ current.sig \in Last
    BY GsmBecomes, OperationsAre, RequestsAre DEF Operation, Last
  <2> QED
    BY <1>2, <2>1 DEF RequestInv, LastRequest
<1>7. OutOnce'
  <2>1. /\ InApp({"TRANSITION_OUT"})' => GsmAnswers("TRANSITION_OUT")
        /\ ~AppAhead({"TRANSITION_OUT"}, {"TRANSITION_OUT"})'
    BY <1>1, GsmReplies DEF RequestInv
  <2>2. ~GsmAnswers("TRANSITION_OUT")
    BY OutcomesOf DEF GsmAnswers, Reports
  <2> QED
    BY <2>1, <2>2 DEF OutOnce
<1>8. Belongs'
  <2>1. \A r \in Requests : InGsm({r})' => r \in Allowed(app')
    BY <1>2 DEF RequestInv, Belongs
  <2>2. ASSUME gsm' \in OperationStates
        PROVE  \E r \in Allowed(app) : gsm' = Operation[r] \/ (r = "SMS_SEND" /\ gsm' = "sms_send_support")
    <3>1. CASE gsm' = gsm
      BY <2>2, <3>1 DEF RequestInv, Belongs, Serves
    <3>2. CASE current.sig \in Requests /\ gsm' = Operation[current.sig]
      BY <1>2, <3>2 DEF RequestInv, Belongs
    <3>3. CASE gsm \in {"sms_send", "sms_send_support"} /\ gsm' = "sms_send_support"
      <4>1. "SMS_SEND" \in Allowed(app)
        BY <3>3, ServedFor, RequestsAre DEF RequestInv, Operation
      <4> QED
        BY <3>3, <4>1
    <3> QED
      BY <2>2, <3>1, <3>2, <3>3, GsmBecomes
  <2> QED
    BY <1>2, <2>1, <2>2 DEF Belongs, Serves
<1> QED
  BY <1>3, <1>4, <1>5, <1>6, <1>7, <1>8

-----------------------------------------------------------------------------
(* What the application finds when it has handled an event: an answer that *)
(* was ahead of all others is gone.                                        *)
LEMMA AppTakes ==
  ASSUME KernelType, Handed, AnswerFirst, AppHandles,
         NEW R, NEW S, NEW T, Posts(R, S, T), AppMove(R, S, T)
  PROVE  /\ current.sig # "TIMEOUT" => \A X : X \subseteq FromGsm => ~InApp(X)'
         /\ current.sig \in FromGsm \cup {"SMS_SENT"} /\ "SMS_SENT" \notin S => ~InApp({"SMS_SENT"})'
         /\ \A X : X \subseteq FromGsm => (InApp(X)' => InApp(X))
<1>0. current.ao = "app" /\ current' = Idle /\ current.sig \in Signals
  BY ConfigurationOfMain DEF AppHandles, Handed, ObjectsOfMain
<1>1. S \cap FromGsm = {}
  BY AppGives DEF ToItself, FromGsm
<1>2. ASSUME current.sig # "TIMEOUT", NEW X, X \subseteq FromGsm, InApp(X)'
      PROVE  FALSE
  <2>1. current.sig \in Signals \ {"TIMEOUT"}
    BY <1>0, <1>2
  <2>2. AppAhead(Signals \ {"TIMEOUT"}, X)
    BY <1>0, <1>1, <1>2, <2>1, AppOrder
  <2> QED
    BY <1>2, <2>2, Smaller DEF AnswerFirst
<1>3. ASSUME current.sig \in FromGsm \cup {"SMS_SENT"}, "SMS_SENT" \notin S, InApp({"SMS_SENT"})'
      PROVE  FALSE
  <2>1. AppAhead(FromGsm \cup {"SMS_SENT"}, {"SMS_SENT"})
    BY <1>0, <1>3, AppOrder
  <2> QED
    BY <2>1 DEF AnswerFirst
<1>4. \A X : X \subseteq FromGsm => (InApp(X)' => InApp(X))
  BY <1>1, AppOrder
<1> QED
  BY <1>2, <1>3, <1>4

(* When the application asks, and what its next state may ask for.         *)
LEMMA AppAsksFor ==
  ASSUME app \in AppStates, NEW R, NEW S, NEW T, AppMove(R, S, T)
  PROVE  /\ app = "init" =>
              /\ app' = "init" \/ current.sig = "NETWORK_CONNECTED"
              /\ R \cap Requests = {} \/ current.sig = "INIT_DONE"
         /\ app = "cleanup" /\ current.sig \notin {"SMS_DELETE_DONE", "TRANSITION_OUT"} =>
              app' = "cleanup" /\ R \cap Requests = {}
         /\ app = "validate" => app' = "validate" \/ current.sig = "TRANSITION_OUT"
         /\ "TRANSITION_OUT" \in S => app = "reciever" /\ app' = "validate"
         /\ R \cap Requests \subseteq Allowed(app')
         /\ \/ Allowed(app) \subseteq Allowed(app')
            \/ current.sig \in {"NETWORK_CONNECTED", "SMS_DELETE_DONE"} /\ app' = "app_idle"
<1>1. /\ "action_menu" \in MenuStates /\ MenuOptions \subseteq MenuStates
      /\ "action_menu" # "set_time" /\ "set_time" \notin {"get_status", "action_on", "action_off"}
      /\ \A s \in {"init", "cleanup", "app_idle", "reciever", "validate", "get_status", "action_on",
                   "action_off"} : s \notin MenuStates
      /\ "init" \notin ActionStates /\ "cleanup" \notin ActionStates /\ "reciever" \notin ActionStates
      /\ "app_idle" \notin ActionStates /\ "init" \notin ActiveStates /\ "app_idle" \notin ActiveStates
      /\ "GSM_INIT" \notin Requests
      /\ {"validate", "get_status", "action_on", "action_off", "action_menu"} \subseteq ActionStates
      /\ MenuOptions \subseteq ActionStates
  BY AppAssumption, RequestsAre DEF ActiveStates, ActionStates, MenuStates
<1>2. /\ app = "init" =>
           /\ app' = "init" \/ current.sig = "NETWORK_CONNECTED"
           /\ R \cap Requests = {} \/ current.sig = "INIT_DONE"
      /\ app = "cleanup" /\ current.sig \notin {"SMS_DELETE_DONE", "TRANSITION_OUT"} =>
           app' = "cleanup" /\ R \cap Requests = {}
      /\ app = "validate" => app' = "validate" \/ current.sig = "TRANSITION_OUT"
      /\ "TRANSITION_OUT" \in S => app = "reciever" /\ app' = "validate"
  BY <1>1
  DEF AppMove, AppRemains, AppIdles, AppConnects, AppRecieves, AppFinds, AppActs, AppPulses,
      AppOpens, AppSets, AppReads, AppMeasures, AppBroadcasts, AppGoesOn, AppLeaves
<1>3. /\ Allowed("reciever") \subseteq Requests
      /\ \A r \in Allowed("reciever") : r # "NETWORK_READ"
      /\ \A s \in {"get_status", "action_on", "action_off"} : {"CLOCK_READ", "SMS_SEND"} \subseteq Allowed(s)
      /\ \A s \in MenuStates : "SMS_SEND" \in Allowed(s)
      /\ {"EXTRACT_TIME", "CLOCK_SET", "CLOCK_READ", "SMS_SEND"} \subseteq Allowed("set_time")
      /\ {"CHECK_PRESENCE", "SMS_READ"} \subseteq Allowed("reciever")
      /\ "NETWORK_READ" \in Allowed("init") /\ "SMS_DELETE" \in Allowed("cleanup")
  BY <1>1, AllowedIs, RequestsAre
<1>4. R \cap Requests \subseteq Allowed(app')
  <2>1. CASE AppRemains(R, S, T) \/ AppIdles(R, S, T) \/ AppConnects(R, S, T) \/ AppRecieves(R, S, T)
             \/ AppFinds(R, S, T) \/ AppPulses(R, S, T) \/ AppOpens(R, S, T) \/ AppSets(R, S, T)
    BY <1>1, <1>3, <2>1
    DEF AppRemains, AppIdles, AppConnects, AppRecieves, AppFinds, AppPulses, AppOpens, AppSets
  <2>2. CASE AppActs(R, S, T)
    BY <1>1, <1>3, <2>2 DEF AppActs
  <2>3. CASE AppReads(R, S, T) \/ AppMeasures(R, S, T) \/ AppBroadcasts(R, S, T) \/ AppGoesOn(R, S, T)
             \/ AppLeaves(R, S, T)
    BY <1>1, <1>3, <2>3 DEF AppReads, AppMeasures, AppBroadcasts, AppGoesOn, AppLeaves
  <2> QED
    BY <2>1, <2>2, <2>3 DEF AppMove
<1>5. /\ \A s \in ActionStates : Allowed("reciever") \subseteq Allowed(s)
      /\ \A s \in AppStates \ {"init"} : Allowed(s) \subseteq Allowed("cleanup")
      /\ Allowed("app_idle") = {}
  <2>1. \A s \in ActionStates : Allowed("reciever") \subseteq Allowed(s)
    BY AllowedIs DEF ActionStates
  <2>2. \A s \in AppStates \ {"init"} : Allowed(s) \subseteq Allowed("cleanup")
    BY AllowedIs, AllowedTo
  <2> QED
    BY <2>1, <2>2, AllowedIs
<1>6. \/ app' = app
      \/ current.sig \in {"NETWORK_CONNECTED", "SMS_DELETE_DONE"} /\ app' = "app_idle"
      \/ app = "app_idle"
      \/ app = "reciever" /\ app' \in ActionStates
      \/ app # "init" /\ app' = "cleanup"
  BY <1>1
  DEF AppMove, AppRemains, AppIdles, AppConnects, AppRecieves, AppFinds, AppActs, AppPulses,
      AppOpens, AppSets, AppReads, AppMeasures, AppBroadcasts, AppGoesOn, AppLeaves
<1>7. \/ Allowed(app) \subseteq Allowed(app')
      \/ current.sig \in {"NETWORK_CONNECTED", "SMS_DELETE_DONE"} /\ app' = "app_idle"
  BY <1>5, <1>6
<1> QED
  BY <1>2, <1>4, <1>7

LEMMA RequestsByApp ==
  ASSUME KernelType, app \in AppStates, Handed, RequestInv, AnswersInv, AppHandles
  PROVE  (AnswerFirst /\ StartUp /\ Alone /\ LastRequest /\ OutOnce /\ Belongs)'
<1>0. /\ current.ao = "app" /\ current' = Idle /\ current.sig \in Signals /\ gsm' = gsm
  BY ConfigurationOfMain DEF AppHandles, Handed, ObjectsOfMain
<1>1. PICK R, S, T : Posts(R, S, T) /\ AppMove(R, S, T)
  BY DEF AppHandles, AppDoes
<1>2. /\ S \cap FromGsm = {}
      /\ \A X : X \subseteq Requests => (InGsm(X)' => InGsm(X) \/ R \cap X # {})
      /\ \A X : GsmAhead(X, Requests)' => GsmAhead(X, Requests) \/ (InGsm(X) /\ R \cap Requests # {})
  BY <1>1, AppGives, GsmOrder DEF ToItself, FromGsm
<1>3. \A X : current.sig \in X => InApp(X)
  BY <1>0, <1>1, AppOrder
<1>4. AnswerFirst'
  <2>1. ~AppAhead(Signals \ {"TIMEOUT"}, FromGsm)'
    BY <1>1, <1>2, AppOrder DEF RequestInv, AnswerFirst
  <2>2. ~AppAhead(FromGsm \cup {"SMS_SENT"}, {"SMS_SENT"})'
    <3>1. CASE "SMS_SENT" \notin S
      BY <1>1, <3>1, AppOrder DEF RequestInv, AnswerFirst
    <3>2. CASE "SMS_SENT" \in S
      <4>1. current.sig = "STATUS_READ_DONE"
        BY <1>1, <3>2
        DEF AppMove, AppRemains, AppIdles, AppConnects, AppRecieves, AppFinds, AppActs, AppPulses,
            AppOpens, AppSets, AppReads, AppMeasures, AppBroadcasts, AppGoesOn, AppLeaves
      <4>2. ~InApp({"SMS_SENT"})
        BY <1>3, <4>1 DEF AnswersInv, OneAsked, Gauging, Texting, MeasureDone
      <4>3. ~InApp(FromGsm)
        <5>1. current.sig \in Signals \ {"TIMEOUT"} /\ current.sig \notin FromGsm
          BY <1>0, <4>1 DEF FromGsm
        <5>2. current.sig \in Signals \ {"TIMEOUT"} /\ InApp(FromGsm) =>
                AppAhead(Signals \ {"TIMEOUT"}, FromGsm)
          BY <1>0, <1>1, <5>1, AppOrder
        <5> QED
          BY <5>1, <5>2 DEF RequestInv, AnswerFirst
      <4>4. ~InApp(FromGsm \cup {"SMS_SENT"})
        BY <4>2, <4>3 DEF InApp, Has, Of
      <4>5. ~AppAhead(FromGsm \cup {"SMS_SENT"}, {"SMS_SENT"})
        BY <4>4, InOrder
      <4> QED
        BY <1>1, <4>4, <4>5, AppOrder
    <3> QED
      BY <3>1, <3>2
  <2> QED
    BY <2>1, <2>2 DEF AnswerFirst
<1>5. StartUp'
  <2> SUFFICES ASSUME gsm \in InactiveStates PROVE app' = "init" /\ ~InGsm(Requests)'
    BY <1>0 DEF StartUp
  <2>1. app = "init" /\ ~InGsm(Requests) /\ gsm # "active_idle"
    BY DEF RequestInv, StartUp, InactiveStates
  <2>2. current.sig \notin {"INIT_DONE", "NETWORK_CONNECTED"}
    BY <1>3, <2>1 DEF RequestInv, Alone
  <2> QED
    BY <1>1, <1>2, <2>1, <2>2, AppAsksFor
<1>6. Alone'
  <2>1. /\ {"INIT_DONE", "NETWORK_CONNECTED"} \subseteq FromGsm
        /\ {"SMS_DELETE_DONE"} \subseteq FromGsm
    BY DEF FromGsm
  <2>2. /\ \/ ~InApp({"INIT_DONE", "NETWORK_CONNECTED"})'
           \/ current.sig = "TIMEOUT" /\ InApp({"INIT_DONE", "NETWORK_CONNECTED"})
        /\ \/ ~InApp({"SMS_DELETE_DONE"})'
           \/ current.sig = "TIMEOUT" /\ InApp({"SMS_DELETE_DONE"})
    BY <1>1, <2>1, AppTakes DEF RequestInv
  <2>3. app \in {"init", "cleanup"} /\ current.sig = "TIMEOUT" => app' = app /\ R \cap Requests = {}
    BY <1>1, AppAsksFor
  <2> QED
    BY <1>0, <1>2, <2>2, <2>3 DEF RequestInv, Alone
<1>7. LastRequest'
  <2>1. R \cap Requests # {} => ~InGsm(Last) /\ gsm \notin {"network_status", "sms_delete"}
    <3> SUFFICES ASSUME R \cap Requests # {}
                 PROVE  ~InGsm(Last) /\ gsm \notin {"network_status", "sms_delete"}
      OBVIOUS
    <3>1. CASE current.sig = "INIT_DONE"
      <4>1. gsm = "active_idle" /\ ~InGsm(Requests)
        BY <1>3, <3>1 DEF RequestInv, Alone
      <4>2. Last \subseteq Requests
        BY RequestsAre DEF Last
      <4> QED
        BY <4>1, <4>2, Smaller
    <3>2. CASE current.sig # "INIT_DONE"
      <4>1. current.sig = "TRANSITION_OUT" => app = "validate"
        BY <1>3 DEF RequestInv, OutOnce
      <4>2. current.sig = "SMS_DELETE_DONE" => R \cap Requests = {}
        BY <1>1, RequestsAre
        DEF AppMove, AppRemains, AppIdles, AppConnects, AppRecieves, AppFinds, AppActs, AppPulses,
            AppOpens, AppSets, AppReads, AppMeasures, AppBroadcasts, AppGoesOn, AppLeaves
      <4>3. app \notin {"init", "cleanup"}
        BY <1>1, <3>2, <4>1, <4>2, AppAsksFor
      <4>4. "NETWORK_READ" \notin Allowed(app) /\ "SMS_DELETE" \notin Allowed(app)
        BY <4>3, AllowedTo
      <4>5. /\ ~InGsm({"NETWORK_READ"}) /\ ~InGsm({"SMS_DELETE"})
            /\ gsm # "network_status" /\ gsm # "sms_delete"
        BY <4>4, ServedFor, RequestsAre DEF RequestInv, Belongs, Operation
      <4> QED
        BY <4>5 DEF Last, InGsm, Has, Of
    <3> QED
      BY <3>1, <3>2
  <2> QED
    BY <1>0, <1>2, <2>1 DEF RequestInv, LastRequest
<1>8. OutOnce'
  <2>1. CASE "TRANSITION_OUT" \in S
    <3>1. app = "reciever" /\ app' = "validate"
      BY <1>1, <2>1, AppAsksFor
    <3>2. ~InApp({"TRANSITION_OUT"}) /\ ~AppAhead({"TRANSITION_OUT"}, {"TRANSITION_OUT"})
      BY <3>1, InOrder DEF RequestInv, OutOnce
    <3> QED
      BY <1>1, <3>1, <3>2, AppOrder DEF OutOnce
  <2>2. CASE "TRANSITION_OUT" \notin S
    <3>1. /\ InApp({"TRANSITION_OUT"})' => InApp({"TRANSITION_OUT"})
          /\ AppAhead({"TRANSITION_OUT"}, {"TRANSITION_OUT"})' =>
               AppAhead({"TRANSITION_OUT"}, {"TRANSITION_OUT"})
          /\ current.sig = "TRANSITION_OUT" /\ InApp({"TRANSITION_OUT"})' =>
               AppAhead({"TRANSITION_OUT"}, {"TRANSITION_OUT"})
      BY <1>0, <1>1, <2>2, AppOrder
    <3>2. app = "validate" => app' = "validate" \/ current.sig = "TRANSITION_OUT"
      BY <1>1, AppAsksFor
    <3> QED
      BY <3>1, <3>2 DEF RequestInv, OutOnce
  <2> QED
    BY <2>1, <2>2
<1>9. Belongs'
  <2>1. \A r \in Requests : InGsm({r})' => InGsm({r}) \/ r \in R
    BY <1>2
  <2>2. CASE Allowed(app) \subseteq Allowed(app')
    <3>1. \A r \in Requests : InGsm({r})' => r \in Allowed(app')
      BY <1>1, <2>1, <2>2, AppAsksFor DEF RequestInv, Belongs
    <3>2. gsm \in OperationStates => \E r \in Allowed(app') : Serves(r)
      BY <2>2 DEF RequestInv, Belongs
    <3> QED
      BY <1>0, <3>1, <3>2 DEF Belongs, Serves
  <2>3. CASE current.sig \in {"NETWORK_CONNECTED", "SMS_DELETE_DONE"} /\ app' = "app_idle"
    <3>1. gsm = "active_idle" /\ ~InGsm(Requests)
      BY <1>3, <2>3 DEF RequestInv, Alone
    <3>2. gsm \notin OperationStates
      BY <3>1, OperationsAre
    <3>3. \A r \in Requests : ~InGsm({r})
      BY <3>1, Smaller
    <3>4. \A r \in Requests : InGsm({r})' => r \in Allowed(app')
      BY <1>1, <2>1, <3>3, AppAsksFor
    <3> QED
      BY <1>0, <3>2, <3>4 DEF Belongs, Serves
  <2> QED
    BY <1>1, <2>2, <2>3, AppAsksFor
<1> QED
  BY <1>4, <1>5, <1>6, <1>7, <1>8, <1>9

-----------------------------------------------------------------------------
(* The answers: how each kind of step keeps AnswersInv.                    *)

LEMMA AnswersByQuiet ==
  ASSUME KernelType, Handed, AnswersInv, SchedulerMoves \/ GsmParses \/ OthersStep
  PROVE  AnswersInv'
<1>1. /\ Clock \subseteq Requests /\ {"SMS_SEND"} \subseteq Requests
      /\ {"EXTRACT_TIME"} \subseteq Requests
      /\ {"SMS_SENT"} \cap FromDrivers = {} /\ ClockDone \cap FromDrivers = {}
      /\ {"CLOCK_SET_DONE"} \cap FromDrivers = {}
  BY RequestsAre DEF Clock, ClockDone, FromDrivers
<1>2. /\ UNCHANGED <<gsm, app>>
      /\ InGsm(Clock)' => InGsm(Clock)
      /\ InGsm({"SMS_SEND"})' => InGsm({"SMS_SEND"})
      /\ InGsm({"EXTRACT_TIME"})' => InGsm({"EXTRACT_TIME"})
      /\ GsmAhead(Clock, Clock)' => GsmAhead(Clock, Clock)
      /\ GsmAhead({"CLOCK_SET"}, {"EXTRACT_TIME"})' => GsmAhead({"CLOCK_SET"}, {"EXTRACT_TIME"})
  BY <1>1, NothingAsked
<1>3. /\ InApp({"SMS_SENT"})' => InApp({"SMS_SENT"})
      /\ InApp(ClockDone)' => InApp(ClockDone)
      /\ InApp({"CLOCK_SET_DONE"})' => InApp({"CLOCK_SET_DONE"})
  BY <1>1, NothingAsked
<1>4. /\ InEmon({"READ_ENTITY"})' => InEmon({"READ_ENTITY"})
      /\ EmonAhead({"READ_ENTITY"}, {"READ_ENTITY"})' => EmonAhead({"READ_ENTITY"}, {"READ_ENTITY"})
  BY NothingAsked
<1>5. (Gauging' => Gauging) /\ MeasureOnce'
  <2>1. CASE MeasuringStarts
    <3>1. /\ InEmon({"READ_ENTITY"}) /\ ~InEmon({"READ_ENTITY"})'
      <4>1. current.ao = "emon" /\ current' = Idle /\ current.sig \in {"READ_ENTITY"}
            /\ Posts({}, {}, {})
        BY <2>1 DEF MeasuringStarts
      <4>2. /\ InEmon({"READ_ENTITY"})
            /\ InEmon({"READ_ENTITY"})' => EmonAhead({"READ_ENTITY"}, {"READ_ENTITY"})
        BY <4>1, EmonOrder
      <4> QED
        BY <4>2 DEF AnswersInv, MeasureOnce
    <3>2. ~InApp(MeasureDone) /\ (InApp(MeasureDone)' => InApp(MeasureDone))
      <4>1. Posts({}, {}, {})
        BY <2>1 DEF MeasuringStarts
      <4>2. InApp(MeasureDone)' => InApp(MeasureDone)
        BY <4>1, AppOrder
      <4> QED
        BY <3>1, <4>2 DEF AnswersInv, MeasureOnce
    <3>3. AppAhead(MeasureDone, MeasureDone)' => InApp(MeasureDone)'
      BY DEF AppAhead, InApp, Has, Before
    <3> QED
      BY <1>4, <3>1, <3>2, <3>3 DEF AnswersInv, MeasureOnce, Gauging
  <2>2. CASE MeasuringEnds
    <3>1. measuring /\ ~measuring' /\ ~InEmon({"READ_ENTITY"}) /\ ~InApp(MeasureDone)
      BY <2>2 DEF MeasuringEnds, AnswersInv, MeasureOnce
    <3>2. Posts({}, {"MEASUREMENT_DONE", "EMON_ERROR"}, {})
      BY <2>2 DEF MeasuringEnds
    <3>3. ~AppAhead(MeasureDone, MeasureDone)
      BY <3>1, InOrder
    <3>4. ~AppAhead(MeasureDone, MeasureDone)'
      BY <3>1, <3>2, <3>3, AppOrder
    <3> QED
      BY <1>4, <3>1, <3>4 DEF AnswersInv, MeasureOnce, Gauging
  <2>3. CASE ~MeasuringStarts /\ ~MeasuringEnds
    <3>1. measuring' = measuring
      BY <2>3
      DEF SchedulerMoves, GsmParses, OthersStep, OtherDoes, SerialSends, SerialReceives,
          TimerExpires, NothingEnds
    <3>2. /\ InApp(MeasureDone)' => InApp(MeasureDone)
          /\ AppAhead(MeasureDone, MeasureDone)' => AppAhead(MeasureDone, MeasureDone)
      <4>1. CASE SchedulerMoves
        BY <4>1, TwoQueues DEF SchedulerMoves, InApp, AppAhead, ToApp
      <4>2. CASE GsmParses \/ OthersStep
        <5>1. PICK R : Posts(R, {}, {}) \/ Posts(R, {"TIMEOUT"}, {})
          BY <2>3, <4>2, OtherPosts
          DEF GsmParses, OthersStep, OtherDoes, SerialReceives, NothingEnds
        <5> QED
          BY <5>1, AppOrder DEF MeasureDone
      <4> QED
        BY <4>1, <4>2
    <3> QED
      BY <1>4, <3>1, <3>2 DEF AnswersInv, MeasureOnce, Gauging
  <2> QED
    BY <2>1, <2>2, <2>3
<1>6. (Clocking' => Clocking) /\ (Texting' => Texting)
  BY <1>2, <1>3 DEF Clocking, Texting
<1>7. OneAsked'
  BY <1>2, <1>5, <1>6 DEF AnswersInv, OneAsked
<1>8. (SentWhere /\ ClockOnce /\ TimeSet)'
  BY <1>2, <1>3 DEF AnswersInv, SentWhere, ClockOnce, TimeSet, Extracting
<1> QED
  BY <1>5, <1>7, <1>8 DEF AnswersInv

LEMMA AnswersByGsm ==
  ASSUME KernelType, app \in AppStates, Handed, RequestInv, AnswersInv, GsmHandles
  PROVE  AnswersInv'
<1>1. /\ "BUFFER_FULL" \notin Clock /\ "BUFFER_FULL" \notin {"SMS_SEND"}
      /\ "BUFFER_FULL" \notin {"EXTRACT_TIME"} /\ "BUFFER_FULL" \notin {"CLOCK_SET"}
      /\ "TIMEOUT" \notin {"SMS_SENT"} /\ "TIMEOUT" \notin ClockDone
      /\ "TIMEOUT" \notin {"CLOCK_SET_DONE"} /\ "TIMEOUT" \notin MeasureDone
  BY DEF Clock, ClockDone, MeasureDone
<1>2. /\ UNCHANGED <<app, measuring>>
      /\ InGsm(Clock)' => InGsm(Clock)
      /\ InGsm({"SMS_SEND"})' => InGsm({"SMS_SEND"})
      /\ InGsm({"EXTRACT_TIME"})' => InGsm({"EXTRACT_TIME"})
      /\ GsmAhead(Clock, Clock)' => GsmAhead(Clock, Clock)
      /\ GsmAhead({"CLOCK_SET"}, {"EXTRACT_TIME"})' => GsmAhead({"CLOCK_SET"}, {"EXTRACT_TIME"})
      /\ InEmon({"READ_ENTITY"})' => InEmon({"READ_ENTITY"})
      /\ EmonAhead({"READ_ENTITY"}, {"READ_ENTITY"})' => EmonAhead({"READ_ENTITY"}, {"READ_ENTITY"})
  BY <1>1, GsmTurn
<1>3. /\ current.sig \in Clock => InGsm(Clock) /\ (InGsm(Clock)' => GsmAhead(Clock, Clock))
      /\ current.sig \in {"SMS_SEND"} => InGsm({"SMS_SEND"})
      /\ current.sig \in {"EXTRACT_TIME"} => InGsm({"EXTRACT_TIME"})
      /\ current.sig \in {"CLOCK_SET"} =>
           (InGsm({"EXTRACT_TIME"})' => GsmAhead({"CLOCK_SET"}, {"EXTRACT_TIME"}))
  BY <1>1, GsmTurn
<1>4. /\ InApp({"SMS_SENT"})' => GsmAnswers("SMS_SENT")
      /\ InApp(ClockDone)' => GsmAnswers("CLOCK_READ_DONE")
      /\ InApp({"CLOCK_SET_DONE"})' => GsmAnswers("CLOCK_SET_DONE")
      /\ InApp(MeasureDone)' => GsmAnswers("MEASUREMENT_DONE") \/ GsmAnswers("STATUS_READ_DONE")
      /\ ~AppAhead(MeasureDone, MeasureDone)'
  BY <1>1, GsmReplies DEF RequestInv, ClockDone, MeasureDone
<1>5. /\ GsmAnswers("SMS_SENT") => gsm \in {"sms_send", "sms_send_support"} /\ gsm' = "active_idle"
      /\ GsmAnswers("CLOCK_READ_DONE") => gsm = "time_get" /\ gsm' = "active_idle"
      /\ GsmAnswers("CLOCK_SET_DONE") => gsm = "time_set" /\ gsm' = "active_idle"
      /\ ~GsmAnswers("MEASUREMENT_DONE") /\ ~GsmAnswers("STATUS_READ_DONE")
  BY OutcomesOf DEF GsmAnswers, Reports
<1>6. /\ gsm' = "time_get" => gsm = "time_get" \/ current.sig \in Clock
      /\ gsm' = "time_set" => gsm = "time_set" \/ current.sig \in {"CLOCK_SET"}
      /\ gsm' = "sms_extract_time" => gsm = "sms_extract_time" \/ current.sig \in {"EXTRACT_TIME"}
      /\ gsm' \in {"sms_send", "sms_send_support"} =>
           gsm \in {"sms_send", "sms_send_support"} \/ current.sig \in {"SMS_SEND"}
  BY GsmBecomes, OperationsAre, RequestsAre DEF Operation, Clock
<1>7. (Clocking' => Clocking) /\ (Texting' => Texting) /\ (Gauging' => Gauging)
  BY <1>2, <1>3, <1>4, <1>5, <1>6 DEF Clocking, Texting, Gauging
<1>8. Extracting' => Extracting
  BY <1>2, <1>3, <1>6 DEF Extracting
<1>9. SentWhere'
  <2>1. gsm \in {"sms_send", "sms_send_support"} => app \notin {"init", "app_idle", "reciever", "validate"}
    BY ServedFor, AllowedTo, RequestsAre DEF RequestInv, Operation
  <2> QED
    BY <1>2, <1>4, <1>5, <2>1 DEF SentWhere
<1>10. ClockOnce'
  BY <1>2, <1>3, <1>4, <1>5, <1>6 DEF AnswersInv, ClockOnce
<1>11. OneAsked' /\ MeasureOnce'
  BY <1>2, <1>4, <1>5, <1>7 DEF AnswersInv, OneAsked, MeasureOnce
<1>12. TimeSet'
  <2>1. gsm = "time_set" => app \in {"set_time", "cleanup"}
    BY ServedFor, AllowedTo, RequestsAre DEF RequestInv, Operation
  <2>2. gsm' = "active_idle" => (Extracting' => InGsm({"EXTRACT_TIME"}))
    BY <1>2 DEF Extracting
  <2> QED
    BY <1>2, <1>3, <1>4, <1>5, <1>6, <1>8, <2>1, <2>2 DEF AnswersInv, TimeSet
<1> QED
  BY <1>9, <1>10, <1>11, <1>12 DEF AnswersInv

(* When the application asks for the clock, a message or a measurement,    *)
(* and where it goes.                                                      *)
LEMMA AppTable ==
  ASSUME NEW R, NEW S, NEW T, AppMove(R, S, T)
  PROVE  /\ "CLOCK_READ" \in R =>
              \/ app \in {"action_on", "action_off"}
              \/ app = "reciever" \/ app = "app_idle"
              \/ app = "set_time" /\ current.sig = "CLOCK_SET_DONE"
         /\ "SMS_SEND" \in R /\ app' = "get_status" =>
              app = "get_status" /\ current.sig \in {"STATUS_READ_DONE", "SMS_SENT"}
         /\ "SMS_SENT" \in S => app = "get_status" /\ app' = app /\ current.sig = "STATUS_READ_DONE"
         /\ "READ_ENTITY" \in T =>
              /\ app = "get_status" /\ app' = app /\ R = {} /\ S = {}
              /\ current.sig \in {"CLOCK_READ_DONE", "MEASUREMENT_DONE"}
         /\ "STATUS_READ_DONE" \in S =>
              app = "get_status" /\ app' = app /\ current.sig = "MEASUREMENT_DONE"
         /\ "EXTRACT_TIME" \in R => app = "reciever" /\ current.sig = "SMS_READ_DONE" /\ "CLOCK_READ" \notin R
         /\ app' = "get_status" /\ app # app' =>
              \/ app = "reciever" /\ current.sig = "SMS_READ_DONE"
              \/ app = "app_idle" /\ current.sig = "SEND_BROADCAST"
         /\ app = "get_status" => app' = app \/ current.sig \in {"SMS_SENT", "TRANSITION_OUT"}
         /\ app' \in {"init", "app_idle", "reciever", "validate"} =>
              \/ app' = app \/ app \in {"app_idle", "reciever"}
              \/ current.sig \in {"NETWORK_CONNECTED", "SMS_DELETE_DONE"}
         /\ app \in {"set_time", "cleanup"} =>
              app' \in {"set_time", "cleanup"} \/ current.sig = "SMS_DELETE_DONE"
<1>0. /\ MenuOptions \cap {"get_status", "init", "app_idle", "reciever", "validate"} = {}
      /\ "get_status" \notin MenuStates
  BY AppAssumption DEF MenuStates
<1>1. "CLOCK_READ" \in R =>
        \/ app \in {"action_on", "action_off"}
        \/ app = "reciever" \/ app = "app_idle"
        \/ app = "set_time" /\ current.sig = "CLOCK_SET_DONE"
  BY <1>0
  DEF AppMove, AppRemains, AppIdles, AppConnects, AppRecieves, AppFinds, AppActs, AppPulses,
      AppOpens, AppSets, AppReads, AppMeasures, AppBroadcasts, AppGoesOn, AppLeaves
<1>2. "SMS_SEND" \in R /\ app' = "get_status" =>
        app = "get_status" /\ current.sig \in {"STATUS_READ_DONE", "SMS_SENT"}
  BY <1>0
  DEF AppMove, AppRemains, AppIdles, AppConnects, AppRecieves, AppFinds, AppActs, AppPulses,
      AppOpens, AppSets, AppReads, AppMeasures, AppBroadcasts, AppGoesOn, AppLeaves
<1>3. "SMS_SENT" \in S => app = "get_status" /\ app' = app /\ current.sig = "STATUS_READ_DONE"
  BY <1>0
  DEF AppMove, AppRemains, AppIdles, AppConnects, AppRecieves, AppFinds, AppActs, AppPulses,
      AppOpens, AppSets, AppReads, AppMeasures, AppBroadcasts, AppGoesOn, AppLeaves
<1>4. "READ_ENTITY" \in T =>
        /\ app = "get_status" /\ app' = app /\ R = {} /\ S = {}
        /\ current.sig \in {"CLOCK_READ_DONE", "MEASUREMENT_DONE"}
  BY <1>0
  DEF AppMove, AppRemains, AppIdles, AppConnects, AppRecieves, AppFinds, AppActs, AppPulses,
      AppOpens, AppSets, AppReads, AppMeasures, AppBroadcasts, AppGoesOn, AppLeaves
<1>5. "STATUS_READ_DONE" \in S =>
        app = "get_status" /\ app' = app /\ current.sig = "MEASUREMENT_DONE"
  BY <1>0
  DEF AppMove, AppRemains, AppIdles, AppConnects, AppRecieves, AppFinds, AppActs, AppPulses,
      AppOpens, AppSets, AppReads, AppMeasures, AppBroadcasts, AppGoesOn, AppLeaves
<1>6. "EXTRACT_TIME" \in R => app = "reciever" /\ current.sig = "SMS_READ_DONE" /\ "CLOCK_READ" \notin R
  BY <1>0
  DEF AppMove, AppRemains, AppIdles, AppConnects, AppRecieves, AppFinds, AppActs, AppPulses,
      AppOpens, AppSets, AppReads, AppMeasures, AppBroadcasts, AppGoesOn, AppLeaves
<1>7. app' = "get_status" /\ app # app' =>
        \/ app = "reciever" /\ current.sig = "SMS_READ_DONE"
        \/ app = "app_idle" /\ current.sig = "SEND_BROADCAST"
  BY <1>0
  DEF AppMove, AppRemains, AppIdles, AppConnects, AppRecieves, AppFinds, AppActs, AppPulses,
      AppOpens, AppSets, AppReads, AppMeasures, AppBroadcasts, AppGoesOn, AppLeaves
<1>8. app = "get_status" => app' = app \/ current.sig \in {"SMS_SENT", "TRANSITION_OUT"}
  BY <1>0
  DEF AppMove, AppRemains, AppIdles, AppConnects, AppRecieves, AppFinds, AppActs, AppPulses,
      AppOpens, AppSets, AppReads, AppMeasures, AppBroadcasts, AppGoesOn, AppLeaves
<1>9. app' \in {"init", "app_idle", "reciever", "validate"} =>
        \/ app' = app \/ app \in {"app_idle", "reciever"}
        \/ current.sig \in {"NETWORK_CONNECTED", "SMS_DELETE_DONE"}
  BY <1>0
  DEF AppMove, AppRemains, AppIdles, AppConnects, AppRecieves, AppFinds, AppActs, AppPulses,
      AppOpens, AppSets, AppReads, AppMeasures, AppBroadcasts, AppGoesOn, AppLeaves
<1>10. app \in {"set_time", "cleanup"} =>
        app' \in {"set_time", "cleanup"} \/ current.sig = "SMS_DELETE_DONE"
  BY <1>0
  DEF AppMove, AppRemains, AppIdles, AppConnects, AppRecieves, AppFinds, AppActs, AppPulses,
      AppOpens, AppSets, AppReads, AppMeasures, AppBroadcasts, AppGoesOn, AppLeaves
<1> QED
  BY <1>1, <1>2, <1>3, <1>4, <1>5, <1>6, <1>7, <1>8, <1>9, <1>10

LEMMA AnswersByApp ==
  ASSUME KernelType, app \in AppStates, Handed, RequestInv, AnswersInv, AppHandles
  PROVE  AnswersInv'
<1>0. /\ current.ao = "app" /\ current' = Idle /\ UNCHANGED <<gsm, measuring>>
  BY DEF AppHandles
<1>1. PICK R, S, T : Posts(R, S, T) /\ AppMove(R, S, T)
  BY DEF AppHandles, AppDoes
<1>2. \A X : current.sig \in X => InApp(X)
  BY <1>0, <1>1, AppOrder
<1>3. /\ InGsm(Clock)' => InGsm(Clock) \/ "CLOCK_READ" \in R
      /\ InGsm({"SMS_SEND"})' => InGsm({"SMS_SEND"}) \/ "SMS_SEND" \in R
      /\ InGsm({"EXTRACT_TIME"})' => InGsm({"EXTRACT_TIME"}) \/ "EXTRACT_TIME" \in R
      /\ GsmAhead(Clock, Clock)' => GsmAhead(Clock, Clock) \/ (InGsm(Clock) /\ "CLOCK_READ" \in R)
      /\ GsmAhead({"CLOCK_SET"}, {"EXTRACT_TIME"})' =>
           \/ GsmAhead({"CLOCK_SET"}, {"EXTRACT_TIME"})
           \/ InGsm({"CLOCK_SET"}) /\ "EXTRACT_TIME" \in R
  BY <1>1, GsmOrder DEF Clock
<1>4. /\ InApp(ClockDone)' => InApp(ClockDone)
      /\ InApp({"CLOCK_SET_DONE"})' => InApp({"CLOCK_SET_DONE"})
      /\ current.sig # "TIMEOUT" => ~InApp(ClockDone)' /\ ~InApp({"CLOCK_SET_DONE"})'
      /\ current.sig \in FromGsm \cup {"SMS_SENT"} /\ "SMS_SENT" \notin S => ~InApp({"SMS_SENT"})'
  <2>1. ClockDone \subseteq FromGsm /\ {"CLOCK_SET_DONE"} \subseteq FromGsm
    BY DEF ClockDone, FromGsm
  <2> QED
    BY <1>1, <2>1, AppTakes DEF RequestInv
<1>5. /\ InApp({"SMS_SENT"})' => InApp({"SMS_SENT"}) \/ "SMS_SENT" \in S
      /\ InApp(MeasureDone)' => InApp(MeasureDone) \/ "STATUS_READ_DONE" \in S
      /\ AppAhead(MeasureDone, MeasureDone)' => AppAhead(MeasureDone, MeasureDone) \/ "STATUS_READ_DONE" \in S
      /\ current.sig \in MeasureDone =>
           /\ InApp(MeasureDone)' => "STATUS_READ_DONE" \in S
           /\ ~AppAhead(MeasureDone, MeasureDone)'
  <2>1. "MEASUREMENT_DONE" \notin S
    BY <1>1, AppGives DEF ToItself
  <2> QED
    BY <1>0, <1>1, <2>1, AppOrder DEF MeasureDone, AnswersInv, MeasureOnce
<1>6. /\ InEmon({"READ_ENTITY"})' => InEmon({"READ_ENTITY"}) \/ "READ_ENTITY" \in T
      /\ EmonAhead({"READ_ENTITY"}, {"READ_ENTITY"})' =>
           \/ EmonAhead({"READ_ENTITY"}, {"READ_ENTITY"})
           \/ InEmon({"READ_ENTITY"}) /\ "READ_ENTITY" \in T
  BY <1>1, EmonOrder
<1>7. /\ app \in {"app_idle", "reciever"} =>
           /\ ~InGsm(Clock) /\ gsm # "time_get" /\ ~InGsm({"CLOCK_SET"}) /\ gsm # "time_set"
           /\ ~InGsm({"SMS_SEND"}) /\ gsm \notin {"sms_send", "sms_send_support"}
      /\ Extracting => app \in {"set_time", "cleanup"}
  BY AllowedTo, ServedFor, RequestsAre DEF RequestInv, Belongs, Clock, Extracting, Operation
<1>8. SentWhere'
  <2>1. CASE "SMS_SENT" \in S
    BY <1>1, <2>1, AppTable DEF SentWhere
  <2>2. CASE "SMS_SENT" \notin S
    <3>1. {"NETWORK_CONNECTED", "SMS_DELETE_DONE"} \subseteq FromGsm
      BY DEF FromGsm
    <3>2. app' \in {"init", "app_idle", "reciever", "validate"} =>
            \/ app' = app \/ app \in {"app_idle", "reciever"}
            \/ current.sig \in {"NETWORK_CONNECTED", "SMS_DELETE_DONE"}
      BY <1>1, AppTable
    <3> QED
      BY <1>4, <1>5, <2>2, <3>1, <3>2 DEF AnswersInv, SentWhere
  <2> QED
    BY <2>1, <2>2
<1>9. ClockOnce'
  <2> SUFFICES ASSUME app' = "get_status"
               PROVE  /\ ~GsmAhead(Clock, Clock)' /\ ~(InGsm(Clock)' /\ gsm' = "time_get")
                      /\ InApp(ClockDone)' => ~InGsm(Clock)' /\ gsm' # "time_get"
    BY DEF ClockOnce
  <2>1. CASE app = "get_status"
    <3>1. "CLOCK_READ" \notin R
      BY <1>1, <2>1, AppTable
    <3> QED
      BY <1>0, <1>3, <1>4, <2>1, <3>1 DEF AnswersInv, ClockOnce
  <2>2. CASE app # "get_status"
    <3>1. app \in {"app_idle", "reciever"} /\ current.sig # "TIMEOUT"
      BY <1>1, <2>2, AppTable
    <3>2. ~InGsm(Clock) /\ gsm # "time_get" /\ ~GsmAhead(Clock, Clock)
      BY <1>7, <3>1, InOrder
    <3> QED
      BY <1>0, <1>3, <1>4, <3>1, <3>2
  <2> QED
    BY <2>1, <2>2
<1>10. OneAsked' /\ MeasureOnce'
  <2>1. CASE "READ_ENTITY" \in T
    <3>1. /\ app = "get_status" /\ app' = app /\ R = {} /\ S = {}
          /\ current.sig \in {"CLOCK_READ_DONE", "MEASUREMENT_DONE"}
      BY <1>1, <2>1, AppTable
    <3>2. CASE current.sig = "CLOCK_READ_DONE"
      <4>1. InApp(ClockDone)
        BY <1>2, <3>2 DEF ClockDone
      <4>2. ~Texting /\ ~Gauging /\ ~InGsm(Clock) /\ gsm # "time_get"
        BY <3>1, <4>1 DEF AnswersInv, OneAsked, ClockOnce, Clocking
      <4>3. ~Texting' /\ ~Clocking'
        BY <1>0, <1>3, <1>4, <1>5, <3>1, <3>2, <4>2 DEF Texting, Clocking
      <4>4. ~InApp(MeasureDone)' /\ ~measuring' /\ ~EmonAhead({"READ_ENTITY"}, {"READ_ENTITY"})'
            /\ ~AppAhead(MeasureDone, MeasureDone)'
        BY <1>0, <1>5, <1>6, <3>1, <4>2 DEF Gauging, AnswersInv, MeasureOnce
      <4> QED
        BY <3>1, <4>3, <4>4 DEF OneAsked, MeasureOnce
    <3>3. CASE current.sig = "MEASUREMENT_DONE"
      <4>1. InApp(MeasureDone) /\ current.sig \in MeasureDone
        BY <1>2, <3>3 DEF MeasureDone
      <4>2. ~Texting /\ ~Clocking /\ ~measuring /\ ~InEmon({"READ_ENTITY"})
        BY <4>1 DEF AnswersInv, OneAsked, MeasureOnce, Gauging
      <4>3. ~Texting' /\ ~Clocking'
        BY <1>0, <1>3, <1>4, <1>5, <3>1, <4>2 DEF Texting, Clocking
      <4>4. ~InApp(MeasureDone)' /\ ~measuring' /\ ~EmonAhead({"READ_ENTITY"}, {"READ_ENTITY"})'
            /\ ~AppAhead(MeasureDone, MeasureDone)'
        BY <1>0, <1>5, <1>6, <3>1, <4>1, <4>2 DEF AnswersInv, MeasureOnce
      <4> QED
        BY <3>1, <4>3, <4>4 DEF OneAsked, MeasureOnce
    <3> QED
      BY <3>1, <3>2, <3>3
  <2>2. CASE "STATUS_READ_DONE" \in S
    <3>1. app = "get_status" /\ app' = app /\ current.sig = "MEASUREMENT_DONE"
      BY <1>1, <2>2, AppTable
    <3>2. InApp(MeasureDone) /\ current.sig \in MeasureDone
      BY <1>2, <3>1 DEF MeasureDone
    <3>3. ~Texting /\ ~Clocking /\ ~measuring /\ ~InEmon({"READ_ENTITY"})
      BY <3>2 DEF AnswersInv, OneAsked, MeasureOnce, Gauging
    <3>4. "SMS_SENT" \notin S /\ "SMS_SEND" \notin R /\ "CLOCK_READ" \notin R /\ "READ_ENTITY" \notin T
      BY <1>1, <3>1, AppTable, <2>2
    <3>5. ~Texting' /\ ~Clocking'
      BY <1>0, <1>3, <1>4, <1>5, <3>3, <3>4 DEF Texting, Clocking
    <3>6. /\ ~measuring' /\ ~InEmon({"READ_ENTITY"})' /\ ~EmonAhead({"READ_ENTITY"}, {"READ_ENTITY"})'
          /\ ~AppAhead(MeasureDone, MeasureDone)'
      BY <1>0, <1>5, <1>6, <3>2, <3>3, <3>4 DEF AnswersInv, MeasureOnce
    <3> QED
      BY <3>1, <3>5, <3>6 DEF OneAsked, MeasureOnce
  <2>3. CASE "READ_ENTITY" \notin T /\ "STATUS_READ_DONE" \notin S
    <3>1. MeasureOnce' /\ (Gauging' => Gauging)
      BY <1>0, <1>5, <1>6, <2>3 DEF AnswersInv, MeasureOnce, Gauging
    <3>2. CASE app = "get_status" /\ app' = app
      <4>1. "CLOCK_READ" \notin R
        BY <1>1, <3>2, AppTable
      <4>2. Clocking' => Clocking
        BY <1>0, <1>3, <1>4, <4>1 DEF Clocking
      <4>3. CASE "SMS_SEND" \notin R /\ "SMS_SENT" \notin S
        <5>1. Texting' => Texting
          BY <1>0, <1>3, <1>5, <4>3 DEF Texting
        <5> QED
          BY <3>1, <3>2, <4>2, <5>1 DEF AnswersInv, OneAsked
      <4>4. CASE current.sig = "STATUS_READ_DONE"
        <5>1. InApp(MeasureDone) /\ current.sig \in MeasureDone
          BY <1>2, <4>4 DEF MeasureDone
        <5>2. ~Clocking /\ ~measuring /\ ~InEmon({"READ_ENTITY"})
          BY <5>1 DEF AnswersInv, OneAsked, MeasureOnce, Gauging
        <5>3. ~Gauging'
          BY <1>0, <1>5, <1>6, <2>3, <5>1, <5>2 DEF Gauging
        <5> QED
          BY <3>1, <4>2, <5>2, <5>3 DEF OneAsked
      <4>5. CASE current.sig = "SMS_SENT"
        <5>1. Texting
          BY <1>2, <4>5 DEF Texting
        <5>2. ~Clocking /\ ~Gauging
          BY <3>2, <5>1 DEF AnswersInv, OneAsked
        <5> QED
          BY <3>1, <4>2, <5>2 DEF OneAsked
      <4> QED
        BY <1>1, <3>2, <4>3, <4>4, <4>5, AppTable
    <3>3. CASE app = "get_status" /\ app' # app
      <4>1. current.sig = "SMS_SENT"
        BY <1>1, <1>2, <3>3, AppTable DEF RequestInv, OutOnce
      <4>2. Texting
        BY <1>2, <4>1 DEF Texting
      <4> QED
        BY <3>1, <3>3, <4>2 DEF AnswersInv, OneAsked
    <3>4. CASE app # "get_status" /\ app' = "get_status"
      <4>1. app \in {"app_idle", "reciever"}
        BY <1>1, <3>4, AppTable
      <4>2. ~Texting
        BY <1>7, <4>1 DEF Texting, AnswersInv, SentWhere
      <4>3. "SMS_SEND" \notin R /\ "SMS_SENT" \notin S
        BY <1>1, <3>4, AppTable
      <4>4. ~Texting'
        BY <1>0, <1>3, <1>5, <4>2, <4>3 DEF Texting
      <4> QED
        BY <3>1, <3>4, <4>4 DEF AnswersInv, OneAsked
    <3>5. CASE app # "get_status" /\ app' # "get_status"
      BY <3>1, <3>5 DEF AnswersInv, OneAsked
    <3> QED
      BY <3>1, <3>2, <3>3, <3>4, <3>5
  <2> QED
    BY <2>1, <2>2, <2>3
<1>11. TimeSet'
  <2>1. CASE "EXTRACT_TIME" \in R
    <3>1. app = "reciever" /\ current.sig = "SMS_READ_DONE" /\ "CLOCK_READ" \notin R
      BY <1>1, <2>1, AppTable
    <3>2. ~GsmAhead({"CLOCK_SET"}, {"EXTRACT_TIME"})
      BY <1>7, <3>1, InOrder
    <3> QED
      BY <1>0, <1>3, <1>4, <1>7, <3>1, <3>2 DEF TimeSet
  <2>2. CASE "EXTRACT_TIME" \notin R
    <3>1. Extracting' => Extracting
      BY <1>0, <1>3, <2>2 DEF Extracting
    <3>2. "CLOCK_READ" \in R => ~Extracting
      <4>1. "CLOCK_READ" \in R =>
              \/ app \notin {"set_time", "cleanup"}
              \/ current.sig = "CLOCK_SET_DONE"
        BY <1>1, AppTable
      <4>2. current.sig = "CLOCK_SET_DONE" => ~Extracting
        BY <1>2 DEF AnswersInv, TimeSet
      <4> QED
        BY <1>7, <4>1, <4>2
    <3>3. InApp({"CLOCK_SET_DONE"})' => app' \in {"set_time", "cleanup"}
      <4>1. app \in {"set_time", "cleanup"} =>
              app' \in {"set_time", "cleanup"} \/ current.sig = "SMS_DELETE_DONE"
        BY <1>1, AppTable
      <4> QED
        BY <1>4, <4>1 DEF AnswersInv, TimeSet
    <3> QED
      BY <1>0, <1>3, <1>4, <2>2, <3>1, <3>2, <3>3 DEF AnswersInv, TimeSet
  <2> QED
    BY <2>1, <2>2
<1> QED
  BY <1>8, <1>9, <1>10, <1>11 DEF AnswersInv

-----------------------------------------------------------------------------
(* A response of the clock that comes late finds the object idle.          *)

(* The other requests, and what makes the application ask for one of them: *)
(* it has been told that nothing of the clock is left, neither the reading *)
(* nor, behind a request, its response.                                    *)
Others == Requests \ {"CLOCK_READ"}
Fresh == gsm # "time_get" /\ ~GsmAhead(Clock, {"CLOCK_RESPONSE"})
Promised == {"START_SESSION", "SMS_READ_DONE", "CLOCK_READ_DONE", "SMS_SENT", "TRANSITION_OUT",
             "PARSING_ERROR", "STATUS_READ_DONE"}
LateInv ==
  /\ InApp(Promised) => Fresh
  /\ ~GsmRow(Clock, {"CLOCK_RESPONSE"}, Others)
  /\ gsm = "time_get" => ~GsmAhead({"CLOCK_RESPONSE"}, Others)

LEMMA LateByQuiet ==
  ASSUME KernelType, Handed, AppTurn, LateInv, SchedulerMoves \/ GsmParses \/ OthersStep
  PROVE  LateInv'
<1>1. /\ UNCHANGED gsm
      /\ InApp(Promised)' => InApp(Promised)
      /\ GsmRow(Clock, {"CLOCK_RESPONSE"}, Others)' => GsmRow(Clock, {"CLOCK_RESPONSE"}, Others)
      /\ GsmAhead({"CLOCK_RESPONSE"}, Others)' => GsmAhead({"CLOCK_RESPONSE"}, Others)
  <2>1. Others \subseteq Requests /\ Promised \cap FromDrivers = {}
    BY DEF Others, Promised, FromDrivers
  <2> QED
    BY <2>1, NothingAsked
<1>2. InApp(Promised)' => ~GsmAhead(Clock, {"CLOCK_RESPONSE"})'
  <2>1. CASE GsmParses
    <3>1. "TIMEOUT" \notin Promised
      BY DEF Promised
    <3> QED
      BY <1>1, <2>1, <3>1, NotIdle DEF GsmParses, AppTurn
  <2>2. CASE SchedulerMoves
    BY <1>1, <2>2, TwoQueues DEF SchedulerMoves, GsmAhead, ToGsm, LateInv, Fresh
  <2>3. CASE OthersStep
    <3>1. PICK R, S : Posts(R, S, {}) /\ "CLOCK_RESPONSE" \notin R
      BY <2>3, OtherPosts
      DEF OthersStep, OtherDoes, SerialReceives, MeasuringStarts, MeasuringEnds, NothingEnds
    <3> QED
      BY <1>1, <3>1, GsmOrder DEF LateInv, Fresh
  <2> QED
    BY <2>1, <2>2, <2>3
<1> QED
  BY <1>1, <1>2 DEF LateInv, Fresh

LEMMA LateByGsm ==
  ASSUME KernelType, Handed, ParserInv, RequestInv, AnswersInv, LateInv, GsmHandles
  PROVE  LateInv'
<1>1. /\ "BUFFER_FULL" \notin Others /\ "BUFFER_FULL" \notin {"CLOCK_RESPONSE"}
      /\ "BUFFER_FULL" \notin Clock /\ Clock \subseteq Requests /\ "TIMEOUT" \notin Promised
      /\ "ACK" \in {"ACK"}
  BY RequestsAre DEF Others, Clock, Promised
<1>2. /\ GsmRow(Clock, {"CLOCK_RESPONSE"}, Others)' => GsmRow(Clock, {"CLOCK_RESPONSE"}, Others)
      /\ GsmAhead({"CLOCK_RESPONSE"}, Others)' => GsmAhead({"CLOCK_RESPONSE"}, Others)
      /\ GsmAhead(Clock, {"CLOCK_RESPONSE"})' => GsmAhead(Clock, {"CLOCK_RESPONSE"})
      /\ current.sig \in Clock /\ GsmAhead({"CLOCK_RESPONSE"}, Others)' =>
           GsmRow(Clock, {"CLOCK_RESPONSE"}, Others)
      /\ current.sig \in {"ACK"} /\ GsmAhead(Clock, {"CLOCK_RESPONSE"})' =>
           GsmRow({"ACK"}, Clock, {"CLOCK_RESPONSE"})
  BY <1>1, GsmTurn
<1>3. gsm' = "time_get" => gsm = "time_get" \/ current.sig \in Clock
  BY GsmBecomes, OperationsAre, RequestsAre DEF Operation, Clock
<1>4. InApp(Promised)' => Fresh'
  <2> SUFFICES ASSUME NEW sig \in Promised, GsmAnswers(sig) PROVE Fresh'
    BY <1>1, GsmReplies DEF RequestInv
  <2>1. CASE gsm = "sms_extract_time" /\ gsm' = gsm
    <3>1. ~InGsm(Clock)
      BY <2>1 DEF AnswersInv, TimeSet, Extracting
    <3> QED
      BY <1>2, <2>1, <3>1, InOrder DEF Fresh
  <2>2. CASE gsm' = "active_idle" /\ current.sig = "ACK"
    <3>1. Of(Clock) \subseteq Of(Requests)
      BY <1>1, SomeOf
    <3>2. ~GsmRow({"ACK"}, Clock, {"CLOCK_RESPONSE"})
      BY <3>1 DEF ParserInv, GsmRow, Three
    <3> QED
      BY <1>2, <2>2, <3>2 DEF Fresh
  <2> QED
    BY <2>1, <2>2 DEF GsmAnswers, Promised, Reports
<1> QED
  BY <1>2, <1>3, <1>4 DEF LateInv

LEMMA LateByApp ==
  ASSUME KernelType, app \in AppStates, Handed, RequestInv, AnswersInv, LateInv, AppHandles
  PROVE  LateInv'
<1>0. current.ao = "app" /\ current' = Idle /\ gsm' = gsm
  BY DEF AppHandles
<1>1. PICK R, S, T : Posts(R, S, T) /\ AppMove(R, S, T)
  BY DEF AppHandles, AppDoes
<1>2. \A X : current.sig \in X => InApp(X)
  BY <1>0, <1>1, AppOrder
<1>3. /\ GsmAhead(Clock, {"CLOCK_RESPONSE"})' => GsmAhead(Clock, {"CLOCK_RESPONSE"})
      /\ GsmAhead({"CLOCK_RESPONSE"}, Others)' =>
           GsmAhead({"CLOCK_RESPONSE"}, Others) \/ R \cap Others # {}
      /\ GsmRow(Clock, {"CLOCK_RESPONSE"}, Others)' =>
           \/ GsmRow(Clock, {"CLOCK_RESPONSE"}, Others)
           \/ GsmAhead(Clock, {"CLOCK_RESPONSE"}) /\ R \cap Others # {}
      /\ InApp(Promised)' => InApp(Promised) \/ S \cap Promised # {}
  <2>1. "CLOCK_RESPONSE" \notin R
    BY <1>1, AppGives, RequestsAre
  <2> QED
    BY <1>1, <2>1, GsmOrder, AppOrder
<1>4. /\ S \cap Promised # {} => current.sig \in Promised \/ current.sig = "MEASUREMENT_DONE"
      /\ R \cap Others # {} =>
           current.sig \in Promised \/ current.sig = "INIT_DONE" \/ app \in {"app_idle", "reciever"}
  BY <1>1, RequestsAre
  DEF AppMove, AppRemains, AppIdles, AppConnects, AppRecieves, AppFinds, AppActs, AppPulses,
      AppOpens, AppSets, AppReads, AppMeasures, AppBroadcasts, AppGoesOn, AppLeaves, Others, Promised
<1>5. /\ current.sig \in Promised => Fresh
      /\ current.sig = "MEASUREMENT_DONE" => Fresh
      /\ current.sig = "INIT_DONE" => Fresh
      /\ app \in {"app_idle", "reciever"} => Fresh
  <2>1. current.sig = "MEASUREMENT_DONE" => ~InGsm(Clock) /\ gsm # "time_get"
    BY <1>2 DEF AnswersInv, OneAsked, Gauging, MeasureDone, Clocking
  <2>2. current.sig = "INIT_DONE" => ~InGsm(Clock) /\ gsm # "time_get"
    <3>1. Clock \subseteq Requests
      BY RequestsAre DEF Clock
    <3> QED
      BY <1>2, <3>1, Smaller DEF RequestInv, Alone
  <2>3. app \in {"app_idle", "reciever"} => ~InGsm(Clock) /\ gsm # "time_get"
    BY AllowedTo, ServedFor, RequestsAre DEF RequestInv, Belongs, Clock, Operation
  <2>4. ~InGsm(Clock) => ~GsmAhead(Clock, {"CLOCK_RESPONSE"})
    BY InOrder
  <2> QED
    BY <1>2, <2>1, <2>2, <2>3, <2>4 DEF LateInv, Fresh
<1> QED
  BY <1>0, <1>3, <1>4, <1>5 DEF LateInv, Fresh

-----------------------------------------------------------------------------
(* Whose TIMEOUT it is.                                                    *)

(* The states a TIMEOUT may end: the one that armed the timer, or one that *)
(* goes on with what it was doing.                                         *)
OwnPar(p, s) ==
  \/ p = s
  \/ p = "device_config" /\ s = "powering_on"
  \/ p = "sms_send" /\ s = "sms_send_support"
NotOwn(s) == {e \in Timeouts : ~OwnPar(e.par, s)}
NotClock == {e \in Timeouts : e.par # "time_get"}

(* Outside active_idle, a TIMEOUT that waits is the state's own. In        *)
(* active_idle it is left from an operation that has ended, and ahead of   *)
(* the next request; only that of a clock reading may find another one.    *)
OwnInv ==
  /\ gsm # "active_idle" => ~Has(ToGsm, NotOwn(gsm))
  /\ gsm = "active_idle" =>
       /\ ~Before(ToGsm, Of(Others), Timeouts)
       /\ Before(ToGsm, Of(Clock), Timeouts) => ~Has(ToGsm, NotClock)

LEMMA TimeoutsStay ==
  ASSUME KernelType, Handed, NEW R, Gains("gsm", Of(R)), "TIMEOUT" \notin R
  PROVE  /\ \A E \in SUBSET Timeouts : Has(ToGsm', E) => Has(ToGsm, E)
         /\ \A E \in SUBSET Timeouts : \A F : Before(ToGsm', F, E) => Before(ToGsm, F, E)
         /\ current.ao = "gsm" /\ current' = Idle =>
              \A E \in SUBSET Timeouts : \A X :
                current.sig \in X /\ Has(ToGsm', E) => Before(ToGsm, Of(X), E)
<1>1. /\ Of(R) \in SUBSET Events /\ "gsm" \in Objects
      /\ \A E \in SUBSET Timeouts : Of(R) \cap E = {}
  BY TwoQueues DEF Of, Timeouts
<1>2. /\ \A E \in SUBSET Timeouts : Has(Inbox("gsm")', E) => Has(Left("gsm"), E)
      /\ \A E \in SUBSET Timeouts : \A F : Before(Inbox("gsm")', F, E) => Before(Left("gsm"), F, E)
      /\ \A E : Has(Left("gsm"), E) => Has(Inbox("gsm"), E)
      /\ \A E, F : Before(Left("gsm"), E, F) => Before(Inbox("gsm"), E, F)
  BY <1>1, Gained
<1>3. ASSUME current.ao = "gsm", current' = Idle,
             NEW E \in SUBSET Timeouts, NEW X, current.sig \in X, Has(Left("gsm"), E)
      PROVE  Before(Inbox("gsm"), Of(X), E)
  BY <1>1, <1>3, InHandFirst DEF Left
<1> QED
  BY <1>2, <1>3 DEF ToGsm

(* A TIMEOUT in hand is the only one; an ACK in hand has none behind it    *)
(* but those of the states that wait without a command.                    *)
LEMMA TimeoutsLeft ==
  ASSUME KernelType, Handed, TimerInv, OwnInv, current.ao = "gsm", current' = Idle,
         NEW R, Gains("gsm", Of(R)), "TIMEOUT" \notin R
  PROVE  /\ current.sig = "TIMEOUT" => ~Has(ToGsm', Timeouts)
         /\ current.sig = "ACK" /\ gsm \notin Unsent \cup {"active_idle"} => ~Has(ToGsm', Timeouts)
<1>1. \A E \in SUBSET Timeouts : \A X :
        current.sig \in X /\ Has(ToGsm', E) => Before(ToGsm, Of(X), E)
  BY TimeoutsStay
<1>2. current.sig = "TIMEOUT" => ~Has(ToGsm', Timeouts)
  BY <1>1 DEF TimerInv, TimeoutOnce, Timeouts
<1>3. ASSUME current.sig = "ACK", gsm \notin Unsent \cup {"active_idle"} PROVE ~Has(ToGsm', Timeouts)
  <2>1. ~Has(ToGsm', LateTimeouts)
    BY <1>1, <1>3 DEF TimerInv, NoAckFirst, Acks, LateTimeouts
  <2>2. ~Has(ToGsm', NotOwn(gsm))
    BY <1>3, TimeoutsStay DEF OwnInv, NotOwn
  <2>3. Timeouts \subseteq LateTimeouts \cup NotOwn(gsm)
    BY <1>3 DEF LateTimeouts, NotOwn, OwnPar, Unsent
  <2> QED
    BY <2>1, <2>2, <2>3 DEF Has
<1> QED
  BY <1>2, <1>3

LEMMA OwnByGsm ==
  ASSUME KernelType, Handed, TimerInv, RequestInv, LateInv, OwnInv, GsmHandles
  PROVE  OwnInv'
<1>0. PICK R, S : Posts(R, S, {}) /\ R \subseteq {"BUFFER_FULL"}
  BY GsmGives
<1>1. current.ao = "gsm" /\ current' = Idle /\ Gains("gsm", Of(R)) /\ "TIMEOUT" \notin R
  BY <1>0 DEF GsmHandles, Posts
<1>2. /\ \A E \in SUBSET Timeouts : Has(ToGsm', E) => Has(ToGsm, E)
      /\ \A E \in SUBSET Timeouts : \A F : Before(ToGsm', F, E) => Before(ToGsm, F, E)
      /\ \A E \in SUBSET Timeouts : \A X :
           current.sig \in X /\ Has(ToGsm', E) => Before(ToGsm, Of(X), E)
      /\ NotClock \in SUBSET Timeouts /\ \A s : NotOwn(s) \in SUBSET Timeouts
  BY <1>1, TimeoutsStay DEF NotClock, NotOwn
<1>3. ~Has(ToGsm', Timeouts) => OwnInv'
  BY <1>2 DEF OwnInv, NotOwn, NotClock, Has, Before
<1>4. /\ current.sig = "TIMEOUT" => OwnInv'
      /\ current.sig = "ACK" /\ gsm \notin Unsent \cup {"active_idle"} => OwnInv'
  BY <1>1, <1>3, TimeoutsLeft
<1>5. gsm' = gsm => OwnInv'
  BY <1>2 DEF OwnInv
<1>6. CASE GsmOpens
  BY <1>2, <1>3, <1>6 DEF GsmOpens, TimerInv, TimerUnused
<1>7. CASE GsmAccepts
  <2>1. gsm' # "active_idle" /\ (current.sig \in Clock => gsm' = "time_get")
    BY <1>7, OperationsAre, RequestsAre DEF GsmAccepts, Operation, Clock
  <2>2. gsm = "active_idle" /\ (current.sig \in Clock \/ current.sig \in Others)
    BY <1>7, RequestsAre DEF GsmAccepts, Clock, Others
  <2>3. CASE current.sig \in Others
    BY <1>2, <1>3, <2>2, <2>3 DEF OwnInv
  <2>4. CASE current.sig \in Clock
    <3>1. Has(ToGsm', NotOwn("time_get")) => Has(ToGsm', NotClock) /\ Has(ToGsm', Timeouts)
      BY DEF Has, NotOwn, NotClock, OwnPar
    <3>2. Has(ToGsm', NotOwn("time_get")) => FALSE
      BY <1>2, <2>2, <2>4, <3>1 DEF OwnInv
    <3> QED
      BY <2>1, <2>4, <3>2 DEF OwnInv
  <2> QED
    BY <2>2, <2>3, <2>4
<1>8. CASE GsmFails \/ GsmOverflows
  <2>1. current.sig = "TIMEOUT" \/ (gsm = "device_config" /\ gsm' = "powering_on")
        \/ (gsm = "sms_send" /\ gsm' = "sms_send_support") \/ gsm' = gsm
    BY <1>8 DEF GsmFails, GsmOverflows
  <2>2. ASSUME (gsm = "device_config" /\ gsm' = "powering_on")
                 \/ (gsm = "sms_send" /\ gsm' = "sms_send_support")
        PROVE  OwnInv'
    <3>1. Has(ToGsm', NotOwn(gsm')) => Has(ToGsm', NotOwn(gsm))
      BY <2>2 DEF Has, NotOwn, OwnPar
    <3> QED
      BY <1>2, <2>2, <3>1 DEF OwnInv
  <2> QED
    BY <1>4, <1>5, <2>1, <2>2
<1>9. CASE GsmEnds
  <2>1. CASE current.sig = "CLOCK_RESPONSE" /\ gsm = "time_get"
    <3>1. ~InGsm(Others)'
      <4>1. Others \subseteq Requests /\ "BUFFER_FULL" \notin Others
        BY RequestsAre DEF Others
      <4>2. current.sig \in {"CLOCK_RESPONSE"} /\ InGsm(Others)' => GsmAhead({"CLOCK_RESPONSE"}, Others)
        BY <4>1, GsmTurn
      <4> QED
        BY <2>1, <4>2 DEF LateInv
    <3>2. ~Has(ToGsm', NotClock)
      <4>1. NotClock \subseteq NotOwn("time_get")
        BY DEF NotClock, NotOwn, OwnPar
      <4>2. ~Has(ToGsm, NotOwn("time_get"))
        BY <2>1 DEF OwnInv
      <4> QED
        BY <1>2, <4>1, <4>2, SomeOf
    <3>3. ~Before(ToGsm', Of(Others), Timeouts)
      BY <3>1, SomeOf DEF InGsm
    <3>4. gsm' = "active_idle"
      BY <1>9 DEF GsmEnds
    <3> QED
      BY <3>2, <3>3, <3>4 DEF OwnInv
  <2>2. CASE current.sig = "ACK" /\ gsm = "network_status"
    <3>1. Others \subseteq Requests /\ Clock \subseteq Requests
      BY RequestsAre DEF Others, Clock
    <3>2. ~InGsm(Others) /\ ~InGsm(Clock)
      BY <2>2, <3>1, Smaller DEF RequestInv, LastRequest
    <3>3. ~Before(ToGsm', Of(Others), Timeouts) /\ ~Before(ToGsm', Of(Clock), Timeouts)
      BY <1>2, <3>2, SomeOf DEF InGsm
    <3>4. gsm' = "active_idle"
      BY <1>9 DEF GsmEnds
    <3> QED
      BY <3>3, <3>4 DEF OwnInv
  <2>3. gsm \in OperationStates => gsm \notin {"powering_on", "active_idle"}
    BY OperationsAre
  <2> QED
    BY <1>4, <1>9, <2>1, <2>2, <2>3 DEF GsmEnds, Unsent
<1>10. CASE GsmArms \/ GsmConfigured
  <2>1. gsm' = gsm \/ current.sig = "TIMEOUT"
        \/ (current.sig = "ACK" /\ gsm \in {"check_comlink", "device_config"})
    BY <1>10 DEF GsmArms, GsmConfigured
  <2> QED
    BY <1>4, <1>5, <2>1 DEF Unsent
<1>11. CASE GsmStays \/ GsmSends
  BY <1>5, <1>11 DEF GsmStays, GsmSends
<1> QED
  BY <1>6, <1>7, <1>8, <1>9, <1>10, <1>11 DEF GsmHandles, GsmDoes

LEMMA OwnByOthers ==
  ASSUME KernelType, Handed, IdleIsClean, TimerInv, OwnInv,
         SchedulerMoves \/ GsmParses \/ AppHandles \/ OthersStep
  PROVE  OwnInv'
<1>1. CASE SchedulerMoves
  BY <1>1, TwoQueues DEF SchedulerMoves, OwnInv, ToGsm
<1>2. CASE TimerExpires
  <2>1. /\ "gsm" \in Objects /\ current' = current
        /\ queue' = Post(queue, "gsm", EventPar("TIMEOUT", timer["gsm"]))
        /\ timer["gsm"] \in Pars /\ timer["gsm"] # "off" /\ "TIMEOUT" \in Signals
    BY <1>2, TwoQueues, Keyless DEF TimerExpires, KernelType, Timers, Pars
  <2>2. Gains("gsm", {EventPar("TIMEOUT", timer["gsm"])})
    BY <2>1, PostGains
  <2>3. {EventPar("TIMEOUT", timer["gsm"])} \in SUBSET Events
    BY <2>1, EventType
  <2>4. gsm # "active_idle" /\ OwnPar(timer["gsm"], gsm)
    BY <2>1 DEF IdleIsClean, TimerInv, TimerOwned, OwnPar
  <2>5. {EventPar("TIMEOUT", timer["gsm"])} \cap NotOwn(gsm) = {}
    BY <2>4 DEF NotOwn, EventPar
  <2>6. Has(ToGsm', NotOwn(gsm)) => Has(ToGsm, NotOwn(gsm))
    BY <2>1, <2>2, <2>3, <2>5, Gained DEF ToGsm
  <2>7. gsm' = gsm
    BY <1>2 DEF SchedulerMoves, GsmParses, AppHandles, OthersStep
  <2> QED
    BY <2>4, <2>6, <2>7 DEF OwnInv
<1>3. CASE (GsmParses \/ AppHandles \/ OthersStep) /\ ~TimerExpires
  <2>1. PICK R, S, T : Posts(R, S, T) /\ "TIMEOUT" \notin R
    <3>1. CASE AppHandles
      <4>1. PICK R, S, T : Posts(R, S, T) /\ AppMove(R, S, T)
        BY <3>1 DEF AppHandles, AppDoes
      <4> QED
        BY <4>1, AppGives, RequestsAre
    <3>2. CASE GsmParses
      BY <3>2 DEF GsmParses, OtherResults
    <3>3. CASE OthersStep
      BY <1>3, <3>3, OtherPosts
      DEF OthersStep, OtherDoes, SerialReceives, MeasuringStarts, MeasuringEnds, NothingEnds
    <3> QED
      BY <1>3, <3>1, <3>2, <3>3
  <2>2. gsm' = gsm
    BY <1>3 DEF GsmParses, AppHandles, OthersStep
  <2>3. Gains("gsm", Of(R))
    BY <2>1 DEF Posts
  <2>4. /\ \A E \in SUBSET Timeouts : Has(ToGsm', E) => Has(ToGsm, E)
        /\ \A E \in SUBSET Timeouts : \A F : Before(ToGsm', F, E) => Before(ToGsm, F, E)
        /\ NotClock \in SUBSET Timeouts /\ NotOwn(gsm) \in SUBSET Timeouts
    BY <2>1, <2>3, TimeoutsStay DEF NotClock, NotOwn
  <2> QED
    BY <2>2, <2>4 DEF OwnInv
<1> QED
  BY <1>1, <1>2, <1>3

-----------------------------------------------------------------------------
(* The whole is inductive, with the types and the clean idle state.        *)
OrderInv ==
  /\ Handed /\ TimerInv /\ ParserInv /\ RequestInv
  /\ AnswersInv /\ LateInv /\ OwnInv

LEMMA InitOrder == Init => OrderInv
<1> SUFFICES ASSUME Init PROVE OrderInv
  OBVIOUS
<1>1. /\ current = Idle /\ gsm = "systemsetup" /\ app = "init" /\ timer["gsm"] = "off"
      /\ ~measuring /\ Idle.ao \notin Objects /\ Idle.ao # "gsm"
  BY ConfigurationOfMain DEF Init, GsmInit, AppInit, Idle, ObjectsOfMain
<1>2. ToGsm = <<Event("START_AO")>> /\ ToApp = <<>> /\ Inbox("emon") = <<>>
  BY <1>1, ConfigurationOfMain DEF Init, ToGsm, ToApp, Inbox, ObjectsOfMain, Idle
<1>3. /\ \A X : ~InApp(X) /\ ~InEmon(X)
      /\ \A E : Event("START_AO") \notin E => ~Has(ToGsm, E)
      /\ \A E, F : ~Before(ToGsm, E, F)
      /\ \A E, F, H : ~Three(ToGsm, E, F, H)
  BY <1>2 DEF InApp, InEmon, Has, Before, Three
<1>4. /\ \A X : "START_AO" \notin X => ~InGsm(X)
      /\ \A X, Y : ~GsmAhead(X, Y) /\ ~AppAhead(X, Y) /\ ~EmonAhead(X, Y)
      /\ \A X, Y, Z : ~GsmRow(X, Y, Z)
  BY <1>2, <1>3 DEF InGsm, GsmAhead, AppAhead, EmonAhead, GsmRow, Of, Event, EventPar, Before
<1>5. /\ ~InGsm(Requests) /\ ~InGsm(Data) /\ ~InGsm(Clock) /\ ~InGsm({"SMS_SEND"})
      /\ ~InGsm({"EXTRACT_TIME"}) /\ \A r \in Requests : ~InGsm({r})
  BY <1>4, RequestsAre DEF Data, Clock
<1>6. ~Has(ToGsm, Timeouts) /\ ~Has(ToGsm, NotOwn(gsm))
  BY <1>3 DEF Timeouts, NotOwn, Of, Event, EventPar
<1>7. Handed /\ ParserInv /\ ~Parses
  BY <1>1, <1>4, <1>5 DEF Handed, ParserInv, Parses, InHand
<1>8. TimerInv
  BY <1>1, <1>3, <1>6
  DEF TimerInv, TimerOwned, TimerUnused, TimeoutOnce, RetriesOnce, SentBehind, NoAckFirst
<1>9. RequestInv
  <2>1. gsm \notin OperationStates
    BY <1>1, OperationsAre
  <2> QED
    BY <1>1, <1>3, <1>4, <1>5, <2>1
    DEF RequestInv, AppTurn, AnswerFirst, StartUp, Alone, LastRequest, OutOnce, Belongs
<1>10. AnswersInv /\ LateInv
  BY <1>1, <1>3, <1>4, <1>5
  DEF AnswersInv, SentWhere, ClockOnce, OneAsked, MeasureOnce, TimeSet, Clocking, Texting,
      Gauging, Extracting, LateInv, Fresh
<1>11. OwnInv
  BY <1>1, <1>6 DEF OwnInv
<1> QED
  BY <1>7, <1>8, <1>9, <1>10, <1>11 DEF OrderInv

LEMMA NextOrder == TypeOK /\ IdleIsClean /\ OrderInv /\ [Next]_vars => OrderInv'
<1> SUFFICES ASSUME TypeOK, IdleIsClean, OrderInv, [Next]_vars PROVE OrderInv'
  OBVIOUS
<1>1. /\ KernelType /\ app \in AppStates /\ Handed
      /\ TimerInv /\ ParserInv /\ RequestInv /\ AppTurn /\ AnswersInv /\ LateInv /\ OwnInv
  BY DEF TypeOK, AppType, OrderInv, RequestInv
<1>2. TimerInv' /\ Handed' /\ ParserInv' /\ AppTurn'
  BY <1>1, TimerNext, ParserNext, AppTurnNext
<1>3. CASE SchedulerMoves \/ GsmParses \/ OthersStep
  <2>1. (AnswerFirst /\ StartUp /\ Alone /\ LastRequest /\ OutOnce /\ Belongs)'
    BY <1>1, <1>3, RequestsByQuiet
  <2>2. AnswersInv' /\ LateInv' /\ OwnInv'
    BY <1>1, <1>3, AnswersByQuiet, LateByQuiet, OwnByOthers
  <2> QED
    BY <1>2, <2>1, <2>2 DEF OrderInv, RequestInv
<1>4. CASE GsmHandles
  <2>1. (AnswerFirst /\ StartUp /\ Alone /\ LastRequest /\ OutOnce /\ Belongs)'
    BY <1>1, <1>4, RequestsByGsm
  <2>2. AnswersInv' /\ LateInv' /\ OwnInv'
    BY <1>1, <1>4, AnswersByGsm, LateByGsm, OwnByGsm
  <2> QED
    BY <1>2, <2>1, <2>2 DEF OrderInv, RequestInv
<1>5. CASE AppHandles
  <2>1. (AnswerFirst /\ StartUp /\ Alone /\ LastRequest /\ OutOnce /\ Belongs)'
    BY <1>1, <1>5, RequestsByApp
  <2>2. AnswersInv' /\ LateInv' /\ OwnInv'
    BY <1>1, <1>5, AnswersByApp, LateByApp, OwnByOthers
  <2> QED
    BY <1>2, <2>1, <2>2 DEF OrderInv, RequestInv
<1> QED
  BY <1>1, <1>3, <1>4, <1>5, StepKinds

LEMMA OrderHolds == Spec => []OrderInv
BY InitOrder, NextOrder, TypeCorrect, IdleStaysClean, PTL DEF Spec

(* The TIMEOUT of an operation never ends another: QActive_disarm does not *)
(* take back one that is in the queue already, and the GSM object is back  *)
(* in active_idle, or in its next operation, before it comes to it         *)
(* (gsm.c, generic_exit_operations; gsm_active and its sub-states).        *)
THEOREM TimeoutsAreOwn == Spec => []OwnTimeouts
<1>1. TypeOK /\ OrderInv => OwnTimeouts
  <2> SUFFICES ASSUME TypeOK, OrderInv, Handling("gsm", "TIMEOUT"), "TIMEOUT" \in GsmReacts(gsm)
               PROVE  OwnPar(current.par, gsm)
    BY DEF OwnTimeouts, OwnPar
  <2>1. gsm # "active_idle"
    BY RequestsAre DEF GsmReacts
  <2>2. KernelType /\ Handed /\ "gsm" \in Objects /\ current.ao = "gsm" /\ current.sig = "TIMEOUT"
    BY TwoQueues DEF TypeOK, OrderInv, Handling
  <2>3. Handled \in Timeouts /\ Handled.par = current.par /\ ~Has(ToGsm, NotOwn(gsm))
    BY <2>1, <2>2, InHandFirst, Inboxes DEF Timeouts, Handled, EventPar, OrderInv, OwnInv
  <2>4. Handled \notin NotOwn(gsm)
    BY <2>2, <2>3, InHandFirst DEF ToGsm
  <2> QED
    BY <2>3, <2>4 DEF NotOwn
<1> QED
  BY <1>1, OrderHolds, TypeCorrect, PTL

-----------------------------------------------------------------------------
(* What is on its way. *)

(* Sequences of commands, lines or events: joined, cut off, taken from.    *)
LEMMA Joined ==
  ASSUME NEW S, NEW s \in Seq(S), NEW t \in Seq(S)
  PROVE  /\ \A E : Has(s \o t, E) <=> Has(s, E) \/ Has(t, E)
         /\ \A E, F : Before(s \o t, E, F) <=>
              Before(s, E, F) \/ Before(t, E, F) \/ (Has(s, E) /\ Has(t, F))
<1> DEFINE u == s \o t
           m == Len(s)
           n == Len(t)
<1>1. /\ m \in Nat /\ n \in Nat /\ DOMAIN s = 1 .. m /\ DOMAIN t = 1 .. n /\ DOMAIN u = 1 .. m + n
      /\ \A i \in 1 .. m + n : u[i] = IF i <= m THEN s[i] ELSE t[i - m]
  BY ConcatProperties, LenProperties
<1> HIDE DEF u, m, n
<1>2. /\ \A i \in 1 .. m : i \in 1 .. m + n /\ u[i] = s[i]
      /\ \A j \in 1 .. n : m + j \in 1 .. m + n /\ u[m + j] = t[j]
      /\ \A i \in 1 .. m, j \in 1 .. n : i < m + j
      /\ \A i, j \in 1 .. n : i < j => m + i < m + j
      /\ \A i \in 1 .. m + n : i \in 1 .. m \/ \E j \in 1 .. n : i = m + j
  <2>1. \A j \in 1 .. n : m + j \in 1 .. m + n /\ ~(m + j <= m) /\ (m + j) - m = j
    BY <1>1
  <2>2. \A i \in 1 .. m + n : i \in 1 .. m \/ (i - m \in 1 .. n /\ i = m + (i - m))
    BY <1>1
  <2> QED
    BY <1>1, <2>1, <2>2
<1>3. ASSUME NEW E PROVE Has(u, E) <=> Has(s, E) \/ Has(t, E)
  <2>1. ASSUME Has(u, E) PROVE Has(s, E) \/ Has(t, E)
    <3>1. PICK i \in 1 .. m + n : u[i] \in E
      BY <1>1, <2>1 DEF Has
    <3>2. CASE i \in 1 .. m
      BY <1>1, <1>2, <3>1, <3>2 DEF Has
    <3>3. ASSUME NEW j \in 1 .. n, i = m + j PROVE Has(t, E)
      BY <1>1, <1>2, <3>1, <3>3 DEF Has
    <3> QED
      BY <1>2, <3>2, <3>3
  <2>2. ASSUME Has(s, E) PROVE Has(u, E)
    BY <1>1, <1>2, <2>2 DEF Has
  <2>3. ASSUME Has(t, E) PROVE Has(u, E)
    BY <1>1, <1>2, <2>3 DEF Has
  <2> QED
    BY <2>1, <2>2, <2>3
<1>4. ASSUME NEW E, NEW F
      PROVE  Before(u, E, F) <=> Before(s, E, F) \/ Before(t, E, F) \/ (Has(s, E) /\ Has(t, F))
  <2>1. ASSUME Before(u, E, F) PROVE Before(s, E, F) \/ Before(t, E, F) \/ (Has(s, E) /\ Has(t, F))
    <3>1. PICK i, j \in 1 .. m + n : i < j /\ u[i] \in E /\ u[j] \in F
      BY <1>1, <2>1 DEF Before
    <3>2. CASE j \in 1 .. m
      <4>1. i \in 1 .. m
        BY <1>1, <3>1, <3>2
      <4> QED
        BY <1>1, <1>2, <3>1, <3>2, <4>1 DEF Before
    <3>3. CASE i \in 1 .. m /\ j \notin 1 .. m
      BY <1>1, <1>2, <3>1, <3>3 DEF Has
    <3>4. CASE i \notin 1 .. m /\ j \notin 1 .. m
      <4>1. PICK k, l \in 1 .. n : i = m + k /\ j = m + l
        BY <1>2, <3>1, <3>4
      <4>2. k < l
        BY <1>1, <3>1, <4>1
      <4> QED
        BY <1>1, <1>2, <3>1, <4>1, <4>2 DEF Before
    <3> QED
      BY <3>2, <3>3, <3>4
  <2>2. ASSUME Before(s, E, F) PROVE Before(u, E, F)
    BY <1>1, <1>2, <2>2 DEF Before
  <2>3. ASSUME Before(t, E, F) PROVE Before(u, E, F)
    <3>1. PICK i, j \in 1 .. n : i < j /\ t[i] \in E /\ t[j] \in F
      BY <1>1, <2>3 DEF Before
    <3> QED
      BY <1>1, <1>2, <3>1 DEF Before
  <2>4. ASSUME Has(s, E), Has(t, F) PROVE Before(u, E, F)
    BY <1>1, <1>2, <2>4 DEF Has, Before
  <2> QED
    BY <2>1, <2>2, <2>3, <2>4
<1> QED
  BY <1>3, <1>4 DEF u

LEMMA Cut ==
  ASSUME NEW S, NEW s \in Seq(S), NEW n \in Nat
  PROVE  LET p == Prefix(s, n)
         IN  /\ p \in Seq(S) /\ DOMAIN p \subseteq DOMAIN s
             /\ \A i \in DOMAIN p : p[i] = s[i]
             /\ \A E : Has(p, E) => Has(s, E)
             /\ \A E, F : Before(p, E, F) => Before(s, E, F)
<1> DEFINE p == Prefix(s, n)
<1>1. p \in Seq(S) /\ DOMAIN p \subseteq DOMAIN s /\ \A i \in DOMAIN p : p[i] = s[i]
  <2>1. /\ Len(s) \in Nat
        /\ (IF Len(s) > n THEN n ELSE Len(s)) \in 0 .. Len(s)
    BY LenProperties
  <2>2. ASSUME NEW k \in 0 .. Len(s)
        PROVE  /\ SubSeq(s, 1, k) \in Seq(S) /\ DOMAIN SubSeq(s, 1, k) \subseteq DOMAIN s
               /\ \A i \in DOMAIN SubSeq(s, 1, k) : SubSeq(s, 1, k)[i] = s[i]
    <3>1. SubSeq(s, 1, k) \in Seq(S) /\ Len(SubSeq(s, 1, k)) = k
      BY <2>1, SubSeqProperties
    <3>2. DOMAIN s = 1 .. Len(s) /\ DOMAIN SubSeq(s, 1, k) = 1 .. k
      BY <3>1, LenProperties
    <3>3. \A i \in 1 .. k : SubSeq(s, 1, k)[i] = s[i]
      BY <2>1, SubSeqProperties
    <3> QED
      BY <2>1, <3>1, <3>2, <3>3
  <2> QED
    BY <2>1, <2>2 DEF Prefix
<1> HIDE DEF p
<1>2. \A E : Has(p, E) => Has(s, E)
  BY <1>1 DEF Has
<1>3. \A E, F : Before(p, E, F) => Before(s, E, F)
  BY <1>1 DEF Before
<1> QED
  BY <1>1, <1>2, <1>3 DEF p

LEMMA FromHead ==
  ASSUME NEW S, NEW s \in Seq(S), s # <<>>
  PROVE  /\ Head(s) \in S /\ Tail(s) \in Seq(S) /\ 1 \in DOMAIN s /\ s[1] = Head(s)
         /\ \A i \in DOMAIN Tail(s) : i + 1 \in DOMAIN s /\ Tail(s)[i] = s[i + 1]
         /\ \A E : Has(s, E) <=> Head(s) \in E \/ Has(Tail(s), E)
         /\ \A E, F : Before(s, E, F) <=> (Head(s) \in E /\ Has(Tail(s), F)) \/ Before(Tail(s), E, F)
<1> DEFINE h == <<Head(s)>>
           t == Tail(s)
<1>1. Head(s) \in S /\ t \in Seq(S) /\ h \in Seq(S) /\ s = h \o t
  BY HeadTailProperties, ConcatProperties, EmptySeq
<1>2. /\ \A E : Has(h, E) <=> Head(s) \in E
      /\ \A E, F : ~Before(h, E, F)
  <2> DEFINE x == Head(s)
  <2> HIDE DEF x
  <2>1. DOMAIN <<x>> = {1} /\ <<x>>[1] = x
    OBVIOUS
  <2> QED
    BY <2>1 DEF Has, Before, x
<1>3. /\ 1 \in DOMAIN s /\ s[1] = Head(s)
      /\ \A i \in DOMAIN t : i + 1 \in DOMAIN s /\ t[i] = s[i + 1]
  <2>1. Len(s) \in Nat \ {0} /\ Len(t) = Len(s) - 1 /\ DOMAIN s = 1 .. Len(s) /\ DOMAIN t = 1 .. Len(t)
        /\ s[1] = Head(s)
    BY <1>1, LenProperties, EmptySeq, HeadTailProperties
  <2>2. \A i \in 1 .. Len(t) : t[i] = s[i + 1]
    BY <2>1
  <2> QED
    BY <2>1, <2>2
<1> HIDE DEF h, t
<1>4. /\ \A E : Has(h \o t, E) <=> Has(h, E) \/ Has(t, E)
      /\ \A E, F : Before(h \o t, E, F) <=> Before(h, E, F) \/ Before(t, E, F) \/ (Has(h, E) /\ Has(t, F))
  BY <1>1, Joined
<1> QED
  BY <1>1, <1>2, <1>3, <1>4 DEF t

LEMMA Few ==
  /\ \A E : ~Has(<<>>, E)
  /\ \A E, F : ~Before(<<>>, E, F)
  /\ \A x, E : Has(<<x>>, E) <=> x \in E
  /\ \A x, E, F : ~Before(<<x>>, E, F)
  /\ \A S, s, E : s \in Seq(S) /\ S \subseteq E /\ s # <<>> => Has(s, E)
<1>1. \A E, F : ~Has(<<>>, E) /\ ~Before(<<>>, E, F)
  BY DEF Has, Before
<1>2. ASSUME NEW x PROVE \A E, F : (Has(<<x>>, E) <=> x \in E) /\ ~Before(<<x>>, E, F)
  <2>1. DOMAIN <<x>> = {1} /\ <<x>>[1] = x
    OBVIOUS
  <2> QED
    BY <2>1 DEF Has, Before
<1>3. ASSUME NEW S, NEW s \in Seq(S), NEW E, S \subseteq E, s # <<>> PROVE Has(s, E)
  BY <1>3, FromHead DEF Has
<1> QED
  BY <1>1, <1>2, <1>3

-----------------------------------------------------------------------------
(* The commands that are answered.  While the modem is brought up an ERROR *)
(* is an answer as well; later on it is ignored, and the command is as     *)
(* good as lost.                                                           *)
Whole == Commands \ {"PART"}
Refusals == IF gsm \in InactiveStates THEN {"ERROR"} ELSE {}

(* The lines of an answer, and the last of one; the events the parser      *)
(* makes of them.                                                          *)
Spoken == (Lines \ {"CMTI", "ERROR"}) \cup Refusals
Finals == {"OK", "PROMPT"} \cup Refusals
Heard == Of({"ACK", "SMS_RESPONSE", "NETWORK_RESPONSE", "CLOCK_RESPONSE"} \cup Refusals)
Closings == {e \in Heard : e.sig \in {"ACK"} \cup Refusals \/ e.par = "PROMPT"}

(* The lines that have been announced to the parser, if any has; none has. *)
Announced == \A i \in DOMAIN rx : rx[i] \in Spoken => i <= avail
Unannounced == \A i \in DOMAIN rx : rx[i] \in Spoken => ~(i <= avail)

(* A command and its answer are in one place at a time: nothing is behind  *)
(* a command, its answer is heard after all else has been, and its last    *)
(* line after the others.                                                  *)
TxLast == ~Before(tx, Whole, Commands)
PendingLast == ~Before(pending, Whole, Commands) /\ (Has(pending, Whole) => tx = <<>>)
AnswerLast ==
  /\ Has(answer, Spoken) => tx = <<>> /\ pending = <<>>
  /\ ~Before(answer, Finals, Lines)
RxLast ==
  /\ Has(rx, Spoken) => tx = <<>> /\ pending = <<>> /\ answer = <<>>
  /\ ~Before(rx, Finals, Spoken)
  /\ Announced \/ Unannounced
RepliesLast ==
  /\ Has(ToGsm, Heard) => tx = <<>> /\ pending = <<>> /\ answer = <<>>
  /\ Has(ToGsm, Heard) => ~Has(rx, Spoken) \/ (Parses /\ Announced)
  /\ Has(ToGsm, Closings) => ~Has(rx, Spoken)
  /\ ~Before(ToGsm, Closings, Heard)
Journey == TxLast /\ PendingLast /\ AnswerLast /\ RxLast /\ RepliesLast

(* No command is under way, and none has been answered.                    *)
NoLine == ~Has(tx, Whole) /\ ~Has(pending, Whole) /\ ~Has(answer, Spoken) /\ ~Has(rx, Spoken)
Nothing == NoLine /\ ~Has(ToGsm, Heard)

LEMMA HeardAre ==
  /\ Finals \subseteq Spoken /\ Finals \subseteq Lines /\ Spoken \subseteq Lines
  /\ Closings \subseteq Heard /\ Heard \in SUBSET Events /\ Closings \in SUBSET Events
  /\ "CMTI" \notin Spoken /\ Whole \subseteq Commands /\ "PART" \notin Whole
  /\ \A e \in Heard : e.sig \in {"ACK", "ERROR", "SMS_RESPONSE", "NETWORK_RESPONSE", "CLOCK_RESPONSE"}
  /\ \A X : X \cap {"ACK", "ERROR", "SMS_RESPONSE", "NETWORK_RESPONSE", "CLOCK_RESPONSE"} = {} =>
              Of(X) \cap Heard = {}
BY ModemAssumption DEF Finals, Spoken, Closings, Heard, Whole, Refusals, Lines, Of

(* The answer is heard, the command sent, while nothing is left of the     *)
(* last: so it is when an answer is complete.                              *)
Cleared == NoLine /\ ~Has(Left("gsm"), Heard)

LEMMA Closing ==
  ASSUME KernelType, Handed, Journey, current.ao = "gsm", current' = Idle, Handled \in Closings,
         current.sig # "DATA_AVAILABLE"
  PROVE  Cleared
<1>0. "gsm" \in Objects
  BY TwoQueues
<1>1. /\ Has(ToGsm, Heard) /\ Has(ToGsm, Closings) /\ ~Parses
      /\ Has(queue["gsm"], Heard) => Before(ToGsm, Closings, Heard)
  BY <1>0, InHandFirst, HeardAre DEF ToGsm, Parses, InHand
<1>2. ~Has(Left("gsm"), Heard)
  BY <1>1 DEF Journey, RepliesLast, Left
<1> QED
  BY <1>1, <1>2, Few DEF Cleared, NoLine, Journey, RepliesLast

LEMMA SentAfter ==
  ASSUME KernelType, LinkType, Handed, Cleared, Refusals' \subseteq Refusals,
         NEW S \in SUBSET Events, Gains("gsm", S), S \cap Heard = {},
         UNCHANGED <<pending, answer, rx, avail>>,
         tx' = tx \/ \E c \in Commands : tx' = Append(tx, c)
  PROVE  /\ Journey'
         /\ tx' = tx \/ tx' = Append(tx, "PART") => Nothing'
<1>0. "gsm" \in Objects
  BY TwoQueues
<1>1. Heard' \subseteq Heard /\ Spoken' \subseteq Spoken /\ Finals' \subseteq Spoken' /\ Closings' \subseteq Heard'
  BY DEF Heard, Spoken, Finals, Of, Closings, Lines
<1>2. ~Has(ToGsm', Heard)
  BY <1>0, Gained DEF ToGsm, Cleared
<1>3. ~Has(ToGsm', Heard') /\ ~Has(ToGsm', Closings')
  BY <1>1, <1>2 DEF Has
<1>4. ~Has(answer', Spoken') /\ ~Has(rx', Spoken') /\ ~Has(pending', Whole)
  BY <1>1 DEF Cleared, NoLine, Has
<1>5. ~Has(answer', Finals') /\ ~Has(rx', Finals')
  BY <1>1, <1>4 DEF Has
<1>6. ~Has(tx, Whole) /\ ~Before(tx, Whole, Commands)
  BY DEF Cleared, NoLine, Has, Before
<1>7. ASSUME NEW c \in Commands, tx' = Append(tx, c)
      PROVE  ~Before(tx', Whole, Commands) /\ (c = "PART" => ~Has(tx', Whole))
  <2>1. <<c>> \in Seq(Commands) /\ tx \in Seq(Commands) /\ tx' = tx \o <<c>>
    <3>1. tx \in Seq(Commands)
      BY DEF LinkType
    <3> QED
      BY <1>7, <3>1, AppendIsConcat
  <2>2. ~Before(<<c>>, Whole, Commands) /\ (c = "PART" => ~Has(<<c>>, Whole))
    BY Few, HeardAre
  <2> QED
    BY <1>6, <2>1, <2>2, Joined
<1>8. ~Before(tx', Whole, Commands)
  BY <1>6, <1>7
<1>9. /\ ~Before(answer', Finals', Lines) /\ ~Before(pending', Whole, Commands)
      /\ ~Before(rx', Finals', Spoken') /\ ~Before(ToGsm', Closings', Heard')
  BY <1>3, <1>4, <1>5 DEF Has, Before
<1>10. Announced'
  BY <1>4 DEF Has, Announced
<1>11. Journey'
  BY <1>3, <1>4, <1>8, <1>9, <1>10
  DEF Journey, TxLast, PendingLast, AnswerLast, RxLast, RepliesLast, Whole
<1>12. ASSUME tx' = tx \/ tx' = Append(tx, "PART") PROVE Nothing'
  <2>1. "PART" \in Commands
    BY DEF Commands
  <2>2. ~Has(tx', Whole)
    BY <1>6, <1>7, <1>12, <2>1
  <2> QED
    BY <1>3, <1>4, <2>2 DEF Nothing, NoLine, Whole
<1> QED
  BY <1>11, <1>12

(* A step that says and hears nothing.                                     *)
LEMMA Resting ==
  ASSUME KernelType, Handed, Refusals' = Refusals,
         NEW S \in SUBSET Events, Gains("gsm", S), S \cap Heard = {},
         UNCHANGED <<tx, pending, answer>>,
         \/ rx' = <<>>
         \/ rx' = rx /\ avail' = avail /\ (Parses => Parses')
         \/ rx' = rx /\ avail' = Len(rx) /\ ~Parses /\ rx \in Seq(Lines)
  PROVE  (Journey => Journey') /\ (NoLine => NoLine') /\ (Nothing => Nothing')
<1>0. "gsm" \in Objects
  BY TwoQueues
<1>1. Heard' = Heard /\ Spoken' = Spoken /\ Finals' = Finals /\ Closings' = Closings
  BY DEF Heard, Spoken, Finals, Closings
<1>2. /\ \A E : Has(rx', E) => Has(rx, E)
      /\ \A E, F : Before(rx', E, F) => Before(rx, E, F)
  BY Few
<1>3. S \cap Closings = {}
  BY HeardAre
<1>4. /\ Has(ToGsm', Heard) => Has(ToGsm, Heard)
      /\ Has(ToGsm', Closings) => Has(ToGsm, Closings)
      /\ Before(ToGsm', Closings, Heard) => Before(ToGsm, Closings, Heard)
  BY <1>0, <1>3, Gained DEF ToGsm
<1>5. NoLine => NoLine'
  BY <1>1, <1>2 DEF NoLine, Whole
<1>6. Nothing => Nothing'
  BY <1>1, <1>4, <1>5 DEF Nothing
<1>7. ASSUME Journey PROVE Journey'
  <2>1. /\ Announced \/ Unannounced => (Announced \/ Unannounced)'
        /\ ~Has(rx, Spoken) \/ (Parses /\ Announced) => ~Has(rx', Spoken) \/ (Parses' /\ Announced')
    <3>1. CASE rx' = <<>>
      BY <1>1, <3>1, Few DEF Announced
    <3>2. CASE rx' = rx /\ avail' = avail /\ (Parses => Parses')
      BY <1>1, <3>2 DEF Announced, Unannounced
    <3>3. CASE rx' = rx /\ avail' = Len(rx) /\ ~Parses /\ rx \in Seq(Lines)
      BY <1>1, <3>3, LenProperties DEF Announced
    <3> QED
      BY <3>1, <3>2, <3>3
  <2>2. TxLast' /\ PendingLast' /\ AnswerLast'
    BY <1>1, <1>7 DEF Journey, TxLast, PendingLast, AnswerLast, Whole
  <2>3. RxLast'
    BY <1>1, <1>2, <1>7, <2>1 DEF Journey, RxLast
  <2>4. RepliesLast'
    BY <1>1, <1>2, <1>4, <1>7, <2>1 DEF Journey, RepliesLast
  <2> QED
    BY <2>2, <2>3, <2>4 DEF Journey
<1> QED
  BY <1>5, <1>6, <1>7

(* The last line of an answer of the modem is its last; part of a text has *)
(* none.                                                                   *)
LEMMA ExecutesLast ==
  ASSUME LinkType, NEW c, Executes(c, answer')
  PROVE  ~Before(answer', Finals, Lines) /\ (c = "PART" => answer' = <<>>)
<1>1. ASSUME NEW x \in Lines, NEW y \in Lines, x \notin Finals
      PROVE  ~Before(<<x, y>>, Finals, Lines)
  <2>1. DOMAIN <<x, y>> = 1 .. 2 /\ <<x, y>>[1] = x
    OBVIOUS
  <2>2. \A i, j \in 1 .. 2 : i < j => i = 1
    OBVIOUS
  <2> QED
    BY <1>1, <2>1, <2>2 DEF Before
<1>2. ASSUME NEW n \in Nat, answer' = [i \in 1 .. n |-> "CMGL"] \o <<"OK">>
      PROVE  ~Before(answer', Finals, Lines)
  <2> DEFINE s == [i \in 1 .. n |-> "CMGL"]
  <2>1. s \in Seq(Lines) /\ <<"OK">> \in Seq(Lines) /\ DOMAIN s = 1 .. n /\ \A i \in DOMAIN s : s[i] = "CMGL"
    BY DEF Lines
  <2>2. ~Has(s, Finals)
    BY <2>1 DEF Has, Finals, Refusals
  <2>3. ~Before(s, Finals, Lines)
    BY <2>2 DEF Has, Before
  <2> HIDE DEF s
  <2>4. ~Before(<<"OK">>, Finals, Lines)
    BY Few
  <2>5. ~Before(s \o <<"OK">>, Finals, Lines)
    BY <2>1, <2>2, <2>3, <2>4, Joined
  <2> QED
    BY <1>2, <2>5 DEF s
<1>3. ASSUME NEW x, answer' = <<x>> PROVE ~Before(answer', Finals, Lines)
  BY <1>3, Few
<1>4. /\ {"CCLK", "CMGR", "CMGS", "OK"} \cup Registrations \subseteq Lines
      /\ \A x \in {"CCLK", "CMGR", "CMGS"} \cup Registrations : x \notin Finals
  BY ModemAssumption DEF Lines, Finals, Refusals
<1>5. CASE c = "CREG" /\ \E r \in Registrations : answer' = <<r, "OK">>
  BY <1>1, <1>4, <1>5
<1>6. CASE c = "CCLK?" /\ answer' = <<"CCLK", "OK">>
  BY <1>1, <1>4, <1>6
<1>7. CASE c = "CMGL" /\ answer' = [i \in 1 .. sim.unread |-> "CMGL"] \o <<"OK">>
  BY <1>2, <1>7 DEF LinkType
<1>8. CASE c = "CMGR" /\ (answer' = <<"CMGR", "OK">> \/ answer' = <<"OK">>)
  BY <1>1, <1>3, <1>4, <1>8
<1>9. CASE c \in {"CMGD", "CMGS", "AT", "INIT", "CCLK"} /\ \E x : answer' = <<x>>
  BY <1>3, <1>9
<1>10. CASE c = "BODY" /\ answer' = <<"CMGS", "OK">>
  BY <1>1, <1>4, <1>10
<1>11. CASE c = "PART" /\ answer' = <<>>
  BY <1>11, Few
<1> QED
  BY <1>5, <1>6, <1>7, <1>8, <1>9, <1>10, <1>11 DEF Executes

(* While the modem is brought up, no text is sent.                         *)
NoParts == gsm \in InactiveStates => ~Has(tx, {"PART"}) /\ ~Has(pending, {"PART"})

LEMMA CommandsSent ==
  ASSUME KernelType, LinkType, Handed, Journey, NoParts, TxDone, gsm' = gsm
  PROVE  Journey' /\ NoParts' /\ (NoLine => NoLine') /\ (Nothing => Nothing')
<1>0. "gsm" \in Objects /\ tx # <<>> /\ tx' = <<>> /\ ~Parses
  BY TwoQueues DEF TxDone, Parses, InHand, Idle
<1>1. UNCHANGED <<answer, rx, avail, Heard, Spoken, Finals, Closings>>
  BY DEF TxDone, Heard, Spoken, Finals, Closings, Refusals
<1>2. Gains("gsm", Of({"SEND_DONE"})) /\ Of({"SEND_DONE"}) \in SUBSET Events
      /\ Of({"SEND_DONE"}) \cap Heard = {}
  <2>1. queue' = Post(queue, "gsm", EventPar("SEND_DONE", "0")) /\ current' = current
    BY DEF TxDone, PostedTo, Event
  <2>2. Posts({"SEND_DONE"}, {}, {})
    BY <2>1, Keyless, Posting DEF Pars
  <2> QED
    BY <2>2, HeardAre DEF Posts, Of
<1>3. ~Has(ToGsm, Heard) => ~Has(ToGsm', Heard)
  BY <1>0, <1>2, Gained DEF ToGsm
<1>4. ~Has(answer, Spoken) /\ ~Has(rx, Spoken) /\ ~Has(ToGsm, Heard) /\ ~Has(pending, Whole)
  BY <1>0 DEF Journey, AnswerLast, RxLast, RepliesLast, PendingLast
<1>5. /\ tx \in Seq(Commands) /\ pending \in Seq(Commands) /\ MaxPending \in Nat
      /\ pending' = Prefix(pending \o tx, MaxPending) /\ pending \o tx \in Seq(Commands)
  BY ModemAssumption, ConcatProperties DEF LinkType, TxDone
<1>6. ~Before(pending', Whole, Commands)
  <2>1. ~Before(pending \o tx, Whole, Commands)
    BY <1>4, <1>5, Joined DEF Journey, TxLast, PendingLast
  <2> QED
    BY <1>5, <2>1, Cut
<1>7. \A E : Has(pending', E) => Has(pending, E) \/ Has(tx, E)
  BY <1>5, Cut, Joined
<1>8. ~Has(ToGsm', Closings) /\ ~Before(ToGsm', Closings, Heard)
  BY <1>3, <1>4, HeardAre DEF Has, Before
<1>9. Journey'
  <2>1. TxLast'
    BY <1>0, Few DEF TxLast
  <2>2. PendingLast' /\ AnswerLast'
    BY <1>0, <1>1, <1>4, <1>6 DEF Journey, PendingLast, AnswerLast, Whole
  <2>3. RxLast'
    BY <1>1, <1>4 DEF Journey, RxLast, Announced, Unannounced
  <2>4. RepliesLast'
    BY <1>1, <1>3, <1>4, <1>8 DEF RepliesLast
  <2> QED
    BY <2>1, <2>2, <2>3, <2>4 DEF Journey
<1>10. NoLine => NoLine'
  BY <1>0, <1>1, <1>7, Few DEF NoLine, Whole
<1>11. Nothing => Nothing'
  BY <1>1, <1>3, <1>10 DEF Nothing
<1>12. NoParts'
  BY <1>0, <1>7, Few DEF NoParts
<1> QED
  BY <1>9, <1>10, <1>11, <1>12

LEMMA ModemAnswering ==
  ASSUME KernelType, LinkType, Handed, Journey, NoParts, ModemAnswers, gsm' = gsm
  PROVE  Journey' /\ NoParts' /\ (NoLine => NoLine') /\ (Nothing => Nothing')
<1>1. UNCHANGED <<tx, rx, avail, ToGsm, Parses, Heard, Spoken, Finals, Closings>>
  BY DEF ModemAnswers, kernelVars, ToGsm, Inbox, Parses, InHand, Heard, Spoken, Finals, Closings, Refusals
<1>2. /\ answer = <<>> /\ pending \in Seq(Commands) /\ pending # <<>> /\ pending' = Tail(pending)
      /\ Head(pending) \in Commands /\ pending' \in Seq(Commands)
      /\ \A E : Has(pending, E) <=> Head(pending) \in E \/ Has(pending', E)
      /\ \A E, F : Before(pending, E, F) <=> (Head(pending) \in E /\ Has(pending', F)) \/ Before(pending', E, F)
  BY FromHead DEF LinkType, ModemAnswers
<1> DEFINE c == Head(pending)
<1>3. ~Before(answer', Finals, Lines) /\ (c = "PART" => answer' \in {<<>>, <<"ERROR">>})
  BY ExecutesLast, Few DEF ModemAnswers
<1>4. c = "PART" => ~Has(answer', Spoken)
  <2>1. c = "PART" => gsm \notin InactiveStates
    BY <1>2 DEF NoParts
  <2>2. gsm \notin InactiveStates => "ERROR" \notin Spoken
    BY ModemAssumption DEF Spoken, Refusals
  <2> QED
    BY <1>3, <2>1, <2>2, Few
<1>5. c # "PART" => c \in Whole /\ tx = <<>> /\ pending' = <<>>
  <2> SUFFICES ASSUME c # "PART" PROVE c \in Whole /\ tx = <<>> /\ pending' = <<>>
    OBVIOUS
  <2>1. c \in Whole
    BY <1>2 DEF Whole
  <2>2. tx = <<>> /\ ~Has(pending', Commands)
    BY <1>2, <2>1 DEF Journey, PendingLast
  <2> QED
    BY <1>2, <2>1, <2>2, Few
<1>6. ~Has(rx, Spoken) /\ ~Has(ToGsm, Heard)
  BY <1>2 DEF Journey, RxLast, RepliesLast
<1>7. ~Has(ToGsm, Closings)
  BY <1>6, HeardAre DEF Has
<1> HIDE DEF c
<1>8. Journey'
  <2>1. TxLast' /\ PendingLast'
    BY <1>1, <1>2 DEF Journey, TxLast, PendingLast, Whole
  <2>2. AnswerLast'
    BY <1>1, <1>3, <1>4, <1>5 DEF AnswerLast
  <2>3. RxLast'
    BY <1>1, <1>6 DEF Journey, RxLast, Announced, Unannounced
  <2>4. RepliesLast'
    BY <1>1, <1>6, <1>7 DEF Journey, RepliesLast
  <2> QED
    BY <2>1, <2>2, <2>3, <2>4 DEF Journey
<1>9. NoLine => NoLine'
  <2>1. ~Has(pending, Whole) => c = "PART" /\ ~Has(pending', Whole)
    BY <1>2, <1>5 DEF c
  <2> QED
    BY <1>1, <1>4, <2>1 DEF NoLine, Whole
<1> QED
  BY <1>1, <1>2, <1>8, <1>9 DEF Nothing, NoParts

LEMMA ModemSending ==
  ASSUME KernelType, LinkType, Handed, Burst, Journey, NoParts, ModemSends, gsm' = gsm
  PROVE  Journey' /\ NoParts' /\ (NoLine => NoLine') /\ (Nothing => Nothing')
<1>1. UNCHANGED <<tx, avail, pending, ToGsm, Parses, Heard, Spoken, Finals, Closings>>
  BY DEF ModemSends, kernelVars, ToGsm, Inbox, Parses, InHand, Heard, Spoken, Finals, Closings, Refusals
<1>2. /\ answer # <<>> /\ answer \in Seq(Lines) /\ rx \in Seq(Lines) /\ RxLines \in Nat
      /\ avail \in 0 .. Len(rx) /\ rx \o answer \in Seq(Lines)
  BY ModemAssumption, ConcatProperties DEF LinkType, ModemSends
<1>3. answer' = <<>> /\ rx' = Prefix(rx \o answer, RxLines)
  <2>1. SubSeq(answer, 1, Len(answer)) = answer /\ SubSeq(answer, Len(answer) + 1, Len(answer)) = <<>>
    BY <1>2
  <2> QED
    BY <2>1 DEF ModemSends, Received
<1>4. ~Has(rx, Spoken) /\ ~Has(ToGsm, Heard) /\ ~Has(rx, Finals)
  BY <1>2, HeardAre DEF Journey, RxLast, RepliesLast, Has
<1>5. /\ Has(rx', Spoken) => Has(answer, Spoken)
      /\ ~Before(rx', Finals, Spoken)
  <2>1. ~Before(answer, Finals, Spoken)
    BY HeardAre DEF Journey, AnswerLast, Before
  <2>2. ~Before(rx, Finals, Spoken)
    BY <1>4 DEF Has, Before
  <2>3. /\ Has(rx \o answer, Spoken) <=> Has(rx, Spoken) \/ Has(answer, Spoken)
        /\ ~Before(rx \o answer, Finals, Spoken)
    BY <1>2, <1>4, <2>1, <2>2, Joined
  <2> QED
    BY <1>2, <1>3, <1>4, <2>3, Cut
<1>6. Unannounced'
  <2>1. ASSUME NEW i \in DOMAIN rx', rx'[i] \in Spoken, i <= avail PROVE FALSE
    <3>1. i \in DOMAIN (rx \o answer) /\ rx'[i] = (rx \o answer)[i]
      BY <1>2, <1>3, Cut
    <3>2. i \in DOMAIN rx /\ (rx \o answer)[i] = rx[i]
      BY <1>2, <2>1, <3>1, ConcatProperties, LenProperties
    <3> QED
      BY <1>4, <2>1, <3>1, <3>2 DEF Has
  <2> QED
    BY <1>1, <2>1 DEF Unannounced
<1>7. ~Has(ToGsm, Closings)
  BY <1>4, HeardAre DEF Has
<1>8. Journey'
  <2>1. TxLast' /\ PendingLast'
    BY <1>1 DEF Journey, TxLast, PendingLast, Whole
  <2>2. AnswerLast'
    BY <1>1, <1>3, Few DEF AnswerLast
  <2>3. RxLast'
    BY <1>1, <1>3, <1>5, <1>6 DEF Journey, RxLast, AnswerLast
  <2>4. RepliesLast'
    BY <1>1, <1>4, <1>7 DEF Journey, RepliesLast
  <2> QED
    BY <2>1, <2>2, <2>3, <2>4 DEF Journey
<1>9. NoLine => NoLine'
  BY <1>1, <1>3, <1>5, Few DEF NoLine, Whole
<1> QED
  BY <1>1, <1>8, <1>9 DEF Nothing, NoParts

LEMMA NewsComing ==
  ASSUME KernelType, LinkType, Handed, Journey, NoParts, MessageArrives, gsm' = gsm
  PROVE  Journey' /\ NoParts' /\ (NoLine => NoLine') /\ (Nothing => Nothing')
<1>1. UNCHANGED <<tx, avail, pending, answer, ToGsm, Parses, Heard, Spoken, Finals, Closings>>
  BY DEF MessageArrives, kernelVars, ToGsm, Inbox, Parses, InHand, Heard, Spoken, Finals, Closings, Refusals
<1> DEFINE n == <<"CMTI">>
<1>2. /\ rx \in Seq(Lines) /\ n \in Seq(Lines) /\ RxLines \in Nat /\ rx \o n \in Seq(Lines)
      /\ rx' = Prefix(rx \o n, RxLines)
  BY ModemAssumption, ConcatProperties DEF LinkType, MessageArrives, Received, Lines
<1>3. ~Has(n, Spoken) /\ ~Before(n, Finals, Spoken)
  BY Few, HeardAre
<1>4. (Has(rx', Spoken) => Has(rx, Spoken)) /\ (Before(rx', Finals, Spoken) => Before(rx, Finals, Spoken))
  <2> HIDE DEF n
  <2>1. /\ Has(rx \o n, Spoken) <=> Has(rx, Spoken)
        /\ Before(rx \o n, Finals, Spoken) <=> Before(rx, Finals, Spoken)
    BY <1>2, <1>3, Joined
  <2> QED
    BY <1>2, <2>1, Cut
<1>5. \A i \in DOMAIN rx' : rx'[i] \in Spoken => i \in DOMAIN rx /\ rx'[i] = rx[i]
  <2> SUFFICES ASSUME NEW i \in DOMAIN rx', rx'[i] \in Spoken
               PROVE  i \in DOMAIN rx /\ rx'[i] = rx[i]
    OBVIOUS
  <2>1. i \in DOMAIN (rx \o n) /\ rx'[i] = (rx \o n)[i]
    BY <1>2, Cut
  <2>2. n[1] = "CMTI" /\ Len(n) = 1
    OBVIOUS
  <2> HIDE DEF n
  <2>3. CASE i <= Len(rx)
    BY <1>2, <2>1, <2>3, ConcatProperties, LenProperties
  <2>4. CASE ~(i <= Len(rx))
    <3>1. i = Len(rx) + 1 /\ (rx \o n)[i] = n[1]
      BY <1>2, <2>1, <2>2, <2>4, ConcatProperties, LenProperties
    <3> QED
      BY <2>1, <2>2, <3>1, HeardAre
  <2> QED
    BY <2>3, <2>4
<1>6. (Announced => Announced') /\ (Unannounced => Unannounced')
  BY <1>1, <1>5 DEF Announced, Unannounced
<1>7. Journey'
  <2>1. TxLast' /\ PendingLast' /\ AnswerLast'
    BY <1>1 DEF Journey, TxLast, PendingLast, AnswerLast, Whole
  <2>2. RxLast'
    BY <1>1, <1>4, <1>6 DEF Journey, RxLast
  <2>3. RepliesLast'
    BY <1>1, <1>4, <1>6 DEF Journey, RepliesLast
  <2> QED
    BY <2>1, <2>2, <2>3 DEF Journey
<1> QED
  BY <1>1, <1>4, <1>7 DEF Nothing, NoLine, NoParts, Whole

(* The parser hears what the line says.                                    *)
LEMMA LineHeard ==
  ASSUME TypeOK, Handed, GsmHandler, Parsing
  PROVE  /\ UNCHANGED <<current, gsmVars, tx, pending, answer>>
         /\ rx # <<>> /\ rx' = Tail(rx) /\ avail' = avail - 1
         /\ timer'["gsm"] \in {"off", timer["gsm"]}
         /\ queue'["app"] = queue["app"]
         /\ \E E \in SUBSET Events :
              /\ Gains("gsm", E)
              /\ E \cap Of(Requests \cup {"TIMEOUT", "BUFFER_FULL"}) = {}
              /\ E \cap Heard # {} => Head(rx) \in Spoken
              /\ E \cap Closings # {} => Head(rx) \in Finals
<1>0. KernelType /\ "gsm" \in Objects /\ queue["gsm"] \in Seq(Events)
  BY TwoQueues DEF TypeOK
<1>1. UNCHANGED <<current, gsmVars, tx>> /\ avail' = avail - 1 /\ timer'["gsm"] \in {"off", timer["gsm"]}
  BY ParserGains
<1>2. ParseLine
  BY DEF Parsing, GsmHandler, GsmInactive, StartAo, ComOpened, PowerKey, PoweredOn, RetryAt, NoModem,
         LinkUp, ConfigNext, ConfigDone, ConfigFails, Accept, IdleTells, ParseDone,
         GsmOperation, GsmIgnores, Handling, OperationDone, PresenceDone, OperationTimesOut,
         NetworkTimesOut, NetworkReport, ClockGarbled, NetworkRetry, NetworkResponse,
         NetworkSearching, NetworkFallsThrough, SendText, BufferFull, SendRest, KeepResponse,
         ExtractTime, Requests, Operation
<1>3. /\ UNCHANGED <<pending, answer>> /\ rx' = Tail(rx) /\ queue'["app"] = queue["app"]
      /\ queue'["gsm"] = queue["gsm"] \o Parsed(Head(rx))
  BY <1>0, <1>2, ConfigurationOfMain DEF ParseLine, KernelType, Queues, ObjectsOfMain
<1>4. rx \in Seq(Lines) /\ rx # <<>> /\ Head(rx) \in Lines
  <2>1. rx \in Seq(Lines) /\ avail \in 0 .. Len(rx) /\ avail > 0
    BY DEF Parsing, TypeOK, LinkType
  <2>2. rx # <<>>
    BY <2>1
  <2> QED
    BY <2>1, <2>2, FromHead
<1> DEFINE l == Head(rx)
           Finds(e) == /\ e \in Events
                       /\ e \notin Of(Requests \cup {"TIMEOUT", "BUFFER_FULL"})
                       /\ e \in Heard => l \in Spoken
                       /\ e \in Closings => l \in Finals
<1>5. Parsed(l) = <<>> \/ \E e : Finds(e) /\ Parsed(l) = <<e>>
  <2>0. /\ \A sig \in Signals, par \in Pars : EventPar(sig, par) \in Events
        /\ Lines \subseteq Pars /\ "0" \in Pars
        /\ {"ACK", "ERROR", "RECIEVE_URC", "SMS_RESPONSE", "CLOCK_RESPONSE", "NETWORK_RESPONSE"} \subseteq Signals
    <3>1. \A sig \in Signals, par \in Pars : EventPar(sig, par) \in Events
      BY EventType
    <3> QED
      BY <3>1 DEF Pars, Signals
  <2>1. \A sig, par : EventPar(sig, par).sig = sig /\ EventPar(sig, par).par = par
    BY DEF EventPar
  <2>2. ASSUME NEW sig \in {"ACK", "ERROR", "RECIEVE_URC", "SMS_RESPONSE", "CLOCK_RESPONSE", "NETWORK_RESPONSE"},
               NEW par \in Pars
        PROVE  /\ EventPar(sig, par) \in Events
               /\ EventPar(sig, par) \notin Of(Requests \cup {"TIMEOUT", "BUFFER_FULL"})
    BY <2>0, <2>1, <2>2, RequestsAre DEF Of
  <2>3. CASE l = "OK"
    BY <2>0, <2>1, <2>2, <2>3, ModemAssumption DEF Parsed, Spoken, Finals, Lines
  <2>4. CASE l = "ERROR"
    BY <2>0, <2>1, <2>2, <2>4, ModemAssumption DEF Parsed, Spoken, Finals, Lines, Heard, Closings, Of, Refusals
  <2>5. CASE l = "CMTI"
    <3>1. Parsed(l) = <<EventPar("RECIEVE_URC", "0")>>
      BY <2>5, ModemAssumption DEF Parsed, Event
    <3>2. EventPar("RECIEVE_URC", "0") \notin Heard
      BY <2>1, HeardAre
    <3> QED
      BY <2>0, <2>2, <3>1, <3>2, HeardAre
  <2>6. CASE l \in {"PROMPT", "CMGS", "CMGR", "CMGL"}
    <3>1. l \in Spoken /\ l \in Pars
      BY <2>0, <1>4, <2>6 DEF Spoken, Lines
    <3>2. EventPar("SMS_RESPONSE", l) \in Closings => l \in Finals
      BY <2>1 DEF Closings, Refusals, Finals
    <3>3. Parsed(l) = <<>> \/ Parsed(l) = <<EventPar("SMS_RESPONSE", l)>>
      BY <2>6, ModemAssumption DEF Parsed
    <3> QED
      BY <2>2, <3>1, <3>2, <3>3
  <2>7. CASE l = "CCLK"
    <3>1. l \in Spoken /\ l \in Pars
      BY <2>0, <1>4, <2>7 DEF Spoken, Lines
    <3>2. EventPar("CLOCK_RESPONSE", l) \in Closings => l \in Finals
      BY <2>1 DEF Closings, Refusals, Finals
    <3>3. Parsed(l) = <<>> \/ Parsed(l) = <<EventPar("CLOCK_RESPONSE", l)>>
      BY <2>7, ModemAssumption DEF Parsed
    <3> QED
      BY <2>2, <3>1, <3>2, <3>3
  <2>8. CASE l \in Registrations
    <3>1. l \in Spoken /\ l \in Pars
      BY <2>0, <1>4, <2>8, ModemAssumption DEF Spoken, Lines
    <3>2. EventPar("NETWORK_RESPONSE", l) \in Closings => l \in Finals
      BY <2>1 DEF Closings, Refusals, Finals
    <3>3. Parsed(l) = <<>> \/ Parsed(l) = <<EventPar("NETWORK_RESPONSE", l)>>
      BY <2>8, ModemAssumption DEF Parsed
    <3> QED
      BY <2>2, <3>1, <3>2, <3>3
  <2> QED
    BY <1>4, <2>3, <2>4, <2>5, <2>6, <2>7, <2>8 DEF Lines
<1>6. ASSUME Parsed(l) = <<>> PROVE Gains("gsm", {})
  <2>0. queue["gsm"] \o <<>> = queue["gsm"]
    BY <1>0
  <2>1. queue'["gsm"] = queue["gsm"]
    BY <1>3, <1>6, <2>0
  <2> QED
    BY <1>0, <1>1, <2>1, Gaining
<1>7. ASSUME NEW e \in Events, Parsed(l) = <<e>> PROVE Gains("gsm", {e})
  <2>1. queue["gsm"] \o <<e>> = Append(queue["gsm"], e)
    BY <1>0
  <2>2. queue'["gsm"] = Append(queue["gsm"], e)
    BY <1>3, <1>7, <2>1
  <2> QED
    BY <1>0, <1>1, <2>2, Gaining
<1> HIDE DEF l
<1>8. CASE Parsed(l) = <<>>
  BY <1>1, <1>3, <1>4, <1>6, <1>8
<1>9. ASSUME NEW e, Finds(e), Parsed(l) = <<e>>
      PROVE  \E E \in SUBSET Events :
              /\ Gains("gsm", E)
              /\ E \cap Of(Requests \cup {"TIMEOUT", "BUFFER_FULL"}) = {}
              /\ E \cap Heard # {} => Head(rx) \in Spoken
              /\ E \cap Closings # {} => Head(rx) \in Finals
  <2>1. {e} \in SUBSET Events /\ Gains("gsm", {e})
    BY <1>7, <1>9
  <2> QED
    BY <1>9, <2>1 DEF l
<1> QED
  BY <1>1, <1>3, <1>4, <1>5, <1>8, <1>9

LEMMA ParserJourney ==
  ASSUME TypeOK, Handed, Journey, GsmHandler, Parsing
  PROVE  Journey' /\ (NoLine => NoLine') /\ (Nothing => Nothing')
<1>0. /\ KernelType /\ "gsm" \in Objects /\ Parses /\ Parses' /\ gsm' = gsm /\ current' # Idle
      /\ rx \in Seq(Lines) /\ avail \in 0 .. Len(rx) /\ avail > 0
  <2>1. Parses /\ current' = current /\ gsm' = gsm
    BY ParserGains, LineHeard DEF Parses, gsmVars
  <2> QED
    BY <2>1, TwoQueues DEF TypeOK, LinkType, Parses, InHand, Parsing, Idle
<1>1. /\ UNCHANGED <<tx, pending, answer, Heard, Spoken, Finals, Closings>>
      /\ rx # <<>> /\ rx' = Tail(rx) /\ avail' = avail - 1
  BY <1>0, LineHeard DEF Heard, Spoken, Finals, Closings, Refusals
<1>2. PICK E \in SUBSET Events :
        /\ Gains("gsm", E)
        /\ E \cap Heard # {} => Head(rx) \in Spoken
        /\ E \cap Closings # {} => Head(rx) \in Finals
  BY LineHeard
<1>3. /\ 1 \in DOMAIN rx /\ rx[1] = Head(rx)
      /\ \A i \in DOMAIN rx' : i + 1 \in DOMAIN rx /\ rx'[i] = rx[i + 1]
      /\ \A F : Has(rx, F) <=> Head(rx) \in F \/ Has(rx', F)
      /\ \A F, H : Before(rx, F, H) <=> (Head(rx) \in F /\ Has(rx', H)) \/ Before(rx', F, H)
  BY <1>0, <1>1, FromHead
<1>4. /\ Has(ToGsm', Heard) => Has(ToGsm, Heard) \/ Head(rx) \in Spoken
      /\ Has(ToGsm', Closings) => Has(ToGsm, Closings) \/ Head(rx) \in Finals
      /\ Before(ToGsm', Closings, Heard) =>
           Before(ToGsm, Closings, Heard) \/ (Has(ToGsm, Closings) /\ Head(rx) \in Spoken)
  <2>1. Left("gsm") = ToGsm
    BY <1>0, <1>1, LineHeard DEF Left, ToGsm
  <2> QED
    BY <1>0, <1>2, <2>1, Gained DEF ToGsm
<1>5. (Announced => Announced') /\ (Unannounced => Unannounced')
  <2>1. \A i \in DOMAIN rx' : i \in Nat /\ (i + 1 <= avail <=> i <= avail')
    BY <1>0, <1>1, FromHead, LenProperties
  <2> QED
    BY <1>1, <1>3, <2>1 DEF Announced, Unannounced
<1>6. Head(rx) \in Spoken => ~Unannounced
  BY <1>0, <1>3 DEF Unannounced
<1>7. NoLine => NoLine'
  BY <1>1, <1>3 DEF NoLine, Whole
<1>8. Nothing => Nothing'
  BY <1>1, <1>3, <1>4, <1>7 DEF Nothing, NoLine
<1>9. Journey'
  <2>1. TxLast' /\ PendingLast' /\ AnswerLast'
    BY <1>1 DEF Journey, TxLast, PendingLast, AnswerLast, Whole
  <2>2. RxLast'
    BY <1>1, <1>3, <1>5 DEF Journey, RxLast
  <2>3. (Has(ToGsm, Heard) => tx = <<>> /\ pending = <<>> /\ answer = <<>>)'
    BY <1>1, <1>3, <1>4 DEF Journey, RxLast, RepliesLast
  <2>4. (Has(ToGsm, Heard) => ~Has(rx, Spoken) \/ (Parses /\ Announced))'
    BY <1>0, <1>1, <1>3, <1>4, <1>5, <1>6 DEF Journey, RxLast, RepliesLast
  <2>5. (Has(ToGsm, Closings) => ~Has(rx, Spoken))'
    BY <1>1, <1>3, <1>4 DEF Journey, RxLast, RepliesLast
  <2>6. (~Before(ToGsm, Closings, Heard))'
    BY <1>1, <1>3, <1>4 DEF Journey, RepliesLast
  <2> QED
    BY <2>1, <2>2, <2>3, <2>4, <2>5, <2>6 DEF Journey, RepliesLast
<1> QED
  BY <1>7, <1>8, <1>9

-----------------------------------------------------------------------------
(* Where the GSM object stands: what is on its way in each of its states.  *)

(* Nothing until AT is sent.                                               *)
BringUp == gsm \in {"systemsetup", "opencom", "powering_on"} => Nothing

(* In active_idle no answer is behind a request; an application that has   *)
(* not been told of its network makes none any more.                       *)
Stuck == app = "init" /\ ~InGsm(Requests) /\ ~InApp({"INIT_DONE", "NETWORK_CONNECTED"})
IdleFree == gsm = "active_idle" => Stuck \/ (NoLine /\ ~Before(ToGsm, Of(Requests), Heard))

(* A response of the clock ends its operation when the buffer is garbled,  *)
(* the OK behind it still to come: then no request is between the two.     *)
LateReply ==
  /\ Parses => ~GsmRow(Data, {"CLOCK_RESPONSE"}, Requests)
  /\ ~Three(ToGsm, Of({"CLOCK_RESPONSE"}), Of(Requests), Heard)

(* The rest of a text is sent before the modem has anything to say.        *)
TextParts ==
  /\ (gsm = "sms_send_support" /\ flash # "0") \/ InGsm({"BUFFER_FULL"}) => Nothing
  /\ InGsm({"BUFFER_FULL"}) => gsm = "sms_send"
  /\ ~GsmAhead({"BUFFER_FULL"}, {"BUFFER_FULL"})

(* The time-outs that are not counted: the power key is held; the network  *)
(* is still searched for, and nothing is behind the TIMEOUT then.          *)
NoLateTimeout == ~Has(ToGsm, LateTimeouts)
FirstResponse ==
  gsm \in InactiveStates \/ InApp({"INIT_DONE"}) \/ InGsm({"NETWORK_READ"}) => response = "0"
Searching ==
  gsm = "network_status" =>
    /\ tries \in {0, 1}
    /\ timer["gsm"] # "off" /\ tries > 0 /\ response = "CREG_SEARCHING" => NoLine
    /\ Has(ToGsm, Timeouts) /\ tries > 0 => NoLine /\ ~Before(ToGsm, Timeouts, Heard)

ReplyInv ==
  /\ Journey /\ NoParts /\ BringUp /\ IdleFree /\ LateReply /\ TextParts
  /\ NoLateTimeout /\ FirstResponse /\ Searching

(* A step that is not a handler of the GSM object: what it posts to it,    *)
(* and what it leaves alone.  It leaves a command where it is, moves it on *)
(* or turns it into its answer.                                            *)
LEMMA RepliesElsewhere ==
  ASSUME KernelType, Handed, ParserInv, ReplyInv, UNCHANGED gsmVars,
         Journey', NoParts', NoLine => NoLine', Nothing => Nothing', Stuck => Stuck',
         NEW E \in SUBSET Events, Gains("gsm", E),
         E \cap Of({"BUFFER_FULL"}) = {}, E \cap LateTimeouts = {},
         E \cap Heard # {} => Has(rx, Spoken) /\ Parses,
         Parses' => E \cap Of(Requests) = {},
         InApp({"INIT_DONE"})' => InApp({"INIT_DONE"}),
         InGsm({"NETWORK_READ"})' => InGsm({"NETWORK_READ"}) \/ InApp({"INIT_DONE"}),
         timer'["gsm"] \in {"off", timer["gsm"]},
         E \cap Timeouts # {} =>
           /\ timer["gsm"] # "off" /\ ~Has(ToGsm, Timeouts)
           /\ gsm = "network_status" => response = "CREG_SEARCHING"
  PROVE  ReplyInv'
<1>0. /\ "gsm" \in Objects
      /\ UNCHANGED <<gsm, response, tries, flash, Heard>>
  BY TwoQueues DEF gsmVars, controlVars, Heard, Refusals
<1>1. /\ \A F : Has(ToGsm', F) => Has(ToGsm, F) \/ E \cap F # {}
      /\ \A F, G : Before(ToGsm', F, G) => Before(ToGsm, F, G) \/ (Has(ToGsm, F) /\ E \cap G # {})
      /\ \A F, G, H : Three(ToGsm', F, G, H) =>
           Three(ToGsm, F, G, H) \/ (Before(ToGsm, F, G) /\ E \cap H # {})
  BY <1>0, Gained DEF ToGsm
<1>2. E \cap Heard # {} => ~NoLine
  BY DEF NoLine
<1>3. BringUp' /\ FirstResponse' /\ NoLateTimeout'
  BY <1>0, <1>1 DEF ReplyInv, BringUp, FirstResponse, NoLateTimeout
<1>4. IdleFree'
  BY <1>0, <1>1, <1>2 DEF ReplyInv, IdleFree
<1>5. LateReply'
  <2>1. ~GsmRow(Data, {"CLOCK_RESPONSE"}, Requests)
    <3>1. CASE Parses
      BY <3>1 DEF ReplyInv, LateReply
    <3>2. CASE ~Parses
      <4>1. ~GsmAhead(Data, {"ACK", "CLOCK_RESPONSE"})
        BY <3>2 DEF ParserInv
      <4>2. ~GsmAhead(Data, {"CLOCK_RESPONSE"})
        BY <4>1, Smaller
      <4> QED
        BY <4>2, InOrder
    <3> QED
      BY <3>1, <3>2
  <2>2. ASSUME Parses' PROVE ~GsmRow(Data, {"CLOCK_RESPONSE"}, Requests)'
    BY <1>1, <2>1, <2>2 DEF GsmRow
  <2>3. Before(ToGsm, Of({"CLOCK_RESPONSE"}), Of(Requests)) => ~Parses
    <3> SUFFICES ASSUME Parses, GsmAhead({"CLOCK_RESPONSE"}, Requests) PROVE FALSE
      BY DEF GsmAhead
    <3>1. current.ao = "gsm" /\ current.sig \in Data /\ current.sig \notin {"CLOCK_RESPONSE"}
      BY DEF Parses, InHand, Data
    <3>2. GsmRow(Data, {"CLOCK_RESPONSE"}, Requests)
      BY <1>0, <3>1, FirstInHand DEF GsmRow, GsmAhead, ToGsm
    <3> QED
      BY <2>1, <3>2
  <2>4. ~Three(ToGsm', Of({"CLOCK_RESPONSE"}), Of(Requests), Heard')
    BY <1>0, <1>1, <2>3 DEF ReplyInv, LateReply
  <2> QED
    BY <2>2, <2>4 DEF LateReply
<1>6. TextParts'
  BY <1>0, <1>1 DEF ReplyInv, TextParts, InGsm, GsmAhead
<1>7. Searching'
  <2> SUFFICES ASSUME gsm = "network_status", tries > 0
               PROVE  /\ timer'["gsm"] # "off" /\ response = "CREG_SEARCHING" => NoLine'
                      /\ Has(ToGsm', Timeouts) => NoLine' /\ ~Before(ToGsm', Timeouts, Heard)
    BY <1>0 DEF ReplyInv, Searching, Timeouts, Of
  <2>1. timer'["gsm"] # "off" /\ response = "CREG_SEARCHING" => NoLine'
    BY DEF ReplyInv, Searching
  <2>2. ASSUME Has(ToGsm, Timeouts) PROVE NoLine' /\ ~Before(ToGsm', Timeouts, Heard)
    BY <1>1, <1>2, <2>2 DEF ReplyInv, Searching
  <2>3. ASSUME E \cap Timeouts # {} PROVE NoLine' /\ ~Before(ToGsm', Timeouts, Heard)
    <3>1. NoLine /\ ~Has(ToGsm, Timeouts)
      BY <2>3 DEF ReplyInv, Searching
    <3>2. ~Before(ToGsm, Timeouts, Heard)
      BY <3>1 DEF Has, Before
    <3> QED
      BY <1>1, <3>1, <3>2
  <2> QED
    BY <1>1, <2>1, <2>2, <2>3
<1> QED
  BY <1>3, <1>4, <1>5, <1>6, <1>7 DEF ReplyInv

(* The scheduler, the parser, the application.                             *)
LEMMA RepliesByScheduler ==
  ASSUME TypeOK, Handed, ParserInv, ReplyInv, Schedule
  PROVE  ReplyInv'
<1>0. /\ KernelType /\ "gsm" \in Objects /\ "app" \in Objects
      /\ UNCHANGED <<linkVars, gsmVars, app, timer>> /\ current = Idle /\ ~Parses
      /\ \A a \in Objects : Inbox(a)' = Inbox(a)
  <2>1. PICK b \in Objects : Dispatch(b)
    BY DEF Schedule
  <2>2. KernelType
    BY DEF TypeOK
  <2> QED
    BY <2>1, <2>2, DispatchMoves, TwoQueues DEF Schedule, Dispatch, Parses, InHand, Idle, appVars
<1>1. Gains("gsm", {}) /\ ToGsm' = ToGsm /\ ToApp' = ToApp
  <2>1. Left("gsm") = Inbox("gsm")
    BY <1>0, ConfigurationOfMain DEF Left, Idle, ObjectsOfMain, Inbox
  <2> QED
    BY <1>0, <2>1 DEF Gains, ToGsm, ToApp
<1>2. /\ UNCHANGED <<tx, pending, answer, rx, avail, gsm>>
      /\ {} \in SUBSET Events /\ Refusals' = Refusals
  BY <1>0 DEF linkVars, gsmVars, Refusals
<1>3. (Journey => Journey') /\ (NoLine => NoLine') /\ (Nothing => Nothing')
  BY <1>0, <1>1, <1>2, Resting
<1>4. /\ NoParts' /\ (Stuck => Stuck')
      /\ InApp({"INIT_DONE"})' = InApp({"INIT_DONE"}) /\ InGsm({"NETWORK_READ"})' = InGsm({"NETWORK_READ"})
  BY <1>0, <1>1, <1>2 DEF ReplyInv, NoParts, Stuck, InApp, InGsm
<1> QED
  BY <1>0, <1>1, <1>2, <1>3, <1>4, RepliesElsewhere DEF ReplyInv

LEMMA RepliesByParser ==
  ASSUME TypeOK, Handed, ParserInv, ReplyInv, GsmStep, Parsing
  PROVE  ReplyInv'
<1>0. /\ KernelType /\ GsmHandler /\ UNCHANGED <<gsmVars, appVars, current>>
      /\ UNCHANGED <<tx, pending>> /\ timer'["gsm"] \in {"off", timer["gsm"]}
      /\ queue'["app"] = queue["app"] /\ Parses
  BY LineHeard, ParserGains DEF TypeOK, GsmStep, Parses
<1>1. PICK E \in SUBSET Events :
        /\ Gains("gsm", E)
        /\ E \cap Of(Requests \cup {"TIMEOUT", "BUFFER_FULL"}) = {}
        /\ E \cap Heard # {} => Head(rx) \in Spoken
  BY <1>0, LineHeard
<1>2. Head(rx) \in Spoken => Has(rx, Spoken)
  <2>1. rx \in Seq(Lines) /\ rx # <<>>
    BY <1>0, LineHeard DEF TypeOK, LinkType
  <2> QED
    BY <2>1, FromHead
<1>3. E \cap Of(Requests) = {} /\ E \cap Of({"BUFFER_FULL"}) = {} /\ E \cap Timeouts = {}
      /\ E \cap LateTimeouts = {}
  BY <1>1 DEF Of, Timeouts, LateTimeouts
<1>4. Journey' /\ (NoLine => NoLine') /\ (Nothing => Nothing') /\ NoParts'
  BY <1>0, ParserJourney DEF ReplyInv, NoParts, gsmVars
<1>5. ToApp' = ToApp /\ app' = app
  BY <1>0 DEF ToApp, Inbox, appVars
<1>6. InGsm({"NETWORK_READ"})' => InGsm({"NETWORK_READ"})
  <2>1. E \cap Of({"NETWORK_READ"}) = {}
    BY <1>3, RequestsAre DEF Of
  <2> QED
    BY <1>0, <1>1, <2>1, Gained, TwoQueues DEF InGsm, ToGsm
<1>7. InGsm(Requests)' => InGsm(Requests)
  BY <1>0, <1>1, <1>3, Gained, TwoQueues DEF InGsm, ToGsm
<1>8. Stuck => Stuck'
  BY <1>5, <1>7 DEF Stuck, InApp
<1>9. InApp({"INIT_DONE"})' => InApp({"INIT_DONE"})
  BY <1>5 DEF InApp
<1> QED
  BY <1>0, <1>1, <1>2, <1>3, <1>4, <1>6, <1>8, <1>9, RepliesElsewhere

LEMMA RepliesByApp ==
  ASSUME TypeOK, Handed, ParserInv, ReplyInv, AppStep
  PROVE  ReplyInv'
<1>0. /\ KernelType /\ app \in AppStates /\ "gsm" \in Objects
      /\ current.ao = "app" /\ current' = Idle /\ ~Parses /\ ~Parses' /\ AppDoes
      /\ UNCHANGED <<tx, pending, answer, rx, avail, gsm, gsmVars, Refusals>>
  <2>1. current.ao = "app" /\ current' = Idle /\ AppDoes
    BY AppDoing DEF AppStep
  <2> QED
    BY <2>1, TwoQueues
    DEF TypeOK, AppType, AppStep, linkVars, gsmVars, Parses, InHand, Idle, Refusals
<1>1. PICK R, S, T : Posts(R, S, T) /\ AppMove(R, S, T)
  BY <1>0 DEF AppDoes
<1>2. /\ R \subseteq Requests \cup {"GSM_INIT"} /\ S \subseteq ToItself
      /\ Gains("gsm", Of(R)) /\ Of(R) \in SUBSET Events
  BY <1>1, AppGives DEF Posts, Of
<1>3. /\ Of(R) \cap Heard = {} /\ Of(R) \cap Of({"BUFFER_FULL"}) = {}
      /\ Of(R) \cap Timeouts = {} /\ Of(R) \cap LateTimeouts = {}
  <2>1. R \cap {"ACK", "ERROR", "SMS_RESPONSE", "NETWORK_RESPONSE", "CLOCK_RESPONSE"} = {}
        /\ R \cap {"BUFFER_FULL"} = {} /\ R \cap {"TIMEOUT"} = {}
    BY <1>2, RequestsAre
  <2>2. Of(R) \cap Heard = {}
    BY <2>1, HeardAre
  <2>3. Of(R) \cap Of({"BUFFER_FULL"}) = {} /\ Of(R) \cap Timeouts = {}
    BY <2>1 DEF Of, Timeouts
  <2> QED
    BY <2>2, <2>3 DEF LateTimeouts
<1>4. Journey' /\ (NoLine => NoLine') /\ (Nothing => Nothing')
  BY <1>0, <1>2, <1>3, Resting DEF ReplyInv
<1>5. NoParts'
  BY <1>0 DEF ReplyInv, NoParts
<1>6. /\ \A X : InGsm(X)' => InGsm(X) \/ \E sig \in R : sig \in X
      /\ \A X : InApp(X)' => InApp(X) \/ \E sig \in S : sig \in X
      /\ \A X : current.sig \in X => InApp(X)
  BY <1>0, <1>1, GsmOrder, AppOrder
<1>7. "NETWORK_READ" \in R => current.sig = "INIT_DONE"
  BY <1>1, RequestsAre
  DEF AppMove, AppRemains, AppIdles, AppConnects, AppRecieves, AppFinds, AppActs, AppPulses,
      AppOpens, AppSets, AppReads, AppMeasures, AppBroadcasts, AppGoesOn, AppLeaves
<1>8. /\ InGsm({"NETWORK_READ"})' => InGsm({"NETWORK_READ"}) \/ InApp({"INIT_DONE"})
      /\ InApp({"INIT_DONE"})' => InApp({"INIT_DONE"})
  BY <1>2, <1>6, <1>7 DEF ToItself
<1>9. Stuck => Stuck'
  <2> SUFFICES ASSUME Stuck PROVE Stuck'
    OBVIOUS
  <2>1. current.sig \notin {"INIT_DONE", "NETWORK_CONNECTED"}
    BY <1>6 DEF Stuck
  <2>2. app' = "init" /\ R \cap Requests = {}
    BY <1>0, <1>1, <2>1, AppAsksFor DEF Stuck
  <2> QED
    BY <1>2, <1>6, <2>2 DEF Stuck, ToItself
<1>10. timer'["gsm"] = timer["gsm"]
  <2>1. AppReturns
    BY <1>0, AppHandlerReturns DEF AppStep, TypeOK
  <2> QED
    BY <1>0, <2>1, AppUndisturbing DEF GsmUndisturbed
<1> QED
  BY <1>0, <1>2, <1>3, <1>4, <1>5, <1>8, <1>9, <1>10, RepliesElsewhere

(* The serial interrupts and the modem, the timers, the drivers.           *)
LEMMA RepliesByOthers ==
  ASSUME TypeOK, Handed, TimerInv, ParserInv, ReplyInv, Burst, OtherStep, timeouts' = timeouts
  PROVE  ReplyInv'
<1>0. KernelType /\ LinkType /\ "gsm" \in Objects /\ UNCHANGED <<gsmVars, gsm, Refusals>>
  <2>1. UNCHANGED <<gsmVars, gsm>>
    BY DEF OtherStep, Drivers, Link, GsmTick, AppTick, vars, ComOpen, EmonStart, EmonDone, gsmVars
  <2> QED
    BY <2>1, TwoQueues DEF TypeOK, Refusals
<1>1. /\ UNCHANGED app /\ current' \in {current, Idle} /\ OthersStep
      /\ current' # current => current.ao \in {"com", "emon"}
  BY OtherDoing DEF OthersStep
<1>2. /\ InApp({"INIT_DONE"})' => InApp({"INIT_DONE"})
      /\ InGsm({"NETWORK_READ"})' => InGsm({"NETWORK_READ"})
      /\ Stuck => Stuck'
  <2>1. /\ {"NETWORK_READ"} \subseteq Requests
        /\ {"INIT_DONE"} \cap FromDrivers = {} /\ {"INIT_DONE", "NETWORK_CONNECTED"} \cap FromDrivers = {}
    BY RequestsAre DEF FromDrivers
  <2> QED
    BY <1>0, <1>1, <2>1, NothingAsked DEF Stuck
<1> DEFINE Harmless(E) ==
             /\ E \in SUBSET Events /\ Gains("gsm", E)
             /\ E \cap Heard = {} /\ E \cap Of({"BUFFER_FULL"}) = {}
             /\ E \cap LateTimeouts = {} /\ E \cap Of(Requests) = {}
             /\ E \cap Timeouts # {} =>
                  /\ timer["gsm"] # "off" /\ ~Has(ToGsm, Timeouts)
                  /\ gsm = "network_status" => response = "CREG_SEARCHING"
<1>3. ASSUME NEW E, Harmless(E), timer'["gsm"] \in {"off", timer["gsm"]},
             Journey', NoParts', NoLine => NoLine', Nothing => Nothing'
      PROVE  ReplyInv'
  BY <1>0, <1>2, <1>3, RepliesElsewhere
<1>4. Parses' = Parses
  BY <1>1 DEF Parses, InHand, Idle
<1>5. \A X : X \cap {"ACK", "ERROR", "SMS_RESPONSE", "NETWORK_RESPONSE", "CLOCK_RESPONSE",
                     "BUFFER_FULL", "TIMEOUT"} = {} /\ X \cap Requests = {} /\ Gains("gsm", Of(X))
        => Harmless(Of(X))
  <2> SUFFICES ASSUME NEW X, X \cap Requests = {}, Gains("gsm", Of(X)),
                      X \cap {"ACK", "ERROR", "SMS_RESPONSE", "NETWORK_RESPONSE", "CLOCK_RESPONSE",
                              "BUFFER_FULL", "TIMEOUT"} = {}
               PROVE  Harmless(Of(X))
    OBVIOUS
  <2>1. Of(X) \cap Heard = {}
    BY HeardAre
  <2>2. Of(X) \cap Of({"BUFFER_FULL"}) = {} /\ Of(X) \cap Of(Requests) = {} /\ Of(X) \cap Timeouts = {}
        /\ Of(X) \cap LateTimeouts = {} /\ Of(X) \in SUBSET Events
    BY DEF Of, Timeouts, LateTimeouts
  <2> QED
    BY <2>1, <2>2
<1>6. CASE TxDone /\ Link
  <2>1. Journey' /\ NoParts' /\ (NoLine => NoLine') /\ (Nothing => Nothing') /\ timer' = timer
    BY <1>0, <1>6, CommandsSent DEF ReplyInv, TxDone, PostedTo
  <2>2. Gains("gsm", Of({"SEND_DONE"}))
    <3>1. queue' = Post(queue, "gsm", EventPar("SEND_DONE", "0"))
      BY <1>6 DEF TxDone, PostedTo, Event
    <3> QED
      BY <1>0, <1>1, <3>1, Keyless, Posting DEF Posts, Pars
  <2>3. Harmless(Of({"SEND_DONE"}))
    BY <1>5, <2>2, RequestsAre
  <2> QED
    BY <1>3, <2>1, <2>3
<1>7. CASE RxTimeout /\ Link
  <2>1. /\ UNCHANGED <<tx, pending, answer, timer>> /\ rx' = rx /\ avail' = Len(rx) /\ ~Parses
        /\ rx \in Seq(Lines) /\ queue' = Post(queue, "gsm", EventPar("DATA_AVAILABLE", "0"))
    BY <1>0, <1>7 DEF RxTimeout, PostedTo, Parses, InHand, Idle, LinkType, Event
  <2>2. Gains("gsm", Of({"DATA_AVAILABLE"}))
    BY <1>0, <1>1, <2>1, Keyless, Posting DEF Posts, Pars
  <2>3. Harmless(Of({"DATA_AVAILABLE"}))
    BY <1>5, <2>2, RequestsAre
  <2>4. Journey' /\ (NoLine => NoLine') /\ (Nothing => Nothing') /\ NoParts'
    BY <1>0, <2>1, <2>3, Resting DEF ReplyInv, NoParts
  <2> QED
    BY <1>3, <2>1, <2>3, <2>4
<1>8. CASE (ModemAnswers \/ ModemSends \/ MessageArrives) /\ Link
  <2>1. Journey' /\ NoParts' /\ (NoLine => NoLine') /\ (Nothing => Nothing')
    BY <1>0, <1>8, ModemAnswering, ModemSending, NewsComing DEF ReplyInv
  <2>2. UNCHANGED <<queue, timer, current>>
    BY <1>8 DEF ModemAnswers, ModemSends, MessageArrives, kernelVars
  <2>3. Gains("gsm", Of({}))
    BY <1>0, <1>1, <2>2, Posting DEF Posts
  <2>4. Harmless(Of({}))
    BY <1>5, <2>3
  <2> QED
    BY <1>3, <2>1, <2>2, <2>4
<1>9. CASE GsmTick
  <2>1. /\ Waits /\ timer["gsm"] # "off" /\ ~Pending("gsm", "TIMEOUT")
        /\ queue' = Post(queue, "gsm", EventPar("TIMEOUT", timer["gsm"])) /\ current' = current
        /\ timer' = Disarm(timer, "gsm")
        /\ UNCHANGED <<tx, pending, answer, rx, avail>>
    BY <1>9 DEF GsmTick, Expire, linkVars, TypeOK
  <2>2. timer'["gsm"] = "off"
    BY <1>0, <2>1 DEF Disarm, KernelType, Timers
  <2> DEFINE e == EventPar("TIMEOUT", timer["gsm"])
  <2>3. /\ timer["gsm"] \in Unsent
        /\ gsm = "network_status" => response = "CREG_SEARCHING"
    BY <2>1 DEF TimerInv, TimerOwned, Waits, Unsent
  <2>4. e \in Events /\ e \in Timeouts /\ e \notin LateTimeouts
    <3>1. e \in Events
      BY <1>0, <2>1, Keyless DEF KernelType, Timers, Pars, Events, EventPar
    <3> QED
      BY <2>3, <3>1 DEF Timeouts, LateTimeouts, Of, EventPar
  <2>5. Gains("gsm", {e})
    BY <1>0, <2>1, <2>4, Gaining DEF Post, KernelType, Queues
  <2>6. ~Has(ToGsm, Timeouts)
    <3>1. ~Has(queue["gsm"], Timeouts)
      BY <2>1 DEF Pending, Waiting, Has, Timeouts, Of
    <3>2. current.ao = "gsm" => Handled \notin Of({"TIMEOUT"})
      BY <1>0, <2>1, InHandFirst DEF Pending
    <3> QED
      BY <1>0, <3>1, <3>2, InHandFirst, Inboxes DEF ToGsm, Timeouts
  <2>7. Harmless({e})
    <3>1. \A X : "TIMEOUT" \notin X => e \notin Of(X)
      BY DEF Of, EventPar
    <3>2. e \notin Heard
      BY HeardAre DEF EventPar
    <3> QED
      BY <2>1, <2>3, <2>4, <2>5, <2>6, <3>1, <3>2, RequestsAre
  <2> HIDE DEF e
  <2>8. Journey' /\ (NoLine => NoLine') /\ (Nothing => Nothing') /\ NoParts'
    BY <1>0, <1>4, <2>1, <2>7, Resting DEF ReplyInv, NoParts
  <2> QED
    BY <1>3, <2>2, <2>7, <2>8
<1>10. CASE AppTick \/ ComOpen \/ EmonStart \/ EmonDone \/ UNCHANGED vars
  <2>1. UNCHANGED <<tx, pending, answer, rx, avail>>
    BY <1>10 DEF AppTick, ComOpen, EmonStart, EmonDone, vars, linkVars
  <2>2. Gains("gsm", Of({"OPEN_DONE"})) /\ timer'["gsm"] = timer["gsm"]
    <3>1. CASE AppTick
      <4>1. /\ queue' = Post(queue, "app", EventPar("TIMEOUT", timer["app"]))
            /\ timer' = Disarm(timer, "app") /\ timer["app"] # "off"
        BY <3>1 DEF AppTick, Expire
      <4>2. "gsm" # "app" /\ "app" \in Objects
        BY TwoQueues, <1>0
      <4>3. timer'["gsm"] = timer["gsm"] /\ timer["app"] \in Pars
        BY <1>0, <4>1, <4>2 DEF Disarm, KernelType, Timers, Pars
      <4>4. Posts({"OPEN_DONE"}, {"TIMEOUT"}, {})
        BY <1>0, <1>1, <4>1, <4>3, Keyless, Posting
      <4> QED
        BY <4>3, <4>4 DEF Posts
    <3>2. CASE ComOpen
      <4>1. queue' = Post(queue, "gsm", EventPar("OPEN_DONE", "0")) /\ timer' = timer
        BY <3>2 DEF ComOpen, Return, Event
      <4> QED
        BY <1>0, <1>1, <4>1, Keyless, Posting DEF Posts, Pars
    <3>3. CASE EmonStart \/ UNCHANGED vars
      <4>1. queue' = queue /\ timer' = timer
        BY <3>3 DEF EmonStart, Ignore, Return, vars, kernelVars
      <4> QED
        BY <1>0, <1>1, <4>1, Posting DEF Posts
    <3>4. CASE EmonDone
      <4>1. timer' = timer /\ \E sig \in {"MEASUREMENT_DONE", "EMON_ERROR"} :
              queue' = Post(queue, "app", EventPar(sig, "0"))
        BY <3>4 DEF EmonDone, PostedTo, Event
      <4>2. Posts({"OPEN_DONE"}, {"MEASUREMENT_DONE", "EMON_ERROR"}, {})
        BY <1>0, <1>1, <4>1, Keyless, Posting DEF Pars
      <4> QED
        BY <4>1, <4>2 DEF Posts
    <3> QED
      BY <1>10, <3>1, <3>2, <3>3, <3>4
  <2>3. Harmless(Of({"OPEN_DONE"}))
    BY <1>5, <2>2, RequestsAre
  <2>4. Journey' /\ (NoLine => NoLine') /\ (Nothing => Nothing') /\ NoParts'
    BY <1>0, <1>4, <2>1, <2>3, Resting DEF ReplyInv, NoParts
  <2> QED
    BY <1>3, <2>2, <2>3, <2>4
<1>11. OtherStep =>
         \/ TxDone /\ Link
         \/ RxTimeout /\ Link
         \/ (ModemAnswers \/ ModemSends \/ MessageArrives) /\ Link
         \/ UNCHANGED vars \/ GsmTick \/ AppTick \/ ComOpen \/ EmonStart \/ EmonDone
  BY DEF OtherStep, Link, Drivers
<1> QED
  BY <1>6, <1>7, <1>8, <1>9, <1>10, <1>11

-----------------------------------------------------------------------------
(* What every handler of the GSM object does to the events on their way.   *)
LEMMA HandlerPosts ==
  ASSUME TypeOK, OrderInv, ReplyInv, GsmStep, ~Parsing
  PROVE  /\ KernelType /\ LinkType /\ Handed /\ GsmHandles
         /\ current.ao = "gsm" /\ current' = Idle /\ app' = app
         /\ \E R \in SUBSET {"BUFFER_FULL"} : Gains("gsm", Of(R))
         /\ queue'["gsm"] = queue["gsm"] => Gains("gsm", {})
         /\ Refusals' \subseteq Refusals
         /\ LateReply' /\ NoLateTimeout'
         /\ gsm \in OperationStates => ~InGsm({"NETWORK_READ"})
         /\ InGsm(Requests)' => InGsm(Requests)
         /\ InGsm({"NETWORK_READ"})' => InGsm({"NETWORK_READ"})
         /\ InApp({"INIT_DONE"})' => gsm = "device_config" /\ gsm' = "active_idle"
         /\ InApp({"INIT_DONE", "NETWORK_CONNECTED"})' =>
              gsm' = "active_idle" /\ (gsm = "device_config" \/ current.sig = "ACK")
         /\ InGsm({"BUFFER_FULL"}) => gsm = "sms_send" /\ Nothing
<1>0. /\ KernelType /\ LinkType /\ Handed /\ RequestInv /\ AppTurn /\ "gsm" \in Objects
      /\ app \in AppStates
  BY TwoQueues DEF TypeOK, OrderInv, RequestInv, AppType
<1>1. current.ao = "gsm" /\ current' = Idle /\ GsmDoes /\ app' = app
  BY GsmDoing DEF GsmStep, OrderInv, appVars
<1>2. GsmHandles
  <2>1. avail' = avail
    BY DEF GsmStep, GsmHandler, GsmInactive, StartAo, ComOpened, PowerKey, PoweredOn, RetryAt,
        NoModem, LinkUp, ConfigNext, ConfigDone, ConfigFails, Accept, IdleTells, ParseLine,
        ParseDone, GsmIgnores, GsmOperation, OperationTimesOut, NetworkRetry, NetworkTimesOut,
        NetworkResponse, NetworkReport, NetworkSearching, NetworkFallsThrough, SendText,
        BufferFull, SendRest, KeepResponse, ClockGarbled, ExtractTime, OperationDone,
        PresenceDone, GsmOnly, linkVars, Sends, Parsing, Handling
  <2> QED
    BY <1>1, <2>1 DEF GsmStep, GsmHandles
<1>3. PICK R : R \subseteq {"BUFFER_FULL"} /\ Gains("gsm", Of(R)) /\ Of(R) \in SUBSET Events
  BY <1>2, GsmGives DEF Posts, Of
<1>4. queue'["gsm"] = queue["gsm"] => Gains("gsm", {})
  BY <1>0, <1>1, Gaining
<1>5. gsm' \in InactiveStates => gsm \in InactiveStates
  BY <1>2, GsmBecomes
<1>6. Refusals' \subseteq Refusals
  BY <1>5 DEF Refusals
<1>7. /\ \A X : "BUFFER_FULL" \notin X => (InGsm(X)' => InGsm(X))
  BY <1>0, <1>2, GsmTurn
<1>8. LateReply'
  <2>1. ~Parses'
    BY <1>1 DEF Parses, InHand, Idle
  <2>2. Heard' \subseteq Heard
    BY <1>6 DEF Heard, Of
  <2>3. Of(R) \cap Heard = {}
    <3>1. R \cap {"ACK", "ERROR", "SMS_RESPONSE", "NETWORK_RESPONSE", "CLOCK_RESPONSE"} = {}
      BY <1>3
    <3> QED
      BY <3>1, HeardAre
  <2>4. Three(ToGsm', Of({"CLOCK_RESPONSE"}), Of(Requests), Heard) =>
          Three(ToGsm, Of({"CLOCK_RESPONSE"}), Of(Requests), Heard)
    BY <1>0, <1>3, <2>3, Gained DEF ToGsm
  <2>5. Three(ToGsm', Of({"CLOCK_RESPONSE"}), Of(Requests), Heard') =>
          Three(ToGsm', Of({"CLOCK_RESPONSE"}), Of(Requests), Heard)
    BY <2>2 DEF Three
  <2> QED
    BY <2>1, <2>4, <2>5 DEF ReplyInv, LateReply
<1>9. NoLateTimeout'
  <2>1. Of(R) \cap LateTimeouts = {}
    BY <1>3 DEF Of, LateTimeouts, Timeouts
  <2> QED
    BY <1>0, <1>3, <2>1, Gained DEF ToGsm, ReplyInv, NoLateTimeout
<1>10. ASSUME gsm \in OperationStates, InGsm({"NETWORK_READ"}) PROVE FALSE
  <2>1. "NETWORK_READ" \in Requests /\ app = "init"
    BY <1>0, <1>10, AllowedTo, RequestsAre DEF RequestInv, Belongs
  <2>2. \E r \in {"NETWORK_READ"} : Serves(r)
    BY <1>0, <1>10, <2>1, AllowedIs DEF RequestInv, Belongs
  <2>3. gsm = "network_status"
    BY <2>2 DEF Serves, Operation
  <2>4. InGsm({"NETWORK_READ"}) => InGsm(Requests)
    BY RequestsAre, Smaller
  <2> QED
    BY <1>0, <1>10, <2>3, <2>4 DEF RequestInv, LastRequest
<1>11. \A X : "TIMEOUT" \notin X /\ InApp(X)' => \E sig \in X : GsmAnswers(sig)
  BY <1>0, <1>2, GsmReplies
<1>12. /\ InApp({"INIT_DONE"})' => gsm = "device_config" /\ gsm' = "active_idle"
       /\ InApp({"INIT_DONE", "NETWORK_CONNECTED"})' =>
            gsm' = "active_idle" /\ (gsm = "device_config" \/ current.sig = "ACK")
  <2>1. GsmAnswers("INIT_DONE") => gsm = "device_config" /\ gsm' = "active_idle"
    BY OutcomesOf DEF GsmAnswers, Reports
  <2>2. GsmAnswers("NETWORK_CONNECTED") => gsm' = "active_idle" /\ current.sig = "ACK"
    BY DEF GsmAnswers, Reports
  <2> QED
    BY <1>11, <2>1, <2>2
<1>13. InGsm(Requests)' => InGsm(Requests)
  BY <1>7, RequestsAre
<1>14. InGsm({"NETWORK_READ"})' => InGsm({"NETWORK_READ"})
  BY <1>7
<1>15. InGsm({"BUFFER_FULL"}) => gsm = "sms_send" /\ Nothing
  BY DEF ReplyInv, TextParts
<1> QED
  BY <1>0, <1>1, <1>2, <1>3, <1>4, <1>6, <1>8, <1>9, <1>10, <1>12, <1>13, <1>14, <1>15

(* No new event: what is left.                                             *)
LEMMA NoneComes ==
  ASSUME KernelType, Handed, Gains("gsm", {})
  PROVE  /\ \A F : Has(ToGsm', F) => Has(Left("gsm"), F) /\ Has(ToGsm, F)
         /\ \A F, G : Before(ToGsm', F, G) => Before(Left("gsm"), F, G) /\ Before(ToGsm, F, G)
         /\ \A X : InGsm(X)' => InGsm(X)
         /\ \A X, Y : GsmAhead(X, Y)' => GsmAhead(X, Y)
         /\ current.ao = "gsm" => \A F : Handled \in F => Has(ToGsm, F)
         /\ current.ao = "gsm" /\ current' = Idle =>
              \A F, G : Handled \in F /\ Has(ToGsm', G) => Before(ToGsm, F, G)
<1>0. "gsm" \in Objects
  BY TwoQueues
<1>1. /\ \A F : Has(ToGsm', F) => Has(Left("gsm"), F) /\ Has(ToGsm, F)
      /\ \A F, G : Before(ToGsm', F, G) => Before(Left("gsm"), F, G) /\ Before(ToGsm, F, G)
  <2>1. {} \in SUBSET Events /\ \A F : {} \cap F = {}
    OBVIOUS
  <2> QED
    BY <1>0, <2>1, Gained DEF ToGsm
<1>2. current.ao = "gsm" => \A F : Handled \in F => Has(ToGsm, F)
  BY <1>0, InHandFirst DEF ToGsm
<1>3. current.ao = "gsm" /\ current' = Idle =>
         \A F, G : Handled \in F /\ Has(ToGsm', G) => Before(ToGsm, F, G)
  BY <1>0, <1>1, InHandFirst DEF ToGsm, Left
<1> QED
  BY <1>1, <1>2, <1>3 DEF InGsm, GsmAhead

LEMMA StatesAre ==
  /\ InactiveStates \cap OperationStates = {}
  /\ "active_idle" \notin InactiveStates \cup OperationStates
  /\ {"network_status", "sms_send", "sms_send_support", "time_get", "sms_extract_time", "sms_read",
      "sms_presence", "sms_delete", "time_set"} = OperationStates
BY OperationsAre DEF InactiveStates

(* Handlers that say nothing, and hear at most a response.                 *)
GsmKeeps ==
  /\ UNCHANGED <<tx, pending, answer, flash, tries>> /\ queue'["gsm"] = queue["gsm"]
  /\ rx' = <<>> \/ (UNCHANGED <<rx, avail>> /\ current.sig # "DATA_AVAILABLE")
  /\ gsm' = gsm \/ (gsm \in {"systemsetup", "opencom"} /\ gsm' \in {"opencom", "powering_on"})
  /\ \/ response' = response
     \/ gsm \in OperationStates /\ (gsm = "network_status" => current.sig = "NETWORK_RESPONSE")
  /\ timer'["gsm"] = timer["gsm"] \/ gsm = "powering_on"

LEMMA RepliesKept ==
  ASSUME TypeOK, OrderInv, ReplyInv, GsmStep, ~Parsing, GsmKeeps
  PROVE  ReplyInv'
<1>1. /\ KernelType /\ LinkType /\ Handed /\ current.ao = "gsm" /\ current' = Idle /\ app' = app
      /\ Gains("gsm", {}) /\ LateReply' /\ NoLateTimeout'
      /\ gsm \in OperationStates => ~InGsm({"NETWORK_READ"})
      /\ InGsm(Requests)' => InGsm(Requests)
      /\ InGsm({"NETWORK_READ"})' => InGsm({"NETWORK_READ"})
      /\ InApp({"INIT_DONE"})' => gsm = "device_config" /\ gsm' = "active_idle"
      /\ InApp({"INIT_DONE", "NETWORK_CONNECTED"})' =>
              gsm' = "active_idle" /\ (gsm = "device_config" \/ current.sig = "ACK")
      /\ InGsm({"BUFFER_FULL"}) => gsm = "sms_send" /\ Nothing
  BY HandlerPosts DEF GsmKeeps
<1>2. Refusals' = Refusals /\ Heard' = Heard
  <2>1. gsm' \in InactiveStates <=> gsm \in InactiveStates
    BY DEF GsmKeeps, InactiveStates
  <2> QED
    BY <2>1 DEF Refusals, Heard
<1>3. Journey' /\ (NoLine => NoLine') /\ (Nothing => Nothing')
  <2>1. rx' = rx /\ avail' = avail /\ current.sig # "DATA_AVAILABLE" => ~Parses
    BY DEF Parses, InHand
  <2> QED
    BY <1>1, <1>2, <2>1, Resting DEF GsmKeeps, ReplyInv
<1>4. /\ \A F : Has(ToGsm', F) => Has(ToGsm, F)
      /\ \A F, G : Before(ToGsm', F, G) => Before(ToGsm, F, G)
      /\ \A X : InGsm(X)' => InGsm(X)
      /\ \A X, Y : GsmAhead(X, Y)' => GsmAhead(X, Y)
      /\ \A F : Handled \in F => Has(ToGsm, F)
  BY <1>1, NoneComes
<1>5. NoParts' /\ BringUp'
  BY <1>3 DEF ReplyInv, NoParts, BringUp, GsmKeeps, InactiveStates
<1>6. ASSUME gsm' = "active_idle", ~(Stuck \/ (NoLine /\ ~Before(ToGsm, Of(Requests), Heard)))'
      PROVE  FALSE
  <2>1. gsm = "active_idle"
    BY <1>6 DEF GsmKeeps
  <2>2. current.sig # "ACK" \/ ~InApp({"INIT_DONE", "NETWORK_CONNECTED"})'
    <3> SUFFICES ASSUME InApp({"INIT_DONE", "NETWORK_CONNECTED"})' PROVE FALSE
      OBVIOUS
    <3>1. \A X : "TIMEOUT" \notin X /\ InApp(X)' => \E sig \in X : GsmAnswers(sig)
      BY <1>1, HandlerPosts, GsmReplies DEF OrderInv, RequestInv
    <3>2. ~GsmAnswers("INIT_DONE") /\ ~GsmAnswers("NETWORK_CONNECTED")
      BY <2>1, StatesAre DEF GsmAnswers, Reports
    <3> QED
      BY <3>1, <3>2
  <2>3. Stuck => Stuck'
    BY <1>1, <2>1, <2>2 DEF Stuck
  <2> QED
    BY <1>2, <1>3, <1>4, <1>6, <2>1, <2>3 DEF ReplyInv, IdleFree
<1>7. IdleFree'
  BY <1>6 DEF IdleFree
<1>8. TextParts'
  BY <1>1, <1>3, <1>4 DEF ReplyInv, TextParts, GsmKeeps
<1>9. FirstResponse'
  <2>1. gsm' \in InactiveStates => gsm \in InactiveStates
    BY DEF GsmKeeps, InactiveStates
  <2> QED
    BY <1>1, <2>1, StatesAre DEF ReplyInv, FirstResponse, GsmKeeps
<1>10. Searching'
  <2> SUFFICES ASSUME gsm = "network_status", tries \in {0, 1}, tries > 0
               PROVE  /\ timer'["gsm"] # "off" /\ response' = "CREG_SEARCHING" => NoLine'
                      /\ Has(ToGsm', Timeouts) => NoLine' /\ ~Before(ToGsm', Timeouts, Heard)
    BY <1>2 DEF ReplyInv, Searching, GsmKeeps, Timeouts, Of
  <2>1. Has(ToGsm', Timeouts) => NoLine' /\ ~Before(ToGsm', Timeouts, Heard)
    BY <1>3, <1>4 DEF ReplyInv, Searching
  <2>2. CASE response' = response
    BY <1>3, <2>1, <2>2 DEF ReplyInv, Searching, GsmKeeps
  <2>3. CASE current.sig = "NETWORK_RESPONSE"
    <3>1. Handled \in Heard /\ ~Parses
      BY <1>1, <2>3, InHandFirst, TwoQueues DEF Heard, Parses, InHand
    <3>2. Has(ToGsm, Heard)
      BY <1>4, <3>1
    <3>3. NoLine
      BY <3>1, <3>2, Few DEF ReplyInv, Journey, RepliesLast, NoLine
    <3> QED
      BY <1>3, <2>1, <3>3
  <2> QED
    BY <2>2, <2>3 DEF GsmKeeps
<1> QED
  BY <1>1, <1>3, <1>5, <1>7, <1>8, <1>9, <1>10 DEF ReplyInv

-----------------------------------------------------------------------------
(* Handlers that find nothing left of the last command: they end what it   *)
(* was for, or send the next.                                              *)
GsmResumes ==
  /\ Cleared /\ UNCHANGED <<pending, answer, rx, avail>>
  /\ tx' = tx \/ \E c \in Commands : tx' = Append(tx, c)
  /\ gsm' \in {"systemsetup", "opencom", "powering_on", "active_idle"} => tx' = tx
  /\ gsm' \in InactiveStates =>
       gsm \in InactiveStates /\ tx' \in {tx, Append(tx, "AT"), Append(tx, "INIT")}
  /\ ~InGsm({"BUFFER_FULL"}) /\ (gsm' = "sms_send_support" => flash' = "0")
  /\ InGsm({"BUFFER_FULL"})' => gsm' = "sms_send" /\ tx' = Append(tx, "PART")
  /\ gsm' = "network_status" =>
       /\ tries' \in {0, 1}
       /\ tx' = tx \/ tries' = 0 \/ (response' # "CREG_SEARCHING" /\ ~Has(ToGsm', Timeouts))
  /\ FirstResponse'

LEMMA RepliesResumed ==
  ASSUME TypeOK, OrderInv, ReplyInv, GsmStep, ~Parsing, GsmResumes
  PROVE  ReplyInv'
<1>1. /\ KernelType /\ LinkType /\ Handed /\ Refusals' \subseteq Refusals
      /\ LateReply' /\ NoLateTimeout' /\ "gsm" \in Objects
      /\ \E R \in SUBSET {"BUFFER_FULL"} : Gains("gsm", Of(R))
  BY HandlerPosts, TwoQueues
<1>2. PICK R \in SUBSET {"BUFFER_FULL"} : Gains("gsm", Of(R))
  BY <1>1
<1>3. Of(R) \in SUBSET Events /\ Of(R) \cap Heard = {}
  <2>1. R \cap {"ACK", "ERROR", "SMS_RESPONSE", "NETWORK_RESPONSE", "CLOCK_RESPONSE"} = {}
    OBVIOUS
  <2> QED
    BY <2>1, HeardAre DEF Of
<1>4. Journey' /\ (tx' = tx \/ tx' = Append(tx, "PART") => Nothing')
  BY <1>1, <1>2, <1>3, SentAfter DEF GsmResumes
<1>5. ~Has(ToGsm', Heard')
  <2>1. ~Has(ToGsm', Heard)
    BY <1>1, <1>2, <1>3, Gained DEF ToGsm, GsmResumes, Cleared
  <2> QED
    BY <1>1, <2>1 DEF Has, Heard, Of
<1>6. NoParts'
  <2>1. UNCHANGED pending /\ tx \in Seq(Commands) /\ {"AT", "INIT"} \subseteq Commands
    BY <1>1 DEF GsmResumes, LinkType, Commands
  <2>2. ASSUME NEW c \in {"AT", "INIT"}, tx' = Append(tx, c), ~Has(tx, {"PART"})
        PROVE  ~Has(tx', {"PART"})
    <3>1. <<c>> \in Seq(Commands) /\ tx' = tx \o <<c>>
      BY <2>1, <2>2, AppendIsConcat
    <3>2. ~Has(<<c>>, {"PART"})
      BY Few
    <3> QED
      BY <2>1, <2>2, <3>1, <3>2, Joined
  <2> QED
    BY <2>1, <2>2 DEF ReplyInv, NoParts, GsmResumes
<1>7. BringUp' /\ IdleFree'
  <2>1. gsm' \in {"systemsetup", "opencom", "powering_on", "active_idle"} => Nothing'
    BY <1>4 DEF GsmResumes
  <2>2. Nothing' => NoLine'
    BY DEF Nothing
  <2>3. ~Before(ToGsm', Of(Requests), Heard')
    BY <1>5 DEF Has, Before
  <2> QED
    BY <2>1, <2>2, <2>3 DEF BringUp, IdleFree
<1>8. TextParts'
  <2>1. ~GsmAhead({"BUFFER_FULL"}, {"BUFFER_FULL"})'
    BY <1>1, <1>2, <1>3, Gained DEF GsmAhead, InGsm, ToGsm, ReplyInv, TextParts, GsmResumes, Left, Has
  <2> QED
    BY <1>4, <2>1 DEF TextParts, GsmResumes
<1>9. Searching'
  <2>1. ~Before(ToGsm', Timeouts, Heard') /\ Timeouts' = Timeouts
    BY <1>5 DEF Has, Before, Timeouts, Of
  <2>2. tx' = tx => NoLine'
    BY <1>4 DEF Nothing
  <2>3. tries' = 0 => ~(tries' > 0)
    OBVIOUS
  <2> QED
    BY <2>1, <2>2, <2>3 DEF Searching, GsmResumes
<1> QED
  BY <1>1, <1>4, <1>6, <1>7, <1>8, <1>9 DEF ReplyInv, GsmResumes

LEMMA ToOthers ==
  ASSUME KernelType, NEW sig, NEW e
  PROVE  /\ Told(sig)["gsm"] = queue["gsm"]
         /\ Post(queue, "app", e)["gsm"] = queue["gsm"]
         /\ Post(queue, "com", e)["gsm"] = queue["gsm"]
BY ConfigurationOfMain DEF ObjectsOfMain, Told, Post, KernelType, Queues

(* The OK is heard, or the error of the bring-up: the operation ends, or   *)
(* waits for the network.                                                  *)
Ends ==
  ConfigDone \/ (ConfigFails /\ current.sig = "ERROR") \/ NetworkReport \/ NetworkSearching
    \/ NetworkFallsThrough \/ OperationDone \/ PresenceDone

LEMMA EndsResume ==
  ASSUME TypeOK, OrderInv, ReplyInv, GsmStep, ~Parsing, Ends
  PROVE  GsmResumes
<1>1. /\ KernelType /\ Handed /\ Journey /\ current.ao = "gsm" /\ current' = Idle /\ "gsm" \in Objects
      /\ queue'["gsm"] = queue["gsm"] => Gains("gsm", {})
      /\ InGsm({"NETWORK_READ"})' => InGsm({"NETWORK_READ"})
      /\ InApp({"INIT_DONE"})' => gsm = "device_config"
      /\ InGsm({"BUFFER_FULL"}) => Nothing
  BY HandlerPosts, TwoQueues DEF ReplyInv
<1>2. /\ UNCHANGED <<tx, pending, answer, rx, avail, response>>
      /\ gsm' = "active_idle" \/ (gsm = "device_config" /\ gsm' = "powering_on")
         \/ (gsm = "network_status" /\ gsm' = gsm /\ tries' \in {0, 1})
      /\ current.sig = "ACK" \/ (current.sig = "ERROR" /\ gsm = "device_config")
  BY DEF Ends, ConfigDone, ConfigFails, NetworkReport, NetworkSearching, NetworkFallsThrough,
         OperationDone, PresenceDone, BackToIdle, GsmOnly, linkVars, controlVars, Handling, Return
<1>3. queue'["gsm"] = queue["gsm"]
  BY <1>1, ToOthers
  DEF Ends, ConfigDone, ConfigFails, NetworkReport, NetworkSearching, NetworkFallsThrough,
      OperationDone, PresenceDone, BackToIdle, Return
<1>4. Handled \in Heard /\ Handled \in Closings
  <2>1. current.sig \in {"ACK"} \cup Refusals
    BY <1>2 DEF Refusals, InactiveStates
  <2>2. Handled \in Heard
    BY <1>1, <2>1, InHandFirst DEF Heard
  <2> QED
    BY <2>1, <2>2 DEF Closings, Handled, EventPar
<1>5. Cleared
  <2>1. current.sig # "DATA_AVAILABLE"
    BY <1>2
  <2> QED
    BY <1>1, <1>4, <2>1, Closing
<1>6. ~InGsm({"BUFFER_FULL"})
  <2>1. Has(ToGsm, Heard)
    BY <1>1, <1>3, <1>4, NoneComes
  <2> QED
    BY <1>1, <2>1 DEF Nothing
<1>7. ~InGsm({"BUFFER_FULL"})'
  BY <1>1, <1>3, <1>6, NoneComes
<1>8. FirstResponse'
  BY <1>1, <1>2, StatesAre DEF ReplyInv, FirstResponse, InactiveStates
<1> QED
  BY <1>1, <1>2, <1>5, <1>6, <1>7, <1>8 DEF GsmResumes, InactiveStates

(* A command is sent: to bring the modem up, ...                           *)
LEMMA BringingUpResumes ==
  ASSUME TypeOK, OrderInv, ReplyInv, GsmStep, ~Parsing, PoweredOn \/ LinkUp \/ ConfigNext
  PROVE  GsmResumes
<1>1. /\ KernelType /\ Handed /\ Journey /\ current.ao = "gsm" /\ current' = Idle /\ "gsm" \in Objects
      /\ queue'["gsm"] = queue["gsm"] => Gains("gsm", {})
      /\ InGsm({"BUFFER_FULL"}) => gsm = "sms_send"
  BY HandlerPosts, TwoQueues DEF ReplyInv
<1>2. /\ UNCHANGED <<pending, answer, rx, avail, response>> /\ queue' = queue
      /\ tx' \in {Append(tx, "AT"), Append(tx, "INIT")}
      /\ gsm' \in {"check_comlink", "device_config"}
      /\ \/ gsm = "powering_on"
         \/ gsm \in {"check_comlink", "device_config"} /\ current.sig = "ACK"
  BY DEF PoweredOn, LinkUp, ConfigNext, Sends, Return, Handling
<1>3. Gains("gsm", {})
  BY <1>1, <1>2
<1>4. Cleared
  <2>1. CASE gsm = "powering_on"
    <3>1. Nothing
      BY <2>1 DEF ReplyInv, BringUp
    <3>2. ~Has(queue["gsm"], Heard)
      BY <1>1, <3>1, InHandFirst DEF Nothing, ToGsm
    <3> QED
      BY <1>1, <3>1, <3>2 DEF Nothing, Cleared, Left
  <2>2. CASE current.sig = "ACK"
    <3>1. Handled \in Heard
      BY <1>1, <2>2, InHandFirst DEF Heard
    <3>2. Handled \in Closings
      BY <2>2, <3>1 DEF Closings, Handled, EventPar
    <3>3. current.sig # "DATA_AVAILABLE"
      BY <2>2
    <3> QED
      BY <1>1, <3>2, <3>3, Closing
  <2> QED
    BY <1>2, <2>1, <2>2
<1>5. ~InGsm({"BUFFER_FULL"}) /\ ~InGsm({"BUFFER_FULL"})'
  BY <1>1, <1>2, <1>3, NoneComes
<1>6. gsm \in InactiveStates /\ FirstResponse'
  BY <1>2 DEF ReplyInv, FirstResponse, InactiveStates
<1>7. {"AT", "INIT"} \subseteq Commands
  BY DEF Commands
<1> QED
  BY <1>2, <1>4, <1>5, <1>6, <1>7 DEF GsmResumes

(* ... to ask the network again, ...                                       *)
LEMMA RetryResumes ==
  ASSUME TypeOK, OrderInv, ReplyInv, GsmStep, ~Parsing, NetworkRetry
  PROVE  GsmResumes
<1>1. /\ KernelType /\ Handed /\ current.ao = "gsm" /\ current' = Idle /\ "gsm" \in Objects
      /\ queue'["gsm"] = queue["gsm"] => Gains("gsm", {})
      /\ InGsm({"BUFFER_FULL"}) => gsm = "sms_send"
      /\ InGsm({"NETWORK_READ"})' => InGsm({"NETWORK_READ"})
      /\ InApp({"INIT_DONE"})' => gsm = "device_config"
  BY HandlerPosts, TwoQueues
<1>2. /\ UNCHANGED <<pending, answer, rx, avail, response>> /\ queue' = queue
      /\ tx' = Append(tx, "CREG") /\ tries > 0 /\ tries' = Decremented(tries)
      /\ gsm = "network_status" /\ gsm' = gsm /\ current.sig = "TIMEOUT"
  BY DEF NetworkRetry, Sends, Return, Handling
<1>3. Gains("gsm", {})
  BY <1>1, <1>2
<1>4. Handled \in Timeouts
  BY <1>1, <1>2, InHandFirst DEF Timeouts
<1>5. Has(ToGsm, Timeouts)
  BY <1>1, <1>3, <1>4, NoneComes
<1>6. NoLine /\ ~Before(ToGsm, Timeouts, Heard) /\ tries \in {0, 1}
  BY <1>2, <1>5 DEF ReplyInv, Searching
<1>7. Cleared
  <2>1. ~Has(queue["gsm"], Heard)
    BY <1>1, <1>4, <1>6, InHandFirst DEF ToGsm
  <2> QED
    BY <1>1, <1>6, <2>1 DEF Cleared, Left
<1>8. tries' = 0
  <2>1. (1 + 255) % 256 = 0
    OBVIOUS
  <2> QED
    BY <1>2, <1>6, <2>1 DEF Decremented
<1>9. ~InGsm({"BUFFER_FULL"}) /\ ~InGsm({"BUFFER_FULL"})'
  BY <1>1, <1>2, <1>3, NoneComes
<1>10. gsm' \notin InactiveStates /\ FirstResponse'
  BY <1>1, <1>2 DEF ReplyInv, FirstResponse, InactiveStates
<1>11. "CREG" \in Commands
  BY DEF Commands
<1> QED
  BY <1>2, <1>7, <1>8, <1>9, <1>10, <1>11 DEF GsmResumes

(* ... for a request, ...                                                  *)
LEMMA AcceptResumes ==
  ASSUME TypeOK, OrderInv, ReplyInv, GsmStep, ~Parsing, NEW r \in Requests, Accept(r)
  PROVE  GsmResumes
<1>1. /\ KernelType /\ Handed /\ current.ao = "gsm" /\ current' = Idle /\ "gsm" \in Objects
      /\ app \in AppStates /\ Belongs /\ OwnInv
      /\ queue'["gsm"] = queue["gsm"] => Gains("gsm", {})
      /\ InGsm({"BUFFER_FULL"}) => gsm = "sms_send"
      /\ InGsm({"NETWORK_READ"})' => InGsm({"NETWORK_READ"})
      /\ InApp({"INIT_DONE"})' => gsm = "device_config"
  BY HandlerPosts, TwoQueues DEF TypeOK, AppType, OrderInv, RequestInv
<1>2. /\ UNCHANGED <<pending, answer, rx, avail>> /\ queue' = queue
      /\ \E c \in Commands : tx' = Append(tx, c)
      /\ gsm = "active_idle" /\ gsm' = Operation[r] /\ current.sig = r
      /\ r = "NETWORK_READ" => response' = response /\ tries' = 1
  BY RequestsAre DEF Accept, Sends, Return, Handling, Commands
<1>3. Gains("gsm", {})
  BY <1>1, <1>2
<1>4. /\ Handled \in Of(Requests) /\ InGsm(Requests) /\ InGsm({r})
      /\ r = "NETWORK_READ" => Handled \in Of(Others)
  <2>1. \A S : Handled \in Of(S) <=> current.sig \in S
    BY <1>1, InHandFirst
  <2>2. \A F : Handled \in F => Has(ToGsm, F)
    BY <1>1, <1>3, NoneComes
  <2> QED
    BY <1>2, <2>1, <2>2 DEF InGsm, Others
<1>5. NoLine /\ ~Before(ToGsm, Of(Requests), Heard)
  BY <1>2, <1>4 DEF ReplyInv, IdleFree, Stuck
<1>6. Cleared
  <2>1. ~Has(queue["gsm"], Heard)
    BY <1>1, <1>4, <1>5, InHandFirst DEF ToGsm
  <2> QED
    BY <1>1, <1>5, <2>1 DEF Cleared, Left
<1>7. ~InGsm({"BUFFER_FULL"}) /\ ~InGsm({"BUFFER_FULL"})'
  BY <1>1, <1>2, <1>3, NoneComes
<1>8. /\ Operation[r] \notin InactiveStates \cup {"active_idle", "sms_send_support"}
      /\ Operation[r] = "network_status" => r = "NETWORK_READ"
  <2>1. Operation[r] \in OperationStates /\ "NETWORK_READ" \in Requests
        /\ Operation["NETWORK_READ"] = "network_status"
    BY RequestsAre DEF OperationStates, Operation
  <2> QED
    BY <2>1, OperationsAre, StatesAre
<1>9. InGsm({"NETWORK_READ"})' => r = "NETWORK_READ" /\ response = "0"
  <2> SUFFICES ASSUME InGsm({"NETWORK_READ"})' PROVE r = "NETWORK_READ" /\ response = "0"
    OBVIOUS
  <2>1. InGsm({"NETWORK_READ"}) /\ "NETWORK_READ" \in Requests
    BY <1>1, RequestsAre
  <2>2. app = "init"
    BY <1>1, <2>1, AllowedTo DEF Belongs
  <2>3. r \in Allowed("init")
    BY <1>1, <1>4, <2>2 DEF Belongs
  <2> QED
    BY <2>1, <2>3, AllowedIs DEF ReplyInv, FirstResponse
<1>10. FirstResponse'
  BY <1>1, <1>2, <1>8, <1>9 DEF FirstResponse
<1>11. ASSUME gsm' = "network_status"
       PROVE  tries' \in {0, 1} /\ response' # "CREG_SEARCHING" /\ ~Has(ToGsm', Timeouts)
  <2>1. r = "NETWORK_READ"
    BY <1>2, <1>8, <1>11
  <2>2. response = "0"
    BY <1>4, <2>1 DEF ReplyInv, FirstResponse
  <2>3. Has(ToGsm', Timeouts) => Before(ToGsm, Of(Others), Timeouts)
    BY <1>1, <1>3, <1>4, <2>1, NoneComes
  <2> QED
    BY <1>1, <1>2, <2>1, <2>2, <2>3 DEF OwnInv
<1>12. /\ gsm' \notin InactiveStates \cup {"active_idle", "sms_send_support"}
       /\ gsm' \notin {"systemsetup", "opencom", "powering_on", "active_idle"}
  BY <1>2, <1>8 DEF InactiveStates
<1> QED
  BY <1>2, <1>6, <1>7, <1>10, <1>11, <1>12 DEF GsmResumes

(* ... for a text, or its rest.                                            *)
LEMMA PromptResumes ==
  ASSUME TypeOK, OrderInv, ReplyInv, GsmStep, ~Parsing, SendText, current.par = "PROMPT"
  PROVE  GsmResumes
<1>1. /\ KernelType /\ LinkType /\ Handed /\ Journey /\ current.ao = "gsm" /\ current' = Idle
      /\ "gsm" \in Objects
      /\ queue'["gsm"] = queue["gsm"] => Gains("gsm", {})
      /\ InGsm({"BUFFER_FULL"}) => Nothing
      /\ InGsm({"NETWORK_READ"})' => InGsm({"NETWORK_READ"})
      /\ gsm \in OperationStates => ~InGsm({"NETWORK_READ"})
      /\ InApp({"INIT_DONE"})' => gsm = "device_config"
  BY HandlerPosts, TwoQueues DEF ReplyInv
<1>2. /\ UNCHANGED <<pending, answer, rx, avail, flash, gsm>>
      /\ gsm \in {"sms_send", "sms_send_support"} /\ current.sig = "SMS_RESPONSE"
      /\ \/ flash # "0" /\ tx' = Append(tx, "PART")
         \/ flash = "0" /\ tx' = Append(tx, "BODY") /\ queue' = queue
  BY <1>1 DEF SendText, Sends, Return, Handling
<1>3. Handled \in Heard /\ Handled \in Closings
  <2>1. Handled \in Heard
    BY <1>1, <1>2, InHandFirst DEF Heard
  <2> QED
    BY <2>1 DEF Closings, Handled, EventPar
<1>4. Cleared
  <2>1. current.sig # "DATA_AVAILABLE"
    BY <1>2
  <2> QED
    BY <1>1, <1>3, <2>1, Closing
<1>5. ~Nothing
  BY <1>1, <1>3, InHandFirst DEF Nothing, ToGsm
<1>6. ~InGsm({"BUFFER_FULL"}) /\ (gsm = "sms_send_support" => flash = "0")
  BY <1>1, <1>5 DEF ReplyInv, TextParts
<1>7. InGsm({"BUFFER_FULL"})' => flash # "0"
  <2> SUFFICES ASSUME flash = "0", InGsm({"BUFFER_FULL"})' PROVE FALSE
    OBVIOUS
  <2>1. Gains("gsm", {})
    BY <1>1, <1>2
  <2> QED
    BY <1>1, <1>6, <2>1, NoneComes
<1>8. gsm' \notin InactiveStates /\ FirstResponse'
  BY <1>1, <1>2, StatesAre DEF FirstResponse, InactiveStates
<1>9. {"BODY", "PART"} \subseteq Commands
  BY DEF Commands
<1> QED
  BY <1>2, <1>4, <1>6, <1>7, <1>8, <1>9 DEF GsmResumes

LEMMA RestResumes ==
  ASSUME TypeOK, OrderInv, ReplyInv, GsmStep, ~Parsing, SendRest, flash # "0"
  PROVE  GsmResumes
<1>1. /\ KernelType /\ Handed /\ current.ao = "gsm" /\ current' = Idle /\ "gsm" \in Objects
      /\ queue'["gsm"] = queue["gsm"] => Gains("gsm", {})
      /\ InGsm({"BUFFER_FULL"}) => gsm = "sms_send"
      /\ InGsm({"NETWORK_READ"})' => InGsm({"NETWORK_READ"})
      /\ gsm \in OperationStates => ~InGsm({"NETWORK_READ"})
      /\ InApp({"INIT_DONE"})' => gsm = "device_config"
  BY HandlerPosts, TwoQueues
<1>2. /\ UNCHANGED <<pending, answer, rx, avail, gsm>> /\ queue' = queue
      /\ gsm = "sms_send_support" /\ flash' = "0" /\ tx' = Append(tx, "BODY")
  BY DEF SendRest, Sends, Return, Handling
<1>3. Nothing
  BY <1>2 DEF ReplyInv, TextParts
<1>4. Cleared
  <2>1. ~Has(queue["gsm"], Heard)
    BY <1>1, <1>3, InHandFirst DEF Nothing, ToGsm
  <2> QED
    BY <1>1, <1>3, <2>1 DEF Nothing, Cleared, Left
<1>5. ~InGsm({"BUFFER_FULL"}) /\ ~InGsm({"BUFFER_FULL"})'
  BY <1>1, <1>2, NoneComes
<1>6. gsm' \notin InactiveStates /\ FirstResponse'
  BY <1>1, <1>2, StatesAre DEF FirstResponse, InactiveStates
<1>7. "BODY" \in Commands
  BY DEF Commands
<1> QED
  BY <1>2, <1>4, <1>5, <1>6, <1>7 DEF GsmResumes

(* No counted TIMEOUT comes.                                               *)
LEMMA NotLate ==
  ASSUME TypeOK, OrderInv, ReplyInv, GsmStep, ~Parsing, current.sig = "TIMEOUT"
  PROVE  gsm \in {"active_idle", "network_status", "powering_on"}
<1> SUFFICES ASSUME gsm \notin {"active_idle", "network_status", "powering_on"}
             PROVE  FALSE
  OBVIOUS
<1>1. KernelType /\ Handed /\ current.ao = "gsm" /\ "gsm" \in Objects /\ OwnInv
  BY HandlerPosts, TwoQueues DEF OrderInv
<1>2. Handled \in Timeouts
  BY <1>1, InHandFirst DEF Timeouts
<1>3. Handled \notin NotOwn(gsm) /\ Handled \notin LateTimeouts
  BY <1>1, InHandFirst DEF OwnInv, ToGsm, ReplyInv, NoLateTimeout
<1> QED
  BY <1>2, <1>3 DEF NotOwn, OwnPar, LateTimeouts, Unsent

(* The network is given up, the time read too late, the rest of a text put *)
(* off.                                                                    *)
LEMMA RepliesAtTimeout ==
  ASSUME TypeOK, OrderInv, ReplyInv, GsmStep, ~Parsing, NetworkTimesOut
  PROVE  ReplyInv'
<1>1. /\ KernelType /\ LinkType /\ Handed /\ current.ao = "gsm" /\ current' = Idle /\ app' = app
      /\ "gsm" \in Objects /\ app \in AppStates /\ Belongs /\ LastRequest
      /\ queue'["gsm"] = queue["gsm"] => Gains("gsm", {})
      /\ LateReply' /\ NoLateTimeout'
      /\ InGsm(Requests)' => InGsm(Requests)
      /\ InGsm({"NETWORK_READ"})' => InGsm({"NETWORK_READ"})
      /\ InApp({"INIT_DONE"})' => gsm = "device_config"
      /\ InApp({"INIT_DONE", "NETWORK_CONNECTED"})' => gsm = "device_config" \/ current.sig = "ACK"
      /\ InGsm({"BUFFER_FULL"}) => gsm = "sms_send"
  BY HandlerPosts, TwoQueues DEF TypeOK, AppType, OrderInv, RequestInv
<1>2. /\ UNCHANGED <<tx, pending, answer, rx, avail, response>>
      /\ gsm = "network_status" /\ gsm' = "active_idle" /\ current.sig = "TIMEOUT"
  BY DEF NetworkTimesOut, BackToIdle, GsmOnly, linkVars, Handling, Return
<1>3. Gains("gsm", {}) /\ {} \in SUBSET Events
  BY <1>1, ToOthers DEF NetworkTimesOut, BackToIdle, Return
<1>4. Refusals' = Refusals /\ ~Parses
  BY <1>2 DEF Refusals, InactiveStates, Parses, InHand
<1>5. Journey'
  BY <1>1, <1>2, <1>3, <1>4, Resting DEF ReplyInv
<1>6. Stuck'
  <2>1. app = "init"
    <3>1. "NETWORK_READ" \in Requests /\ Operation["NETWORK_READ"] = "network_status"
      BY RequestsAre DEF Operation
    <3> QED
      BY <1>1, <1>2, <3>1, ServedFor, AllowedTo
  <2>2. ~InGsm(Requests)
    BY <1>1, <1>2 DEF LastRequest
  <2> QED
    BY <1>1, <1>2, <2>1, <2>2 DEF Stuck
<1>7. ~InGsm({"BUFFER_FULL"})' /\ ~GsmAhead({"BUFFER_FULL"}, {"BUFFER_FULL"})'
  <2>1. ~InGsm({"BUFFER_FULL"})'
    BY <1>1, <1>2, <1>3, NoneComes
  <2> QED
    BY <2>1, SomeOf DEF InGsm, GsmAhead
<1>8. FirstResponse'
  BY <1>1, <1>2 DEF ReplyInv, FirstResponse, InactiveStates
<1>9. NoParts' /\ BringUp' /\ IdleFree' /\ Searching' /\ TextParts'
  BY <1>2, <1>6, <1>7 DEF NoParts, BringUp, IdleFree, Searching, TextParts, InactiveStates
<1> QED
  BY <1>1, <1>5, <1>8, <1>9 DEF ReplyInv

LEMMA RepliesGarbled ==
  ASSUME TypeOK, OrderInv, ReplyInv, GsmStep, ~Parsing, ClockGarbled
  PROVE  ReplyInv'
<1>1. /\ KernelType /\ LinkType /\ Handed /\ current.ao = "gsm" /\ current' = Idle
      /\ "gsm" \in Objects
      /\ queue'["gsm"] = queue["gsm"] => Gains("gsm", {})
      /\ LateReply' /\ NoLateTimeout'
      /\ gsm \in OperationStates => ~InGsm({"NETWORK_READ"})
      /\ InGsm({"NETWORK_READ"})' => InGsm({"NETWORK_READ"})
      /\ InApp({"INIT_DONE"})' => gsm = "device_config"
      /\ InGsm({"BUFFER_FULL"}) => gsm = "sms_send"
  BY HandlerPosts, TwoQueues
<1>2. /\ UNCHANGED <<tx, pending, answer, rx, avail>> /\ queue' = queue
      /\ gsm = "time_get" /\ gsm' = "active_idle" /\ current.sig = "CLOCK_RESPONSE"
  BY DEF ClockGarbled, GsmOnly, linkVars, Handling, Return
<1>3. Gains("gsm", {}) /\ {} \in SUBSET Events
  BY <1>1, <1>2
<1>4. Refusals' = Refusals /\ Heard' = Heard /\ ~Parses
  BY <1>2 DEF Refusals, Heard, InactiveStates, Parses, InHand
<1>5. Journey' /\ (NoLine => NoLine')
  BY <1>1, <1>2, <1>3, <1>4, Resting DEF ReplyInv
<1>6. NoLine'
  <2>1. Handled \in Heard
    BY <1>1, <1>2, InHandFirst DEF Heard
  <2>2. Has(ToGsm, Heard)
    BY <1>1, <1>3, <2>1, NoneComes
  <2>3. NoLine
    BY <1>4, <2>2, Few DEF ReplyInv, Journey, RepliesLast, NoLine
  <2> QED
    BY <1>5, <2>3
<1>7. ~Before(ToGsm', Of(Requests), Heard')
  <2>1. Handled \in Of({"CLOCK_RESPONSE"})
    BY <1>1, <1>2, InHandFirst
  <2>2. ~Before(queue["gsm"], Of(Requests), Heard)
    BY <1>1, <2>1, InHandFirst DEF ReplyInv, LateReply, ToGsm
  <2>3. Left("gsm") = queue["gsm"]
    BY <1>1 DEF Left
  <2> QED
    BY <1>1, <1>3, <1>4, <2>2, <2>3, NoneComes
<1>8. ~InGsm({"BUFFER_FULL"})' /\ ~GsmAhead({"BUFFER_FULL"}, {"BUFFER_FULL"})'
  <2>1. ~InGsm({"BUFFER_FULL"})'
    BY <1>1, <1>2, <1>3, NoneComes
  <2> QED
    BY <2>1, SomeOf DEF InGsm, GsmAhead
<1>9. FirstResponse'
  BY <1>1, <1>2, StatesAre DEF FirstResponse, InactiveStates
<1>10. NoParts' /\ BringUp' /\ IdleFree' /\ Searching' /\ TextParts'
  BY <1>2, <1>6, <1>7, <1>8 DEF NoParts, BringUp, IdleFree, Searching, TextParts, InactiveStates
<1> QED
  BY <1>1, <1>5, <1>9, <1>10 DEF ReplyInv

LEMMA RepliesPutOff ==
  ASSUME TypeOK, OrderInv, ReplyInv, GsmStep, ~Parsing, BufferFull
  PROVE  ReplyInv'
<1>1. /\ KernelType /\ LinkType /\ Handed /\ current.ao = "gsm" /\ current' = Idle
      /\ "gsm" \in Objects
      /\ queue'["gsm"] = queue["gsm"] => Gains("gsm", {})
      /\ LateReply' /\ NoLateTimeout'
      /\ gsm \in OperationStates => ~InGsm({"NETWORK_READ"})
      /\ InGsm({"NETWORK_READ"})' => InGsm({"NETWORK_READ"})
      /\ InApp({"INIT_DONE"})' => gsm = "device_config"
      /\ InGsm({"BUFFER_FULL"}) => gsm = "sms_send" /\ Nothing
  BY HandlerPosts, TwoQueues
<1>2. /\ UNCHANGED <<tx, pending, answer, rx, avail>> /\ queue' = queue
      /\ gsm \in {"sms_send", "sms_send_support"} /\ gsm' = "sms_send_support"
      /\ current.sig = "BUFFER_FULL"
  BY DEF BufferFull, GsmOnly, linkVars, Handling, Return, Ignore
<1>3. Gains("gsm", {}) /\ {} \in SUBSET Events
  BY <1>1, <1>2
<1>4. Refusals' = Refusals /\ ~Parses
  BY <1>2 DEF Refusals, InactiveStates, Parses, InHand
<1>5. /\ Handled \in Of({"BUFFER_FULL"})
      /\ InGsm({"BUFFER_FULL"}) /\ ~InGsm({"BUFFER_FULL"})'
  <2>1. Handled \in Of({"BUFFER_FULL"})
    BY <1>1, <1>2, InHandFirst
  <2> QED
    BY <1>1, <1>3, <2>1, NoneComes DEF InGsm, ReplyInv, TextParts, GsmAhead
<1>6. Journey' /\ Nothing'
  BY <1>1, <1>2, <1>3, <1>4, <1>5, Resting DEF ReplyInv
<1>7. ~GsmAhead({"BUFFER_FULL"}, {"BUFFER_FULL"})'
  BY <1>5, SomeOf DEF InGsm, GsmAhead
<1>8. FirstResponse'
  BY <1>1, <1>2, StatesAre DEF FirstResponse, InactiveStates
<1>9. NoParts' /\ BringUp' /\ IdleFree' /\ Searching' /\ TextParts'
  BY <1>2, <1>5, <1>6, <1>7 DEF NoParts, BringUp, IdleFree, Searching, TextParts, InactiveStates
<1> QED
  BY <1>1, <1>6, <1>8, <1>9 DEF ReplyInv

-----------------------------------------------------------------------------
(* The handlers, one by one.                                               *)
LEMMA KeepsThem ==
  ASSUME KernelType,
         \/ StartAo \/ ComOpened \/ PowerKey \/ IdleTells \/ ParseDone \/ GsmIgnores
         \/ NetworkResponse \/ KeepResponse \/ ExtractTime
         \/ SendText /\ current.par # "PROMPT"
         \/ SendRest /\ flash = "0"
  PROVE  GsmKeeps
<1>1. CASE StartAo \/ ComOpened
  BY <1>1, ToOthers
  DEF StartAo, ComOpened, GsmKeeps, Return, Ignore, GsmOnly, linkVars, controlVars, Handling
<1>2. CASE PowerKey \/ GsmIgnores
  BY <1>2 DEF PowerKey, GsmIgnores, GsmKeeps, Return, Ignore, GsmOnly, linkVars, gsmVars, controlVars,
         Handling
<1>3. CASE IdleTells
  <2>1. /\ UNCHANGED <<tx, pending, answer, flash, tries, rx, avail, gsm, response>> /\ timer' = timer
        /\ current.sig # "DATA_AVAILABLE" /\ \E sig : queue' = Told(sig)
    BY <1>3, RequestsAre DEF IdleTells, Return, GsmOnly, linkVars, gsmVars, controlVars, Handling
  <2> QED
    BY <2>1, ToOthers DEF GsmKeeps
<1>4. CASE ParseDone
  BY <1>4 DEF ParseDone, GsmKeeps, Return, Ignore, gsmVars, controlVars
<1>5. CASE NetworkResponse
  BY <1>5, StatesAre
  DEF NetworkResponse, GsmKeeps, Return, Ignore, GsmOnly, linkVars, Handling
<1>6. CASE KeepResponse
  <2>1. /\ UNCHANGED <<tx, pending, answer, flash, tries, rx, avail, gsm>> /\ timer' = timer
        /\ current.sig # "DATA_AVAILABLE" /\ gsm \in {"sms_presence", "sms_read", "time_get"}
        /\ queue' = queue \/ \E e : queue' = Post(queue, "app", e)
    BY <1>6 DEF KeepResponse, Return, GsmOnly, linkVars, Handling
  <2> QED
    BY <2>1, ToOthers, StatesAre DEF GsmKeeps
<1>7. CASE ExtractTime
  <2>1. /\ UNCHANGED <<tx, pending, answer, flash, tries, rx, avail, gsm>> /\ timer' = timer
        /\ current.sig # "DATA_AVAILABLE" /\ gsm = "sms_extract_time"
        /\ queue' = queue \/ \E sig : queue' = Told(sig)
    BY <1>7 DEF ExtractTime, Return, Ignore, GsmOnly, linkVars, Handling
  <2> QED
    BY <2>1, ToOthers, StatesAre DEF GsmKeeps
<1>8. CASE SendText /\ current.par # "PROMPT"
  <2>1. /\ UNCHANGED <<tx, pending, answer, flash, tries, rx, avail, gsm>> /\ timer' = timer
        /\ current.sig # "DATA_AVAILABLE" /\ gsm \in {"sms_send", "sms_send_support"}
        /\ queue' = queue
    BY <1>8 DEF SendText, Return, Ignore, GsmOnly, linkVars, Handling
  <2> QED
    BY <2>1, StatesAre DEF GsmKeeps
<1>9. CASE SendRest /\ flash = "0"
  BY <1>9 DEF SendRest, GsmKeeps, Return, Ignore, GsmOnly, linkVars, Handling
<1> QED
  BY <1>1, <1>2, <1>3, <1>4, <1>5, <1>6, <1>7, <1>8, <1>9

LEMMA RepliesByGsm ==
  ASSUME TypeOK, OrderInv, ReplyInv, GsmStep, ~Parsing
  PROVE  ReplyInv'
<1>0. KernelType
  BY DEF TypeOK
<1>1. ASSUME \/ StartAo \/ ComOpened \/ PowerKey \/ IdleTells \/ ParseDone \/ GsmIgnores
             \/ NetworkResponse \/ KeepResponse \/ ExtractTime
             \/ SendText /\ current.par # "PROMPT"
             \/ SendRest /\ flash = "0"
      PROVE  ReplyInv'
  BY <1>0, <1>1, KeepsThem, RepliesKept
<1>2. CASE Ends \/ PoweredOn \/ LinkUp \/ ConfigNext \/ NetworkRetry
           \/ (SendText /\ current.par = "PROMPT") \/ (SendRest /\ flash # "0")
  <2>1. GsmResumes
    BY <1>2, EndsResume, BringingUpResumes, RetryResumes, PromptResumes, RestResumes
  <2> QED
    BY <2>1, RepliesResumed
<1>3. ASSUME NEW r \in Requests, Accept(r) PROVE ReplyInv'
  BY <1>3, AcceptResumes, RepliesResumed
<1>4. CASE RetryAt \/ NoModem \/ (ConfigFails /\ current.sig = "TIMEOUT") \/ OperationTimesOut
  <2>1. current.sig = "TIMEOUT" /\ gsm \notin {"active_idle", "network_status", "powering_on"}
    BY <1>4, StatesAre DEF RetryAt, NoModem, ConfigFails, OperationTimesOut, Handling
  <2> QED
    BY <2>1, NotLate
<1>5. CASE NetworkTimesOut \/ ClockGarbled \/ BufferFull
  BY <1>5, RepliesAtTimeout, RepliesGarbled, RepliesPutOff
<1>6. ~ParseLine
  BY DEF ParseLine, Parsing, Handling
<1>7. ConfigFails => current.sig \in {"ERROR", "TIMEOUT"}
  BY DEF ConfigFails, Handling
<1> QED
  BY <1>1, <1>2, <1>3, <1>4, <1>5, <1>6, <1>7
  DEF GsmStep, GsmHandler, GsmInactive, GsmOperation, Ends

-----------------------------------------------------------------------------
(* Nothing is on its way at the start.                                     *)
LEMMA InitReplies == Init => ReplyInv
<1> SUFFICES ASSUME Init PROVE ReplyInv
  OBVIOUS
<1>1. /\ current = Idle /\ gsm = "systemsetup" /\ response = "0"
      /\ tx = <<>> /\ pending = <<>> /\ answer = <<>> /\ rx = <<>>
  BY DEF Init, GsmInit, LinkInit
<1>2. ToGsm = <<Event("START_AO")>> /\ ToApp = <<>> /\ ~Parses
  BY <1>1, ConfigurationOfMain DEF Init, ToGsm, ToApp, Inbox, ObjectsOfMain, Idle, Parses, InHand
<1>3. /\ \A E : Event("START_AO") \notin E => ~Has(ToGsm, E)
      /\ \A E, F : ~Before(ToGsm, E, F)
      /\ \A E, F, H : ~Three(ToGsm, E, F, H)
  BY <1>2, Few, SomeOf
<1>4. /\ Event("START_AO") \notin Heard /\ Event("START_AO") \notin Closings
      /\ Event("START_AO") \notin LateTimeouts /\ Event("START_AO") \notin Of({"BUFFER_FULL"})
  BY HeardAre DEF Event, EventPar, LateTimeouts, Timeouts, Of
<1>5. Journey /\ Nothing
  BY <1>1, <1>3, <1>4, Few
  DEF Journey, TxLast, PendingLast, AnswerLast, RxLast, Announced, RepliesLast, Nothing, NoLine
<1>6. NoParts /\ BringUp /\ IdleFree /\ NoLateTimeout /\ FirstResponse /\ Searching
  BY <1>1, <1>3, <1>4, <1>5, Few DEF NoParts, BringUp, IdleFree, NoLateTimeout, FirstResponse, Searching
<1>7. LateReply /\ TextParts
  BY <1>1, <1>2, <1>3, <1>4, <1>5 DEF LateReply, TextParts, InGsm, GsmAhead
<1> QED
  BY <1>5, <1>6, <1>7 DEF ReplyInv

(* As long as no command has timed out.                                    *)
AllReplied == timeouts = 0 => ReplyInv

LEMMA NextReplies ==
  Burst => (TypeOK /\ OrderInv /\ AllReplied /\ [Next]_vars => AllReplied')
<1> SUFFICES ASSUME Burst, TypeOK, OrderInv, AllReplied, [Next]_vars, timeouts' = 0
             PROVE  ReplyInv'
  BY DEF AllReplied
<1>1. timeouts' = timeouts /\ ReplyInv
  <2>1. timeouts \in Nat /\ timeouts' \in {timeouts, timeouts + 1}
    BY DEF TypeOK, Next, Schedule, GsmStep, AppStep, Drivers, ComOpen, EmonStart, EmonDone, Link,
           GsmTick, AppTick, vars
  <2>2. timeouts' = timeouts
    BY <2>1
  <2> QED
    BY <2>2 DEF AllReplied
<1>2. Handed /\ TimerInv /\ ParserInv
  BY DEF OrderInv
<1>3. CASE Schedule
  BY <1>1, <1>2, <1>3, RepliesByScheduler
<1>4. CASE GsmStep
  BY <1>1, <1>2, <1>4, RepliesByGsm, RepliesByParser
<1>5. CASE AppStep
  BY <1>1, <1>2, <1>5, RepliesByApp
<1>6. CASE OtherStep
  BY <1>1, <1>2, <1>6, RepliesByOthers
<1> QED
  BY <1>3, <1>4, <1>5, <1>6 DEF Next, OtherStep

(* The OK that completes an operation is the answer to its own command, as *)
(* long as no command times out and an answer comes without a pause: the   *)
(* modem owes no other when the parser's ACK is handled (gsm.c,            *)
(* comm_rx_handler and the sub-states of gsm_active).                      *)
THEOREM AnswersAreOwn == ASSUME Burst PROVE Spec => []OwnAnswers
<1>1. Init => AllReplied
  BY InitReplies DEF AllReplied
<1>2. TypeOK /\ OrderInv /\ AllReplied /\ [Next]_vars => AllReplied'
  BY NextReplies
<1>3. TypeOK /\ OrderInv /\ AllReplied => OwnAnswers
  <2> SUFFICES ASSUME TypeOK, OrderInv, ReplyInv, Handling("gsm", "ACK")
               PROVE  tx = <<>> /\ pending = <<>> /\ answer = <<>>
    BY DEF OwnAnswers, AllReplied
  <2>1. KernelType /\ Handed /\ "gsm" \in Objects /\ current.ao = "gsm" /\ current.sig = "ACK"
    BY TwoQueues DEF TypeOK, OrderInv, Handling
  <2>2. Handled \in Heard
    BY <2>1, InHandFirst DEF Heard
  <2>3. Has(ToGsm, Heard)
    BY <2>1, <2>2, InHandFirst DEF ToGsm
  <2> QED
    BY <2>3 DEF ReplyInv, Journey, RepliesLast
<1> QED
  BY <1>1, <1>2, <1>3, OrderHolds, TypeCorrect, PTL DEF Spec

=============================================================================
