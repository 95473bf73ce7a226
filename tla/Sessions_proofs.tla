---------------------------- MODULE Sessions_proofs ----------------------------
(***************************************************************************)
(* Sessions and status messages, proved for every value of the constants:  *)
(* their types, that open sessions have time left and inputs an option,    *)
(* and that a status message goes to the user it was due to.               *)
(***************************************************************************)
EXTENDS Sessions, SequenceTheorems, FiniteSetTheorems, WellFoundedInduction, TLAPS

-----------------------------------------------------------------------------
(* Lemmas about the operators of the model. *)

(* A set of natural numbers that is not empty has a least element, and Min *)
(* is that: a set of intervals has one that contains no other.             *)
LEMMA MinOfNaturals ==
  ASSUME NEW S \in SUBSET Nat, S # {}
  PROVE  Min(S) \in S /\ \A y \in S : Min(S) <= y
<1> DEFINE Below(n) == 0 .. n - 1
           T == {Below(n) : n \in S}
<1>1. T \subseteq FiniteSubsetsOf(Nat)
  <2>1. \A n \in S : Below(n) \subseteq Nat /\ IsFiniteSet(Below(n))
    BY FS_Interval
  <2> QED
    BY <2>1 DEF FiniteSubsetsOf
<1>2. PICK U \in T : \A V \in T : ~ (<<V, U>> \in StrictSubsetOrdering(Nat))
  <2>1. T # {}
    OBVIOUS
  <2> HIDE DEF T
  <2> QED
    BY <1>1, <2>1, WFMin, FS_StrictSubsetOrderingWellFounded
<1>3. PICK x \in S : U = Below(x)
  OBVIOUS
<1>4. \A y \in S : x <= y
  <2> SUFFICES ASSUME NEW y \in S, y < x
               PROVE  FALSE
    OBVIOUS
  <2>1. Below(y) \subseteq Below(x) /\ y \in Below(x) /\ y \notin Below(y)
    OBVIOUS
  <2>2. <<Below(y), U>> \in StrictSubsetOrdering(Nat)
    BY <1>3, <2>1 DEF StrictSubsetOrdering
  <2> QED
    BY <1>2, <2>2
<1> QED
  BY <1>4 DEF Min

(* Removing an element of a sequence leaves a sequence of the others. *)
LEMMA RemoveAtProperties ==
  ASSUME NEW S, NEW s \in Seq(S), NEW i \in 1 .. Len(s)
  PROVE  RemoveAt(s, i) \in Seq(S) /\ Len(RemoveAt(s, i)) = Len(s) - 1
<1> DEFINE front == SubSeq(s, 1, i - 1)
           back == SubSeq(s, i + 1, Len(s))
<1>1. Len(s) \in Nat /\ \A j \in 1 .. Len(s) : s[j] \in S
  BY LenProperties, ElementOfSeq
<1>2. front \in Seq(S) /\ Len(front) = i - 1
  <2>1. \A j \in 1 .. i - 1 : s[j] \in S
    BY <1>1
  <2> QED
    BY <1>1, <2>1, SubSeqProperties
<1>3. back \in Seq(S) /\ Len(back) = Len(s) - i
  <2>1. \A j \in i + 1 .. Len(s) : s[j] \in S
    BY <1>1
  <2> QED
    BY <1>1, <2>1, SubSeqProperties
<1>4. RemoveAt(s, i) = front \o back
  BY DEF RemoveAt
<1> HIDE DEF front, back
<1>5. Len(front) + Len(back) = Len(s) - 1
  BY <1>1, <1>2, <1>3
<1>6. /\ front \o back \in Seq(S)
      /\ Len(front \o back) = Len(front) + Len(back)
  BY <1>2, <1>3, ConcatProperties
<1> QED
  BY <1>4, <1>5, <1>6

-----------------------------------------------------------------------------
(* The invariant. *)

(* A broadcast that has been ordered or begun finds the records as they    *)
(* were when the messages became due: SEND_BROADCAST waits in the queue of *)
(* app_idle only, and is dropped before any message can change a record.   *)
DueToHolder ==
  /\ queued => app = "app_idle"
  /\ queued \/ app = "send_broadcast" =>
       \A i \in updates : i <= noUsers /\ records[i].no = due[i]

SessionsInv == SessionsTypeOK /\ SessionTimed /\ InputHasOption /\ DueToHolder

(* What is read of the table has its type. *)
LEMMA RecordsTyped ==
  ASSUME TableTypeOK
  PROVE  /\ noUsers \in Nat /\ 1 .. noUsers \subseteq Ids
         /\ \A p \in 1 .. noUsers : records[p] \in Records
<1>1. MaxUsers \in Nat
  BY SessionsAssumption
<1>2. \A p \in 1 .. noUsers : records[p] \in Records
  BY ElementOfSeq DEF TableTypeOK, noUsers
<1> QED
  BY <1>1, <1>2 DEF TableTypeOK, Ids

(* validate_user finds a record of the sender, and an id in it.            *)
LEMMA IdOfSender ==
  ASSUME TableTypeOK, NEW no, Positions(no) # {}
  PROVE  IdOf(no) \in Ids
<1>1. Positions(no) \subseteq 1 .. noUsers /\ Positions(no) \in SUBSET Nat
  BY RecordsTyped DEF Positions
<1>2. Min(Positions(no)) \in 1 .. noUsers
  BY <1>1, MinOfNaturals
<1> QED
  BY <1>2, RecordsTyped DEF IdOf, Records

(* The frequencies that are read at start-up are countdowns.               *)
LEMMA CountdownsTyped ==
  ASSUME TableTypeOK
  PROVE  CountdownsOf(records) \in [Ids -> 0 .. 255]
<1>1. ASSUME NEW i \in Ids, i <= noUsers
      PROVE  records[i].freq \in 0 .. 255
  <2>1. i \in 1 .. noUsers
    BY <1>1, RecordsTyped, SessionsAssumption DEF Ids
  <2> QED
    BY <2>1, RecordsTyped DEF Records
<1> QED
  BY <1>1 DEF CountdownsOf, noUsers

-----------------------------------------------------------------------------
(* The steps. *)

(* After the first boot the invariant holds. *)
LEMMA InitInv ==
  ASSUME SessionsInit
  PROVE  SessionsInv
<1> DEFINE owner == User(1, Owner, TRUE, OwnerFreq)
<1>1. owner \in Records
  BY SessionsAssumption DEF User, Records, Ids, Numbers
<1>2. records = <<owner>>
  BY DEF SessionsInit
<1> HIDE DEF owner
<1>3. TableTypeOK
  BY <1>1, <1>2, SessionsAssumption DEF TableTypeOK, noUsers
<1>4. SessionTypeOK
  BY SessionsAssumption DEF SessionsInit, RamIs, SessionTypeOK
<1>5. StatusTypeOK
  BY <1>3, CountdownsTyped DEF SessionsInit, RamIs, StatusTypeOK
<1> QED
  BY <1>3, <1>4, <1>5
     DEF SessionsInit, RamIs, SessionsInv, SessionsTypeOK, SessionTimed, InputHasOption, DueToHolder

(* A restart keeps the table and forgets the rest. *)
LEMMA RestartInv ==
  ASSUME SessionsInv, Restart
  PROVE  SessionsInv'
<1>1. TableTypeOK'
  BY DEF SessionsInv, SessionsTypeOK, TableTypeOK, noUsers, Restart
<1>2. SessionTypeOK'
  BY SessionsAssumption DEF Restart, SessionTypeOK
<1>3. StatusTypeOK'
  BY CountdownsTyped DEF SessionsInv, SessionsTypeOK, Restart, StatusTypeOK
<1> QED
  BY <1>1, <1>2, <1>3 DEF Restart, SessionsInv, SessionsTypeOK, SessionTimed, InputHasOption, DueToHolder

(* Sessions that end leave the others as they are. *)
LEMMA EndInv ==
  ASSUME SessionTypeOK, NEW us \in SUBSET Ids, End(us)
  PROVE  /\ session' = session \ us
         /\ session' \subseteq Ids /\ opener' \in [Ids -> Numbers \cup {"nobody"}]
BY DEF SessionTypeOK, End

(* While a message is dealt with no broadcast waits or is under way.       *)
LEMMA DealtDue ==
  ASSUME SessionsInv, Answer, UNCHANGED <<updates, queued, due>>,
         countdown' \in [Ids -> 0 .. 255]
  PROVE  StatusTypeOK' /\ DueToHolder'
BY DEF SessionsInv, SessionsTypeOK, StatusTypeOK, DueToHolder, Answer

(* The session variables under the second step of an option. *)
LEMMA SecondStepSession ==
  ASSUME SessionsInv, NEW no, NEW o, SecondStep(no, o)
  PROVE  SessionTypeOK' /\ SessionTimed' /\ InputHasOption' /\ IdOf(no) \in Ids
<1>1. IdOf(no) \in Ids
  BY IdOfSender DEF SecondStep, SessionsInv, SessionsTypeOK
<1>2. session' = session \ {IdOf(no)} /\ opener' \in [Ids -> Numbers \cup {"nobody"}]
  BY <1>1, EndInv DEF SecondStep, SessionsInv, SessionsTypeOK
<1> QED
  BY <1>1, <1>2
     DEF SecondStep, SessionsInv, SessionsTypeOK, SessionTypeOK, SessionTimed, InputHasOption

(* An option's second step that leaves a table of the type.                *)
LEMMA SecondStepInv ==
  ASSUME SessionsInv, NEW no, NEW o, SecondStep(no, o),
         TableTypeOK', countdown' \in [Ids -> 0 .. 255]
  PROVE  SessionsInv'
<1>1. StatusTypeOK' /\ DueToHolder'
  BY DealtDue DEF SecondStep
<1> QED
  BY <1>1, SecondStepSession DEF SessionsInv, SessionsTypeOK

(* MENU opens a session: with time, and with no menu bit of another.       *)
LEMMA OpenSessionInv ==
  ASSUME SessionsInv, NEW no \in Numbers, OpenSession(no)
  PROVE  SessionsInv'
<1>1. IdOf(no) \in Ids
  BY IdOfSender DEF OpenSession, SessionsInv, SessionsTypeOK
<1>2. TableTypeOK'
  BY DEF SessionsInv, SessionsTypeOK, TableTypeOK, noUsers, OpenSession
<1>3. SessionTypeOK' /\ SessionTimed' /\ InputHasOption'
  BY <1>1, SessionsAssumption
     DEF OpenSession, SessionsInv, SessionsTypeOK, SessionTypeOK, SessionTimed, InputHasOption
<1>4. countdown' \in [Ids -> 0 .. 255]
  BY DEF OpenSession, statusVars, SessionsInv, SessionsTypeOK, StatusTypeOK
<1>5. StatusTypeOK' /\ DueToHolder'
  BY <1>4, DealtDue DEF OpenSession, statusVars
<1> QED
  BY <1>2, <1>3, <1>5 DEF SessionsInv, SessionsTypeOK

(* The first step of an option chooses it before it waits for its input.   *)
LEMMA ChooseOptionInv ==
  ASSUME SessionsInv, NEW no, NEW o \in Options, ChooseOption(no, o)
  PROVE  SessionsInv'
<1>1. IdOf(no) \in Ids
  BY IdOfSender DEF ChooseOption, SessionsInv, SessionsTypeOK
<1>2. TableTypeOK'
  BY DEF SessionsInv, SessionsTypeOK, TableTypeOK, noUsers, ChooseOption
<1>3. o # "none"
  BY SessionsAssumption
<1>4. PICK us \in SUBSET Ids : End(us)
  BY <1>1 DEF ChooseOption
<1>5. session' = session \ us /\ opener' \in [Ids -> Numbers \cup {"nobody"}]
  BY <1>4, EndInv DEF SessionsInv, SessionsTypeOK
<1>6. menu' \subseteq menu \cup {IdOf(no)} /\ option' = [option EXCEPT ![IdOf(no)] = o]
      /\ timing' = timing
  BY DEF ChooseOption
<1>7. SessionTypeOK' /\ SessionTimed' /\ InputHasOption'
  BY <1>1, <1>3, <1>5, <1>6
     DEF SessionsInv, SessionsTypeOK, SessionTypeOK, SessionTimed, InputHasOption
<1>8. countdown' \in [Ids -> 0 .. 255]
  BY DEF ChooseOption, statusVars, SessionsInv, SessionsTypeOK, StatusTypeOK
<1>9. StatusTypeOK' /\ DueToHolder'
  BY <1>8, DealtDue DEF ChooseOption, statusVars
<1> QED
  BY <1>2, <1>7, <1>9 DEF SessionsInv, SessionsTypeOK

(* A record that is changed in place stays a record, and the table one.    *)
LEMMA ChangedRecord ==
  ASSUME TableTypeOK, NEW u \in Ids, NEW r \in Records,
         records' = IF u <= noUsers THEN [records EXCEPT ![u] = r] ELSE records
  PROVE  TableTypeOK'
<1>1. CASE u <= noUsers
  <2>1. u \in 1 .. Len(records) /\ records' = [records EXCEPT ![u] = r]
    BY <1>1, RecordsTyped, SessionsAssumption DEF Ids, noUsers
  <2> QED
    BY <2>1, ExceptSeq DEF TableTypeOK, noUsers
<1>2. CASE ~ (u <= noUsers)
  BY <1>2 DEF TableTypeOK, noUsers
<1> QED
  BY <1>1, <1>2

(* The record of the sender's id, as a switch or a frequency leaves it.    *)
LEMMA RecordOfId ==
  ASSUME TableTypeOK, NEW u \in Ids, u <= noUsers
  PROVE  /\ u \in 1 .. noUsers /\ records[u] \in Records
         /\ \A b \in BOOLEAN : [records[u] EXCEPT !.broadcast = b] \in Records
         /\ \A f \in 0 .. 255 : [records[u] EXCEPT !.freq = f] \in Records
<1>1. u \in 1 .. noUsers
  BY RecordsTyped, SessionsAssumption DEF Ids
<1>2. records[u] \in Records
  BY <1>1, RecordsTyped
<1> QED
  BY <1>1, <1>2 DEF Records

(* Adding a user gives the new record an id that fits the bits. *)
LEMMA AddNumberInv ==
  ASSUME SessionsInv, NEW no, NEW new \in Others, AddNumber(no, new)
  PROVE  SessionsInv'
<1> DEFINE r == User(noUsers + 1, new, FALSE, DefaultFreq)
<1>1. r \in Records
  <2>1. noUsers + 1 \in Ids
    BY RecordsTyped, SessionsAssumption DEF AddNumber, SessionsInv, SessionsTypeOK, Ids
  <2>2. new \in Numbers /\ DefaultFreq \in 0 .. 255
    BY SessionsAssumption DEF Numbers
  <2> QED
    BY <2>1, <2>2 DEF Records, User
<1>2. TableTypeOK'
  <2>1. records \in Seq(Records) /\ Len(records) \in 1 .. MaxUsers /\ Len(records) < MaxUsers
    BY DEF SessionsInv, SessionsTypeOK, TableTypeOK, noUsers, AddNumber
  <2>2. records' = Append(records, r)
    BY DEF AddNumber
  <2> HIDE DEF r
  <2> QED
    BY <1>1, <2>1, <2>2, AppendProperties, SessionsAssumption DEF TableTypeOK, noUsers
<1>3. countdown' \in [Ids -> 0 .. 255]
  BY DEF AddNumber, SessionsInv, SessionsTypeOK, StatusTypeOK
<1> QED
  BY <1>2, <1>3, SecondStepInv DEF AddNumber

(* Deleting one leaves at least the owner. *)
LEMMA DeleteNumberInv ==
  ASSUME SessionsInv, NEW no, NEW i, DeleteNumber(no, i)
  PROVE  SessionsInv'
<1>1. TableTypeOK'
  <2>1. records \in Seq(Records) /\ Len(records) \in 1 .. MaxUsers /\ MaxUsers \in Nat
    BY SessionsAssumption DEF SessionsInv, SessionsTypeOK, TableTypeOK, noUsers
  <2>2. i + 1 \in 2 .. Len(records) /\ records' = RemoveAt(records, i + 1)
    BY <2>1 DEF DeleteNumber, noUsers
  <2>3. records' \in Seq(Records) /\ Len(records') = Len(records) - 1
    BY <2>1, <2>2, RemoveAtProperties
  <2> QED
    BY <2>1, <2>2, <2>3 DEF TableTypeOK, noUsers
<1>2. countdown' \in [Ids -> 0 .. 255]
  BY DEF DeleteNumber, SessionsInv, SessionsTypeOK, StatusTypeOK
<1> QED
  BY <1>1, <1>2, SecondStepInv DEF DeleteNumber
(* Switching the messages on or off, or setting how often they come,       *)
(* changes one record at most.                                             *)
LEMMA SwitchBroadcastInv ==
  ASSUME SessionsInv, NEW no, NEW on \in BOOLEAN, SwitchBroadcast(no, on)
  PROVE  SessionsInv'
<1> DEFINE u == IdOf(no)
<1>1. TableTypeOK /\ SecondStep(no, "enable_broadcast") /\ u \in Ids
  BY SecondStepSession DEF SwitchBroadcast, SessionsInv, SessionsTypeOK
<1>2. TableTypeOK'
  <2>1. CASE u <= noUsers
    <3>1. [records[u] EXCEPT !.broadcast = on] \in Records
      BY <1>1, <2>1, RecordOfId
    <3>2. records' = [records EXCEPT ![u] = [records[u] EXCEPT !.broadcast = on]]
      BY <2>1 DEF SwitchBroadcast
    <3> QED
      BY <1>1, <2>1, <3>1, <3>2, ChangedRecord
  <2>2. CASE ~ (u <= noUsers)
    BY <1>1, <2>2 DEF SwitchBroadcast, TableTypeOK, noUsers
  <2> QED
    BY <2>1, <2>2
<1>3. countdown' \in [Ids -> 0 .. 255]
  <2>1. PICK freq \in IF u <= noUsers THEN {records[u].freq} ELSE Freqs :
          countdown' = [countdown EXCEPT ![u] = IF ~on THEN 0 ELSE IF freq > 0 THEN freq ELSE @]
    BY DEF SwitchBroadcast
  <2>2. freq \in 0 .. 255
    <3>1. CASE u <= noUsers
      BY <1>1, <2>1, <3>1, RecordOfId, ZenonT(60) DEF Records
    <3>2. CASE ~ (u <= noUsers)
      BY <2>1, <3>2, SessionsAssumption
    <3> QED
      BY <3>1, <3>2
  <2> HIDE DEF u
  <2> QED
    BY <1>1, <2>1, <2>2 DEF SessionsInv, SessionsTypeOK, StatusTypeOK
<1> QED
  BY <1>1, <1>2, <1>3, SecondStepInv

LEMMA SetFrequencyInv ==
  ASSUME SessionsInv, NEW no, NEW freq \in Freqs, SetFrequency(no, freq)
  PROVE  SessionsInv'
<1> DEFINE u == IdOf(no)
<1>1. TableTypeOK /\ SecondStep(no, "status_freq") /\ u \in Ids
  BY SecondStepSession DEF SetFrequency, SessionsInv, SessionsTypeOK
<1>2. freq \in 0 .. 255
  BY SessionsAssumption
<1>3. TableTypeOK'
  <2>1. CASE u <= noUsers
    <3>1. [records[u] EXCEPT !.freq = freq] \in Records
      BY <1>1, <1>2, <2>1, RecordOfId
    <3>2. records' = [records EXCEPT ![u] = [records[u] EXCEPT !.freq = freq]]
      BY <2>1 DEF SetFrequency
    <3> QED
      BY <1>1, <2>1, <3>1, <3>2, ChangedRecord
  <2>2. CASE ~ (u <= noUsers)
    BY <1>1, <2>2 DEF SetFrequency, TableTypeOK, noUsers
  <2> QED
    BY <2>1, <2>2
<1>4. countdown' \in [Ids -> 0 .. 255]
  <2>1. PICK on : countdown' = [countdown EXCEPT ![u] = IF on /\ freq > 0 THEN freq ELSE @]
    BY DEF SetFrequency
  <2> HIDE DEF u
  <2> QED
    BY <1>1, <1>2, <2>1 DEF SessionsInv, SessionsTypeOK, StatusTypeOK
<1> QED
  BY <1>1, <1>3, <1>4, SecondStepInv

(* Every message that is dealt with. *)
LEMMA DealtInv ==
  ASSUME SessionsInv, Dealt
  PROVE  SessionsInv'
<1>1. CASE OtherMessage
  <2>1. countdown' \in [Ids -> 0 .. 255]
    BY <1>1 DEF OtherMessage, statusVars, SessionsInv, SessionsTypeOK, StatusTypeOK
  <2>2. StatusTypeOK' /\ DueToHolder'
    BY <1>1, <2>1, DealtDue DEF OtherMessage, statusVars
  <2> QED
    BY <1>1, <2>2
       DEF OtherMessage, sessionVars, SessionsInv, SessionsTypeOK, TableTypeOK, SessionTypeOK,
           SessionTimed, InputHasOption, noUsers
<1>2. ASSUME NEW no \in Numbers, MenuMessage(no)
      PROVE  SessionsInv'
  <2>1. CASE OpenSession(no)
    BY <2>1, OpenSessionInv
  <2>2. CASE InvalidInput(no)
    <3>1. PICK o \in Options : SecondStep(no, o)
      BY <2>2 DEF InvalidInput
    <3>2. TableTypeOK' /\ countdown' \in [Ids -> 0 .. 255]
      BY <2>2 DEF InvalidInput, SessionsInv, SessionsTypeOK, TableTypeOK, StatusTypeOK, noUsers
    <3> QED
      BY <3>1, <3>2, SecondStepInv
  <2>3. ASSUME NEW o \in Options, ChooseOption(no, o)
        PROVE  SessionsInv'
    BY <2>3, ChooseOptionInv
  <2>4. ASSUME NEW new \in Others, AddNumber(no, new)
        PROVE  SessionsInv'
    BY <2>4, AddNumberInv
  <2>5. ASSUME NEW i \in 1 .. MaxUsers, DeleteNumber(no, i)
        PROVE  SessionsInv'
    BY <2>5, DeleteNumberInv
  <2>6. ASSUME NEW on \in BOOLEAN, SwitchBroadcast(no, on)
        PROVE  SessionsInv'
    BY <2>6, SwitchBroadcastInv
  <2>7. ASSUME NEW freq \in Freqs, SetFrequency(no, freq)
        PROVE  SessionsInv'
    BY <2>7, SetFrequencyInv
  <2> QED
    BY <1>2, <2>1, <2>2, <2>3, <2>4, <2>5, <2>6, <2>7 DEF MenuMessage
<1> QED
  BY <1>1, <1>2 DEF Dealt

(* The sessions are aged: one whose time runs out ends, the others keep    *)
(* some.                                                                   *)
LEMMA AgeInv ==
  ASSUME SessionsInv, Age
  PROVE  SessionTypeOK' /\ SessionTimed' /\ InputHasOption'
<1> DEFINE aged == {i \in 1 .. noUsers : timing[i] > 0}
           ended == {i \in aged : timing[i] = 1}
<1>1. aged \in SUBSET Ids /\ ended \in SUBSET Ids
  BY RecordsTyped DEF SessionsInv, SessionsTypeOK
<1>2. /\ timing' = [i \in Ids |-> IF i \in aged THEN timing[i] - 1 ELSE timing[i]]
      /\ End(ended) /\ UNCHANGED <<menu, option>>
  BY DEF Age
<1>3. session' = session \ ended /\ opener' \in [Ids -> Numbers \cup {"nobody"}]
  BY <1>1, <1>2, EndInv DEF SessionsInv, SessionsTypeOK
<1>4. timing \in [Ids -> 0 .. SessionTime] /\ SessionTime \in Nat
  BY SessionsAssumption DEF SessionsInv, SessionsTypeOK, SessionTypeOK
<1>5. ASSUME NEW i \in Ids
      PROVE  timing'[i] \in 0 .. SessionTime /\ (timing[i] > 0 /\ i \notin ended => timing'[i] > 0)
  BY <1>2, <1>4
<1>6. timing' \in [Ids -> 0 .. SessionTime]
  BY <1>2, <1>5
<1> HIDE DEF aged, ended
<1> QED
  BY <1>2, <1>3, <1>5, <1>6
     DEF SessionsInv, SessionsTypeOK, SessionTypeOK, SessionTimed, InputHasOption

(* A status that becomes due is due to who has the record.                 *)
LEMMA CountDownInv ==
  ASSUME SessionsInv, app = "app_idle", updates = {}, CountDown, UNCHANGED <<records, app>>
  PROVE  StatusTypeOK' /\ DueToHolder'
<1> DEFINE counted == {i \in 1 .. noUsers : countdown[i] > 0}
           over == {i \in counted : countdown[i] = 1}
<1>1. /\ countdown' = [i \in Ids |-> IF i \in over THEN records[i].freq
                                     ELSE IF i \in counted THEN countdown[i] - 1
                                     ELSE countdown[i]]
      /\ updates' = over
      /\ due' = [i \in Ids |-> IF i \in over THEN records[i].no ELSE due[i]]
      /\ queued' \in BOOLEAN
  BY DEF CountDown
<1>2. over \subseteq Ids /\ \A i \in over : i <= noUsers /\ records[i] \in Records
  BY RecordsTyped DEF SessionsInv, SessionsTypeOK
<1>3. countdown \in [Ids -> 0 .. 255] /\ due \in [Ids -> Numbers \cup {"nobody"}]
  BY DEF SessionsInv, SessionsTypeOK, StatusTypeOK
<1>4. countdown' \in [Ids -> 0 .. 255]
  BY <1>1, <1>2, <1>3 DEF Records
<1>5. due' \in [Ids -> Numbers \cup {"nobody"}] /\ \A i \in over : due'[i] = records[i].no
  BY <1>1, <1>2, <1>3 DEF Records
<1> HIDE DEF counted, over
<1> QED
  BY <1>1, <1>2, <1>4, <1>5 DEF StatusTypeOK, DueToHolder, noUsers

(* The update period, in app_idle and in app_active. *)
LEMMA TickInv ==
  ASSUME SessionsInv, IdleTick \/ ActiveTick
  PROVE  SessionsInv'
<1>1. SessionTypeOK' /\ SessionTimed' /\ InputHasOption'
  BY AgeInv DEF IdleTick, ActiveTick
<1>2. TableTypeOK'
  BY DEF IdleTick, ActiveTick, SessionsInv, SessionsTypeOK, TableTypeOK, noUsers
<1>3. StatusTypeOK' /\ DueToHolder'
  <2>1. CASE UNCHANGED <<records, statusVars, app>>
    BY <2>1 DEF statusVars, SessionsInv, SessionsTypeOK, StatusTypeOK, DueToHolder, noUsers
  <2>2. CASE IdleTick /\ updates = {} /\ CountDown
    BY <2>2, CountDownInv DEF IdleTick
  <2> QED
    BY <2>1, <2>2 DEF IdleTick, ActiveTick, statusVars
<1> QED
  BY <1>1, <1>2, <1>3 DEF SessionsInv, SessionsTypeOK

(* A step of a broadcast: the first who is owed a message gets it.         *)
LEMMA SendNextInv ==
  ASSUME SessionsInv, SendNext
  PROVE  /\ SessionsInv'
         /\ \A i \in updates \ updates' : records[i].no = due[i]
<1> DEFINE i == Min(Reachable)
<1>1. i \in updates /\ i \in Ids
  <2>1. Reachable \in SUBSET Nat /\ Reachable # {} /\ Reachable \subseteq updates
    BY RecordsTyped DEF Reachable, SendNext, SessionsInv, SessionsTypeOK
  <2> QED
    BY <2>1, MinOfNaturals DEF SessionsInv, SessionsTypeOK, StatusTypeOK
<1>2. /\ updates' = updates \ {i} /\ due' = [due EXCEPT ![i] = "nobody"]
      /\ app = "send_broadcast"
      /\ UNCHANGED <<records, sessionVars, countdown, queued, app>>
  BY DEF SendNext
<1> HIDE DEF i
<1>3. StatusTypeOK' /\ DueToHolder'
  BY <1>1, <1>2 DEF SessionsInv, SessionsTypeOK, StatusTypeOK, DueToHolder, noUsers
<1>4. (TableTypeOK /\ SessionTypeOK /\ SessionTimed /\ InputHasOption)'
  BY <1>2 DEF SessionsInv, SessionsTypeOK, TableTypeOK, SessionTypeOK, SessionTimed,
              InputHasOption, sessionVars, noUsers
<1> QED
  BY <1>1, <1>2, <1>3, <1>4 DEF SessionsInv, SessionsTypeOK, DueToHolder

(* The steps that only pass from one state of the application to another.  *)
LEMMA PassingInv ==
  ASSUME SessionsInv,
         NewMessage \/ Replied \/ BeginBroadcast \/ EndBroadcast \/ UNCHANGED sessionsVars
  PROVE  SessionsInv'
<1>1. UNCHANGED <<records, sessionVars, countdown, updates, due>>
  BY DEF NewMessage, Replied, BeginBroadcast, EndBroadcast, statusVars, sessionsVars
<1>2. (TableTypeOK /\ SessionTypeOK /\ SessionTimed /\ InputHasOption)'
  BY <1>1 DEF SessionsInv, SessionsTypeOK, TableTypeOK, SessionTypeOK, SessionTimed,
              InputHasOption, sessionVars, noUsers
<1>3. /\ app' \in {"app_idle", "reciever", "replying", "send_broadcast"}
      /\ queued' = FALSE \/ queued' = queued
      /\ queued' => app' = "app_idle"
      /\ queued' \/ app' = "send_broadcast" => queued \/ app = "send_broadcast"
  BY DEF SessionsInv, SessionsTypeOK, StatusTypeOK, DueToHolder, NewMessage, Replied,
         BeginBroadcast, EndBroadcast, statusVars, sessionsVars
<1>4. StatusTypeOK'
  BY <1>1, <1>3 DEF SessionsInv, SessionsTypeOK, StatusTypeOK
<1>5. DueToHolder'
  BY <1>1, <1>3 DEF SessionsInv, DueToHolder, noUsers
<1> QED
  BY <1>2, <1>4, <1>5 DEF SessionsInv, SessionsTypeOK

(* No step of the sessions and status messages breaks the invariant.       *)
LEMMA NextInv ==
  ASSUME SessionsInv, [SessionsNext]_sessionsVars
  PROVE  SessionsInv'
BY RestartInv, DealtInv, TickInv, SendNextInv, PassingInv DEF SessionsNext

LEMMA SessionsInvariant == SessionsSpec => []SessionsInv
BY InitInv, NextInv, PTL DEF SessionsSpec

-----------------------------------------------------------------------------
(* What follows. *)

(* The bits, counters and records of sessions and status messages have     *)
(* their types however users come and go: ids keep to their four bits.     *)
THEOREM SessionsTypesHold == SessionsSpec => []SessionsTypeOK
BY SessionsInvariant, PTL DEF SessionsInv

(* No open session is without time: update_session_timings ends each that  *)
(* it counts.                                                              *)
THEOREM SessionsAreTimed == SessionsSpec => []SessionTimed
BY SessionsInvariant, PTL DEF SessionsInv

(* An input is always one for an option that its own session has chosen:   *)
(* action_menu clears what an earlier session of the id has left.          *)
THEOREM InputsHaveOptions == SessionsSpec => []InputHasOption
BY SessionsInvariant, PTL DEF SessionsInv

(* A status message goes to the user it became due to, whoever is added or *)
(* deleted: a message that could move the records drops the broadcast.     *)
THEOREM StatusToItsRecipient == SessionsSpec => RightRecipient
<1>1. SessionsInv /\ [SessionsNext]_sessionsVars
        => [Sending => \A i \in updates \ updates' : records[i].no = due[i]]_sessionsVars
  <2> SUFFICES ASSUME SessionsInv, SessionsNext, Sending
               PROVE  \A i \in updates \ updates' : records[i].no = due[i]
    OBVIOUS
  <2>1. CASE SendNext
    BY <2>1, SendNextInv
  <2>2. CASE ActiveTick
    BY <2>2 DEF ActiveTick, statusVars
  <2> QED
    BY <2>1, <2>2 DEF SessionsNext, Sending, Restart, NewMessage, Dealt, OtherMessage, MenuMessage,
       OpenSession, InvalidInput, ChooseOption, AddNumber, DeleteNumber, SwitchBroadcast,
       SetFrequency, SecondStep, Answer, Replied, IdleTick, BeginBroadcast, EndBroadcast
<1> QED
  BY <1>1, SessionsInvariant, PTL DEF SessionsSpec, RightRecipient
=============================================================================
