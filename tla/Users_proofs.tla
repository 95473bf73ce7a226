---------------------------- MODULE Users_proofs -----------------------------
(***************************************************************************)
(* The users of the device, proved for every owner, any other numbers, any *)
(* number of users that a byte counts and any number of power failures:    *)
(* the types of the tables, the agreement of the counts, that no record is *)
(* hidden, that the owner stays the first user, and what each handler does *)
(* to the list of numbers.                                                 *)
(***************************************************************************)
EXTENDS Users, Integers, SequenceTheorems, TLAPS

-----------------------------------------------------------------------------
(* The invariant. *)

(* The cells hold what belongs into them, and so do the writes to come.    *)
UserRecord == [id : 0 .. MaxUsers, no : Texts, by : Texts]
Fits(cell, v) ==
  IF cell = <<"boot", 0>> THEN v \in BOOLEAN
  ELSE IF IsRecord(cell) THEN v \in UserRecord ELSE v \in 0 .. Erased
Writes == [cell : Cells, value : UserRecord \cup BOOLEAN \cup 0 .. Erased]

EepromFits ==
  /\ eeprom = [c \in Cells |-> eeprom[c]]
  /\ \A c \in Cells : Fits(c, eeprom[c])
TodoFits ==
  /\ todo \in Seq(Writes)
  /\ \A k \in 1 .. Len(todo) : Fits(todo[k].cell, todo[k].value)

(* A write to the record of a user, which keeps the owner the first.       *)
KeepsOwner(cell, v) ==
  /\ IsRecord(cell)
  /\ cell = <<"users", 1>> => v.id = 1 /\ v.no = Owner
Harmless(m, n) == \A k \in m .. n : KeepsOwner(todo[k].cell, todo[k].value)

(* The rest of the first boot, and what has been written before it.        *)
BootWrites ==
  << Put("users", 0, 0), Put("settings", 0, 0),
     Put("users", 1, User(1, Owner, "nobody")), Put("users", 0, 1),
     Put("settings", 1, 1), Put("settings", 0, 1), Put("boot", 0, TRUE) >>
BootingAt(k) ==
  /\ Len(todo) = 8 - k
  /\ \A i \in 1 .. 8 - k : todo[i] = BootWrites[k + i - 1]
  /\ k >= 4 => Rec("users", 1) = User(1, Owner, "nobody")
  /\ k >= 5 => Count("users") = 1
  /\ k >= 6 => Stored = 1
  /\ k >= 7 => Count("settings") = 1
Booting == \E k \in 1 .. 7 : BootingAt(k)

(* Users on record that are not in the table. *)
Missing == Stored - Count("users")

(* Where a handler is: it has nothing more to write but records ...        *)
Changing ==
  /\ Harmless(1, Len(todo))
  /\ noUsers = Stored /\ Missing <= failures
(* ... is adding a user, who is counted before the table has him ...       *)
Adding ==
  /\ Len(todo) >= 2 /\ Harmless(2, Len(todo) - 1)
  /\ todo[1] = Put("settings", 1, noUsers)
  /\ todo[Len(todo)] = WriteHead("users", Count("users") + 1)
  /\ noUsers = Stored + 1 /\ Missing <= failures
Appending ==
  /\ Len(todo) >= 1 /\ Harmless(1, Len(todo) - 1)
  /\ todo[Len(todo)] = WriteHead("users", Count("users") + 1)
  /\ noUsers = Stored /\ Count("users") < Stored /\ Missing <= failures + 1
(* ... or deleting one, who is counted until the table has him no more.    *)
Deleting ==
  /\ Len(todo) >= 2 /\ Harmless(1, Len(todo) - 2)
  /\ todo[Len(todo) - 1] = WriteHead("users", Count("users") - 1)
  /\ todo[Len(todo)] = Put("settings", 1, noUsers)
  /\ noUsers = Stored - 1 /\ Count("users") >= 2 /\ Missing <= failures
Settling ==
  /\ Len(todo) = 1 /\ todo[1] = Put("settings", 1, noUsers)
  /\ noUsers = Stored - 1 /\ Count("users") < Stored /\ Missing <= failures + 1

Handling == Changing \/ Adding \/ Appending \/ Deleting \/ Settling

(* What is true of the tables of a device that has booted once.            *)
Tables ==
  /\ Count("settings") = 1 /\ Count("users") >= 1 /\ Count("users") <= Stored /\ Stored <= MaxUsers
  /\ Rec("users", 1).id = 1 /\ Rec("users", 1).no = Owner

UsersInv ==
  /\ EepromFits /\ TodoFits
  /\ up \in BOOLEAN /\ noUsers \in 0 .. MaxUsers /\ failures \in Nat
  /\ ~Booted => ~up /\ (todo = <<>> \/ Booting)
  /\ Booted => Tables
  /\ Booted /\ ~up => todo = <<>> /\ Missing <= failures
  /\ up => Handling

-----------------------------------------------------------------------------
(* Cells, writes and counts. *)

LEMMA Constants ==
  /\ MaxUsers \in Nat /\ MaxUsers >= 1 /\ MaxUsers <= 255
  /\ Limit["users"] \in Nat /\ Limit["users"] >= MaxUsers
  /\ Limit["settings"] \in Nat /\ Limit["settings"] >= 1
  /\ Limit["boot"] \in Nat /\ DOMAIN Limit = {"boot", "users", "settings"}
  /\ Erased \in Nat /\ MaxUsers <= Erased
<1>1. Erased \in Nat /\ 255 <= Erased
  BY SMT DEF Erased
<1> QED
  BY <1>1, UsersAssumption, EdbAssumption, SMT

LEMMA CellsByTable ==
  /\ \A t \in {"boot", "users", "settings"} : \A i \in 0 .. Limit[t] : <<t, i>> \in Cells
  /\ \A c \in Cells : /\ c[1] \in {"boot", "users", "settings"}
                      /\ c[2] \in 0 .. Limit[c[1]] /\ c = <<c[1], c[2]>>
<1>1. ASSUME NEW t \in {"boot", "users", "settings"}, NEW i \in 0 .. Limit[t]
      PROVE  <<t, i>> \in Cells
  <2>1. <<t, i>> \in {t} \X (0 .. Limit[t]) /\ t \in DOMAIN Limit
    BY Constants
  <2> QED
    BY <2>1 DEF Cells
<1>2. ASSUME NEW c \in Cells
      PROVE  /\ c[1] \in {"boot", "users", "settings"}
             /\ c[2] \in 0 .. Limit[c[1]] /\ c = <<c[1], c[2]>>
  <2>1. PICK t \in DOMAIN Limit : c \in {t} \X (0 .. Limit[t])
    BY DEF Cells
  <2> QED
    BY <2>1, Constants
<1> QED
  BY <1>1, <1>2

(* The cells that are no user's record. *)
LEMMA Headers ==
  /\ <<"boot", 0>> \in Cells /\ <<"users", 0>> \in Cells
  /\ <<"settings", 0>> \in Cells /\ <<"settings", 1>> \in Cells /\ <<"users", 1>> \in Cells
  /\ ~IsRecord(<<"boot", 0>>) /\ ~IsRecord(<<"users", 0>>)
  /\ ~IsRecord(<<"settings", 0>>) /\ ~IsRecord(<<"settings", 1>>) /\ IsRecord(<<"users", 1>>)
<1>1. 0 \in 0 .. Limit["boot"] /\ 0 \in 0 .. Limit["users"] /\ 0 \in 0 .. Limit["settings"]
      /\ 1 \in 0 .. Limit["settings"] /\ 1 \in 0 .. Limit["users"]
  BY Constants
<1>2. /\ <<"boot", 0>> \in Cells /\ <<"users", 0>> \in Cells
      /\ <<"settings", 0>> \in Cells /\ <<"settings", 1>> \in Cells /\ <<"users", 1>> \in Cells
  BY <1>1, CellsByTable
<1> QED
  BY <1>2 DEF IsRecord

LEMMA CountsAreNumbers ==
  ASSUME EepromFits
  PROVE  /\ Booted \in BOOLEAN /\ Count("users") \in 0 .. Erased
         /\ Count("settings") \in 0 .. Erased /\ Stored \in 0 .. Erased
         /\ Rec("users", 1) \in UserRecord
<1>1. <<"users", 0>> # <<"boot", 0>> /\ <<"settings", 0>> # <<"boot", 0>>
      /\ <<"settings", 1>> # <<"boot", 0>> /\ <<"users", 1>> # <<"boot", 0>>
  OBVIOUS
<1> QED
  BY <1>1, Headers DEF EepromFits, Fits, Booted, Count, Stored, Rec

LEMMA PutFits ==
  ASSUME NEW t \in {"boot", "users", "settings"}, NEW i \in 0 .. Limit[t], NEW v,
         Fits(<<t, i>>, v)
  PROVE  /\ Put(t, i, v) \in Writes /\ Put(t, i, v).cell = <<t, i>> /\ Put(t, i, v).value = v
         /\ Fits(Put(t, i, v).cell, Put(t, i, v).value)
<1>1. <<t, i>> \in Cells
  BY CellsByTable
<1>2. v \in UserRecord \cup BOOLEAN \cup 0 .. Erased
  BY DEF Fits
<1> QED
  BY <1>1, <1>2 DEF Put, Writes

LEMMA PutIs ==
  ASSUME NEW t, NEW i, NEW v
  PROVE  Put(t, i, v).cell = <<t, i>> /\ Put(t, i, v).value = v
BY DEF Put

LEMMA HeadIs ==
  ASSUME NEW t, NEW n
  PROVE  WriteHead(t, n).cell = <<t, 0>> /\ WriteHead(t, n).value = n
BY DEF Put, WriteHead

LEMMA FirstWrite ==
  ASSUME TodoFits, todo # <<>>
  PROVE  /\ Head(todo) = todo[1] /\ todo[1].cell \in Cells /\ Fits(todo[1].cell, todo[1].value)
         /\ Tail(todo) \in Seq(Writes) /\ Len(Tail(todo)) = Len(todo) - 1
         /\ Len(todo) \in Nat /\ Len(todo) >= 1
         /\ \A k \in 1 .. Len(todo) - 1 : Tail(todo)[k] = todo[k + 1]
<1>1. todo \in Seq(Writes)
  BY DEF TodoFits
<1>2. Len(todo) \in Nat /\ Len(todo) # 0 /\ Head(todo) = todo[1]
  BY <1>1, EmptySeq, LenProperties
<1>3. /\ Tail(todo) \in Seq(Writes) /\ Len(Tail(todo)) = Len(todo) - 1
      /\ \A k \in 1 .. Len(Tail(todo)) : Tail(todo)[k] = todo[k + 1]
      /\ Head(todo) \in Writes
  BY <1>1, HeadTailProperties
<1>4. todo[1].cell \in Cells
  BY <1>2, <1>3 DEF Writes
<1>5. Fits(todo[1].cell, todo[1].value)
  BY <1>2 DEF TodoFits
<1> QED
  BY <1>2, <1>3, <1>4, <1>5

LEMMA TailFits ==
  ASSUME TodoFits, todo # <<>>, todo' = Tail(todo)
  PROVE  TodoFits'
<1>1. /\ todo' \in Seq(Writes) /\ Len(todo') = Len(todo) - 1 /\ Len(todo) \in Nat
      /\ \A k \in 1 .. Len(todo) - 1 : todo'[k] = todo[k + 1]
  BY FirstWrite
<1>2. ASSUME NEW k \in 1 .. Len(todo') PROVE Fits(todo'[k].cell, todo'[k].value)
  <2>1. k + 1 \in 1 .. Len(todo) /\ todo'[k] = todo[k + 1]
    BY <1>1
  <2> QED
    BY <2>1 DEF TodoFits
<1> QED
  BY <1>1, <1>2 DEF TodoFits, Fits, IsRecord

LEMMA HarmlessTail ==
  ASSUME TodoFits, todo # <<>>, todo' = Tail(todo), NEW m \in Nat, NEW n \in Nat,
         m >= 1, n < Len(todo), Harmless(m + 1, n + 1)
  PROVE  Harmless(m, n)'
<1>1. /\ Len(todo) \in Nat
      /\ \A k \in 1 .. Len(todo) - 1 : todo'[k] = todo[k + 1]
  BY FirstWrite
<1>2. ASSUME NEW k \in m .. n PROVE KeepsOwner(todo'[k].cell, todo'[k].value)
  <2>1. k + 1 \in m + 1 .. n + 1 /\ k \in 1 .. Len(todo) - 1
    BY <1>1
  <2> QED
    BY <1>1, <2>1 DEF Harmless
<1> QED
  BY <1>2 DEF Harmless, KeepsOwner, IsRecord

-----------------------------------------------------------------------------
(* What one write changes. *)

LEMMA OneCell ==
  ASSUME EepromFits, NEW cell \in Cells, NEW v, Fits(cell, v),
         eeprom' = [eeprom EXCEPT ![cell] = v]
  PROVE  /\ EepromFits'
         /\ \A c \in Cells : eeprom'[c] = IF c = cell THEN v ELSE eeprom[c]
<1>1. eeprom = [c \in Cells |-> eeprom[c]]
  BY DEF EepromFits
<1>2. \A c \in Cells : eeprom'[c] = IF c = cell THEN v ELSE eeprom[c]
  BY <1>1
<1>3. eeprom' = [c \in Cells |-> eeprom'[c]]
  BY <1>1
<1>4. \A c \in Cells : Fits(c, eeprom'[c])
  BY <1>2 DEF EepromFits
<1> QED
  BY <1>2, <1>3, <1>4 DEF EepromFits, Fits, IsRecord

(* The write of a record, or a part of one, leaves the counts and the      *)
(* owner as they are.                                                      *)
LEMMA RecordWritten ==
  ASSUME EepromFits, Booted, Tables, NEW cell \in Cells, NEW v, Fits(cell, v),
         KeepsOwner(cell, v), eeprom' = [eeprom EXCEPT ![cell] = v]
  PROVE  Booted' /\ Tables' /\ Count("users")' = Count("users") /\ Stored' = Stored
<1>1. \A c \in Cells : eeprom'[c] = IF c = cell THEN v ELSE eeprom[c]
  BY OneCell
<1>2. /\ <<"boot", 0>> # cell /\ <<"users", 0>> # cell /\ <<"settings", 0>> # cell
      /\ <<"settings", 1>> # cell
  BY Headers DEF KeepsOwner
<1>3. /\ eeprom'[<<"boot", 0>>] = eeprom[<<"boot", 0>>]
      /\ eeprom'[<<"users", 0>>] = eeprom[<<"users", 0>>]
      /\ eeprom'[<<"settings", 0>>] = eeprom[<<"settings", 0>>]
      /\ eeprom'[<<"settings", 1>>] = eeprom[<<"settings", 1>>]
  BY <1>1, <1>2, Headers
<1>4. eeprom'[<<"users", 1>>].id = 1 /\ eeprom'[<<"users", 1>>].no = Owner
  <2>1. CASE cell = <<"users", 1>>
    BY <2>1, <1>1, Headers DEF KeepsOwner
  <2>2. CASE cell # <<"users", 1>>
    BY <2>2, <1>1, Headers DEF Tables, Rec
  <2> QED
    BY <2>1, <2>2
<1> QED
  BY <1>3, <1>4 DEF Booted, Tables, Count, Rec, Stored

(* The write of the number of records, and of the number of users.         *)
LEMMA CountWritten ==
  ASSUME EepromFits, Booted, Tables, NEW n \in 1 .. Stored,
         eeprom' = [eeprom EXCEPT ![<<"users", 0>>] = n]
  PROVE  Booted' /\ Tables' /\ Count("users")' = n /\ Stored' = Stored
<1>1. n \in 0 .. Erased
  BY CountsAreNumbers, Constants
<1>2. Fits(<<"users", 0>>, n)
  BY <1>1, Headers DEF Fits
<1>3. \A c \in Cells : eeprom'[c] = IF c = <<"users", 0>> THEN n ELSE eeprom[c]
  BY <1>2, OneCell, Headers
<1>4. /\ eeprom'[<<"boot", 0>>] = eeprom[<<"boot", 0>>]
      /\ eeprom'[<<"users", 0>>] = n
      /\ eeprom'[<<"settings", 0>>] = eeprom[<<"settings", 0>>]
      /\ eeprom'[<<"settings", 1>>] = eeprom[<<"settings", 1>>]
      /\ eeprom'[<<"users", 1>>] = eeprom[<<"users", 1>>]
  BY <1>3, Headers
<1> QED
  BY <1>4, CountsAreNumbers DEF Booted, Tables, Count, Rec, Stored

LEMMA StoredWritten ==
  ASSUME EepromFits, Booted, Tables, NEW n \in Nat, Count("users") <= n, n <= MaxUsers,
         eeprom' = [eeprom EXCEPT ![<<"settings", 1>>] = n]
  PROVE  Booted' /\ Tables' /\ Count("users")' = Count("users") /\ Stored' = n
<1>1. n \in 0 .. Erased
  BY Constants
<1>2. Fits(<<"settings", 1>>, n)
  BY <1>1, Headers DEF Fits
<1>3. \A c \in Cells : eeprom'[c] = IF c = <<"settings", 1>> THEN n ELSE eeprom[c]
  BY <1>2, OneCell, Headers
<1>4. /\ eeprom'[<<"boot", 0>>] = eeprom[<<"boot", 0>>]
      /\ eeprom'[<<"users", 0>>] = eeprom[<<"users", 0>>]
      /\ eeprom'[<<"settings", 0>>] = eeprom[<<"settings", 0>>]
      /\ eeprom'[<<"settings", 1>>] = n
      /\ eeprom'[<<"users", 1>>] = eeprom[<<"users", 1>>]
  BY <1>3, Headers
<1> QED
  BY <1>4, CountsAreNumbers DEF Booted, Tables, Count, Rec, Stored

-----------------------------------------------------------------------------
(* The first boot. *)

LEMMA Nobody == "nobody" \in Texts /\ Owner \in Texts /\ Others \subseteq Texts
BY DEF Texts

LEMMA FirstBootWrites ==
  /\ FirstBoot \in Seq(Writes) /\ Len(FirstBoot) = 7
  /\ \A k \in 1 .. 7 : /\ FirstBoot[k] = BootWrites[k]
                       /\ Fits(FirstBoot[k].cell, FirstBoot[k].value)
<1> DEFINE w1 == Put("users", 0, 0)
           w2 == Put("settings", 0, 0)
           w3 == Put("users", 1, User(1, Owner, "nobody"))
           w4 == Put("users", 0, 1)
           w5 == Put("settings", 1, 1)
           w6 == Put("settings", 0, 1)
           w7 == Put("boot", 0, TRUE)
<1>1. /\ w1 \in Writes /\ w2 \in Writes /\ w3 \in Writes /\ w4 \in Writes /\ w5 \in Writes
      /\ w6 \in Writes /\ w7 \in Writes
      /\ Fits(w1.cell, w1.value) /\ Fits(w2.cell, w2.value) /\ Fits(w3.cell, w3.value)
      /\ Fits(w4.cell, w4.value) /\ Fits(w5.cell, w5.value) /\ Fits(w6.cell, w6.value)
      /\ Fits(w7.cell, w7.value)
  <2>1. /\ 0 \in 0 .. Limit["boot"] /\ 0 \in 0 .. Limit["users"] /\ 0 \in 0 .. Limit["settings"]
        /\ 1 \in 0 .. Limit["settings"] /\ 1 \in 0 .. Limit["users"]
        /\ 0 \in 0 .. Erased /\ 1 \in 0 .. Erased /\ 1 \in 0 .. MaxUsers
    BY Constants
  <2>2. User(1, Owner, "nobody") \in UserRecord
    BY <2>1, Nobody, Constants DEF User, UserRecord
  <2>3. /\ Fits(<<"users", 0>>, 0) /\ Fits(<<"settings", 0>>, 0)
        /\ Fits(<<"users", 1>>, User(1, Owner, "nobody")) /\ Fits(<<"users", 0>>, 1)
        /\ Fits(<<"settings", 1>>, 1) /\ Fits(<<"settings", 0>>, 1) /\ Fits(<<"boot", 0>>, TRUE)
    BY <2>1, <2>2, Headers DEF Fits
  <2> QED
    BY <2>1, <2>3, PutFits
<1>2. FirstBoot = <<w1>> \o <<w2>> \o <<w3, w4>> \o <<w5, w6>> \o <<w7>>
  <2>1. ~(0 + 1 > Limit["users"]) /\ ~(0 + 1 > Limit["settings"]) /\ 0 + 1 = 1
    BY Constants
  <2>2. AppendRec("users", 0, User(1, Owner, "nobody")) = <<w3, w4>>
    BY <2>1, Zenon DEF AppendRec, WriteHead
  <2>3. AppendRec("settings", 0, 1) = <<w5, w6>>
    BY <2>1, Zenon DEF AppendRec, WriteHead
  <2>4. Create("users") = <<w1>> /\ Create("settings") = <<w2>>
    BY DEF Create, WriteHead
  <2> HIDE DEF w1, w2, w3, w4, w5, w6, w7
  <2> QED
    BY <2>2, <2>3, <2>4, Zenon DEF FirstBoot, w7
<1> HIDE DEF w1, w2, w3, w4, w5, w6, w7
<1> DEFINE a == <<w1>> \o <<w2>>
           b == a \o <<w3, w4>>
           c == b \o <<w5, w6>>
           d == c \o <<w7>>
<1>3. /\ <<w1>> \in Seq(Writes) /\ <<w2>> \in Seq(Writes) /\ <<w3, w4>> \in Seq(Writes)
      /\ <<w5, w6>> \in Seq(Writes) /\ <<w7>> \in Seq(Writes)
  BY <1>1
<1>4. a \in Seq(Writes) /\ Len(a) = 2 /\ a[1] = w1 /\ a[2] = w2
  <2>1. /\ a \in Seq(Writes) /\ Len(a) = Len(<<w1>>) + Len(<<w2>>)
        /\ \A i \in 1 .. Len(<<w1>>) + Len(<<w2>>) :
             a[i] = IF i <= Len(<<w1>>) THEN <<w1>>[i] ELSE <<w2>>[i - Len(<<w1>>)]
    BY <1>3, ConcatProperties
  <2> HIDE DEF a
  <2> QED
    BY <2>1
<1> HIDE DEF a
<1>5. b \in Seq(Writes) /\ Len(b) = 4 /\ b[1] = w1 /\ b[2] = w2 /\ b[3] = w3 /\ b[4] = w4
  <2>1. /\ b \in Seq(Writes) /\ Len(b) = Len(a) + Len(<<w3, w4>>)
        /\ \A i \in 1 .. Len(a) + Len(<<w3, w4>>) :
             b[i] = IF i <= Len(a) THEN a[i] ELSE <<w3, w4>>[i - Len(a)]
    BY <1>3, <1>4, ConcatProperties, ZenonT(60)
  <2> HIDE DEF b
  <2> QED
    BY <2>1, <1>4
<1> HIDE DEF b
<1>6. c \in Seq(Writes) /\ Len(c) = 6 /\ c[1] = w1 /\ c[2] = w2 /\ c[3] = w3 /\ c[4] = w4
      /\ c[5] = w5 /\ c[6] = w6
  <2>1. /\ c \in Seq(Writes) /\ Len(c) = Len(b) + Len(<<w5, w6>>)
        /\ \A i \in 1 .. Len(b) + Len(<<w5, w6>>) :
             c[i] = IF i <= Len(b) THEN b[i] ELSE <<w5, w6>>[i - Len(b)]
    <3>1. b \in Seq(Writes) /\ <<w5, w6>> \in Seq(Writes)
      BY <1>3, <1>5
    <3> QED
      BY <3>1, ConcatProperties, Zenon
  <2> HIDE DEF c
  <2> QED
    BY <2>1, <1>5
<1> HIDE DEF c
<1>7. d \in Seq(Writes) /\ Len(d) = 7 /\ d[1] = w1 /\ d[2] = w2 /\ d[3] = w3 /\ d[4] = w4
      /\ d[5] = w5 /\ d[6] = w6 /\ d[7] = w7
  <2>1. /\ d \in Seq(Writes) /\ Len(d) = Len(c) + Len(<<w7>>)
        /\ \A i \in 1 .. Len(c) + Len(<<w7>>) :
             d[i] = IF i <= Len(c) THEN c[i] ELSE <<w7>>[i - Len(c)]
    <3>1. c \in Seq(Writes) /\ <<w7>> \in Seq(Writes)
      BY <1>3, <1>6
    <3> QED
      BY <3>1, ConcatProperties, Zenon
  <2> HIDE DEF d
  <2> QED
    BY <2>1, <1>6
<1>8. FirstBoot = d
  BY <1>2 DEF a, b, c, d
<1> HIDE DEF d
<1>9. BootWrites = <<w1, w2, w3, w4, w5, w6, w7>>
  BY DEF BootWrites, w1, w2, w3, w4, w5, w6, w7
<1>10. \A k \in 1 .. 7 : k = 1 \/ k = 2 \/ k = 3 \/ k = 4 \/ k = 5 \/ k = 6 \/ k = 7
  OBVIOUS
<1> QED
  BY <1>1, <1>7, <1>8, <1>9, <1>10

LEMMA PrepareInv ==
  ASSUME UsersInv, Prepare
  PROVE  UsersInv'
<1>1. /\ EepromFits /\ up = FALSE /\ ~Booted /\ noUsers \in 0 .. MaxUsers /\ failures \in Nat
      /\ todo' = FirstBoot /\ UNCHANGED <<eeprom, up, noUsers, failures>>
  BY DEF UsersInv, Prepare
<1>2. TodoFits'
  BY <1>1, FirstBootWrites DEF TodoFits, Fits, IsRecord
<1>3. BootingAt(1)'
  <2>1. Len(todo') = 8 - 1 /\ \A i \in 1 .. 8 - 1 : todo'[i] = BootWrites[1 + i - 1]
    BY <1>1, FirstBootWrites
  <2> QED
    BY <2>1, SMT DEF BootingAt
<1>4. Booting' /\ ~Booted' /\ EepromFits'
  BY <1>1, <1>3 DEF Booting, Booted, Rec, EepromFits, Fits, IsRecord
<1> QED
  BY <1>1, <1>2, <1>4 DEF UsersInv

LEMMA StartInv ==
  ASSUME UsersInv, Start
  PROVE  UsersInv'
<1>1. /\ EepromFits /\ TodoFits /\ up = FALSE /\ todo = <<>> /\ Booted /\ Tables
      /\ Missing <= failures /\ failures \in Nat
      /\ up' = TRUE /\ noUsers' = Stored /\ UNCHANGED <<eeprom, todo, failures>>
  BY DEF UsersInv, Start, edbVars
<1>2. EepromFits' /\ TodoFits' /\ Booted' /\ Tables'
  BY <1>1 DEF EepromFits, TodoFits, Fits, IsRecord, Booted, Tables, Count, Rec, Stored
<1>3. noUsers' \in 0 .. MaxUsers
  BY <1>1, CountsAreNumbers, Constants DEF Tables
<1>4. Changing'
  <2>1. Harmless(1, Len(todo))'
    BY <1>1 DEF Harmless
  <2> QED
    BY <2>1, <1>1 DEF Changing, Missing, Stored, Count, Rec
<1> QED
  BY <1>1, <1>2, <1>3, <1>4 DEF UsersInv, Handling

-----------------------------------------------------------------------------
(* The handlers. *)

(* A handler begins with the counts agreeing but for the missing users.    *)
LEMMA Idle ==
  ASSUME UsersInv, up, todo = <<>>
  PROVE  /\ EepromFits /\ Booted /\ Tables /\ noUsers = Stored /\ Missing <= failures
         /\ noUsers \in 1 .. MaxUsers /\ failures \in Nat
         /\ Count("users") \in 1 .. noUsers /\ Count("users") <= Limit["users"]
<1>1. EepromFits /\ Booted /\ Tables /\ Handling /\ noUsers \in 0 .. MaxUsers /\ failures \in Nat
  BY DEF UsersInv
<1>2. Changing
  BY <1>1 DEF Handling, Adding, Appending, Deleting, Settling
<1>3. /\ Count("users") \in Nat /\ Stored \in Nat /\ noUsers \in Nat /\ noUsers <= MaxUsers
  BY <1>1, CountsAreNumbers, Constants
<1>4. noUsers = Stored /\ Missing <= failures
  BY <1>2 DEF Changing
<1>5. Count("users") >= 1 /\ Count("users") <= Stored /\ Stored >= 1
  BY <1>1, <1>3 DEF Tables
<1> QED
  BY <1>1, <1>3, <1>4, <1>5, Constants

(* The writes of add_no. *)
LEMMA AddNoWrites ==
  ASSUME UsersInv, NEW no \in Others, AddNo(no)
  PROVE  LET n == noUsers + 1
             c == Count("users") + 1
         IN /\ todo' \in Seq(Writes) /\ Len(todo') = 3
            /\ todo'[1] = Put("settings", 1, n)
            /\ todo'[2] = Put("users", c, User(n, no, "nobody"))
            /\ todo'[3] = WriteHead("users", c)
            /\ Fits(<<"settings", 1>>, n) /\ Fits(<<"users", 0>>, c)
            /\ Fits(<<"users", c>>, User(n, no, "nobody"))
            /\ n \in 1 .. MaxUsers /\ c \in 2 .. n /\ c <= Limit["users"]
<1> DEFINE c == Count("users")
           n == noUsers + 1
           w1 == Put("settings", 1, n)
           w2 == Put("users", c + 1, User(n, no, "nobody"))
           w3 == WriteHead("users", c + 1)
<1>1. /\ up /\ todo = <<>> /\ noUsers < MaxUsers
      /\ todo' = Settings(n) \o AppendRec("users", c, User(n, no, "nobody"))
  BY DEF AddNo
<1>2. Tables /\ noUsers \in 1 .. MaxUsers /\ c \in 1 .. noUsers
  BY <1>1, Idle
<1>3. c + 1 <= Limit["users"] /\ Count("settings") = 1
  BY <1>1, <1>2, Constants DEF Tables
<1>4. todo' = <<w1>> \o <<w2, w3>>
  <2>1. Settings(n) = <<w1>>
    BY <1>3 DEF Settings, UpdateRec
  <2>2. AppendRec("users", c, User(n, no, "nobody")) = <<w2, w3>>
    BY <1>2, <1>3, Constants DEF AppendRec
  <2> QED
    BY <1>1, <2>1, <2>2
<1>5. /\ n \in 0 .. MaxUsers /\ n \in 0 .. Erased /\ c + 1 \in 0 .. Erased
      /\ c + 1 \in 0 .. Limit["users"] /\ c + 1 > 0 /\ 0 \in 0 .. Limit["users"]
      /\ 1 \in 0 .. Limit["settings"]
  BY <1>1, <1>2, <1>3, Constants
<1>6. User(n, no, "nobody") \in UserRecord
  BY <1>5, Nobody, Constants DEF User, UserRecord
<1>7. /\ Fits(<<"settings", 1>>, n) /\ Fits(<<"users", 0>>, c + 1)
      /\ Fits(<<"users", c + 1>>, User(n, no, "nobody"))
  BY <1>5, <1>6, Headers DEF Fits, IsRecord
<1>8. w1 \in Writes /\ w2 \in Writes /\ w3 \in Writes
  BY <1>5, <1>7, PutFits DEF WriteHead
<1>9. n \in 1 .. MaxUsers /\ c + 1 \in 2 .. n
  BY <1>1, <1>2, Constants
<1> HIDE DEF w1, w2, w3
<1>10. todo' \in Seq(Writes) /\ Len(todo') = 3 /\ todo'[1] = w1 /\ todo'[2] = w2 /\ todo'[3] = w3
  <2>1. <<w1>> \in Seq(Writes) /\ <<w2, w3>> \in Seq(Writes)
    BY <1>8
  <2>2. /\ todo' \in Seq(Writes) /\ Len(todo') = Len(<<w1>>) + Len(<<w2, w3>>)
        /\ \A i \in 1 .. Len(<<w1>>) + Len(<<w2, w3>>) :
             todo'[i] = IF i <= Len(<<w1>>) THEN <<w1>>[i] ELSE <<w2, w3>>[i - Len(<<w1>>)]
    BY <1>4, <2>1, ConcatProperties
  <2> QED
    BY <2>2
<1> QED
  BY <1>3, <1>7, <1>9, <1>10 DEF w1, w2, w3

(* The write of a change of a user's record. *)
LEMMA ChangeRecordWrites ==
  ASSUME UsersInv, NEW no \in Others \cup {Owner}, ChangeRecord(no)
  PROVE  LET id == Rec("users", First(Position(no))).id
             new == [Rec("users", id) EXCEPT !.by = no]
         IN /\ id \in 1 .. Count("users") /\ Count("users") <= Limit["users"]
            /\ todo' \in Seq(Writes) /\ Len(todo') = 1 /\ todo'[1] = Put("users", id, new)
            /\ Fits(<<"users", id>>, new)
            /\ new.id = Rec("users", id).id /\ new.no = Rec("users", id).no
<1> DEFINE id == Rec("users", First(Position(no))).id
           old == Rec("users", id)
           new == [old EXCEPT !.by = no]
           w == Put("users", id, new)
<1>1. /\ up /\ todo = <<>> /\ id \in 1 .. Count("users")
      /\ todo' = UpdateRec("users", Count("users"), id, new)
  BY DEF ChangeRecord
<1>2. /\ EepromFits /\ noUsers \in 1 .. MaxUsers
      /\ Count("users") \in 1 .. noUsers /\ Count("users") <= Limit["users"]
  BY <1>1, Idle
<1> HIDE DEF id
<1>3. id \in 0 .. Limit["users"] /\ id > 0
  BY <1>1, <1>2, Constants
<1>4. <<"users", id>> \in Cells /\ IsRecord(<<"users", id>>) /\ <<"users", id>> # <<"boot", 0>>
  BY <1>3, CellsByTable DEF IsRecord
<1>5. old \in UserRecord
  BY <1>2, <1>4 DEF EepromFits, Fits, Rec
<1>6. new \in UserRecord /\ new.id = old.id /\ new.no = old.no
  BY <1>5, Nobody DEF UserRecord
<1>7. todo' = <<w>>
  BY <1>1 DEF UpdateRec
<1>8. Fits(<<"users", id>>, new)
  BY <1>4, <1>6 DEF Fits
<1>9. w \in Writes
  BY <1>3, <1>8, PutFits
<1> HIDE DEF w
<1>10. todo' \in Seq(Writes) /\ Len(todo') = 1 /\ todo'[1] = w
  BY <1>7, <1>9
<1> QED
  BY <1>1, <1>2, <1>6, <1>8, <1>10 DEF w, id

(* The writes of del_no: none but the count of users if the record is not  *)
(* there, else the records behind it, each one place down, and the counts. *)
DelNoCopies(i) == Count("users") - (i + 1)
LEMMA DelNoWrites ==
  ASSUME UsersInv, NEW i \in 1 .. MaxUsers, DelNo(i)
  PROVE  LET c == Count("users")
             n == noUsers - 1
             m == DelNoCopies(i)
         IN /\ i + 1 \notin 1 .. c =>
                 todo' \in Seq(Writes) /\ Len(todo') = 1 /\ todo'[1] = Put("settings", 1, n)
            /\ i + 1 \in 1 .. c =>
                 /\ m \in Nat /\ c >= 2
                 /\ todo' \in Seq(Writes) /\ Len(todo') = m + 2
                 /\ \A k \in 1 .. m : /\ todo'[k] = Put("users", i + k, Rec("users", i + 1 + k))
                                      /\ i + k \in 2 .. c - 1
                                      /\ Fits(<<"users", i + k>>, Rec("users", i + 1 + k))
                 /\ todo'[m + 1] = WriteHead("users", c - 1)
                 /\ todo'[m + 2] = Put("settings", 1, n)
            /\ Fits(<<"settings", 1>>, n) /\ Fits(<<"users", 0>>, c - 1)
            /\ c \in 1 .. noUsers /\ c <= Limit["users"] /\ n \in 1 .. MaxUsers
<1> DEFINE c == Count("users")
           n == noUsers - 1
           w == Put("settings", 1, n)
           h == WriteHead("users", c - 1)
           m == DelNoCopies(i)
           copies == [k \in 1 .. m |-> Put("users", i + k, Rec("users", i + 1 + k))]
<1>1. /\ up /\ todo = <<>> /\ i \in 1 .. noUsers - 1
      /\ todo' = DeleteRec("users", c, i + 1) \o Settings(n)
  BY DEF DelNo
<1>2. /\ EepromFits /\ Tables /\ noUsers \in 1 .. MaxUsers /\ c \in 1 .. noUsers
      /\ c <= Limit["users"]
  BY <1>1, Idle
<1>3. i \in Nat /\ i >= 1 /\ n \in 1 .. MaxUsers /\ c \in Nat /\ c >= 1
  BY <1>1, <1>2, Constants
<1>4. Settings(n) = <<w>>
  BY <1>2 DEF Settings, UpdateRec, Tables
<1>5. /\ n \in 0 .. Erased /\ 1 \in 0 .. Limit["settings"]
      /\ c - 1 \in 0 .. Erased /\ 0 \in 0 .. Limit["users"]
  BY <1>2, <1>3, Constants
<1>6. Fits(<<"settings", 1>>, n) /\ Fits(<<"users", 0>>, c - 1)
  BY <1>5, Headers DEF Fits
<1>7. w \in Writes /\ h \in Writes
  BY <1>5, <1>6, PutFits DEF WriteHead
<1> HIDE DEF w, h
<1>8. <<w>> \in Seq(Writes) /\ Len(<<w>>) = 1 /\ <<w>>[1] = w
  BY <1>7
<1>9. CASE i + 1 \notin 1 .. c
  <2>1. DeleteRec("users", c, i + 1) = <<>>
    BY <1>9 DEF DeleteRec
  <2>2. todo' = <<w>>
    BY <1>1, <1>4, <1>8, <2>1, ConcatEmptySeq
  <2> QED
    BY <1>2, <1>3, <1>6, <1>8, <1>9, <2>2 DEF w
<1>10. CASE i + 1 \in 1 .. c
  <2>1. m \in Nat /\ m = c - (i + 1) /\ c >= 2
    BY <1>3, <1>10 DEF DelNoCopies
  <2>2. DeleteRec("users", c, i + 1) = copies \o <<h>>
    <3>1. [k \in 1 .. c - (i + 1) |-> Put("users", i + 1 + k - 1, Rec("users", i + 1 + k))] = copies
      <4>1. \A k \in 1 .. m : i + 1 + k - 1 = i + k
        BY <1>3, <2>1
      <4> QED
        BY <2>1, <4>1
    <3> QED
      BY <1>10, <3>1 DEF DeleteRec, h
  <2>3. ASSUME NEW k \in 1 .. m
        PROVE  /\ Put("users", i + k, Rec("users", i + 1 + k)) \in Writes
               /\ i + k \in 2 .. c - 1 /\ Fits(<<"users", i + k>>, Rec("users", i + 1 + k))
    <3> DEFINE v == Rec("users", i + 1 + k)
    <3>1. /\ i + k \in 0 .. Limit["users"] /\ i + k > 0 /\ i + k \in 2 .. c - 1
          /\ i + 1 + k \in 0 .. Limit["users"] /\ i + 1 + k > 0
      BY <1>2, <1>3, <2>1, Constants
    <3>2. v \in UserRecord
      <4>1. <<"users", i + 1 + k>> \in Cells /\ IsRecord(<<"users", i + 1 + k>>)
        BY <3>1, CellsByTable DEF IsRecord
      <4>2. <<"users", i + 1 + k>> # <<"boot", 0>>
        OBVIOUS
      <4> QED
        BY <1>2, <4>1, <4>2 DEF EepromFits, Fits, Rec
    <3> HIDE DEF v
    <3>3. IsRecord(<<"users", i + k>>) /\ <<"users", i + k>> # <<"boot", 0>>
      BY <3>1 DEF IsRecord
    <3>4. Fits(<<"users", i + k>>, v)
      BY <3>2, <3>3 DEF Fits
    <3>5. Put("users", i + k, v) \in Writes
      BY <3>1, <3>4, PutFits
    <3> QED
      BY <3>1, <3>4, <3>5 DEF v
  <2>4. copies \in Seq(Writes) /\ Len(copies) = m
    <3>1. \A k \in 1 .. m : Put("users", i + k, Rec("users", i + 1 + k)) \in Writes
      BY <2>3
    <3>2. copies \in [1 .. m -> Writes]
      BY <3>1
    <3> HIDE DEF m
    <3>3. copies \in Seq(Writes)
      BY <2>1, <3>1, IsASeq
    <3> QED
      BY <2>1, <3>2, <3>3, LenProperties
  <2>5. \A k \in 1 .. m : copies[k] = Put("users", i + k, Rec("users", i + 1 + k))
    OBVIOUS
  <2> HIDE DEF copies, m
  <2> DEFINE first == copies \o <<h>>
  <2>6. /\ first \in Seq(Writes) /\ Len(first) = m + 1 /\ first[m + 1] = h
        /\ \A k \in 1 .. m : first[k] = copies[k]
    <3>1. <<h>> \in Seq(Writes) /\ Len(<<h>>) = 1 /\ <<h>>[1] = h
      BY <1>7
    <3>2. /\ first \in Seq(Writes) /\ Len(first) = m + 1
          /\ \A k \in 1 .. m + 1 : first[k] = IF k <= m THEN copies[k] ELSE <<h>>[k - m]
      BY <2>4, <3>1, ConcatProperties
    <3> HIDE DEF first
    <3> QED
      BY <2>1, <3>1, <3>2
  <2> HIDE DEF first
  <2>7. todo' = first \o <<w>>
    BY <1>1, <1>4, <2>2 DEF first
  <2>8. /\ todo' \in Seq(Writes) /\ Len(todo') = m + 2
        /\ \A k \in 1 .. m + 2 : todo'[k] = IF k <= m + 1 THEN first[k] ELSE <<w>>[k - (m + 1)]
    <3>1. /\ todo' \in Seq(Writes) /\ Len(todo') = m + 1 + 1
          /\ \A k \in 1 .. m + 1 + 1 :
               todo'[k] = IF k <= m + 1 THEN first[k] ELSE <<w>>[k - (m + 1)]
      BY <1>8, <2>6, <2>7, ConcatProperties
    <3>2. m + 1 + 1 = m + 2
      BY <2>1
    <3> QED
      BY <3>1, <3>2
  <2>9. \A k \in 1 .. m : todo'[k] = copies[k]
    <3>1. ASSUME NEW k \in 1 .. m PROVE k \in 1 .. m + 2 /\ k <= m + 1
      BY <2>1
    <3> QED
      BY <3>1, <2>6, <2>8
  <2>10. todo'[m + 1] = h
    <3>1. m + 1 \in 1 .. m + 2 /\ m + 1 <= m + 1
      BY <2>1
    <3> QED
      BY <3>1, <2>6, <2>8
  <2>11. todo'[m + 2] = w
    <3> DEFINE last == m + 2
    <3>1. last \in 1 .. m + 2 /\ ~(last <= m + 1) /\ last - (m + 1) = 1
      BY <2>1
    <3> HIDE DEF last
    <3>2. todo'[last] = <<w>>[1]
      BY <3>1, <2>8
    <3> QED
      BY <3>2, <1>8 DEF last
  <2>12. \A k \in 1 .. m : /\ todo'[k] = Put("users", i + k, Rec("users", i + 1 + k))
                           /\ i + k \in 2 .. c - 1
                           /\ Fits(<<"users", i + k>>, Rec("users", i + 1 + k))
    BY <2>3, <2>5, <2>9
  <2> QED
    BY <1>2, <1>3, <1>6, <1>10, <2>1, <2>8, <2>10, <2>11, <2>12 DEF w, h, m
<1> QED
  BY <1>9, <1>10

LEMMA AddNoInv ==
  ASSUME UsersInv, NEW no \in Others, AddNo(no)
  PROVE  UsersInv'
<1> DEFINE c == Count("users")
           n == noUsers + 1
           w1 == Put("settings", 1, n)
           w2 == Put("users", c + 1, User(n, no, "nobody"))
           w3 == WriteHead("users", c + 1)
<1>1. /\ up /\ todo = <<>> /\ noUsers' = n /\ UNCHANGED <<eeprom, up, failures>>
  BY DEF AddNo
<1>2. /\ EepromFits /\ Booted /\ Tables /\ noUsers = Stored /\ Missing <= failures
      /\ noUsers \in 1 .. MaxUsers /\ failures \in Nat /\ c \in 1 .. noUsers
  BY <1>1, Idle
<1>3. /\ todo' \in Seq(Writes) /\ Len(todo') = 3
      /\ todo'[1] = w1 /\ todo'[2] = w2 /\ todo'[3] = w3
      /\ Fits(<<"settings", 1>>, n) /\ Fits(<<"users", c + 1>>, User(n, no, "nobody"))
      /\ Fits(<<"users", 0>>, c + 1) /\ n \in 1 .. MaxUsers
  BY AddNoWrites
<1>4. /\ Fits(w1.cell, w1.value) /\ Fits(w2.cell, w2.value) /\ Fits(w3.cell, w3.value)
      /\ w2.cell = <<"users", c + 1>>
  BY <1>3 DEF Put, WriteHead
<1>5. KeepsOwner(w2.cell, w2.value)
  BY <1>2, <1>4 DEF KeepsOwner, IsRecord
<1> HIDE DEF w1, w2, w3
<1>6. TodoFits'
  <2>1. ASSUME NEW k \in 1 .. Len(todo') PROVE Fits(todo'[k].cell, todo'[k].value)
    <3>1. k = 1 \/ k = 2 \/ k = 3
      BY <1>3
    <3> QED
      BY <3>1, <1>3, <1>4
  <2> QED
    BY <1>3, <2>1 DEF TodoFits, Fits, IsRecord
<1>7. Adding'
  <2>1. ASSUME NEW k \in 2 .. Len(todo') - 1
        PROVE  KeepsOwner(todo'[k].cell, todo'[k].value)
    <3>1. k = 2
      BY <1>3
    <3> QED
      BY <3>1, <1>3, <1>5
  <2>2. Harmless(2, Len(todo) - 1)'
    BY <2>1 DEF Harmless, KeepsOwner, IsRecord
  <2>3. /\ Len(todo') >= 2 /\ todo'[1] = Put("settings", 1, noUsers')
        /\ todo'[Len(todo')] = WriteHead("users", Count("users")' + 1)
    BY <1>1, <1>3 DEF w1, w3, Count
  <2>4. noUsers' = Stored' + 1 /\ Missing' <= failures'
    BY <1>1, <1>2 DEF Missing, Stored, Rec, Count
  <2> QED
    BY <2>2, <2>3, <2>4 DEF Adding
<1>8. EepromFits' /\ Booted' /\ Tables' /\ noUsers' \in 0 .. MaxUsers
  <2>1. noUsers' \in 0 .. MaxUsers
    BY <1>1, <1>3, Constants
  <2> QED
    BY <2>1, <1>1, <1>2 DEF EepromFits, Fits, IsRecord, Booted, Tables, Count, Rec, Stored
<1> QED
  BY <1>1, <1>2, <1>6, <1>7, <1>8 DEF UsersInv, Handling

LEMMA ChangeRecordInv ==
  ASSUME UsersInv, NEW no \in Others \cup {Owner}, ChangeRecord(no)
  PROVE  UsersInv'
<1> DEFINE id == Rec("users", First(Position(no))).id
           new == [Rec("users", id) EXCEPT !.by = no]
           w == Put("users", id, new)
<1>1. up /\ todo = <<>> /\ UNCHANGED <<eeprom, up, noUsers, failures>>
  BY DEF ChangeRecord
<1>2. /\ EepromFits /\ Booted /\ Tables /\ noUsers = Stored /\ Missing <= failures
      /\ noUsers \in 1 .. MaxUsers /\ failures \in Nat /\ Count("users") \in 1 .. noUsers
  BY <1>1, Idle
<1>3. /\ id \in 1 .. Count("users") /\ todo' \in Seq(Writes) /\ Len(todo') = 1 /\ todo'[1] = w
      /\ Fits(<<"users", id>>, new)
      /\ new.id = Rec("users", id).id /\ new.no = Rec("users", id).no
  BY ChangeRecordWrites
<1> HIDE DEF id, new
<1>4. w.cell = <<"users", id>> /\ w.value = new /\ Fits(w.cell, w.value)
  BY <1>3 DEF Put
<1>5. KeepsOwner(w.cell, w.value)
  <2>1. id = 1 => new.id = 1 /\ new.no = Owner
    BY <1>2, <1>3 DEF Tables
  <2>2. w.cell[1] = "users" /\ w.cell[2] = id /\ id > 0
    BY <1>2, <1>3, <1>4, Constants
  <2>3. w.cell = <<"users", 1>> => id = 1
    BY <2>2
  <2> HIDE DEF w
  <2> QED
    BY <1>4, <2>1, <2>2, <2>3 DEF KeepsOwner, IsRecord
<1> HIDE DEF w
<1>6. TodoFits'
  <2>1. ASSUME NEW k \in 1 .. Len(todo') PROVE Fits(todo'[k].cell, todo'[k].value)
    BY <1>3, <1>4
  <2> QED
    BY <1>3, <2>1 DEF TodoFits, Fits, IsRecord
<1>7. Changing'
  <2>1. ASSUME NEW k \in 1 .. Len(todo') PROVE KeepsOwner(todo'[k].cell, todo'[k].value)
    BY <1>3, <1>5
  <2>2. Harmless(1, Len(todo))'
    BY <2>1 DEF Harmless, KeepsOwner, IsRecord
  <2> QED
    BY <2>2, <1>1, <1>2 DEF Changing, Missing, Stored, Count, Rec
<1>8. EepromFits' /\ Booted' /\ Tables'
  BY <1>1, <1>2 DEF EepromFits, Fits, IsRecord, Booted, Tables, Count, Rec, Stored
<1>9. noUsers' \in 0 .. MaxUsers
  BY <1>1, <1>2, Constants
<1> QED
  BY <1>1, <1>2, <1>6, <1>7, <1>8, <1>9 DEF UsersInv, Handling

(* The records behind the one to delete are copied down, none of them over *)
(* the first.                                                              *)
LEMMA DelNoInv ==
  ASSUME UsersInv, NEW i \in 1 .. MaxUsers, DelNo(i)
  PROVE  UsersInv'
<1> DEFINE c == Count("users")
           n == noUsers - 1
           w == Put("settings", 1, n)
           h == WriteHead("users", c - 1)
           m == DelNoCopies(i)
<1>1. /\ up /\ todo = <<>> /\ i \in 1 .. noUsers - 1 /\ noUsers' = n
      /\ UNCHANGED <<eeprom, up, failures>>
  BY DEF DelNo
<1>2. /\ EepromFits /\ Booted /\ Tables /\ noUsers = Stored /\ Missing <= failures
      /\ noUsers \in 1 .. MaxUsers /\ failures \in Nat /\ c \in 1 .. noUsers
  BY <1>1, Idle
<1>3. i \in Nat /\ i >= 1 /\ n \in 1 .. MaxUsers /\ c \in Nat /\ c >= 1
  BY <1>1, <1>2, Constants
<1>4. Fits(w.cell, w.value) /\ Fits(h.cell, h.value)
  <2>1. Fits(<<"settings", 1>>, n) /\ Fits(<<"users", 0>>, c - 1)
    BY DelNoWrites
  <2> QED
    BY <2>1 DEF Put, WriteHead
<1>5. EepromFits' /\ Booted' /\ Tables' /\ noUsers' \in 0 .. MaxUsers
  <2>1. noUsers' \in 0 .. MaxUsers
    BY <1>1, <1>3, Constants
  <2> QED
    BY <2>1, <1>1, <1>2 DEF EepromFits, Fits, IsRecord, Booted, Tables, Count, Rec, Stored
<1>6. noUsers' = Stored' - 1 /\ Missing' <= failures' /\ Missing' \in Int
  BY <1>1, <1>2, <1>3 DEF Missing, Stored, Rec, Count
<1>7. CASE i + 1 \notin 1 .. c
  <2>1. todo' \in Seq(Writes) /\ Len(todo') = 1 /\ todo'[1] = w
    BY <1>7, DelNoWrites
  <2>2. Settling'
    <3>1. todo'[1] = Put("settings", 1, noUsers')
      BY <1>1, <2>1
    <3>2. Count("users")' < Stored'
      BY <1>1, <1>2, <1>3, <1>7, SMTT(30) DEF Stored, Rec, Count
    <3> HIDE DEF w, n, c
    <3> QED
      BY <2>1, <3>1, <3>2, <1>1, <1>2, <1>6 DEF Settling
  <2> HIDE DEF w
  <2>3. TodoFits'
    <3>1. ASSUME NEW k \in 1 .. Len(todo') PROVE Fits(todo'[k].cell, todo'[k].value)
      BY <1>4, <2>1
    <3> QED
      BY <2>1, <3>1 DEF TodoFits, Fits, IsRecord
  <2> QED
    BY <1>1, <1>2, <1>5, <2>2, <2>3 DEF UsersInv, Handling
<1>8. CASE i + 1 \in 1 .. c
  <2>1. /\ m \in Nat /\ c >= 2 /\ todo' \in Seq(Writes) /\ Len(todo') = m + 2
        /\ \A k \in 1 .. m : /\ todo'[k] = Put("users", i + k, Rec("users", i + 1 + k))
                             /\ i + k \in 2 .. c - 1
                             /\ Fits(<<"users", i + k>>, Rec("users", i + 1 + k))
        /\ todo'[m + 1] = h /\ todo'[m + 2] = w
    BY <1>8, DelNoWrites
  <2>2. ASSUME NEW k \in 1 .. m
        PROVE  Fits(todo'[k].cell, todo'[k].value) /\ KeepsOwner(todo'[k].cell, todo'[k].value)
    <3> DEFINE v == Rec("users", i + 1 + k)
    <3>1. /\ todo'[k].cell = <<"users", i + k>> /\ todo'[k].value = v
          /\ Fits(<<"users", i + k>>, v) /\ i + k \in 2 .. c - 1
      <4>1. /\ todo'[k] = Put("users", i + k, v)
            /\ Fits(<<"users", i + k>>, v) /\ i + k \in 2 .. c - 1
        BY <2>1
      <4> HIDE DEF v
      <4> QED
        BY <4>1, PutIs
    <3> HIDE DEF v
    <3>2. IsRecord(<<"users", i + k>>) /\ <<"users", i + k>> # <<"users", 1>>
      BY <1>3, <3>1 DEF IsRecord
    <3> QED
      BY <3>1, <3>2 DEF KeepsOwner
  <2> HIDE DEF w, h, m
  <2>3. TodoFits'
    <3>1. ASSUME NEW k \in 1 .. Len(todo') PROVE Fits(todo'[k].cell, todo'[k].value)
      <4>1. k \in 1 .. m \/ k = m + 1 \/ k = m + 2
        BY <2>1
      <4> QED
        BY <4>1, <1>4, <2>1, <2>2
    <3> QED
      BY <2>1, <3>1 DEF TodoFits, Fits, IsRecord
  <2>4. Deleting'
    <3>1. Len(todo') - 2 = m /\ Len(todo') - 1 = m + 1 /\ Len(todo') >= 2
      BY <2>1
    <3>2. Harmless(1, Len(todo) - 2)'
      BY <2>2, <3>1 DEF Harmless, KeepsOwner, IsRecord
    <3>3. Count("users")' = c
      BY <1>1 DEF Count
    <3>4. /\ todo'[Len(todo') - 1] = WriteHead("users", Count("users")' - 1)
          /\ todo'[Len(todo')] = Put("settings", 1, noUsers')
      BY <2>1, <3>1, <3>3, <1>1 DEF w, h
    <3> HIDE DEF c
    <3> QED
      BY <2>1, <3>1, <3>2, <3>3, <3>4, <1>6 DEF Deleting
  <2> QED
    BY <1>1, <1>2, <1>5, <2>3, <2>4 DEF UsersInv, Handling
<1> QED
  BY <1>7, <1>8

-----------------------------------------------------------------------------
(* One write of a handler or of the first boot, completed. *)

LEMMA BootWritten ==
  ASSUME UsersInv, ~Booted, todo # <<>>,
         eeprom' = [eeprom EXCEPT ![todo[1].cell] = todo[1].value]
  PROVE  /\ Booted' => Tables' /\ Missing' = 0
         /\ todo' = Tail(todo) => IF Booted' THEN todo' = <<>> ELSE Booting'
<1>1. EepromFits /\ TodoFits /\ Booting
  BY DEF UsersInv
<1>2. PICK k \in 1 .. 7 : BootingAt(k)
  BY <1>1 DEF Booting
<1> DEFINE v == User(1, Owner, "nobody")
<1>3. /\ Len(todo) = 8 - k /\ todo[1] = BootWrites[k]
      /\ \A i \in 1 .. 8 - k : todo[i] = BootWrites[k + i - 1]
      /\ k >= 4 => Rec("users", 1) = v
      /\ k >= 5 => Count("users") = 1
      /\ k >= 6 => Stored = 1
      /\ k >= 7 => Count("settings") = 1
  <2>1. 1 \in 1 .. 8 - k /\ k + 1 - 1 = k
    OBVIOUS
  <2> QED
    BY <1>2, <2>1 DEF BootingAt
<1>4. /\ todo[1].cell \in Cells /\ Fits(todo[1].cell, todo[1].value)
      /\ Len(Tail(todo)) = Len(todo) - 1 /\ Tail(todo) \in Seq(Writes)
      /\ \A i \in 1 .. Len(todo) - 1 : Tail(todo)[i] = todo[i + 1]
  BY <1>1, FirstWrite
<1>5. \A c \in Cells : eeprom'[c] = IF c = todo[1].cell THEN todo[1].value ELSE eeprom[c]
  <2> DEFINE cell == todo[1].cell
             value == todo[1].value
  <2>1. /\ EepromFits /\ cell \in Cells /\ Fits(cell, value)
        /\ eeprom' = [eeprom EXCEPT ![cell] = value]
    BY <1>1, <1>4
  <2> HIDE DEF cell, value
  <2>2. \A c \in Cells : eeprom'[c] = IF c = cell THEN value ELSE eeprom[c]
    BY <2>1, OneCell
  <2> QED
    BY <2>2 DEF cell, value
<1>6. v.id = 1 /\ v.no = Owner
  BY DEF User
<1> HIDE DEF v
<1>7. /\ k = 1 => todo[1].cell = <<"users", 0>> /\ todo[1].value = 0
      /\ k = 2 => todo[1].cell = <<"settings", 0>> /\ todo[1].value = 0
      /\ k = 3 => todo[1].cell = <<"users", 1>> /\ todo[1].value = v
      /\ k = 4 => todo[1].cell = <<"users", 0>> /\ todo[1].value = 1
      /\ k = 5 => todo[1].cell = <<"settings", 1>> /\ todo[1].value = 1
      /\ k = 6 => todo[1].cell = <<"settings", 0>> /\ todo[1].value = 1
      /\ k = 7 => todo[1].cell = <<"boot", 0>> /\ todo[1].value = TRUE
  <2>1. /\ BootWrites[1] = Put("users", 0, 0) /\ BootWrites[2] = Put("settings", 0, 0)
        /\ BootWrites[3] = Put("users", 1, v) /\ BootWrites[4] = Put("users", 0, 1)
        /\ BootWrites[5] = Put("settings", 1, 1) /\ BootWrites[6] = Put("settings", 0, 1)
        /\ BootWrites[7] = Put("boot", 0, TRUE)
    BY DEF BootWrites, v
  <2>3. todo[1] = BootWrites[k]
    BY <1>3
  <2>4. ASSUME k = 1 PROVE todo[1].cell = <<"users", 0>> /\ todo[1].value = 0
    <3>1. todo[1] = Put("users", 0, 0)
      BY <2>1, <2>3, <2>4
    <3> QED
      BY <3>1 DEF Put
  <2>5. ASSUME k = 2 PROVE todo[1].cell = <<"settings", 0>> /\ todo[1].value = 0
    <3>1. todo[1] = Put("settings", 0, 0)
      BY <2>1, <2>3, <2>5
    <3> QED
      BY <3>1 DEF Put
  <2>6. ASSUME k = 3 PROVE todo[1].cell = <<"users", 1>> /\ todo[1].value = v
    <3>1. todo[1] = Put("users", 1, v)
      BY <2>1, <2>3, <2>6
    <3> QED
      BY <3>1 DEF Put
  <2>7. ASSUME k = 4 PROVE todo[1].cell = <<"users", 0>> /\ todo[1].value = 1
    <3>1. todo[1] = Put("users", 0, 1)
      BY <2>1, <2>3, <2>7
    <3> QED
      BY <3>1 DEF Put
  <2>8. ASSUME k = 5 PROVE todo[1].cell = <<"settings", 1>> /\ todo[1].value = 1
    <3>1. todo[1] = Put("settings", 1, 1)
      BY <2>1, <2>3, <2>8
    <3> QED
      BY <3>1 DEF Put
  <2>9. ASSUME k = 6 PROVE todo[1].cell = <<"settings", 0>> /\ todo[1].value = 1
    <3>1. todo[1] = Put("settings", 0, 1)
      BY <2>1, <2>3, <2>9
    <3> QED
      BY <3>1 DEF Put
  <2>10. ASSUME k = 7 PROVE todo[1].cell = <<"boot", 0>> /\ todo[1].value = TRUE
    <3>1. todo[1] = Put("boot", 0, TRUE)
      BY <2>1, <2>3, <2>10
    <3> QED
      BY <3>1 DEF Put
  <2> QED
    BY <2>4, <2>5, <2>6, <2>7, <2>8, <2>9, <2>10
<1>8. /\ k \in 3 .. 6 => eeprom'[<<"users", 1>>] = v
      /\ k \in 4 .. 6 => eeprom'[<<"users", 0>>] = 1
      /\ k \in 5 .. 6 => eeprom'[<<"settings", 1>>] = 1
      /\ k = 6 => eeprom'[<<"settings", 0>>] = 1
      /\ k # 7 => eeprom'[<<"boot", 0>>] = eeprom[<<"boot", 0>>]
  <2>1. k = 1 \/ k = 2 \/ k = 3 \/ k = 4 \/ k = 5 \/ k = 6 \/ k = 7
    OBVIOUS
  <2>2. CASE k = 3
    BY <2>2, <1>5, <1>7, Headers
  <2>3. CASE k = 4
    BY <2>3, <1>3, <1>5, <1>7, Headers DEF Rec
  <2>4. CASE k = 5
    BY <2>4, <1>3, <1>5, <1>7, Headers DEF Rec, Count
  <2>5. CASE k = 6
    BY <2>5, <1>3, <1>5, <1>7, Headers DEF Rec, Count, Stored
  <2>6. CASE k = 1 \/ k = 2
    BY <2>6, <1>5, <1>7, Headers
  <2> QED
    BY <2>1, <2>2, <2>3, <2>4, <2>5, <2>6
<1>9. CASE k = 7
  <2>1. /\ eeprom'[<<"users", 1>>] = v /\ eeprom'[<<"users", 0>>] = 1
        /\ eeprom'[<<"settings", 1>>] = 1 /\ eeprom'[<<"settings", 0>>] = 1
        /\ eeprom'[<<"boot", 0>>] = TRUE
    BY <1>9, <1>3, <1>5, <1>7, Headers DEF Rec, Count, Stored
  <2>2. Booted' /\ Tables' /\ Missing' = 0
    <3>1. Booted' /\ Count("users")' = 1 /\ Stored' = 1 /\ Count("settings")' = 1
          /\ Rec("users", 1)' = v
      BY <2>1 DEF Booted, Count, Rec, Stored
    <3>2. Missing' = 0
      BY <3>1 DEF Missing
    <3>3. Tables'
      BY <3>1, <1>6, Constants DEF Tables
    <3> QED
      BY <3>1, <3>2, <3>3
  <2>3. Tail(todo) = <<>>
    <3>1. Len(Tail(todo)) = 0 /\ Tail(todo) \in Seq(Writes)
      BY <1>3, <1>4, <1>9
    <3> QED
      BY <3>1, EmptySeq
  <2> QED
    BY <2>2, <2>3
<1>10. CASE k # 7
  <2>1. ~Booted'
    BY <1>8, <1>10 DEF Booted, Rec
  <2>2. ASSUME todo' = Tail(todo) PROVE BootingAt(k + 1)'
    <3>1. Len(todo') = 8 - (k + 1)
      BY <2>2, <1>3, <1>4
    <3>2. ASSUME NEW i \in 1 .. 8 - (k + 1) PROVE todo'[i] = BootWrites[k + 1 + i - 1]
      <4>1. i \in 1 .. Len(todo) - 1 /\ i + 1 \in 1 .. 8 - k /\ k + (i + 1) - 1 = k + 1 + i - 1
        BY <1>3
      <4> QED
        BY <4>1, <2>2, <1>3, <1>4
    <3>3. /\ k + 1 >= 4 => Rec("users", 1)' = User(1, Owner, "nobody")
          /\ k + 1 >= 5 => Count("users")' = 1
          /\ k + 1 >= 6 => Stored' = 1
          /\ k + 1 >= 7 => Count("settings")' = 1
      BY <1>8, <1>10 DEF Rec, Count, Stored, v
    <3> QED
      BY <3>1, <3>2, <3>3 DEF BootingAt
  <2>3. ASSUME todo' = Tail(todo) PROVE Booting'
    <3>1. k + 1 \in 1 .. 7
      BY <1>10
    <3> QED
      BY <3>1, <2>2, <2>3 DEF Booting
  <2> QED
    BY <2>1, <2>3
<1> QED
  BY <1>9, <1>10

(* A completed write of a handler leaves the tables sound and one user     *)
(* more missing at most, who is not when the handler is through.           *)
LEMMA HandlerWritten ==
  ASSUME UsersInv, up, todo # <<>>,
         eeprom' = [eeprom EXCEPT ![todo[1].cell] = todo[1].value]
  PROVE  /\ Booted' /\ Tables' /\ Missing' <= failures + 1
         /\ todo' = Tail(todo) /\ UNCHANGED <<noUsers, failures>> => Handling'
<1>1. /\ EepromFits /\ TodoFits /\ Booted /\ Tables /\ Handling
      /\ noUsers \in 0 .. MaxUsers /\ failures \in Nat
  BY DEF UsersInv
<1>2. /\ todo[1].cell \in Cells /\ Fits(todo[1].cell, todo[1].value)
      /\ Len(Tail(todo)) = Len(todo) - 1 /\ Tail(todo) \in Seq(Writes)
      /\ Len(todo) \in Nat /\ Len(todo) >= 1
      /\ \A i \in 1 .. Len(todo) - 1 : Tail(todo)[i] = todo[i + 1]
  BY <1>1, FirstWrite
<1>3. Count("users") \in Nat /\ Stored \in Nat /\ Count("users") >= 1 /\ Count("users") <= Stored
      /\ Stored <= MaxUsers /\ noUsers \in Nat /\ noUsers <= MaxUsers /\ Missing = Stored - Count("users")
  BY <1>1, CountsAreNumbers, Constants DEF Tables, Missing
<1>4. ASSUME KeepsOwner(todo[1].cell, todo[1].value)
      PROVE  Booted' /\ Tables' /\ Count("users")' = Count("users") /\ Stored' = Stored
             /\ Missing' = Missing
  <2>1. Booted' /\ Tables' /\ Count("users")' = Count("users") /\ Stored' = Stored
    BY <1>1, <1>2, <1>4, RecordWritten
  <2> QED
    BY <2>1 DEF Missing
<1>5. ASSUME NEW n \in 1 .. Stored, todo[1] = WriteHead("users", n)
      PROVE  Booted' /\ Tables' /\ Count("users")' = n /\ Stored' = Stored /\ Missing' = Stored - n
  <2>1. todo[1].cell = <<"users", 0>> /\ todo[1].value = n
    BY <1>5 DEF WriteHead, Put
  <2>2. Booted' /\ Tables' /\ Count("users")' = n /\ Stored' = Stored
    BY <1>1, <2>1, CountWritten
  <2> QED
    BY <2>2 DEF Missing
<1>6. ASSUME Count("users") <= noUsers, todo[1] = Put("settings", 1, noUsers)
      PROVE  Booted' /\ Tables' /\ Count("users")' = Count("users") /\ Stored' = noUsers
             /\ Missing' = noUsers - Count("users")
  <2>1. todo[1].cell = <<"settings", 1>> /\ todo[1].value = noUsers
    BY <1>6 DEF Put
  <2>2. Booted' /\ Tables' /\ Count("users")' = Count("users") /\ Stored' = noUsers
    BY <1>1, <1>3, <1>6, <2>1, StoredWritten
  <2> QED
    BY <2>2 DEF Missing
<1> DEFINE Goes == todo' = Tail(todo) /\ UNCHANGED <<noUsers, failures>>
<1>7. ASSUME Goes
      PROVE  /\ Len(todo') = Len(todo) - 1
             /\ \A i \in 1 .. Len(todo) - 1 : todo'[i] = todo[i + 1]
             /\ noUsers' = noUsers /\ failures' = failures
  BY <1>2, <1>7
<1>8. ASSUME Goes, NEW m \in Nat, NEW n \in Nat, m >= 1, n < Len(todo), Harmless(m + 1, n + 1)
      PROVE  Harmless(m, n)'
  BY <1>1, <1>8, HarmlessTail
<1> HIDE DEF Goes
<1>9. CASE Changing
  <2>1. KeepsOwner(todo[1].cell, todo[1].value)
    BY <1>2, <1>9 DEF Changing, Harmless
  <2>2. Booted' /\ Tables' /\ Stored' = Stored /\ Missing' = Missing
    BY <1>4, <2>1
  <2>3. Missing' <= failures + 1
    BY <2>2, <1>1, <1>3, <1>9 DEF Changing
  <2>4. ASSUME Goes PROVE Changing'
    <3>1. Harmless(1 + 1, Len(todo) - 1 + 1) /\ Len(todo) - 1 \in Nat /\ Len(todo) - 1 < Len(todo)
      BY <1>2, <1>9 DEF Changing, Harmless
    <3>2. Len(todo') = Len(todo) - 1 /\ noUsers' = noUsers /\ failures' = failures
      BY <1>7, <2>4
    <3>3. \A k \in 1 .. Len(todo) - 1 : KeepsOwner(todo'[k].cell, todo'[k].value)
      BY <1>2, <1>9, <1>7, <2>4 DEF Changing, Harmless
    <3>4. Harmless(1, Len(todo))'
      BY <3>2, <3>3 DEF Harmless, KeepsOwner, IsRecord
    <3> QED
      BY <3>2, <3>4, <2>2, <1>9 DEF Changing
  <2> QED
    BY <2>2, <2>3, <2>4 DEF Handling, Goes
<1>10. CASE Adding
  <2>1. todo[1] = Put("settings", 1, noUsers) /\ Count("users") <= noUsers
        /\ noUsers = Stored + 1 /\ Len(todo) >= 2 /\ Missing <= failures
    BY <1>3, <1>10 DEF Adding
  <2>2. Booted' /\ Tables' /\ Count("users")' = Count("users") /\ Stored' = noUsers
        /\ Missing' = noUsers - Count("users")
    BY <1>6, <2>1
  <2>3. Missing' <= failures + 1 /\ Count("users")' < Stored'
    BY <2>1, <2>2, <1>1, <1>3
  <2>4. ASSUME Goes PROVE Appending'
    <3>1. Len(todo') = Len(todo) - 1 /\ noUsers' = noUsers /\ failures' = failures
          /\ \A i \in 1 .. Len(todo) - 1 : todo'[i] = todo[i + 1]
      BY <1>7, <2>4
    <3>2. \A k \in 1 .. Len(todo) - 2 : KeepsOwner(todo'[k].cell, todo'[k].value)
      BY <1>2, <1>10, <3>1 DEF Adding, Harmless
    <3>3. Len(todo') - 1 = Len(todo) - 2 /\ Len(todo') >= 1
      BY <1>2, <2>1, <3>1
    <3>4. Harmless(1, Len(todo) - 1)'
      BY <3>2, <3>3 DEF Harmless, KeepsOwner, IsRecord
    <3>5. todo'[Len(todo')] = WriteHead("users", Count("users")' + 1)
      <4>1. Len(todo) - 1 \in 1 .. Len(todo) - 1 /\ Len(todo) - 1 + 1 = Len(todo)
        BY <1>2, <2>1
      <4>2. todo'[Len(todo')] = todo[Len(todo)]
        BY <3>1, <4>1
      <4> QED
        BY <4>2, <2>2, <1>10 DEF Adding
    <3> QED
      BY <3>1, <3>3, <3>4, <3>5, <2>2, <2>3 DEF Appending
  <2> QED
    BY <2>2, <2>3, <2>4 DEF Handling, Goes
<1>11. CASE Appending
  <2>1. /\ todo[Len(todo)] = WriteHead("users", Count("users") + 1)
        /\ noUsers = Stored /\ Count("users") < Stored /\ Missing <= failures + 1
    BY <1>11 DEF Appending
  <2>2. CASE Len(todo) = 1
    <3>1. todo[1] = WriteHead("users", Count("users") + 1) /\ Count("users") + 1 \in 1 .. Stored
      BY <1>3, <2>1, <2>2
    <3>2. Booted' /\ Tables' /\ Stored' = Stored /\ Missing' = Stored - (Count("users") + 1)
      BY <1>5, <3>1
    <3>3. Missing' <= failures
      BY <1>1, <1>3, <2>1, <3>2
    <3>4. ASSUME Goes PROVE Changing'
      <4>1. Len(todo') = 0 /\ noUsers' = noUsers /\ failures' = failures
        BY <1>7, <2>2, <3>4
      <4>2. Harmless(1, Len(todo))'
        BY <4>1 DEF Harmless
      <4> QED
        BY <4>1, <4>2, <2>1, <3>2, <3>3 DEF Changing
    <3>5. Missing' <= failures + 1
      BY <1>1, <1>3, <2>1, <3>2
    <3> QED
      BY <3>2, <3>4, <3>5 DEF Handling, Goes
  <2>3. CASE Len(todo) >= 2
    <3>1. KeepsOwner(todo[1].cell, todo[1].value)
      BY <1>2, <1>11, <2>3 DEF Appending, Harmless
    <3>2. Booted' /\ Tables' /\ Count("users")' = Count("users") /\ Stored' = Stored
          /\ Missing' = Missing
      BY <1>4, <3>1
    <3>3. ASSUME Goes PROVE Appending'
      <4>1. Len(todo') = Len(todo) - 1 /\ noUsers' = noUsers /\ failures' = failures
            /\ \A i \in 1 .. Len(todo) - 1 : todo'[i] = todo[i + 1]
        BY <1>7, <3>3
      <4>2. \A k \in 1 .. Len(todo) - 2 : KeepsOwner(todo'[k].cell, todo'[k].value)
        BY <1>2, <1>11, <4>1 DEF Appending, Harmless
      <4>3. Len(todo') - 1 = Len(todo) - 2 /\ Len(todo') >= 1
        BY <1>2, <2>3, <4>1
      <4>4. Harmless(1, Len(todo) - 1)'
        BY <4>2, <4>3 DEF Harmless, KeepsOwner, IsRecord
      <4>5. todo'[Len(todo')] = todo[Len(todo)]
        <5>1. Len(todo) - 1 \in 1 .. Len(todo) - 1 /\ Len(todo) - 1 + 1 = Len(todo)
          BY <1>2, <2>3
        <5> QED
          BY <4>1, <5>1
      <4> QED
        BY <4>1, <4>3, <4>4, <4>5, <2>1, <3>2 DEF Appending
    <3> QED
      BY <2>1, <3>2, <3>3 DEF Handling, Goes
  <2> QED
    BY <1>2, <2>2, <2>3
<1>12. CASE Deleting
  <2>1. /\ todo[Len(todo) - 1] = WriteHead("users", Count("users") - 1)
        /\ todo[Len(todo)] = Put("settings", 1, noUsers) /\ Len(todo) >= 2
        /\ noUsers = Stored - 1 /\ Count("users") >= 2 /\ Missing <= failures
    BY <1>12 DEF Deleting
  <2>2. CASE Len(todo) = 2
    <3>1. todo[1] = WriteHead("users", Count("users") - 1) /\ Count("users") - 1 \in 1 .. Stored
      BY <1>3, <2>1, <2>2
    <3>2. /\ Booted' /\ Tables' /\ Stored' = Stored /\ Missing' = Stored - (Count("users") - 1)
          /\ Count("users")' = Count("users") - 1
      BY <1>5, <3>1
    <3>3. Missing' <= failures + 1 /\ Count("users")' < Stored'
      BY <1>1, <1>3, <2>1, <3>2
    <3>4. ASSUME Goes PROVE Settling'
      <4>1. Len(todo') = 1 /\ noUsers' = noUsers /\ failures' = failures
            /\ todo'[1] = todo[2]
        BY <1>7, <2>2, <3>4
      <4> QED
        BY <4>1, <2>1, <2>2, <3>2, <3>3 DEF Settling
    <3> QED
      BY <3>2, <3>3, <3>4 DEF Handling, Goes
  <2>3. CASE Len(todo) >= 3
    <3>1. KeepsOwner(todo[1].cell, todo[1].value)
      BY <1>2, <1>12, <2>3 DEF Deleting, Harmless
    <3>2. Booted' /\ Tables' /\ Count("users")' = Count("users") /\ Stored' = Stored
          /\ Missing' = Missing
      BY <1>4, <3>1
    <3>3. ASSUME Goes PROVE Deleting'
      <4>1. Len(todo') = Len(todo) - 1 /\ noUsers' = noUsers /\ failures' = failures
            /\ \A i \in 1 .. Len(todo) - 1 : todo'[i] = todo[i + 1]
        BY <1>7, <3>3
      <4>2. \A k \in 1 .. Len(todo) - 3 : KeepsOwner(todo'[k].cell, todo'[k].value)
        BY <1>2, <1>12, <4>1 DEF Deleting, Harmless
      <4>3. Len(todo') - 2 = Len(todo) - 3 /\ Len(todo') >= 2
        BY <1>2, <2>3, <4>1
      <4>4. Harmless(1, Len(todo) - 2)'
        BY <4>2, <4>3 DEF Harmless, KeepsOwner, IsRecord
      <4>5. todo'[Len(todo')] = todo[Len(todo)] /\ todo'[Len(todo') - 1] = todo[Len(todo) - 1]
        <5>1. /\ Len(todo) - 1 \in 1 .. Len(todo) - 1 /\ Len(todo) - 1 + 1 = Len(todo)
              /\ Len(todo) - 2 \in 1 .. Len(todo) - 1 /\ Len(todo) - 2 + 1 = Len(todo) - 1
              /\ Len(todo') - 1 = Len(todo) - 2
          BY <1>2, <2>3, <4>1
        <5> QED
          BY <4>1, <5>1
      <4> QED
        BY <4>1, <4>3, <4>4, <4>5, <2>1, <3>2 DEF Deleting
    <3>4. Missing' <= failures + 1
      BY <3>2, <2>1, <1>1, <1>3
    <3> QED
      BY <3>4, <3>2, <3>3 DEF Handling, Goes
  <2> QED
    BY <1>2, <2>1, <2>2, <2>3
<1>13. CASE Settling
  <2>1. /\ Len(todo) = 1 /\ todo[1] = Put("settings", 1, noUsers)
        /\ noUsers = Stored - 1 /\ Count("users") < Stored /\ Missing <= failures + 1
    BY <1>13 DEF Settling
  <2>2. Count("users") <= noUsers
    BY <2>1, <1>3
  <2>3. /\ Booted' /\ Tables' /\ Count("users")' = Count("users") /\ Stored' = noUsers
        /\ Missing' = noUsers - Count("users")
    BY <1>6, <2>1, <2>2
  <2>4. Missing' <= failures /\ Missing' <= failures + 1
    BY <1>1, <1>3, <2>1, <2>3
  <2>5. ASSUME Goes PROVE Changing'
    <3>1. Len(todo') = 0 /\ noUsers' = noUsers /\ failures' = failures
      BY <1>7, <2>1, <2>5
    <3>2. Harmless(1, Len(todo))'
      BY <3>1 DEF Harmless
    <3> QED
      BY <3>1, <3>2, <2>3, <2>4 DEF Changing
  <2> QED
    BY <2>3, <2>4, <2>5 DEF Handling, Goes
<1> QED
  BY <1>1, <1>9, <1>10, <1>11, <1>12, <1>13 DEF Handling, Goes

LEMMA WriteInv ==
  ASSUME UsersInv, Write
  PROVE  UsersInv'
<1>1. /\ EepromFits /\ TodoFits /\ todo # <<>> /\ failures \in Nat /\ noUsers \in 0 .. MaxUsers
      /\ up \in BOOLEAN /\ todo' = Tail(todo)
      /\ eeprom' = [eeprom EXCEPT ![Head(todo).cell] = Head(todo).value]
      /\ UNCHANGED <<up, noUsers, failures>>
  BY DEF UsersInv, Write, EdbWrite
<1>2. /\ Head(todo) = todo[1] /\ todo[1].cell \in Cells /\ Fits(todo[1].cell, todo[1].value)
  BY <1>1, FirstWrite
<1>3. eeprom' = [eeprom EXCEPT ![todo[1].cell] = todo[1].value]
  BY <1>1, <1>2
<1>4. EepromFits' /\ TodoFits'
  BY <1>1, <1>2, <1>3, OneCell, TailFits
<1>5. CASE up
  <2>1. Booted' /\ Tables' /\ Handling'
    BY <1>1, <1>3, <1>5, HandlerWritten
  <2> QED
    BY <1>1, <1>4, <1>5, <2>1 DEF UsersInv
<1>6. CASE ~up
  <2>1. ~Booted
    BY <1>1, <1>6 DEF UsersInv
  <2>2. /\ Booted' => Tables' /\ Missing' = 0 /\ todo' = <<>>
        /\ ~Booted' => Booting'
    BY <1>1, <1>3, <2>1, BootWritten
  <2>3. Booted' => Missing' <= failures'
    BY <1>1, <2>2
  <2> QED
    BY <1>1, <1>4, <1>6, <2>2, <2>3 DEF UsersInv
<1> QED
  BY <1>1, <1>5, <1>6

(* The power fails between two writes or in one: what is left is as before *)
(* the write, as after it, or a part of a record.                          *)
LEMMA PowerFailsInv ==
  ASSUME UsersInv, PowerFails
  PROVE  UsersInv'
<1>1. /\ EepromFits /\ TodoFits /\ failures \in Nat /\ todo' = <<>> /\ up' = FALSE /\ noUsers' = 0
      /\ failures' = IF todo = <<>> THEN failures ELSE failures + 1
      /\ \/ UNCHANGED eeprom
         \/ /\ todo # <<>>
            /\ \E v \in Parts(Head(todo)) : eeprom' = [eeprom EXCEPT ![Head(todo).cell] = v]
  BY DEF UsersInv, PowerFails, EdbLost
<1>2. TodoFits'
  BY <1>1 DEF TodoFits
<1>3. noUsers' \in 0 .. MaxUsers /\ failures' \in Nat
  BY <1>1, Constants
<1>4. ASSUME Booted PROVE Tables /\ Missing <= failures'
  <2>1. Tables /\ Missing \in Int
    BY <1>1, <1>4, CountsAreNumbers DEF UsersInv, Missing
  <2>2. CASE todo = <<>>
    <3>1. up => Changing
      BY <2>2 DEF UsersInv, Handling, Adding, Appending, Deleting, Settling
    <3>2. Missing <= failures
      BY <3>1, <1>4 DEF UsersInv, Changing
    <3> QED
      BY <1>1, <2>1, <2>2, <3>2
  <2>3. CASE todo # <<>>
    <3>1. Handling
      BY <1>4, <2>3 DEF UsersInv
    <3>2. Missing <= failures \/ Missing <= failures + 1
      BY <3>1 DEF Handling, Changing, Adding, Appending, Deleting, Settling
    <3> QED
      BY <1>1, <2>1, <2>3, <3>2
  <2> QED
    BY <2>2, <2>3
<1>5. CASE UNCHANGED eeprom
  <2>1. EepromFits' /\ (Booted' <=> Booted) /\ (Tables <=> Tables') /\ Missing' = Missing
    BY <1>1, <1>5 DEF EepromFits, Fits, IsRecord, Booted, Tables, Count, Rec, Stored, Missing
  <2> QED
    BY <1>1, <1>2, <1>3, <1>4, <2>1 DEF UsersInv
<1>6. CASE /\ todo # <<>>
           /\ \E v \in Parts(Head(todo)) : eeprom' = [eeprom EXCEPT ![Head(todo).cell] = v]
  <2> DEFINE cell == todo[1].cell
             new == todo[1].value
             old == eeprom[cell]
  <2>1. /\ Head(todo) = todo[1] /\ cell \in Cells /\ Fits(cell, new)
    BY <1>1, <1>6, FirstWrite
  <2>2. PICK v \in Parts(todo[1]) : eeprom' = [eeprom EXCEPT ![cell] = v]
    BY <1>6, <2>1
  <2>3. Fits(cell, old)
    BY <1>1, <2>1 DEF EepromFits
  <2>4. failures' = failures + 1
    BY <1>1, <1>6
  <2>5. CASE v = new
    <3>1. eeprom' = [eeprom EXCEPT ![todo[1].cell] = todo[1].value]
      BY <2>2, <2>5
    <3>2. EepromFits'
      BY <1>1, <2>1, <2>2, <2>5, OneCell
    <3>3. CASE up
      <4>1. Booted' /\ Tables' /\ Missing' <= failures + 1
        BY <1>6, <3>1, <3>3, HandlerWritten
      <4> QED
        BY <1>1, <1>2, <1>3, <2>4, <3>2, <4>1 DEF UsersInv
    <3>4. CASE ~up
      <4>1. ~Booted
        BY <1>6, <3>4 DEF UsersInv
      <4>2. Booted' => Tables' /\ Missing' = 0
        BY <1>6, <3>1, <4>1, BootWritten
      <4>3. Booted' => Tables' /\ Missing' <= failures'
        BY <1>3, <4>2
      <4> QED
        BY <1>1, <1>2, <1>3, <3>2, <4>3 DEF UsersInv
    <3> QED
      BY <3>3, <3>4
  <2>6. CASE v = old
    <3>1. eeprom' = eeprom
      <4>1. eeprom = [c \in Cells |-> eeprom[c]]
        BY <1>1 DEF EepromFits
      <4> QED
        BY <2>2, <2>6, <4>1
    <3> QED
      BY <1>5, <3>1
  <2>7. CASE v \notin {old, new}
    <3>1. IsRecord(cell) /\ \E no \in {old.no, new.no, "garbled"} : v = User(new.id, no, old.by)
                         /\ (old.no = new.no => no = old.no)
      BY <2>2, <2>7 DEF Parts
    <3>2. cell # <<"boot", 0>>
      BY <3>1 DEF IsRecord
    <3>3. new \in UserRecord /\ old \in UserRecord
      BY <2>1, <2>3, <3>1, <3>2 DEF Fits
    <3> HIDE DEF old, new, cell
    <3>4. v \in UserRecord /\ v.id = new.id /\ (old.no = new.no => v.no = old.no)
      <4>1. PICK no \in {old.no, new.no, "garbled"} :
               v = User(new.id, no, old.by) /\ (old.no = new.no => no = old.no)
        BY <3>1
      <4>2. /\ new.id \in 0 .. MaxUsers /\ old.by \in Texts /\ old.no \in Texts /\ new.no \in Texts
            /\ "garbled" \in Texts
        BY <3>3 DEF UserRecord, Texts
      <4> QED
        BY <4>1, <4>2 DEF User, UserRecord
    <3>5. Fits(cell, v)
      BY <3>1, <3>2, <3>4 DEF Fits
    <3>6. EepromFits'
      BY <1>1, <2>1, <2>2, <3>5, OneCell
    <3>7. CASE Booted
      <4>1. KeepsOwner(cell, new)
        <5>1. Handling
          BY <3>7, <1>6 DEF UsersInv
        <5>2. ~IsRecord(Put("settings", 1, noUsers).cell)
          BY DEF Put, IsRecord
        <5>3. \A n : ~IsRecord(WriteHead("users", n).cell)
          BY DEF Put, WriteHead, IsRecord
        <5>4. Len(todo) \in Nat /\ Len(todo) >= 1
          BY <1>1, <1>6, FirstWrite
        <5>5. todo[1] # Put("settings", 1, noUsers) /\ \A n : todo[1] # WriteHead("users", n)
          BY <3>1, <5>2, <5>3 DEF cell
        <5>6. ~Settling /\ ~Adding
          BY <5>5 DEF Settling, Adding
        <5>7. CASE Changing
          BY <5>4, <5>7 DEF Changing, Harmless, cell, new
        <5>8. CASE Appending
          <6>1. Len(todo) # 1
            BY <5>5, <5>8 DEF Appending
          <6>2. 1 \in 1 .. Len(todo) - 1
            BY <5>4, <6>1
          <6>3. Harmless(1, Len(todo) - 1)
            BY <5>8 DEF Appending
          <6> QED
            BY <6>2, <6>3 DEF Harmless, cell, new
        <5>9. CASE Deleting
          <6>1. Len(todo) # 2 /\ Len(todo) >= 2
            BY <5>5, <5>9 DEF Deleting
          <6>2. 1 \in 1 .. Len(todo) - 2
            BY <5>4, <6>1
          <6>3. Harmless(1, Len(todo) - 2)
            BY <5>9 DEF Deleting
          <6> QED
            BY <6>2, <6>3 DEF Harmless, cell, new
        <5> QED
          BY <5>1, <5>6, <5>7, <5>8, <5>9 DEF Handling
      <4>2. KeepsOwner(cell, v)
        <5>1. cell = <<"users", 1>> => old.no = Owner
          BY <1>4, <3>7 DEF Tables, Rec, old
        <5> QED
          BY <4>1, <5>1, <3>1, <3>4 DEF KeepsOwner
      <4>3. Booted' /\ Tables' /\ Count("users")' = Count("users") /\ Stored' = Stored
        BY <1>1, <1>4, <2>1, <2>2, <3>5, <3>7, <4>2, RecordWritten
      <4>4. Missing' = Missing /\ Missing <= failures'
        BY <1>4, <3>7, <4>3 DEF Missing
      <4> QED
        BY <1>1, <1>2, <1>3, <3>6, <4>3, <4>4 DEF UsersInv
    <3>8. CASE ~Booted
      <4>1. \A c \in Cells : c # cell => eeprom'[c] = eeprom[c]
        <5>1. DOMAIN eeprom = Cells
          BY <1>1 DEF EepromFits
        <5> QED
          BY <2>2, <5>1
      <4>2. ~Booted'
        BY <3>2, <3>8, <4>1, Headers DEF Booted, Rec
      <4> QED
        BY <1>1, <1>2, <1>3, <3>6, <4>2 DEF UsersInv
    <3> QED
      BY <3>7, <3>8
  <2> QED
    BY <2>5, <2>6, <2>7
<1> QED
  BY <1>1, <1>5, <1>6

LEMMA InitUsersInv == UsersInit => UsersInv
<1> SUFFICES ASSUME UsersInit PROVE UsersInv
  OBVIOUS
<1>1. /\ eeprom = [c \in Cells |-> IF c = <<"boot", 0>> THEN FALSE
                                   ELSE IF IsRecord(c) THEN NoUser ELSE Erased]
      /\ todo = <<>> /\ up = FALSE /\ noUsers = 0 /\ failures = 0
  BY DEF UsersInit
<1>2. \A c \in Cells : eeprom[c] = IF c = <<"boot", 0>> THEN FALSE
                                   ELSE IF IsRecord(c) THEN NoUser ELSE Erased
  BY <1>1
<1>3. NoUser \in UserRecord
  <2>1. 0 \in 0 .. MaxUsers /\ "erased" \in Texts /\ "nobody" \in Texts
    BY Constants DEF Texts
  <2> QED
    BY <2>1 DEF NoUser, User, UserRecord
<1>4. Erased \in 0 .. Erased
  BY Constants
<1>5. eeprom = [c \in Cells |-> eeprom[c]]
  BY <1>1
<1>6. EepromFits
  BY <1>2, <1>3, <1>4, <1>5 DEF EepromFits, Fits
<1>7. ~Booted
  BY <1>2, Headers DEF Booted, Rec
<1>8. TodoFits
  BY <1>1 DEF TodoFits
<1>9. noUsers \in 0 .. MaxUsers /\ failures \in Nat /\ up \in BOOLEAN
  <2>1. MaxUsers \in Nat
    BY Constants
  <2>2. noUsers = 0 /\ failures = 0
    BY <1>1
  <2>3. noUsers \in 0 .. MaxUsers /\ failures \in Nat
    BY <2>1, <2>2
  <2>4. up \in BOOLEAN
    BY <1>1
  <2> QED
    BY <2>3, <2>4
<1>10. ~up /\ todo = <<>>
  BY <1>1
<1> QED
  BY <1>6, <1>7, <1>8, <1>9, <1>10 DEF UsersInv

LEMMA NextUsersInv ==
  ASSUME UsersInv, [UsersNext]_usersVars
  PROVE  UsersInv'
<1>1. CASE UsersNext
  BY <1>1, PrepareInv, StartInv, WriteInv, PowerFailsInv, AddNoInv, DelNoInv, ChangeRecordInv
     DEF UsersNext
<1>2. CASE UNCHANGED usersVars
  <2>1. UNCHANGED <<eeprom, todo, up, noUsers, failures>>
    BY <1>2 DEF usersVars, edbVars
  <2>2. /\ EepromFits' = EepromFits /\ TodoFits' = TodoFits /\ Booted' = Booted
        /\ Tables' = Tables /\ Missing' = Missing /\ Booting' = Booting /\ Handling' = Handling
    BY <2>1 DEF EepromFits, TodoFits, Fits, IsRecord, Booted, Tables, Count, Rec, Stored, Missing,
       Booting, BootingAt, BootWrites, Handling, Changing, Adding, Appending, Deleting, Settling,
       Harmless, KeepsOwner
  <2> QED
    BY <2>1, <2>2 DEF UsersInv
<1> QED
  BY <1>1, <1>2

-----------------------------------------------------------------------------
(* The list of numbers.  The writes of a handler go to different cells, so *)
(* what a cell will hold is in the one write to it, or there already.      *)

(* What cell c of memory e holds when the writes s have been made. *)
WritesTo(s, c) == {k \in DOMAIN s : s[k].cell = c}
Final(e, s, c) ==
  IF WritesTo(s, c) = {} THEN e[c]
  ELSE s[CHOOSE k \in WritesTo(s, c) : \A j \in WritesTo(s, c) : j <= k].value

(* No cell is written twice, and no count is more than its table holds. *)
Once(s) == \A j, k \in 1 .. Len(s) : s[j].cell = s[k].cell => j = k
CountFits(s) ==
  \A k \in 1 .. Len(s) : s[k].cell = <<"users", 0>> => s[k].value \in 0 .. Limit["users"]
ListInv == up => Once(todo) /\ CountFits(todo)

FinalCount(e, s) == Final(e, s, <<"users", 0>>)
FinalNo(e, s, p) == Final(e, s, <<"users", p>>).no
Numbers(e, s) == [p \in 1 .. FinalCount(e, s) |-> FinalNo(e, s, p)]

LEMMA FinalWritten ==
  ASSUME NEW e, NEW s \in Seq(Writes), Once(s), NEW k \in 1 .. Len(s)
  PROVE  Final(e, s, s[k].cell) = s[k].value
<1> DEFINE W == WritesTo(s, s[k].cell)
<1>1. DOMAIN s = 1 .. Len(s) /\ Len(s) \in Nat
  BY LenProperties
<1>2. k \in W /\ \A j \in W : j = k
  BY <1>1 DEF Once, WritesTo
<1>3. k <= k
  BY <1>1
<1>4. (CHOOSE i \in W : \A j \in W : j <= i) = k
  BY <1>2, <1>3
<1> QED
  BY <1>2, <1>4 DEF Final

LEMMA FinalKept ==
  ASSUME NEW e, NEW s \in Seq(Writes), NEW c, \A k \in 1 .. Len(s) : s[k].cell # c
  PROVE  Final(e, s, c) = e[c]
<1>1. DOMAIN s = 1 .. Len(s)
  BY LenProperties
<1>2. WritesTo(s, c) = {}
  BY <1>1 DEF WritesTo
<1> QED
  BY <1>2 DEF Final

LEMMA NumbersByCell ==
  /\ NumbersSettled = Numbers(eeprom, todo)
  /\ NumbersSettled' = Numbers(eeprom', todo')
BY DEF NumbersSettled, Settled, Numbers, FinalCount, FinalNo, Final, WritesTo

(* The cells of the users' table that are there when all is written. *)
LEMMA FinalCells ==
  ASSUME UsersInv, ListInv, up
  PROVE  /\ FinalCount(eeprom, todo) \in 0 .. Limit["users"]
         /\ \A p \in 1 .. FinalCount(eeprom, todo) :
              <<"users", p>> \in Cells /\ FinalNo(eeprom, todo, p) \in Texts
<1>1. /\ EepromFits /\ TodoFits /\ todo \in Seq(Writes) /\ Once(todo) /\ CountFits(todo)
      /\ Booted /\ Tables
  BY DEF UsersInv, ListInv, TodoFits
<1>2. FinalCount(eeprom, todo) \in 0 .. Limit["users"]
  <2>1. CASE \E k \in 1 .. Len(todo) : todo[k].cell = <<"users", 0>>
    BY <1>1, <2>1, FinalWritten DEF CountFits, FinalCount
  <2>2. CASE \A k \in 1 .. Len(todo) : todo[k].cell # <<"users", 0>>
    <3>1. FinalCount(eeprom, todo) = Count("users")
      BY <1>1, <2>2, FinalKept DEF FinalCount, Count
    <3>2. Count("users") \in 0 .. Erased /\ Stored \in 0 .. Erased
      BY <1>1, CountsAreNumbers
    <3> QED
      BY <1>1, <3>1, <3>2, Constants DEF Tables
  <2> QED
    BY <2>1, <2>2
<1>3. ASSUME NEW p \in 1 .. FinalCount(eeprom, todo)
      PROVE  <<"users", p>> \in Cells /\ FinalNo(eeprom, todo, p) \in Texts
  <2>1. p \in 0 .. Limit["users"] /\ p > 0
    BY <1>2, Constants
  <2>2. <<"users", p>> \in Cells /\ IsRecord(<<"users", p>>) /\ <<"users", p>> # <<"boot", 0>>
    BY <2>1, CellsByTable DEF IsRecord
  <2>3. Final(eeprom, todo, <<"users", p>>) \in UserRecord
    <3>1. CASE \E k \in 1 .. Len(todo) : todo[k].cell = <<"users", p>>
      <4>1. PICK k \in 1 .. Len(todo) : todo[k].cell = <<"users", p>>
        BY <3>1
      <4>2. todo[k].value \in UserRecord
        BY <1>1, <2>2, <4>1 DEF TodoFits, Fits
      <4> QED
        BY <1>1, <4>1, <4>2, FinalWritten
    <3>2. CASE \A k \in 1 .. Len(todo) : todo[k].cell # <<"users", p>>
      <4>1. eeprom[<<"users", p>>] \in UserRecord
        BY <1>1, <2>2 DEF EepromFits, Fits
      <4>2. Final(eeprom, todo, <<"users", p>>) = eeprom[<<"users", p>>]
        BY <1>1, <3>2, FinalKept
      <4> QED
        BY <4>1, <4>2
    <3> QED
      BY <3>1, <3>2
  <2> QED
    BY <2>2, <2>3 DEF FinalNo, UserRecord
<1> QED
  BY <1>2, <1>3

(* A write that is made changes nothing that was not settled. *)
LEMMA WriteSettles ==
  ASSUME UsersInv, ListInv, up, Write
  PROVE  NumbersSettled' = NumbersSettled /\ Once(todo') /\ CountFits(todo')
<1>1. /\ EepromFits /\ TodoFits /\ todo \in Seq(Writes) /\ Once(todo) /\ CountFits(todo)
      /\ todo # <<>> /\ todo' = Tail(todo)
      /\ eeprom' = [eeprom EXCEPT ![Head(todo).cell] = Head(todo).value]
  BY DEF UsersInv, ListInv, TodoFits, Write, EdbWrite
<1>2. /\ Head(todo) = todo[1] /\ todo[1].cell \in Cells
      /\ todo' \in Seq(Writes) /\ Len(todo') = Len(todo) - 1
      /\ Len(todo) \in Nat /\ Len(todo) >= 1
      /\ \A k \in 1 .. Len(todo') : k + 1 \in 1 .. Len(todo) /\ todo'[k] = todo[k + 1]
  BY <1>1, FirstWrite
<1>3. \A c \in Cells : eeprom'[c] = IF c = todo[1].cell THEN todo[1].value ELSE eeprom[c]
  BY <1>1, <1>2 DEF EepromFits
<1>4. Once(todo') /\ CountFits(todo')
  <2>1. ASSUME NEW j \in 1 .. Len(todo'), NEW k \in 1 .. Len(todo'),
               todo'[j].cell = todo'[k].cell
        PROVE  j = k
    <3>1. j + 1 = k + 1
      BY <1>1, <1>2, <2>1 DEF Once
    <3> QED
      BY <1>2, <3>1
  <2>2. CountFits(todo')
    BY <1>1, <1>2 DEF CountFits
  <2> QED
    BY <2>1, <2>2 DEF Once
<1>5. ASSUME NEW c \in Cells PROVE Final(eeprom', todo', c) = Final(eeprom, todo, c)
  <2>1. CASE c = todo[1].cell
    <3>1. Final(eeprom, todo, c) = todo[1].value
      <4>1. 1 \in 1 .. Len(todo)
        BY <1>2
      <4>2. Final(eeprom, todo, todo[1].cell) = todo[1].value
        BY <1>1, <4>1, FinalWritten
      <4> QED
        BY <2>1, <4>2
    <3>2. ASSUME NEW k \in 1 .. Len(todo') PROVE todo'[k].cell # c
      <4>1. todo[k + 1].cell = todo[1].cell => k + 1 = 1
        BY <1>1, <1>2 DEF Once
      <4> QED
        BY <1>2, <2>1, <4>1
    <3>3. Final(eeprom', todo', c) = eeprom'[c]
      BY <1>2, <3>2, FinalKept
    <3> QED
      BY <1>3, <2>1, <3>1, <3>3
  <2>2. CASE c # todo[1].cell /\ \E k \in 1 .. Len(todo') : todo'[k].cell = c
    <3>1. PICK k \in 1 .. Len(todo') : todo'[k].cell = c
      BY <2>2
    <3>2. Final(eeprom', todo', c) = todo'[k].value
      BY <1>2, <1>4, <3>1, FinalWritten
    <3>3. Final(eeprom, todo, c) = todo[k + 1].value
      BY <1>1, <1>2, <3>1, FinalWritten
    <3> QED
      BY <1>2, <3>2, <3>3
  <2>3. CASE c # todo[1].cell /\ \A k \in 1 .. Len(todo') : todo'[k].cell # c
    <3>1. ASSUME NEW k \in 1 .. Len(todo) PROVE todo[k].cell # c
      <4>1. CASE k = 1
        BY <4>1, <2>3
      <4>2. CASE k # 1
        <5>1. k - 1 \in 1 .. Len(todo') /\ k - 1 + 1 = k
          BY <4>2, <1>2
        <5> QED
          BY <5>1, <1>2, <2>3
      <4> QED
        BY <4>1, <4>2
    <3> QED
      <4>1. Final(eeprom, todo, c) = eeprom[c]
        BY <1>1, <3>1, FinalKept
      <4>2. Final(eeprom', todo', c) = eeprom'[c]
        BY <1>2, <2>3, FinalKept
      <4> QED
        BY <1>3, <2>3, <4>1, <4>2
  <2> QED
    BY <2>1, <2>2, <2>3
<1>6. FinalCount(eeprom', todo') = FinalCount(eeprom, todo)
  BY <1>5, Headers DEF FinalCount
<1>7. \A p \in 1 .. FinalCount(eeprom, todo) :
        FinalNo(eeprom', todo', p) = FinalNo(eeprom, todo, p)
  BY <1>5, FinalCells DEF FinalNo
<1> QED
  BY <1>4, <1>6, <1>7, NumbersByCell DEF Numbers

ListStep(s, t) ==
  \/ t = s
  \/ \E no \in Others : t = Append(s, no)
  \/ \E i \in 2 .. Len(s) : t = SubSeq(s, 1, i - 1) \o SubSeq(s, i + 1, Len(s))

LEMMA CellsDiffer ==
  /\ \A p, q : <<"users", p>> = <<"users", q>> <=> p = q
  /\ \A p, q : <<"users", p>> # <<"settings", q>>
OBVIOUS

LEMMA IdleNumbers ==
  ASSUME UsersInv, up, todo = <<>>
  PROVE  /\ FinalCount(eeprom, todo) = Count("users")
         /\ \A p \in 1 .. Count("users") : FinalNo(eeprom, todo, p) = Rec("users", p).no
         /\ ListInv
         /\ NumbersSettled \in Seq(Texts) /\ Len(NumbersSettled) = Count("users")
         /\ \A p \in 1 .. Count("users") : NumbersSettled[p] = Rec("users", p).no
<1>1. todo \in Seq(Writes) /\ Len(todo) = 0
  OBVIOUS
<1>2. ASSUME NEW c PROVE Final(eeprom, todo, c) = eeprom[c]
  <2>1. \A k \in 1 .. Len(todo) : todo[k].cell # c
    BY <1>1
  <2> QED
    BY <1>1, <2>1, FinalKept
<1>3. ListInv
  BY <1>1 DEF ListInv, Once, CountFits
<1>4. FinalCount(eeprom, todo) = Count("users") /\ Count("users") \in Nat
  BY <1>2, Idle DEF FinalCount, Count
<1>5. \A p \in 1 .. Count("users") : FinalNo(eeprom, todo, p) = Rec("users", p).no
  BY <1>2 DEF FinalNo, Rec
<1>6. NumbersSettled = [p \in 1 .. Count("users") |-> FinalNo(eeprom, todo, p)]
  BY <1>4, NumbersByCell DEF Numbers
<1>7. \A p \in 1 .. Count("users") : FinalNo(eeprom, todo, p) \in Texts
  BY <1>3, <1>4, FinalCells
<1>8. NumbersSettled \in Seq(Texts)
  BY <1>4, <1>6, <1>7, IsASeq
<1>9. Len(NumbersSettled) = Count("users")
  BY <1>4, <1>6, <1>8, LenProperties
<1> QED
  BY <1>3, <1>4, <1>5, <1>6, <1>8, <1>9

LEMMA AddNoLists ==
  ASSUME UsersInv, NEW no \in Others, AddNo(no)
  PROVE  ListInv' /\ NumbersSettled' = Append(NumbersSettled, no)
<1> DEFINE c == Count("users")
           n == noUsers + 1
           s == NumbersSettled
<1>1. up /\ todo = <<>> /\ eeprom' = eeprom
  BY DEF AddNo
<1>2. /\ todo' \in Seq(Writes) /\ Len(todo') = 3
      /\ todo'[1].cell = <<"settings", 1>> /\ todo'[2].cell = <<"users", c + 1>>
      /\ todo'[3].cell = <<"users", 0>>
      /\ todo'[2].value = User(n, no, "nobody") /\ todo'[3].value = c + 1
      /\ n \in 1 .. MaxUsers /\ c + 1 \in 2 .. n /\ c + 1 <= Limit["users"]
  <2>1. /\ todo' \in Seq(Writes) /\ Len(todo') = 3
        /\ todo'[1] = Put("settings", 1, n)
        /\ todo'[2] = Put("users", c + 1, User(n, no, "nobody"))
        /\ todo'[3] = WriteHead("users", c + 1)
        /\ n \in 1 .. MaxUsers /\ c + 1 \in 2 .. n /\ c + 1 <= Limit["users"]
    BY AddNoWrites
  <2> DEFINE rec == User(n, no, "nobody")
  <2> HIDE DEF c, n, rec
  <2>2. todo'[1].cell = <<"settings", 1>>
    BY <2>1, PutIs
  <2>3. todo'[2].cell = <<"users", c + 1>> /\ todo'[2].value = rec
    BY <2>1, PutIs DEF rec
  <2>4. todo'[3].cell = <<"users", 0>> /\ todo'[3].value = c + 1
    BY <2>1, HeadIs
  <2> QED
    BY <2>1, <2>2, <2>3, <2>4 DEF rec
<1>3. c \in Nat /\ c >= 1
  BY <1>1, Idle, Constants
<1>4. Once(todo')
  <2>1. ASSUME NEW j \in 1 .. Len(todo'), NEW k \in 1 .. Len(todo'), j # k
        PROVE  todo'[j].cell # todo'[k].cell
    <3>1. j \in {1, 2, 3} /\ k \in {1, 2, 3}
      BY <1>2
    <3>2. c + 1 # 0
      BY <1>3
    <3> QED
      BY <1>2, <2>1, <3>1, <3>2, CellsDiffer
  <2> QED
    BY <2>1 DEF Once
<1>5. CountFits(todo')
  <2>1. ASSUME NEW k \in 1 .. Len(todo'), todo'[k].cell = <<"users", 0>>
        PROVE  todo'[k].value \in 0 .. Limit["users"]
    <3>1. k \in {1, 2, 3} /\ 3 \in 1 .. Len(todo')
      BY <1>2
    <3>2. k = 3
      BY <1>2, <1>4, <2>1, <3>1 DEF Once
    <3> QED
      BY <1>2, <1>3, <3>2, Constants
  <2> QED
    BY <2>1 DEF CountFits
<1>6. FinalCount(eeprom', todo') = c + 1
  <2>1. 3 \in 1 .. Len(todo')
    BY <1>2
  <2>2. Final(eeprom', todo', todo'[3].cell) = todo'[3].value
    BY <1>2, <1>4, <2>1, FinalWritten
  <2> QED
    BY <1>2, <2>2 DEF FinalCount
<1>7. FinalNo(eeprom', todo', c + 1) = no
  <2>1. 2 \in 1 .. Len(todo')
    BY <1>2
  <2>2. Final(eeprom', todo', todo'[2].cell) = todo'[2].value
    BY <1>2, <1>4, <2>1, FinalWritten
  <2> QED
    BY <1>2, <2>2 DEF FinalNo, User
<1>8. ASSUME NEW p \in 1 .. c PROVE FinalNo(eeprom', todo', p) = s[p]
  <2>1. p # 0 /\ p # c + 1
    BY <1>3
  <2>2. ASSUME NEW k \in 1 .. Len(todo') PROVE todo'[k].cell # <<"users", p>>
    <3>1. k \in {1, 2, 3}
      BY <1>2
    <3> QED
      BY <1>2, <2>1, <3>1, CellsDiffer
  <2>3. Final(eeprom', todo', <<"users", p>>) = eeprom[<<"users", p>>]
    BY <1>1, <1>2, <2>2, FinalKept
  <2> QED
    BY <1>1, <2>3, IdleNumbers DEF FinalNo, Rec
<1>9. NumbersSettled' = [p \in 1 .. c + 1 |-> FinalNo(eeprom', todo', p)]
  BY <1>6, NumbersByCell DEF Numbers
<1>10. s \in Seq(Texts) /\ Len(s) = c /\ no \in Texts /\ \A p \in 1 .. c : s[p] \in Texts
  <2>1. s \in Seq(Texts) /\ Len(s) = c /\ no \in Texts
    BY <1>1, IdleNumbers, Nobody
  <2> QED
    BY <2>1, ElementOfSeq
<1>11. /\ Append(s, no) \in Seq(Texts) /\ Len(Append(s, no)) = c + 1
       /\ \A p \in 1 .. c : Append(s, no)[p] = s[p]
       /\ Append(s, no)[c + 1] = no
  BY <1>10, AppendProperties
<1> HIDE DEF c, s
<1>12. \A p \in 1 .. c + 1 : /\ FinalNo(eeprom', todo', p) \in Texts
                             /\ FinalNo(eeprom', todo', p) = Append(s, no)[p]
  <2>1. ASSUME NEW p \in 1 .. c + 1, p # c + 1 PROVE p \in 1 .. c
    BY <1>3, <2>1
  <2> QED
    BY <1>7, <1>8, <1>10, <1>11, <2>1
<1>13. NumbersSettled' \in Seq(Texts) /\ Len(NumbersSettled') = c + 1
  <2>1. c + 1 \in Nat
    BY <1>3
  <2>2. NumbersSettled' \in Seq(Texts)
    BY <1>9, <1>12, <2>1, IsASeq
  <2> QED
    BY <1>9, <2>1, <2>2, LenProperties
<1>14. NumbersSettled' = Append(s, no)
  <2>1. \A p \in 1 .. c + 1 : NumbersSettled'[p] = Append(s, no)[p]
    BY <1>9, <1>12
  <2> QED
    BY <1>11, <1>13, <2>1, SeqEqual
<1> QED
  BY <1>4, <1>5, <1>14 DEF s, ListInv, Once, CountFits

(* A change of a record writes no number. *)
LEMMA ChangeRecordLists ==
  ASSUME UsersInv, NEW no \in Others \cup {Owner}, ChangeRecord(no)
  PROVE  ListInv' /\ NumbersSettled' = NumbersSettled
<1> DEFINE c == Count("users")
           id == Rec("users", First(Position(no))).id
           new == [Rec("users", id) EXCEPT !.by = no]
<1>1. up /\ todo = <<>> /\ eeprom' = eeprom
  BY DEF ChangeRecord
<1>2. /\ id \in 1 .. c
      /\ todo' \in Seq(Writes) /\ Len(todo') = 1
      /\ todo'[1].cell = <<"users", id>> /\ todo'[1].value = new
      /\ new.no = Rec("users", id).no
  <2>1. /\ id \in 1 .. c
        /\ todo' \in Seq(Writes) /\ Len(todo') = 1 /\ todo'[1] = Put("users", id, new)
        /\ new.no = Rec("users", id).no
    BY ChangeRecordWrites
  <2> HIDE DEF id, new
  <2> QED
    BY <2>1, PutIs
<1> HIDE DEF id, new
<1>3. c \in Nat /\ c >= 1 /\ id # 0
  BY <1>1, <1>2, Idle, Constants
<1>4. 1 \in 1 .. Len(todo') /\ \A k \in 1 .. Len(todo') : k = 1
  BY <1>2
<1>5. Once(todo')
  BY <1>4 DEF Once
<1>6. todo'[1].cell # <<"users", 0>>
  BY <1>2, <1>3, CellsDiffer
<1>7. CountFits(todo')
  BY <1>4, <1>6 DEF CountFits
<1>8. FinalCount(eeprom', todo') = c
  <2>1. Final(eeprom', todo', <<"users", 0>>) = eeprom[<<"users", 0>>]
    BY <1>1, <1>2, <1>4, <1>6, FinalKept
  <2> QED
    BY <2>1 DEF FinalCount, Count
<1>9. ASSUME NEW p \in 1 .. c PROVE FinalNo(eeprom', todo', p) = FinalNo(eeprom, todo, p)
  <2>1. CASE p = id
    <3>1. Final(eeprom', todo', todo'[1].cell) = todo'[1].value
      BY <1>2, <1>4, <1>5, FinalWritten
    <3> QED
      BY <1>1, <1>2, <2>1, <3>1, IdleNumbers DEF FinalNo
  <2>2. CASE p # id
    <3>1. \A k \in 1 .. Len(todo') : todo'[k].cell # <<"users", p>>
      BY <1>2, <1>4, <2>2, CellsDiffer
    <3>2. Final(eeprom', todo', <<"users", p>>) = eeprom[<<"users", p>>]
      BY <1>1, <1>2, <3>1, FinalKept
    <3> QED
      BY <1>1, <3>2, IdleNumbers DEF FinalNo, Rec
  <2> QED
    BY <2>1, <2>2
<1>10. NumbersSettled' = NumbersSettled
  BY <1>1, <1>8, <1>9, IdleNumbers, NumbersByCell DEF Numbers
<1> QED
  BY <1>5, <1>7, <1>10 DEF ListInv, Once, CountFits

(* A record that is deleted closes the gap it leaves in the list.  *)
LEMMA DelNoLists ==
  ASSUME UsersInv, NEW i \in 1 .. MaxUsers, DelNo(i)
  PROVE  ListInv' /\ ListStep(NumbersSettled, NumbersSettled')
<1> DEFINE c == Count("users")
           n == noUsers - 1
           m == DelNoCopies(i)
           s == NumbersSettled
<1>1. up /\ todo = <<>> /\ eeprom' = eeprom /\ i \in 1 .. noUsers - 1
  BY DEF DelNo
<1>2. c \in Nat /\ c >= 1 /\ c <= Limit["users"] /\ i \in Nat /\ i >= 1 /\ noUsers \in Nat
  BY <1>1, Idle, Constants
<1>3. CASE i + 1 \notin 1 .. c
  <2>1. todo' \in Seq(Writes) /\ Len(todo') = 1 /\ todo'[1].cell = <<"settings", 1>>
    <3>1. todo' \in Seq(Writes) /\ Len(todo') = 1 /\ todo'[1] = Put("settings", 1, n)
      BY <1>3, DelNoWrites
    <3> HIDE DEF n
    <3> QED
      BY <3>1, PutIs
  <2>2. \A k \in 1 .. Len(todo') : k = 1
    BY <2>1
  <2>3. \A p : Final(eeprom', todo', <<"users", p>>) = eeprom[<<"users", p>>]
    <3>1. ASSUME NEW p PROVE Final(eeprom', todo', <<"users", p>>) = eeprom[<<"users", p>>]
      <4>1. \A k \in 1 .. Len(todo') : todo'[k].cell # <<"users", p>>
        BY <2>1, <2>2, CellsDiffer
      <4> QED
        BY <1>1, <2>1, <4>1, FinalKept
    <3> QED
      BY <3>1
  <2>4. Once(todo') /\ CountFits(todo')
    BY <2>1, <2>2, CellsDiffer DEF Once, CountFits
  <2>5. FinalCount(eeprom', todo') = c
    BY <2>3 DEF FinalCount, Count
  <2>6. \A p \in 1 .. c : FinalNo(eeprom', todo', p) = FinalNo(eeprom, todo, p)
    BY <1>1, <2>3, IdleNumbers DEF FinalNo, Rec
  <2>7. NumbersSettled' = s
    BY <1>1, <2>5, <2>6, IdleNumbers, NumbersByCell DEF Numbers
  <2> QED
    BY <2>4, <2>7 DEF ListInv, Once, CountFits, ListStep
<1>4. CASE i + 1 \in 1 .. c
  <2>1. /\ m \in Nat /\ m = c - (i + 1) /\ c >= 2
        /\ todo' \in Seq(Writes) /\ Len(todo') = m + 2
        /\ \A k \in 1 .. m : /\ todo'[k].cell = <<"users", i + k>>
                             /\ todo'[k].value = Rec("users", i + 1 + k)
        /\ todo'[m + 1].cell = <<"users", 0>> /\ todo'[m + 1].value = c - 1
        /\ todo'[m + 2].cell = <<"settings", 1>>
    <3>1. /\ m \in Nat /\ c >= 2
          /\ todo' \in Seq(Writes) /\ Len(todo') = m + 2
          /\ \A k \in 1 .. m : todo'[k] = Put("users", i + k, Rec("users", i + 1 + k))
          /\ todo'[m + 1] = WriteHead("users", c - 1)
          /\ todo'[m + 2] = Put("settings", 1, n)
      BY <1>4, DelNoWrites
    <3>2. m = c - (i + 1)
      BY DEF DelNoCopies
    <3> HIDE DEF n, m, c
    <3>3. \A k \in 1 .. m : /\ todo'[k].cell = <<"users", i + k>>
                             /\ todo'[k].value = Rec("users", i + 1 + k)
      BY <3>1, PutIs
    <3>4. todo'[m + 1].cell = <<"users", 0>> /\ todo'[m + 1].value = c - 1
      BY <3>1, HeadIs
    <3>5. todo'[m + 2].cell = <<"settings", 1>>
      BY <3>1, PutIs
    <3> QED
      BY <3>1, <3>2, <3>3, <3>4, <3>5
  <2> HIDE DEF m, c, s
  <2>2. \A k \in 1 .. m + 2 : k \in 1 .. m \/ k = m + 1 \/ k = m + 2
    BY <2>1
  <2>3. Once(todo')
    <3>1. ASSUME NEW j \in 1 .. m + 2, NEW k \in 1 .. m + 2, todo'[j].cell = todo'[k].cell
          PROVE  j = k
      <4>1. CASE j \in 1 .. m /\ k \in 1 .. m
        <5>1. i + j = i + k
          BY <2>1, <3>1, <4>1, CellsDiffer
        <5> QED
          BY <1>2, <4>1, <5>1
      <4>2. CASE j = m + 1 \/ k = m + 1
        <5>1. \A l \in 1 .. m : i + l # 0
          BY <1>2, <2>1
        <5>2. ASSUME NEW l \in 1 .. m + 2, todo'[l].cell = <<"users", 0>> PROVE l = m + 1
          <6>1. CASE l \in 1 .. m
            <7>1. todo'[l].cell = <<"users", i + l>> /\ i + l # 0
              BY <2>1, <5>1, <6>1
            <7> QED
              BY <5>2, <7>1, CellsDiffer
          <6>2. CASE l = m + 2
            <7>1. todo'[l].cell = <<"settings", 1>>
              BY <2>1, <6>2
            <7> QED
              BY <5>2, <7>1, CellsDiffer
          <6> QED
            BY <2>2, <5>2, <6>1, <6>2
        <5>3. todo'[j].cell = <<"users", 0>> /\ todo'[k].cell = <<"users", 0>>
          BY <2>1, <3>1, <4>2
        <5> QED
          BY <5>2, <5>3
      <4>3. CASE j = m + 2 \/ k = m + 2
        <5>1. ASSUME NEW l \in 1 .. m + 2, todo'[l].cell = <<"settings", 1>> PROVE l = m + 2
          <6>1. CASE l \in 1 .. m
            <7>1. todo'[l].cell = <<"users", i + l>>
              BY <2>1, <6>1
            <7> QED
              BY <5>1, <7>1, CellsDiffer
          <6>2. CASE l = m + 1
            <7>1. todo'[l].cell = <<"users", 0>>
              BY <2>1, <6>2
            <7> QED
              BY <5>1, <7>1, CellsDiffer
          <6> QED
            BY <2>2, <5>1, <6>1, <6>2
        <5>2. todo'[j].cell = <<"settings", 1>> /\ todo'[k].cell = <<"settings", 1>>
          BY <2>1, <3>1, <4>3
        <5> QED
          BY <5>1, <5>2
      <4> QED
        BY <2>2, <4>1, <4>2, <4>3
    <3> QED
      BY <2>1, <3>1 DEF Once
  <2>4. m + 1 \in 1 .. Len(todo')
    BY <2>1
  <2>5. CountFits(todo')
    <3>1. ASSUME NEW k \in 1 .. Len(todo'), todo'[k].cell = <<"users", 0>>
          PROVE  todo'[k].value \in 0 .. Limit["users"]
      <4>1. k = m + 1
        BY <2>1, <2>3, <2>4, <3>1 DEF Once
      <4> QED
        BY <1>2, <2>1, <4>1, Constants
    <3> QED
      BY <3>1 DEF CountFits
  <2>6. FinalCount(eeprom', todo') = c - 1
    <3>1. Final(eeprom', todo', todo'[m + 1].cell) = todo'[m + 1].value
      BY <2>1, <2>3, <2>4, FinalWritten
    <3> QED
      BY <2>1, <3>1 DEF FinalCount
  <2>7. /\ s \in Seq(Texts) /\ Len(s) = c
        /\ \A p \in 1 .. c : s[p] = Rec("users", p).no /\ s[p] \in Texts
    <3>1. /\ s \in Seq(Texts) /\ Len(s) = c
          /\ \A p \in 1 .. c : s[p] = Rec("users", p).no
      BY <1>1, IdleNumbers DEF s, c
    <3> QED
      BY <3>1, ElementOfSeq
  <2>8. ASSUME NEW p \in 1 .. c - 1
        PROVE  FinalNo(eeprom', todo', p) = IF p <= i THEN s[p] ELSE s[p + 1]
    <3>1. CASE p <= i
      <4>1. ASSUME NEW k \in 1 .. Len(todo') PROVE todo'[k].cell # <<"users", p>>
        <5>1. CASE k \in 1 .. m
          <6>1. i + k # p
            BY <1>2, <2>1, <3>1, <5>1
          <6> QED
            BY <2>1, <5>1, <6>1, CellsDiffer
        <5>2. CASE k \notin 1 .. m
          <6>1. p # 0
            BY <1>2
          <6> QED
            BY <2>1, <2>2, <5>2, <6>1, CellsDiffer
        <5> QED
          BY <5>1, <5>2
      <4>2. Final(eeprom', todo', <<"users", p>>) = eeprom[<<"users", p>>]
        BY <1>1, <2>1, <4>1, FinalKept
      <4>3. p \in 1 .. c
        BY <1>2
      <4> QED
        BY <2>7, <3>1, <4>2, <4>3 DEF FinalNo, Rec
    <3>2. CASE ~(p <= i)
      <4> DEFINE k == p - i
      <4>1. k \in 1 .. m /\ k \in 1 .. Len(todo') /\ i + k = p /\ i + 1 + k = p + 1 /\ p + 1 \in 1 .. c
        BY <1>2, <2>1, <3>2
      <4> HIDE DEF k
      <4>2. Final(eeprom', todo', todo'[k].cell) = todo'[k].value
        BY <2>1, <2>3, <4>1, FinalWritten
      <4>3. todo'[k].cell = <<"users", p>> /\ todo'[k].value = Rec("users", p + 1)
        BY <2>1, <4>1
      <4> QED
        BY <2>7, <3>2, <4>1, <4>2, <4>3 DEF FinalNo
    <3> QED
      BY <3>1, <3>2
  <2> DEFINE left == SubSeq(s, 1, i)
             right == SubSeq(s, i + 2, c)
             t == left \o right
  <2>9. left \in Seq(Texts) /\ Len(left) = i /\ \A p \in 1 .. i : left[p] = s[p]
    <3>1. 1 \in Int /\ i \in Int /\ \A p \in 1 .. i : s[p] \in Texts
      BY <1>2, <1>4, <2>7
    <3>2. /\ left \in Seq(Texts) /\ Len(left) = IF 1 <= i THEN i - 1 + 1 ELSE 0
          /\ \A p \in 1 .. i - 1 + 1 : left[p] = s[1 + p - 1]
      BY <3>1, SubSeqProperties
    <3> HIDE DEF left
    <3>3. \A p \in 1 .. i : p \in 1 .. i - 1 + 1 /\ 1 + p - 1 = p
      BY <1>2
    <3> QED
      BY <1>2, <3>2, <3>3
  <2>10. /\ right \in Seq(Texts) /\ Len(right) = c - 1 - i
         /\ \A p \in 1 .. c - 1 - i : right[p] = s[p + i + 1]
    <3>1. i + 2 \in Int /\ c \in Int /\ \A p \in i + 2 .. c : s[p] \in Texts
      BY <1>2, <1>4, <2>7
    <3>2. /\ right \in Seq(Texts) /\ Len(right) = IF i + 2 <= c THEN c - (i + 2) + 1 ELSE 0
          /\ \A p \in 1 .. c - (i + 2) + 1 : right[p] = s[i + 2 + p - 1]
      BY <3>1, SubSeqProperties
    <3> HIDE DEF right
    <3>3. \A p \in 1 .. c - 1 - i : p \in 1 .. c - (i + 2) + 1 /\ i + 2 + p - 1 = p + i + 1
      BY <1>2
    <3>4. Len(right) = c - 1 - i
      BY <1>2, <1>4, <3>2
    <3> QED
      BY <3>2, <3>3, <3>4
  <2> HIDE DEF left, right
  <2>11. /\ t \in Seq(Texts) /\ Len(t) = c - 1
         /\ \A p \in 1 .. c - 1 : t[p] = IF p <= i THEN s[p] ELSE s[p + 1]
    <3>0. /\ t \in Seq(Texts) /\ Len(t) = Len(left) + Len(right)
          /\ \A p \in 1 .. Len(left) + Len(right) :
               t[p] = IF p <= Len(left) THEN left[p] ELSE right[p - Len(left)]
      <4>1. left \in Seq(Texts) /\ right \in Seq(Texts)
        BY <2>9, <2>10
      <4> QED
        BY <4>1, ConcatProperties
    <3> HIDE DEF t
    <3>1. /\ t \in Seq(Texts) /\ Len(t) = i + (c - 1 - i)
          /\ \A p \in 1 .. i + (c - 1 - i) : t[p] = IF p <= i THEN left[p] ELSE right[p - i]
      BY <2>9, <2>10, <3>0
    <3>2. i + (c - 1 - i) = c - 1
      BY <1>2
    <3>3. ASSUME NEW p \in 1 .. c - 1 PROVE t[p] = IF p <= i THEN s[p] ELSE s[p + 1]
      <4>1. t[p] = IF p <= i THEN left[p] ELSE right[p - i]
        BY <3>1, <3>2
      <4>2. p <= i => left[p] = s[p]
        BY <1>2, <2>9
      <4>3. ASSUME ~(p <= i) PROVE right[p - i] = s[p + 1]
        <5>1. p - i \in 1 .. c - 1 - i /\ p - i + i + 1 = p + 1
          BY <1>2, <4>3
        <5> QED
          BY <2>10, <5>1
      <4> QED
        BY <4>1, <4>2, <4>3
    <3> QED
      BY <3>1, <3>2, <3>3
  <2> HIDE DEF t
  <2>12. NumbersSettled' = [p \in 1 .. c - 1 |-> FinalNo(eeprom', todo', p)]
    BY <2>6, NumbersByCell DEF Numbers
  <2>13. \A p \in 1 .. c - 1 : FinalNo(eeprom', todo', p) \in Texts
    <3>1. ASSUME NEW p \in 1 .. c - 1 PROVE p \in 1 .. c /\ p + 1 \in 1 .. c
      BY <1>2
    <3> QED
      BY <3>1, <2>7, <2>8
  <2>14. NumbersSettled' \in Seq(Texts) /\ Len(NumbersSettled') = c - 1
    <3>1. c - 1 \in Nat
      BY <1>2
    <3>2. NumbersSettled' \in Seq(Texts)
      BY <2>12, <2>13, <3>1, IsASeq
    <3> QED
      BY <2>12, <3>1, <3>2, LenProperties
  <2>15. NumbersSettled' = t
    <3>1. \A p \in 1 .. c - 1 : NumbersSettled'[p] = t[p]
      BY <2>8, <2>11, <2>12
    <3> QED
      BY <2>11, <2>14, <3>1, SeqEqual
  <2>16. \E l \in 2 .. Len(s) :
           NumbersSettled' = SubSeq(s, 1, l - 1) \o SubSeq(s, l + 1, Len(s))
    <3> DEFINE l == i + 1
    <3>1. l \in 2 .. Len(s) /\ i = l - 1 /\ i + 2 = l + 1 /\ c = Len(s)
      BY <1>2, <1>4, <2>7
    <3>2. t = SubSeq(s, 1, i) \o SubSeq(s, i + 2, c)
      BY DEF t, left, right
    <3> HIDE DEF l
    <3>3. NumbersSettled' = SubSeq(s, 1, l - 1) \o SubSeq(s, l + 1, Len(s))
      BY <2>15, <3>1, <3>2, Zenon
    <3> QED
      BY <3>1, <3>3, Zenon
  <2> QED
    BY <2>3, <2>5, <2>16 DEF s, ListInv, ListStep, Once, CountFits
<1> QED
  BY <1>3, <1>4

LEMMA InitListInv == UsersInit => ListInv
BY DEF UsersInit, ListInv

LEMMA NextLists ==
  ASSUME UsersInv, ListInv, [UsersNext]_usersVars
  PROVE  ListInv' /\ (up /\ up' => ListStep(NumbersSettled, NumbersSettled'))
<1>1. CASE Prepare \/ PowerFails
  BY <1>1 DEF Prepare, PowerFails, ListInv
<1>2. CASE Start
  <2>1. todo' = <<>> /\ ~up
    BY <1>2 DEF Start, edbVars
  <2> QED
    BY <2>1 DEF ListInv, Once, CountFits
<1>3. CASE Write
  <2>1. up' = up
    BY <1>3 DEF Write
  <2> QED
    BY <1>3, <2>1, WriteSettles DEF ListInv, Once, CountFits, ListStep
<1>4. ASSUME NEW no \in Others, AddNo(no)
      PROVE  ListInv' /\ ListStep(NumbersSettled, NumbersSettled')
  BY <1>4, AddNoLists DEF ListStep
<1>5. ASSUME NEW no \in Others \cup {Owner}, ChangeRecord(no)
      PROVE  ListInv' /\ ListStep(NumbersSettled, NumbersSettled')
  BY <1>5, ChangeRecordLists DEF ListStep
<1>6. ASSUME NEW i \in 1 .. MaxUsers, DelNo(i)
      PROVE  ListInv' /\ ListStep(NumbersSettled, NumbersSettled')
  BY <1>6, DelNoLists
<1>7. CASE UNCHANGED usersVars
  BY <1>7, NumbersByCell
     DEF usersVars, edbVars, ListInv, Once, CountFits, ListStep, Numbers, FinalCount, FinalNo
<1> QED
  BY <1>1, <1>2, <1>3, <1>4, <1>5, <1>6, <1>7 DEF UsersNext

-----------------------------------------------------------------------------

(* The invariant holds in every run. *)
THEOREM UsersHold == UsersSpec => []UsersInv
BY InitUsersInv, NextUsersInv, PTL DEF UsersSpec

(* The types of the tables: whatever write the power cuts short, a record  *)
(* is a record, and the number of records stays within its table.          *)
THEOREM UsersTypesHold == UsersSpec => []UsersTypeOK
<1>1. UsersInv => UsersTypeOK
  <2> SUFFICES ASSUME UsersInv PROVE UsersTypeOK
    OBVIOUS
  <2>1. EepromFits /\ up \in BOOLEAN /\ noUsers \in 0 .. MaxUsers /\ failures \in Nat
    BY DEF UsersInv
  <2>2. Booted => Count("users") \in 1 .. Limit["users"]
    BY <2>1, CountsAreNumbers, Constants DEF UsersInv, Tables
  <2> QED
    BY <2>1, <2>2 DEF UsersTypeOK, EepromFits, Fits, UserRecord
<1> QED
  BY <1>1, UsersHold, PTL

(* The owner stays: from the first boot on, whatever is added, changed and *)
(* deleted and wherever the power fails, the first user is the owner.      *)
THEOREM OwnerIsFirst == UsersSpec => []OwnerStays
<1>1. UsersInv => OwnerStays
  <2> SUFFICES ASSUME UsersInv, Booted PROVE
        /\ Count("settings") = 1 /\ Stored >= 1 /\ Count("users") >= 1
        /\ Rec("users", 1).id = 1 /\ Rec("users", 1).no = Owner
    BY DEF OwnerStays
  <2> QED
    BY CountsAreNumbers, Constants DEF UsersInv, Tables
<1> QED
  BY <1>1, UsersHold, PTL

(* No record is hidden: whatever write of add_no or del_no the power       *)
(* prevents, the number of users covers the records of the table.          *)
THEOREM NoRecordHidden == UsersSpec => []NoneHidden
<1>1. UsersInv => NoneHidden
  BY DEF UsersInv, NoneHidden, Tables
<1> QED
  BY <1>1, UsersHold, PTL

(* The counts agree when no handler runs, but for one user too many for    *)
(* each power failure that cut a handler short.                            *)
THEOREM CountsAgreeAtRest == UsersSpec => []CountsAgree
<1>1. UsersInv => CountsAgree
  <2> SUFFICES ASSUME UsersInv, up, todo = <<>>
               PROVE  noUsers = Stored /\ noUsers - Count("users") \in 0 .. failures
    BY DEF CountsAgree
  <2>1. /\ noUsers = Stored /\ Missing <= failures /\ failures \in Nat
        /\ noUsers \in 1 .. MaxUsers /\ Count("users") \in 1 .. noUsers
    BY Idle
  <2> QED
    BY <2>1, Constants DEF Missing
<1> QED
  BY <1>1, UsersHold, PTL

(* The list of numbers changes as edb_appendrec and edb_deleterec promise: *)
(* a handler leaves it, appends to it or takes one that is not the first   *)
(* out of it, and each of its writes, made, leaves what the list will be.  *)
THEOREM ListChangesAsPromised == UsersSpec => ListChanges
<1>1. UsersInv /\ ListInv /\ [UsersNext]_usersVars => ListInv'
  BY NextLists
<1>2. UsersInv /\ ListInv /\ [UsersNext]_usersVars =>
        [LET s == NumbersSettled
         IN up /\ up' =>
              \/ NumbersSettled' = s
              \/ \E no \in Others : NumbersSettled' = Append(s, no)
              \/ \E i \in 2 .. Len(s) :
                   NumbersSettled' = SubSeq(s, 1, i - 1) \o SubSeq(s, i + 1, Len(s))]_usersVars
  BY NextLists DEF ListStep
<1> QED
  BY <1>1, <1>2, InitListInv, UsersHold, PTL DEF UsersSpec, ListChanges
=============================================================================
