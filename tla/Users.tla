------------------------------- MODULE Users --------------------------------
(***************************************************************************)
(* The users of the device: the table of their records, the number of      *)
(* users kept in a table of its own and in RAM, and the operations of      *)
(* app.c on them: first boot, adding and deleting a user, a user's change  *)
(* of his own record, and the start after a power failure.                 *)
(***************************************************************************)
EXTENDS Edb, FiniteSets

CONSTANTS
  Owner,         \* the telephone number the device is delivered with
  Others,        \* the other numbers that may be added
  MaxUsers,      \* MAX_NO_USERS
  MaxFailures    \* bound: power failures while a handler is writing

ASSUME UsersAssumption ==
  /\ Owner \notin Others
  /\ {Owner} \cup Others \subseteq STRING
  /\ MaxUsers \in 1 .. 255      \* no_users is a byte
  /\ MaxFailures \in Nat
  /\ DOMAIN Limit = {"boot", "users", "settings"}
  /\ Limit["users"] >= MaxUsers /\ Limit["settings"] >= 1

VARIABLES
  up,            \* the application has started
  noUsers,       \* me->system_settings.no_users
  failures       \* power failures that cut a handler short

usersVars == <<edbVars, up, noUsers, failures>>

(* The space of the tables: 142 bytes from 0 and 24 from 142, less a       *)
(* header of 6 bytes, for records of 24 and 2 bytes (edb_limit).           *)
LimitOfSettings ==
  [boot |-> 0, users |-> (142 - (0 + 6)) \div 24, settings |-> (166 - (142 + 6)) \div 2]

(* A record: the id, the number, and whose order last changed the rest.    *)
User(id, no, by) == [id |-> id, no |-> no, by |-> by]
NoUser == User(0, "erased", "nobody")

(* What is left of a write w that is cut short.  A record is written byte  *)
(* by byte: the id, the number, the rest.  Of the header of a table and of *)
(* the settings only one byte changes, so they are the old or the new.     *)
IsRecord(c) == c[1] = "users" /\ c[2] > 0

Parts(w) ==
  LET old == eeprom[w.cell]
      new == w.value
  IN IF ~IsRecord(w.cell) THEN {old, new}
     ELSE {User(new.id, no, old.by) :
             no \in {old.no, new.no} \cup (IF old.no = new.no THEN {} ELSE {"garbled"})}
          \cup {new}

Erased == 65535                  \* what two bytes of an erased EEPROM hold
Booted == Rec("boot", 0)
Stored == Rec("settings", 1)     \* no_users in the EEPROM

-----------------------------------------------------------------------------

(* An erased EEPROM. *)
UsersInit ==
  /\ eeprom = [c \in Cells |-> IF c = <<"boot", 0>> THEN FALSE
                               ELSE IF IsRecord(c) THEN NoUser ELSE Erased]
  /\ todo = <<>>
  /\ up = FALSE /\ noUsers = 0 /\ failures = 0

(* Mutant: the first boot is recorded before it is complete. *)
FirstBootFlagged ==
  <<Put("boot", 0, TRUE)>> \o Create("users") \o Create("settings")
  \o AppendRec("users", 0, User(1, Owner, "nobody")) \o AppendRec("settings", 0, 1)

(* The tables of a device that boots for the first time.                   *)
FirstBoot ==
  Create("users") \o Create("settings")
  \o AppendRec("users", 0, User(1, Owner, "nobody")) \o AppendRec("settings", 0, 1)
  \o <<Put("boot", 0, TRUE)>>

Prepare ==
  /\ ~up /\ todo = <<>> /\ ~Booted
  /\ todo' = FirstBoot
  /\ UNCHANGED <<eeprom, up, noUsers, failures>>

(* ... and the number of users is read. *)
Start ==
  /\ ~up /\ todo = <<>> /\ Booted
  /\ up' = TRUE
  /\ noUsers' = Stored
  /\ UNCHANGED <<edbVars, failures>>

(* update_system_settings.  (Mutant: into the table that is open.) *)
SettingsMissed(n) == <<>>
Settings(n) == UpdateRec("settings", Count("settings"), 1, n)

(* Mutants: the record before the count; no limit on the users. *)
AddNoRecordFirst(no) ==
  /\ up /\ todo = <<>> /\ noUsers < MaxUsers
  /\ noUsers' = noUsers + 1
  /\ todo' = AppendRec("users", Count("users"), User(noUsers', no, "nobody"))
             \o Settings(noUsers')
  /\ UNCHANGED <<eeprom, up, failures>>
AddNoUnlimited(no) ==
  /\ up /\ todo = <<>>
  /\ noUsers' = noUsers + 1
  /\ todo' = Settings(noUsers')
             \o AppendRec("users", Count("users"), User(noUsers', no, "nobody"))
  /\ UNCHANGED <<eeprom, up, failures>>

(* add_no, second step *)
AddNo(no) ==
  /\ up /\ todo = <<>> /\ noUsers < MaxUsers
  /\ noUsers' = noUsers + 1
  /\ todo' = Settings(noUsers')
             \o AppendRec("users", Count("users"), User(noUsers', no, "nobody"))
  /\ UNCHANGED <<eeprom, up, failures>>

(* del_no, second step: the owner is not in the list, so i is one less     *)
(* than the record number.                                                 *)
DelNo(i) ==
  /\ up /\ todo = <<>> /\ i \in 1 .. noUsers - 1
  /\ noUsers' = noUsers - 1
  /\ todo' = DeleteRec("users", Count("users"), i + 1) \o Settings(noUsers')
  /\ UNCHANGED <<eeprom, up, failures>>

(* validate_user: the first record with the sender's number. *)
Position(no) == {p \in 1 .. noUsers : p <= Count("users") /\ Rec("users", p).no = no}
First(P) == CHOOSE p \in P : \A q \in P : p <= q

(* change_pass, en_dis_pwd, enable_broadcast, status_freq, second step:    *)
(* the record of number current_userid, which is the sender's id, is read  *)
(* and written back changed.                                               *)
ChangeRecord(no) ==
  /\ up /\ todo = <<>> /\ Position(no) # {}
  /\ LET id == Rec("users", First(Position(no))).id
         n == Count("users")
     IN /\ id \in 1 .. n
        /\ todo' = UpdateRec("users", n, id, [Rec("users", id) EXCEPT !.by = no])
  /\ UNCHANGED <<eeprom, up, noUsers, failures>>

Write == EdbWrite /\ UNCHANGED <<up, noUsers, failures>>

(* The power fails, and with it goes the RAM. *)
PowerFails ==
  /\ todo # <<>> => failures < MaxFailures
  /\ failures' = IF todo = <<>> THEN failures ELSE failures + 1
  /\ EdbLost(Parts(Head(todo)))
  /\ up' = FALSE /\ noUsers' = 0

UsersNext ==
  \/ Prepare \/ Start \/ Write \/ PowerFails
  \/ \E no \in Others : AddNo(no)
  \/ \E no \in Others \cup {Owner} : ChangeRecord(no)
  \/ \E i \in 1 .. MaxUsers : DelNo(i)

UsersSpec == UsersInit /\ [][UsersNext]_usersVars

-----------------------------------------------------------------------------

(* What the text fields of a record may hold. *)
Texts == {Owner, "erased", "garbled", "nobody"} \cup Others

(* The counts fit the tables and the counter its limit; a record of a user *)
(* is one, whatever has been written over it.                              *)
UsersTypeOK ==
  /\ \A c \in Cells : IF c = <<"boot", 0>> THEN eeprom[c] \in BOOLEAN
                      ELSE IF IsRecord(c)
                      THEN eeprom[c] \in [id : 0 .. MaxUsers, no : Texts, by : Texts]
                      ELSE eeprom[c] \in 0 .. Erased
  /\ Booted => Count("users") \in 1 .. Limit["users"]
  /\ up \in BOOLEAN /\ noUsers \in 0 .. MaxUsers /\ failures \in Nat

(* The number of users the application goes by and the number of records   *)
(* of their table agree when no handler is running, but for one user too   *)
(* many for each power failure that cut a handler short.                   *)
CountsAgree ==
  up /\ todo = <<>> =>
    /\ noUsers = Stored
    /\ noUsers - Count("users") \in 0 .. failures

(* No record is hidden: at every moment at which the power may fail, the   *)
(* number of users on record covers all the records of the table.  So      *)
(* add_no counts before it appends and del_no counts after it deletes.     *)
NoneHidden == Booted => Count("users") <= Stored

(* The first boot is on record only when it is complete, and from then on  *)
(* the owner is the first user, whatever is deleted and whenever the power *)
(* fails.                                                                  *)
OwnerStays ==
  Booted =>
    /\ Count("settings") = 1 /\ Stored >= 1 /\ Count("users") >= 1
    /\ Rec("users", 1).id = 1 /\ Rec("users", 1).no = Owner

(* The numbers in the table once the running handler is through. *)
NumbersSettled == [p \in 1 .. Settled("users", 0) |-> Settled("users", p).no]

(* While the power holds, a handler leaves the list of numbers as it is,   *)
(* appends one to it, or takes one that is not the first out of it and     *)
(* keeps the order of the others: what edb_appendrec and edb_deleterec     *)
(* promise, through the record by record copying.                          *)
ListChanges ==
  [][LET s == NumbersSettled
     IN up /\ up' =>
          \/ NumbersSettled' = s
          \/ \E no \in Others : NumbersSettled' = Append(s, no)
          \/ \E i \in 2 .. Len(s) :
               NumbersSettled' = SubSeq(s, 1, i - 1) \o SubSeq(s, i + 1, Len(s))]_usersVars

(* "Read current user from memory and update the settings": the rest of a  *)
(* user's record is changed by his own orders only.                        *)
OwnSettings ==
  Booted => \A p \in 1 .. Count("users") :
              Rec("users", p).by \in {"nobody", Rec("users", p).no}
=============================================================================
