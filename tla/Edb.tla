-------------------------------- MODULE Edb ---------------------------------
(***************************************************************************)
(* The tables in the EEPROM (edb.c).  A table is a header, which holds the *)
(* number of its records, and the records.  A handler that changes tables  *)
(* runs to completion, but writes the EEPROM cell by cell, and the power   *)
(* may fail between two writes and during one.  An operation is therefore  *)
(* the sequence of writes it makes; todo holds those still to be made.     *)
(***************************************************************************)
EXTENDS Naturals, Sequences

CONSTANT Limit   \* Limit[t]: the records that fit table t

ASSUME EdbAssumption == \A t \in DOMAIN Limit : Limit[t] \in Nat

VARIABLES
  eeprom,        \* eeprom[<<t, 0>>]: the header of t; [<<t, i>>]: its record i
  todo           \* the writes the running handler still has to make

edbVars == <<eeprom, todo>>

Cells == UNION {{t} \X (0 .. Limit[t]) : t \in DOMAIN Limit}

(* edb_open, edb_count: the header of a table read afresh. *)
Count(t) == eeprom[<<t, 0>>]
Rec(t, i) == eeprom[<<t, i>>]

-----------------------------------------------------------------------------

Put(t, i, value) == [cell |-> <<t, i>>, value |-> value]
WriteHead(t, n) == Put(t, 0, n)

(* edb_create *)
Create(t) == <<WriteHead(t, 0)>>

(* edb_appendrec, edb_updaterec and edb_deleterec on a table of n records: *)
(* nothing when the table is full or the record number is out of range.    *)
AppendRec(t, n, value) ==
  IF n + 1 > Limit[t] THEN <<>>
  ELSE <<Put(t, n + 1, value), WriteHead(t, n + 1)>>

UpdateRec(t, n, i, value) ==
  IF i \in 1 .. n THEN <<Put(t, i, value)>> ELSE <<>>

(* Mutant: the last record is not moved down. *)
DeleteRecShort(t, n, i) ==
  IF i \notin 1 .. n THEN <<>>
  ELSE [k \in 1 .. (IF i < n THEN n - i - 1 ELSE 0) |-> Put(t, i + k - 1, Rec(t, i + k))]
       \o <<WriteHead(t, n - 1)>>

DeleteRec(t, n, i) ==
  IF i \notin 1 .. n THEN <<>>
  ELSE [k \in 1 .. n - i |-> Put(t, i + k - 1, Rec(t, i + k))]
       \o <<WriteHead(t, n - 1)>>

-----------------------------------------------------------------------------

(* edb_write: the next write is made. *)
EdbWrite ==
  /\ todo # <<>>
  /\ eeprom' = [eeprom EXCEPT ![Head(todo).cell] = Head(todo).value]
  /\ todo' = Tail(todo)

(* The power fails: the rest of the handler is not carried out, and of the *)
(* write under way one of remains is left.                                 *)
EdbLost(remains) ==
  /\ todo' = <<>>
  /\ \/ UNCHANGED eeprom
     \/ /\ todo # <<>>
        /\ \E v \in remains : eeprom' = [eeprom EXCEPT ![Head(todo).cell] = v]

(* What cell (t, i) will hold when the handler is through: what the last   *)
(* of the writes to it that are still to be made puts there.               *)
Settled(t, i) ==
  LET writes == {k \in DOMAIN todo : todo[k].cell = <<t, i>>}
      last == CHOOSE k \in writes : \A j \in writes : j <= k
  IN IF writes = {} THEN eeprom[<<t, i>>] ELSE todo[last].value
=============================================================================
