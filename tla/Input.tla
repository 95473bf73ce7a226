------------------------------- MODULE Input --------------------------------
(***************************************************************************)
(* How the application reads a message of a known user (app.c, util.c):    *)
(* the order it looks for, the index of a menu option and the input of an  *)
(* option.  A text is a sequence of character codes, which a user may type *)
(* in every way.  The arithmetic keeps the width of its variables.         *)
(***************************************************************************)
EXTENDS Integers, Sequences, FiniteSetsExt

CONSTANTS
  Chars,        \* the characters a user types
  MaxLength     \* bound: characters of a text

ASSUME InputAssumption == Chars \subseteq 1 .. 127 /\ MaxLength \in Nat

VARIABLE text

InputInit == text = <<>>
Type(c) == Len(text) < MaxLength /\ text' = Append(text, c)
InputNext == \E c \in Chars : Type(c)
InputSpec == InputInit /\ [][InputNext]_text

Space == 32
Zero == 48
Invalid == -1     \* the answer "Invalid"

-----------------------------------------------------------------------------

(* convert_uppercase *)
Upper(t) == [i \in DOMAIN t |-> IF t[i] > 96 /\ t[i] < 123 THEN t[i] - 32 ELSE t[i]]

(* strstr *)
Contains(t, word) ==
  \E i \in 0 .. Len(t) - Len(word) : SubSeq(t, i + 1, i + Len(word)) = word

(* The text up to the first space, where the options terminate it.         *)
Cut(t) == SubSeq(t, 1, Min({i \in DOMAIN t : t[i] = Space} \cup {Len(t) + 1}) - 1)

(* validate: the orders are looked for anywhere in the text, in this       *)
(* sequence, whether or not the user is in a menu session.                 *)
STATUS == <<83, 84, 65, 84, 85, 83>>
ON == <<79, 78>>
OFF == <<79, 70, 70>>
MENU == <<77, 69, 78, 85>>

Order(t) ==
  LET words == <<STATUS, ON, OFF, MENU>>
      found == {k \in DOMAIN words : Contains(Upper(t), words[k])}
  IN IF found = {} THEN "none"
     ELSE <<"action_status", "action_on", "action_off", "action_menu">>[Min(found)]

-----------------------------------------------------------------------------
(* The numbers. *)

IsNumber(t) == \A i \in DOMAIN t : t[i] \in Zero .. Zero + 9

(* Mutant: multiplied before the digit is added. *)
ExtractLate(t) ==
  LET number[i \in 0 .. Len(t) - 1] ==
        IF i = 0 THEN 0 ELSE (number[i - 1] * 10 + t[i] - Zero) % 65536
  IN IF Len(t) > 5 \/ ~IsNumber(t) THEN Invalid
     ELSE (number[Len(t) - 1] + t[Len(t)] - Zero) % 65536

(* extract_numbers, of a text that is not empty. *)
Extract(t) ==
  LET number[i \in 0 .. Len(t) - 1] ==
        IF i = 0 THEN 0 ELSE ((number[i - 1] + t[i] - Zero) * 10) % 65536
  IN IF Len(t) > 5 \/ ~IsNumber(t) THEN Invalid
     ELSE (number[Len(t) - 1] + t[Len(t)] - Zero) % 65536

(* status_freq *)
Frequency(t) ==
  LET input == Cut(Upper(t))
      number == Extract(input)
  IN IF Len(input) \notin 1 .. 3 \/ number > 255 THEN Invalid ELSE number

(* update_menu_state: any text that is not empty, in a byte. *)
MenuIndex(t) ==
  LET value[i \in 0 .. Len(t) - 1] ==
        IF i = 0 THEN 0 ELSE ((value[i - 1] + t[i] - Zero) * 10) % 256
  IN (value[Len(t) - 1] + t[Len(t)] - Zero) % 256

Option(t) ==
  LET index == MenuIndex(Upper(t))
      names == <<"change_pass", "add_no", "del_no", "en_dis_pwd", "enable_broadcast",
                 "status_freq", "set_time">>
  IN IF index \in DOMAIN names THEN names[index] ELSE "generic_menu_handler"

-----------------------------------------------------------------------------
(* The other inputs. *)

(* change_pass: the password that is stored. *)
Password(t) == LET input == Cut(Upper(t)) IN IF Len(input) \in 1 .. 4 THEN input ELSE <<>>

(* en_dis_pwd and enable_broadcast *)
Switch(t) ==
  LET input == Cut(Upper(t))
  IN IF Len(input) \notin 1 .. 2 THEN "Invalid"
     ELSE IF Contains(input, <<69, 78>>) THEN "EN"
     ELSE IF Contains(input, <<68, 73>>) THEN "DI" ELSE "Invalid"

-----------------------------------------------------------------------------

(* t is a decimal numeral of n, maybe with leading zeros. *)
Numeral(t, n) ==
  /\ t # <<>> /\ n < 10 ^ Len(t)
  /\ \A i \in DOMAIN t : t[i] - Zero = (n \div 10 ^ (Len(t) - i)) % 10

(* A frequency that is set is the number that was typed, in at most three  *)
(* digits, and every number below 255 that is typed so gets set.           *)
FrequencyRead ==
  LET typed == {n \in 0 .. 999 : Len(Cut(text)) <= 3 /\ Numeral(Cut(text), n)}
  IN /\ Frequency(text) # Invalid => Frequency(text) \in typed
     /\ \A n \in typed : n < 255 => Frequency(text) = n

(* "<Frequency of messages> should be less than 255": a number that is not *)
(* is answered with an error.                                              *)
SaysFrequency ==
  \A n \in 255 .. 999 : Numeral(Cut(text), n) => Frequency(text) = Invalid

(* "Terminate higher values at 255": a number above is taken for 255.      *)
SaysTerminated ==
  \A n \in 256 .. 999 : Numeral(Cut(text), n) /\ Len(Cut(text)) <= 3 => Frequency(text) = 255

(* "Invalid Option Discontinue MENU Operations Alert the USER": what is    *)
(* not the number of an option ends in generic_menu_handler.               *)
SaysInvalidOption ==
  text # <<>> /\ (\A n \in 1 .. 7 : ~Numeral(text, n)) => Option(text) = "generic_menu_handler"

(* "<NEW PASSWORD> Should be less than 6 characters": a password that is   *)
(* gets set ...                                                            *)
SaysPassword ==
  Len(text) \in 1 .. 5 /\ Cut(text) = text /\ Order(text) = "none" => Password(text) # <<>>

(* ... and is not taken for an order (MENU goes on with the session).      *)
SaysInput ==
  Len(text) \in 1 .. 5 /\ Cut(text) = text => Order(text) \in {"none", "action_menu"}
=============================================================================
