-------------------------------- MODULE Fifo --------------------------------
(***************************************************************************)
(* The ring buffer of fifo_buffer.c.  Its indices are bytes, and its sums  *)
(* keep that width.  One cell of the array is never used, so that an empty *)
(* buffer can be told from a full one.  A call is one action: its callers  *)
(* turned the interrupts off for it.                                       *)
(***************************************************************************)
EXTENDS Integers, Sequences

CONSTANTS
  Word,         \* the values of a byte and of data_type, 256 in the code
  Size,         \* buf_size
  Bytes,        \* the bytes that are stored
  MaxLen        \* bound: the len of a call

ASSUME FifoAssumption ==
  /\ Word \in Nat /\ Size \in 1 .. Word - 1
  /\ Bytes \subseteq 0 .. Word - 1 /\ Bytes # {}
  /\ MaxLen \in 1 .. Word - 1

VARIABLES
  rd, wr,       \* the next byte to read, the next cell to write
  buff,         \* the array
  call,         \* history: the last call
  returned      \* what it returned: bytes, or a number as <<n>>

fifoVars == <<rd, wr, buff, call, returned>>

Least(m, n) == IF m < n THEN m ELSE n
Blocks == UNION {[1 .. n -> Bytes] : n \in 0 .. MaxLen}

(* fifoBuf_init *)
FifoInit ==
  /\ rd = 0 /\ wr = 0
  /\ buff \in {[i \in 0 .. Size - 1 |-> b] : b \in Bytes}
  /\ call = <<>> /\ returned = <<>>

(* fifoBuf_getUsed, fifoBuf_getFree *)
Used == IF wr < rd THEN Size - rd + wr ELSE wr - rd
GetFree == Size - Used - 1

(* The two pieces in which n bytes from position i are copied: up to the   *)
(* end of the array, and from its beginning; and the position after them.  *)
Piece(i, n) == Least(Size - i, n)
After(i, n) ==
  IF Piece(i, n) < n THEN n - Piece(i, n)
  ELSE IF i + n >= Size THEN 0 ELSE i + n

(* The bytes that n from rd on are. *)
Copied(n) ==
  [k \in 1 .. n |-> IF k <= Piece(rd, n) THEN buff[rd + k - 1] ELSE buff[k - 1 - Piece(rd, n)]]

-----------------------------------------------------------------------------

(* Mutant: the second piece goes on where the block begins. *)
PutDataRestart(block) ==
  LET n == Least(GetFree, Len(block))
      j == Piece(wr, n)
  IN /\ buff' = [i \in 0 .. Size - 1 |->
                   IF i >= wr /\ i < wr + j THEN block[i - wr + 1]
                   ELSE IF i < n - j THEN block[i + 1] ELSE buff[i]]
     /\ wr' = After(wr, n)
     /\ returned' = <<n>>
     /\ UNCHANGED rd
(* fifoBuf_putData *)
PutData(block) ==
  LET n == Least(GetFree, Len(block))
      j == Piece(wr, n)
  IN /\ buff' = [i \in 0 .. Size - 1 |->
                   IF i >= wr /\ i < wr + j THEN block[i - wr + 1]
                   ELSE IF i < n - j THEN block[i + j + 1] ELSE buff[i]]
     /\ wr' = After(wr, n)
     /\ returned' = <<n>>
     /\ UNCHANGED rd

(* fifoBuf_putByte *)
PutByte(b) ==
  IF GetFree < 1 THEN returned' = <<0>> /\ UNCHANGED <<rd, wr, buff>>
  ELSE /\ buff' = [buff EXCEPT ![wr] = b]
       /\ wr' = IF wr + 1 >= Size THEN 0 ELSE wr + 1
       /\ returned' = <<1>>
       /\ UNCHANGED rd

(* fifoBuf_getData, fifoBuf_getDataPeek *)
GetData(len) ==
  LET n == Least(Used, len)
  IN /\ returned' = Copied(n)
     /\ rd' = After(rd, n)
     /\ UNCHANGED <<wr, buff>>

GetDataPeek(len) ==
  /\ returned' = Copied(Least(Used, len))
  /\ UNCHANGED <<rd, wr, buff>>

(* A byte returned as an int8_t: the upper half is negative, and the last  *)
(* byte is -1.                                                             *)
Int8(b) == IF b < Word \div 2 THEN b ELSE b - Word

(* fifoBuf_getByte, fifoBuf_getBytePeek: -1 is also the answer of an empty *)
(* buffer.                                                                 *)
GetByte ==
  IF Used < 1 THEN returned' = <<-1>> /\ UNCHANGED <<rd, wr, buff>>
  ELSE /\ returned' = <<Int8(buff[rd])>>
       /\ rd' = IF rd + 1 >= Size THEN 0 ELSE rd + 1
       /\ UNCHANGED <<wr, buff>>

GetBytePeek ==
  /\ returned' = <<IF Used < 1 THEN -1 ELSE Int8(buff[rd])>>
  /\ UNCHANGED <<rd, wr, buff>>

(* fifoBuf_removeData: the sum is a byte before it is compared. *)
RemoveData(len) ==
  LET n == Least(Used, len)
      sum == (rd + n) % Word
  IN /\ rd' = IF n < 1 THEN rd ELSE IF sum >= Size THEN sum - Size ELSE sum
     /\ returned' = <<>>
     /\ UNCHANGED <<wr, buff>>

(* fifoBuf_clearData *)
ClearData ==
  /\ rd' = wr
  /\ returned' = <<>>
  /\ UNCHANGED <<wr, buff>>

FifoGetFree ==
  /\ returned' = <<GetFree>>
  /\ UNCHANGED <<rd, wr, buff>>

FifoNext ==
  \/ \E block \in Blocks : PutData(block) /\ call' = <<"put", block>>
  \/ \E b \in Bytes : PutByte(b) /\ call' = <<"put", <<b>>>>
  \/ \E len \in 0 .. MaxLen :
       \/ GetData(len) /\ call' = <<"get", len>>
       \/ GetDataPeek(len) /\ call' = <<"peek", len>>
       \/ RemoveData(len) /\ call' = <<"remove", len>>
  \/ GetByte /\ call' = <<"get byte">>
  \/ GetBytePeek /\ call' = <<"peek byte">>
  \/ ClearData /\ call' = <<"clear">>
  \/ FifoGetFree /\ call' = <<"free">>

FifoSpec == FifoInit /\ [][FifoNext]_fifoVars

-----------------------------------------------------------------------------

(* The indices stay in the array, and what it holds are bytes.             *)
FifoTypeOK ==
  /\ rd \in 0 .. Size - 1 /\ wr \in 0 .. Size - 1
  /\ buff \in [0 .. Size - 1 -> Bytes]
  /\ returned \in Seq(-Word .. Word - 1)

(* The buffer is a queue of one byte less than its size: whatever the      *)
(* indices are when a block wraps round the end of the array, every byte   *)
(* comes out once, in order, and a full buffer takes no more.  Only the    *)
(* calls for a single byte do not say which byte it is, or that there is   *)
(* none: they answer with a signed number.                                 *)
Queue == INSTANCE BoundedQueue WITH
  Capacity <- Size - 1, contents <- Copied(Used), answer <- returned
QueueKept == Queue!QueueSpec

(* "remove a number of bytes from the buffer": at any size of the buffer,  *)
(* a removal takes the oldest bytes out and leaves the others.             *)
SaysRemoved ==
  [][\A len \in 0 .. MaxLen : call' = <<"remove", len>> =>
       Copied(Used)' = SubSeq(Copied(Used), Least(Used, len) + 1, Used)]_fifoVars

(* "get a data byte from the buffer without removing it": what is returned *)
(* is the oldest byte.                                                     *)
SaysByte ==
  [][call' = <<"peek byte">> /\ Used > 0 => returned' = <<Copied(Used)[1]>>]_fifoVars
=============================================================================
