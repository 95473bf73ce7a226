---------------------------- MODULE BoundedQueue ----------------------------
(***************************************************************************)
(* What a FIFO buffer promises its callers: a queue of at most Capacity    *)
(* bytes, filled at one end and emptied at the other.  A single byte comes *)
(* as a signed number, and -1 when there is none.                          *)
(***************************************************************************)
EXTENDS Integers, Sequences

CONSTANTS
  Word,         \* the values of a byte
  Bytes,        \* those that are stored
  Capacity,     \* how many the queue holds
  MaxLen        \* the most that are asked for at a time

VARIABLES
  contents,     \* the bytes in the queue, the oldest first
  call,         \* the last call
  answer        \* what it returned: bytes, or a number as <<n>>

queueVars == <<contents, call, answer>>

Least(m, n) == IF m < n THEN m ELSE n
Blocks == UNION {[1 .. n -> Bytes] : n \in 0 .. MaxLen}
First(n) == SubSeq(contents, 1, Least(n, Len(contents)))
Rest(n) == SubSeq(contents, Least(n, Len(contents)) + 1, Len(contents))

QueueInit == contents = <<>> /\ call = <<>> /\ answer = <<>>

(* As much of the block as there is room for goes in. *)
PutBlock(block) ==
  LET n == Least(Len(block), Capacity - Len(contents))
  IN contents' = contents \o SubSeq(block, 1, n) /\ answer' = <<n>>

TakeBlock(n) == answer' = First(n) /\ contents' = Rest(n)
PeekBlock(n) == answer' = First(n) /\ UNCHANGED contents

Int8(b) == IF b < Word \div 2 THEN b ELSE b - Word
ByteSays == answer' = <<IF contents = <<>> THEN -1 ELSE Int8(contents[1])>>
TakeByte == ByteSays /\ contents' = Rest(1)
PeekByte == ByteSays /\ UNCHANGED contents

Drop(n) == contents' = Rest(n) /\ answer' = <<>>
Free == answer' = <<Capacity - Len(contents)>> /\ UNCHANGED contents

QueueNext ==
  \/ \E block \in Blocks : PutBlock(block) /\ call' = <<"put", block>>
  \/ \E n \in 0 .. MaxLen :
       \/ TakeBlock(n) /\ call' = <<"get", n>>
       \/ PeekBlock(n) /\ call' = <<"peek", n>>
       \/ Drop(n) /\ call' = <<"remove", n>>
  \/ TakeByte /\ call' = <<"get byte">>
  \/ PeekByte /\ call' = <<"peek byte">>
  \/ Drop(Capacity) /\ call' = <<"clear">>
  \/ Free /\ call' = <<"free">>

QueueSpec == QueueInit /\ [][QueueNext]_queueVars
=============================================================================
