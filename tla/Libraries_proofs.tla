--------------------------- MODULE Libraries_proofs --------------------------
(***************************************************************************)
(* The two parts without a process of their own.  The ring buffer, proved  *)
(* for every size: its indices stay in the array, and it is a queue of one *)
(* byte less than its size.  The reading of texts, proved for texts of any *)
(* length: a frequency that is set is the one that was typed.              *)
(***************************************************************************)
EXTENDS Fifo, Input, SequenceTheorems, WellFoundedInduction, TLAPS

(* The k-th cell from the r-th on, round the end of the array, and what n  *)
(* cells from there hold.                                                  *)
Cell(r, k) == IF r + k - 1 < Size THEN r + k - 1 ELSE r + k - 1 - Size
Ring(r, b, n) == [k \in 1 .. n |-> b[Cell(r, k)]]
(* The index n cells on; the cells between two indices.                    *)
Onward(r, n) == IF r + n < Size THEN r + n ELSE r + n - Size
Between(r, w) == IF w < r THEN Size - r + w ELSE w - r

Indices == 0 .. Size - 1
Arrays == [Indices -> Bytes]
(* What a call returns: bytes, or a number, which may be negative.         *)
Answers == -Word .. Word - 1

-----------------------------------------------------------------------------
(* Rings. *)

LEMMA SizeFits == Word \in Nat /\ Size \in Nat \ {0} /\ Size < Word
BY FifoAssumption

(* The n cells from the r-th on are cells of the array.                    *)
LEMMA RingIsSequence ==
  ASSUME NEW r \in Indices, NEW b \in Arrays, NEW n \in 0 .. Size
  PROVE  /\ Ring(r, b, n) \in Seq(Bytes) /\ Len(Ring(r, b, n)) = n
         /\ \A k \in 1 .. n : Cell(r, k) \in Indices /\ Ring(r, b, n)[k] = b[Cell(r, k)]
<1>1. \A k \in 1 .. n : Cell(r, k) \in Indices
  BY SizeFits DEF Indices, Cell
<1>2. \A k \in 1 .. n : b[Cell(r, k)] \in Bytes
  BY <1>1 DEF Arrays
<1>3. Ring(r, b, n) \in [1 .. n -> Bytes]
  BY <1>2 DEF Ring
<1>4. n \in Nat
  BY SizeFits
<1>5. Ring(r, b, n) \in Seq(Bytes) /\ Len(Ring(r, b, n)) = n
  BY <1>3, <1>4, IsASeq, LenProperties
<1> QED
  BY <1>1, <1>5 DEF Ring

LEMMA BetweenInRange ==
  ASSUME NEW r \in Indices, NEW w \in Indices
  PROVE  Between(r, w) \in Indices /\ w = Onward(r, Between(r, w))
BY SizeFits DEF Indices, Between, Onward

(* Going on by no more than there is leaves the rest; by no more than      *)
(* there is room for, adds to it.                                          *)
LEMMA BetweenOnward ==
  ASSUME NEW r \in Indices, NEW w \in Indices
  PROVE  /\ \A n \in 0 .. Between(r, w) :
              Onward(r, n) \in Indices /\ Between(Onward(r, n), w) = Between(r, w) - n
         /\ \A n \in 0 .. Size - 1 - Between(r, w) :
              Onward(w, n) \in Indices /\ Between(r, Onward(w, n)) = Between(r, w) + n
BY SizeFits DEF Indices, Between, Onward

(* The first cells, and those that follow them.                            *)
LEMMA RingFirst ==
  ASSUME NEW r \in Indices, NEW b \in Arrays, NEW n \in 0 .. Size - 1, NEW m \in 0 .. n
  PROVE  SubSeq(Ring(r, b, n), 1, m) = Ring(r, b, m)
<1>1. n \in Nat /\ m \in Nat /\ m <= n /\ n \in 0 .. Size /\ m \in 0 .. Size
  BY SizeFits
<1>2. /\ Ring(r, b, n) \in Seq(Bytes) /\ Len(Ring(r, b, n)) = n
      /\ \A k \in 1 .. n : Ring(r, b, n)[k] = b[Cell(r, k)]
  BY <1>1, RingIsSequence
<1>3. /\ Ring(r, b, m) \in Seq(Bytes) /\ Len(Ring(r, b, m)) = m
      /\ \A k \in 1 .. m : Ring(r, b, m)[k] = b[Cell(r, k)]
  BY <1>1, RingIsSequence
<1>4. SubSeq(Ring(r, b, n), 1, m) = [k \in 1 .. m |-> Ring(r, b, n)[1 + k - 1]]
  BY <1>1, SMT
<1>5. \A k \in 1 .. m : Ring(r, b, n)[1 + k - 1] = b[Cell(r, k)]
  BY <1>1, <1>2
<1> QED
  BY <1>4, <1>5 DEF Ring

LEMMA RingRest ==
  ASSUME NEW r \in Indices, NEW b \in Arrays, NEW n \in 0 .. Size - 1, NEW m \in 0 .. n
  PROVE  SubSeq(Ring(r, b, n), m + 1, n) = Ring(Onward(r, m), b, n - m)
<1>1. n \in Nat /\ m \in Nat /\ m <= n /\ n \in 0 .. Size /\ n - m \in Nat
  BY SizeFits
<1>2. \A k \in 1 .. n : Ring(r, b, n)[k] = b[Cell(r, k)]
  BY <1>1, RingIsSequence
<1>4. SubSeq(Ring(r, b, n), m + 1, n) = [k \in 1 .. n - m |-> Ring(r, b, n)[m + 1 + k - 1]]
  BY <1>1, SMT
<1>5. \A k \in 1 .. n - m : m + k \in 1 .. n /\ m + 1 + k - 1 = m + k
                              /\ Cell(r, m + k) = Cell(Onward(r, m), k)
  BY <1>1, SizeFits DEF Cell, Onward, Indices
<1>6. \A k \in 1 .. n - m : Ring(r, b, n)[m + 1 + k - 1] = b[Cell(Onward(r, m), k)]
  BY <1>2, <1>5
<1> QED
  BY <1>4, <1>6 DEF Ring

(* Writing behind the last of the cells adds what is written to them.      *)
LEMMA RingPut ==
  ASSUME NEW r \in Indices, NEW w \in Indices, NEW b \in Arrays, NEW c \in Arrays,
         NEW block \in Seq(Bytes), NEW n \in 0 .. Len(block),
         n <= Size - 1 - Between(r, w),
         \A k \in 1 .. n : c[Cell(w, k)] = block[k],
         \A i \in Indices : (\A k \in 1 .. n : i # Cell(w, k)) => c[i] = b[i]
  PROVE  Ring(r, c, Between(r, w) + n) = Ring(r, b, Between(r, w)) \o SubSeq(block, 1, n)
<1> DEFINE u == Between(r, w)
<1>1. /\ u \in Nat /\ n \in Nat /\ Len(block) \in Nat /\ n <= Len(block)
      /\ u \in 0 .. Size /\ u + n \in 0 .. Size /\ Size \in Nat /\ u + n < Size
  <2>1. u \in Indices
    BY BetweenInRange
  <2>2. Len(block) \in Nat
    BY LenProperties
  <2> HIDE DEF u
  <2>3. n <= Size - 1 - u
    BY DEF u
  <2> QED
    BY <2>1, <2>2, <2>3, SizeFits DEF Indices
<1>2. /\ Ring(r, b, u) \in Seq(Bytes) /\ Len(Ring(r, b, u)) = u
      /\ \A k \in 1 .. u : Cell(r, k) \in Indices /\ Ring(r, b, u)[k] = b[Cell(r, k)]
  BY <1>1, RingIsSequence
<1>3. /\ Ring(r, c, u + n) \in Seq(Bytes) /\ Len(Ring(r, c, u + n)) = u + n
      /\ \A k \in 1 .. u + n : Ring(r, c, u + n)[k] = c[Cell(r, k)]
  BY <1>1, RingIsSequence
<1>4. /\ SubSeq(block, 1, n) \in Seq(Bytes) /\ Len(SubSeq(block, 1, n)) = n
      /\ \A k \in 1 .. n : SubSeq(block, 1, n)[k] = block[k]
  <2>1. \A k \in 1 .. n : block[k] \in Bytes
    BY <1>1, ElementOfSeq
  <2> HIDE DEF u
  <2> QED
    BY <1>1, <2>1, SubSeqProperties
<1>5. \A k \in 1 .. u : \A j \in 1 .. n : Cell(r, k) # Cell(w, j)
  BY <1>1 DEF Cell, Indices, Between
<1>6. \A k \in 1 .. u : c[Cell(r, k)] = b[Cell(r, k)]
  BY <1>2, <1>5
<1>7. \A k \in u + 1 .. u + n : k - u \in 1 .. n /\ Cell(r, k) = Cell(w, k - u)
  <2>1. w = Onward(r, u)
    BY BetweenInRange
  <2> HIDE DEF u
  <2>2. \A k \in u + 1 .. u + n : k \in Int /\ k - u \in 1 .. n
    BY <1>1
  <2> SUFFICES ASSUME NEW k \in u + 1 .. u + n
               PROVE  Cell(r, k) = Cell(w, k - u)
    BY <2>2
  <2>3. /\ r \in Nat /\ r < Size /\ k \in Nat /\ u < k /\ k <= u + n /\ k < Size + 1
        /\ w = IF r + u < Size THEN r + u ELSE r + u - Size
    BY <1>1, <2>1, <2>2 DEF Indices, Onward
  <2>4. r + k - 1 < Size => r + u < Size /\ w + (k - u) - 1 = r + k - 1
    BY <1>1, <2>3
  <2>5. ~(r + k - 1 < Size) => IF w + (k - u) - 1 < Size THEN w + (k - u) - 1 = r + k - 1 - Size
                               ELSE w + (k - u) - 1 = r + k - 1
    BY <1>1, <2>3
  <2> QED
    BY <1>1, <2>3, <2>4, <2>5 DEF Cell
<1>8. \A k \in u + 1 .. u + n : c[Cell(r, k)] = block[k - u]
  BY <1>7
<1> HIDE DEF u
<1>9. /\ Ring(r, b, u) \o SubSeq(block, 1, n) \in Seq(Bytes)
      /\ Len(Ring(r, b, u) \o SubSeq(block, 1, n)) = u + n
      /\ \A k \in 1 .. u + n : (Ring(r, b, u) \o SubSeq(block, 1, n))[k]
           = IF k <= u THEN Ring(r, b, u)[k] ELSE SubSeq(block, 1, n)[k - u]
  <2> DEFINE s == Ring(r, b, u)
             t == SubSeq(block, 1, n)
  <2>1. s \in Seq(Bytes) /\ t \in Seq(Bytes) /\ Len(s) = u /\ Len(t) = n
    BY <1>2, <1>4
  <2> HIDE DEF s, t
  <2>2. /\ s \o t \in Seq(Bytes) /\ Len(s \o t) = u + n
        /\ \A k \in 1 .. u + n : (s \o t)[k] = IF k <= u THEN s[k] ELSE t[k - u]
    BY <2>1, ConcatProperties, Zenon
  <2> QED
    BY <2>2 DEF s, t
<1>10. \A k \in 1 .. u + n : Ring(r, c, u + n)[k] = (Ring(r, b, u) \o SubSeq(block, 1, n))[k]
  <2> SUFFICES ASSUME NEW k \in 1 .. u + n
               PROVE  c[Cell(r, k)] = (Ring(r, b, u) \o SubSeq(block, 1, n))[k]
    BY <1>3
  <2>1. CASE k <= u
    <3>1. k \in 1 .. u
      BY <2>1, <1>1
    <3> QED
      BY <2>1, <3>1, <1>2, <1>6, <1>9
  <2>2. CASE ~(k <= u)
    <3>1. k \in u + 1 .. u + n /\ k - u \in 1 .. n /\ ~(k <= u)
      BY <2>2, <1>1
    <3> QED
      BY <3>1, <1>4, <1>8, <1>9
  <2> QED
    BY <2>1, <2>2
<1>11. Len(Ring(r, c, u + n)) = u + n
  BY <1>3
<1> QED
  BY <1>3, <1>9, <1>10, <1>11, SeqEqual DEF u

-----------------------------------------------------------------------------
(* The operators of the buffer. *)

IndexType == rd \in Indices /\ wr \in Indices /\ buff \in Arrays

(* The two pieces together are the cells from the read index on.           *)
LEMMA PiecesAreRing ==
  ASSUME NEW r \in Indices, NEW b \in Arrays, NEW n \in 0 .. Size - 1
  PROVE  [k \in 1 .. n |-> IF k <= Piece(r, n) THEN b[r + k - 1] ELSE b[k - 1 - Piece(r, n)]]
         = Ring(r, b, n)
<1>1. \A k \in 1 .. n : (IF k <= Piece(r, n) THEN b[r + k - 1] ELSE b[k - 1 - Piece(r, n)])
                        = b[Cell(r, k)]
  BY SizeFits DEF Indices, Cell, Piece, Least
<1> QED
  BY <1>1 DEF Ring

(* What the buffer holds, now and after a call.                            *)
LEMMA Holds ==
  ASSUME IndexType
  PROVE  /\ Used = Between(rd, wr) /\ Used \in Indices
         /\ \A n \in Indices : Copied(n) = Ring(rd, buff, n)
         /\ Copied(Used) = Ring(rd, buff, Used)
         /\ Copied(Used) \in Seq(Bytes) /\ Len(Copied(Used)) = Used
<1>1. Used = Between(rd, wr) /\ Used \in Indices
  BY BetweenInRange DEF Used, Between, IndexType
<1>2. \A n \in Indices : Copied(n) = Ring(rd, buff, n)
  BY PiecesAreRing DEF Copied, IndexType, Indices
<1>3. Used \in 0 .. Size
  BY <1>1, SizeFits DEF Indices
<1> QED
  BY <1>1, <1>2, <1>3, RingIsSequence DEF IndexType

LEMMA WillHold ==
  ASSUME IndexType'
  PROVE  Used' = Between(rd', wr') /\ Copied(Used)' = Ring(rd', buff', Between(rd', wr'))
<1>1. Used' = Between(rd', wr') /\ Used' \in Indices
  BY BetweenInRange DEF Used, Between, IndexType
<1>2. \A n \in Indices : Ring(rd', buff', n) =
        [k \in 1 .. n |-> IF k <= Piece(rd', n) THEN buff'[rd' + k - 1]
                          ELSE buff'[k - 1 - Piece(rd', n)]]
  BY PiecesAreRing DEF IndexType, Indices
<1> QED
  BY <1>1, <1>2 DEF Copied, Piece, Least

LEMMA AfterIsOnward ==
  ASSUME NEW r \in Indices, NEW n \in 0 .. Size - 1
  PROVE  After(r, n) = Onward(r, n)
BY SizeFits DEF Indices, After, Onward, Piece, Least

LEMMA LeastOfTwo ==
  ASSUME NEW m \in Nat, NEW n \in Nat
  PROVE  /\ Least(m, n) \in 0 .. m /\ Least(m, n) \in 0 .. n /\ Least(m, n) = Least(n, m)
         /\ Least(m, n) \in Nat
BY DEF Least

(* A byte's sum is the sum, or less.                                       *)
LEMMA ByteSum ==
  ASSUME NEW x \in Nat
  PROVE  x % Word \in 0 .. Word - 1 /\ x % Word <= x /\ (x < Word => x % Word = x)
BY SizeFits

(* What a removal leaves the read index at.                                *)
LEMMA SumOnward ==
  ASSUME NEW r \in Indices, NEW n \in 0 .. Size - 1
  PROVE  LET sum == (r + n) % Word
         IN /\ (IF sum >= Size THEN sum - Size ELSE sum) \in Indices
            /\ 2 * Size - 1 <= Word => 
                 (IF sum >= Size THEN sum - Size ELSE sum) = Onward(r, n)
<1>1. r + n \in Nat /\ r + n <= 2 * Size - 2 /\ Size \in Nat /\ Word \in Nat
  BY SizeFits DEF Indices
<1> DEFINE sum == (r + n) % Word
<1>2. sum \in 0 .. Word - 1 /\ sum <= r + n /\ (r + n < Word => sum = r + n)
  BY <1>1, ByteSum
<1> HIDE DEF sum
<1>3. /\ (IF sum >= Size THEN sum - Size ELSE sum) \in Indices
      /\ 2 * Size - 1 <= Word => (IF sum >= Size THEN sum - Size ELSE sum) = Onward(r, n)
  BY <1>1, <1>2, SizeFits DEF Indices, Onward
<1> QED
  BY <1>3 DEF sum

-----------------------------------------------------------------------------
(* What each call does to what the buffer holds. *)

LEMMA BlocksAreSequences ==
  ASSUME NEW block \in Blocks
  PROVE  block \in Seq(Bytes) /\ Len(block) \in Nat
<1>1. PICK n \in 0 .. MaxLen : block \in [1 .. n -> Bytes]
  BY DEF Blocks
<1>2. n \in Nat
  OBVIOUS
<1>3. block = [i \in 1 .. n |-> block[i]] /\ \A i \in 1 .. n : block[i] \in Bytes
  BY <1>1
<1>4. [i \in 1 .. n |-> block[i]] \in Seq(Bytes)
  BY <1>2, <1>3, IsASeq
<1> QED
  BY <1>3, <1>4, LenProperties

LEMMA PutDataAdds ==
  ASSUME IndexType, NEW block \in Seq(Bytes), PutData(block)
  PROVE  LET n == Least(Len(block), Size - 1 - Used)
         IN /\ IndexType' /\ returned' = <<n>> /\ n \in Indices
            /\ Copied(Used)' = Copied(Used) \o SubSeq(block, 1, n)
<1> DEFINE u == Between(rd, wr)
           n == Least(GetFree, Len(block))
<1>1. u = Used /\ u \in Indices /\ rd \in Indices /\ wr \in Indices /\ buff \in Arrays
  BY Holds DEF IndexType
<1>2. Len(block) \in Nat /\ \A k \in 1 .. Len(block) : block[k] \in Bytes
  BY LenProperties, ElementOfSeq
<1>3. GetFree \in Nat /\ GetFree = Size - 1 - u
  BY <1>1, SizeFits DEF GetFree, Indices
<1>4. /\ n \in Nat /\ n \in 0 .. Len(block) /\ n <= Size - 1 - u
      /\ n = Least(Len(block), Size - 1 - Used)
  BY <1>1, <1>2, <1>3, LeastOfTwo
<1>5. n \in Indices /\ n \in 0 .. Size - 1 - u
  BY <1>1, <1>4, SizeFits DEF Indices
<1>6. /\ rd' = rd /\ wr' = Onward(wr, n) /\ returned' = <<n>>
      /\ wr' \in Indices /\ Between(rd', wr') = u + n
  BY <1>1, <1>5, AfterIsOnward, BetweenOnward DEF PutData, Indices
<1> DEFINE j == Piece(wr, n)
<1>7. buff' = [i \in Indices |->
                 IF i >= wr /\ i < wr + j THEN block[i - wr + 1]
                 ELSE IF i < n - j THEN block[i + j + 1] ELSE buff[i]]
  BY DEF PutData, Indices
<1> HIDE DEF n, u
<1>8. j = IF Size - wr < n THEN Size - wr ELSE n
  BY DEF Piece, Least
<1>9. ASSUME NEW i \in Indices
      PROVE  /\ buff'[i] \in Bytes
             /\ (\A k \in 1 .. n : i # Cell(wr, k)) => buff'[i] = buff[i]
  <2>1. i \in Int /\ wr \in Int /\ Size \in Int /\ n \in Int /\ i >= 0 /\ i < Size /\ wr >= 0
        /\ wr < Size /\ j \in Int
    BY <1>1, <1>4, <1>8, SizeFits DEF Indices
  <2>2. CASE i >= wr /\ i < wr + j
    <3>1. i - wr + 1 \in 1 .. n /\ i = Cell(wr, i - wr + 1) /\ i - wr + 1 \in 1 .. Len(block)
      BY <2>1, <2>2, <1>2, <1>4, <1>8 DEF Cell
    <3>2. buff'[i] = block[i - wr + 1]
      BY <2>2, <1>7
    <3> QED
      BY <3>1, <3>2, <1>2
  <2>3. CASE ~(i >= wr /\ i < wr + j) /\ i < n - j
    <3>0. j = Size - wr
      BY <2>1, <2>3, <1>8
    <3>1. i + j + 1 \in 1 .. n /\ i = Cell(wr, i + j + 1) /\ i + j + 1 \in 1 .. Len(block)
      <4> HIDE DEF j
      <4>1. wr + (i + j + 1) - 1 = i + Size
        BY <2>1, <3>0
      <4> QED
        BY <2>1, <2>3, <3>0, <4>1, <1>2, <1>4 DEF Cell
    <3>2. buff'[i] = block[i + j + 1]
      BY <2>3, <1>7
    <3> QED
      BY <3>1, <3>2, <1>2
  <2>4. CASE ~(i >= wr /\ i < wr + j) /\ ~(i < n - j)
    <3>1. buff'[i] = buff[i]
      BY <2>4, <1>7
    <3> QED
      BY <3>1, <1>1 DEF Arrays
  <2> QED
    BY <2>2, <2>3, <2>4
<1>10. buff' \in Arrays
  BY <1>7, <1>9 DEF Arrays
<1>11. ASSUME NEW k \in 1 .. n
       PROVE  buff'[Cell(wr, k)] = block[k]
  <2>1. wr \in Int /\ Size \in Int /\ n \in Int /\ wr >= 0 /\ wr < Size /\ j \in Int
        /\ k >= 1 /\ k <= n /\ n < Size
    BY <1>1, <1>4, <1>5, <1>8, SizeFits DEF Indices
  <2>2. CASE wr + k - 1 < Size
    <3>1. /\ Cell(wr, k) = wr + k - 1 /\ Cell(wr, k) \in Indices /\ Cell(wr, k) - wr + 1 = k
          /\ Cell(wr, k) >= wr /\ Cell(wr, k) < wr + j
      BY <2>1, <2>2, <1>8 DEF Cell, Indices
    <3> QED
      BY <3>1, <1>7
  <2>3. CASE ~(wr + k - 1 < Size)
    <3>1. /\ Cell(wr, k) = wr + k - 1 - Size /\ Cell(wr, k) \in Indices
          /\ Cell(wr, k) + j + 1 = k /\ ~(Cell(wr, k) >= wr) /\ Cell(wr, k) < n - j
      BY <2>1, <2>3, <1>8 DEF Cell, Indices
    <3> QED
      BY <3>1, <1>7
  <2> QED
    BY <2>2, <2>3
<1>12. Ring(rd, buff', u + n) = Ring(rd, buff, u) \o SubSeq(block, 1, n)
  <2>1. /\ \A k \in 1 .. n : buff'[Cell(wr, k)] = block[k]
        /\ \A i \in Indices : (\A k \in 1 .. n : i # Cell(wr, k)) => buff'[i] = buff[i]
    BY <1>9, <1>11
  <2> QED
    <3>1. /\ rd \in Indices /\ wr \in Indices /\ buff \in Arrays /\ buff' \in Arrays
          /\ n \in 0 .. Len(block) /\ n <= Size - 1 - Between(rd, wr)
      BY <1>1, <1>4, <1>10 DEF u
    <3>2. Ring(rd, buff', Between(rd, wr) + n)
          = Ring(rd, buff, Between(rd, wr)) \o SubSeq(block, 1, n)
      BY <2>1, <3>1, RingPut, Zenon
    <3> QED
      BY <3>2 DEF u
<1>13. IndexType'
  BY <1>1, <1>6, <1>10 DEF IndexType
<1>14. Copied(Used)' = Copied(Used) \o SubSeq(block, 1, n)
  BY <1>1, <1>6, <1>12, <1>13, Holds, WillHold
<1> QED
  BY <1>4, <1>5, <1>6, <1>13, <1>14

LEMMA PutByteAdds ==
  ASSUME IndexType, NEW b \in Bytes, PutByte(b)
  PROVE  LET n == Least(1, Size - 1 - Used)
         IN /\ IndexType' /\ returned' = <<n>> /\ n \in Indices
            /\ Copied(Used)' = Copied(Used) \o SubSeq(<<b>>, 1, n)
<1>1. /\ Used = Between(rd, wr) /\ Used \in Indices /\ rd \in Indices /\ wr \in Indices
      /\ buff \in Arrays /\ Size \in Nat
  BY Holds, SizeFits DEF IndexType
<1>2. Copied(Used) = Ring(rd, buff, Used) /\ Copied(Used) \in Seq(Bytes)
  BY Holds
<1>3. <<b>> \in Seq(Bytes) /\ Len(<<b>>) = 1 /\ <<b>>[1] = b
  OBVIOUS
<1>4. CASE GetFree < 1
  <2>1. Least(1, Size - 1 - Used) = 0 /\ 0 \in Indices
    BY <1>1, <1>4, SizeFits DEF GetFree, Least, Indices
  <2>2. SubSeq(<<b>>, 1, 0) = <<>>
    BY SubSeqEmpty
  <2>3. UNCHANGED <<rd, wr, buff>> /\ returned' = <<0>>
    BY <1>4 DEF PutByte
  <2>4. IndexType'
    BY <1>1, <2>3 DEF IndexType
  <2>5. Copied(Used)' = Copied(Used)
    BY <1>1, <1>2, <2>3, <2>4, WillHold
  <2> QED
    BY <1>2, <2>1, <2>2, <2>3, <2>4, <2>5, ConcatEmptySeq
<1>5. CASE ~(GetFree < 1)
  <2>1. /\ Least(1, Size - 1 - Used) = 1 /\ 1 \in Indices /\ 1 <= Size - 1 - Used
        /\ 1 \in 0 .. Size - 1 - Used
    BY <1>1, <1>5, SizeFits DEF GetFree, Least, Indices
  <2>2. /\ buff' = [buff EXCEPT ![wr] = b] /\ returned' = <<1>> /\ rd' = rd
        /\ wr' = Onward(wr, 1)
    BY <1>1, <1>5 DEF PutByte, Onward, Indices
  <2>3. wr' \in Indices /\ Between(rd', wr') = Used + 1
    BY <1>1, <2>1, <2>2, BetweenOnward
  <2>4. Cell(wr, 1) = wr
    BY <1>1, SizeFits DEF Cell, Indices
  <2>5. buff' \in Arrays /\ buff'[wr] = b /\ \A i \in Indices : i # wr => buff'[i] = buff[i]
    BY <1>1, <2>2 DEF Arrays
  <2>6. IndexType'
    BY <1>1, <2>2, <2>3, <2>5 DEF IndexType
  <2>7. /\ \A k \in 1 .. 1 : buff'[Cell(wr, k)] = <<b>>[k]
        /\ \A i \in Indices : (\A k \in 1 .. 1 : i # Cell(wr, k)) => buff'[i] = buff[i]
    <3>1. \A k \in 1 .. 1 : k = 1
      OBVIOUS
    <3>2. 1 \in 1 .. 1
      OBVIOUS
    <3> QED
      BY <3>1, <3>2, <2>4, <2>5
  <2>8. 1 \in 0 .. Len(<<b>>) /\ 1 <= Size - 1 - Between(rd, wr)
    BY <1>1, <2>1
  <2>9. Ring(rd, buff', Between(rd, wr) + 1)
        = Ring(rd, buff, Between(rd, wr)) \o SubSeq(<<b>>, 1, 1)
    <3> DEFINE block == <<b>>
               n == 1
    <3>1. /\ rd \in Indices /\ wr \in Indices /\ buff \in Arrays /\ buff' \in Arrays
          /\ block \in Seq(Bytes) /\ n \in 0 .. Len(block) /\ n <= Size - 1 - Between(rd, wr)
          /\ \A k \in 1 .. n : buff'[Cell(wr, k)] = block[k]
          /\ \A i \in Indices : (\A k \in 1 .. n : i # Cell(wr, k)) => buff'[i] = buff[i]
      BY <1>1, <1>3, <2>5, <2>7, <2>8
    <3> HIDE DEF block, n
    <3>2. Ring(rd, buff', Between(rd, wr) + n)
          = Ring(rd, buff, Between(rd, wr)) \o SubSeq(block, 1, n)
      BY <3>1, RingPut, Zenon
    <3> QED
      BY <3>2 DEF block, n
  <2>10. Copied(Used)' = Copied(Used) \o SubSeq(<<b>>, 1, 1)
    BY <1>1, <1>2, <2>2, <2>3, <2>6, <2>9, WillHold
  <2> QED
    BY <2>1, <2>2, <2>6, <2>10
<1> QED
  BY <1>4, <1>5

(* Going on over n bytes takes them out.                                   *)
LEMMA ReadingTakes ==
  ASSUME IndexType, NEW n \in 0 .. Used, rd' = Onward(rd, n), UNCHANGED <<wr, buff>>
  PROVE  IndexType' /\ Copied(Used)' = SubSeq(Copied(Used), n + 1, Used)
<1>1. /\ Used = Between(rd, wr) /\ Used \in Indices /\ rd \in Indices /\ wr \in Indices
      /\ buff \in Arrays /\ Copied(Used) = Ring(rd, buff, Used)
  BY Holds DEF IndexType
<1>2. rd' \in Indices /\ Between(rd', wr') = Used - n
  BY <1>1, BetweenOnward
<1>3. IndexType'
  BY <1>1, <1>2 DEF IndexType
<1>4. Copied(Used)' = Ring(Onward(rd, n), buff, Used - n)
  BY <1>2, <1>3, WillHold
<1>5. SubSeq(Ring(rd, buff, Used), n + 1, Used) = Ring(Onward(rd, n), buff, Used - n)
  <2>1. Used \in 0 .. Size - 1
    BY <1>1 DEF Indices
  <2> QED
    BY <1>1, <2>1, RingRest
<1> QED
  BY <1>1, <1>3, <1>4, <1>5

(* The bytes that are read are the first.                                  *)
LEMMA CopiedAreFirst ==
  ASSUME IndexType, NEW n \in 0 .. Used
  PROVE  Copied(n) = SubSeq(Copied(Used), 1, n) /\ Copied(n) \in Seq(Bytes)
<1>1. /\ Used \in Indices /\ rd \in Indices /\ buff \in Arrays
      /\ Copied(Used) = Ring(rd, buff, Used) /\ n \in Indices /\ n \in 0 .. Size
  BY Holds, SizeFits DEF IndexType, Indices
<1>2. Copied(n) = Ring(rd, buff, n)
  BY <1>1, Holds
<1>3. SubSeq(Ring(rd, buff, Used), 1, n) = Ring(rd, buff, n)
  <2>1. Used \in 0 .. Size - 1
    BY <1>1 DEF Indices
  <2> QED
    BY <1>1, <2>1, RingFirst
<1> QED
  BY <1>1, <1>2, <1>3, RingIsSequence

-----------------------------------------------------------------------------
(* The theorems. *)

LEMMA FifoStarts == FifoInit => FifoTypeOK /\ Queue!QueueInit
<1> SUFFICES ASSUME FifoInit PROVE FifoTypeOK /\ Queue!QueueInit
  OBVIOUS
<1>1. IndexType
  BY SizeFits DEF FifoInit, IndexType, Indices, Arrays
<1>2. <<>> \in Seq(Answers)
  BY EmptySeq
<1>3. Copied(Used) \in Seq(Bytes) /\ Len(Copied(Used)) = 0
  BY <1>1, SizeFits, Holds DEF FifoInit, Used
<1>4. Copied(Used) = <<>>
  BY <1>3, EmptySeq, SeqEqual
<1> QED
  BY <1>1, <1>2, <1>4
  DEF FifoInit, FifoTypeOK, IndexType, Indices, Arrays, Answers, Queue!QueueInit

(* Indices, bytes and bytes that got a sign are answers.                   *)
LEMMA Values ==
  /\ \A n \in Indices : <<n>> \in Seq(Answers)
  /\ \A s \in Seq(Bytes) : s \in Seq(Answers)
  /\ <<-1>> \in Seq(Answers)
  /\ \A b \in Bytes : <<Int8(b)>> \in Seq(Answers)
<1>1. Indices \subseteq Answers
  BY SizeFits DEF Indices, Answers
<1>2. Bytes \subseteq Answers
  BY SizeFits, FifoAssumption DEF Answers
<1>3. \A n \in Answers : <<n>> \in Seq(Answers)
  OBVIOUS
<1>4. -1 \in Answers
  BY SizeFits DEF Answers
<1>5. \A b \in Bytes : Int8(b) \in Answers
  BY SizeFits, FifoAssumption DEF Answers, Int8
<1> QED
  BY <1>1, <1>2, <1>3, <1>4, <1>5, SeqMonotonic

(* A removal of any number of bytes: where it leaves the indices, and, in  *)
(* a buffer small enough for the sum of two of them, what it takes out.    *)
LEMMA RemoveDataTakes ==
  ASSUME IndexType, NEW len \in Nat, RemoveData(len)
  PROVE  /\ IndexType' /\ returned' = <<>>
         /\ 2 * Size - 1 <= Word =>
              Copied(Used)' = SubSeq(Copied(Used), Least(Used, len) + 1, Used)
<1> DEFINE n == Least(Used, len)
<1>1. /\ Used \in Indices /\ rd \in Indices /\ wr \in Indices /\ buff \in Arrays
      /\ UNCHANGED <<wr, buff>> /\ returned' = <<>>
  BY Holds DEF IndexType, RemoveData
<1>2. Used \in Nat
  BY <1>1, SizeFits DEF Indices
<1>3. n \in 0 .. Used /\ n \in Nat
  BY <1>2, LeastOfTwo
<1>4. n \in 0 .. Size - 1
  BY <1>1, <1>3, SizeFits DEF Indices
<1> DEFINE sum == (rd + n) % Word
           moved == IF sum >= Size THEN sum - Size ELSE sum
<1>5. rd' = IF n < 1 THEN rd ELSE moved
  BY DEF RemoveData
<1> HIDE DEF n
<1>6. moved \in Indices /\ (2 * Size - 1 <= Word => moved = Onward(rd, n))
  BY <1>1, <1>4, SumOnward
<1> HIDE DEF moved
<1>7. rd' \in Indices /\ (2 * Size - 1 <= Word => rd' = Onward(rd, n))
  BY <1>1, <1>3, <1>5, <1>6, SizeFits DEF Onward, Indices
<1>8. IndexType'
  BY <1>1, <1>7 DEF IndexType
<1>9. ASSUME 2 * Size - 1 <= Word
      PROVE  Copied(Used)' = SubSeq(Copied(Used), n + 1, Used)
  BY <1>1, <1>3, <1>7, <1>9, ReadingTakes
<1> QED
  BY <1>1, <1>8, <1>9 DEF n

(* The calls that read: where they leave the indices and what they return. *)
LEMMA GetDataTakes ==
  ASSUME IndexType, NEW len \in Nat, GetData(len) \/ GetDataPeek(len)
  PROVE  LET n == Least(Used, len)
         IN /\ IndexType' /\ returned' \in Seq(Bytes)
            /\ returned' = SubSeq(Copied(Used), 1, n)
            /\ GetData(len) => Copied(Used)' = SubSeq(Copied(Used), n + 1, Used)
            /\ GetDataPeek(len) => Copied(Used)' = Copied(Used)
<1> DEFINE n == Least(Used, len)
<1>1. /\ Used \in Indices /\ rd \in Indices /\ wr \in Indices /\ buff \in Arrays
      /\ UNCHANGED <<wr, buff>> /\ returned' = Copied(n)
  BY Holds DEF IndexType, GetData, GetDataPeek
<1>2. n \in 0 .. Used /\ n \in 0 .. Size - 1
  <2>1. Used \in Nat
    BY <1>1, SizeFits DEF Indices
  <2>2. n \in 0 .. Used
    BY <2>1, LeastOfTwo
  <2> HIDE DEF n
  <2> QED
    BY <1>1, <2>2, SizeFits DEF Indices
<1>3. GetData(len) => rd' = Onward(rd, n)
  BY <1>1, <1>2, AfterIsOnward DEF GetData
<1>4. GetDataPeek(len) => rd' = rd
  BY DEF GetDataPeek
<1>5. returned' \in Seq(Bytes) /\ returned' = SubSeq(Copied(Used), 1, n)
  BY <1>1, <1>2, CopiedAreFirst
<1> HIDE DEF n
<1>6. GetData(len) => IndexType' /\ Copied(Used)' = SubSeq(Copied(Used), n + 1, Used)
  BY <1>1, <1>2, <1>3, ReadingTakes
<1>7. GetDataPeek(len) => IndexType' /\ Copied(Used)' = Copied(Used)
  BY <1>1, <1>4 DEF IndexType, Copied, Used, Piece, Least
<1> QED
  BY <1>5, <1>6, <1>7 DEF n

(* A single byte is the oldest one with a sign, or -1 for none.            *)
LEMMA GetByteTakes ==
  ASSUME IndexType, GetByte \/ GetBytePeek
  PROVE  LET held == Copied(Used)
         IN /\ IndexType' /\ returned' \in Seq(Answers)
            /\ returned' = <<IF held = <<>> THEN -1 ELSE Int8(held[1])>>
            /\ GetByte => held' = SubSeq(held, Least(Used, 1) + 1, Used)
            /\ GetBytePeek => held' = held
<1> DEFINE held == Copied(Used)
           n == Least(Used, 1)
<1>1. /\ Used \in Indices /\ rd \in Indices /\ wr \in Indices /\ buff \in Arrays
      /\ Used \in Nat /\ Size \in Nat /\ UNCHANGED <<wr, buff>>
  BY Holds, SizeFits DEF IndexType, Indices, GetByte, GetBytePeek
<1>2. held \in Seq(Bytes) /\ Len(held) = Used
  BY Holds
<1>3. GetBytePeek => IndexType' /\ held' = held
  BY <1>1 DEF GetBytePeek, IndexType, Copied, Used, Piece, Least
<1>4. n \in 0 .. Used /\ n \in 0 .. Size - 1 /\ n = IF Used < 1 THEN 0 ELSE 1
  BY <1>1 DEF Least, Indices
<1>5. GetByte => IndexType' /\ held' = SubSeq(held, n + 1, Used)
  <2> SUFFICES ASSUME GetByte PROVE IndexType' /\ held' = SubSeq(held, n + 1, Used)
    OBVIOUS
  <2>1. rd' = Onward(rd, n)
    BY <1>1, <1>4, SizeFits DEF GetByte, Onward, Indices
  <2> HIDE DEF n
  <2> QED
    BY <1>1, <1>4, <2>1, ReadingTakes
<1>6. CASE Used < 1
  <2>1. held = <<>>
    BY <1>1, <1>2, <1>6, EmptySeq, SeqEqual
  <2>2. returned' = <<-1>>
    BY <1>6 DEF GetByte, GetBytePeek
  <2> HIDE DEF held, n
  <2> QED
    BY <1>3, <1>5, <2>1, <2>2, Values DEF held, n
<1>7. CASE ~(Used < 1)
  <2>1. held # <<>> /\ 1 \in 1 .. Used
    BY <1>1, <1>2, <1>7
  <2>2. held[1] = buff[rd] /\ held[1] \in Bytes
    <3>1. Piece(rd, Used) >= 1 /\ Piece(rd, Used) \in Int
      BY <1>1, <1>7 DEF Piece, Least, Indices
    <3>2. held[1] = buff[rd + 1 - 1]
      BY <2>1, <3>1 DEF Copied
    <3> QED
      BY <1>1, <1>2, <2>1, <3>2, ElementOfSeq DEF Indices
  <2>3. returned' = <<Int8(buff[rd])>>
    BY <1>7 DEF GetByte, GetBytePeek
  <2> HIDE DEF held, n
  <2> QED
    BY <1>3, <1>5, <2>1, <2>2, <2>3, Values DEF held, n
<1> QED
  BY <1>6, <1>7

LEMMA ClearDataTakes ==
  ASSUME IndexType, ClearData
  PROVE  IndexType' /\ returned' = <<>> /\ Copied(Used)' = <<>>
<1>1. IndexType' /\ returned' = <<>> /\ rd' = wr'
  BY DEF ClearData, IndexType
<1>2. Used' = 0
  <2>1. Used' = Between(wr', wr') /\ wr' \in Indices
    BY <1>1, WillHold DEF IndexType
  <2>2. \A w \in Indices : Between(w, w) = 0
    BY SizeFits DEF Between, Indices
  <2> QED
    BY <2>1, <2>2
<1>3. Copied(Used)' = Ring(rd', buff', 0)
  BY <1>1, <1>2, WillHold
<1>4. Ring(rd', buff', 0) \in Seq(Bytes) /\ Len(Ring(rd', buff', 0)) = 0
  <2>1. rd' \in Indices /\ buff' \in Arrays /\ 0 \in 0 .. Size
    BY <1>1, SizeFits DEF IndexType
  <2> QED
    BY <2>1, RingIsSequence
<1>5. Ring(rd', buff', 0) = <<>>
  BY <1>4
<1> QED
  BY <1>1, <1>3, <1>5

LEMMA LensAreNat == \A len \in 0 .. MaxLen : len \in Nat
OBVIOUS

LEMMA FifoTypesNext == FifoTypeOK /\ [FifoNext]_fifoVars => FifoTypeOK'
<1> SUFFICES ASSUME FifoTypeOK, [FifoNext]_fifoVars PROVE FifoTypeOK'
  OBVIOUS
<1> USE DEF Indices, Arrays
<1>1. IndexType
  BY DEF FifoTypeOK, IndexType
<1>2. SUFFICES IndexType' /\ returned' \in Seq(Answers)
  BY <1>2 DEF FifoTypeOK, IndexType, Answers
<1> USE <1>1
<1> HIDE DEF Indices, Arrays
<1>3. <<>> \in Seq(Answers)
  BY EmptySeq
<1>4. ASSUME NEW block \in Blocks, PutData(block)
      PROVE  IndexType' /\ returned' \in Seq(Answers)
  BY <1>4, BlocksAreSequences, PutDataAdds, Values
<1>5. ASSUME NEW b \in Bytes, PutByte(b)
      PROVE  IndexType' /\ returned' \in Seq(Answers)
  BY <1>5, PutByteAdds, Values
<1>6. ASSUME NEW len \in Nat, GetData(len) \/ GetDataPeek(len)
      PROVE  IndexType' /\ returned' \in Seq(Answers)
  BY <1>6, GetDataTakes, Values
<1>7. ASSUME NEW len \in Nat, RemoveData(len)
      PROVE  IndexType' /\ returned' \in Seq(Answers)
  BY <1>7, <1>3, RemoveDataTakes
<1>8. CASE GetByte \/ GetBytePeek
  BY <1>8, GetByteTakes
<1>9. CASE ClearData
  BY <1>3, <1>9, ClearDataTakes
<1>10. CASE FifoGetFree
  <2>1. IndexType'
    BY <1>10 DEF FifoGetFree, IndexType
  <2>2. GetFree \in Indices
    BY Holds, SizeFits DEF GetFree, Indices
  <2> QED
    BY <1>10, <2>1, <2>2, Values DEF FifoGetFree
<1>11. CASE UNCHANGED fifoVars
  BY <1>11 DEF fifoVars, FifoTypeOK, IndexType, Answers
<1> QED
  BY <1>4, <1>5, <1>6, <1>7, <1>8, <1>9, <1>10, <1>11, LensAreNat DEF FifoNext

(* The indices stay in the array, and what it holds are bytes: for a       *)
(* buffer of any size that an index can count.                             *)
THEOREM FifoTypesHold == FifoSpec => []FifoTypeOK
<1>1. FifoInit => FifoTypeOK
  BY FifoStarts
<1> QED
  BY <1>1, FifoTypesNext, PTL DEF FifoSpec

(* Every call is one of the queue's, with the answer the queue gives.      *)
LEMMA FifoStep ==
  ASSUME 2 * Size - 1 <= Word, FifoTypeOK, FifoNext
  PROVE  Queue!QueueNext
<1>1. IndexType
  BY DEF FifoTypeOK, IndexType, Indices, Arrays
<1> USE <1>1
<1>2. /\ Copied(Used) \in Seq(Bytes) /\ Len(Copied(Used)) = Used /\ Used \in Nat
      /\ Used <= Size - 1 /\ Size \in Nat
  BY Holds, SizeFits DEF Indices
<1> DEFINE held == Copied(Used)
<1>3. \A block \in Blocks : PutData(block) => Queue!PutBlock(block)
  <2> SUFFICES ASSUME NEW block \in Blocks, PutData(block) PROVE Queue!PutBlock(block)
    OBVIOUS
  <2>1. block \in Seq(Bytes)
    BY BlocksAreSequences
  <2> QED
    BY <1>2, <2>1, PutDataAdds DEF Queue!PutBlock, Queue!Least, Least
<1>4. \A b \in Bytes : PutByte(b) => Queue!PutBlock(<<b>>) /\ <<b>> \in Blocks
  <2> SUFFICES ASSUME NEW b \in Bytes, PutByte(b) PROVE Queue!PutBlock(<<b>>) /\ <<b>> \in Blocks
    OBVIOUS
  <2>1. <<b>> \in [1 .. 1 -> Bytes] /\ 1 \in 0 .. MaxLen /\ Len(<<b>>) = 1
    BY FifoAssumption
  <2>2. <<b>> \in Blocks
    BY <2>1 DEF Blocks
  <2> QED
    BY <1>2, <2>1, <2>2, PutByteAdds DEF Queue!PutBlock, Queue!Least, Least
<1>5. ASSUME NEW len \in Nat, GetData(len) \/ GetDataPeek(len)
      PROVE  /\ GetData(len) => Queue!TakeBlock(len)
             /\ GetDataPeek(len) => Queue!PeekBlock(len)
  <2>1. Least(Used, len) = Queue!Least(len, Len(held))
    BY <1>2 DEF Queue!Least, Least
  <2>2. LET n == Least(Used, len)
        IN /\ returned' = SubSeq(held, 1, n)
           /\ GetData(len) => held' = SubSeq(held, n + 1, Used)
           /\ GetDataPeek(len) => held' = held
    BY <1>5, GetDataTakes
  <2> QED
    BY <1>2, <2>1, <2>2 DEF Queue!TakeBlock, Queue!PeekBlock, Queue!First, Queue!Rest
<1>6. \A len \in Nat : RemoveData(len) => Queue!Drop(len)
  <2> SUFFICES ASSUME NEW len \in Nat, RemoveData(len) PROVE Queue!Drop(len)
    OBVIOUS
  <2>1. Least(Used, len) = Queue!Least(len, Len(held))
    BY <1>2 DEF Queue!Least, Least
  <2>2. held' = SubSeq(held, Least(Used, len) + 1, Used) /\ returned' = <<>>
    BY RemoveDataTakes
  <2> QED
    BY <1>2, <2>1, <2>2 DEF Queue!Drop, Queue!Rest
<1>7. ASSUME GetByte \/ GetBytePeek
      PROVE  (GetByte => Queue!TakeByte) /\ (GetBytePeek => Queue!PeekByte)
  <2>1. Least(Used, 1) = Queue!Least(1, Len(held))
    BY <1>2 DEF Queue!Least, Least
  <2>2. /\ returned' = <<IF held = <<>> THEN -1 ELSE Int8(held[1])>>
        /\ GetByte => held' = SubSeq(held, Least(Used, 1) + 1, Used)
        /\ GetBytePeek => held' = held
    BY <1>7, GetByteTakes
  <2>3. \A x : Queue!Int8(x) = Int8(x)
    BY DEF Queue!Int8, Int8
  <2> QED
    BY <1>2, <2>1, <2>2, <2>3
    DEF Queue!TakeByte, Queue!PeekByte, Queue!ByteSays, Queue!Rest
<1>8. ClearData => Queue!Drop(Size - 1)
  <2> SUFFICES ASSUME ClearData PROVE Queue!Drop(Size - 1)
    OBVIOUS
  <2>1. Queue!Least(Size - 1, Len(held)) = Used
    BY <1>2 DEF Queue!Least
  <2>2. SubSeq(held, Used + 1, Used) = <<>>
    BY <1>2, SubSeqEmpty
  <2>3. returned' = <<>> /\ held' = <<>>
    BY ClearDataTakes
  <2> QED
    BY <1>2, <2>1, <2>2, <2>3 DEF Queue!Drop, Queue!Rest
<1>9. FifoGetFree => Queue!Free
  <2> SUFFICES ASSUME FifoGetFree PROVE Queue!Free
    OBVIOUS
  <2>1. held' = held
    BY DEF FifoGetFree, Copied, Used, Piece, Least
  <2>2. returned' = <<GetFree>> /\ GetFree = Size - 1 - Used
    BY <1>2 DEF FifoGetFree, GetFree
  <2> QED
    BY <1>2, <2>1, <2>2 DEF Queue!Free
<1>10. Queue!Blocks = Blocks
  BY DEF Queue!Blocks, Blocks
<1>11. ASSUME NEW block \in Blocks, PutData(block), call' = <<"put", block>>
       PROVE  Queue!QueueNext
  BY <1>3, <1>10, <1>11 DEF Queue!QueueNext
<1>12. ASSUME NEW b \in Bytes, PutByte(b), call' = <<"put", <<b>>>>
       PROVE  Queue!QueueNext
  BY <1>4, <1>10, <1>12 DEF Queue!QueueNext
<1>13. ASSUME NEW len \in 0 .. MaxLen,
              \/ GetData(len) /\ call' = <<"get", len>>
              \/ GetDataPeek(len) /\ call' = <<"peek", len>>
              \/ RemoveData(len) /\ call' = <<"remove", len>>
       PROVE  Queue!QueueNext
  <2>1. len \in Nat
    BY LensAreNat
  <2>2. CASE GetData(len) /\ call' = <<"get", len>>
    BY <1>5, <2>1, <2>2 DEF Queue!QueueNext
  <2>3. CASE GetDataPeek(len) /\ call' = <<"peek", len>>
    BY <1>5, <2>1, <2>3 DEF Queue!QueueNext
  <2>4. CASE RemoveData(len) /\ call' = <<"remove", len>>
    BY <1>6, <2>1, <2>4 DEF Queue!QueueNext
  <2> QED
    BY <1>13, <2>2, <2>3, <2>4
<1>14. CASE \/ GetByte /\ call' = <<"get byte">>
            \/ GetBytePeek /\ call' = <<"peek byte">>
  BY <1>7, <1>14 DEF Queue!QueueNext
<1>15. CASE \/ ClearData /\ call' = <<"clear">>
            \/ FifoGetFree /\ call' = <<"free">>
  BY <1>8, <1>9, <1>15 DEF Queue!QueueNext
<1> QED
  BY <1>11, <1>12, <1>13, <1>14, <1>15 DEF FifoNext

(* A buffer of at most half of what an index can count is a queue of one   *)
(* byte less than its size: whatever the indices are when a block wraps    *)
(* round the end of the array, every byte comes out once and in order, and *)
(* a full buffer takes no more.  The calls for a single byte answer with a *)
(* signed number, -1 for the last value of a byte as for an empty buffer.  *)
THEOREM FifoIsAQueue ==
  ASSUME 2 * Size - 1 <= Word
  PROVE  FifoSpec => QueueKept
<1>1. FifoInit => FifoTypeOK /\ Queue!QueueInit
  BY FifoStarts
<1>2. FifoTypeOK /\ [FifoNext]_fifoVars => [Queue!QueueNext]_(Queue!queueVars)
  <2>1. FifoTypeOK /\ FifoNext => Queue!QueueNext
    BY FifoStep
  <2>2. UNCHANGED fifoVars => UNCHANGED Queue!queueVars
    BY DEF fifoVars, Queue!queueVars, Copied, Used, Piece, Least
  <2> QED
    BY <2>1, <2>2
<1> QED
  BY <1>1, <1>2, FifoTypesHold, PTL DEF FifoSpec, QueueKept, Queue!QueueSpec

-----------------------------------------------------------------------------
(* Texts: capitals, and what is before the first space.                    *)

Codes == 1 .. 127

(* Every set of natural numbers that is not empty has a least one. *)
LEMMA LeastNumber ==
  ASSUME NEW S \in SUBSET Nat, S # {}
  PROVE  Min(S) \in S /\ \A n \in S : Min(S) <= n
<1> DEFINE R == OpToRel(<, Nat)
<1>1. IsWellFoundedOn(R, Nat)
  BY NatLessThanWellFounded
<1>2. PICK m \in S : \A y \in S : ~(<<y, m>> \in R)
  BY <1>1, WFMin
<1>3. ASSUME NEW n \in S PROVE m <= n
  <2>1. ~(n < m)
    BY <1>2 DEF OpToRel
  <2> QED
    BY <2>1
<1> QED
  BY <1>2, <1>3 DEF Min

LEMMA UpperIs ==
  ASSUME NEW t \in Seq(Codes)
  PROVE  /\ Upper(t) \in Seq(Codes) /\ Len(Upper(t)) = Len(t)
         /\ \A i \in 1 .. Len(t) :
              /\ t[i] \in Codes /\ Upper(t)[i] \in Codes
              /\ Upper(t)[i] = IF t[i] > 96 /\ t[i] < 123 THEN t[i] - 32 ELSE t[i]
              /\ t[i] = Space <=> Upper(t)[i] = Space
              /\ t[i] \in Zero .. Zero + 9 <=> Upper(t)[i] \in Zero .. Zero + 9
              /\ t[i] \in Zero .. Zero + 9 => Upper(t)[i] = t[i]
<1> DEFINE up(c) == IF c > 96 /\ c < 123 THEN c - 32 ELSE c
<1>1. DOMAIN t = 1 .. Len(t) /\ Len(t) \in Nat /\ \A i \in 1 .. Len(t) : t[i] \in Codes
  BY LenProperties, ElementOfSeq
<1>2. ASSUME NEW c \in Codes
      PROVE  /\ up(c) \in Codes
             /\ c = Space <=> up(c) = Space
             /\ c \in Zero .. Zero + 9 <=> up(c) \in Zero .. Zero + 9
             /\ c \in Zero .. Zero + 9 => up(c) = c
  BY DEF Codes, Space, Zero
<1>3. Upper(t) = [i \in 1 .. Len(t) |-> up(t[i])]
  BY <1>1 DEF Upper
<1>4. Upper(t) \in Seq(Codes)
  <2>1. \A i \in 1 .. Len(t) : up(t[i]) \in Codes
    BY <1>1, <1>2
  <2> QED
    BY <1>1, <1>3, <2>1, IsASeq
<1>5. Len(Upper(t)) = Len(t)
  BY <1>1, <1>3, <1>4, LenProperties
<1>6. \A i \in 1 .. Len(t) : Upper(t)[i] = up(t[i])
  BY <1>3
<1>7. ASSUME NEW i \in 1 .. Len(t)
      PROVE  /\ t[i] \in Codes /\ Upper(t)[i] \in Codes
             /\ t[i] = Space <=> Upper(t)[i] = Space
             /\ t[i] \in Zero .. Zero + 9 <=> Upper(t)[i] \in Zero .. Zero + 9
             /\ t[i] \in Zero .. Zero + 9 => Upper(t)[i] = t[i]
  <2>1. t[i] \in Codes /\ Upper(t)[i] = up(t[i])
    BY <1>1, <1>6
  <2> HIDE DEF up
  <2> QED
    BY <2>1, <1>2
<1> QED
  BY <1>4, <1>5, <1>6, <1>7

(* What is before the first space. *)
LEMMA CutIs ==
  ASSUME NEW t \in Seq(Codes)
  PROVE  /\ Cut(t) \in Seq(Codes) /\ Len(Cut(t)) \in 0 .. Len(t)
         /\ \A i \in 1 .. Len(Cut(t)) : Cut(t)[i] = t[i] /\ t[i] # Space
         /\ Len(Cut(t)) < Len(t) => t[Len(Cut(t)) + 1] = Space
<1> DEFINE S == {i \in DOMAIN t : t[i] = Space} \cup {Len(t) + 1}
           m == Min(S)
<1>1. DOMAIN t = 1 .. Len(t) /\ Len(t) \in Nat /\ \A i \in 1 .. Len(t) : t[i] \in Codes
  BY LenProperties, ElementOfSeq
<1>2. S \in SUBSET Nat /\ S # {} /\ Len(t) + 1 \in S
  BY <1>1
<1>3. m \in S /\ \A n \in S : m <= n
  BY <1>2, LeastNumber
<1>4. m \in 1 .. Len(t) + 1 /\ (m <= Len(t) => t[m] = Space)
  BY <1>1, <1>2, <1>3
<1>5. ASSUME NEW i \in 1 .. m - 1 PROVE i \in 1 .. Len(t) /\ t[i] # Space
  <2>1. i \in 1 .. Len(t) /\ ~(m <= i)
    BY <1>1, <1>4
  <2> QED
    BY <1>1, <1>3, <2>1
<1>6. Cut(t) = SubSeq(t, 1, m - 1)
  BY DEF Cut
<1> HIDE DEF m, S
<1>7. /\ Cut(t) \in Seq(Codes) /\ Len(Cut(t)) = IF 1 <= m - 1 THEN m - 1 - 1 + 1 ELSE 0
      /\ \A i \in 1 .. m - 1 - 1 + 1 : Cut(t)[i] = t[1 + i - 1]
  <2>1. 1 \in Int /\ m - 1 \in Int /\ \A i \in 1 .. m - 1 : t[i] \in Codes
    BY <1>1, <1>4, <1>5
  <2> QED
    BY <1>6, <2>1, SubSeqProperties
<1>8. Len(Cut(t)) = m - 1
  BY <1>4, <1>7
<1>9. ASSUME NEW i \in 1 .. m - 1 PROVE Cut(t)[i] = t[i]
  <2>1. i \in 1 .. m - 1 - 1 + 1 /\ 1 + i - 1 = i
    BY <1>4
  <2> QED
    BY <1>7, <2>1
<1> QED
  BY <1>1, <1>4, <1>5, <1>7, <1>8, <1>9

(* Capital letters have no influence on where a text is cut. *)
LEMMA CutUpper ==
  ASSUME NEW t \in Seq(Codes)
  PROVE  /\ Len(Cut(Upper(t))) = Len(Cut(t)) /\ Len(Cut(t)) \in Nat
         /\ \A i \in 1 .. Len(Cut(t)) :
              /\ Cut(Upper(t))[i] = Upper(t)[i] /\ Cut(t)[i] = t[i] /\ i \in 1 .. Len(t)
         /\ IsNumber(Cut(t)) <=> IsNumber(Cut(Upper(t)))
         /\ IsNumber(Cut(t)) => Cut(Upper(t)) = Cut(t)
<1> DEFINE u == Upper(t)
           a == Len(Cut(t))
           b == Len(Cut(u))
<1>1. /\ u \in Seq(Codes) /\ Len(u) = Len(t) /\ Len(t) \in Nat
      /\ \A i \in 1 .. Len(t) : /\ t[i] = Space <=> u[i] = Space
                                /\ t[i] \in Zero .. Zero + 9 <=> u[i] \in Zero .. Zero + 9
                                /\ t[i] \in Zero .. Zero + 9 => u[i] = t[i]
  BY UpperIs, LenProperties
<1> HIDE DEF u
<1>2. /\ Cut(t) \in Seq(Codes) /\ a \in 0 .. Len(t)
      /\ \A i \in 1 .. a : Cut(t)[i] = t[i] /\ t[i] # Space
      /\ a < Len(t) => t[a + 1] = Space
  BY CutIs
<1>3. /\ Cut(u) \in Seq(Codes) /\ b \in 0 .. Len(t)
      /\ \A i \in 1 .. b : Cut(u)[i] = u[i] /\ u[i] # Space
      /\ b < Len(t) => u[b + 1] = Space
  BY <1>1, CutIs
<1> DEFINE C == Cut(t)
           D == Cut(u)
<1>4. Len(C) = a /\ Len(D) = b
  OBVIOUS
<1> HIDE DEF a, b, C, D
<1>5. a = b
  <2>1. CASE a < b
    <3>1. a + 1 \in 1 .. b /\ a < Len(t) /\ a + 1 \in 1 .. Len(t)
      BY <1>1, <1>2, <1>3, <2>1
    <3> QED
      BY <3>1, <1>1, <1>2, <1>3
  <2>2. CASE b < a
    <3>1. b + 1 \in 1 .. a /\ b < Len(t) /\ b + 1 \in 1 .. Len(t)
      BY <1>1, <1>2, <1>3, <2>2
    <3> QED
      BY <3>1, <1>1, <1>2, <1>3
  <2> QED
    BY <1>2, <1>3, <2>1, <2>2
<1>6. \A i \in 1 .. a : D[i] = u[i] /\ C[i] = t[i] /\ i \in 1 .. Len(t)
  BY <1>1, <1>2, <1>3, <1>5 DEF C, D
<1>7. DOMAIN C = 1 .. a /\ DOMAIN D = 1 .. a /\ C \in Seq(Codes) /\ D \in Seq(Codes)
  BY <1>2, <1>3, <1>4, <1>5, LenProperties DEF C, D
<1>8. IsNumber(C) <=> IsNumber(D)
  BY <1>1, <1>6, <1>7 DEF IsNumber
<1>9. IsNumber(C) => D = C
  <2>1. ASSUME IsNumber(C) PROVE \A i \in 1 .. a : D[i] = C[i]
    BY <1>1, <1>6, <1>7, <2>1 DEF IsNumber
  <2> QED
    BY <1>4, <1>5, <1>7, <2>1, SeqEqual
<1> QED
  BY <1>2, <1>5, <1>6, <1>8, <1>9 DEF a, b, C, D, u

-----------------------------------------------------------------------------
(* Numbers of up to three digits.                                          *)

(* The number that the digits of a text of up to three mean. *)
Value(t) ==
  IF Len(t) = 1 THEN t[1] - Zero
  ELSE IF Len(t) = 2 THEN 10 * (t[1] - Zero) + (t[2] - Zero)
  ELSE 100 * (t[1] - Zero) + 10 * (t[2] - Zero) + (t[3] - Zero)

LEMMA DigitsOf ==
  ASSUME NEW t \in Seq(Codes), Len(t) \in 1 .. 3, IsNumber(t)
  PROVE  /\ t[1] - Zero \in 0 .. 9
         /\ Len(t) >= 2 => t[2] - Zero \in 0 .. 9
         /\ Len(t) >= 3 => t[3] - Zero \in 0 .. 9
<1>1. DOMAIN t = 1 .. Len(t)
  BY LenProperties
<1>2. ASSUME NEW i \in 1 .. Len(t) PROVE t[i] - Zero \in 0 .. 9
  <2>1. t[i] \in Zero .. Zero + 9
    BY <1>1 DEF IsNumber
  <2> QED
    BY <2>1 DEF Zero
<1>3. 1 \in 1 .. Len(t) /\ (Len(t) >= 2 => 2 \in 1 .. Len(t)) /\ (Len(t) >= 3 => 3 \in 1 .. Len(t))
  OBVIOUS
<1> QED
  BY <1>2, <1>3

LEMMA Sums ==
  ASSUME NEW a \in 0 .. 9, NEW b \in 0 .. 9, NEW c \in 0 .. 9
  PROVE  /\ (0 + (a + 48) - 48) % 65536 = a
         /\ ((0 + (a + 48) - 48) * 10) % 65536 = 10 * a
         /\ (10 * a + (b + 48) - 48) % 65536 = 10 * a + b
         /\ ((10 * a + (b + 48) - 48) * 10) % 65536 = 100 * a + 10 * b
         /\ (100 * a + 10 * b + (c + 48) - 48) % 65536 = 100 * a + 10 * b + c
OBVIOUS

LEMMA CodesAreNumbers ==
  ASSUME NEW t \in Seq(Codes)
  PROVE  \A i \in 1 .. Len(t) : t[i] \in Int
<1>1. \A i \in 1 .. Len(t) : t[i] \in Codes
  BY ElementOfSeq
<1>2. \A c \in Codes : c \in Int
  BY DEF Codes
<1> QED
  BY <1>1, <1>2

(* extract_numbers computes it. *)
LEMMA ExtractIs ==
  ASSUME NEW t \in Seq(Codes), Len(t) \in 1 .. 3, IsNumber(t)
  PROVE  Extract(t) = Value(t)
<1> DEFINE rest(f) == [i \in 0 .. Len(t) - 1 |->
                         IF i = 0 THEN 0 ELSE ((f[i - 1] + t[i] - 48) * 10) % 65536]
           number == CHOOSE f : f = rest(f)
<1>1. Extract(t) = (number[Len(t) - 1] + t[Len(t)] - 48) % 65536
  BY DEF Extract, Zero
<1>2. PICK a \in 0 .. 9 : t[1] = a + 48
  <2>1. t[1] - 48 \in 0 .. 9 /\ t[1] \in Int
    BY DigitsOf, CodesAreNumbers DEF Zero
  <2>2. t[1] = (t[1] - 48) + 48
    BY <2>1
  <2> QED
    BY <2>1, <2>2
<1>3. PICK b \in 0 .. 9 : Len(t) >= 2 => t[2] = b + 48
  <2>1. CASE Len(t) >= 2
    <3>1. t[2] - 48 \in 0 .. 9 /\ t[2] \in Int
      BY <2>1, DigitsOf, CodesAreNumbers DEF Zero
    <3>2. t[2] = (t[2] - 48) + 48
      BY <3>1
    <3> QED
      BY <3>1, <3>2
  <2>2. CASE ~(Len(t) >= 2)
    <3>1. 0 \in 0 .. 9
      OBVIOUS
    <3> QED
      BY <2>2, <3>1
  <2> QED
    BY <2>1, <2>2
<1>4. PICK c \in 0 .. 9 : Len(t) >= 3 => t[3] = c + 48
  <2>1. CASE Len(t) >= 3
    <3>1. t[3] - 48 \in 0 .. 9 /\ t[3] \in Int
      BY <2>1, DigitsOf, CodesAreNumbers DEF Zero
    <3>2. t[3] = (t[3] - 48) + 48
      BY <3>1
    <3> QED
      BY <3>1, <3>2
  <2>2. CASE ~(Len(t) >= 3)
    <3>1. 0 \in 0 .. 9
      OBVIOUS
    <3> QED
      BY <2>2, <3>1
  <2> QED
    BY <2>1, <2>2
<1> DEFINE one == 10 * a
           two == 100 * a + 10 * b
           g == [i \in 0 .. Len(t) - 1 |-> IF i = 0 THEN 0 ELSE IF i = 1 THEN one ELSE two]
<1>5. /\ (0 + (a + 48) - 48) % 65536 = a /\ ((0 + (a + 48) - 48) * 10) % 65536 = one
      /\ (one + (b + 48) - 48) % 65536 = 10 * a + b
      /\ ((one + (b + 48) - 48) * 10) % 65536 = two
      /\ (two + (c + 48) - 48) % 65536 = 100 * a + 10 * b + c
  BY Sums
<1>6. /\ Len(t) = 1 => Value(t) = a
      /\ Len(t) = 2 => Value(t) = 10 * a + b
      /\ Len(t) = 3 => Value(t) = 100 * a + 10 * b + c
  <2>1. (a + 48) - Zero = a /\ (b + 48) - Zero = b /\ (c + 48) - Zero = c
    BY DEF Zero
  <2>2. t[1] - Zero = a
    BY <1>2, <2>1
  <2>3. Len(t) >= 2 => t[2] - Zero = b
    BY <1>3, <2>1
  <2>4. Len(t) >= 3 => t[3] - Zero = c
    BY <1>4, <2>1
  <2> QED
    BY <2>2, <2>3, <2>4 DEF Value
<1> HIDE DEF one, two
<1>7. ASSUME NEW i \in 0 .. Len(t) - 1
      PROVE  g[i] = IF i = 0 THEN 0 ELSE ((g[i - 1] + t[i] - 48) * 10) % 65536
  <2>1. i = 0 \/ i = 1 \/ i = 2
    <3>1. Len(t) = 1 \/ Len(t) = 2 \/ Len(t) = 3
      OBVIOUS
    <3> HIDE DEF g
    <3>2. CASE Len(t) = 1
      BY <3>2
    <3>3. CASE Len(t) = 2
      BY <3>3
    <3>4. CASE Len(t) = 3
      BY <3>4
    <3> QED
      BY <3>1, <3>2, <3>3, <3>4
  <2>2. CASE i = 0
    BY <2>2
  <2>3. CASE i = 1
    <3>1. g[i] = one /\ g[i - 1] = 0 /\ t[i] = a + 48
      BY <1>2, <2>3
    <3> HIDE DEF g
    <3> QED
      BY <1>5, <2>3, <3>1
  <2>4. CASE i = 2
    <3>1. g[i] = two /\ g[i - 1] = one /\ t[i] = b + 48
      BY <1>3, <2>4
    <3> HIDE DEF g
    <3> QED
      BY <1>5, <2>4, <3>1
  <2> HIDE DEF g
  <2> QED
    BY <2>1, <2>2, <2>3, <2>4
<1>8. number = rest(number)
  <2> DEFINE h == rest(g)
  <2>1. \A i \in 0 .. Len(t) - 1 : h[i] = g[i]
    BY <1>7
  <2>2. g = rest(g)
    BY <2>1
  <2> HIDE DEF rest, g
  <2> QED
    BY <2>2
<1> HIDE DEF number
<1>9. ASSUME NEW i \in 0 .. Len(t) - 1
      PROVE  number[i] = IF i = 0 THEN 0 ELSE ((number[i - 1] + t[i] - 48) * 10) % 65536
  BY <1>8
<1>10. number[0] = 0
  <2>1. 0 \in 0 .. Len(t) - 1
    OBVIOUS
  <2> QED
    BY <1>9, <2>1
<1>11. ASSUME Len(t) >= 2 PROVE number[1] = one
  <2>1. 1 \in 0 .. Len(t) - 1 /\ 1 - 1 = 0 /\ 1 # 0
    BY <1>11
  <2>2. number[1] = ((number[0] + t[1] - 48) * 10) % 65536
    BY <1>9, <2>1
  <2> QED
    BY <1>2, <1>5, <1>10, <2>2
<1>12. ASSUME Len(t) >= 3 PROVE number[2] = two
  <2>1. 2 \in 0 .. Len(t) - 1 /\ 2 - 1 = 1 /\ 2 # 0 /\ Len(t) >= 2
    BY <1>12
  <2>2. number[2] = ((number[1] + t[2] - 48) * 10) % 65536
    BY <1>9, <2>1
  <2>3. number[1] = one
    BY <1>11, <2>1
  <2>4. t[2] = b + 48
    BY <1>3, <2>1
  <2>5. number[2] = ((one + (b + 48) - 48) * 10) % 65536
    BY <2>2, <2>3, <2>4
  <2> QED
    BY <1>5, <2>5
<1>13. CASE Len(t) = 1
  <2>1. number[Len(t) - 1] = 0 /\ t[Len(t)] = a + 48
    BY <1>2, <1>10, <1>13
  <2> QED
    BY <1>1, <1>5, <1>6, <1>13, <2>1
<1>14. CASE Len(t) = 2
  <2>1. number[Len(t) - 1] = one /\ t[Len(t)] = b + 48
    BY <1>3, <1>11, <1>14
  <2> QED
    BY <1>1, <1>5, <1>6, <1>14, <2>1
<1>15. CASE Len(t) = 3
  <2>1. number[Len(t) - 1] = two /\ t[Len(t)] = c + 48
    BY <1>4, <1>12, <1>15
  <2> QED
    BY <1>1, <1>5, <1>6, <1>15, <2>1
<1> QED
  BY <1>13, <1>14, <1>15

LEMMA Powers == 10 ^ 0 = 1 /\ 10 ^ 1 = 10 /\ 10 ^ 2 = 100 /\ 10 ^ 3 = 1000
BY SMT

(* A text of up to three digits is a numeral of that number and no other.  *)
LEMMA NumeralIs ==
  ASSUME NEW t \in Seq(Codes), Len(t) \in 1 .. 3, NEW n \in Nat
  PROVE  Numeral(t, n) <=> IsNumber(t) /\ n = Value(t)
<1>1. DOMAIN t = 1 .. Len(t) /\ \A i \in 1 .. Len(t) : t[i] \in Int
  BY LenProperties, CodesAreNumbers
<1>2. t # <<>>
  OBVIOUS
<1>3. Numeral(t, n) <=>
        /\ n < 10 ^ Len(t)
        /\ \A i \in 1 .. Len(t) : t[i] - Zero = (n \div 10 ^ (Len(t) - i)) % 10
  BY <1>1, <1>2 DEF Numeral
<1>4. ASSUME \A i \in 1 .. Len(t) : t[i] - Zero \in 0 .. 9 PROVE IsNumber(t)
  <2>1. ASSUME NEW i \in 1 .. Len(t) PROVE t[i] \in Zero .. Zero + 9
    BY <1>1, <1>4 DEF Zero
  <2> QED
    BY <1>1, <2>1 DEF IsNumber
<1>5. CASE Len(t) = 1
  <2>1. Numeral(t, n) <=> n < 10 /\ t[1] - Zero = (n \div 1) % 10
    BY <1>3, <1>5, Powers
  <2>2. Numeral(t, n) => IsNumber(t)
    BY <1>4, <1>5, <2>1
  <2>3. ASSUME t[1] - Zero \in 0 .. 9
        PROVE  n < 10 /\ t[1] - Zero = (n \div 1) % 10 <=> n = t[1] - Zero
    <3> DEFINE a == t[1] - Zero
    <3> HIDE DEF a
    <3>1. a \in 0 .. 9
      BY <2>3 DEF a
    <3>2. n < 10 /\ a = (n \div 1) % 10 <=> n = a
      BY <3>1
    <3> QED
      BY <3>2 DEF a
  <2> QED
    BY <1>5, <2>1, <2>2, <2>3, DigitsOf DEF Value
<1>6. CASE Len(t) = 2
  <2>1. Numeral(t, n) <=> /\ n < 100 /\ t[1] - Zero = (n \div 10) % 10
                          /\ t[2] - Zero = (n \div 1) % 10
    <3>1. \A i \in 1 .. Len(t) : i = 1 \/ i = 2
      BY <1>6
    <3>2. 10 ^ Len(t) = 100 /\ 10 ^ (Len(t) - 1) = 10 /\ 10 ^ (Len(t) - 2) = 1
      BY <1>6, Powers
    <3> QED
      BY <1>3, <1>6, <3>1, <3>2
  <2>2. Numeral(t, n) => IsNumber(t)
    BY <1>4, <1>6, <2>1
  <2>3. ASSUME t[1] - Zero \in 0 .. 9, t[2] - Zero \in 0 .. 9
        PROVE  n < 100 /\ t[1] - Zero = (n \div 10) % 10 /\ t[2] - Zero = (n \div 1) % 10
                 <=> n = 10 * (t[1] - Zero) + (t[2] - Zero)
    <3> DEFINE a == t[1] - Zero
               b == t[2] - Zero
    <3> HIDE DEF a, b
    <3>1. a \in 0 .. 9 /\ b \in 0 .. 9
      BY <2>3 DEF a, b
    <3>2. n < 100 /\ a = (n \div 10) % 10 /\ b = (n \div 1) % 10 <=> n = 10 * a + b
      BY <3>1
    <3> QED
      BY <3>2 DEF a, b
  <2> QED
    BY <1>6, <2>1, <2>2, <2>3, DigitsOf DEF Value
<1>7. CASE Len(t) = 3
  <2>1. Numeral(t, n) <=> /\ n < 1000 /\ t[1] - Zero = (n \div 100) % 10
                          /\ t[2] - Zero = (n \div 10) % 10 /\ t[3] - Zero = (n \div 1) % 10
    <3>1. \A i \in 1 .. Len(t) : i = 1 \/ i = 2 \/ i = 3
      BY <1>7
    <3>2. /\ 10 ^ Len(t) = 1000 /\ 10 ^ (Len(t) - 1) = 100 /\ 10 ^ (Len(t) - 2) = 10
          /\ 10 ^ (Len(t) - 3) = 1
      BY <1>7, Powers
    <3> QED
      BY <1>3, <1>7, <3>1, <3>2
  <2>2. Numeral(t, n) => IsNumber(t)
    BY <1>4, <1>7, <2>1
  <2>3. ASSUME t[1] - Zero \in 0 .. 9, t[2] - Zero \in 0 .. 9, t[3] - Zero \in 0 .. 9
        PROVE  (/\ n < 1000 /\ t[1] - Zero = (n \div 100) % 10
                /\ t[2] - Zero = (n \div 10) % 10 /\ t[3] - Zero = (n \div 1) % 10)
                 <=> n = 100 * (t[1] - Zero) + 10 * (t[2] - Zero) + (t[3] - Zero)
    <3> DEFINE a == t[1] - Zero
               b == t[2] - Zero
               c == t[3] - Zero
    <3> HIDE DEF a, b, c
    <3>1. a \in 0 .. 9 /\ b \in 0 .. 9 /\ c \in 0 .. 9
      BY <2>3 DEF a, b, c
    <3>2. (n < 1000 /\ a = (n \div 100) % 10 /\ b = (n \div 10) % 10 /\ c = (n \div 1) % 10)
            <=> n = 100 * a + 10 * b + c
      BY <3>1
    <3> QED
      BY <3>2 DEF a, b, c
  <2> QED
    BY <1>7, <2>1, <2>2, <2>3, DigitsOf DEF Value
<1> QED
  BY <1>5, <1>6, <1>7

-----------------------------------------------------------------------------
(* The texts that are typed.                                               *)

LEMMA FrequencyIsRead ==
  ASSUME text \in Seq(Codes)
  PROVE  FrequencyRead
<1> DEFINE c == Cut(text)
           u == Cut(Upper(text))
           typed == {n \in 0 .. 999 : Len(c) <= 3 /\ Numeral(c, n)}
<1>1. /\ c \in Seq(Codes) /\ u \in Seq(Codes) /\ Len(u) = Len(c) /\ Len(c) \in Nat
      /\ IsNumber(c) <=> IsNumber(u)
      /\ IsNumber(c) => u = c
  BY UpperIs, CutIs, CutUpper
<1>2. Frequency(text) = IF Len(u) \notin 1 .. 3 \/ Extract(u) > 255 THEN Invalid ELSE Extract(u)
  BY DEF Frequency
<1> SUFFICES /\ Frequency(text) # Invalid => Frequency(text) \in typed
             /\ \A n \in typed : n < 255 => Frequency(text) = n
  BY DEF FrequencyRead
<1> HIDE DEF c, u
<1>3. CASE Len(c) \notin 1 .. 3
  <2>1. typed = {}
    <3>1. ASSUME NEW n \in typed PROVE FALSE
      <4>1. Len(c) <= 3 /\ c # <<>>
        BY DEF Numeral
      <4>2. Len(c) # 0
        BY <1>1, <4>1, EmptySeq
      <4> QED
        BY <1>1, <1>3, <4>1, <4>2
    <3> HIDE DEF typed
    <3> QED
      BY <3>1
  <2>2. Frequency(text) = Invalid
    BY <1>1, <1>2, <1>3
  <2> HIDE DEF typed
  <2> QED
    BY <2>1, <2>2
<1>4. CASE Len(c) \in 1 .. 3 /\ ~IsNumber(c)
  <2>1. ASSUME NEW n \in typed PROVE FALSE
    <3>1. n \in Nat /\ Numeral(c, n)
      OBVIOUS
    <3> QED
      BY <1>1, <1>4, <3>1, NumeralIs
  <2>2. Extract(u) = Invalid
    BY <1>1, <1>4 DEF Extract
  <2>3. Frequency(text) = Invalid
    BY <1>2, <2>2 DEF Invalid
  <2> HIDE DEF typed
  <2> QED
    BY <2>1, <2>3
<1>5. CASE Len(c) \in 1 .. 3 /\ IsNumber(c)
  <2> DEFINE v == Value(c)
  <2>1. Extract(u) = v
    BY <1>1, <1>5, ExtractIs
  <2>2. v \in 0 .. 999
    <3> DEFINE d1 == c[1] - Zero
               d2 == c[2] - Zero
               d3 == c[3] - Zero
    <3>1. d1 \in 0 .. 9 /\ (Len(c) >= 2 => d2 \in 0 .. 9) /\ (Len(c) >= 3 => d3 \in 0 .. 9)
      BY <1>1, <1>5, DigitsOf
    <3>2. v = IF Len(c) = 1 THEN d1 ELSE IF Len(c) = 2 THEN 10 * d1 + d2
              ELSE 100 * d1 + 10 * d2 + d3
      BY DEF Value
    <3> HIDE DEF d1, d2, d3, v
    <3>3. Len(c) = 1 \/ Len(c) = 2 \/ Len(c) = 3
      BY <1>5
    <3>4. CASE Len(c) = 1
      BY <3>1, <3>2, <3>4
    <3>5. CASE Len(c) = 2
      <4>1. v = 10 * d1 + d2 /\ d1 \in 0 .. 9 /\ d2 \in 0 .. 9
        BY <3>1, <3>2, <3>5
      <4> QED
        BY <4>1
    <3>6. CASE Len(c) = 3
      <4>1. v = 100 * d1 + 10 * d2 + d3 /\ d1 \in 0 .. 9 /\ d2 \in 0 .. 9 /\ d3 \in 0 .. 9
        BY <3>1, <3>2, <3>6
      <4> QED
        BY <4>1
    <3> QED
      BY <3>3, <3>4, <3>5, <3>6
  <2>3. \A n \in Nat : Numeral(c, n) <=> n = v
    BY <1>1, <1>5, NumeralIs
  <2>4. \A n : n \in typed <=> n \in 0 .. 999 /\ n = v
    <3>1. \A n \in 0 .. 999 : n \in Nat
      OBVIOUS
    <3>2. Len(c) <= 3
      <4>1. \A x \in 1 .. 3 : x <= 3
        OBVIOUS
      <4> HIDE DEF typed, v
      <4> QED
        BY <1>5, <4>1
    <3>3. \A n : n \in typed <=> n \in 0 .. 999 /\ Numeral(c, n)
      BY <3>2
    <3> HIDE DEF typed, v
    <3> QED
      BY ONLY <2>3, <3>1, <3>3
  <2> HIDE DEF typed, v
  <2>5. v \in typed /\ \A n \in typed : n = v
    BY ONLY <2>2, <2>4
  <2>6. CASE v > 255
    <3>1. Frequency(text) = Invalid
      BY <1>2, <2>1, <2>6
    <3>2. \A n \in typed : ~(n < 255)
      <4>1. ~(v < 255)
        BY <2>2, <2>6
      <4> QED
        BY ONLY <2>5, <4>1
    <3> QED
      BY ONLY <3>1, <3>2
  <2>7. CASE ~(v > 255)
    <3>1. Frequency(text) = v
      BY <1>1, <1>2, <1>5, <2>1, <2>7
    <3> QED
      BY ONLY <2>5, <3>1
  <2> QED
    BY <2>6, <2>7
<1> QED
  BY <1>3, <1>4, <1>5

InputInv == text \in Seq(Codes)

LEMMA TextStays ==
  InputSpec => []InputInv
<1>1. InputInit => InputInv
  BY DEF InputInit, InputInv
<1>2. InputInv /\ [InputNext]_text => InputInv'
  <2> SUFFICES ASSUME text \in Seq(Codes), [InputNext]_text PROVE text' \in Seq(Codes)
    BY DEF InputInv
  <2>1. ASSUME NEW c \in Chars, Type(c) PROVE text' \in Seq(Codes)
    <3>1. c \in Codes /\ text' = Append(text, c)
      BY <2>1, InputAssumption DEF Type, Codes
    <3> QED
      BY <3>1, AppendProperties
  <2> QED
    BY <2>1 DEF InputNext
<1> QED
  BY <1>1, <1>2, PTL DEF InputSpec

(* A frequency that status_freq sets is the number that was typed, in up   *)
(* to three digits, and every number below 255 typed so gets set, whatever *)
(* stands after a space.                                                   *)
THEOREM FrequencyIsAsTyped == InputSpec => []FrequencyRead
<1>1. InputInv => FrequencyRead
  BY FrequencyIsRead DEF InputInv
<1> QED
  BY <1>1, TextStays, PTL
=============================================================================
