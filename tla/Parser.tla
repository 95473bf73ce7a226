------------------------------- MODULE Parser -------------------------------
(***************************************************************************)
(* The GSM driver's parser, comm_rx_handler, character by character: where *)
(* it looks for lines in an announced block, which result codes it finds   *)
(* there, and where it looks behind the block.  The receive interrupt goes *)
(* on storing meanwhile.  The buffer is not erased between blocks, so that *)
(* behind a block lies what is left of an earlier one, and behind the      *)
(* buffer, other variables.                                                *)
(***************************************************************************)
EXTENDS Naturals, Sequences

CONSTANTS
  BufferSize,   \* COM_RX_BUFFER_SIZE
  Margin,       \* characters behind the buffer that are looked at
  Characters,   \* what memory may hold
  Memories,     \* what memory may hold at the start
  Tables,       \* the result codes of an operation, in the order of the tables
  Pieces,       \* what the modem may send at a time
  MaxPieces     \* bound: how often it does

CR == "CR"
LF == "LF"
Operations == {"sms", "other"}     \* GSM_OP_SMS; GSM_OP_NETWORK, GSM_OP_ACC or none
Addresses == 0 .. BufferSize + Margin

ASSUME ParserAssumption ==
  /\ BufferSize \in Nat /\ Margin \in Nat /\ Margin >= 4 /\ MaxPieces \in Nat
  /\ {CR, LF} \subseteq Characters
  /\ Memories \subseteq [Addresses -> Characters]
  /\ Pieces \subseteq Seq(Characters)
  /\ \A o \in Operations :
       /\ Tables[o] \in Seq(Seq(Characters \ {CR}))
       /\ \A n \in DOMAIN Tables[o] : Len(Tables[o][n]) \in 1 .. Margin

VARIABLES
  memory,       \* from rx.p_data on: the buffer and what lies behind it
  stored,       \* rx.write_ix
  received,     \* bound: the pieces that came
  stage,        \* where comm_rx_handler is
  op,           \* control.current_op
  block,        \* its argument size
  ix,           \* its index i
  pStr,         \* its p_str
  heard         \* history: the codes found in this block, and where

parserVars == <<memory, stored, received, stage, op, block, ix, pStr, heard>>

ParserInit ==
  /\ memory \in Memories /\ stored = 0 /\ received = 0
  /\ stage = "idle" /\ op = "other" /\ block = 0 /\ ix = 0 /\ pStr = 0
  /\ heard = <<>>

(* The receive interrupt: as much of a piece as there is room for.         *)
Receive ==
  \E piece \in Pieces :
    LET room == BufferSize - stored
        n == IF Len(piece) < room THEN Len(piece) ELSE room
    IN /\ received < MaxPieces
       /\ received' = received + 1
       /\ stored' = stored + n
       /\ memory' = [a \in Addresses |-> IF a \in stored .. stored + n - 1
                                         THEN piece[a - stored + 1] ELSE memory[a]]
       /\ UNCHANGED <<stage, op, block, ix, pStr, heard>>

(* EVENT_COM_DATA_AVAILABLE: the size is that of the buffer when it was    *)
(* announced; what comes from then on is stored behind the block.          *)
BlockComes ==
  /\ stage = "idle" /\ stored > 0
  /\ stage' = "scan" /\ block' = stored /\ ix' = 0 /\ heard' = <<>>
  /\ op' \in Operations
  /\ UNCHANGED <<memory, stored, received, pStr>>

-----------------------------------------------------------------------------
(* The loop: a line begins after CR LF.  The character behind a CR is read *)
(* whether or not it is the block's, and left behind if it is no LF.       *)

SkipCharacter ==
  /\ stage = "scan" /\ ix < block /\ memory[ix] # CR
  /\ ix' = ix + 1
  /\ UNCHANGED <<memory, stored, received, stage, op, block, pStr, heard>>

SkipPair ==
  /\ stage = "scan" /\ ix < block /\ memory[ix] = CR /\ memory[ix + 1] # LF
  /\ ix' = ix + 2
  /\ UNCHANGED <<memory, stored, received, stage, op, block, pStr, heard>>

LineBegins ==
  /\ stage = "scan" /\ ix < block /\ memory[ix] = CR /\ memory[ix + 1] = LF
  /\ ix' = ix + 2
  /\ stage' = "line" /\ pStr' = ix'
  /\ UNCHANGED <<memory, stored, received, op, block, heard>>

(* memchr: the first CR of the block from there on.                        *)
Ends == {e \in pStr .. block - 1 : memory[e] = CR}
FirstEnd(e) == e \in Ends /\ \A f \in Ends : e <= f

(* The index after a line of that length: behind its CR and the LF after   *)
(* it, or back at its CR if it is empty.  (Mutant: not back.)              *)
BehindNoRewind(length) ==
  LET n == ix + 1 + length
  IN IF memory[n] = LF THEN n + 1 ELSE n
Behind(length) ==
  LET n == ix + 1 + length
      m == IF memory[n] = LF THEN n + 1 ELSE n
  IN IF length = 0 THEN m - 2 ELSE m

LineEnds ==
  /\ stage = "line"
  /\ \E e \in Ends : FirstEnd(e) /\ ix' = Behind(e - pStr)
  /\ stage' = "match"
  /\ UNCHANGED <<memory, stored, received, op, block, pStr, heard>>

(* A line without a CR is given up, but in an SMS operation, where it may  *)
(* be the prompt.                                                          *)
LineOpen ==
  /\ stage = "line" /\ pStr <= block /\ Ends = {}
  /\ IF op = "sms" THEN stage' = "match" /\ ix' = Behind(2)
     ELSE stage' = "reopen" /\ UNCHANGED ix
  /\ UNCHANGED <<memory, stored, received, op, block, pStr, heard>>

(* The block ends in CR and an LF lies behind it: size - i is -1, and      *)
(* memchr searches all of the memory.                                      *)
GoesAstray ==
  /\ stage = "line" /\ pStr > block
  /\ stage' = "astray"
  /\ UNCHANGED <<memory, stored, received, op, block, ix, pStr, heard>>

(* check_result_codes: the first code of the table that memory holds from  *)
(* there on, the block's characters or not.                                *)
CodeAt(n, a) == \A k \in DOMAIN Tables[op][n] : memory[a + k - 1] = Tables[op][n][k]
FirstCode(n, a) ==
  /\ n \in DOMAIN Tables[op] /\ CodeAt(n, a)
  /\ \A m \in DOMAIN Tables[op] : CodeAt(m, a) => n <= m

Match ==
  /\ stage = "match"
  /\ \/ \E n \in DOMAIN Tables[op] :
          FirstCode(n, pStr) /\ heard' = Append(heard, [at |-> pStr, code |-> n])
     \/ (\A n \in DOMAIN Tables[op] : ~CodeAt(n, pStr)) /\ UNCHANGED heard
  /\ stage' = "scan"
  /\ UNCHANGED <<memory, stored, received, op, block, ix, pStr>>

LoopEnds ==
  /\ stage = "scan" /\ ix >= block
  /\ stage' = "reopen"
  /\ UNCHANGED <<memory, stored, received, op, block, ix, pStr, heard>>

(* Com_reopen: the buffer is empty, not erased.                            *)
ParserReopens ==
  /\ stage \in {"reopen", "astray"}
  /\ stored' = 0
  /\ stage' = "idle"
  /\ UNCHANGED <<memory, received, op, block, ix, pStr, heard>>

ParserNext ==
  \/ Receive \/ BlockComes
  \/ SkipCharacter \/ SkipPair \/ LineBegins \/ LineEnds \/ LineOpen \/ GoesAstray
  \/ Match \/ LoopEnds \/ ParserReopens

ParserSpec == ParserInit /\ [][ParserNext]_parserVars

-----------------------------------------------------------------------------

ParserTypeOK ==
  /\ memory \in [Addresses -> Characters]
  /\ stored \in 0 .. BufferSize /\ received \in 0 .. MaxPieces
  /\ stage \in {"idle", "scan", "line", "match", "reopen", "astray"}
  /\ op \in Operations /\ block \in 0 .. BufferSize
  /\ ix \in 0 .. BufferSize + 4 /\ pStr \in 0 .. BufferSize + 1
  /\ heard \in Seq([at : 0 .. BufferSize, code : Nat])

(* What stands in the block behind a CR LF; set off: at its beginning, or  *)
(* with another line's end before it; ended by a CR.                       *)
Opens(a) == a >= 2 /\ memory[a - 2] = CR /\ memory[a - 1] = LF
SetOff(a) == Opens(a) /\ (a = 2 \/ (a >= 4 /\ Opens(a - 2)))
Ended(a) == \E e \in a .. block - 1 : memory[e] = CR

(* Each answer is heard once, in order, and as it was sent: a result code  *)
(* in a line of its own, as the modem sends it, whatever empty lines,      *)
(* texts and bytes that come too late are around it, and, outside of the   *)
(* SMS operations, nothing that is not a line of this block.  (In an SMS   *)
(* operation the last line need not have an end, and what is heard there   *)
(* may be what an earlier block left.)                                     *)
AnswersHeard ==
  stage = "reopen" =>
    /\ \A a \in 0 .. block - 1, n \in DOMAIN Tables[op] :
         SetOff(a) /\ Ended(a) /\ FirstCode(n, a) =>
           \E k \in DOMAIN heard : heard[k] = [at |-> a, code |-> n]
    /\ \A j, k \in DOMAIN heard : j < k => heard[j].at < heard[k].at
    /\ \A k \in DOMAIN heard :
         LET a == heard[k].at IN
           /\ Opens(a) /\ a <= block
           /\ op = "other" => Ended(a) /\ FirstCode(heard[k].code, a)

(* "Search for \r\n<Result codes>\r\n": a code that is found, the prompt   *)
(* apart, stands in the block, and a CR after it.                          *)
SaysFramed ==
  stage = "reopen" =>
    \A k \in DOMAIN heard :
      Tables[op][heard[k].code] # <<">", " ">> => Ended(heard[k].at)

(* ... and every code between CR LF and CR LF in the block is found.       *)
SaysFound ==
  stage = "reopen" =>
    \A a \in 0 .. block - 1, n \in DOMAIN Tables[op] :
      LET e == a + Len(Tables[op][n])
      IN Opens(a) /\ FirstCode(n, a) /\ e + 1 < block /\ Opens(e + 2) =>
           \E k \in DOMAIN heard : heard[k].at = a
=============================================================================
