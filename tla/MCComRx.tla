------------------------------ MODULE MCComRx -------------------------------
(* The receiving side for TLC: the line with its numbered bytes, and the   *)
(* parser with the characters of a few answers, each with the other at     *)
(* rest.                                                                   *)
EXTENDS ComRx, Parser

Ok == <<CR, LF, "O", "K", CR, LF>>
MCTables ==
  [o \in Operations |->
     (IF o = "sms" THEN << <<">", " ">>, <<"R", "U">>, <<"R">> >> ELSE <<>>) \o << <<"O", "K">> >>]
MCPieces ==
  {Ok, <<CR, LF, "R", "U", CR, LF>>, <<"R", CR, LF>>, <<CR, LF>>, <<CR>>, <<LF>>,
   <<CR, LF, ">", " ">>, <<"O">>, <<"K">>}
MCMemories == {[a \in Addresses |-> IF a < BufferSize THEN "0" ELSE c] : c \in {"0", LF, "K"}}

ReceiveInit == ComRxInit /\ ParserInit

ReceiveNext ==
  \/ received = 0 /\ ComRxNext /\ UNCHANGED parserVars
  \/ arrived = 0 /\ ParserNext /\ UNCHANGED comRxVars

ReceiveSpec == ReceiveInit /\ [][ReceiveNext]_<<comRxVars, parserVars>> /\ ComRxFairness
=============================================================================
