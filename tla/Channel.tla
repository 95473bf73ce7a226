------------------------------ MODULE Channel -------------------------------
(***************************************************************************)
(* What either direction of the serial line promises its users: bytes come *)
(* out in the order in which they went in, each at most once, and, while   *)
(* no bytes may be lost, each of them.                                     *)
(***************************************************************************)
EXTENDS Naturals, Sequences, SequencesExt

VARIABLES
  mayLose,     \* bytes may be lost now
  inTransit,   \* the bytes that went in and have not come out
  delivered    \* the bytes that came out, in order

channelVars == <<inTransit, delivered>>

ChannelInit == inTransit = <<>> /\ delivered = <<>>

(* Bytes are put in at one end ... *)
PutIn ==
  /\ IsPrefix(inTransit, inTransit')
  /\ UNCHANGED delivered

(* ... and come out at the other, one or several at a time. *)
ComeOut ==
  \E n \in DOMAIN inTransit :
    /\ delivered' = delivered \o SubSeq(inTransit, 1, n)
    /\ inTransit' = SubSeq(inTransit, n + 1, Len(inTransit))

(* Some bytes that follow one another vanish on the way. *)
Lost ==
  /\ mayLose
  /\ \E m, n \in 0 .. Len(inTransit) :
       /\ m <= n
       /\ inTransit' = SubSeq(inTransit, 1, m) \o SubSeq(inTransit, n + 1, Len(inTransit))
  /\ UNCHANGED delivered

ChannelSpec == ChannelInit /\ [][PutIn \/ ComeOut \/ Lost]_channelVars
=============================================================================
