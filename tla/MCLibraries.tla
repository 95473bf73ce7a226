----------------------------- MODULE MCLibraries ----------------------------
(* The two parts without a process of their own, the ring buffer and the   *)
(* reading of texts, side by side for TLC: every text is typed with the    *)
(* buffer at rest, and the buffer is called before a text is typed.        *)
EXTENDS Fifo, Input

LibrariesInit == FifoInit /\ InputInit

LibrariesNext ==
  \/ call = <<>> /\ InputNext /\ UNCHANGED fifoVars
  \/ text = <<>> /\ FifoNext /\ UNCHANGED text

LibrariesSpec == LibrariesInit /\ [][LibrariesNext]_<<fifoVars, text>>
=============================================================================
