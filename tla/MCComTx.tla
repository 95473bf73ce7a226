------------------------------- MODULE MCComTx ------------------------------
(* A small instance of the transmitting side for TLC: commands of one part *)
(* and of the four parts that a deletion takes.                            *)
EXTENDS ComTx

OneAndFour == {<<1>>, <<1, 2, 3, 4>>}
NoCommands == {}
=============================================================================
