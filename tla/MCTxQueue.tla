------------------------------ MODULE MCTxQueue ------------------------------
(* Instances of TxQueue for TLC.                                           *)
EXTENDS TxQueueProps

MCUpdate == {-1, 2}
MCMaxLen == [q \in {7, 8} |-> IF q = 7 THEN 2 ELSE 1]
=============================================================================
