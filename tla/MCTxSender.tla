------------------------------ MODULE MCTxSender ------------------------------
(* TxSender with the code's three attempts and a blockhash good for a few  *)
(* blocks (see the cfg files).                                             *)
EXTENDS TxSender
=============================================================================
