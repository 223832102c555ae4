---------------------------- MODULE MCYieldVault -----------------------------
(* YieldVault on small instances: one owner, one admin, one or two         *)
(* executors and amounts of a few units (see the cfg files).               *)
EXTENDS YieldVault
=============================================================================
