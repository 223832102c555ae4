-------------------------- MODULE MCExecutorLedger ---------------------------
(* A ring of 3 buckets (two hours and the current one, for the 25 of the   *)
(* code) with two ticks to the hour, and enough hours to go round it.      *)
EXTENDS ExecutorLedger
=============================================================================
