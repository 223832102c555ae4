------------------------------- MODULE Custody -------------------------------
(***************************************************************************)
(* What a Safe promises about money, with no executors, limits, registry   *)
(* or life cycle: USDC moves only between the owner's wallet and the Safe, *)
(* between the Safe and the invested position, and from an exit to the     *)
(* treasury; the cost basis is exactly what went in and did not come out;  *)
(* and the treasury's part of an exit is bounded by the gain over basis.   *)
(***************************************************************************)
EXTENDS Integers

CONSTANTS Supply, MaxFeeBps, Bps

VARIABLES
  wallet,     \* the owner's USDC
  idle,       \* USDC in the Safe
  invested,   \* value of the position
  basis,      \* what the position cost
  treasury    \* fees taken

vars == <<wallet, idle, invested, basis, treasury>>

Gain(received, returned) == IF received > returned THEN received - returned ELSE 0

Init == wallet = Supply /\ idle = 0 /\ invested = 0 /\ basis = 0 /\ treasury = 0

Transfer ==
  /\ idle' \in Nat /\ wallet' \in Nat
  /\ wallet' + idle' = wallet + idle
  /\ UNCHANGED <<invested, basis, treasury>>

Invest ==
  /\ idle' \in Nat /\ idle' < idle
  /\ invested' = invested + (idle - idle')
  /\ basis' = basis + (idle - idle')
  /\ UNCHANGED <<wallet, treasury>>

Exit ==
  LET received == invested - invested'
      returned == basis - basis'
      fee == treasury' - treasury
  IN  /\ invested' \in Nat /\ received >= 0
      /\ basis' \in Nat /\ returned >= 0
      /\ fee >= 0 /\ fee * Bps <= Gain(received, returned) * MaxFeeBps
      /\ idle' = idle + received - fee
      /\ UNCHANGED wallet

Revalue ==
  /\ invested' \in Nat
  /\ UNCHANGED <<wallet, idle, basis, treasury>>

Next == Transfer \/ Invest \/ Exit \/ Revalue

Spec == Init /\ [][Next]_vars
=============================================================================
