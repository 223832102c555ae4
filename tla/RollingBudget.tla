---------------------------- MODULE RollingBudget ----------------------------
(***************************************************************************)
(* What the executor ledger promises: an executor moves USDC only inside a *)
(* budget over the exact last Window clock ticks, whatever the owner does  *)
(* to the limits in between.  There are no buckets here: the spending of   *)
(* every tick is remembered.                                               *)
(***************************************************************************)
EXTENDS Integers, FiniteSetsExt

CONSTANTS
  Times,      \* the clock values
  Window,     \* ticks of the rolling window (24 hours)
  Amounts     \* what one action may move

VARIABLES
  now,        \* the clock
  spent,      \* spent[t]: USDC the executor moved at tick t
  cap         \* the rolling limit in force, 0 while the executor is paused

vars == <<now, spent, cap>>

SpentIn(ticks) == MapThenSumSet(LAMBDA t : spent[t], ticks)

LastWindow == {t \in Times : t > now - Window /\ t <= now}

Init ==
  /\ now \in Times
  /\ spent = [t \in Times |-> 0]
  /\ cap = 0

Tick == /\ now' \in {t \in Times : t > now}
        /\ UNCHANGED <<spent, cap>>

SetCap == /\ cap' \in Nat
          /\ UNCHANGED <<now, spent>>

Spend(amount) ==
  /\ SpentIn(LastWindow) + amount <= cap
  /\ spent' = [spent EXCEPT ![now] = @ + amount]
  /\ UNCHANGED <<now, cap>>

Next == Tick \/ SetCap \/ \E amount \in Amounts : Spend(amount)

Spec == Init /\ [][Next]_vars
=============================================================================
