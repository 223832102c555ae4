----------------------------- MODULE MCLendJobs ------------------------------
(* Small instances of LendJobs: what the routes are asked for.             *)
EXTENDS LendJobs

Ask(kind, amount, position, max) ==
  [kind |-> kind, amount |-> amount, position |-> position, max |-> max]

LendingRequests ==
  {Ask("deposit", 4, NoPosition, FALSE), Ask("borrow", 4, NoPosition, FALSE),
   Ask("repay", 0, NoPosition, TRUE), Ask("withdraw", 0, 1, FALSE),
   Ask("repay", 2, 1, FALSE), Ask("kvault_deposit", 3, NoPosition, FALSE),
   Ask("kvault_withdraw", 3, NoPosition, FALSE)}
=============================================================================
