------------------------------ MODULE VaultMath ------------------------------
(***************************************************************************)
(* The pure arithmetic of programs/yield-vault/src/lib.rs: the split of a  *)
(* route exit into returned principal and fee, the owner's allocation      *)
(* target, and the two list validations.                                   *)
(*                                                                         *)
(* Amounts are natural numbers.  The code computes every product in u128   *)
(* from u64 factors and every quotient kept in a u64 is at most one of     *)
(* those factors, so nothing wraps; the one sum that could (the new route  *)
(* principal) is a checked_add.  Of the MAX_ROUTES = 8 entries of          *)
(* route_principal the program writes only the two named here.             *)
(***************************************************************************)
EXTENDS Integers, FiniteSets

BPS_DENOMINATOR == 10000
MAX_PERFORMANCE_FEE_BPS == 2000
MAX_EXECUTORS == 16

ROUTE_KAMINO_USDC == "kamino"
ROUTE_ONYC == "onyc"
Routes == {ROUTE_KAMINO_USDC, ROUTE_ONYC}

SaturatingSub(a, b) == IF a > b THEN a - b ELSE 0

\* Mutant of PrincipalOut: the proportion is taken one share short.
PrincipalOutShort(principal, shares_out, shares_before) ==
  IF shares_before = 0 THEN principal
  ELSE (principal * (shares_out - 1)) \div shares_before

(* realize_exit, first result: the share of the cost basis an exit returns. *)
PrincipalOut(principal, shares_out, shares_before) ==
  IF shares_before = 0 \/ shares_out >= shares_before
  THEN principal
  ELSE (principal * shares_out) \div shares_before

\* Mutant of ExitFee: the fee is taken on what came back, not on the gain.
ExitFeeOnProceeds(received, principal_out, fee_bps) ==
  (received * fee_bps) \div BPS_DENOMINATOR

(* realize_exit, second result: the fee on the gain of that exit. *)
ExitFee(received, principal_out, fee_bps) ==
  (SaturatingSub(received, principal_out) * fee_bps) \div BPS_DENOMINATOR

RouteSum(f) == f[ROUTE_KAMINO_USDC] + f[ROUTE_ONYC]

ValidAllocation(bps) == RouteSum(bps) <= BPS_DENOMINATOR

(* A single deposit may not exceed the target share of the idle USDC. *)
DepositCap(idle, bps) == (idle * bps) \div BPS_DENOMINATOR

\* Mutant of TotalPrincipalAfter: the basis of the other route is not counted.
OwnPrincipalAfter(principal, route, after) == after

TotalPrincipalAfter(principal, route, after) ==
  RouteSum([principal EXCEPT ![route] = after])

(* The cost basis of a route, against the basis of every route plus idle.  *)
PrincipalWithinTarget(principal, bps, route, after, idle_after) ==
  after * BPS_DENOMINATOR
    <= (TotalPrincipalAfter(principal, route, after) + idle_after) * bps[route]

(* The approved keys: none is the default key, none occurs twice (they are *)
(* a set here), and the default executor is one of them or unset.          *)
ValidExecutors(default_executor, approved, NoKey) ==
  /\ Cardinality(approved) <= MAX_EXECUTORS
  /\ NoKey \notin approved
  /\ default_executor = NoKey \/ default_executor \in approved
=============================================================================
