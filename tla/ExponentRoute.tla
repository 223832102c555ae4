---------------------------- MODULE ExponentRoute -----------------------------
(***************************************************************************)
(* The Exponent PT route (programs/yield-vault/src/exponent.rs) beside the *)
(* Safe and the Kamino route of YieldVault, with which it shares the idle  *)
(* USDC, the allocation, route_principal and the executor policy.          *)
(*                                                                         *)
(* Left out: the layout checks of the external accounts, the SY and YT     *)
(* balances (at most MAX_SY_DUST units an action) and the fields of an     *)
(* order that only the caller's own order has to satisfy (deadline,        *)
(* min_intermediate, quoted_output and with it the slippage policy: the    *)
(* quote it is measured against is the caller's).  Where a price or a CPI  *)
(* may fail, the instruction simply does not happen.                       *)
(***************************************************************************)
EXTENDS YieldVault

CONSTANTS
  MATURITY,           \* the clock from which PT is redeemed, not sold
  UNITS_PER_USDC,     \* PT face and ONyc units to one USDC unit (1000)
  Rates,              \* percent of par the markets may pay
  PolicyLosses,       \* max_loss_bps the owner tries
  BuyAmounts,         \* USDC of an exponent_buy_pt
  OnycAmounts,        \* ONyc of a transfer or of exponent_buy_pt_with_onyc
  ExitAmounts,        \* PT of an exit or a recovery, besides all of it
  OnycShares,         \* allocation_bps[ROUTE_ONYC] the owner tries
  OwnerOnyc,          \* ONyc of the owner at the start
  MaxSpent,           \* bound: basis bought over the life of the position
  MaxPt               \* bound: PT others may bring the Safe's balance to

ASSUME ExponentAssumption ==
  /\ MATURITY \in Nat /\ UNITS_PER_USDC \in Nat \ {0}
  /\ Rates \subseteq Nat /\ PolicyLosses \subseteq Nat
  /\ BuyAmounts \subseteq Nat /\ OnycAmounts \subseteq Nat
  /\ ExitAmounts \subseteq Nat
  /\ OnycShares \subseteq Nat
  /\ OwnerOnyc \in Nat /\ MaxSpent \in Nat /\ MaxPt \in Nat

VARIABLES
  position,     \* the ExponentPosition PDA
  pt,           \* PT in the Safe's account
  onyc,         \* ONyc in the Safe's account
  ownerOnyc,    \* ONyc of the owner's own account
  executorExits \* history: basis and USDC of the exits the executor signed

exponentVars == <<position, pt, onyc, ownerOnyc, executorExits>>
allVars == <<vars, exponentVars>>

MAX_LOSS_BPS == 500

NoPosition ==
  [exists |-> FALSE, enabled |-> FALSE, max_loss_bps |-> 0,
   tracked_pt |-> 0, principal_usdc |-> 0, total_spent_usdc |-> 0,
   total_received_usdc |-> 0, realized_basis_usdc |-> 0, recovered_basis_usdc |-> 0]

ExponentInit ==
  /\ Init
  /\ position = NoPosition
  /\ pt = 0 /\ onyc = 0 /\ ownerOnyc = OwnerOnyc
  /\ executorExits = [basis |-> 0, received |-> 0]

-----------------------------------------------------------------------------
(* Owner policy. *)

\* Mutant of ValidatePolicy: any loss up to all of it.
PolicyUnchecked(max_loss_bps) == max_loss_bps <= BPS_DENOMINATOR

ValidatePolicy(max_loss_bps) == max_loss_bps <= MAX_LOSS_BPS

InitExponentPosition(max_loss_bps) ==
  /\ safe.exists /\ ~position.exists
  /\ ValidatePolicy(max_loss_bps)
  /\ position' = [NoPosition EXCEPT !.exists = TRUE, !.enabled = TRUE,
                                    !.max_loss_bps = max_loss_bps]
  /\ UNCHANGED <<vars, pt, onyc, ownerOnyc, executorExits>>

SetExponentPolicy(enabled, max_loss_bps) ==
  /\ safe.exists /\ position.exists
  /\ ValidatePolicy(max_loss_bps)
  /\ position' = [position EXCEPT !.enabled = enabled, !.max_loss_bps = max_loss_bps]
  /\ UNCHANGED <<vars, pt, onyc, ownerOnyc, executorExits>>

-----------------------------------------------------------------------------
(* Helpers of the typed actions. *)

(* basis_for_exit: the last PT takes whatever basis is left.               *)
BasisForExit(principal, tracked, amount) ==
  IF amount = tracked THEN principal ELSE (principal * amount) \div tracked

\* Mutant of CheckLoss: the floor is rounded down to whole units first.
CheckLossRounded(principal, received, max_loss_bps) ==
  received >= (principal * (BPS_DENOMINATOR - max_loss_bps)) \div BPS_DENOMINATOR

CheckLoss(principal, received, max_loss_bps) ==
  received * BPS_DENOMINATOR >= principal * (BPS_DENOMINATOR - max_loss_bps)

\* Mutant of ExponentAction: the policy account is asked of the executor only.
ExponentActionUnlimited ==
  safe.exists /\ registry.exists /\ position.exists /\ config.exists

(* ExponentAction names the policy account for the owner's actions too.    *)
ExponentAction ==
  safe.exists /\ registry.exists /\ limits.exists /\ position.exists /\ config.exists

(* "Unexpected ONyc/Exponent state or position basis" (InvalidState).      *)
RouteInStep == safe.route_principal[ROUTE_ONYC] = position.principal_usdc

ExecutorOf(signer) == signer # Owner

(* What the markets pay for USDC, and for PT: external.  ONyc is at par;   *)
(* its value in USDC, from the oracle, is rounded up against the owner.    *)
PtBought(usdc) == {(usdc * UNITS_PER_USDC * r) \div 100 : r \in Rates} \ {0}
PtSold(amount) == {((amount * r) \div 100) \div UNITS_PER_USDC : r \in Rates} \ {0}
OnycForPt(amount) == amount
OnycValue(amount) == (amount + UNITS_PER_USDC - 1) \div UNITS_PER_USDC

OnycTarget(principal, idle_after) ==
  PrincipalWithinTarget(safe.route_principal, safe.allocation_bps,
                        ROUTE_ONYC, principal, idle_after)

-----------------------------------------------------------------------------
(* exponent_buy_pt and exponent_buy_pt_with_onyc. *)

BuyPt(signer, spent, idle_after) ==
  LET principal == position.principal_usdc + spent
  IN  /\ ExponentAction
      /\ RequireOwnerOrAgent(signer)
      /\ ExecutorOf(signer) => position.enabled
      /\ now < MATURITY
      /\ safe.allocation_bps[ROUTE_ONYC] > 0
      /\ RouteInStep
      /\ position.total_spent_usdc + spent <= MaxSpent
      /\ \E acquired \in PtBought(spent) :
           /\ ExecutorOf(signer) =>
                CheckLoss(spent, acquired \div UNITS_PER_USDC, position.max_loss_bps)
           /\ pt' = pt + acquired
           /\ position' = [position EXCEPT !.principal_usdc = principal,
                                           !.tracked_pt = @ + acquired,
                                           !.total_spent_usdc = @ + spent]
      /\ ExecutorOf(signer) => OnycTarget(principal, idle_after)
      /\ ChargeExecutorVolume(signer, spent,
           TotalPrincipalAfter(safe.route_principal, ROUTE_ONYC, principal))
      /\ safe' = [safe EXCEPT !.route_principal[ROUTE_ONYC] = principal]
      /\ UNCHANGED <<config, registry, wallet, shares, nav, treasury, losses,
                     now, granted, ownerOnyc, executorExits>>

ExponentBuyPt(signer, amount) ==
  /\ amount > 0 /\ amount <= idle
  /\ BuyPt(signer, amount, idle - amount)
  /\ idle' = idle - amount
  /\ UNCHANGED onyc

ExponentBuyPtWithOnyc(amount) ==
  /\ amount > 0 /\ amount <= onyc
  /\ BuyPt(Owner, OnycValue(amount), idle)
  /\ onyc' = onyc - amount
  /\ UNCHANGED idle

-----------------------------------------------------------------------------
(* exponent_sell_pt before maturity and exponent_redeem_pt after it, for   *)
(* USDC or (the owner only) for ONyc.  The two differ in the program they  *)
(* call and in nothing this module sees, so the lifecycle check picks one. *)

\* Mutant of ExitCharge: only what came back is charged.
ExitChargeReceived(received, basis) == received

(* An exit at a loss moves the basis out of the position all the same.     *)
ExitCharge(received, basis) == IF received > basis THEN received ELSE basis

\* Mutant of ExitBooks: the proceeds are booked as the basis realised.
ExitBooksProceeds(amount, basis, received) ==
  [position EXCEPT !.principal_usdc = @ - basis, !.tracked_pt = @ - amount,
                   !.realized_basis_usdc = @ + received,
                   !.total_received_usdc = @ + received]

ExitBooks(amount, basis, received) ==
  [position EXCEPT !.principal_usdc = @ - basis, !.tracked_pt = @ - amount,
                   !.realized_basis_usdc = @ + basis,
                   !.total_received_usdc = @ + received]

ExitPt(signer, amount, received) ==
  LET basis == BasisForExit(position.principal_usdc, position.tracked_pt, amount)
  IN  /\ ExponentAction
      /\ RequireOwnerOrAgent(signer)
      /\ ExecutorOf(signer) => position.enabled
      /\ amount > 0 /\ amount <= position.tracked_pt
      /\ position.tracked_pt <= pt
      /\ ExecutorOf(signer) => CheckLoss(basis, received, position.max_loss_bps)
      /\ ChargeExecutorVolume(signer, ExitCharge(received, basis), NoPrincipal)
      /\ RouteInStep
      /\ position' = ExitBooks(amount, basis, received)
      /\ pt' = pt - amount
      /\ safe' = [safe EXCEPT !.route_principal[ROUTE_ONYC] = position.principal_usdc - basis]
      /\ executorExits' = IF ExecutorOf(signer)
                          THEN [basis |-> executorExits.basis + basis,
                                received |-> executorExits.received + received]
                          ELSE executorExits
      /\ UNCHANGED <<config, registry, idle, shares, nav, treasury, losses, now, granted, onyc>>

ExponentExitPt(signer, amount) ==
  \E received \in PtSold(amount) :
    /\ ExitPt(signer, amount, received)
    /\ wallet' = wallet + received
    /\ UNCHANGED ownerOnyc

ExponentExitPtForOnyc(amount) ==
  /\ ExitPt(Owner, amount, 0)
  /\ ownerOnyc' = ownerOnyc + OnycForPt(amount)
  /\ UNCHANGED wallet

-----------------------------------------------------------------------------
(* transfer_onyc and recover: in kind, the owner only. *)

DepositOnyc(amount) ==
  /\ safe.exists /\ amount > 0 /\ amount <= ownerOnyc
  /\ onyc' = onyc + amount /\ ownerOnyc' = ownerOnyc - amount
  /\ UNCHANGED <<vars, position, pt, executorExits>>

WithdrawOnyc(amount) ==
  /\ safe.exists /\ amount > 0 /\ amount <= onyc
  /\ onyc' = onyc - amount /\ ownerOnyc' = ownerOnyc + amount
  /\ UNCHANGED <<vars, position, pt, executorExits>>

\* Mutant of RecoverPt: the route of the Safe is not written.
RecoverPtOnly(amount) ==
  LET tracked_out == IF amount < position.tracked_pt THEN amount ELSE position.tracked_pt
      basis == BasisForExit(position.principal_usdc, position.tracked_pt, tracked_out)
  IN  /\ position' = [position EXCEPT !.tracked_pt = @ - tracked_out,
                                      !.principal_usdc = @ - basis,
                                      !.recovered_basis_usdc = @ + basis,
                                      !.enabled = FALSE]
      /\ UNCHANGED safe

\* Mutant of RecoverPt: the PT leave and the books stay.
RecoverPtUntracked(amount) ==
  position' = [position EXCEPT !.enabled = FALSE] /\ UNCHANGED safe

(* The tracked PT leave first, and take their share of the basis along.    *)
RecoverPt(amount) ==
  LET tracked_out == IF amount < position.tracked_pt THEN amount ELSE position.tracked_pt
      basis == BasisForExit(position.principal_usdc, position.tracked_pt, tracked_out)
  IN  /\ position' = [position EXCEPT !.tracked_pt = @ - tracked_out,
                                      !.principal_usdc = @ - basis,
                                      !.recovered_basis_usdc = @ + basis,
                                      !.enabled = FALSE]
      /\ safe' = [safe EXCEPT !.route_principal[ROUTE_ONYC] = position.principal_usdc - basis]

RecoverExponentPt(amount) ==
  /\ safe.exists /\ position.exists
  /\ amount > 0 /\ amount <= pt
  /\ IF position.tracked_pt > 0
     THEN RecoverPt(amount)
     ELSE position' = [position EXCEPT !.enabled = FALSE] /\ UNCHANGED safe
  /\ pt' = pt - amount
  /\ UNCHANGED <<config, registry, limits, moneyVars, now, granted, onyc, ownerOnyc,
                 executorExits>>

RecoverExponentOnyc(amount) ==
  /\ safe.exists /\ position.exists
  /\ amount > 0 /\ amount <= onyc
  /\ position' = [position EXCEPT !.enabled = FALSE]
  /\ onyc' = onyc - amount /\ ownerOnyc' = ownerOnyc + amount
  /\ UNCHANGED <<vars, pt, executorExits>>

(* Anyone may send PT to the Safe's account: external.                     *)
ReceivePt ==
  /\ pt < MaxPt
  /\ pt' = pt + 1
  /\ UNCHANGED <<vars, position, onyc, ownerOnyc, executorExits>>

-----------------------------------------------------------------------------
Split(kamino_bps, onyc_bps) ==
  [r \in Routes |-> IF r = ROUTE_KAMINO_USDC THEN kamino_bps ELSE onyc_bps]

(* The steps of YieldVault.  A client that empties the Safe before it      *)
(* closes it leaves no PT and no ONyc behind either.                       *)
SafeStep ==
  /\ Next
  /\ ClientEmptiesFirst /\ safe.exists /\ ~safe'.exists => pt = 0 /\ onyc = 0
  /\ UNCHANGED exponentVars

OwnerExponentPolicy ==
  \/ \E k \in Allocations, o \in OnycShares :
       SetAllocation(Split(k, o)) /\ UNCHANGED exponentVars
  \/ \E loss \in PolicyLosses : InitExponentPosition(loss)
  \/ \E loss \in PolicyLosses, enabled \in BOOLEAN : SetExponentPolicy(enabled, loss)

Parts(whole) == {amount \in 1 .. whole : amount \in ExitAmounts \/ amount = whole}

OwnerInKind ==
  \/ \E amount \in OnycAmounts :
       \/ DepositOnyc(amount) \/ WithdrawOnyc(amount)
       \/ RecoverExponentOnyc(amount) \/ ExponentBuyPtWithOnyc(amount)
  \/ \E amount \in Parts(pt) : RecoverExponentPt(amount) \/ ExponentExitPtForOnyc(amount)

ExponentTrade(signer) ==
  \/ \E amount \in BuyAmounts : ExponentBuyPt(signer, amount)
  \/ \E amount \in Parts(position.tracked_pt) : ExponentExitPt(signer, amount)

ExecutorTrade == \E e \in Executors : ExponentTrade(e)

ExponentNext ==
  \/ SafeStep
  \/ OwnerExponentPolicy \/ OwnerInKind
  \/ ExponentTrade(Owner) \/ ExecutorTrade
  \/ ReceivePt

ExponentSpec == ExponentInit /\ [][ExponentNext]_allVars

-----------------------------------------------------------------------------
(* Types of the position and of the token balances of the route.           *)
ExponentTypeOK ==
  /\ position \in
       [exists : BOOLEAN, enabled : BOOLEAN, max_loss_bps : 0 .. MAX_LOSS_BPS,
        tracked_pt : Nat, principal_usdc : Nat, total_spent_usdc : Nat,
        total_received_usdc : Nat, realized_basis_usdc : Nat, recovered_basis_usdc : Nat]
  /\ pt \in Nat /\ onyc \in Nat /\ ownerOnyc \in Nat
  /\ executorExits \in [basis : Nat, received : Nat]

(* The books of the position balance: what was ever spent is still in the  *)
(* position, was realised by an exit or left in kind, to the last unit of  *)
(* every rounded proportion and across closing and re-creating the Safe.   *)
BasisConserved ==
  position.total_spent_usdc =
    position.principal_usdc + position.realized_basis_usdc + position.recovered_basis_usdc

(* exit() asks for safe_pt >= tracked_pt: no order of buys, exits, in-kind *)
(* recoveries and PT that others send lets the tracked amount outgrow what *)
(* the Safe holds, which would bar every exit; and tracked PT and basis    *)
(* end together.                                                           *)
TrackedIsHeld ==
  /\ position.tracked_pt <= pt
  /\ position.tracked_pt = 0 => position.principal_usdc = 0

(* "Re-initializing restores control of every remaining token account and  *)
(* position" (README): the Safe's route_principal is the position's, so    *)
(* buy and exit never answer InvalidState.                                 *)
RouteFollowsPosition == safe.exists /\ position.exists => RouteInStep

(* Every buy is made with all accounts of ExponentAction; while PT are     *)
(* tracked none of them can go away, the policy included, so the position  *)
(* can be sold or redeemed.                                                *)
PositionHasItsAccounts ==
  position.tracked_pt > 0 =>
    /\ safe.exists /\ limits.exists /\ position.exists
    /\ registry.exists /\ config.exists

(* "Each Exponent position stores a maximum loss ...; exits that breach    *)
(* them fail" (README): over all its exits together, at whatever policies  *)
(* the owner set in between, the executor has not lost more than the hard  *)
(* bound of 5% of the basis it realised.                                   *)
ExecutorLossCapped ==
  executorExits.received * BPS_DENOMINATOR
    >= executorExits.basis * (BPS_DENOMINATOR - MAX_LOSS_BPS)

(* What a trade moved: the USDC that left the Safe or reached the owner,   *)
(* or the basis that left the position if that is more.                    *)
TradeMoved ==
  LET usdc == IF pt' > pt THEN idle - idle' ELSE wallet' - wallet
      basis == IF pt' > pt THEN usdc ELSE position.principal_usdc - position'.principal_usdc
  IN  IF usdc > basis THEN usdc ELSE basis

(* One ledger for both routes: an executor's Exponent action charges what  *)
(* it moved within the same limits as its Kamino actions, and a buy counts *)
(* the principal of both routes.                                           *)
ExponentWithinLimits ==
  [][pt' # pt /\ ExecutorTrade =>
       LET spent == PreviousVolume(limits', HourOf(now))
       IN  /\ TradeMoved <= limits.max_action_usdc
           /\ spent = PreviousVolume(limits, HourOf(now)) + TradeMoved
           /\ spent <= limits.max_24h_volume_usdc
           /\ pt' > pt => RouteSum(safe'.route_principal) <= limits.max_principal_usdc]_allVars
=============================================================================
