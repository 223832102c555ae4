----------------------------- MODULE YieldVault ------------------------------
(***************************************************************************)
(* The on-chain program programs/yield-vault/src/lib.rs for one owner: the *)
(* protocol config and executor registry, the life of the owner's Safe and *)
(* its executor policy, USDC in and out of the Safe, and the Kamino route. *)
(*                                                                         *)
(* A transaction is atomic: a failed require! or a failed CPI leaves the   *)
(* state as it was, so an instruction is an action whose guard is every    *)
(* check it makes, those after the CPI included.  The Exponent route and   *)
(* the owner's generic CPI gateway are not in this module.                 *)
(***************************************************************************)
EXTENDS VaultMath, ExecutorPolicy

CONSTANTS
  Owner,            \* the wallet the Safe PDA is derived from
  Executors,        \* keys an admin may approve
  Admins,           \* keys that may hold the protocol config
  NoKey,            \* Pubkey::default()
  Supply,           \* USDC in the owner's wallet at the start
  MaxTotal,         \* bound: USDC in the system, kVault yield included
  MaxLosses,        \* bound: kVault losses stop once this much is realised
  MaxShares,        \* bound: kVault shares the Safe may come to hold
  LastTime,         \* bound: the clock stops here
  FirstTime,        \* the clock at the start
  DepositAmounts, WithdrawAmounts,      \* amounts the owner transfers
  KaminoAmounts,    \* amounts of a kamino_deposit
  Gains, Losses,    \* what the kVault position may gain or lose at once
  FeeRates,         \* performance_fee_bps the admin tries
  Allocations,      \* allocation_bps[ROUTE_KAMINO_USDC] the owner tries
  LimitValues,      \* executor limits the owner picks from
  ClientEmptiesFirst,   \* the client empties the Safe before close_safe
  ClientClosesPolicy    \* the client passes the policy PDA to close_safe

Keys == {Owner} \cup Executors \cup Admins

ASSUME VaultAssumption ==
  /\ Owner \notin Executors /\ NoKey \notin Keys
  /\ Cardinality(Executors) <= MAX_EXECUTORS
  /\ Supply \in Nat /\ MaxTotal \in Nat /\ MaxLosses \in Nat /\ MaxShares \in Nat
  /\ FirstTime \in Nat /\ LastTime \in Nat /\ FirstTime <= LastTime
  /\ DepositAmounts \subseteq Nat /\ WithdrawAmounts \subseteq Nat
  /\ KaminoAmounts \subseteq Nat
  /\ Gains \subseteq Nat /\ Losses \subseteq Nat
  /\ FeeRates \subseteq Nat /\ Allocations \subseteq Nat
  /\ LimitValues \subseteq Nat
  /\ ClientEmptiesFirst \in BOOLEAN /\ ClientClosesPolicy \in BOOLEAN

VARIABLES
  config,       \* the Config PDA
  registry,     \* the ExecutorRegistry PDA
  safe,         \* the Vault PDA
  limits,       \* the ExecutorLimits PDA of the Safe
  wallet,       \* USDC of the owner's own account
  idle,         \* USDC of the Safe's token account
  shares,       \* kVault shares in the Safe's shares account
  nav,          \* what the kVault would pay for those shares
  treasury,     \* USDC of the treasury's account
  now,          \* the clock
  granted,      \* history: the owner created or set a policy for this Safe
  losses        \* history: basis that exits returned short

protocolVars == <<config, registry>>
moneyVars == <<wallet, idle, shares, nav, treasury, losses>>
vars == <<config, registry, safe, limits, moneyVars, now, granted>>

NoConfig == [exists |-> FALSE, admin |-> NoKey, performance_fee_bps |-> 0]
NoRegistry == [exists |-> FALSE, default_executor |-> NoKey, approved |-> {}]
NoSafe == [exists |-> FALSE, agent |-> NoKey,
           allocation_bps |-> [r \in Routes |-> 0],
           route_principal |-> [r \in Routes |-> 0]]

Init ==
  /\ config = NoConfig /\ registry = NoRegistry
  /\ safe = NoSafe /\ limits = NoLimits /\ granted = FALSE
  /\ wallet = Supply /\ idle = 0 /\ shares = 0 /\ nav = 0 /\ treasury = 0
  /\ losses = 0 /\ now = FirstTime

-----------------------------------------------------------------------------
(* Protocol administration. *)

\* Mutant of FeeAllowed: the cap is forgotten when the config changes.
FeeUnchecked(fee_bps) == fee_bps <= BPS_DENOMINATOR

FeeAllowed(fee_bps) == fee_bps <= MAX_PERFORMANCE_FEE_BPS

(* Signed by the program's upgrade authority, who becomes the admin.  The  *)
(* treasury key is left out: it only names the account fees are paid into. *)
InitConfig(admin, fee_bps) ==
  /\ ~config.exists
  /\ FeeAllowed(fee_bps)
  /\ config' = [exists |-> TRUE, admin |-> admin, performance_fee_bps |-> fee_bps]
  /\ UNCHANGED <<registry, safe, limits, moneyVars, now, granted>>

SetConfig(signer, admin, fee_bps) ==
  /\ config.exists /\ signer = config.admin
  /\ FeeAllowed(fee_bps)
  /\ config' = [config EXCEPT !.admin = admin, !.performance_fee_bps = fee_bps]
  /\ UNCHANGED <<registry, safe, limits, moneyVars, now, granted>>

RegistryOf(default_executor, approved) ==
  [exists |-> TRUE, default_executor |-> default_executor, approved |-> approved]

\* Mutant of InitExecutorRegistry: no config is asked for.
InitRegistryUnconfigured(signer, default_executor, approved) ==
  /\ ~registry.exists
  /\ ValidExecutors(default_executor, approved, NoKey)
  /\ registry' = RegistryOf(default_executor, approved)
  /\ UNCHANGED <<config, safe, limits, moneyVars, now, granted>>

InitExecutorRegistry(signer, default_executor, approved) ==
  /\ config.exists /\ signer = config.admin
  /\ ~registry.exists
  /\ ValidExecutors(default_executor, approved, NoKey)
  /\ registry' = RegistryOf(default_executor, approved)
  /\ UNCHANGED <<config, safe, limits, moneyVars, now, granted>>

SetExecutorRegistry(signer, default_executor, approved) ==
  /\ config.exists /\ signer = config.admin
  /\ registry.exists
  /\ ValidExecutors(default_executor, approved, NoKey)
  /\ registry' = RegistryOf(default_executor, approved)
  /\ UNCHANGED <<config, safe, limits, moneyVars, now, granted>>

-----------------------------------------------------------------------------
(* The life of the Safe. *)

KaminoShare(bps) == [r \in Routes |-> IF r = ROUTE_KAMINO_USDC THEN bps ELSE 0]

(* initialize_vault_state; the account is new, so every principal is 0.    *)
FreshSafe(agent, allocation_bps) ==
  [exists |-> TRUE, agent |-> agent, allocation_bps |-> allocation_bps,
   route_principal |-> [r \in Routes |-> 0]]

InitializeVaultState(agent, allocation_bps) ==
  /\ ~safe.exists
  /\ registry.exists
  /\ ValidAllocation(allocation_bps)
  /\ agent # NoKey /\ agent \in registry.approved
  /\ safe' = FreshSafe(agent, allocation_bps)

(* The original ABI: the policy account is not among the accounts.         *)
Initialize(agent, allocation_bps) ==
  /\ InitializeVaultState(agent, allocation_bps)
  /\ granted' = FALSE
  /\ UNCHANGED <<config, registry, limits, moneyVars, now>>

(* init_if_needed: a policy that already exists is overwritten.            *)
InitializeWithLimits(agent, allocation_bps) ==
  /\ InitializeVaultState(agent, allocation_bps)
  /\ limits' = DefaultLimits
  /\ granted' = TRUE
  /\ UNCHANGED <<config, registry, moneyVars, now>>

(* Any payer, no signature of the owner. *)
CreateSafeFor ==
  /\ ~safe.exists
  /\ safe' = FreshSafe(NoKey, KaminoShare(0))
  /\ granted' = FALSE
  /\ UNCHANGED <<config, registry, limits, moneyVars, now>>

\* Mutant of CloseSafe: the appended policy account is checked but not closed.
CloseSafeKeepingPolicy(closes_policy) ==
  /\ safe.exists
  /\ closes_policy => limits.exists
  /\ ClientEmptiesFirst => idle = 0 /\ shares = 0
  /\ ClientClosesPolicy => (closes_policy <=> limits.exists)
  /\ safe' = NoSafe
  /\ granted' = FALSE
  /\ UNCHANGED <<config, registry, limits, moneyVars, now>>

(* The program never looks at what the Safe holds.  Legacy clients leave   *)
(* the policy account behind; current ones append it and it is closed too. *)
CloseSafe(closes_policy) ==
  /\ safe.exists
  /\ closes_policy => limits.exists
  /\ ClientEmptiesFirst => idle = 0 /\ shares = 0
  /\ ClientClosesPolicy => (closes_policy <=> limits.exists)
  /\ safe' = NoSafe
  /\ limits' = IF closes_policy THEN NoLimits ELSE limits
  /\ granted' = FALSE
  /\ UNCHANGED <<config, registry, moneyVars, now>>

SetAllocation(allocation_bps) ==
  /\ safe.exists
  /\ ValidAllocation(allocation_bps)
  /\ safe' = [safe EXCEPT !.allocation_bps = allocation_bps]
  /\ UNCHANGED <<config, registry, limits, moneyVars, now, granted>>

SetAgent(agent) ==
  /\ safe.exists /\ registry.exists
  /\ agent # NoKey => agent \in registry.approved
  /\ safe' = [safe EXCEPT !.agent = agent]
  /\ UNCHANGED <<config, registry, limits, moneyVars, now, granted>>

SetExecutorLimits(max_action, max_24h, max_principal, enabled) ==
  /\ safe.exists
  /\ LimitsAccepted(max_action, max_24h, max_principal, enabled)
  /\ limits' = WithLimits(limits, max_action, max_24h, max_principal, enabled)
  /\ granted' = TRUE
  /\ UNCHANGED <<config, registry, safe, moneyVars, now>>

-----------------------------------------------------------------------------
(* The owner's own money. *)

Deposit(amount) ==
  /\ safe.exists
  /\ amount <= wallet
  /\ wallet' = wallet - amount /\ idle' = idle + amount
  /\ UNCHANGED <<config, registry, safe, limits, shares, nav, treasury, losses, now, granted>>

Withdraw(amount) ==
  /\ safe.exists
  /\ amount > 0 /\ amount <= idle
  /\ idle' = idle - amount /\ wallet' = wallet + amount
  /\ UNCHANGED <<config, registry, safe, limits, shares, nav, treasury, losses, now, granted>>

-----------------------------------------------------------------------------
(* The Kamino route.  The kVault is external: it takes what it was asked   *)
(* to or one unit less and prices shares by what the position is worth.    *)

KvaultTaken(amount) == {taken \in {amount, amount - 1} : taken > 0}
KvaultMinted(taken) ==
  IF shares = 0 \/ nav = 0 \/ (taken * shares) \div nav = 0
  THEN taken ELSE (taken * shares) \div nav
KvaultPaid(burned) == (nav * burned) \div shares

\* Mutant of RequireOwnerOrAgent: the agent of the Safe is believed without
\* asking the registry again.
OwnerOrAgentUnlisted(signer) ==
  \/ signer = Owner
  \/ safe.agent # NoKey /\ signer = safe.agent

RequireOwnerOrAgent(signer) ==
  \/ signer = Owner
  \/ /\ safe.agent # NoKey /\ signer = safe.agent
     /\ signer \in registry.approved

(* executor_policy_from_tail: the PDA exists, is this Safe's and is on.    *)
ExecutorPolicyFromTail == limits.exists /\ limits.enabled

(* charge_executor_volume and save_executor_policy: the owner is free.     *)
ChargeExecutorVolume(signer, moved_usdc, principal_after_deposit) ==
  IF signer = Owner
  THEN limits' = limits
  ELSE /\ ExecutorPolicyFromTail
       /\ ChargeAccepted(limits, moved_usdc, principal_after_deposit, now)
       /\ limits' = Charged(limits, moved_usdc, now)

\* Mutant of RespectsTarget: only the single-deposit cap is kept.
TargetUnchecked(signer, principal_after, idle_after) == TRUE

RespectsTarget(signer, principal_after, idle_after) ==
  signer # Owner =>
    PrincipalWithinTarget(safe.route_principal, safe.allocation_bps,
                          ROUTE_KAMINO_USDC, principal_after, idle_after)

\* Mutant of CostBasis: the amount asked for, not the amount taken.
CostBasisRequested(requested, deposited) == requested

(* "Cost basis = what actually left the Safe, not the requested amount."   *)
CostBasis(requested, deposited) == deposited

KaminoDeposit(signer, amount) ==
  /\ safe.exists /\ registry.exists
  /\ amount > 0
  /\ RequireOwnerOrAgent(signer)
  /\ safe.allocation_bps[ROUTE_KAMINO_USDC] > 0
  /\ amount <= DepositCap(idle, safe.allocation_bps[ROUTE_KAMINO_USDC])
  /\ \E deposited \in KvaultTaken(amount) :
       LET principal_after == safe.route_principal[ROUTE_KAMINO_USDC]
                                + CostBasis(amount, deposited)
       IN  /\ idle' = idle - deposited
           /\ shares' = shares + KvaultMinted(deposited) /\ shares' <= MaxShares
           /\ nav' = nav + deposited
           /\ RespectsTarget(signer, principal_after, idle - deposited)
           /\ ChargeExecutorVolume(signer, deposited,
                TotalPrincipalAfter(safe.route_principal, ROUTE_KAMINO_USDC, principal_after))
           /\ safe' = [safe EXCEPT !.route_principal[ROUTE_KAMINO_USDC] = principal_after]
  /\ UNCHANGED <<config, registry, wallet, treasury, losses, now, granted>>

REDEEM_ALL == -1   \* u64::MAX shares: the kVault burns what it can pay for

(* What an exit does to the money and to the cost basis.                   *)
RealizeExit(burned, received) ==
  LET principal == safe.route_principal[ROUTE_KAMINO_USDC]
      principal_out == PrincipalOut(principal, burned, shares)
      fee == ExitFee(received, principal_out, config.performance_fee_bps)
  IN  /\ shares' = shares - burned
      /\ nav' = nav - received
      /\ idle' = idle + received - fee
      /\ treasury' = treasury + fee
      /\ losses' = losses + SaturatingSub(principal_out, received)
      /\ safe' = [safe EXCEPT !.route_principal[ROUTE_KAMINO_USDC] =
                                 SaturatingSub(principal, principal_out)]

KaminoWithdraw(signer, requested) ==
  /\ safe.exists /\ registry.exists /\ config.exists
  /\ RequireOwnerOrAgent(signer)
  /\ requested = REDEEM_ALL \/ (requested > 0 /\ requested <= shares)
  /\ \E burned \in 1 .. shares :
       /\ requested = REDEEM_ALL \/ burned = requested
       /\ ChargeExecutorVolume(signer, KvaultPaid(burned), NoPrincipal)
       /\ RealizeExit(burned, KvaultPaid(burned))
  /\ UNCHANGED <<config, registry, wallet, now, granted>>

-----------------------------------------------------------------------------
(* The kVault earns or loses, and time passes. *)

Accrue(gain) ==
  /\ shares > 0
  /\ wallet + idle + nav + treasury + gain <= MaxTotal
  /\ nav' = nav + gain
  /\ UNCHANGED <<config, registry, safe, limits, wallet, idle, shares, treasury, losses, now, granted>>

LoseValue(loss) ==
  /\ loss <= nav /\ losses < MaxLosses
  /\ nav' = nav - loss
  /\ UNCHANGED <<config, registry, safe, limits, wallet, idle, shares, treasury, losses, now, granted>>

Tick ==
  /\ now < LastTime
  /\ now' = now + 1
  /\ UNCHANGED <<config, registry, safe, limits, moneyVars, granted>>

-----------------------------------------------------------------------------
AdminStep ==
  \/ \E a \in Admins, fee \in FeeRates : InitConfig(a, fee)
  \/ \E s, a \in Admins, fee \in FeeRates : SetConfig(s, a, fee)
  \/ \E s \in Admins, approved \in SUBSET Executors :
       \E d \in approved \cup {NoKey} :
         InitExecutorRegistry(s, d, approved) \/ SetExecutorRegistry(s, d, approved)

OwnerPolicyStep ==
  \/ \E a \in Executors, bps \in Allocations :
       Initialize(a, KaminoShare(bps)) \/ InitializeWithLimits(a, KaminoShare(bps))
  \/ \E c \in BOOLEAN : CloseSafe(c)
  \/ \E bps \in Allocations : SetAllocation(KaminoShare(bps))
  \/ \E a \in Executors \cup {NoKey} : SetAgent(a)
  \/ \E a, v, p \in LimitValues, enabled \in BOOLEAN :
       SetExecutorLimits(a, v, p, enabled)

KaminoStep(signer) ==
  \/ \E amount \in KaminoAmounts : KaminoDeposit(signer, amount)
  \/ \E requested \in 1 .. shares \cup {REDEEM_ALL} : KaminoWithdraw(signer, requested)

OwnerMoneyStep ==
  \/ \E amount \in DepositAmounts : Deposit(amount)
  \/ \E amount \in WithdrawAmounts : Withdraw(amount)
  \/ KaminoStep(Owner)

ExecutorStep == \E e \in Executors : KaminoStep(e)

Environment ==
  \/ CreateSafeFor
  \/ \E gain \in Gains : Accrue(gain)
  \/ \E loss \in Losses : LoseValue(loss)
  \/ Tick

Next == AdminStep \/ OwnerPolicyStep \/ OwnerMoneyStep \/ ExecutorStep \/ Environment

Spec == Init /\ [][Next]_vars

(* The owner only funds the Safe, creates it and sets executor limits; all *)
(* that moves USDC into and out of the route is the executor.              *)
DelegatedNext ==
  \/ AdminStep \/ ExecutorStep \/ Environment
  \/ \E amount \in DepositAmounts : Deposit(amount)
  \/ \E a \in Executors, bps \in Allocations : InitializeWithLimits(a, KaminoShare(bps))
  \/ \E a, v, p \in LimitValues, enabled \in BOOLEAN :
       SetExecutorLimits(a, v, p, enabled)

DelegatedSpec == Init /\ [][DelegatedNext]_vars

-----------------------------------------------------------------------------
kaminoPrincipal == safe.route_principal[ROUTE_KAMINO_USDC]

(* Types of every account; the fee of the config never exceeds the cap.    *)
TypeOK ==
  /\ config \in [exists : BOOLEAN, admin : Admins \cup {NoKey},
                 performance_fee_bps : 0 .. MAX_PERFORMANCE_FEE_BPS]
  /\ registry \in [exists : BOOLEAN, default_executor : Executors \cup {NoKey},
                   approved : SUBSET Executors]
  /\ safe \in [exists : BOOLEAN, agent : Executors \cup {NoKey},
               allocation_bps : [Routes -> Nat], route_principal : [Routes -> Nat]]
  /\ limits \in ExecutorLimits
  /\ wallet \in Nat /\ idle \in Nat /\ shares \in Nat /\ nav \in Nat
  /\ treasury \in Nat /\ losses \in Nat /\ now \in Nat
  /\ granted \in BOOLEAN

(* When the last share is gone so is the cost basis: kamino_withdraw leaves *)
(* no basis behind that would count against the target and the principal   *)
(* limit for ever, whatever the order of partial exits, losses and gains.  *)
NoPhantomPrincipal == shares = 0 => kaminoPrincipal = 0

(* "A performance fee applies only to realized profit" (README): over the  *)
(* whole life of the account the treasury has received at most 20% of what *)
(* came back from the kVault above the cost basis of what was redeemed.    *)
(* Everything that came back is what the owner, the Safe and the treasury  *)
(* now hold beyond the Supply, plus the basis still invested.              *)
FeeOnlyOnRealizedProfit ==
  treasury * BPS_DENOMINATOR
    <= (wallet + idle + treasury - Supply + kaminoPrincipal + losses)
         * MAX_PERFORMANCE_FEE_BPS

(* "A performance fee applies only to realized profit", at its simplest:   *)
(* while the kVault has earned nothing and lost nothing, and so all USDC   *)
(* there is is still the owner's Supply, no fee has been paid.             *)
NoFeeWithoutProfit ==
  wallet + idle + nav + treasury = Supply => treasury = 0

(* kamino_withdraw needs the Config and the registry, kamino_deposit only  *)
(* the registry: no order of deployment steps lets funds into the kVault   *)
(* that the owner could then not redeem for want of an account.            *)
ExitAccountsExist == shares > 0 => config.exists /\ registry.exists

(* "A Safe created by the old initialize is closed to the executor until   *)
(* the owner signs its limits" (executor-limits.md): an enabled policy was *)
(* signed by the owner for this Safe, not for one closed before it.        *)
PolicyOwnerGranted ==
  safe.exists /\ limits.exists /\ limits.enabled => granted

(* What a step moved, measured on the token accounts and before the fee.   *)
Gap(a, b) == IF b > a THEN b - a ELSE a - b
UsdcMoved == Gap(idle + treasury, idle' + treasury')

(* "No executor can move USDC until the owner enables limits for that      *)
(* Safe" (README): the position moves under the owner's signature or an    *)
(* executor's, and a move an executor can sign is one of the Safe's own    *)
(* agent, still approved by the admin, under an enabled policy that counts *)
(* all of it; a revocation by either, or a pause, is in force from the     *)
(* next instruction on.                                                    *)
ExecutorAuthorised ==
  [][/\ shares' # shares => KaminoStep(Owner) \/ ExecutorStep
     /\ \A e \in Executors :
          KaminoStep(e) =>
            /\ e = safe.agent /\ e \in registry.approved
            /\ limits.exists /\ limits.enabled
            /\ PreviousVolume(limits', HourOf(now))
                 = PreviousVolume(limits, HourOf(now)) + UsdcMoved]_vars

(* What the executor moved is charged in full, in both directions, and     *)
(* stays within all three limits of the owner.                             *)
ExecutorWithinLimits ==
  [][shares' # shares /\ ExecutorStep =>
       LET spent == PreviousVolume(limits', HourOf(now))
       IN  /\ UsdcMoved <= limits.max_action_usdc
           /\ spent = PreviousVolume(limits, HourOf(now)) + UsdcMoved
           /\ spent <= limits.max_24h_volume_usdc
           /\ shares' > shares =>
                RouteSum(safe'.route_principal) <= limits.max_principal_usdc]_vars

(* "Repeated deposits cannot turn a 50% owner target into nearly 100%"     *)
(* (total_principal_after): as long as it is the executor that moves the   *)
(* position, its basis never exceeds the owner's share of basis plus idle, *)
(* through any number of deposits, exits, gains and losses.                *)
TargetNeverExceeded ==
  safe.exists =>
    PrincipalWithinTarget(safe.route_principal, safe.allocation_bps,
                          ROUTE_KAMINO_USDC, kaminoPrincipal, idle)

(* The program keeps the promise of Custody. *)
Promise == INSTANCE Custody
  WITH invested <- nav, basis <- kaminoPrincipal,
       MaxFeeBps <- MAX_PERFORMANCE_FEE_BPS, Bps <- BPS_DENOMINATOR
CustodyPromise == Promise!Spec
=============================================================================
