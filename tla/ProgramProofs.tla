---------------------------- MODULE ProgramProofs -----------------------------
(***************************************************************************)
(* Proofs about the whole program, YieldVault and ExponentRoute, for any   *)
(* number of executors and admins, any amounts, prices and policies, any   *)
(* gains and losses of the kVault, and any interleaving.  The first half   *)
(* is about the Safe and its Kamino route: what the money and the accounts *)
(* always satisfy, what the executor may never do, and that the program    *)
(* keeps the promise of Custody.  The second is about the Exponent route   *)
(* next to it: the books of the position, what is tracked and what is      *)
(* held, and what an executor may lose; and, for a client that empties the *)
(* Safe before it closes it, that Safe and position agree and that an exit *)
(* never lacks an account.                                                 *)
(***************************************************************************)
EXTENDS ExponentRoute, ExecutorPolicyProofs

-----------------------------------------------------------------------------
(* Lemmas about the arithmetic of route exits, deposits and targets, for   *)
(* amounts of any size.                                                    *)

LEMMA SaturatingSubType ==
  ASSUME NEW a \in Nat, NEW b \in Nat
  PROVE  SaturatingSub(a, b) \in Nat /\ SaturatingSub(a, b) <= a
BY DEF SaturatingSub

(* A part of a whole, rounded down: a natural number, at most the whole.   *)
LEMMA PartOfWhole ==
  ASSUME NEW whole \in Nat, NEW part \in Nat, NEW of \in Nat \ {0}, part <= of
  PROVE  (whole * part) \div of \in Nat /\ (whole * part) \div of <= whole
<1>1. whole * part \in Nat /\ whole * part <= whole * of
  OBVIOUS
<1>. QED
  BY <1>1

(* realize_exit never returns more basis than there is.                    *)
LEMMA PrincipalOutBounded ==
  ASSUME NEW principal \in Nat, NEW shares_out \in Nat, NEW shares_before \in Nat
  PROVE  /\ PrincipalOut(principal, shares_out, shares_before) \in Nat
         /\ PrincipalOut(principal, shares_out, shares_before) <= principal
BY PartOfWhole DEF PrincipalOut

(* realize_exit returns the whole basis with the last share.               *)
LEMMA PrincipalOutLast ==
  ASSUME NEW principal \in Nat, NEW shares_before \in Nat
  PROVE  PrincipalOut(principal, shares_before, shares_before) = principal
BY DEF PrincipalOut

(* The fee of an exit is at most the fee rate, itself capped, of its gain; *)
(* an exit without a gain pays none.                                       *)
LEMMA ExitFeeBounded ==
  ASSUME NEW received \in Nat, NEW principal_out \in Nat,
         NEW fee_bps \in 0 .. MAX_PERFORMANCE_FEE_BPS
  PROVE  /\ ExitFee(received, principal_out, fee_bps) \in Nat
         /\ ExitFee(received, principal_out, fee_bps) * BPS_DENOMINATOR
              <= SaturatingSub(received, principal_out) * MAX_PERFORMANCE_FEE_BPS
         /\ ExitFee(received, principal_out, fee_bps) <= received
<1>. DEFINE gain == SaturatingSub(received, principal_out)
<1>1. gain \in Nat /\ gain <= received
  BY SaturatingSubType
<1>. HIDE DEF gain
<1>2. gain * fee_bps \in Nat /\ gain * fee_bps <= gain * 2000
  BY <1>1 DEF MAX_PERFORMANCE_FEE_BPS
<1>3. /\ (gain * fee_bps) \div 10000 \in Nat
      /\ ((gain * fee_bps) \div 10000) * 10000 <= gain * fee_bps
  BY <1>2
<1>. QED
  BY <1>1, <1>2, <1>3 DEF ExitFee, gain, BPS_DENOMINATOR, MAX_PERFORMANCE_FEE_BPS

(* The cap of one deposit is at most what the Safe holds.                  *)
LEMMA DepositCapBounded ==
  ASSUME NEW free \in Nat, NEW bps \in 0 .. BPS_DENOMINATOR
  PROVE  DepositCap(free, bps) \in Nat /\ DepositCap(free, bps) <= free
<1>1. bps \in Nat /\ bps <= 10000
  BY DEF BPS_DENOMINATOR
<1>2. (free * bps) \div 10000 \in Nat /\ (free * bps) \div 10000 <= free
  BY <1>1
<1>. QED
  BY <1>2 DEF DepositCap, BPS_DENOMINATOR

-----------------------------------------------------------------------------
(* The Safe and its Kamino route.                                          *)

(* The inductive invariant.  Beyond the types and the two properties it    *)
(* proves, it needs that the owner's targets add up (a deposit would       *)
(* otherwise exceed the idle USDC), that there is no basis without a Safe, *)
(* and that the registry is never deployed before the config.              *)
AllocationValid == ValidAllocation(safe.allocation_bps)
NoSafeNoBasis == ~safe.exists => kaminoPrincipal = 0
DeployedInOrder == registry.exists => config.exists

VaultInv ==
  /\ TypeOK
  /\ AllocationValid
  /\ NoSafeNoBasis
  /\ NoPhantomPrincipal
  /\ DeployedInOrder
  /\ ExitAccountsExist

-----------------------------------------------------------------------------
(* The effect of the Kamino route, with the arithmetic done. *)

(* A step leaves the policy account alone or charges it; it is never       *)
(* created, closed, enabled or paused.                                     *)
PolicyKept ==
  /\ limits' \in ExecutorLimits
  /\ limits'.exists = limits.exists
  /\ limits'.enabled = limits.enabled

DepositOf(deposited) ==
  /\ safe.exists /\ registry.exists
  /\ deposited > 0 /\ deposited <= idle
  /\ idle' = idle - deposited
  /\ nav' = nav + deposited
  /\ shares' \in Nat /\ shares' > shares
  /\ safe' = [safe EXCEPT !.route_principal[ROUTE_KAMINO_USDC] = @ + deposited]
  /\ PolicyKept
  /\ UNCHANGED <<config, registry, wallet, treasury, losses, now, granted>>

ExitOf(received, returned, fee) ==
  /\ safe.exists /\ registry.exists /\ config.exists
  /\ received <= nav /\ returned <= kaminoPrincipal
  /\ fee <= received
  /\ fee * BPS_DENOMINATOR
       <= SaturatingSub(received, returned) * MAX_PERFORMANCE_FEE_BPS
  /\ shares' \in Nat /\ shares' < shares
  /\ shares' = 0 => returned = kaminoPrincipal
  /\ nav' = nav - received
  /\ idle' = idle + received - fee
  /\ treasury' = treasury + fee
  /\ losses' = losses + SaturatingSub(returned, received)
  /\ safe' = [safe EXCEPT !.route_principal[ROUTE_KAMINO_USDC] = @ - returned]
  /\ PolicyKept
  /\ UNCHANGED <<config, registry, wallet, now, granted>>

(* A target that is valid as a whole is valid for each route.              *)
LEMMA TargetInRange ==
  ASSUME NEW bps \in [Routes -> Nat], ValidAllocation(bps)
  PROVE  bps[ROUTE_KAMINO_USDC] \in 0 .. BPS_DENOMINATOR
<1>. DEFINE kamino == bps[ROUTE_KAMINO_USDC]
            other == bps[ROUTE_ONYC]
<1>1. kamino \in Nat /\ other \in Nat
  BY DEF Routes
<1>2. kamino + other <= BPS_DENOMINATOR
  BY DEF ValidAllocation, RouteSum
<1>. HIDE DEF kamino, other
<1>3. kamino \in 0 .. BPS_DENOMINATOR
  BY <1>1, <1>2 DEF BPS_DENOMINATOR
<1>. QED
  BY <1>3 DEF kamino

LEMMA ChargeKeepsPolicy ==
  ASSUME TypeOK, NEW signer, NEW moved \in Nat, NEW principal_after,
         ChargeExecutorVolume(signer, moved, principal_after)
  PROVE  PolicyKept
<1>1. CASE limits' = limits
  BY <1>1 DEF PolicyKept, TypeOK
<1>2. CASE limits' = Charged(limits, moved, now)
  <2>1. ChargesOnly(limits, limits', moved, HourOf(now))
    BY <1>2, ChargedType DEF TypeOK
  <2>. QED
    BY <2>1 DEF ChargesOnly, PolicyKept
<1>. QED
  BY <1>1, <1>2 DEF ChargeExecutorVolume

LEMMA MintedPositive ==
  ASSUME TypeOK, NEW taken \in Nat \ {0}
  PROVE  KvaultMinted(taken) \in Nat /\ KvaultMinted(taken) > 0
<1>1. ASSUME nav # 0 PROVE (taken * shares) \div nav \in Nat
  BY <1>1 DEF TypeOK
<1>. QED
  BY <1>1 DEF KvaultMinted

LEMMA PaidBounded ==
  ASSUME TypeOK, NEW burned \in 1 .. shares
  PROVE  KvaultPaid(burned) \in Nat /\ KvaultPaid(burned) <= nav
BY PartOfWhole DEF KvaultPaid, TypeOK

LEMMA KaminoDepositEffect ==
  ASSUME VaultInv, NEW signer, NEW amount \in KaminoAmounts,
         KaminoDeposit(signer, amount)
  PROVE  \E deposited \in Nat : DepositOf(deposited)
<1>1. PICK deposited \in KvaultTaken(amount) :
        /\ idle' = idle - deposited
        /\ shares' = shares + KvaultMinted(deposited)
        /\ nav' = nav + deposited
        /\ safe' = [safe EXCEPT !.route_principal[ROUTE_KAMINO_USDC] =
                                  kaminoPrincipal + deposited]
        /\ ChargeExecutorVolume(signer, deposited,
             TotalPrincipalAfter(safe.route_principal, ROUTE_KAMINO_USDC,
                                 kaminoPrincipal + deposited))
  BY DEF KaminoDeposit, CostBasis, kaminoPrincipal
<1>2. /\ amount \in Nat
      /\ safe.allocation_bps[ROUTE_KAMINO_USDC] \in 0 .. BPS_DENOMINATOR
      /\ idle \in Nat /\ shares \in Nat
      /\ TypeOK
  BY VaultAssumption, TargetInRange DEF VaultInv, TypeOK, AllocationValid
<1>3. amount <= idle
  <2>1. amount <= DepositCap(idle, safe.allocation_bps[ROUTE_KAMINO_USDC])
    BY DEF KaminoDeposit
  <2>. QED
    BY <1>2, <2>1, DepositCapBounded
<1>4. deposited \in Nat \ {0} /\ deposited <= idle
  BY <1>2, <1>3 DEF KvaultTaken
<1>5. shares' \in Nat /\ shares' > shares
  BY <1>1, <1>2, <1>4, MintedPositive
<1>6. PolicyKept
  BY <1>1, <1>2, <1>4, ChargeKeepsPolicy
<1>7. DepositOf(deposited)
  BY <1>1, <1>4, <1>5, <1>6 DEF DepositOf, KaminoDeposit, kaminoPrincipal
<1>. QED
  BY <1>4, <1>7

LEMMA KaminoWithdrawEffect ==
  ASSUME VaultInv, NEW signer, NEW requested, KaminoWithdraw(signer, requested)
  PROVE  \E received, returned, fee \in Nat : ExitOf(received, returned, fee)
<1>1. PICK burned \in 1 .. shares :
        /\ ChargeExecutorVolume(signer, KvaultPaid(burned), NoPrincipal)
        /\ RealizeExit(burned, KvaultPaid(burned))
  BY DEF KaminoWithdraw
<1>. DEFINE received == KvaultPaid(burned)
            returned == PrincipalOut(kaminoPrincipal, burned, shares)
            fee == ExitFee(received, returned, config.performance_fee_bps)
<1>2. /\ TypeOK
      /\ kaminoPrincipal \in Nat /\ shares \in Nat /\ burned \in Nat
      /\ config.performance_fee_bps \in 0 .. MAX_PERFORMANCE_FEE_BPS
  BY DEF VaultInv, TypeOK, kaminoPrincipal, Routes
<1>3. received \in Nat /\ received <= nav
  BY <1>2, PaidBounded
<1>4. returned \in Nat /\ returned <= kaminoPrincipal
  BY <1>2, PrincipalOutBounded
<1>5. burned = shares => returned = kaminoPrincipal
  BY <1>2, PrincipalOutLast
<1>. HIDE DEF received, returned
<1>6. /\ fee \in Nat /\ fee <= received
      /\ fee * BPS_DENOMINATOR
           <= SaturatingSub(received, returned) * MAX_PERFORMANCE_FEE_BPS
  BY <1>2, <1>3, <1>4, ExitFeeBounded
<1>7. /\ shares' = shares - burned
      /\ nav' = nav - received
      /\ idle' = idle + received - fee
      /\ treasury' = treasury + fee
      /\ losses' = losses + SaturatingSub(returned, received)
      /\ safe' = [safe EXCEPT !.route_principal[ROUTE_KAMINO_USDC] =
                                SaturatingSub(kaminoPrincipal, returned)]
  BY <1>1 DEF RealizeExit, received, returned, kaminoPrincipal
<1>. HIDE DEF fee
<1>8. SaturatingSub(kaminoPrincipal, returned) = kaminoPrincipal - returned
  BY <1>2, <1>4 DEF SaturatingSub
<1>9. PolicyKept
  BY <1>1, <1>2, <1>3, ChargeKeepsPolicy DEF received
<1>10. shares' \in Nat /\ shares' < shares /\ (shares' = 0 => returned = kaminoPrincipal)
  BY <1>2, <1>5, <1>7
<1>11. ExitOf(received, returned, fee)
  BY <1>3, <1>4, <1>6, <1>7, <1>8, <1>9, <1>10
  DEF ExitOf, KaminoWithdraw, kaminoPrincipal
<1>. QED
  BY <1>3, <1>4, <1>6, <1>11

-----------------------------------------------------------------------------
(* The invariant. *)

(* A fresh Safe, or none, has no basis.                                    *)
LEMMA FreshSafeType ==
  ASSUME NEW agent \in Executors \cup {NoKey}, NEW bps \in [Routes -> Nat]
  PROVE  /\ FreshSafe(agent, bps) \in
              [exists : BOOLEAN, agent : Executors \cup {NoKey},
               allocation_bps : [Routes -> Nat], route_principal : [Routes -> Nat]]
         /\ FreshSafe(agent, bps).allocation_bps = bps
         /\ FreshSafe(agent, bps).route_principal[ROUTE_KAMINO_USDC] = 0
BY DEF FreshSafe, Routes

LEMMA NoSafeType ==
  /\ NoSafe \in [exists : BOOLEAN, agent : Executors \cup {NoKey},
                 allocation_bps : [Routes -> Nat], route_principal : [Routes -> Nat]]
  /\ ValidAllocation(NoSafe.allocation_bps)
  /\ NoSafe.route_principal[ROUTE_KAMINO_USDC] = 0
BY DEF NoSafe, Routes, ValidAllocation, RouteSum, BPS_DENOMINATOR

LEMMA KaminoShareType ==
  ASSUME NEW bps \in Nat
  PROVE  KaminoShare(bps) \in [Routes -> Nat]
BY DEF KaminoShare

LEMMA DefaultLimitsType == DefaultLimits \in ExecutorLimits
BY PolicyAssumption DEF DefaultLimits, ZeroLedger, ExecutorLimits

LEMMA VaultInit == Init => VaultInv
<1>. SUFFICES ASSUME Init PROVE VaultInv
  OBVIOUS
<1>1. safe.allocation_bps = [r \in Routes |-> 0] /\ safe.route_principal = [r \in Routes |-> 0]
  BY DEF Init, NoSafe
<1>2. kaminoPrincipal = 0
  BY <1>1 DEF kaminoPrincipal, Routes
<1>3. limits \in ExecutorLimits
  BY DEF Init, NoLimits, ZeroLedger, ExecutorLimits
<1>4. TypeOK
  <2>1. config \in [exists : BOOLEAN, admin : Admins \cup {NoKey},
                   performance_fee_bps : 0 .. MAX_PERFORMANCE_FEE_BPS]
    BY DEF Init, NoConfig, MAX_PERFORMANCE_FEE_BPS
  <2>2. registry \in [exists : BOOLEAN, default_executor : Executors \cup {NoKey},
                     approved : SUBSET Executors]
    BY DEF Init, NoRegistry
  <2>3. safe \in [exists : BOOLEAN, agent : Executors \cup {NoKey},
                 allocation_bps : [Routes -> Nat], route_principal : [Routes -> Nat]]
    BY NoSafeType DEF Init
  <2>. QED
    BY <1>3, <2>1, <2>2, <2>3, VaultAssumption DEF Init, TypeOK
<1>5. AllocationValid
  BY <1>1 DEF AllocationValid, ValidAllocation, RouteSum, Routes, BPS_DENOMINATOR
<1>. QED
  BY <1>2, <1>4, <1>5
  DEF Init, NoRegistry, VaultInv, NoSafeNoBasis, NoPhantomPrincipal, DeployedInOrder,
      ExitAccountsExist

(* Administration touches the config and the registry only.                *)
LEMMA AdminKeepsVault == VaultInv /\ AdminStep => VaultInv'
<1>. SUFFICES ASSUME VaultInv, AdminStep PROVE VaultInv'
  OBVIOUS
<1>1. ASSUME NEW a \in Admins, NEW fee \in FeeRates, InitConfig(a, fee)
      PROVE  VaultInv'
  BY <1>1, VaultAssumption
  DEF InitConfig, FeeAllowed, VaultInv, TypeOK, AllocationValid, NoSafeNoBasis,
      NoPhantomPrincipal, DeployedInOrder, ExitAccountsExist, kaminoPrincipal, moneyVars
<1>2. ASSUME NEW s \in Admins, NEW a \in Admins, NEW fee \in FeeRates, SetConfig(s, a, fee)
      PROVE  VaultInv'
  <2>1. fee \in 0 .. MAX_PERFORMANCE_FEE_BPS
    BY <1>2, VaultAssumption DEF SetConfig, FeeAllowed, MAX_PERFORMANCE_FEE_BPS
  <2>2. /\ config'.exists
        /\ config' \in [exists : BOOLEAN, admin : Admins \cup {NoKey},
                        performance_fee_bps : 0 .. MAX_PERFORMANCE_FEE_BPS]
    BY <1>2, <2>1 DEF SetConfig, VaultInv, TypeOK
  <2>. QED
    BY <1>2, <2>2
    DEF SetConfig, VaultInv, TypeOK, AllocationValid, NoSafeNoBasis, NoPhantomPrincipal,
        DeployedInOrder, ExitAccountsExist, kaminoPrincipal, moneyVars
<1>3. ASSUME NEW s \in Admins, NEW approved \in SUBSET Executors,
             NEW d \in approved \cup {NoKey},
             InitExecutorRegistry(s, d, approved) \/ SetExecutorRegistry(s, d, approved)
      PROVE  VaultInv'
  <2>1. /\ config.exists /\ registry' = RegistryOf(d, approved)
        /\ UNCHANGED <<config, safe, limits, moneyVars, now, granted>>
    BY <1>3 DEF InitExecutorRegistry, SetExecutorRegistry
  <2>2. /\ registry'.exists
        /\ registry' \in [exists : BOOLEAN, default_executor : Executors \cup {NoKey},
                          approved : SUBSET Executors]
    BY <2>1 DEF RegistryOf
  <2>. QED
    BY <2>1, <2>2
    DEF VaultInv, TypeOK, AllocationValid, NoSafeNoBasis, NoPhantomPrincipal,
        DeployedInOrder, ExitAccountsExist, kaminoPrincipal, moneyVars
<1>. QED
  BY <1>1, <1>2, <1>3 DEF AdminStep

(* The owner creates and closes the Safe and sets its policy.              *)
LEMMA OwnerPolicyKeepsVault == VaultInv /\ OwnerPolicyStep => VaultInv'
<1>. SUFFICES ASSUME VaultInv, OwnerPolicyStep PROVE VaultInv'
  OBVIOUS
<1>1. ASSUME NEW a \in Executors, NEW bps \in Allocations,
             Initialize(a, KaminoShare(bps)) \/ InitializeWithLimits(a, KaminoShare(bps))
      PROVE  VaultInv'
  <2>1. /\ safe' = FreshSafe(a, KaminoShare(bps))
        /\ ValidAllocation(KaminoShare(bps))
        /\ KaminoShare(bps) \in [Routes -> Nat]
    BY <1>1, KaminoShareType, VaultAssumption
    DEF Initialize, InitializeWithLimits, InitializeVaultState
  <2>2. limits' \in ExecutorLimits /\ granted' \in BOOLEAN
    BY <1>1, DefaultLimitsType DEF Initialize, InitializeWithLimits, VaultInv, TypeOK
  <2>3. UNCHANGED <<config, registry, moneyVars, now>>
    BY <1>1 DEF Initialize, InitializeWithLimits
  <2>4. kaminoPrincipal' = 0 /\ AllocationValid'
    BY <2>1, FreshSafeType DEF kaminoPrincipal, AllocationValid
  <2>5. TypeOK'
    BY <2>1, <2>2, <2>3, FreshSafeType DEF VaultInv, TypeOK, moneyVars
  <2>. QED
    BY <2>3, <2>4, <2>5
    DEF VaultInv, NoSafeNoBasis, NoPhantomPrincipal, DeployedInOrder, ExitAccountsExist,
        moneyVars
<1>2. ASSUME NEW c \in BOOLEAN, CloseSafe(c) PROVE VaultInv'
  <2>1. limits' \in ExecutorLimits
    BY <1>2 DEF CloseSafe, VaultInv, TypeOK, NoLimits, ZeroLedger, ExecutorLimits
  <2>2. kaminoPrincipal' = 0 /\ AllocationValid'
    BY <1>2, NoSafeType DEF CloseSafe, kaminoPrincipal, AllocationValid
  <2>3. TypeOK'
    BY <1>2, <2>1, NoSafeType DEF CloseSafe, VaultInv, TypeOK, moneyVars
  <2>. QED
    BY <1>2, <2>2, <2>3
    DEF CloseSafe, VaultInv, NoSafeNoBasis, NoPhantomPrincipal, DeployedInOrder,
        ExitAccountsExist, moneyVars
<1>3. ASSUME NEW bps \in Allocations, SetAllocation(KaminoShare(bps)) PROVE VaultInv'
  <2>1. KaminoShare(bps) \in [Routes -> Nat]
    BY KaminoShareType, VaultAssumption
  <2>. QED
    BY <1>3, <2>1
    DEF SetAllocation, VaultInv, TypeOK, AllocationValid, NoSafeNoBasis,
        NoPhantomPrincipal, DeployedInOrder, ExitAccountsExist, kaminoPrincipal, moneyVars
<1>4. ASSUME NEW a \in Executors \cup {NoKey}, SetAgent(a) PROVE VaultInv'
  BY <1>4
  DEF SetAgent, VaultInv, TypeOK, AllocationValid, NoSafeNoBasis, NoPhantomPrincipal,
      DeployedInOrder, ExitAccountsExist, kaminoPrincipal, moneyVars
<1>5. ASSUME NEW a \in LimitValues, NEW v \in LimitValues, NEW p \in LimitValues,
             NEW enabled \in BOOLEAN, SetExecutorLimits(a, v, p, enabled)
      PROVE  VaultInv'
  <2>1. limits' \in ExecutorLimits
    BY <1>5, VaultAssumption DEF SetExecutorLimits, WithLimits, VaultInv, TypeOK, ExecutorLimits
  <2>. QED
    BY <1>5, <2>1
    DEF SetExecutorLimits, VaultInv, TypeOK, AllocationValid, NoSafeNoBasis,
        NoPhantomPrincipal, DeployedInOrder, ExitAccountsExist, kaminoPrincipal, moneyVars
<1>. QED
  BY <1>1, <1>2, <1>3, <1>4, <1>5 DEF OwnerPolicyStep

(* Into the route: the basis grows with the position.                      *)
LEMMA DepositKeepsVault ==
  ASSUME VaultInv, NEW deposited \in Nat, DepositOf(deposited)
  PROVE  VaultInv'
<1>1. /\ kaminoPrincipal \in Nat /\ idle \in Nat /\ shares \in Nat /\ nav \in Nat
      /\ safe.route_principal \in [Routes -> Nat]
  BY DEF VaultInv, TypeOK, kaminoPrincipal, Routes
<1>2. /\ safe'.allocation_bps = safe.allocation_bps
      /\ safe'.exists = safe.exists
      /\ kaminoPrincipal' = kaminoPrincipal + deposited
      /\ safe' \in [exists : BOOLEAN, agent : Executors \cup {NoKey},
                    allocation_bps : [Routes -> Nat], route_principal : [Routes -> Nat]]
  <2>1. kaminoPrincipal + deposited \in Nat
    BY <1>1
  <2>. QED
    BY <2>1 DEF DepositOf, VaultInv, TypeOK, Routes, kaminoPrincipal
<1>3. idle' \in Nat /\ nav' \in Nat /\ shares' \in Nat /\ shares' > 0
  BY <1>1 DEF DepositOf
<1>4. TypeOK'
  BY <1>2, <1>3 DEF DepositOf, PolicyKept, VaultInv, TypeOK
<1>. QED
  BY <1>2, <1>3, <1>4
  DEF DepositOf, VaultInv, AllocationValid, NoSafeNoBasis, NoPhantomPrincipal,
      DeployedInOrder, ExitAccountsExist

(* Out of the route: the last share takes the whole basis with it.         *)
LEMMA ExitKeepsVault ==
  ASSUME VaultInv, NEW received \in Nat, NEW returned \in Nat, NEW fee \in Nat,
         ExitOf(received, returned, fee)
  PROVE  VaultInv'
<1>1. /\ kaminoPrincipal \in Nat /\ idle \in Nat /\ shares \in Nat /\ nav \in Nat
      /\ treasury \in Nat /\ losses \in Nat
      /\ safe.route_principal \in [Routes -> Nat]
      /\ SaturatingSub(returned, received) \in Nat
  BY SaturatingSubType DEF VaultInv, TypeOK, kaminoPrincipal, Routes
<1>2. kaminoPrincipal - returned \in Nat
  BY <1>1 DEF ExitOf
<1>3. /\ safe'.allocation_bps = safe.allocation_bps
      /\ safe'.exists = safe.exists
      /\ kaminoPrincipal' = kaminoPrincipal - returned
      /\ safe' \in [exists : BOOLEAN, agent : Executors \cup {NoKey},
                    allocation_bps : [Routes -> Nat], route_principal : [Routes -> Nat]]
  BY <1>2 DEF ExitOf, VaultInv, TypeOK, Routes, kaminoPrincipal
<1>4. idle' \in Nat /\ nav' \in Nat /\ shares' \in Nat /\ treasury' \in Nat /\ losses' \in Nat
  <2>1. idle + received - fee \in Nat /\ nav - received \in Nat
    BY <1>1 DEF ExitOf
  <2>. QED
    BY <1>1, <2>1 DEF ExitOf
<1>5. TypeOK'
  BY <1>3, <1>4 DEF ExitOf, PolicyKept, VaultInv, TypeOK
<1>6. NoPhantomPrincipal'
  BY <1>1, <1>3 DEF ExitOf, NoPhantomPrincipal
<1>. QED
  BY <1>3, <1>5, <1>6
  DEF ExitOf, VaultInv, AllocationValid, NoSafeNoBasis, DeployedInOrder, ExitAccountsExist

LEMMA KaminoKeepsVault ==
  ASSUME VaultInv, NEW signer, KaminoStep(signer)
  PROVE  VaultInv'
<1>1. ASSUME NEW amount \in KaminoAmounts, KaminoDeposit(signer, amount) PROVE VaultInv'
  BY <1>1, KaminoDepositEffect, DepositKeepsVault
<1>2. ASSUME NEW requested, KaminoWithdraw(signer, requested) PROVE VaultInv'
  BY <1>2, KaminoWithdrawEffect, ExitKeepsVault
<1>. QED
  BY <1>1, <1>2 DEF KaminoStep

LEMMA TransferKeepsVault ==
  ASSUME VaultInv, NEW amount \in Nat, Deposit(amount) \/ Withdraw(amount)
  PROVE  VaultInv'
BY DEF Deposit, Withdraw, VaultInv, TypeOK, AllocationValid, NoSafeNoBasis,
       NoPhantomPrincipal, DeployedInOrder, ExitAccountsExist, kaminoPrincipal

LEMMA EnvironmentKeepsVault == VaultInv /\ Environment => VaultInv'
<1>. SUFFICES ASSUME VaultInv, Environment PROVE VaultInv'
  OBVIOUS
<1>1. CASE CreateSafeFor
  <2>1. /\ KaminoShare(0) \in [Routes -> Nat] /\ ValidAllocation(KaminoShare(0))
    BY KaminoShareType DEF KaminoShare, ValidAllocation, RouteSum, Routes, BPS_DENOMINATOR
  <2>2. kaminoPrincipal' = 0 /\ AllocationValid'
    BY <1>1, <2>1, FreshSafeType DEF CreateSafeFor, kaminoPrincipal, AllocationValid
  <2>3. TypeOK'
    BY <1>1, <2>1, FreshSafeType DEF CreateSafeFor, VaultInv, TypeOK, moneyVars
  <2>. QED
    BY <1>1, <2>2, <2>3
    DEF CreateSafeFor, VaultInv, NoSafeNoBasis, NoPhantomPrincipal, DeployedInOrder,
        ExitAccountsExist, moneyVars
<1>2. ASSUME NEW gain \in Gains, Accrue(gain) PROVE VaultInv'
  BY <1>2, VaultAssumption
  DEF Accrue, VaultInv, TypeOK, AllocationValid, NoSafeNoBasis, NoPhantomPrincipal,
      DeployedInOrder, ExitAccountsExist, kaminoPrincipal
<1>3. ASSUME NEW loss \in Losses, LoseValue(loss) PROVE VaultInv'
  BY <1>3, VaultAssumption
  DEF LoseValue, VaultInv, TypeOK, AllocationValid, NoSafeNoBasis, NoPhantomPrincipal,
      DeployedInOrder, ExitAccountsExist, kaminoPrincipal
<1>4. CASE Tick
  BY <1>4
  DEF Tick, VaultInv, TypeOK, AllocationValid, NoSafeNoBasis, NoPhantomPrincipal,
      DeployedInOrder, ExitAccountsExist, kaminoPrincipal, moneyVars
<1>. QED
  BY <1>1, <1>2, <1>3, <1>4 DEF Environment

LEMMA VaultStep == VaultInv /\ [Next]_vars => VaultInv'
<1>. SUFFICES ASSUME VaultInv, [Next]_vars PROVE VaultInv'
  OBVIOUS
<1>1. CASE AdminStep
  BY <1>1, AdminKeepsVault
<1>2. CASE OwnerPolicyStep
  BY <1>2, OwnerPolicyKeepsVault
<1>3. CASE OwnerMoneyStep
  BY <1>3, TransferKeepsVault, KaminoKeepsVault, VaultAssumption DEF OwnerMoneyStep
<1>4. CASE ExecutorStep
  BY <1>4, KaminoKeepsVault DEF ExecutorStep
<1>5. CASE Environment
  BY <1>5, EnvironmentKeepsVault
<1>6. CASE UNCHANGED vars
  BY <1>6
  DEF vars, moneyVars, VaultInv, TypeOK, AllocationValid, NoSafeNoBasis,
      NoPhantomPrincipal, DeployedInOrder, ExitAccountsExist, kaminoPrincipal
<1>. QED
  BY <1>1, <1>2, <1>3, <1>4, <1>5, <1>6 DEF Next

LEMMA VaultAlways == Spec => []VaultInv
BY VaultInit, VaultStep, PTL DEF Spec

(* Every account and balance keeps its type through every instruction, and *)
(* the performance fee never exceeds MAX_PERFORMANCE_FEE_BPS.              *)
THEOREM VaultTypeCorrect == Spec => []TypeOK
BY VaultAlways, PTL DEF VaultInv

(* realize_exit and kamino_withdraw: no cost basis outlives the last share *)
(* of the route, for any sequence of deposits, partial exits, gains,       *)
(* losses, closings and re-creations of the Safe.                          *)
THEOREM NoPhantomPrincipalHolds == Spec => []NoPhantomPrincipal
BY VaultAlways, PTL DEF VaultInv

(* init_executor_registry needs the Config that kamino_withdraw needs:     *)
(* whoever could deposit into the kVault can redeem.                       *)
THEOREM ExitAccountsAlwaysExist == Spec => []ExitAccountsExist
BY VaultAlways, PTL DEF VaultInv

-----------------------------------------------------------------------------
(* Money.  Under a client that empties the Safe before it closes it, every *)
(* step of the program is one of four things to the books.                 *)

Transferred ==
  /\ wallet' \in Nat /\ idle' \in Nat
  /\ wallet' + idle' = wallet + idle
  /\ UNCHANGED <<nav, treasury, losses, kaminoPrincipal>>

Revalued ==
  /\ nav' \in Nat
  /\ UNCHANGED <<wallet, idle, treasury, losses, kaminoPrincipal>>

MoneyStep ==
  \/ Transferred
  \/ Revalued
  \/ \E deposited \in Nat : DepositOf(deposited)
  \/ \E received, returned, fee \in Nat : ExitOf(received, returned, fee)

LEMMA KaminoMovesMoney ==
  ASSUME VaultInv, NEW signer, KaminoStep(signer)
  PROVE  MoneyStep
BY KaminoDepositEffect, KaminoWithdrawEffect DEF KaminoStep, MoneyStep

LEMMA OwnerPolicyMovesNothing ==
  ASSUME VaultInv, ClientEmptiesFirst, OwnerPolicyStep
  PROVE  Revalued
<1>1. nav \in Nat
  BY DEF VaultInv, TypeOK
<1>2. ASSUME NEW a \in Executors, NEW bps \in Allocations,
             Initialize(a, KaminoShare(bps)) \/ InitializeWithLimits(a, KaminoShare(bps))
      PROVE  Revalued
  <2>1. ~safe.exists /\ safe' = FreshSafe(a, KaminoShare(bps)) /\ UNCHANGED moneyVars
    BY <1>2 DEF Initialize, InitializeWithLimits, InitializeVaultState
  <2>2. kaminoPrincipal = 0 /\ kaminoPrincipal' = 0
    BY <2>1, FreshSafeType, KaminoShareType, VaultAssumption
    DEF VaultInv, NoSafeNoBasis, kaminoPrincipal
  <2>. QED
    BY <1>1, <2>1, <2>2 DEF Revalued, moneyVars
<1>3. ASSUME NEW c \in BOOLEAN, CloseSafe(c) PROVE Revalued
  <2>1. shares = 0 /\ safe' = NoSafe /\ UNCHANGED moneyVars
    BY <1>3 DEF CloseSafe
  <2>2. kaminoPrincipal = 0 /\ kaminoPrincipal' = 0
    BY <2>1, NoSafeType DEF VaultInv, NoPhantomPrincipal, kaminoPrincipal
  <2>. QED
    BY <1>1, <2>1, <2>2 DEF Revalued, moneyVars
<1>4. ASSUME NEW bps \in Allocations, SetAllocation(KaminoShare(bps)) PROVE Revalued
  BY <1>1, <1>4 DEF SetAllocation, Revalued, VaultInv, TypeOK, kaminoPrincipal, moneyVars
<1>5. ASSUME NEW a \in Executors \cup {NoKey}, SetAgent(a) PROVE Revalued
  BY <1>1, <1>5 DEF SetAgent, Revalued, VaultInv, TypeOK, kaminoPrincipal, moneyVars
<1>6. ASSUME NEW a \in LimitValues, NEW v \in LimitValues, NEW p \in LimitValues,
             NEW enabled \in BOOLEAN, SetExecutorLimits(a, v, p, enabled)
      PROVE  Revalued
  BY <1>1, <1>6 DEF SetExecutorLimits, Revalued, kaminoPrincipal, moneyVars
<1>. QED
  BY <1>2, <1>3, <1>4, <1>5, <1>6 DEF OwnerPolicyStep

LEMMA EnvironmentMovesNothing ==
  ASSUME VaultInv, Environment
  PROVE  Revalued
<1>1. nav \in Nat
  BY DEF VaultInv, TypeOK
<1>2. CASE CreateSafeFor
  <2>1. kaminoPrincipal = 0 /\ kaminoPrincipal' = 0
    BY <1>2, FreshSafeType, KaminoShareType
    DEF CreateSafeFor, VaultInv, NoSafeNoBasis, kaminoPrincipal
  <2>. QED
    BY <1>1, <1>2, <2>1 DEF CreateSafeFor, Revalued, moneyVars
<1>3. ASSUME NEW gain \in Gains, Accrue(gain) PROVE Revalued
  BY <1>1, <1>3, VaultAssumption DEF Accrue, Revalued, kaminoPrincipal
<1>4. ASSUME NEW loss \in Losses, LoseValue(loss) PROVE Revalued
  BY <1>1, <1>4, VaultAssumption DEF LoseValue, Revalued, kaminoPrincipal
<1>5. CASE Tick
  BY <1>1, <1>5 DEF Tick, Revalued, kaminoPrincipal, moneyVars
<1>. QED
  BY <1>2, <1>3, <1>4, <1>5 DEF Environment

LEMMA StepMovesMoney ==
  ASSUME VaultInv, ClientEmptiesFirst, [Next]_vars
  PROVE  MoneyStep
<1>1. nav \in Nat
  BY DEF VaultInv, TypeOK
<1>2. CASE AdminStep
  BY <1>1, <1>2
  DEF AdminStep, InitConfig, SetConfig, InitExecutorRegistry, SetExecutorRegistry,
      MoneyStep, Revalued, kaminoPrincipal, moneyVars
<1>3. CASE OwnerPolicyStep
  BY <1>3, OwnerPolicyMovesNothing DEF MoneyStep
<1>4. CASE OwnerMoneyStep
  <2>1. ASSUME NEW amount \in Nat, Deposit(amount) \/ Withdraw(amount) PROVE Transferred
    BY <2>1 DEF Deposit, Withdraw, Transferred, VaultInv, TypeOK, kaminoPrincipal
  <2>. QED
    BY <1>4, <2>1, KaminoMovesMoney, VaultAssumption DEF OwnerMoneyStep, MoneyStep
<1>5. CASE ExecutorStep
  BY <1>5, KaminoMovesMoney DEF ExecutorStep
<1>6. CASE Environment
  BY <1>6, EnvironmentMovesNothing DEF MoneyStep
<1>7. CASE UNCHANGED vars
  BY <1>1, <1>7 DEF MoneyStep, Revalued, kaminoPrincipal, vars, moneyVars
<1>. QED
  BY <1>2, <1>3, <1>4, <1>5, <1>6, <1>7 DEF Next

LEMMA BooksType ==
  VaultInv => /\ wallet \in Nat /\ idle \in Nat /\ nav \in Nat /\ treasury \in Nat
              /\ losses \in Nat /\ kaminoPrincipal \in Nat /\ Supply \in Nat
BY VaultAssumption DEF VaultInv, TypeOK, kaminoPrincipal, Routes

LEMMA DepositBasis ==
  ASSUME VaultInv, NEW deposited \in Nat, DepositOf(deposited)
  PROVE  kaminoPrincipal' = kaminoPrincipal + deposited
BY DEF DepositOf, VaultInv, TypeOK, Routes, kaminoPrincipal

LEMMA ExitBasis ==
  ASSUME VaultInv, NEW received \in Nat, NEW returned \in Nat, NEW fee \in Nat,
         ExitOf(received, returned, fee)
  PROVE  kaminoPrincipal' = kaminoPrincipal - returned
BY DEF ExitOf, VaultInv, TypeOK, Routes, kaminoPrincipal

(* An exit moves to the treasury at most 20% of what it adds to the        *)
(* realised profit; nothing else moves either.                             *)
LEMMA FeeStep ==
  ASSUME VaultInv, FeeOnlyOnRealizedProfit, MoneyStep
  PROVE  FeeOnlyOnRealizedProfit'
<1>1. CASE Transferred \/ Revalued
  BY <1>1, BooksType
  DEF Transferred, Revalued, FeeOnlyOnRealizedProfit, BPS_DENOMINATOR, MAX_PERFORMANCE_FEE_BPS
<1>2. ASSUME NEW deposited \in Nat, DepositOf(deposited) PROVE FeeOnlyOnRealizedProfit'
  <2>1. /\ wallet' = wallet /\ treasury' = treasury /\ losses' = losses
        /\ idle' = idle - deposited
        /\ kaminoPrincipal' = kaminoPrincipal + deposited
    BY <1>2, DepositBasis DEF DepositOf
  <2>. QED
    BY <2>1, BooksType DEF FeeOnlyOnRealizedProfit, BPS_DENOMINATOR, MAX_PERFORMANCE_FEE_BPS
<1>3. ASSUME NEW received \in Nat, NEW returned \in Nat, NEW fee \in Nat,
             ExitOf(received, returned, fee)
      PROVE  FeeOnlyOnRealizedProfit'
  <2>1. /\ wallet' = wallet /\ treasury' = treasury + fee
        /\ losses' = losses + SaturatingSub(returned, received)
        /\ idle' = idle + received - fee
        /\ kaminoPrincipal' = kaminoPrincipal - returned
        /\ fee * 10000 <= SaturatingSub(received, returned) * 2000
    BY <1>3, ExitBasis DEF ExitOf, BPS_DENOMINATOR, MAX_PERFORMANCE_FEE_BPS
  <2>2. /\ SaturatingSub(received, returned) \in Nat /\ SaturatingSub(returned, received) \in Nat
        /\ SaturatingSub(received, returned) - SaturatingSub(returned, received)
             = received - returned
    BY DEF SaturatingSub
  <2>. QED
    BY <2>1, <2>2, BooksType
    DEF FeeOnlyOnRealizedProfit, BPS_DENOMINATOR, MAX_PERFORMANCE_FEE_BPS
<1>. QED
  BY <1>1, <1>2, <1>3 DEF MoneyStep

(* "A performance fee applies only to realized profit" (README, enforced   *)
(* by realize_exit): if the client empties the Safe before it closes it,   *)
(* the treasury never holds more than 20% of the profit realised so far.   *)
THEOREM FeeIsOnlyOnRealizedProfit ==
  ASSUME ClientEmptiesFirst
  PROVE  Spec => []FeeOnlyOnRealizedProfit
<1>1. Init => FeeOnlyOnRealizedProfit
  <2>1. Init => kaminoPrincipal = 0
    BY NoSafeType DEF Init, kaminoPrincipal
  <2>. QED
    BY <2>1, VaultAssumption
    DEF Init, FeeOnlyOnRealizedProfit, BPS_DENOMINATOR, MAX_PERFORMANCE_FEE_BPS
<1>2. VaultInv /\ FeeOnlyOnRealizedProfit /\ [Next]_vars => FeeOnlyOnRealizedProfit'
  BY StepMovesMoney, FeeStep
<1>. QED
  BY <1>1, <1>2, VaultAlways, PTL DEF Spec

-----------------------------------------------------------------------------
(* The program implements Custody. *)

LEMMA MoneyStepRefines ==
  ASSUME VaultInv, MoneyStep
  PROVE  [Promise!Next]_(Promise!vars)
<1>1. CASE Transferred
  BY <1>1 DEF Transferred, Promise!Next, Promise!Transfer
<1>2. CASE Revalued
  BY <1>2 DEF Revalued, Promise!Next, Promise!Revalue
<1>3. ASSUME NEW deposited \in Nat, DepositOf(deposited) PROVE Promise!Invest
  BY <1>3, BooksType, DepositBasis DEF DepositOf, Promise!Invest
<1>4. ASSUME NEW received \in Nat, NEW returned \in Nat, NEW fee \in Nat,
             ExitOf(received, returned, fee)
      PROVE  Promise!Exit
  <2>1. /\ nav - nav' = received /\ nav' \in Nat
        /\ kaminoPrincipal - kaminoPrincipal' = returned /\ kaminoPrincipal' \in Nat
        /\ treasury' - treasury = fee
        /\ idle' = idle + received - fee /\ wallet' = wallet
        /\ fee * BPS_DENOMINATOR
             <= SaturatingSub(received, returned) * MAX_PERFORMANCE_FEE_BPS
    BY <1>4, BooksType, ExitBasis DEF ExitOf
  <2>2. Promise!Gain(received, returned) = SaturatingSub(received, returned)
    BY DEF Promise!Gain, SaturatingSub
  <2>. QED
    BY <2>1, <2>2 DEF Promise!Exit
<1>. QED
  BY <1>1, <1>2, <1>3, <1>4 DEF MoneyStep, Promise!Next

(* Whatever the executors, the limits, the admin and the kVault do, USDC   *)
(* only moves between wallet, Safe and position and, on a gain, to the     *)
(* treasury, and the cost basis is what went in and did not come out.      *)
THEOREM VaultKeepsCustodyPromise ==
  ASSUME ClientEmptiesFirst
  PROVE  Spec => CustodyPromise
<1>1. Init => Promise!Init
  BY NoSafeType DEF Init, Promise!Init, kaminoPrincipal
<1>2. VaultInv /\ [Next]_vars => [Promise!Next]_(Promise!vars)
  BY StepMovesMoney, MoneyStepRefines
<1>. QED
  BY <1>1, <1>2, VaultAlways, PTL DEF Spec, CustodyPromise, Promise!Spec

-----------------------------------------------------------------------------
(* The executor's authority. *)

LEMMA ExecutorCleared ==
  ASSUME NEW executor \in Executors, KaminoStep(executor)
  PROVE  /\ executor = safe.agent /\ executor \in registry.approved
         /\ limits.exists /\ limits.enabled
<1>1. executor # Owner
  BY VaultAssumption
<1>. QED
  BY <1>1
  DEF KaminoStep, KaminoDeposit, KaminoWithdraw, RequireOwnerOrAgent, ChargeExecutorVolume,
      ExecutorPolicyFromTail

(* Nobody but the owner and the executors signs a move of the position.    *)
LEMMA OnlySignersMoveShares ==
  ASSUME [Next]_vars, shares' # shares
  PROVE  KaminoStep(Owner) \/ ExecutorStep
<1>1. CASE AdminStep
  BY <1>1
  DEF AdminStep, InitConfig, SetConfig, InitExecutorRegistry, SetExecutorRegistry, moneyVars
<1>2. CASE OwnerPolicyStep
  BY <1>2
  DEF OwnerPolicyStep, Initialize, InitializeWithLimits, CloseSafe, SetAllocation,
      SetAgent, SetExecutorLimits, moneyVars
<1>3. CASE OwnerMoneyStep
  BY <1>3 DEF OwnerMoneyStep, Deposit, Withdraw
<1>4. CASE ExecutorStep
  BY <1>4
<1>5. CASE Environment
  BY <1>5 DEF Environment, CreateSafeFor, Accrue, LoseValue, Tick, moneyVars
<1>6. CASE UNCHANGED vars
  BY <1>6 DEF vars, moneyVars
<1>. QED
  BY <1>1, <1>2, <1>3, <1>4, <1>5, <1>6 DEF Next

(* An accepted charge of the executor: the amount and the basis are within *)
(* the owner's limits, and the ledger counts the amount in full.           *)
ChargedWithinLimits(moved, principal_after) ==
  /\ moved <= limits.max_action_usdc
  /\ PreviousVolume(limits', HourOf(now)) = PreviousVolume(limits, HourOf(now)) + moved
  /\ PreviousVolume(limits', HourOf(now)) <= limits.max_24h_volume_usdc
  /\ principal_after # NoPrincipal => principal_after <= limits.max_principal_usdc

(* charge_executor_volume never lets the executor off.                     *)
LEMMA ExecutorIsCharged ==
  ASSUME TypeOK, NEW executor \in Executors, NEW moved \in Nat, NEW principal_after,
         ChargeExecutorVolume(executor, moved, principal_after)
  PROVE  ChargedWithinLimits(moved, principal_after)
<1>1. executor # Owner
  BY VaultAssumption
<1>2. /\ ChargeAccepted(limits, moved, principal_after, now)
      /\ limits' = Charged(limits, moved, now)
  BY <1>1 DEF ChargeExecutorVolume
<1>3. PreviousVolume(limits', HourOf(now)) = PreviousVolume(limits, HourOf(now)) + moved
  BY <1>2, ChargeCounted DEF TypeOK
<1>. QED
  BY <1>2, <1>3 DEF ChargeAccepted, ChargedWithinLimits

(* The charge of an executor's kamino_deposit: what left the idle USDC,    *)
(* and the basis of both routes after it.                                  *)
LEMMA ExecutorDepositCharged ==
  ASSUME VaultInv, NEW executor \in Executors, NEW amount \in KaminoAmounts,
         KaminoDeposit(executor, amount)
  PROVE  /\ treasury' = treasury /\ shares' > shares
         /\ \E deposited \in Nat :
              /\ idle' = idle - deposited
              /\ ChargedWithinLimits(deposited, RouteSum(safe'.route_principal))
<1>1. PICK deposited \in KvaultTaken(amount) :
        /\ idle' = idle - deposited
        /\ shares' = shares + KvaultMinted(deposited)
        /\ safe' = [safe EXCEPT !.route_principal[ROUTE_KAMINO_USDC] =
                                  kaminoPrincipal + deposited]
        /\ ChargeExecutorVolume(executor, deposited,
             TotalPrincipalAfter(safe.route_principal, ROUTE_KAMINO_USDC,
                                 kaminoPrincipal + deposited))
  BY DEF KaminoDeposit, CostBasis, kaminoPrincipal
<1>2. amount \in Nat /\ TypeOK
  BY VaultAssumption DEF VaultInv
<1>3. deposited \in Nat \ {0}
  BY <1>2 DEF KvaultTaken
<1>4. shares' > shares
  BY <1>1, <1>2, <1>3, MintedPositive DEF TypeOK
<1>. DEFINE after == [safe.route_principal EXCEPT ![ROUTE_KAMINO_USDC] =
                                                     kaminoPrincipal + deposited]
<1>5. safe'.route_principal = after /\ RouteSum(after) \in Nat
  BY <1>1, <1>2, <1>3 DEF TypeOK, RouteSum, Routes, kaminoPrincipal
<1>6. ChargedWithinLimits(deposited, RouteSum(after))
  BY <1>1, <1>2, <1>3, ExecutorIsCharged DEF TotalPrincipalAfter
<1>7. treasury' = treasury
  BY DEF KaminoDeposit
<1>. QED
  BY <1>1, <1>3, <1>4, <1>5, <1>6, <1>7

(* The charge of an executor's kamino_withdraw: all that the kVault paid,  *)
(* the part that went to the treasury included.                            *)
LEMMA ExecutorWithdrawCharged ==
  ASSUME VaultInv, NEW executor \in Executors, NEW requested,
         KaminoWithdraw(executor, requested)
  PROVE  /\ shares' < shares
         /\ \E received \in Nat :
              /\ idle' + treasury' = idle + treasury + received
              /\ ChargedWithinLimits(received, NoPrincipal)
<1>1. PICK burned \in 1 .. shares :
        /\ ChargeExecutorVolume(executor, KvaultPaid(burned), NoPrincipal)
        /\ RealizeExit(burned, KvaultPaid(burned))
  BY DEF KaminoWithdraw
<1>. DEFINE received == KvaultPaid(burned)
            returned == PrincipalOut(kaminoPrincipal, burned, shares)
            fee == ExitFee(received, returned, config.performance_fee_bps)
<1>2. /\ TypeOK
      /\ kaminoPrincipal \in Nat /\ shares \in Nat /\ burned \in Nat
      /\ config.performance_fee_bps \in 0 .. MAX_PERFORMANCE_FEE_BPS
  BY DEF VaultInv, TypeOK, kaminoPrincipal, Routes
<1>3. received \in Nat
  BY <1>2, PaidBounded
<1>4. returned \in Nat
  BY <1>2, PrincipalOutBounded
<1>5. ChargedWithinLimits(received, NoPrincipal)
  BY <1>1, <1>2, <1>3, ExecutorIsCharged
<1>. HIDE DEF received, returned
<1>6. fee \in Nat
  BY <1>2, <1>3, <1>4, ExitFeeBounded
<1>7. /\ shares' = shares - burned
      /\ idle' = idle + received - fee
      /\ treasury' = treasury + fee
  BY <1>1 DEF RealizeExit, received, returned, kaminoPrincipal
<1>. HIDE DEF fee
<1>8. idle' + treasury' = idle + treasury + received /\ shares' < shares
  BY <1>2, <1>3, <1>6, <1>7 DEF TypeOK
<1>. QED
  BY <1>3, <1>5, <1>8

(* What a step moved, on the Safe's and the treasury's token accounts, is   *)
(* within the limits, and so is the basis a deposit leaves behind.         *)
MovedWithinLimits ==
  /\ UsdcMoved <= limits.max_action_usdc
  /\ PreviousVolume(limits', HourOf(now)) = PreviousVolume(limits, HourOf(now)) + UsdcMoved
  /\ PreviousVolume(limits', HourOf(now)) <= limits.max_24h_volume_usdc
  /\ shares' > shares => RouteSum(safe'.route_principal) <= limits.max_principal_usdc

LEMMA ExecutorMovesWithinLimits ==
  ASSUME VaultInv, NEW executor \in Executors, KaminoStep(executor)
  PROVE  MovedWithinLimits
<1>1. TypeOK /\ TypeOK'
  BY KaminoKeepsVault DEF VaultInv
<1>2. PICK before, after \in Nat : before = idle + treasury /\ after = idle' + treasury'
  <2>1. idle \in Nat /\ treasury \in Nat /\ idle' \in Nat /\ treasury' \in Nat
    BY <1>1 DEF TypeOK
  <2>2. \A x, y \in Nat : x + y \in Nat
    OBVIOUS
  <2>. QED
    BY <2>1, <2>2, Zenon
<1>3. UsdcMoved = Gap(before, after)
  BY <1>2, Zenon DEF UsdcMoved
<1>4. ASSUME NEW amount \in KaminoAmounts, KaminoDeposit(executor, amount)
      PROVE  MovedWithinLimits
  <2>1. PICK deposited \in Nat :
          /\ idle' = idle - deposited /\ treasury' = treasury
          /\ ChargedWithinLimits(deposited, RouteSum(safe'.route_principal))
    BY <1>4, ExecutorDepositCharged
  <2>2. after = before - deposited
    BY <1>1, <1>2, <2>1 DEF TypeOK
  <2>3. UsdcMoved = deposited
    BY <1>3, <2>2 DEF Gap
  <2>4. RouteSum(safe'.route_principal) # NoPrincipal
    BY <1>1 DEF TypeOK, RouteSum, Routes, NoPrincipal
  <2>. QED
    BY <2>1, <2>3, <2>4 DEF ChargedWithinLimits, MovedWithinLimits
<1>5. ASSUME NEW requested, KaminoWithdraw(executor, requested)
      PROVE  MovedWithinLimits
  <2>1. PICK received \in Nat :
          /\ idle' + treasury' = idle + treasury + received
          /\ ChargedWithinLimits(received, NoPrincipal)
    BY <1>5, ExecutorWithdrawCharged
  <2>2. after = before + received
    BY <1>2, <2>1
  <2>3. UsdcMoved = received
    BY <1>3, <2>2 DEF Gap
  <2>4. shares' < shares
    BY <1>5, ExecutorWithdrawCharged
  <2>5. ~(shares' > shares)
    BY <1>1, <2>4 DEF TypeOK
  <2>. QED
    BY <2>1, <2>3, <2>5 DEF ChargedWithinLimits, MovedWithinLimits
<1>. QED
  BY <1>4, <1>5 DEF KaminoStep

(* require_owner_or_agent, executor_policy_from_tail and the charge: the    *)
(* position moves under the signature of the owner or of an executor, and  *)
(* an executor's is that of the Safe's agent, approved by the admin at     *)
(* that very instruction, under an enabled policy that counts all of it.   *)
THEOREM ExecutorIsAuthorised == Spec => ExecutorAuthorised
<1>1. ASSUME VaultInv, NEW e \in Executors, KaminoStep(e)
      PROVE  /\ e = safe.agent /\ e \in registry.approved
             /\ limits.exists /\ limits.enabled
             /\ PreviousVolume(limits', HourOf(now))
                  = PreviousVolume(limits, HourOf(now)) + UsdcMoved
  BY <1>1, ExecutorCleared, ExecutorMovesWithinLimits DEF MovedWithinLimits
<1>2. VaultInv /\ [Next]_vars =>
        [/\ shares' # shares => KaminoStep(Owner) \/ ExecutorStep
         /\ \A e \in Executors :
              KaminoStep(e) =>
                /\ e = safe.agent /\ e \in registry.approved
                /\ limits.exists /\ limits.enabled
                /\ PreviousVolume(limits', HourOf(now))
                     = PreviousVolume(limits, HourOf(now)) + UsdcMoved]_vars
  BY <1>1, OnlySignersMoveShares
<1>. QED
  BY <1>2, VaultAlways, PTL DEF Spec, ExecutorAuthorised

(* charge_executor_volume, for every limit, ledger and clock: whatever the *)
(* executor moves is measured on the token accounts, counted in full and   *)
(* within the three limits the owner signed.                               *)
THEOREM ExecutorStaysWithinLimits == Spec => ExecutorWithinLimits
<1>1. VaultInv /\ ExecutorStep => MovedWithinLimits
  BY ExecutorMovesWithinLimits DEF ExecutorStep
<1>2. VaultInv =>
        [shares' # shares /\ ExecutorStep =>
           LET spent == PreviousVolume(limits', HourOf(now))
           IN  /\ UsdcMoved <= limits.max_action_usdc
               /\ spent = PreviousVolume(limits, HourOf(now)) + UsdcMoved
               /\ spent <= limits.max_24h_volume_usdc
               /\ shares' > shares =>
                    RouteSum(safe'.route_principal) <= limits.max_principal_usdc]_vars
  BY <1>1, Zenon DEF MovedWithinLimits
<1>. QED
  BY <1>2, VaultAlways, PTL DEF Spec, ExecutorWithinLimits

(* Under a client that closes the policy with its Safe, no policy account  *)
(* is ever left for a later Safe to find.                                  *)
PolicyDiesWithSafe == limits.exists => safe.exists
PolicyInv == VaultInv /\ PolicyDiesWithSafe /\ PolicyOwnerGranted

LEMMA KaminoKeepsPolicy ==
  ASSUME VaultInv, NEW signer, KaminoStep(signer)
  PROVE  /\ limits'.exists = limits.exists /\ limits'.enabled = limits.enabled
         /\ safe'.exists = safe.exists /\ granted' = granted
<1>1. ASSUME NEW deposited \in Nat, DepositOf(deposited)
      PROVE  /\ safe'.exists = safe.exists /\ granted' = granted /\ PolicyKept
  BY <1>1 DEF DepositOf, VaultInv, TypeOK
<1>2. ASSUME NEW received \in Nat, NEW returned \in Nat, NEW fee \in Nat,
             ExitOf(received, returned, fee)
      PROVE  /\ safe'.exists = safe.exists /\ granted' = granted /\ PolicyKept
  BY <1>2 DEF ExitOf, VaultInv, TypeOK
<1>. QED
  BY <1>1, <1>2, KaminoDepositEffect, KaminoWithdrawEffect DEF KaminoStep, PolicyKept

LEMMA PolicyStep ==
  ASSUME ClientClosesPolicy, PolicyInv, [Next]_vars
  PROVE  PolicyDiesWithSafe' /\ PolicyOwnerGranted'
<1>. USE DEF PolicyInv, PolicyDiesWithSafe, PolicyOwnerGranted
<1>1. CASE AdminStep
  BY <1>1 DEF AdminStep, InitConfig, SetConfig, InitExecutorRegistry, SetExecutorRegistry
<1>2. CASE OwnerPolicyStep
  <2>1. ASSUME NEW a \in Executors, NEW bps \in Allocations,
               Initialize(a, KaminoShare(bps)) \/ InitializeWithLimits(a, KaminoShare(bps))
        PROVE  PolicyDiesWithSafe' /\ PolicyOwnerGranted'
    BY <2>1 DEF Initialize, InitializeWithLimits, InitializeVaultState, FreshSafe
  <2>2. ASSUME NEW c \in BOOLEAN, CloseSafe(c)
        PROVE  PolicyDiesWithSafe' /\ PolicyOwnerGranted'
    BY <2>2 DEF CloseSafe, NoLimits, NoSafe
  <2>3. ASSUME NEW bps \in Allocations, SetAllocation(KaminoShare(bps))
        PROVE  PolicyDiesWithSafe' /\ PolicyOwnerGranted'
    BY <2>3 DEF SetAllocation, VaultInv, TypeOK
  <2>4. ASSUME NEW a \in Executors \cup {NoKey}, SetAgent(a)
        PROVE  PolicyDiesWithSafe' /\ PolicyOwnerGranted'
    BY <2>4 DEF SetAgent, VaultInv, TypeOK
  <2>5. ASSUME NEW a \in LimitValues, NEW v \in LimitValues, NEW p \in LimitValues,
               NEW enabled \in BOOLEAN, SetExecutorLimits(a, v, p, enabled)
        PROVE  PolicyDiesWithSafe' /\ PolicyOwnerGranted'
    BY <2>5 DEF SetExecutorLimits
  <2>. QED
    BY <1>2, <2>1, <2>2, <2>3, <2>4, <2>5 DEF OwnerPolicyStep
<1>3. CASE OwnerMoneyStep
  BY <1>3, KaminoKeepsPolicy DEF OwnerMoneyStep, Deposit, Withdraw
<1>4. CASE ExecutorStep
  BY <1>4, KaminoKeepsPolicy DEF ExecutorStep
<1>5. CASE Environment
  BY <1>5 DEF Environment, CreateSafeFor, Accrue, LoseValue, Tick, FreshSafe
<1>6. CASE UNCHANGED vars
  BY <1>6 DEF vars
<1>. QED
  BY <1>1, <1>2, <1>3, <1>4, <1>5, <1>6 DEF Next

(* initialize, create_safe_for and close_safe: if every close appends the  *)
(* policy account, an enabled policy was signed by the owner for this very *)
(* Safe.  A client that does not leaves an enabled policy to the next one. *)
THEOREM PolicyIsOwnerGranted ==
  ASSUME ClientClosesPolicy
  PROVE  Spec => []PolicyOwnerGranted
<1>1. Init => PolicyDiesWithSafe /\ PolicyOwnerGranted
  BY DEF Init, NoLimits, NoSafe, PolicyDiesWithSafe, PolicyOwnerGranted
<1>2. VaultInv /\ PolicyDiesWithSafe /\ PolicyOwnerGranted /\ [Next]_vars
        => PolicyDiesWithSafe' /\ PolicyOwnerGranted'
  BY PolicyStep DEF PolicyInv
<1>. QED
  BY <1>1, <1>2, VaultAlways, PTL DEF Spec

-----------------------------------------------------------------------------
(* The owner's target, while it is the executor that moves the position.   *)

LEMMA DelegatedIsNext == [DelegatedNext]_vars => [Next]_vars
BY DEF DelegatedNext, Next, OwnerMoneyStep, OwnerPolicyStep

onycPrincipal == safe.route_principal[ROUTE_ONYC]
kaminoTarget == safe.allocation_bps[ROUTE_KAMINO_USDC]
WithinTarget(basis, other, free, bps) == basis * 10000 <= (basis + other + free) * bps

LEMMA TargetOf ==
  ASSUME VaultInv
  PROVE  /\ kaminoPrincipal \in Nat /\ onycPrincipal \in Nat /\ idle \in Nat
         /\ kaminoTarget \in Nat /\ kaminoTarget <= 10000
         /\ TargetNeverExceeded <=>
              (safe.exists =>
                 WithinTarget(kaminoPrincipal, onycPrincipal, idle, kaminoTarget))
<1>1. kaminoPrincipal \in Nat /\ onycPrincipal \in Nat /\ idle \in Nat
  BY DEF VaultInv, TypeOK, kaminoPrincipal, onycPrincipal, Routes
<1>2. kaminoTarget \in Nat /\ kaminoTarget <= 10000
  <2>1. kaminoTarget \in 0 .. BPS_DENOMINATOR
    BY TargetInRange DEF VaultInv, TypeOK, AllocationValid, kaminoTarget
  <2>. QED
    BY <2>1 DEF BPS_DENOMINATOR
<1>3. TotalPrincipalAfter(safe.route_principal, ROUTE_KAMINO_USDC, kaminoPrincipal)
        = kaminoPrincipal + onycPrincipal
  BY DEF TotalPrincipalAfter, RouteSum, VaultInv, TypeOK, Routes, ROUTE_KAMINO_USDC, ROUTE_ONYC,
         kaminoPrincipal, onycPrincipal
<1>. QED
  BY <1>1, <1>2, <1>3
  DEF TargetNeverExceeded, PrincipalWithinTarget, WithinTarget, kaminoTarget, BPS_DENOMINATOR

(* Less basis and more idle USDC can only lower the share of the route.    *)
LEMMA ShareOnlyFalls ==
  ASSUME NEW basis \in Nat, NEW other \in Nat, NEW free \in Nat, NEW bps \in Nat,
         bps <= 10000, WithinTarget(basis, other, free, bps),
         NEW less \in Nat, less <= basis, NEW more \in Nat, more >= free
  PROVE  WithinTarget(less, other, more, bps)
<1>1. basis * (10000 - bps) <= (other + free) * bps
  BY DEF WithinTarget
<1>2. less * (10000 - bps) <= basis * (10000 - bps)
  OBVIOUS
<1>3. (other + free) * bps <= (other + more) * bps
  OBVIOUS
<1>4. less * (10000 - bps) <= (other + more) * bps
  BY <1>1, <1>2, <1>3
<1>. QED
  BY <1>4 DEF WithinTarget

LEMMA NoBasisWithinTarget ==
  ASSUME VaultInv, kaminoPrincipal = 0
  PROVE  TargetNeverExceeded
<1>1. WithinTarget(0, onycPrincipal, idle, kaminoTarget)
  BY TargetOf DEF WithinTarget
<1>. QED
  BY <1>1, TargetOf

(* The check of kamino_deposit is on the state the instruction leaves.     *)
LEMMA ExecutorDepositWithinTarget ==
  ASSUME VaultInv, NEW executor \in Executors, NEW amount \in KaminoAmounts,
         KaminoDeposit(executor, amount)
  PROVE  TargetNeverExceeded'
<1>1. executor # Owner
  BY VaultAssumption
<1>2. PICK deposited \in KvaultTaken(amount) :
        LET after == kaminoPrincipal + deposited
        IN  /\ idle' = idle - deposited
            /\ safe' = [safe EXCEPT !.route_principal[ROUTE_KAMINO_USDC] = after]
            /\ PrincipalWithinTarget(safe.route_principal, safe.allocation_bps,
                                     ROUTE_KAMINO_USDC, after, idle - deposited)
  BY <1>1 DEF KaminoDeposit, CostBasis, RespectsTarget, kaminoPrincipal
<1>3. /\ kaminoPrincipal' = kaminoPrincipal + deposited
      /\ safe'.allocation_bps = safe.allocation_bps
      /\ [safe'.route_principal EXCEPT ![ROUTE_KAMINO_USDC] = kaminoPrincipal + deposited]
           = [safe.route_principal EXCEPT ![ROUTE_KAMINO_USDC] = kaminoPrincipal + deposited]
  BY <1>2 DEF VaultInv, TypeOK, Routes, kaminoPrincipal
<1>. QED
  BY <1>2, <1>3 DEF TargetNeverExceeded, PrincipalWithinTarget, TotalPrincipalAfter

LEMMA ExitWithinTarget ==
  ASSUME VaultInv, VaultInv', TargetNeverExceeded,
         NEW received \in Nat, NEW returned \in Nat, NEW fee \in Nat,
         ExitOf(received, returned, fee)
  PROVE  TargetNeverExceeded'
<1>1. /\ kaminoPrincipal' = kaminoPrincipal - returned
      /\ onycPrincipal' = onycPrincipal /\ kaminoTarget' = kaminoTarget
      /\ safe.exists
  BY ExitBasis
  DEF ExitOf, VaultInv, TypeOK, Routes, ROUTE_KAMINO_USDC, ROUTE_ONYC, onycPrincipal, kaminoTarget
<1>2. idle' = idle + received - fee /\ fee <= received
  BY DEF ExitOf
<1>3. /\ kaminoPrincipal \in Nat /\ onycPrincipal \in Nat /\ idle \in Nat
      /\ kaminoTarget \in Nat /\ kaminoTarget <= 10000
      /\ WithinTarget(kaminoPrincipal, onycPrincipal, idle, kaminoTarget)
  BY <1>1, TargetOf
<1>4. /\ kaminoPrincipal' \in Nat /\ idle' \in Nat
      /\ kaminoPrincipal' <= kaminoPrincipal /\ idle' >= idle
  <2>1. kaminoPrincipal' \in Nat /\ idle' \in Nat
    BY DEF VaultInv, TypeOK, kaminoPrincipal, Routes
  <2>. QED
    BY <1>1, <1>2, <1>3, <2>1
<1>5. WithinTarget(kaminoPrincipal', onycPrincipal, idle', kaminoTarget)
  BY <1>3, <1>4, ShareOnlyFalls
<1>6. WithinTarget(kaminoPrincipal, onycPrincipal, idle, kaminoTarget)'
  BY <1>1, <1>5 DEF WithinTarget
<1>. QED
  BY <1>6, TargetOf, PTL

LEMMA TargetStep ==
  ASSUME VaultInv, VaultInv', TargetNeverExceeded, [DelegatedNext]_vars
  PROVE  TargetNeverExceeded'
<1>1. CASE AdminStep
  BY <1>1
  DEF AdminStep, InitConfig, SetConfig, InitExecutorRegistry, SetExecutorRegistry,
      TargetNeverExceeded, kaminoPrincipal, moneyVars
<1>2. ASSUME NEW e \in Executors, KaminoStep(e) PROVE TargetNeverExceeded'
  BY <1>2, ExecutorDepositWithinTarget, KaminoWithdrawEffect, ExitWithinTarget DEF KaminoStep
<1>3. CASE Environment
  <2>1. ASSUME CreateSafeFor PROVE TargetNeverExceeded'
    <3>1. (kaminoPrincipal = 0)'
      BY <2>1, FreshSafeType, KaminoShareType DEF CreateSafeFor, kaminoPrincipal
    <3>. QED
      BY <3>1, NoBasisWithinTarget, PTL
  <2>. QED
    BY <1>3, <2>1
    DEF Environment, Accrue, LoseValue, Tick, TargetNeverExceeded, kaminoPrincipal, moneyVars
<1>4. ASSUME NEW amount \in DepositAmounts, Deposit(amount) PROVE TargetNeverExceeded'
  <2>1. amount \in Nat /\ idle' = idle + amount /\ safe' = safe
    BY <1>4, VaultAssumption DEF Deposit
  <2>2. ASSUME safe.exists
        PROVE  WithinTarget(kaminoPrincipal, onycPrincipal, idle', kaminoTarget)
    BY <2>1, <2>2, TargetOf, ShareOnlyFalls
  <2>3. (safe.exists => WithinTarget(kaminoPrincipal, onycPrincipal, idle, kaminoTarget))'
    BY <2>1, <2>2 DEF WithinTarget, kaminoPrincipal, onycPrincipal, kaminoTarget
  <2>. QED
    BY <2>3, TargetOf, PTL
<1>5. ASSUME NEW a \in Executors, NEW bps \in Allocations,
             InitializeWithLimits(a, KaminoShare(bps))
      PROVE  TargetNeverExceeded'
  <2>1. (kaminoPrincipal = 0)'
    BY <1>5, FreshSafeType, KaminoShareType, VaultAssumption
    DEF InitializeWithLimits, InitializeVaultState, kaminoPrincipal
  <2>. QED
    BY <2>1, NoBasisWithinTarget, PTL
<1>6. ASSUME NEW a \in LimitValues, NEW v \in LimitValues, NEW p \in LimitValues,
             NEW enabled \in BOOLEAN, SetExecutorLimits(a, v, p, enabled)
      PROVE  TargetNeverExceeded'
  BY <1>6 DEF SetExecutorLimits, TargetNeverExceeded, kaminoPrincipal, moneyVars
<1>7. CASE UNCHANGED vars
  BY <1>7 DEF vars, moneyVars, TargetNeverExceeded, kaminoPrincipal
<1>. QED
  BY <1>1, <1>2, <1>3, <1>4, <1>5, <1>6, <1>7 DEF DelegatedNext, ExecutorStep

(* "Repeated deposits cannot turn a 50% owner target into nearly 100%"     *)
(* (kamino_deposit, principal_within_target): while only the executor      *)
(* moves the position, its basis stays within the owner's target, for any  *)
(* number of executors, deposits, exits, gains and losses.                 *)
THEOREM TargetIsNeverExceeded == DelegatedSpec => []TargetNeverExceeded
<1>1. Init => TargetNeverExceeded
  BY DEF Init, NoSafe, TargetNeverExceeded
<1>2. VaultInv /\ [DelegatedNext]_vars => VaultInv'
  BY DelegatedIsNext, VaultStep
<1>3. VaultInv /\ VaultInv' /\ TargetNeverExceeded /\ [DelegatedNext]_vars
        => TargetNeverExceeded'
  BY TargetStep
<1>. QED
  BY <1>1, <1>2, <1>3, VaultInit, PTL DEF DelegatedSpec

-----------------------------------------------------------------------------
(* The Exponent route.                                                     *)

-----------------------------------------------------------------------------
(* The arithmetic of an exit and of the markets. *)

(* basis_for_exit returns a part of the principal, and all of it last.     *)
LEMMA BasisForExitBounded ==
  ASSUME NEW principal \in Nat, NEW tracked \in Nat, NEW amount \in Nat,
         0 < amount, amount <= tracked
  PROVE  /\ BasisForExit(principal, tracked, amount) \in Nat
         /\ BasisForExit(principal, tracked, amount) <= principal
         /\ amount = tracked => BasisForExit(principal, tracked, amount) = principal
<1>1. (principal * amount) \div tracked \in Nat /\ (principal * amount) \div tracked <= principal
  BY PartOfWhole
<1>. QED
  BY <1>1 DEF BasisForExit

LEMMA PtBoughtType ==
  ASSUME NEW usdc \in Nat
  PROVE  PtBought(usdc) \subseteq Nat
<1>1. ASSUME NEW r \in Rates PROVE (usdc * UNITS_PER_USDC * r) \div 100 \in Nat
  <2>1. r \in Nat /\ UNITS_PER_USDC \in Nat
    BY ExponentAssumption
  <2>2. usdc * UNITS_PER_USDC * r \in Nat
    BY <2>1
  <2>. HIDE <2>1
  <2>. QED
    BY <2>2
<1>. QED
  BY <1>1 DEF PtBought

LEMMA PtSoldType ==
  ASSUME NEW amount \in Nat
  PROVE  PtSold(amount) \subseteq Nat
<1>1. ASSUME NEW r \in Rates PROVE ((amount * r) \div 100) \div UNITS_PER_USDC \in Nat
  <2>1. r \in Nat /\ UNITS_PER_USDC \in Nat \ {0}
    BY ExponentAssumption
  <2>2. amount * r \in Nat
    BY <2>1
  <2>3. (amount * r) \div 100 \in Nat
    BY <2>2
  <2>. QED
    BY <2>1, <2>3
<1>. QED
  BY <1>1 DEF PtSold

LEMMA OnycValueType ==
  ASSUME NEW amount \in Nat
  PROVE  OnycValue(amount) \in Nat
<1>1. UNITS_PER_USDC \in Nat \ {0} /\ amount + UNITS_PER_USDC - 1 \in Nat
  BY ExponentAssumption
<1>. QED
  BY <1>1 DEF OnycValue

(* check_loss at any policy within the bound keeps the bound itself.       *)
LEMMA LossWithinBound ==
  ASSUME NEW basis \in Nat, NEW received \in Nat, NEW loss \in 0 .. MAX_LOSS_BPS,
         CheckLoss(basis, received, loss)
  PROVE  received * BPS_DENOMINATOR >= basis * (BPS_DENOMINATOR - MAX_LOSS_BPS)
<1>1. loss \in Nat /\ loss <= 500 /\ received * 10000 >= basis * (10000 - loss)
  BY DEF MAX_LOSS_BPS, CheckLoss, BPS_DENOMINATOR
<1>2. basis * (10000 - loss) >= basis * 9500
  BY <1>1
<1>. QED
  BY <1>1, <1>2 DEF MAX_LOSS_BPS, BPS_DENOMINATOR

-----------------------------------------------------------------------------
(* The position by itself.  The three properties are inductive together:   *)
(* the books need that an exit takes no more than there is, which needs    *)
(* types, and tracked PT and basis end together because the last exit      *)
(* takes the rest.                                                         *)
PositionInv ==
  /\ ExponentTypeOK
  /\ BasisConserved
  /\ TrackedIsHeld
  /\ ExecutorLossCapped

(* PT were bought with, or given away for, part of the basis.              *)
Bought(spent, acquired) ==
  /\ position' = [position EXCEPT !.principal_usdc = @ + spent,
                                  !.tracked_pt = @ + acquired,
                                  !.total_spent_usdc = @ + spent]
  /\ pt' = pt + acquired
  /\ onyc' \in Nat
  /\ UNCHANGED <<ownerOnyc, executorExits>>

Sold(amount, basis, received) ==
  /\ position' = ExitBooks(amount, basis, received)
  /\ pt' = pt - amount
  /\ ownerOnyc' \in Nat
  /\ \/ UNCHANGED executorExits
     \/ /\ executorExits' = [basis |-> executorExits.basis + basis,
                             received |-> executorExits.received + received]
        /\ received * BPS_DENOMINATOR >= basis * (BPS_DENOMINATOR - MAX_LOSS_BPS)
  /\ UNCHANGED onyc

LEMMA BoughtKeepsPosition ==
  ASSUME PositionInv, NEW spent \in Nat, NEW acquired \in Nat, acquired > 0,
         Bought(spent, acquired)
  PROVE  PositionInv'
<1>1. /\ position.principal_usdc + spent \in Nat
      /\ position.tracked_pt + acquired \in Nat
      /\ position.total_spent_usdc + spent \in Nat
      /\ pt + acquired \in Nat
  BY DEF PositionInv, ExponentTypeOK
<1>2. ExponentTypeOK'
  BY <1>1 DEF PositionInv, ExponentTypeOK, Bought
<1>3. BasisConserved'
  BY DEF PositionInv, ExponentTypeOK, BasisConserved, Bought
<1>4. TrackedIsHeld'
  BY DEF PositionInv, ExponentTypeOK, TrackedIsHeld, Bought
<1>5. ExecutorLossCapped'
  BY DEF PositionInv, ExecutorLossCapped, Bought
<1>. QED
  BY <1>2, <1>3, <1>4, <1>5 DEF PositionInv

LEMMA SoldKeepsPosition ==
  ASSUME PositionInv, NEW received \in Nat, NEW amount \in Nat, NEW basis \in Nat,
         amount <= position.tracked_pt, basis <= position.principal_usdc,
         amount = position.tracked_pt => basis = position.principal_usdc,
         Sold(amount, basis, received)
  PROVE  PositionInv'
<1>1. /\ position.principal_usdc - basis \in Nat
      /\ position.tracked_pt - amount \in Nat
      /\ position.realized_basis_usdc + basis \in Nat
      /\ position.total_received_usdc + received \in Nat
      /\ pt - amount \in Nat
      /\ executorExits.basis + basis \in Nat
      /\ executorExits.received + received \in Nat
  BY DEF PositionInv, ExponentTypeOK, TrackedIsHeld
<1>2. ExponentTypeOK'
  <2>1. executorExits' \in [basis : Nat, received : Nat]
    BY <1>1 DEF PositionInv, ExponentTypeOK, Sold
  <2>2. position' \in
          [exists : BOOLEAN, enabled : BOOLEAN, max_loss_bps : 0 .. MAX_LOSS_BPS,
           tracked_pt : Nat, principal_usdc : Nat, total_spent_usdc : Nat,
           total_received_usdc : Nat, realized_basis_usdc : Nat,
           recovered_basis_usdc : Nat]
    BY <1>1 DEF PositionInv, ExponentTypeOK, Sold, ExitBooks
  <2>. QED
    BY <1>1, <2>1, <2>2 DEF PositionInv, ExponentTypeOK, Sold
<1>3. BasisConserved'
  BY DEF PositionInv, ExponentTypeOK, BasisConserved, Sold, ExitBooks
<1>4. TrackedIsHeld'
  BY DEF PositionInv, ExponentTypeOK, TrackedIsHeld, Sold, ExitBooks
<1>5. ExecutorLossCapped'
  <2>1. CASE UNCHANGED executorExits
    BY <2>1 DEF PositionInv, ExecutorLossCapped
  <2>2. CASE executorExits' # executorExits
    <3>1. /\ executorExits'.basis = executorExits.basis + basis
          /\ executorExits'.received = executorExits.received + received
          /\ received * 10000 >= basis * 9500
      BY <2>2 DEF Sold, BPS_DENOMINATOR, MAX_LOSS_BPS
    <3>2. /\ executorExits.basis \in Nat /\ executorExits.received \in Nat
          /\ executorExits.received * 10000 >= executorExits.basis * 9500
      BY DEF PositionInv, ExponentTypeOK, ExecutorLossCapped, BPS_DENOMINATOR, MAX_LOSS_BPS
    <3>3. (executorExits.received + received) * 10000 >= (executorExits.basis + basis) * 9500
      BY <3>1, <3>2
    <3>. QED
      BY <3>1, <3>3 DEF ExecutorLossCapped, BPS_DENOMINATOR, MAX_LOSS_BPS
  <2>. QED
    BY <2>1, <2>2
<1>. QED
  BY <1>2, <1>3, <1>4, <1>5 DEF PositionInv

-----------------------------------------------------------------------------
(* Every action keeps the position. *)

LEMMA BuyKeepsPosition ==
  ASSUME PositionInv, NEW signer, NEW spent \in Nat, NEW idle_after,
         BuyPt(signer, spent, idle_after), onyc' \in Nat
  PROVE  PositionInv'
<1>1. PICK acquired \in PtBought(spent) :
        /\ pt' = pt + acquired
        /\ position' = [position EXCEPT !.principal_usdc = position.principal_usdc + spent,
                                        !.tracked_pt = @ + acquired,
                                        !.total_spent_usdc = @ + spent]
  BY DEF BuyPt
<1>2. acquired \in Nat /\ acquired > 0
  BY <1>1, PtBoughtType DEF PtBought
<1>3. Bought(spent, acquired)
  BY <1>1 DEF Bought, BuyPt
<1>. QED
  BY <1>2, <1>3, BoughtKeepsPosition

LEMMA ExitKeepsPosition ==
  ASSUME PositionInv, NEW signer, NEW amount \in Nat, NEW received \in Nat,
         ExitPt(signer, amount, received), ownerOnyc' \in Nat
  PROVE  PositionInv'
<1>. DEFINE basis == BasisForExit(position.principal_usdc, position.tracked_pt, amount)
<1>1. /\ position.principal_usdc \in Nat /\ position.tracked_pt \in Nat
      /\ position.max_loss_bps \in 0 .. MAX_LOSS_BPS
      /\ amount > 0 /\ amount <= position.tracked_pt
  BY DEF PositionInv, ExponentTypeOK, ExitPt
<1>2. /\ basis \in Nat /\ basis <= position.principal_usdc
      /\ amount = position.tracked_pt => basis = position.principal_usdc
  BY <1>1, BasisForExitBounded
<1>3. ExecutorOf(signer) => received * BPS_DENOMINATOR >= basis * (BPS_DENOMINATOR - MAX_LOSS_BPS)
  BY <1>1, <1>2, LossWithinBound DEF ExitPt
<1>4. Sold(amount, basis, received)
  BY <1>3 DEF ExitPt, Sold
<1>. HIDE DEF basis
<1>. QED
  BY <1>1, <1>2, <1>4, SoldKeepsPosition

(* PT left in kind: the tracked ones first, with their part of the basis.  *)
Recovered(amount, out, basis) ==
  /\ position' = [position EXCEPT !.tracked_pt = @ - out, !.principal_usdc = @ - basis,
                                  !.recovered_basis_usdc = @ + basis, !.enabled = FALSE]
  /\ pt' = pt - amount
  /\ UNCHANGED <<onyc, ownerOnyc, executorExits>>

LEMMA RecoveredKeepsPosition ==
  ASSUME PositionInv, NEW amount \in Nat, NEW out \in Nat, NEW basis \in Nat,
         amount <= pt, out <= amount, out <= position.tracked_pt,
         out = amount \/ out = position.tracked_pt,
         basis <= position.principal_usdc,
         out = position.tracked_pt => basis = position.principal_usdc,
         Recovered(amount, out, basis)
  PROVE  PositionInv'
<1>1. /\ position.principal_usdc \in Nat /\ position.tracked_pt \in Nat /\ pt \in Nat
      /\ position.tracked_pt <= pt
  BY DEF PositionInv, ExponentTypeOK, TrackedIsHeld
<1>2. /\ position.principal_usdc - basis \in Nat
      /\ position.tracked_pt - out \in Nat
      /\ position.recovered_basis_usdc + basis \in Nat
      /\ pt - amount \in Nat
      /\ position.tracked_pt - out <= pt - amount
  BY <1>1 DEF PositionInv, ExponentTypeOK
<1>3. ExponentTypeOK'
  BY <1>2 DEF PositionInv, ExponentTypeOK, Recovered
<1>4. BasisConserved'
  BY DEF PositionInv, ExponentTypeOK, BasisConserved, Recovered
<1>5. TrackedIsHeld'
  BY <1>1, <1>2 DEF PositionInv, ExponentTypeOK, TrackedIsHeld, Recovered
<1>. QED
  BY <1>3, <1>4, <1>5 DEF PositionInv, ExecutorLossCapped, Recovered

LEMMA RecoverKeepsPosition ==
  ASSUME PositionInv, NEW amount \in Nat, RecoverExponentPt(amount)
  PROVE  PositionInv'
<1>1. /\ 0 < amount /\ amount <= pt /\ pt' = pt - amount
      /\ UNCHANGED <<onyc, ownerOnyc, executorExits>>
  BY DEF RecoverExponentPt
<1>2. /\ position.principal_usdc \in Nat /\ position.tracked_pt \in Nat /\ pt \in Nat
      /\ position.tracked_pt <= pt
  BY DEF PositionInv, ExponentTypeOK, TrackedIsHeld
<1>3. CASE position.tracked_pt > 0
  <2>. DEFINE out == IF amount < position.tracked_pt THEN amount ELSE position.tracked_pt
              basis == BasisForExit(position.principal_usdc, position.tracked_pt, out)
  <2>1. RecoverPt(amount)
    BY <1>3 DEF RecoverExponentPt
  <2>2. /\ out \in Nat /\ 0 < out /\ out <= position.tracked_pt /\ out <= amount
        /\ out = amount \/ out = position.tracked_pt
    BY <1>1, <1>2, <1>3
  <2>3. /\ basis \in Nat /\ basis <= position.principal_usdc
        /\ out = position.tracked_pt => basis = position.principal_usdc
    BY <1>2, <2>2, BasisForExitBounded
  <2>4. Recovered(amount, out, basis)
    BY <1>1, <2>1 DEF RecoverPt, Recovered
  <2>. HIDE DEF out, basis
  <2>. QED
    BY <1>1, <2>2, <2>3, <2>4, RecoveredKeepsPosition
<1>4. CASE position.tracked_pt = 0
  <2>1. position' = [position EXCEPT !.enabled = FALSE]
    BY <1>2, <1>4 DEF RecoverExponentPt
  <2>2. pt - amount \in Nat
    BY <1>1, <1>2
  <2>3. ExponentTypeOK' /\ BasisConserved' /\ ExecutorLossCapped'
    BY <1>1, <2>1, <2>2
    DEF PositionInv, ExponentTypeOK, BasisConserved, ExecutorLossCapped
  <2>4. TrackedIsHeld'
    BY <1>1, <1>4, <2>1, <2>2 DEF PositionInv, ExponentTypeOK, TrackedIsHeld
  <2>. QED
    BY <2>3, <2>4 DEF PositionInv
<1>. QED
  BY <1>2, <1>3, <1>4

(* Actions that move no PT. *)
LEMMA PolicyKeepsPosition ==
  ASSUME PositionInv, NEW loss \in PolicyLosses, NEW enabled \in BOOLEAN,
         InitExponentPosition(loss) \/ SetExponentPolicy(enabled, loss)
  PROVE  PositionInv'
<1>1. loss \in 0 .. MAX_LOSS_BPS
  BY ExponentAssumption
  DEF InitExponentPosition, SetExponentPolicy, ValidatePolicy, MAX_LOSS_BPS
<1>2. CASE InitExponentPosition(loss)
  <2>1. /\ position' = [NoPosition EXCEPT !.exists = TRUE, !.enabled = TRUE,
                                          !.max_loss_bps = loss]
        /\ UNCHANGED <<pt, onyc, ownerOnyc, executorExits>>
    BY <1>2 DEF InitExponentPosition
  <2>2. position' = [exists |-> TRUE, enabled |-> TRUE, max_loss_bps |-> loss,
                     tracked_pt |-> 0, principal_usdc |-> 0, total_spent_usdc |-> 0,
                     total_received_usdc |-> 0, realized_basis_usdc |-> 0,
                     recovered_basis_usdc |-> 0]
    BY <2>1, Zenon DEF NoPosition
  <2>3. position' \in
          [exists : BOOLEAN, enabled : BOOLEAN, max_loss_bps : 0 .. MAX_LOSS_BPS,
           tracked_pt : Nat, principal_usdc : Nat, total_spent_usdc : Nat,
           total_received_usdc : Nat, realized_basis_usdc : Nat,
           recovered_basis_usdc : Nat]
    BY <1>1, <2>2
  <2>4. ExponentTypeOK'
    BY <2>1, <2>3 DEF PositionInv, ExponentTypeOK
  <2>5. BasisConserved' /\ TrackedIsHeld'
    <3>1. /\ position'.tracked_pt = 0 /\ position'.principal_usdc = 0
          /\ position'.total_spent_usdc = 0
          /\ position'.realized_basis_usdc = 0 /\ position'.recovered_basis_usdc = 0
      BY <2>2
    <3>2. 0 <= pt'
      BY <2>1 DEF PositionInv, ExponentTypeOK
    <3>. QED
      BY <3>1, <3>2 DEF BasisConserved, TrackedIsHeld
  <2>6. ExecutorLossCapped'
    BY <2>1 DEF PositionInv, ExecutorLossCapped
  <2>. QED
    BY <2>4, <2>5, <2>6 DEF PositionInv
<1>3. CASE SetExponentPolicy(enabled, loss)
  BY <1>1, <1>3
  DEF SetExponentPolicy, PositionInv, ExponentTypeOK, BasisConserved, TrackedIsHeld,
      ExecutorLossCapped
<1>. QED
  BY <1>2, <1>3

LEMMA OnycKeepsPosition ==
  ASSUME PositionInv, NEW amount \in Nat,
         DepositOnyc(amount) \/ WithdrawOnyc(amount) \/ RecoverExponentOnyc(amount)
  PROVE  PositionInv'
<1>1. onyc' \in Nat /\ ownerOnyc' \in Nat
  BY DEF DepositOnyc, WithdrawOnyc, RecoverExponentOnyc, PositionInv, ExponentTypeOK
<1>2. position' = position \/ position' = [position EXCEPT !.enabled = FALSE]
  BY DEF DepositOnyc, WithdrawOnyc, RecoverExponentOnyc
<1>3. UNCHANGED <<pt, executorExits>>
  BY DEF DepositOnyc, WithdrawOnyc, RecoverExponentOnyc
<1>. QED
  BY <1>1, <1>2, <1>3
  DEF PositionInv, ExponentTypeOK, BasisConserved, TrackedIsHeld, ExecutorLossCapped

LEMMA TradeKeepsPosition ==
  ASSUME PositionInv, NEW signer, ExponentTrade(signer)
  PROVE  PositionInv'
<1>1. ASSUME NEW amount \in BuyAmounts, ExponentBuyPt(signer, amount)
      PROVE  PositionInv'
  <2>1. amount \in Nat /\ onyc' \in Nat
    BY <1>1, ExponentAssumption DEF ExponentBuyPt, PositionInv, ExponentTypeOK
  <2>. QED
    BY <1>1, <2>1, BuyKeepsPosition DEF ExponentBuyPt
<1>2. ASSUME NEW amount \in Parts(position.tracked_pt), ExponentExitPt(signer, amount)
      PROVE  PositionInv'
  <2>1. amount \in Nat
    BY DEF Parts
  <2>2. PICK received \in PtSold(amount) :
          ExitPt(signer, amount, received) /\ UNCHANGED ownerOnyc
    BY <1>2 DEF ExponentExitPt
  <2>3. received \in Nat /\ ownerOnyc' \in Nat
    BY <2>1, <2>2, PtSoldType DEF PositionInv, ExponentTypeOK
  <2>. QED
    BY <2>1, <2>2, <2>3, ExitKeepsPosition
<1>. QED
  BY <1>1, <1>2 DEF ExponentTrade

LEMMA InKindKeepsPosition == PositionInv /\ OwnerInKind => PositionInv'
<1>. SUFFICES ASSUME PositionInv, OwnerInKind PROVE PositionInv'
  OBVIOUS
<1>1. ASSUME NEW amount \in OnycAmounts, ExponentBuyPtWithOnyc(amount) PROVE PositionInv'
  <2>1. amount \in Nat /\ OnycValue(amount) \in Nat
    BY OnycValueType, ExponentAssumption
  <2>2. onyc' \in Nat
    BY <1>1, <2>1 DEF ExponentBuyPtWithOnyc, PositionInv, ExponentTypeOK
  <2>. QED
    BY <1>1, <2>1, <2>2, BuyKeepsPosition DEF ExponentBuyPtWithOnyc
<1>2. ASSUME NEW amount \in Parts(pt), ExponentExitPtForOnyc(amount) PROVE PositionInv'
  <2>1. amount \in Nat
    BY DEF Parts
  <2>2. ownerOnyc' \in Nat
    BY <1>2, <2>1 DEF ExponentExitPtForOnyc, OnycForPt, PositionInv, ExponentTypeOK
  <2>. QED
    BY <1>2, <2>1, <2>2, ExitKeepsPosition DEF ExponentExitPtForOnyc
<1>3. ASSUME NEW amount \in Parts(pt), RecoverExponentPt(amount) PROVE PositionInv'
  BY <1>3, RecoverKeepsPosition DEF Parts
<1>4. ASSUME NEW amount \in OnycAmounts,
             DepositOnyc(amount) \/ WithdrawOnyc(amount) \/ RecoverExponentOnyc(amount)
      PROVE  PositionInv'
  BY <1>4, OnycKeepsPosition, ExponentAssumption
<1>. QED
  BY <1>1, <1>2, <1>3, <1>4 DEF OwnerInKind

LEMMA PositionStep == PositionInv /\ [ExponentNext]_allVars => PositionInv'
<1>. SUFFICES ASSUME PositionInv, [ExponentNext]_allVars PROVE PositionInv'
  OBVIOUS
<1>1. CASE UNCHANGED exponentVars
  BY <1>1
  DEF exponentVars, PositionInv, ExponentTypeOK, BasisConserved, TrackedIsHeld,
      ExecutorLossCapped
<1>2. CASE SafeStep \/ UNCHANGED allVars
  BY <1>1, <1>2 DEF SafeStep, allVars
<1>3. CASE OwnerExponentPolicy
  BY <1>1, <1>3, PolicyKeepsPosition DEF OwnerExponentPolicy
<1>4. CASE OwnerInKind
  BY <1>4, InKindKeepsPosition
<1>5. CASE ExponentTrade(Owner) \/ ExecutorTrade
  BY <1>5, TradeKeepsPosition DEF ExecutorTrade
<1>6. CASE ReceivePt
  BY <1>6
  DEF ReceivePt, PositionInv, ExponentTypeOK, BasisConserved, TrackedIsHeld,
      ExecutorLossCapped
<1>. QED
  BY <1>2, <1>3, <1>4, <1>5, <1>6 DEF ExponentNext

LEMMA PositionInit == ExponentInit => PositionInv
<1>. SUFFICES ASSUME ExponentInit PROVE PositionInv
  OBVIOUS
<1>1. ExponentTypeOK /\ BasisConserved
  BY ExponentAssumption
  DEF ExponentInit, NoPosition, ExponentTypeOK, BasisConserved, MAX_LOSS_BPS
<1>2. TrackedIsHeld
  BY DEF ExponentInit, NoPosition, TrackedIsHeld
<1>3. ExecutorLossCapped
  BY DEF ExponentInit, ExecutorLossCapped, MAX_LOSS_BPS, BPS_DENOMINATOR
<1>. QED
  BY <1>1, <1>2, <1>3 DEF PositionInv

LEMMA PositionAlways == ExponentSpec => []PositionInv
BY PositionInit, PositionStep, PTL DEF ExponentSpec

(* The position account and the token balances of the route keep their     *)
(* types, and the owner's policy never allows a loss above 5%.             *)
THEOREM ExponentTypeCorrect == ExponentSpec => []ExponentTypeOK
BY PositionAlways, PTL DEF PositionInv

(* buy, exit and recover: what was ever spent is invested, realised or     *)
(* recovered, for all amounts and prices and however the parts are rounded.*)
THEOREM BasisIsConserved == ExponentSpec => []BasisConserved
BY PositionAlways, PTL DEF PositionInv

(* exit() is never barred by its check that the Safe holds the tracked PT. *)
THEOREM TrackedPtIsHeld == ExponentSpec => []TrackedIsHeld
BY PositionAlways, PTL DEF PositionInv

(* check_loss: over any number of exits an executor loses at most 5% of    *)
(* the basis it realised.                                                  *)
THEOREM ExecutorLossIsCapped == ExponentSpec => []ExecutorLossCapped
BY PositionAlways, PTL DEF PositionInv
-----------------------------------------------------------------------------
(* Safe and position together.  The inductive invariant adds to both parts *)
(* that the two records of the principal are equal even while there is no  *)
(* Safe, which is where a client that empties the Safe first is needed.    *)

NoSafeNoOnycBasis == ~safe.exists => safe.route_principal[ROUTE_ONYC] = 0
NoPositionNoBasis == ~position.exists => position.principal_usdc = 0

RouteInv ==
  /\ VaultInv
  /\ PositionInv
  /\ NoSafeNoOnycBasis
  /\ NoPositionNoBasis
  /\ RouteInStep
  /\ PositionHasItsAccounts

(* What a step of the Safe and of the Kamino route does to the rest: it    *)
(* leaves the principal of the ONyc route alone, or creates or closes the  *)
(* Safe; and the accounts of the protocol stay.                            *)
OnycRouteKept ==
  /\ safe'.route_principal[ROUTE_ONYC] = safe.route_principal[ROUTE_ONYC]
  /\ safe'.exists = safe.exists
  /\ limits.exists => limits'.exists

OnycRouteReset ==
  /\ safe'.route_principal[ROUTE_ONYC] = 0
  /\ safe'.exists <=> ~safe.exists

ProtocolStays ==
  /\ registry.exists => registry'.exists
  /\ config.exists => config'.exists

LEMMA FreshOnycRoute ==
  ASSUME NEW agent, NEW bps, safe' = FreshSafe(agent, bps), ~safe.exists,
         UNCHANGED <<config, registry>>
  PROVE  OnycRouteReset /\ ProtocolStays
<1>1. /\ FreshSafe(agent, bps).exists
      /\ FreshSafe(agent, bps).route_principal[ROUTE_ONYC] = 0
  BY DEF FreshSafe, Routes
<1>. QED
  BY <1>1 DEF OnycRouteReset, ProtocolStays

LEMMA KaminoKeepsOnycRoute ==
  ASSUME VaultInv, NEW signer, KaminoStep(signer)
  PROVE  OnycRouteKept /\ ProtocolStays
<1>1. safe.route_principal \in [Routes -> Nat] /\ ROUTE_ONYC \in Routes
      /\ ROUTE_ONYC # ROUTE_KAMINO_USDC
  BY DEF VaultInv, TypeOK, Routes, ROUTE_ONYC, ROUTE_KAMINO_USDC
<1>2. \A deposited \in Nat : DepositOf(deposited) => OnycRouteKept /\ ProtocolStays
  BY <1>1 DEF DepositOf, PolicyKept, OnycRouteKept, ProtocolStays, VaultInv, TypeOK
<1>3. \A received, returned, fee \in Nat :
        ExitOf(received, returned, fee) => OnycRouteKept /\ ProtocolStays
  BY <1>1 DEF ExitOf, PolicyKept, OnycRouteKept, ProtocolStays, VaultInv, TypeOK
<1>. QED
  BY <1>2, <1>3, KaminoDepositEffect, KaminoWithdrawEffect DEF KaminoStep

LEMMA OwnerPolicyAndOnycRoute ==
  ASSUME VaultInv, OwnerPolicyStep
  PROVE  (OnycRouteKept \/ OnycRouteReset) /\ ProtocolStays
<1>1. ASSUME NEW a \in Executors, NEW bps \in Allocations,
             Initialize(a, KaminoShare(bps)) \/ InitializeWithLimits(a, KaminoShare(bps))
      PROVE  OnycRouteReset /\ ProtocolStays
  BY <1>1, FreshOnycRoute DEF Initialize, InitializeWithLimits, InitializeVaultState
<1>2. ASSUME NEW c \in BOOLEAN, CloseSafe(c) PROVE OnycRouteReset /\ ProtocolStays
  BY <1>2 DEF CloseSafe, NoSafe, Routes, OnycRouteReset, ProtocolStays
<1>3. ASSUME NEW bps \in Allocations, SetAllocation(KaminoShare(bps))
      PROVE  OnycRouteKept /\ ProtocolStays
  BY <1>3 DEF SetAllocation, VaultInv, TypeOK, OnycRouteKept, ProtocolStays
<1>4. ASSUME NEW a \in Executors \cup {NoKey}, SetAgent(a)
      PROVE  OnycRouteKept /\ ProtocolStays
  BY <1>4 DEF SetAgent, VaultInv, TypeOK, OnycRouteKept, ProtocolStays
<1>5. ASSUME NEW a \in LimitValues, NEW v \in LimitValues, NEW p \in LimitValues,
             NEW enabled \in BOOLEAN, SetExecutorLimits(a, v, p, enabled)
      PROVE  OnycRouteKept /\ ProtocolStays
  BY <1>5
  DEF SetExecutorLimits, WithLimits, VaultInv, TypeOK, ExecutorLimits, OnycRouteKept,
      ProtocolStays
<1>. QED
  BY <1>1, <1>2, <1>3, <1>4, <1>5 DEF OwnerPolicyStep

LEMMA SafeAndOnycRoute ==
  ASSUME VaultInv, Next
  PROVE  (OnycRouteKept \/ OnycRouteReset) /\ ProtocolStays
<1>1. CASE AdminStep
  <2>1. ASSUME NEW a, NEW fee, InitConfig(a, fee) PROVE OnycRouteKept /\ ProtocolStays
    BY <2>1 DEF InitConfig, OnycRouteKept, ProtocolStays
  <2>2. ASSUME NEW s, NEW a, NEW fee, SetConfig(s, a, fee)
        PROVE  OnycRouteKept /\ ProtocolStays
    <3>1. config'.exists = config.exists
      BY <2>2 DEF SetConfig, VaultInv, TypeOK
    <3>. QED
      BY <2>2, <3>1 DEF SetConfig, OnycRouteKept, ProtocolStays
  <2>3. ASSUME NEW s, NEW d, NEW approved,
               InitExecutorRegistry(s, d, approved) \/ SetExecutorRegistry(s, d, approved)
        PROVE  OnycRouteKept /\ ProtocolStays
    <3>1. registry' = RegistryOf(d, approved) /\ UNCHANGED <<config, safe, limits>>
      BY <2>3 DEF InitExecutorRegistry, SetExecutorRegistry
    <3>2. registry'.exists
      BY <3>1 DEF RegistryOf
    <3>. QED
      BY <3>1, <3>2 DEF OnycRouteKept, ProtocolStays
  <2>. QED
    BY <1>1, <2>1, <2>2, <2>3 DEF AdminStep
<1>2. CASE OwnerPolicyStep
  BY <1>2, OwnerPolicyAndOnycRoute
<1>3. CASE OwnerMoneyStep
  BY <1>3, KaminoKeepsOnycRoute DEF OwnerMoneyStep, Deposit, Withdraw, OnycRouteKept, ProtocolStays
<1>4. CASE ExecutorStep
  BY <1>4, KaminoKeepsOnycRoute DEF ExecutorStep
<1>5. CASE CreateSafeFor
  BY <1>5, FreshOnycRoute DEF CreateSafeFor
<1>6. CASE Environment /\ ~CreateSafeFor
  <2>1. UNCHANGED <<config, registry, safe, limits>>
    BY <1>6 DEF Environment, Accrue, LoseValue, Tick
  <2>. QED
    BY <2>1 DEF OnycRouteKept, ProtocolStays
<1>. QED
  BY <1>1, <1>2, <1>3, <1>4, <1>5, <1>6 DEF Next

LEMMA SafeStepKeepsRoute ==
  ASSUME ClientEmptiesFirst, RouteInv, SafeStep
  PROVE  RouteInv'
<1>1. VaultInv' /\ PositionInv'
  BY VaultStep, PositionStep DEF RouteInv, SafeStep, ExponentNext
<1>2. UNCHANGED <<position, pt>> /\ (safe.exists /\ ~safe'.exists => pt = 0)
  BY DEF SafeStep, exponentVars
<1>3. ProtocolStays /\ (OnycRouteKept \/ OnycRouteReset)
  BY SafeAndOnycRoute DEF RouteInv, SafeStep
<1>4. pt = 0 => position.tracked_pt = 0 /\ position.principal_usdc = 0
  BY DEF RouteInv, PositionInv, ExponentTypeOK, TrackedIsHeld
<1>5. CASE OnycRouteKept
  BY <1>1, <1>2, <1>3, <1>5
  DEF RouteInv, NoSafeNoOnycBasis, NoPositionNoBasis, RouteInStep, PositionHasItsAccounts,
      OnycRouteKept, ProtocolStays
<1>6. CASE OnycRouteReset
  <2>1. position.principal_usdc = 0 /\ ~(position.tracked_pt > 0)
    <3>1. CASE safe.exists
      BY <1>2, <1>4, <1>6, <3>1 DEF OnycRouteReset
    <3>2. CASE ~safe.exists
      BY <3>2 DEF RouteInv, NoSafeNoOnycBasis, RouteInStep, PositionHasItsAccounts
    <3>. QED
      BY <3>1, <3>2
  <2>. QED
    BY <1>1, <1>2, <1>6, <2>1
    DEF RouteInv, NoSafeNoOnycBasis, NoPositionNoBasis, RouteInStep,
        PositionHasItsAccounts, OnycRouteReset
<1>. QED
  BY <1>3, <1>5, <1>6
(* What the Exponent actions do to the Safe: the principal of the ONyc     *)
(* route and, for a trade, USDC and the charge.                            *)
OnycTrade(principal) ==
  /\ safe' = [safe EXCEPT !.route_principal[ROUTE_ONYC] = principal]
  /\ PolicyKept
  /\ idle' \in Nat /\ wallet' \in Nat
  /\ UNCHANGED <<config, registry, shares, nav, treasury, losses, now, granted>>

LEMMA OnycTradeKeepsVault ==
  ASSUME VaultInv, NEW principal \in Nat, OnycTrade(principal)
  PROVE  /\ VaultInv'
         /\ safe'.exists = safe.exists
         /\ safe'.route_principal[ROUTE_ONYC] = principal
<1>1. /\ safe.route_principal \in [Routes -> Nat]
      /\ ROUTE_ONYC \in Routes /\ ROUTE_KAMINO_USDC \in Routes
      /\ ROUTE_ONYC # ROUTE_KAMINO_USDC
  BY DEF VaultInv, TypeOK, Routes, ROUTE_ONYC, ROUTE_KAMINO_USDC
<1>2. /\ safe'.allocation_bps = safe.allocation_bps
      /\ safe'.exists = safe.exists
      /\ safe'.route_principal[ROUTE_ONYC] = principal
      /\ safe'.route_principal[ROUTE_KAMINO_USDC] = safe.route_principal[ROUTE_KAMINO_USDC]
      /\ safe' \in [exists : BOOLEAN, agent : Executors \cup {NoKey},
                    allocation_bps : [Routes -> Nat], route_principal : [Routes -> Nat]]
  BY <1>1 DEF OnycTrade, VaultInv, TypeOK
<1>3. TypeOK'
  BY <1>2 DEF OnycTrade, PolicyKept, VaultInv, TypeOK
<1>. QED
  BY <1>2, <1>3
  DEF OnycTrade, VaultInv, AllocationValid, NoSafeNoBasis, NoPhantomPrincipal,
      DeployedInOrder, ExitAccountsExist, kaminoPrincipal

(* A buy adds what was spent to the principal of the ONyc route.           *)
LEMMA BuyTrades ==
  ASSUME VaultInv, PositionInv, NEW signer, NEW spent \in Nat, NEW idle_after,
         BuyPt(signer, spent, idle_after), idle' \in Nat
  PROVE  /\ position.principal_usdc + spent \in Nat
         /\ OnycTrade(position.principal_usdc + spent)
<1>1. position.principal_usdc + spent \in Nat
  BY DEF PositionInv, ExponentTypeOK
<1>2. PolicyKept
  BY ChargeKeepsPolicy DEF BuyPt, VaultInv
<1>. QED
  BY <1>1, <1>2 DEF BuyPt, OnycTrade, VaultInv, TypeOK

(* An exit writes what is left of the position's principal to the route,   *)
(* and charges the larger of its proceeds and its basis.                   *)
LEMMA ExitTrades ==
  ASSUME VaultInv, PositionInv, NEW signer, NEW amount \in Nat, NEW received \in Nat,
         ExitPt(signer, amount, received), wallet' \in Nat
  PROVE  \E principal \in Nat :
           /\ principal <= position.principal_usdc
           /\ OnycTrade(principal) /\ position'.principal_usdc = principal
           /\ ChargeExecutorVolume(signer,
                ExitCharge(received, position.principal_usdc - principal), NoPrincipal)
<1>1. PICK basis : basis = BasisForExit(position.principal_usdc, position.tracked_pt, amount)
  OBVIOUS
<1>2. position.principal_usdc \in Nat /\ basis \in Nat /\ basis <= position.principal_usdc
  BY <1>1, BasisForExitBounded DEF ExitPt, PositionInv, ExponentTypeOK
<1>3. /\ ChargeExecutorVolume(signer, ExitCharge(received, basis), NoPrincipal)
      /\ position' = ExitBooks(amount, basis, received)
      /\ safe' = [safe EXCEPT !.route_principal[ROUTE_ONYC] = position.principal_usdc - basis]
      /\ UNCHANGED <<config, registry, idle, shares, nav, treasury, losses, now, granted>>
  BY <1>1 DEF ExitPt
<1>4. PolicyKept
  <2>1. ExitCharge(received, basis) \in Nat
    BY <1>2 DEF ExitCharge
  <2>. QED
    BY <1>3, <2>1, ChargeKeepsPolicy DEF VaultInv
<1>5. PICK principal \in Nat :
        /\ principal = position.principal_usdc - basis
        /\ basis = position.principal_usdc - principal
        /\ principal <= position.principal_usdc
  BY <1>2
<1>6. OnycTrade(principal)
  BY <1>3, <1>4, <1>5 DEF OnycTrade, VaultInv, TypeOK
<1>7. position'.principal_usdc = principal
  BY <1>3, <1>5 DEF ExitBooks, PositionInv, ExponentTypeOK
<1>. QED
  BY <1>3, <1>5, <1>6, <1>7

(* A recovery of tracked PT writes what is left of the principal too.      *)
LEMMA RecoverTrades ==
  ASSUME VaultInv, PositionInv, NEW amount \in Nat, RecoverExponentPt(amount),
         position.tracked_pt > 0
  PROVE  \E principal \in Nat :
           OnycTrade(principal) /\ position'.principal_usdc = principal
<1>. DEFINE out == IF amount < position.tracked_pt THEN amount ELSE position.tracked_pt
            basis == BasisForExit(position.principal_usdc, position.tracked_pt, out)
            principal == position.principal_usdc - basis
<1>1. /\ position.tracked_pt \in Nat /\ position.principal_usdc \in Nat /\ amount > 0
      /\ UNCHANGED <<config, registry, limits, moneyVars, now, granted>>
  BY DEF RecoverExponentPt, PositionInv, ExponentTypeOK
<1>2. out \in Nat /\ 0 < out /\ out <= position.tracked_pt
  BY <1>1
<1>3. basis \in Nat /\ basis <= position.principal_usdc
  BY <1>1, <1>2, BasisForExitBounded
<1>4. principal \in Nat
  BY <1>1, <1>3
<1>5. OnycTrade(principal)
  BY <1>1
  DEF RecoverExponentPt, RecoverPt, OnycTrade, PolicyKept, moneyVars, VaultInv, TypeOK
<1>6. position'.principal_usdc = principal
  BY DEF RecoverExponentPt, RecoverPt, PositionInv, ExponentTypeOK
<1>. HIDE DEF principal
<1>. QED
  BY <1>4, <1>5, <1>6

(* A trade on a route that agrees with its position leaves them agreeing.  *)
LEMMA TradeKeepsRoute ==
  ASSUME RouteInv, PositionInv', NEW principal \in Nat, OnycTrade(principal),
         safe.exists, position.exists,
         position'.exists = position.exists, position'.principal_usdc = principal,
         position'.tracked_pt > 0 => limits.exists /\ registry.exists /\ config.exists
  PROVE  RouteInv'
<1>1. /\ VaultInv' /\ safe'.exists
      /\ safe'.route_principal[ROUTE_ONYC] = principal
  BY OnycTradeKeepsVault DEF RouteInv
<1>2. UNCHANGED <<config, registry>> /\ limits'.exists = limits.exists
  BY DEF OnycTrade, PolicyKept
<1>. QED
  BY <1>1, <1>2
  DEF RouteInv, NoSafeNoOnycBasis, NoPositionNoBasis, RouteInStep, PositionHasItsAccounts

(* ... so a buy does,                                                      *)
LEMMA BuyKeepsRoute ==
  ASSUME RouteInv, NEW signer, NEW spent \in Nat, NEW idle_after,
         BuyPt(signer, spent, idle_after), idle' \in Nat, onyc' \in Nat
  PROVE  RouteInv'
<1>. DEFINE principal == position.principal_usdc + spent
<1>1. PositionInv'
  BY BuyKeepsPosition DEF RouteInv
<1>2. principal \in Nat /\ OnycTrade(principal)
  BY BuyTrades DEF RouteInv
<1>3. position'.exists = position.exists /\ position'.principal_usdc = principal
  BY DEF BuyPt, RouteInv, PositionInv, ExponentTypeOK
<1>4. safe.exists /\ position.exists /\ limits.exists /\ registry.exists /\ config.exists
  BY DEF BuyPt, ExponentAction
<1>. HIDE DEF principal
<1>. QED
  BY <1>1, <1>2, <1>3, <1>4, TradeKeepsRoute

(* ... an exit,                                                            *)
LEMMA ExitKeepsRoute ==
  ASSUME RouteInv, NEW signer, NEW amount \in Nat, NEW received \in Nat,
         ExitPt(signer, amount, received), wallet' \in Nat, ownerOnyc' \in Nat
  PROVE  RouteInv'
<1>1. PositionInv'
  BY ExitKeepsPosition DEF RouteInv
<1>2. PICK principal \in Nat : OnycTrade(principal) /\ position'.principal_usdc = principal
  BY ExitTrades DEF RouteInv
<1>3. position'.exists = position.exists
  BY DEF ExitPt, ExitBooks, RouteInv, PositionInv, ExponentTypeOK
<1>4. safe.exists /\ position.exists /\ limits.exists /\ registry.exists /\ config.exists
  BY DEF ExitPt, ExponentAction
<1>. QED
  BY <1>1, <1>2, <1>3, <1>4, TradeKeepsRoute

(* Steps that leave the Safe, the tracked PT and their basis alone.        *)
LEMMA StillKeepsRoute ==
  ASSUME RouteInv, PositionInv', UNCHANGED vars,
         position'.exists = position.exists \/ position'.exists,
         position'.principal_usdc = position.principal_usdc,
         position'.tracked_pt = position.tracked_pt
  PROVE  RouteInv'
<1>1. VaultInv'
  BY VaultStep DEF RouteInv
<1>. QED
  BY <1>1
  DEF RouteInv, NoSafeNoOnycBasis, NoPositionNoBasis, RouteInStep, PositionHasItsAccounts,
      vars

(* ... and a recovery.                                                     *)
LEMMA RecoverKeepsRoute ==
  ASSUME RouteInv, NEW amount \in Nat, RecoverExponentPt(amount)
  PROVE  RouteInv'
<1>1. PositionInv'
  BY RecoverKeepsPosition DEF RouteInv
<1>2. position.tracked_pt \in Nat /\ safe.exists /\ position.exists
  BY DEF RecoverExponentPt, RouteInv, PositionInv, ExponentTypeOK
<1>3. CASE position.tracked_pt > 0
  <2>1. PICK principal \in Nat :
          OnycTrade(principal) /\ position'.principal_usdc = principal
    BY <1>3, RecoverTrades DEF RouteInv
  <2>2. position'.exists = position.exists
    BY <1>3 DEF RecoverExponentPt, RecoverPt, RouteInv, PositionInv, ExponentTypeOK
  <2>3. limits.exists /\ registry.exists /\ config.exists
    BY <1>3 DEF RouteInv, PositionHasItsAccounts
  <2>. QED
    BY <1>1, <1>2, <2>1, <2>2, <2>3, TradeKeepsRoute
<1>4. CASE position.tracked_pt = 0
  <2>1. position' = [position EXCEPT !.enabled = FALSE] /\ UNCHANGED vars
    BY <1>4 DEF RecoverExponentPt, vars
  <2>2. /\ position'.exists = position.exists
        /\ position'.principal_usdc = position.principal_usdc
        /\ position'.tracked_pt = position.tracked_pt
    BY <2>1 DEF RouteInv, PositionInv, ExponentTypeOK
  <2>. QED
    BY <1>1, <2>1, <2>2, StillKeepsRoute
<1>. QED
  BY <1>2, <1>3, <1>4
LEMMA PolicyKeepsRoute ==
  ASSUME RouteInv, OwnerExponentPolicy
  PROVE  RouteInv'
<1>1. PositionInv'
  BY PositionStep DEF RouteInv, ExponentNext
<1>2. ASSUME NEW k \in Allocations, NEW o \in OnycShares,
             SetAllocation(Split(k, o)), UNCHANGED exponentVars
      PROVE  RouteInv'
  <2>1. Split(k, o) \in [Routes -> Nat]
    BY VaultAssumption, ExponentAssumption DEF Split
  <2>2. VaultInv'
    BY <1>2, <2>1
    DEF SetAllocation, RouteInv, VaultInv, TypeOK, AllocationValid, NoSafeNoBasis,
        NoPhantomPrincipal, DeployedInOrder, ExitAccountsExist, kaminoPrincipal, moneyVars
  <2>3. /\ safe'.exists = safe.exists
        /\ safe'.route_principal = safe.route_principal
        /\ UNCHANGED <<config, registry, limits, position>>
    BY <1>2 DEF SetAllocation, exponentVars, RouteInv, VaultInv, TypeOK
  <2>. QED
    BY <1>1, <2>2, <2>3
    DEF RouteInv, NoSafeNoOnycBasis, NoPositionNoBasis, RouteInStep, PositionHasItsAccounts
<1>3. ASSUME NEW loss \in PolicyLosses, InitExponentPosition(loss) PROVE RouteInv'
  <2>1. /\ ~position.exists /\ UNCHANGED vars
        /\ position' = [NoPosition EXCEPT !.exists = TRUE, !.enabled = TRUE,
                                          !.max_loss_bps = loss]
    BY <1>3 DEF InitExponentPosition
  <2>2. position'.exists /\ position'.tracked_pt = 0 /\ position'.principal_usdc = 0
    BY <2>1 DEF NoPosition
  <2>3. VaultInv'
    BY <2>1, VaultStep DEF RouteInv
  <2>4. position.principal_usdc = 0
    BY <2>1 DEF RouteInv, NoPositionNoBasis
  <2>. QED
    BY <1>1, <2>1, <2>2, <2>3, <2>4
    DEF RouteInv, NoSafeNoOnycBasis, NoPositionNoBasis, RouteInStep,
        PositionHasItsAccounts, vars
<1>4. ASSUME NEW loss \in PolicyLosses, NEW enabled \in BOOLEAN,
             SetExponentPolicy(enabled, loss)
      PROVE  RouteInv'
  <2>1. /\ UNCHANGED vars
        /\ position' = [position EXCEPT !.enabled = enabled, !.max_loss_bps = loss]
    BY <1>4 DEF SetExponentPolicy
  <2>2. /\ position'.exists = position.exists
        /\ position'.principal_usdc = position.principal_usdc
        /\ position'.tracked_pt = position.tracked_pt
    BY <2>1 DEF RouteInv, PositionInv, ExponentTypeOK
  <2>. QED
    BY <1>1, <2>1, <2>2, StillKeepsRoute
<1>. QED
  BY <1>2, <1>3, <1>4 DEF OwnerExponentPolicy

LEMMA OnycKeepsRoute ==
  ASSUME RouteInv, NEW amount \in Nat,
         DepositOnyc(amount) \/ WithdrawOnyc(amount) \/ RecoverExponentOnyc(amount)
  PROVE  RouteInv'
<1>1. UNCHANGED vars
  BY DEF DepositOnyc, WithdrawOnyc, RecoverExponentOnyc
<1>2. position' = position \/ position' = [position EXCEPT !.enabled = FALSE]
  BY DEF DepositOnyc, WithdrawOnyc, RecoverExponentOnyc
<1>3. /\ position'.exists = position.exists
      /\ position'.principal_usdc = position.principal_usdc
      /\ position'.tracked_pt = position.tracked_pt
  BY <1>2 DEF RouteInv, PositionInv, ExponentTypeOK
<1>4. PositionInv'
  BY OnycKeepsPosition DEF RouteInv
<1>. QED
  BY <1>1, <1>3, <1>4, StillKeepsRoute

LEMMA InKindKeepsRoute ==
  ASSUME RouteInv, OwnerInKind
  PROVE  RouteInv'
<1>1. ASSUME NEW amount \in OnycAmounts, ExponentBuyPtWithOnyc(amount) PROVE RouteInv'
  <2>1. amount \in Nat /\ OnycValue(amount) \in Nat
    BY OnycValueType, ExponentAssumption
  <2>2. onyc' \in Nat /\ idle' \in Nat
    BY <1>1, <2>1
    DEF ExponentBuyPtWithOnyc, RouteInv, PositionInv, ExponentTypeOK, VaultInv, TypeOK
  <2>. QED
    BY <1>1, <2>1, <2>2, BuyKeepsRoute DEF ExponentBuyPtWithOnyc
<1>2. ASSUME NEW amount \in Parts(pt), ExponentExitPtForOnyc(amount) PROVE RouteInv'
  <2>1. amount \in Nat
    BY DEF Parts
  <2>2. ownerOnyc' \in Nat /\ wallet' \in Nat
    BY <1>2, <2>1
    DEF ExponentExitPtForOnyc, OnycForPt, RouteInv, PositionInv, ExponentTypeOK, VaultInv,
        TypeOK
  <2>. QED
    BY <1>2, <2>1, <2>2, ExitKeepsRoute DEF ExponentExitPtForOnyc
<1>3. ASSUME NEW amount \in Parts(pt), RecoverExponentPt(amount) PROVE RouteInv'
  BY <1>3, RecoverKeepsRoute DEF Parts
<1>4. ASSUME NEW amount \in OnycAmounts,
             DepositOnyc(amount) \/ WithdrawOnyc(amount) \/ RecoverExponentOnyc(amount)
      PROVE  RouteInv'
  BY <1>4, OnycKeepsRoute, ExponentAssumption
<1>. QED
  BY <1>1, <1>2, <1>3, <1>4 DEF OwnerInKind

LEMMA TradesKeepRoute ==
  ASSUME RouteInv, NEW signer, ExponentTrade(signer)
  PROVE  RouteInv'
<1>1. ASSUME NEW amount \in BuyAmounts, ExponentBuyPt(signer, amount)
      PROVE  RouteInv'
  <2>1. amount \in Nat /\ onyc' \in Nat /\ idle' \in Nat
    BY <1>1, ExponentAssumption
    DEF ExponentBuyPt, RouteInv, PositionInv, ExponentTypeOK, VaultInv, TypeOK
  <2>. QED
    BY <1>1, <2>1, BuyKeepsRoute DEF ExponentBuyPt
<1>2. ASSUME NEW amount \in Parts(position.tracked_pt), ExponentExitPt(signer, amount)
      PROVE  RouteInv'
  <2>1. amount \in Nat
    BY DEF Parts
  <2>2. PICK received \in PtSold(amount) :
          /\ ExitPt(signer, amount, received)
          /\ wallet' = wallet + received /\ UNCHANGED ownerOnyc
    BY <1>2 DEF ExponentExitPt
  <2>3. received \in Nat
    BY <2>1, PtSoldType
  <2>4. ownerOnyc' \in Nat /\ wallet' \in Nat
    BY <2>2, <2>3 DEF RouteInv, PositionInv, ExponentTypeOK, VaultInv, TypeOK
  <2>. QED
    BY <2>1, <2>2, <2>3, <2>4, ExitKeepsRoute
<1>. QED
  BY <1>1, <1>2 DEF ExponentTrade

LEMMA RouteStep ==
  ASSUME ClientEmptiesFirst
  PROVE  RouteInv /\ [ExponentNext]_allVars => RouteInv'
<1>. SUFFICES ASSUME RouteInv, [ExponentNext]_allVars PROVE RouteInv'
  OBVIOUS
<1>1. CASE SafeStep
  BY <1>1, SafeStepKeepsRoute
<1>2. CASE OwnerExponentPolicy
  BY <1>2, PolicyKeepsRoute
<1>3. CASE OwnerInKind
  BY <1>3, InKindKeepsRoute
<1>4. CASE ExponentTrade(Owner) \/ ExecutorTrade
  BY <1>4, TradesKeepRoute DEF ExecutorTrade
<1>5. CASE ReceivePt \/ UNCHANGED allVars
  <2>1. PositionInv' /\ UNCHANGED <<vars, position>>
    BY <1>5, PositionStep DEF RouteInv, ExponentNext, ReceivePt, allVars, exponentVars
  <2>. QED
    BY <2>1, StillKeepsRoute
<1>. QED
  BY <1>1, <1>2, <1>3, <1>4, <1>5 DEF ExponentNext

LEMMA RouteInit == ExponentInit => RouteInv
<1>. SUFFICES ASSUME ExponentInit PROVE RouteInv
  OBVIOUS
<1>1. VaultInv /\ PositionInv
  BY VaultInit, PositionInit DEF ExponentInit
<1>2. safe.route_principal[ROUTE_ONYC] = 0
  BY DEF ExponentInit, Init, NoSafe, Routes
<1>3. position.principal_usdc = 0 /\ position.tracked_pt = 0
  BY DEF ExponentInit, NoPosition
<1>. QED
  BY <1>1, <1>2, <1>3
  DEF RouteInv, NoSafeNoOnycBasis, NoPositionNoBasis, RouteInStep, PositionHasItsAccounts

LEMMA RouteAlways ==
  ASSUME ClientEmptiesFirst
  PROVE  ExponentSpec => []RouteInv
BY RouteInit, RouteStep, PTL DEF ExponentSpec

(* For a client that empties the Safe before it closes it, buy and exit    *)
(* never find the principal of the Safe and of the position apart.         *)
THEOREM RouteAlwaysFollowsPosition ==
  ASSUME ClientEmptiesFirst
  PROVE  ExponentSpec => []RouteFollowsPosition
<1>1. RouteInv => RouteFollowsPosition
  BY DEF RouteInv, RouteFollowsPosition
<1>. QED
  BY <1>1, RouteAlways, PTL

(* For the same client, tracked PT can always be sold or redeemed: every   *)
(* account of ExponentAction exists.                                       *)
THEOREM PositionKeepsItsAccounts ==
  ASSUME ClientEmptiesFirst
  PROVE  ExponentSpec => []PositionHasItsAccounts
<1>1. RouteInv => PositionHasItsAccounts
  BY DEF RouteInv
<1>. QED
  BY <1>1, RouteAlways, PTL
-----------------------------------------------------------------------------
(* The executor's limits.  Unlike the agreement of Safe and position, they *)
(* hold whatever the client does: the types and the books of both routes   *)
(* need no client that empties the Safe.                                   *)

SharedInv == VaultInv /\ PositionInv

(* The owner's exponent policy and allocation never touch the money.       *)
LEMMA PolicyKeepsVault ==
  ASSUME SharedInv, OwnerExponentPolicy
  PROVE  VaultInv'
<1>1. ASSUME NEW k \in Allocations, NEW o \in OnycShares, SetAllocation(Split(k, o))
      PROVE  VaultInv'
  <2>1. Split(k, o) \in [Routes -> Nat]
    BY VaultAssumption, ExponentAssumption DEF Split
  <2>. QED
    BY <1>1, <2>1
    DEF SetAllocation, SharedInv, VaultInv, TypeOK, AllocationValid, NoSafeNoBasis,
        NoPhantomPrincipal, DeployedInOrder, ExitAccountsExist, kaminoPrincipal, moneyVars
<1>2. ASSUME UNCHANGED vars PROVE VaultInv'
  BY <1>2, VaultStep DEF SharedInv
<1>. QED
  BY <1>1, <1>2 DEF OwnerExponentPolicy, InitExponentPosition, SetExponentPolicy

(* Steps in kind: a buy with ONyc, an exit for ONyc, a recovery.           *)
LEMMA InKindKeepsVault ==
  ASSUME SharedInv, OwnerInKind
  PROVE  VaultInv'
<1>1. ASSUME NEW amount \in OnycAmounts, ExponentBuyPtWithOnyc(amount) PROVE VaultInv'
  <2>1. OnycValue(amount) \in Nat /\ idle' \in Nat
    BY <1>1, OnycValueType, ExponentAssumption
    DEF ExponentBuyPtWithOnyc, SharedInv, VaultInv, TypeOK
  <2>. QED
    BY <1>1, <2>1, BuyTrades, OnycTradeKeepsVault DEF ExponentBuyPtWithOnyc, SharedInv
<1>2. ASSUME NEW amount \in Parts(pt), ExponentExitPtForOnyc(amount) PROVE VaultInv'
  <2>1. amount \in Nat /\ wallet' \in Nat
    BY <1>2 DEF Parts, ExponentExitPtForOnyc, SharedInv, VaultInv, TypeOK
  <2>. QED
    BY <1>2, <2>1, ExitTrades, OnycTradeKeepsVault DEF ExponentExitPtForOnyc, SharedInv
<1>3. ASSUME NEW amount \in Parts(pt), RecoverExponentPt(amount) PROVE VaultInv'
  <2>1. CASE position.tracked_pt > 0
    BY <1>3, <2>1, RecoverTrades, OnycTradeKeepsVault DEF Parts, SharedInv
  <2>2. CASE ~(position.tracked_pt > 0)
    <3>1. UNCHANGED vars
      BY <1>3, <2>2 DEF RecoverExponentPt, vars
    <3>. QED
      BY <3>1, VaultStep DEF SharedInv
  <2>. QED
    BY <2>1, <2>2
<1>4. ASSUME NEW amount \in OnycAmounts,
             DepositOnyc(amount) \/ WithdrawOnyc(amount) \/ RecoverExponentOnyc(amount)
      PROVE  VaultInv'
  <2>1. UNCHANGED vars
    BY <1>4 DEF DepositOnyc, WithdrawOnyc, RecoverExponentOnyc
  <2>. QED
    BY <2>1, VaultStep DEF SharedInv
<1>. QED
  BY <1>1, <1>2, <1>3, <1>4 DEF OwnerInKind

(* Buys and exits, the owner's and the executor's.                         *)
LEMMA TradeKeepsVault ==
  ASSUME SharedInv, NEW signer, ExponentTrade(signer)
  PROVE  VaultInv'
<1>1. ASSUME NEW amount \in BuyAmounts, ExponentBuyPt(signer, amount) PROVE VaultInv'
  <2>1. amount \in Nat /\ idle' \in Nat
    BY <1>1, ExponentAssumption DEF ExponentBuyPt, SharedInv, VaultInv, TypeOK
  <2>. QED
    BY <1>1, <2>1, BuyTrades, OnycTradeKeepsVault DEF ExponentBuyPt, SharedInv
<1>2. ASSUME NEW amount \in Parts(position.tracked_pt), ExponentExitPt(signer, amount)
      PROVE  VaultInv'
  <2>1. amount \in Nat
    BY DEF Parts
  <2>2. PICK received \in PtSold(amount) :
          ExitPt(signer, amount, received) /\ wallet' = wallet + received
    BY <1>2 DEF ExponentExitPt
  <2>3. received \in Nat /\ wallet' \in Nat
    BY <2>1, <2>2, PtSoldType DEF SharedInv, VaultInv, TypeOK
  <2>. QED
    BY <2>1, <2>2, <2>3, ExitTrades, OnycTradeKeepsVault DEF SharedInv
<1>. QED
  BY <1>1, <1>2 DEF ExponentTrade

LEMMA SharedStep == SharedInv /\ [ExponentNext]_allVars => SharedInv'
<1>. SUFFICES ASSUME SharedInv, [ExponentNext]_allVars PROVE SharedInv'
  OBVIOUS
<1>1. PositionInv'
  BY PositionStep DEF SharedInv
<1>2. VaultInv'
  <2>1. CASE SafeStep
    BY <2>1, VaultStep DEF SafeStep, SharedInv
  <2>2. CASE OwnerExponentPolicy
    BY <2>2, PolicyKeepsVault
  <2>3. CASE OwnerInKind
    BY <2>3, InKindKeepsVault
  <2>4. CASE ExponentTrade(Owner) \/ ExecutorTrade
    BY <2>4, TradeKeepsVault DEF ExecutorTrade
  <2>5. CASE ReceivePt \/ UNCHANGED allVars
    <3>1. UNCHANGED vars
      BY <2>5 DEF ReceivePt, allVars
    <3>. QED
      BY <3>1, VaultStep DEF SharedInv
  <2>. QED
    BY <2>1, <2>2, <2>3, <2>4, <2>5 DEF ExponentNext
<1>. QED
  BY <1>1, <1>2 DEF SharedInv

LEMMA SharedAlways == ExponentSpec => []SharedInv
<1>1. ExponentInit => SharedInv
  BY VaultInit, PositionInit DEF ExponentInit, SharedInv
<1>. QED
  BY <1>1, SharedStep, PTL DEF ExponentSpec

(* The accounts keep their types, the fee rate its cap and the Kamino      *)
(* route its basis, whatever the ONyc route does beside it.                *)
THEOREM VaultTypeCorrectWithExponent == ExponentSpec => [](TypeOK /\ NoPhantomPrincipal)
<1>1. SharedInv => TypeOK /\ NoPhantomPrincipal
  BY DEF SharedInv, VaultInv
<1>. QED
  BY <1>1, SharedAlways, PTL

(* What an executor's trade moved is within the limits, and so is the      *)
(* basis of both routes after a buy.                                       *)
TradeWithinLimits ==
  /\ TradeMoved <= limits.max_action_usdc
  /\ PreviousVolume(limits', HourOf(now)) = PreviousVolume(limits, HourOf(now)) + TradeMoved
  /\ PreviousVolume(limits', HourOf(now)) <= limits.max_24h_volume_usdc
  /\ pt' > pt => RouteSum(safe'.route_principal) <= limits.max_principal_usdc

LEMMA ExecutorBuyWithinLimits ==
  ASSUME SharedInv, NEW executor \in Executors, NEW amount \in BuyAmounts,
         ExponentBuyPt(executor, amount)
  PROVE  TradeWithinLimits
<1>. DEFINE principal == position.principal_usdc + amount
            after == [safe.route_principal EXCEPT ![ROUTE_ONYC] = principal]
<1>1. /\ amount \in Nat /\ pt \in Nat /\ idle \in Nat
      /\ position.principal_usdc \in Nat
      /\ safe.route_principal \in [Routes -> Nat]
  BY ExponentAssumption DEF SharedInv, VaultInv, TypeOK, PositionInv, ExponentTypeOK
<1>2. PICK acquired \in PtBought(amount) : pt' = pt + acquired
  BY DEF ExponentBuyPt, BuyPt
<1>3. pt' > pt
  <2>1. acquired \in Nat /\ acquired # 0
    BY <1>1, PtBoughtType DEF PtBought
  <2>. QED
    BY <1>1, <1>2, <2>1
<1>4. TradeMoved = amount
  <2>1. idle' = idle - amount
    BY DEF ExponentBuyPt
  <2>2. idle - idle' = amount
    BY <1>1, <2>1
  <2>. QED
    BY <1>3, <2>2, Zenon DEF TradeMoved
<1>5. safe'.route_principal = after /\ RouteSum(after) \in Nat
  <2>1. safe' = [safe EXCEPT !.route_principal[ROUTE_ONYC] = principal]
    BY DEF ExponentBuyPt, BuyPt
  <2>. QED
    BY <1>1, <2>1 DEF SharedInv, VaultInv, TypeOK, RouteSum, Routes
<1>6. ChargedWithinLimits(amount, RouteSum(after))
  <2>1. ChargeExecutorVolume(executor, amount, RouteSum(after))
    BY DEF ExponentBuyPt, BuyPt, TotalPrincipalAfter
  <2>. QED
    BY <1>1, <2>1, ExecutorIsCharged DEF SharedInv, VaultInv
<1>7. RouteSum(after) # NoPrincipal
  BY <1>5 DEF NoPrincipal
<1>. HIDE DEF after
<1>. QED
  BY <1>4, <1>5, <1>6, <1>7 DEF ChargedWithinLimits, TradeWithinLimits

LEMMA ExecutorExitWithinLimits ==
  ASSUME SharedInv, NEW executor \in Executors, NEW amount \in Parts(position.tracked_pt),
         ExponentExitPt(executor, amount)
  PROVE  TradeWithinLimits
<1>1. /\ amount \in Nat /\ amount > 0 /\ pt \in Nat /\ wallet \in Nat
      /\ position.principal_usdc \in Nat
  BY DEF Parts, SharedInv, VaultInv, TypeOK, PositionInv, ExponentTypeOK
<1>2. PICK received \in PtSold(amount) :
        ExitPt(executor, amount, received) /\ wallet' = wallet + received
  BY DEF ExponentExitPt
<1>3. received \in Nat /\ wallet' \in Nat
  BY <1>1, <1>2, PtSoldType
<1>4. PICK principal \in Nat :
        /\ principal <= position.principal_usdc /\ position'.principal_usdc = principal
        /\ ChargeExecutorVolume(executor,
             ExitCharge(received, position.principal_usdc - principal), NoPrincipal)
  BY <1>1, <1>2, <1>3, ExitTrades DEF SharedInv
<1>5. PICK basis \in Nat : basis = position.principal_usdc - principal
  BY <1>1, <1>4
<1>6. ~(pt' > pt)
  BY <1>1, <1>2 DEF ExitPt
<1>7. TradeMoved = ExitCharge(received, basis)
  <2>1. wallet' - wallet = received
    BY <1>1, <1>2, <1>3
  <2>2. position.principal_usdc - position'.principal_usdc = basis
    BY <1>4, <1>5
  <2>. QED
    BY <1>6, <2>1, <2>2, Zenon DEF TradeMoved, ExitCharge
<1>8. ExitCharge(received, basis) \in Nat
  BY <1>3, <1>5 DEF ExitCharge
<1>9. ChargedWithinLimits(ExitCharge(received, basis), NoPrincipal)
  BY <1>4, <1>5, <1>8, ExecutorIsCharged DEF SharedInv, VaultInv
<1>. QED
  BY <1>6, <1>7, <1>9 DEF ChargedWithinLimits, TradeWithinLimits

(* charge_executor_volume of exponent.rs, for every price, limit, ledger   *)
(* and client: an executor's buy or exit is counted in full, at its basis  *)
(* if that is more, in the ledger it shares with the Kamino route.         *)
THEOREM ExponentStaysWithinLimits == ExponentSpec => ExponentWithinLimits
<1>1. SharedInv /\ ExecutorTrade => TradeWithinLimits
  BY ExecutorBuyWithinLimits, ExecutorExitWithinLimits DEF ExecutorTrade, ExponentTrade
<1>2. SharedInv =>
        [pt' # pt /\ ExecutorTrade =>
           LET spent == PreviousVolume(limits', HourOf(now))
           IN  /\ TradeMoved <= limits.max_action_usdc
               /\ spent = PreviousVolume(limits, HourOf(now)) + TradeMoved
               /\ spent <= limits.max_24h_volume_usdc
               /\ pt' > pt =>
                    RouteSum(safe'.route_principal) <= limits.max_principal_usdc]_allVars
  BY <1>1, Zenon DEF TradeWithinLimits
<1>. QED
  BY <1>2, SharedAlways, PTL DEF ExponentSpec, ExponentWithinLimits
=============================================================================
