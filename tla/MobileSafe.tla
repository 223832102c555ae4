----------------------------- MODULE MobileSafe ------------------------------
(***************************************************************************)
(* The mobile clients.  Plans are made by web/src/lib/mobileSafe.ts from   *)
(* the Safe as it is, simulated, and signed later; the reference panel,    *)
(* web/src/components/V2MobileSafePanel.tsx, writes what was signed to a   *)
(* journal in localStorage before it is sent through mobileBroadcast, and  *)
(* makes no other plan until the chain has settled it.  Tabs share that    *)
(* journal, and each may be reloaded at any moment.  Native clients take   *)
(* the Kamino plans of the same API; their own code is not in this         *)
(* repository.                                                             *)
(***************************************************************************)
EXTENDS SafeChain

CONSTANT Tabs   \* tabs of the panel open in one browser

VARIABLES
  tab,       \* tab[t]: the plan under review, and the signature it waits for
  journal,   \* localStorage: the operation signed and not settled, or 0
  overlapped \* history: a tab signed while another had one pending

mobileVars == <<tab, journal, overlapped>>
TabAt == {"idle", "review", "signing", "sending"}
NoPlan == [kind |-> "none", ixs |-> <<>>, read |-> 0]

-----------------------------------------------------------------------------
(* The plans: the instructions of each, refused unless they simulate. *)

Plan(kind, ixs) == [kind |-> kind, ixs |-> ixs, read |-> saves]
Ready(plan) == plan.ixs # <<>> /\ Simulates(plan.ixs)

createUsdc == IF chain.usdc_ata THEN <<>> ELSE <<Ix("create_usdc", 0)>>
createShares == IF chain.shares_ata THEN <<>> ELSE <<Ix("create_shares", 0)>>

(* n = 0 creates an empty Safe.                                            *)
CreationPlan(n) ==
  IF n = 0 THEN Plan("create", <<Ix("initialize", 0)>>)
           ELSE Plan("create", <<Ix("initialize", 0), Ix("deposit", n)>>)

(* "all" is what is idle now; a withdrawal leaves the account as it is.    *)
TransferPlans(kind, n) ==
  IF kind = "deposit"
  THEN {Plan(kind, createUsdc \o <<Ix("deposit", n)>>)}
  ELSE {Plan(kind, <<Ix("withdraw", a)>>) : a \in {n, chain.idle} \ {0}}

PlansFor(op, n) ==
  CASE op = "create" -> {CreationPlan(0)}
    [] op = "create_deposit" -> {CreationPlan(n)}
    [] OTHER -> IF chain.exists THEN TransferPlans(op, n) ELSE {}

\* Mutant of KaminoDepositPlan: the target that was borrowed is not put back.
KaminoDepositPlanKeeps(source, n) ==
  Plan("invest", createUsdc \o <<Ix("set_allocation", 100)>>
       \o (IF source = "wallet" THEN <<Ix("deposit", n)>> ELSE <<>>)
       \o createShares \o <<Ix("kamino_deposit", n)>>)

KaminoDepositPlan(source, n) ==
  LET borrow(t) == IF chain.target = 100 THEN <<>> ELSE <<Ix("set_allocation", t)>>
  IN  Plan("invest", createUsdc \o borrow(100)
           \o (IF source = "wallet" THEN <<Ix("deposit", n)>> ELSE <<>>)
           \o createShares \o <<Ix("kamino_deposit", n)>> \o borrow(chain.target))

(* The first leg of Kamino's plan, what one reserve can pay or ALL, which  *)
(* becomes the shares asked for.                                           *)
FirstLegs(target) == {IF leg = ALL THEN target ELSE leg : leg \in {ALL} \cup 1..target}

KaminoWithdrawalPlans(target) ==
  {Plan("redeem", <<Ix("kamino_withdraw", leg)>>) : leg \in FirstLegs(target)}

(* The USDC the receipt of a redemption shows.  Asked twice it answers     *)
(* twice: no record is kept.                                               *)
KaminoReturnPlan(i) == Plan("return", <<Ix("withdraw", tx[i].ixs[1].n)>>)

(* A confirmed transaction that redeems and does nothing else.             *)
Redemption(i) ==
  /\ tx[i].st = "done" /\ Len(tx[i].ixs) = 1
  /\ tx[i].ixs[1].op = "kamino_withdraw"

-----------------------------------------------------------------------------
(* The reference panel. *)

(* checkedMobileTransaction: the transaction rebuilt from what was asked;  *)
(* only the re-creation of the account paid into may be in it besides.     *)
Rebuilt(op, amount) ==
  LET transfer == <<Ix(IF op = "withdraw" THEN "withdraw" ELSE "deposit", amount)>>
  IN  CASE op = "create" -> {<<Ix("initialize", 0)>>}
        [] op = "create_deposit" -> {<<Ix("initialize", 0)>> \o transfer}
        [] op = "deposit" -> {transfer, <<Ix("create_usdc", 0)>> \o transfer}
        [] op = "withdraw" -> {transfer}

(* Any operation needs the journal settled, in this tab and on disk.       *)
Reconciled(t) == tab[t].pending = 0 /\ journal = 0

Prepare(t) ==
  /\ tab[t].at \in {"idle", "review"} /\ Reconciled(t)
  /\ \E op \in uses.mobile, n \in Amounts : \E plan \in PlansFor(op, n) :
       /\ Ready(plan) /\ \E a \in {n, chain.idle} : plan.ixs \in Rebuilt(op, a)
       /\ tab' = [tab EXCEPT ![t].at = "review", ![t].plan = plan]
  /\ UNCHANGED <<chainVars, journal, overlapped>>

(* The journal is read here; the wallet's answer comes later.              *)
AskWallet(t) ==
  /\ tab[t].at = "review" /\ Reconciled(t)
  /\ tab' = [tab EXCEPT ![t].at = "signing"]
  /\ UNCHANGED <<chainVars, journal, overlapped>>

(* The wallet refuses and the review stays, or the plan has expired.       *)
GiveUp(t) ==
  /\ tab[t].at = "signing"
  /\ \/ tab' = [tab EXCEPT ![t].at = "review"]
     \/ tab' = [tab EXCEPT ![t].at = "idle", ![t].plan = NoPlan]
  /\ UNCHANGED <<chainVars, journal, overlapped>>

(* The journal was read before the wallet was asked, and is not read again *)
(* before it is written: another tab may have signed in between, or hold   *)
(* an operation whose check will clear whatever the journal has by then.   *)
AnotherTabPending(t) == \E u \in Tabs \ {t} : tab[u].pending # 0

(* Saved before it is submitted.                                           *)
SignAndSave(t) ==
  LET plan == tab[t].plan
  IN  /\ tab[t].at = "signing"
      /\ SignTx("mobile", plan.kind, plan.ixs, plan.read, "signed")
      /\ journal' = NextTx
      /\ tab' = [tab EXCEPT ![t] = [at |-> "sending", plan |-> NoPlan, pending |-> NextTx]]
      /\ overlapped' = (overlapped \/ AnotherTabPending(t))
      /\ UNCHANGED <<chain, history>>

(* What the transport lets through: the owner's Safe operations, at least  *)
(* one, and the creation of token accounts.                                *)
BroadcastOps == {"initialize", "deposit", "withdraw", "set_allocation",
                 "kamino_deposit", "kamino_withdraw"}
Broadcastable(ixs) ==
  /\ Ops(ixs) \cap BroadcastOps # {}
  /\ Ops(ixs) \subseteq BroadcastOps \cup {"create_usdc", "create_shares"}

(* submitMobileBroadcast simulates first; the answer of a transaction that *)
(* was sent may be lost, and it is pending just the same.                  *)
Submit(t) ==
  LET i == tab[t].pending
      preflight == tx[i].st = "signed" /\ Broadcastable(tx[i].ixs) /\ Simulates(tx[i].ixs)
  IN  /\ tab[t].at = "sending"
      /\ \/ preflight /\ tx' = [tx EXCEPT ![i].st = "live"]
         \/ UNCHANGED tx
      /\ tab' = [tab EXCEPT ![t].at = "idle"]
      /\ UNCHANGED <<chain, history, journal, overlapped>>

(* transactionStatus: no trace of it after its block height is no proof.   *)
Status(i) ==
  CASE tx[i].st = "done" -> "finalized"
    [] tx[i].st = "failed" -> "failed"
    [] tx[i].st = "dead" -> "unknown_or_expired"
    [] OTHER -> "pending"

\* Mutant of Settles: a transaction nobody has seen by its block height is over.
SettlesUnseen(i) == Status(i) # "pending"

Settles(i) == Status(i) \in {"finalized", "failed"}

(* Asks for the status; only what is final clears the journal.             *)
Check(t) ==
  /\ tab[t].at \in {"idle", "review"} /\ tab[t].pending # 0
  /\ Settles(tab[t].pending)
  /\ journal' = 0
  /\ tab' = [tab EXCEPT ![t].pending = 0]
  /\ UNCHANGED <<chainVars, overlapped>>

(* The tab is closed and opened again: the journal is all it knows.        *)
Reload(t) ==
  /\ tab' = [tab EXCEPT ![t] = [at |-> "idle", plan |-> NoPlan, pending |-> journal]]
  /\ tab' # tab
  /\ UNCHANGED <<chainVars, journal, overlapped>>

-----------------------------------------------------------------------------
(* A native client: external but for the plans it asks for.                *)

ApiSigns(plan) ==
  /\ plan.kind \in uses.api /\ Ready(plan) /\ chain.exists
  /\ SignTx("api", plan.kind, plan.ixs, plan.read, "live")
  /\ UNCHANGED <<chain, history, mobileVars>>

ApiNext ==
  \/ \E n \in Amounts, source \in {"safe", "wallet"} : ApiSigns(KaminoDepositPlan(source, n))
  \/ \E target \in 1..chain.shares : \E plan \in KaminoWithdrawalPlans(target) : ApiSigns(plan)
  \/ \E i \in Txs : Redemption(i) /\ ApiSigns(KaminoReturnPlan(i))

-----------------------------------------------------------------------------
TabInit ==
  /\ tab = [t \in Tabs |-> [at |-> "idle", plan |-> NoPlan, pending |-> 0]]
  /\ journal = 0 /\ overlapped = FALSE

TabNext ==
  \E t \in Tabs :
    \/ Prepare(t) \/ AskWallet(t) \/ GiveUp(t) \/ SignAndSave(t)
    \/ Submit(t) \/ Check(t) \/ Reload(t)

MobileTypeOK ==
  /\ \A t \in Tabs : /\ tab[t].at \in TabAt /\ tab[t].plan.kind \in Kinds
                     /\ tab[t].pending \in 0..MaxTx
  /\ journal \in 0..MaxTx /\ overlapped \in BOOLEAN
=============================================================================
