------------------------------ MODULE Rebalance ------------------------------
(***************************************************************************)
(* The rebalancer: web/src/server/agent/rebalance/engine.ts and            *)
(* portfolio.ts with swap/buildVaultSwapTx.ts, behind /api/rebalance,      *)
(* /api/cron/rebalance and the standalone agent's server, and the panel    *)
(* that calls it, web/src/hooks/useRebalance.ts.  A job reads the Safe,    *)
(* one balance at a time, computes swaps, has them quoted, and sends their *)
(* transactions in order.  Nothing is kept between calls and no call locks *)
(* another out.  Amounts are raw units; Price is what one is worth.        *)
(***************************************************************************)
EXTENDS Integers, Sequences, FiniteSets, SequencesExt

CONSTANTS
  USDC, Others,  \* the tokens; USDC is worth 1 a unit
  Allocations,   \* the strategy's tokens in the order they are listed
  Weight,        \* and their percentages
  Price,         \* value of a unit of a token
  MaxCalls,      \* calls that reach the rebalancer
  Balances,      \* the Safe's balances at the start
  Shapes,        \* which transactions a route needs besides the swap
  MIN_SWAP_USD,
  SLIPPAGE,      \* percent
  MaxMishaps     \* balance reads that fail, transactions the sender gives up on,
                 \* jobs killed, calls that fail, moves of the owner elsewhere

Tokens == {USDC} \cup Others
Listed == Range(Allocations)
Jobs == 1..MaxCalls

ASSUME RebalanceAssumption ==
  /\ USDC \notin Others /\ USDC \in Listed
  /\ Allocations \in Seq(Tokens) /\ IsInjective(Allocations)
  /\ Weight \in [Listed -> 0..100] /\ MapThenSumSet(LAMBDA t : Weight[t], Listed) = 100
  /\ Price \in [Tokens -> Nat \ {0}] /\ Price[USDC] = 1
  /\ Balances \subseteq [Tokens -> Nat]
  /\ Shapes \subseteq SUBSET {"setup", "cleanup_other"}
  /\ MIN_SWAP_USD \in Nat \ {0} /\ SLIPPAGE \in 0..99
  /\ MaxMishaps \in Nat /\ MaxCalls \in Nat \ {0}

VARIABLES
  balance,    \* the Safe's tokens
  allowed,    \* its allowlist has the programs of a plain route
  job,        \* job[j]: the call served by j
  panel,      \* the owner's panel, useRebalance
  late,       \* transactions that may still land although their job was told "err"
  executed,   \* history: how many transactions of each job took effect
  disturbed,  \* history: a balance changed since the job began to read
  mishaps

vars == <<balance, allowed, job, panel, late, executed, disturbed, mishaps>>
chain == <<balance, allowed, executed, disturbed>>

Callers == {"web", "agent"}
Actions == {"rebalance", "convert_all", "convert", "individual_swap", "lending"}
Statuses == {"success", "needs_whitelist", "no_rebalance_needed", "error"}

NoMint == "none"

(* What the panel keeps: its busy flag, the calls it awaits, the mint it   *)
(* shows as being converted, the last call, whose name is on the result,   *)
(* and the result.  alone is history: that call was made with none other   *)
(* awaited.                                                                *)
Panel == [rebalancing : BOOLEAN, awaited : SUBSET Jobs, converting : Others \cup {NoMint},
          call : Jobs, result : Statuses \cup {"none"}, alone : BOOLEAN]

Swap == [from : Tokens, to : Tokens, amount : Nat]
NoSwap == [from |-> USDC, to |-> USDC, amount |-> 0]
Tx == [op : {"setup", "swap", "cleanup_other"}, swap : Swap]

(* worth is history: what the Safe was worth to a job that sends.          *)
Job == [caller : Callers, action : Actions, asked : Swap,
        pc : {"idle", "vault", "balances", "quote", "send", "done", "dead"},
        allowed : BOOLEAN, toRead : Seq(Tokens), seen : [Tokens -> Nat], priced : SUBSET Tokens,
        partial : BOOLEAN, worth : Nat, swaps : Seq(Swap), txs : Seq(Tx), planned : Nat,
        status : Statuses \cup {"none"}]

NoJob == [caller |-> "web", action |-> "rebalance", asked |-> NoSwap, pc |-> "idle",
          allowed |-> FALSE, toRead |-> <<>>, seen |-> [t \in Tokens |-> 0], priced |-> {},
          partial |-> FALSE, worth |-> 0, swaps |-> <<>>, txs |-> <<>>, planned |-> 0, status |-> "none"]

TypeOK ==
  /\ balance \in [Tokens -> Nat] /\ allowed \in BOOLEAN
  /\ job \in [Jobs -> Job]
  /\ panel \in Panel
  /\ late \subseteq Jobs \X Tx
  /\ executed \in [Jobs -> Nat]
  /\ disturbed \in [Jobs -> BOOLEAN]
  /\ mishaps \in 0..MaxMishaps

Init ==
  /\ balance \in Balances /\ allowed \in BOOLEAN
  /\ job = [j \in Jobs |-> NoJob]
  /\ panel = [rebalancing |-> FALSE, awaited |-> {}, converting |-> NoMint, call |-> 1,
              result |-> "none", alone |-> TRUE]
  /\ late = {}
  /\ executed = [j \in Jobs |-> 0]
  /\ disturbed = [j \in Jobs |-> FALSE]
  /\ mishaps = 0

Mishap == mishaps < MaxMishaps /\ mishaps' = mishaps + 1

-----------------------------------------------------------------------------
(* The panel.                                                              *)

(* Calls are numbered as they arrive.                                      *)
Start(j, b) ==
  /\ job[j].pc = "idle" /\ \A k \in 1..j - 1 : job[k].pc # "idle"
  /\ job' = [job EXCEPT ![j] = b]

(* Every action of the hook raises the same flag and clears what the last  *)
(* one left, whether or not another one is still awaited.                  *)
Call(j, b, converting) ==
  /\ Start(j, b)
  /\ panel' = [panel EXCEPT !.rebalancing = TRUE, !.awaited = @ \cup {j}, !.converting = converting,
                            !.call = j, !.result = "none", !.alone = (panel.awaited = {})]
  /\ UNCHANGED <<chain, late, mishaps>>

(* The flag disables the buttons of all actions but the conversions.       *)
CallWhenFree(j, b) == ~panel.rebalancing /\ Call(j, b, panel.converting)

ClickRebalance(j) == CallWhenFree(j, [NoJob EXCEPT !.pc = "vault"])

IndividualSwap(action, from, to, amount) ==
  [NoJob EXCEPT !.pc = "vault", !.action = action,
                !.asked = [from |-> from, to |-> to, amount |-> amount]]

(* A row of the panel shows what was held when it was last loaded.         *)
Shown(t) == {balance[t]} \cup {b[t] : b \in Balances}

(* The whole of a row; the button of a row looks only at the mint shown as *)
(* being converted.                                                        *)
ConvertAssetToUsdc(j) ==
  \E t \in Others \ {panel.converting} : \E amount \in Shown(t) \ {0} :
    Call(j, IndividualSwap("convert", t, USDC, amount), t)

(* An amount typed in, here half of the row.                               *)
SwapVaultAsset(j) ==
  \E t \in Others : \E shown \in Shown(USDC) \ {0, 1} :
    CallWhenFree(j, IndividualSwap("individual_swap", USDC, t, shown \div 2))

(* The five lending actions end in a job of LendJobs: all the panel sees   *)
(* is a status.                                                            *)
LendingAction(j) ==
  \E status \in {"success", "needs_whitelist", "error"} :
    CallWhenFree(j, [NoJob EXCEPT !.pc = "done", !.action = "lending", !.status = status])

(* The end of a call lowers the flag, whatever other call is awaited; that *)
(* of a conversion forgets which mint is shown.                            *)
Settled(j) ==
  [panel EXCEPT !.rebalancing = FALSE, !.awaited = @ \ {j},
                !.converting = IF job[j].action = "convert" THEN NoMint ELSE @]

(* handleResult.                                                           *)
Reply(j) ==
  /\ j \in panel.awaited /\ job[j].pc = "done"
  /\ panel' = [Settled(j) EXCEPT !.result = job[j].status]
  /\ UNCHANGED <<chain, job, late, mishaps>>

\* Mutant of CallFails: the flag is lowered only on the way that succeeds.
CallFailsBusy(j) ==
  /\ j \in panel.awaited /\ job[j].pc = "dead"
  /\ panel' = [panel EXCEPT !.awaited = @ \ {j}]
  /\ UNCHANGED <<chain, job, late, mishaps>>

(* A killed job is answered for by the platform, and not in JSON: there is *)
(* an error but no result.                                                 *)
CallFails(j) ==
  /\ j \in panel.awaited /\ job[j].pc = "dead"
  /\ panel' = Settled(j)
  /\ UNCHANGED <<chain, job, late, mishaps>>

(* The answer is lost on the way while the job goes on.                    *)
CallCutOff(j) ==
  /\ j \in panel.awaited /\ job[j].pc # "dead" /\ Mishap
  /\ panel' = Settled(j)
  /\ UNCHANGED <<chain, job, late>>

-----------------------------------------------------------------------------
(* The other callers.                                                      *)

CronCall(j) ==
  /\ \E action \in {"rebalance", "convert_all"} :
       Start(j, [NoJob EXCEPT !.pc = "vault", !.action = action])
  /\ UNCHANGED <<chain, panel, late, mishaps>>

AgentCall(j) ==
  /\ \E action \in {"rebalance", "convert_all"} :
       Start(j, [NoJob EXCEPT !.pc = "vault", !.caller = "agent", !.action = action])
  /\ UNCHANGED <<chain, panel, late, mishaps>>

-----------------------------------------------------------------------------
(* A job.                                                                  *)

Forget(b) ==
  [b EXCEPT !.asked = NoSwap, !.toRead = <<>>, !.seen = NoJob.seen, !.priced = {}, !.swaps = <<>>,
            !.allowed = FALSE, !.txs = <<>>, !.worth = 0]

Answer(b, status) == [Forget(b) EXCEPT !.pc = "done", !.status = status]

Goes(j, b) ==
  /\ job' = [job EXCEPT ![j] = b]
  /\ UNCHANGED <<chain, panel, late, mishaps>>

(* Whatever a job awaits may fail: the route answers for it.               *)
JobFails(j) ==
  /\ job[j].pc \in {"vault", "balances", "quote"}
  /\ Goes(j, Answer(job[j], "error"))

(* Every Safe is read as Conservative.                                     *)
ReadVaultAccount(j) ==
  /\ job[j].pc = "vault" /\ job[j].caller # "agent"
  /\ job' = [job EXCEPT ![j] = [@ EXCEPT !.pc = "balances", !.allowed = allowed,
                                         !.toRead = Allocations]]
  /\ disturbed' = [disturbed EXCEPT ![j] = FALSE]
  /\ UNCHANGED <<balance, allowed, executed, panel, late, mishaps>>

(* The standalone agent reads the account by its former layout: where the  *)
(* allowlist was there is none, and the strategy may be unknown, see       *)
(* JobFails.                                                               *)
AgentReadsVault(j) ==
  /\ job[j].pc = "vault" /\ job[j].caller = "agent"
  /\ job' = [job EXCEPT ![j] = [@ EXCEPT !.pc = "balances", !.toRead = Allocations]]
  /\ disturbed' = [disturbed EXCEPT ![j] = FALSE]
  /\ UNCHANGED <<balance, allowed, executed, panel, late, mishaps>>

(* A read that fails three times counts as a balance of nothing.           *)
GetTokenBalance(j) ==
  LET b == job[j] IN
  /\ b.pc = "balances" /\ b.toRead # <<>>
  /\ \/ /\ job' = [job EXCEPT ![j].seen[Head(b.toRead)] = balance[Head(b.toRead)],
                              ![j].toRead = Tail(@)]
        /\ UNCHANGED mishaps
     \/ /\ Mishap
        /\ job' = [job EXCEPT ![j].partial = TRUE, ![j].toRead = Tail(@)]
  /\ UNCHANGED <<chain, panel, late>>

Value(b, t) == IF t \in b.priced THEN b.seen[t] * Price[t] ELSE 0
Values(b) == [t \in Listed |-> Value(b, t)]
Total(b) == MapThenSumSet(LAMBDA t : Values(b)[t], Listed)

\* Mutant of Delta: what the Safe holds already is not taken off.
DeltaFromNothing(b, t) == Weight[t] * Total(b)

(* Hundredths of what a token's holding lacks to be its share.             *)
Delta(b, t) == Weight[t] * Total(b) - 100 * Value(b, t)

Abs(n) == IF n < 0 THEN -n ELSE n

\* Mutant of SellAmount: the sign of the difference is kept.
SignedSellAmount(b, t) == Delta(b, t) \div (100 * Price[t])

SellAmount(b, t) == Abs(Delta(b, t)) \div (100 * Price[t])
BuyAmount(b, t) == Delta(b, t) \div 100

(* The swaps of some tokens, in the order in which the strategy lists them. *)
InOrder(tokens, swap) ==
  LET first[n \in 0..Len(Allocations)] ==
        IF n = 0 THEN <<>>
        ELSE IF Allocations[n] \in tokens THEN Append(first[n - 1], swap[Allocations[n]])
        ELSE first[n - 1]
  IN first[Len(Allocations)]

Wanted(b) ==
  LET off == {t \in b.priced \ {USDC} : Abs(Delta(b, t)) >= 100 * MIN_SWAP_USD}
      sell == [t \in Listed |-> [from |-> t, to |-> USDC, amount |-> SellAmount(b, t)]]
      buy == [t \in Listed |-> [from |-> USDC, to |-> t, amount |-> BuyAmount(b, t)]]
  IN InOrder({t \in off : Delta(b, t) < 0}, sell) \o InOrder({t \in off : Delta(b, t) > 0}, buy)

ComputeSwaps(b) == IF Total(b) < MIN_SWAP_USD THEN <<>> ELSE Wanted(b)

ComputeConvertAllSwaps(b) ==
  InOrder({t \in Listed \ {USDC} : Value(b, t) >= MIN_SWAP_USD},
          [t \in Listed |-> [from |-> t, to |-> USDC, amount |-> b.seen[t]]])

(* The snapshot is complete once the prices are in; some may be missing,   *)
(* USDC's is taken to be 1 then.                                           *)
PlanSwaps(j) ==
  LET b == job[j] IN
  /\ b.pc = "balances" /\ b.toRead = <<>>
  /\ \E unpriced \in SUBSET (Listed \ {USDC}) :
       LET s == [b EXCEPT !.priced = Listed \ unpriced, !.partial = @ \/ unpriced # {}]
           swaps == CASE b.action = "rebalance" -> ComputeSwaps(s)
                      [] b.action = "convert_all" -> ComputeConvertAllSwaps(s)
                      [] b.action \in {"convert", "individual_swap"} -> <<b.asked>>
       IN Goes(j, IF swaps = <<>> THEN Answer(s, "no_rebalance_needed")
                  ELSE [s EXCEPT !.pc = "quote", !.swaps = swaps])

(* A swap becomes up to three transactions, sent one by one.               *)
Txs(swap, shape) ==
  LET T(op) == [op |-> op, swap |-> swap] IN
  (IF "setup" \in shape THEN <<T("setup")>> ELSE <<>>) \o <<T("swap")>>
  \o (IF "cleanup_other" \in shape THEN <<T("cleanup_other")>> ELSE <<>>)

(* All swaps are quoted before the first is sent; the route may use a      *)
(* program that the allowlist, as it was read, does not have.              *)
BuildVaultSwaps(j) ==
  LET b == job[j] IN
  /\ b.pc = "quote" /\ b.caller = "web"
  /\ \/ \E shape \in Shapes :
          /\ b.allowed
          /\ LET txs == FlattenSeq([i \in 1..Len(b.swaps) |-> Txs(b.swaps[i], shape)])
             IN Goes(j, [Forget(b) EXCEPT !.pc = "send", !.txs = txs, !.planned = Len(txs),
                                          !.worth = Total(b)])
     \/ Goes(j, Answer(b, "needs_whitelist"))

(* For the standalone agent some program is always missing.                *)
AgentBuildsSwaps(j) ==
  /\ job[j].pc = "quote" /\ job[j].caller = "agent"
  /\ Goes(j, Answer(job[j], "needs_whitelist"))

-----------------------------------------------------------------------------
(* Sending.                                                                *)

(* What a swap may bring: its value, less at most the slippage.            *)
Proceeds(swap) ==
  LET value == swap.amount * Price[swap.from] IN
  {(value - lost) \div Price[swap.to] : lost \in {0, (value * SLIPPAGE) \div 100}}

Swapped(swap) ==
  {[balance EXCEPT ![swap.from] = @ - swap.amount, ![swap.to] = @ + got] :
     got \in Proceeds(swap)}

Executes(j, tx) ==
  /\ allowed
  /\ IF tx.op # "swap" THEN UNCHANGED <<balance, disturbed>>
     ELSE /\ balance[tx.swap.from] >= tx.swap.amount
          /\ balance' \in Swapped(tx.swap)
          /\ disturbed' = [k \in Jobs |-> disturbed[k] \/ k # j]
  /\ executed' = [executed EXCEPT ![j] = @ + 1]
  /\ UNCHANGED allowed

Proceed(b) ==
  IF Len(b.txs) = 1 THEN Answer(b, "success") ELSE [b EXCEPT !.txs = Tail(@)]

\* Mutant of GiveUp: a failed transaction does not end the loop.
GoOn(b) == Proceed(b)

GiveUp(b) == Answer(b, "error")

SendExecuted(j) ==
  LET b == job[j] IN
  /\ b.pc = "send"
  /\ Executes(j, Head(b.txs))
  /\ job' = [job EXCEPT ![j] = Proceed(b)]
  /\ UNCHANGED <<panel, late, mishaps>>

SendRefused(j) == job[j].pc = "send" /\ Goes(j, GiveUp(job[j]))

SendLost(j) ==
  LET b == job[j] IN
  /\ b.pc = "send" /\ Mishap
  /\ late' = late \cup {<<j, Head(b.txs)>>}
  /\ job' = [job EXCEPT ![j] = GiveUp(b)]
  /\ UNCHANGED <<chain, panel>>

LandsLate ==
  \E l \in late :
    /\ Executes(l[1], l[2]) \/ UNCHANGED chain
    /\ late' = late \ {l}
    /\ UNCHANGED <<job, panel, mishaps>>

(* The platform stops a job at its time limit.                             *)
JobKilled(j) ==
  /\ job[j].pc \in {"vault", "balances", "quote", "send"} /\ Mishap
  /\ job' = [job EXCEPT ![j] = [Forget(@) EXCEPT !.pc = "dead"]]
  /\ UNCHANGED <<chain, panel, late>>

(* The owner moves tokens from another tab or device, or changes the       *)
(* allowlist.                                                              *)
OwnerMoves ==
  /\ Mishap
  /\ \E b \in Balances \ {balance} : balance' = b
  /\ disturbed' = [j \in Jobs |-> TRUE]
  /\ UNCHANGED <<allowed, executed, job, panel, late>>

-----------------------------------------------------------------------------
Click(j) ==
  \/ ClickRebalance(j) \/ ConvertAssetToUsdc(j) \/ SwapVaultAsset(j) \/ LendingAction(j)

JobStep(j) ==
  \/ ReadVaultAccount(j) \/ AgentReadsVault(j) \/ GetTokenBalance(j) \/ PlanSwaps(j)
  \/ BuildVaultSwaps(j) \/ AgentBuildsSwaps(j) \/ SendExecuted(j) \/ SendRefused(j) \/ SendLost(j) \/ JobFails(j)

Finished ==
  /\ \A j \in Jobs : job[j].pc \in {"done", "dead"}
  /\ UNCHANGED vars

Next ==
  \/ \E j \in Jobs : Click(j) \/ CronCall(j) \/ AgentCall(j) \/ JobStep(j) \/ JobKilled(j)
  \/ \E j \in Jobs : Reply(j) \/ CallFails(j) \/ CallCutOff(j)
  \/ LandsLate \/ OwnerMoves
  \/ Finished

(* A job that is not killed goes on, an answer reaches the panel, and a    *)
(* call whose job was killed fails.                                        *)
Fairness ==
  \A j \in Jobs : WF_vars(JobStep(j)) /\ WF_vars(Reply(j)) /\ WF_vars(CallFails(j))

Spec == Init /\ [][Next]_vars /\ Fairness

-----------------------------------------------------------------------------
(* What is reported is what happened, to any caller: a success means that  *)
(* every transaction of every swap took effect, and "needs whitelist" and  *)
(* "no rebalance needed" that none did.  An error tells nothing of what    *)
(* was sold before it, only that nothing came after.  On the panel, under  *)
(* the name of the last call, a success is that call's if no other call    *)
(* was awaited when it was made, as a conversion may be beside any.        *)
ReportIsTrue ==
  /\ \A j \in Jobs :
       /\ job[j].status = "success" /\ job[j].action # "lending" => executed[j] = job[j].planned
       /\ job[j].status \in {"needs_whitelist", "no_rebalance_needed"} => executed[j] = 0
  /\ panel.alone /\ panel.result = "success" /\ job[panel.call].action # "lending"
       => executed[panel.call] = job[panel.call].planned

(* How far from its share a token may be left: by less than the smallest   *)
(* swap, or by what slippage and rounding to whole units took.             *)
Tolerance(worth, t) == Max({MIN_SWAP_USD, Price[t] + (worth * SLIPPAGE) \div 100})

(* Hundredths of what a holding is above its share.                        *)
OffShare(worth, held, t) == 100 * (held[t] * Price[t]) - Weight[t] * worth

Bought == Listed \ {USDC}
Tolerances(worth) == [t \in Bought |-> Tolerance(worth, t)]

Balanced(worth, held) ==
  /\ \A t \in Bought : Abs(OffShare(worth, held, t)) <= 100 * Tolerance(worth, t)
  /\ Abs(OffShare(worth, held, USDC))
       <= 100 * MapThenSumSet(LAMBDA t : Tolerances(worth)[t], Bought)

Holdings == [t \in Listed |-> balance[t] * Price[t]]

(* What the Safe was worth when a job that now ends divided it.            *)
Worth(j) ==
  IF job[j].pc = "send" THEN job[j].worth ELSE MapThenSumSet(LAMBDA t : Holdings[t], Listed)

Converted(held) == \A t \in Bought : held[t] * Price[t] < MIN_SWAP_USD

(* A job that had all balances and prices right and the Safe to itself     *)
(* leaves it as it was asked to: a rebalance with every token at its share *)
(* of what the Safe was worth and USDC with what the others leave of it, a *)
(* conversion with nothing but USDC worth a swap.                          *)
ReachesItsGoal ==
  [][\A j \in Jobs :
       LET b == job'[j] IN
       /\ b.status \in {"success", "no_rebalance_needed"} /\ job[j].status = "none"
       /\ ~b.partial /\ ~disturbed'[j]
       => /\ b.action = "rebalance" => Balanced(Worth(j), balance')
          /\ b.action = "convert_all" => Converted(balance')]_vars

(* The panel is given back to the owner, whatever becomes of the call.     *)
PanelFreed == panel.rebalancing ~> ~panel.rebalancing
=============================================================================
