# Formal verification of the Yield AI Safe

TLA+ specifications, TLC model-checking runs and TLAPS proofs for the `yield_vault` Solana program, the
agent that trades and lends for a Safe, and the clients through which its owner uses it. Paths below are
relative to the repository root; `lib.rs` and `exponent.rs` are in `programs/yield-vault/src/`, the
components and libraries named without a path in `web/src/`.

Contents: 1 the system · 2 inventory by component · 3 what is modelled · 4 model-checking runs ·
5 bounds and assumptions · 6 proofs · 7 disagreements between code and documents ·
8 what is not modelled · 9 plan · 10 how to run.

## 1. The system

One wallet, the *owner*, has one *Safe*: a program-derived account (`Vault`, seeds `["vault", owner]`)
whose PDA is the authority of the Safe's token accounts. USDC in the Safe may be invested through two
typed routes, a Kamino kVault and an Exponent principal token (PT), by the owner or by an *executor*.
An executor is accepted when three parties' records agree at the moment of the instruction: the Safe
names it (`vault.agent`, owner), the registry lists it (`ExecutorRegistry.approved`, admin), and the
Safe's policy account (`ExecutorLimits`, owner) is enabled and has room. Off chain, a web client and a
mobile API build owner transactions, and an agent service plans, signs and sends jobs that rebalance,
lend and borrow for a Safe on request of the cards and of a chat.

```
 owner ──signs──> Safe panel / mobile plans / PT panel ──┐
                                                         ├──> yield_vault ──CPI──> Kamino kVault
 cards, chat ──HTTP──> agent jobs ──sender (executor)────┘         │        ──CPI──> Exponent, Orca
    │                                                              └─ Config, ExecutorRegistry,
    └─ price, token and yield reads through caches                    Vault, ExecutorLimits, ExponentPosition
```

On chain, interaction is by transactions on shared accounts. A transaction is atomic: a failed `require!`
or a failed CPI leaves no trace. Concurrency is the interleaving of transactions of owner, executor, admin
and strangers. Off chain nothing locks anything: two requests, a cron call, two tabs and a phone work at
the same Safe, each from what it last read, and an answer may be lost while the work it asked for goes on.

## 2. Inventory

| Component | State | Operations | Hard behaviour | What makes it correct |
|---|---|---|---|---|
| Protocol administration, `lib.rs` 368–441 | `Config` (admin, fee), `ExecutorRegistry` (default, approved) | `init_config`, `set_config`, `init_executor_registry`, `set_executor_registry` | order of deployment; revocation of an executor that is some Safe's agent | fee never above 20%; a revocation is in force from the next instruction on; no funds enter a route whose exit lacks an account |
| Safe lifecycle, 201–217, 319–366, 443–464, 858–877 | `Vault` (agent, allocation, route principal, allowed programs) | `initialize`, `initialize_with_limits`, `create_safe_for`, `set_allocation`, `set_agent`, `set_allowed_programs`, `close_safe` | closing and re-creating while a position or a policy survives | closing loses nothing; a policy never outlives the Safe it was granted for |
| Executor policy and ledger, 141–184, 219–228, 394–418 | `ExecutorLimits`: three limits, pause, ring of 25 hourly buckets | `set_executor_limits`, `charge_volume` | ring reuse after long pauses, hour boundaries, limits changed mid-window | what moved in any 24 hours never exceeds the limit in force; nothing is forgotten early or counted twice |
| Kamino USDC route, 34–47, 186–199, 654–785 | `route_principal[0]`, Safe USDC, shares; treasury USDC | `kamino_deposit`, `kamino_withdraw` | partial exits with rounding, losses, a vault that takes less than asked, changes of fee | fee only on realised profit; no basis without shares; executor within target and limits |
| Exponent PT route, `exponent.rs` | `ExponentPosition`, `route_principal[1]`, Safe PT/ONyc/SY/YT | init, policy, buy (USDC, ONyc), sell, redeem, ONyc transfers, recover | two records of one principal; in-kind recovery; PT sent by strangers; maturity; the ledger shared with Kamino | books balance; tracked PT can always be exited; cumulative executor loss bounded |
| Owner transfers, 466–531 | token accounts | `deposit`, `withdraw`, `deposit_spl`, `withdraw_spl` | protected mints | only the owner's own accounts; route tokens leave only through the routes |
| Rent and lamports, 787–856 | SOL of the Safe PDA | `close_empty_token_account`, `withdraw_excess_lamports`, `refund_excess_lamports` | temporary top-ups by the agent | the payer of a top-up gets it back, and no more |
| Generic CPI gateway, 533–652 | `allowed_programs`, `last_rebalance_ts` | `execute_swap_cpi`, `execute_protocol_cpi`, `protect_generic` | arbitrary accounts behind the Safe's signature | route tokens and the program's own accounts are out of its reach |
| Transaction sender, `server/agent/swap/send.ts` | blockhash, last valid height, attempts | `signAndSendTx` with confirmation, probe, retry | late landing, failing probes, blind retry | an instruction list is executed at most once per request; the caller is answered |
| Rebalance engine, `server/agent/rebalance/`, cron route, `agent/` server | none kept; a snapshot per request | snapshot, swap plan, quotes, `executeSwaps` | stale snapshot, two jobs at once, failure half-way, a job killed by the platform | what is reported is what was sold and bought; an undisturbed job reaches the allocation |
| Agent protocol jobs, `server/agent/runRebalance.ts`, `protocols/` | lending position, kVault shares, lamports of the Safe, all on chain | find-or-create, deposit, borrow, repay, withdraw, kVault in and out | double creation, repayments retried, rent lent and refunded, partial failure | each operation takes effect at most once; a reported full repayment is one |
| Safe panel (web), `lib/safeV2.ts`, `SafeV2Panel.tsx` | what it last read, an operation | create, deposit, withdraw, save, invest, redeem, full exit, reclaim, close; sign-send-poll | prompts and polls between read and use; another client; stale figures | the saved target survives an investment; a full exit that reports success is full |
| Mobile plans and broadcast, `lib/mobileSafe.ts`, `mobileBroadcast.server.ts`, `V2MobileSafePanel.tsx` | a journal in localStorage | plan, check, sign, broadcast, status, return plan | reload between signature and send, a lost answer | never two operations open at once, none forgotten |
| Exponent adapter and panel, `server/exponent/`, `mobileExponent.server.ts`, `ExponentOnycPanel.tsx` | the quote under review | quote, prepare, sign, setup, ONyc transfers | market, clock and allocation move between review and landing | what lands is what was reviewed, and the allocation is as before |
| Price, token and yield reads, `lib/jupiter.ts`, `app/api/jupiter/`, `lib/kaminoYield.ts`, `exponentYield.ts` | caches with lifetimes, requests under way | read through, join a request, fill | a cache before a cache; answers that overtake one another | what is handed on is recent, and complete |
| Chat, `AIChat.tsx`, `app/api/chat/route.ts` | messages, the last proposal | propose, confirm by button or in words, tools of the model | words taken for consent, retries after an error | the chat runs what was confirmed, once |
| Cards and hooks, `EarnIdeasCards.tsx`, `VaultCard.tsx`, `DepositCard.tsx`, `WalletAssetsCard.tsx`, `useRebalance.ts`, `useVault.ts` | flags, labels, figures of the last read | enter and leave a loop, rebalance, sell, borrow, repay, pay in and out | three calls in a row, one flag for many buttons, stale closures | what a card reports is so; every flag is cleared |
| Holdings, history, charts, catalogue routes; operator scripts | none | reads; one-shot commands | — | — |

`PROJECT.json` lists the components with their status, and the hazards at the lines where they bite. Known
hazards for which no property is stated, because each is one instruction away from its cause: a Safe re-created with
limits starts an empty ledger (`lib.rs` 341); an exit needs the treasury's token account (1223); a refund
accepts an agent the admin has delisted (829); an executor's PT exit pays the owner's wallet, so the Kamino basis may
then exceed its target (`exponent.rs` 490); a return plan keeps no record (`mobileSafe.ts` 416).

## 3. What is modelled

| Module | Models | Remarks |
|---|---|---|
| `VaultMath` | constants and arithmetic of `lib.rs` | `realize_exit`, `total_principal_after`, `principal_within_target`, `validate_allocation`, `validate_executors`, one operator each |
| `ExecutorPolicy` | the `ExecutorLimits` account and `charge_volume` | the ring as two functions from bucket to hour and volume |
| `ExecutorLedger` | the life of one policy account against the clock | histories `spent` (per tick) and `hourly` are what the properties compare the ring with |
| `RollingBudget` | abstract: spend within a cap over the exact last window | no buckets; implemented by `ExecutorLedger` |
| `YieldVault` | administration, lifecycle, policy, owner USDC, the Kamino route | the whole program for one owner except what section 8 lists |
| `Custody` | abstract: how the owner's money may move | no executors, limits or accounts; implemented by `YieldVault` |
| `ExponentRoute` | the Exponent route, composed with `YieldVault` | one `idle`, one `safe`, one `limits`, one clock: `SafeStep` is any step of `YieldVault` |
| `TxSender` | one call of `signAndSendTx` beside the cluster and the RPC node | height is counted per transaction: the blocks that may still include it |
| `AtMostOnce` | abstract: what a caller of the sender may rely on | implemented by `TxSender`; what `LendJobs` and `Rebalance` assume of a send |
| `LendJobs` | the six protocol jobs and their routes, side by side | a job is a record with a `pc`; plans are sequences of transactions handed one by one to the sender |
| `Rebalance` | the engine behind panel, cron and standalone agent | calls are numbered as they arrive; the panel's flag and result beside them |
| `SafeChain` | the Safe as the owner's clients see it, and signed transactions | a transaction is signed, live, then done, failed or dead |
| `OwnerPanel` | the web panel with its sender and poll | buttons go by `shown`; full exit and investment read again |
| `MobileSafe` | plans, the mobile panel with its journal, the plans of a native client | tabs share the journal and may be reloaded |
| `OwnerClients` | `OwnerPanel` and `MobileSafe` at one Safe | |
| `SafeJobs` | calls of the cards and the chat, the Safe as a purse, what the hooks last read | a job takes effect as a whole or, for a conversion, in part; an answer may be lost |
| `LoopCards`, `VaultButtons`, `TransferCard` | the cards | one record per card: its flags, and the figures it captured |
| `ChatAssistant` | the chat and its route | what the model says is open |
| `ExponentPanel` | quotes, prepared transactions and their landing | market, clock and allocation move in between |
| `PriceReads` | the caches of pages, routes and yield readers | a value stands for the time it was current |
| `AppScreens` | the last six at one Safe | |
| `MC*` | instances for TLC | `MCExponentRoute` starts after deployment |
| `SumLemmas` | lemmas on sums over finite sets and on recursion along a sequence | nothing of the code; what the proofs of ledger, agent and clients need |
| `*Proofs` | theorems, section 6 | `ProgramProofs` is about the three program modules, `AgentProofs` about sender and rebalancer |

**Program state.** A PDA is a record with an `exists` field; its other fields are the fields of the Anchor
account, under the source's names. `Init`, `init_if_needed` and closing are transitions of `exists`.
Token accounts are the USDC amounts `wallet`, `idle`, `treasury`, the share count `shares`, and `pt`,
`onyc`, `ownerOnyc`. `nav` is what the kVault would pay for all the Safe's shares. `granted`,
`losses` and `executorExits` are histories: no action reads them except to cap `losses`.

**Program actions.** One action per instruction, its guard every check of the handler and of its `Accounts`
struct that depends on modelled state, including those after the CPI: since a transaction is atomic,
a late check is a guard. `signer` is a parameter where the code distinguishes owner and executor.

**External parties.** The kVault takes what it was asked to or one unit less (`KvaultTaken`: the code
reads the balance after the CPI because this happens), mints shares at its price, burns as many as
asked or, for the "all" value, as many as it can pay for. It may earn or lose at any time. Exponent
and Orca pay any of a set of prices; PT may arrive from strangers; the clock advances at any time.

**Sender.** One action per request of `send.ts`, with every outcome the code tells apart: a reply, a
refusal, a reply lost after the effect. `Land` and `NewBlock` are the cluster's and happen between any
two of them, also after the call has returned. `expired` is `isBlockHeightExceeded` of the error in
hand; `fate` is the truth on the chain, which the sender only learns through `Confirmed`, `Probe` and
`LastProbe`. A status request that answers "processed" counts as not answered, as in the code.

**Jobs.** A step of a job is a run of the code between two reads of the chain, or one transaction; reads that
follow one another without a transaction of the job in between count as one. A transaction executes, is refused with the program's reason, or is
given up on and may still land (`late`): what `AtMostOnce` leaves open. In `LendJobs` the market, the kVault and the gateway are external; debt
is what remains after `dustDebtRaw`, in units finer than the amounts, so that margins and dust exist. At this
commit `execute_protocol_cpi` accepts only the owner, so the jobs act where the authority key is the owner's
or under an earlier deployment of the program. In `Rebalance` the strategy is Conservative, the one the
code still reads, so a job has at most one swap of up to three transactions. A balance that cannot be read
counts as 0 (`portfolio.ts` 102), a lost answer of one swap leads to trading it again.
The standalone agent parses a v2 account by the v1 layout: its allowlist is empty and it never sends.

**Clients.** `shown` is what a panel last read; it is refreshed after a success only, as in the code. A
confirmation by the owner and the simulation before it are one step. The poll reads a transaction's status
before the block height, so it may say "expired" of one that landed between. `kamino_withdraw` burns what is there
when it lands; the bounded steps of a full exit count redemptions.

**Cards.** Hooks are one shared copy of what was read, which may be refreshed at any time, part by part. A
handler captures its figures when the button is pressed and uses them to its end, whatever else happens:
`earn.from`, `loop.from`, `buttons.from`. `disturbed` records who was crossed by another caller's job,
`buttons.alone` whether two jobs of the hook overlapped. A page reload frees the screens and leaves the jobs running.

**Abstracted.** Public-key layouts of external accounts, the `lookup` of remaining accounts and
Anchor discriminators become "the right accounts were passed". Rust's `checked_*` overflow errors do
not occur: amounts are mathematical integers, and u64 is wide enough for every USDC amount that exists.
SY and YT dust, `deadline`, `min_intermediate` and `quoted_output` of an Exponent order are left out of `ExponentRoute`:
they only bind the caller to the caller's own numbers, and an order that fails them does not happen (`ExponentPanel` has the
caller's side). Prices of listed tokens and the xStock are 1 in the cards. Wording, layout, batching, throttling and the 429 retry of
the price reads are left out.

## 4. Model-checking runs

| Run | Question | Checks |
|---|---|---|
| `ledger` | Does the ring of hourly buckets keep what it must, and does it keep a 24-hour budget? | `TypeOK`, `LedgerExact` (each hour of the window is in the ring exactly), `WindowSandwich` (the counted volume lies between the exact 24-hour and 25-hour sums), `BudgetSpec` (refines `RollingBudget`) |
| `owner` | Are basis, fee and custody right for an owner who deposits, exits in parts, gains, loses, closes and comes back? | `TypeOK`, `NoPhantomPrincipal`, `FeeOnlyOnRealizedProfit`, `CustodyPromise` (refines `Custody`) |
| `executor` | What can an executor do while owner and admin change everything around it? | `PolicyOwnerGranted`, `ExecutorWithinLimits` |
| `target` | Do repeated executor deposits stay within the owner's target through losses and gains? | `TargetNeverExceeded`, under `DelegatedSpec` |
| `exponent_owner` | Do the books of a PT position balance and can it always be exited? | `BasisConserved`, `TrackedIsHeld` |
| `exponent_executor` | Is an executor's PT trading within the loss bound and the shared ledger? | `RouteFollowsPosition`, `ExecutorLossCapped`, `ExponentWithinLimits` |
| `sender` | Does the retry loop of the agent's sender execute instructions twice, lie about the outcome, or leave its caller waiting? | `SenderTypeOK`, `PromiseSpec` (refines `AtMostOnce`), `NoResendWhileLive`, `CallerIsAnswered` (liveness), under `FairSpec` |
| `lending` | What can two lending requests on one Safe do to each other, and what does a failure half-way leave? | `TypeOK`, `OperatesOnce`, `OnePositionUnlessRaced`, `TopUpComesBack`, `RepaidMeansClosed`, `EveryRequestAnswered` (liveness) |
| `rebalance` | Is what a rebalancing job reports what happened, and does an undisturbed job do what was asked? | `TypeOK`, `ReportIsTrue`, `ReachesItsGoal`, `PanelFreed` (liveness) |
| `client` | Do the web panel, the mobile panel and a native client keep out of each other's way at one Safe? | `TypeOK`, `OneOpenOperation`, `FullExitIsFull`, `SavedTargetKept` |
| `screens` | Do cards, chat and PT panel tell the truth, do what was agreed to, and come back? Are the figures they read recent? | `TypeOK`, `CardReportsAreTrue`, `ReadsAreRecent`, `ChatRunsWhatWasConfirmed`, `TradeIsAsReviewed`, `ScreensFreed` (liveness) |
| `close_fee` | violation, section 7 | `NoFeeWithoutProfit` |

All but the last pass. Every property is accompanied by a mutant: a plausible bug in one definition (a
bucket not cleared, a window an hour short, a fee on proceeds, a registry not consulted, a recovery that forgets
one of two records, a retry of anything that failed, a journal written after the send, an investment that restores a
default target, a proposal confirmed twice, a cache that never expires ...) under which TLC finds the property
violated in the same run. The mutants are the operators marked "Mutant of" in the modules.

What a property compares with is never what the action wrote into the account it checks: `ExecutorWithinLimits`
and `ExponentWithinLimits` compute the moved amount from the token balances before and after; `CardReportsAreTrue`
compares the words on a card with the Safe; `ReportIsTrue` compares an answer with the transactions that took effect;
`ReadsAreRecent` knows when a value was current and not when it was cached.

Some properties hold with an exception, and the exception is part of what they say. `OnePositionUnlessRaced`:
two deposits that look for a position side by side both create one. `ReachesItsGoal`: not after a misread balance,
a late transaction or another job. `FullExitIsFull`: not if somebody paid in after the last read. `CardReportsAreTrue`: not if another
caller's job came in between, or two buttons of the Safe card overlapped. `ChatRunsWhatWasConfirmed`: words agreeing to a swap hand
the request to the model. `TradeIsAsReviewed`: not if the allocation was saved between preparation and landing. Section 7 says what happens then.

## 5. Bounds and assumptions

* **Ring.** 3 buckets of 2 ticks in `ledger` for 25 of 3600 seconds: a run of five hours wraps the ring
  and contains pauses of a full turn and more. Nothing in `charge_volume` depends on the numbers except
  through `HourOf`, `BucketOf` and the window bound, and the proofs of section 6 are for all of them.
  In the other runs the ledger is checked for composition only: 2 buckets of 1 tick.
* **Clock.** Starts at hour 2 or later: `hour_epoch` 0 of a fresh account must lie outside the window,
  which on a live cluster it does by 56 years (`LedgerAssumption`).
* **Amounts on chain.** Supplies of 4 to 8 units with odd losses and gains make every rounding case happen:
  exits whose basis share is not whole, a kVault that takes a unit less, a share price above and below
  par. Exponent buys are of 20 units so that the 5% bound is exactly one unit. `MaxTotal`, `MaxLosses`,
  `MaxShares`, `MaxSpent` and `MaxPt` cap what would otherwise grow; they stand in the guards of
  external actions, or, for `MaxShares` and `MaxSpent`, of deposits and buys, and switch off none of
  the exits. Fees of 2000 and 3000 bps sit at and above the cap, allocations of 0, 3000, 5000 and 10000.
* **Parties on chain.** One Safe, because no instruction reads two; one executor, because only the Safe's one
  agent is accepted, beside owner, admin and strangers. The owner-only runs have no executor.
* `ClientEmptiesFirst`: the client calls `close_safe` only on an empty Safe. `SafeV2Panel.tsx` 204–207
  and 520 disable the button while any token or share is held, and the transaction it builds (279–286)
  also closes every empty token account, which the token program refuses for one that has been funded
  since. The program itself does not check: `close_fee` sets the constant to FALSE.
* `ClientClosesPolicy`: the client appends the policy account to `close_safe` (`lib/safeV2.ts` 357–365).
* `DelegatedSpec` (run `target`): the owner funds and configures but leaves the route to the executor,
  because the target binds only the executor; an owner may exceed it, or withdraw idle USDC, at will.
* `DeployedSpec` (Exponent runs): config and registry exist and stay as they are; administration
  beside an executor is the matter of run `executor`. The theorems of section 6 are about
  `ExponentSpec`, which starts from nothing.
* **Sender.** `SEND_MAX_ATTEMPTS` is the code's 3; a blockhash lives for 3 blocks instead of 150, which
  lets a transaction land in the first, a middle and the last of them and the node hand out an older
  blockhash. There is no bound on time: heights are relative. `LastProbeAnswers` assumes that the
  status request before a new attempt is answered by a node that has seen the blocks it reported the
  height of; the first request of the same attempt may still fail.
* **Lending.** Two requests out of eight (every kind, in full and in part, on a known and an unknown position),
  against a Safe with no position or with a debt of 9 or 15 fine units, to either side of the thresholds of dust (3) and
  "nearly all" (6). `MaxLate` = 1 transaction given up on, `MaxAccruals` = 1 accrual of interest, ids up to `MaxId` = 2.
  Balances of lamports are a few units, enough for one top-up by each job and short of two.
* **Rebalance.** `MaxCalls` = 2 calls from any of the three sources, in any overlap; `MaxMishaps` = 1 for misreads,
  lost transactions, killed jobs, lost answers and moves of the owner together. 30 units against 40:60, or 4 and 10 of a token worth 2:
  a Safe that must buy and one that must sell, with slippage (10 percent) and `MIN_SWAP_USD` (2) of a size to matter. `ReachesItsGoal` allows each token
  what the code leaves undone: a swap below `MIN_SWAP_USD`, or slippage and one unit of the token, which rounding cannot split; USDC is what
  the others leave, so its share is allowed the sum of theirs. The strategy of the runs has one token beside USDC; the theorem is for any strategy that lists no token twice.
* **Clients.** `Supply` = 2, targets 0 and 50 percent, amounts of 1, at most `MaxTx` = 3 transactions signed, `MaxMoves` = 1 move of the executor.
  `MCUses` lists seven sets of buttons used side by side, chosen so that every client meets every operation that touches the same
  state. A full exit takes up to 2 redemptions for the code's 8. `Tabs` is one tab: what two do is in section 7.
* **Screens.** `MCUses` has 19 combinations of one to five parts, clicks or transactions to one to three, mishaps (refused or lost answers)
  to one. At most two handlers of `useRebalance` overlap, one drop on the wallet card is under way, and a chat turn runs at most two tools
  (`MaxTools`). Sizes: `LTV_LIMIT` 75 and `LTV_PCT` 50 percent, `RESIDUE` 1, typed amounts 1 and 3; rates 948 and 952 to `ONE` = 1000, which lie to
  either side of the 5 percent loss floor and less than the slippage of 50 bps apart; a quote lives one tick, maturity is at tick 2.
* **Reads.** Two mints and two pages; lifetimes of 1 (price), 2 (token data) and 2 (rate) seconds; `DELAY` = 1. The fetches of pages and routes have no
  timeout, so `DELAY` is an assumption on the network (the Kamino reader has one of 8 s). At most one answer is
  lost or short. The theorem of section 6 is for all of these.
* **Fairness.** `YieldVault`, `ExponentRoute` and `OwnerClients` assume none: nothing obliges an owner, an executor or an
  admin to act. `FairSpec` of `TxSender` assumes that blocks go on being produced, that an HTTP request
  to the node is answered or fails (the RPC client rejects on a closed or timed-out connection), and that
  `confirmTransaction` notices a landed transaction or a passed block height, which it polls for. Nothing
  is assumed of leaders or of the websocket. `LendJobs` and `Rebalance` assume that a job that is not killed goes on, which each of its requests
  does by `CallerIsAnswered`, and `Rebalance` that an HTTP call whose job was killed fails. `AppScreens` assumes that a handler goes on once
  its call is answered, and that calls are answered or cut off. Nothing is assumed of the owner: clicks, signatures, moves and
  reads are not in any fairness condition, and `ScreensFreed` says that the screens come back once clicks end.
* **Deadlock.** `CHECK_DEADLOCK FALSE`: the clock, the clicks and the bounded externals may run out, a deployment
  without a config may stop there, and an answered call has nothing more to do. `lending` and `rebalance` do check it: they
  may stop only where every request is answered.

## 6. Proofs

All theorems hold for every value of the constants that satisfies the stated assumptions (the ASSUMEs
of `VaultMath`, `ExecutorPolicy`, `ExecutorLedger`, `YieldVault`, `ExponentRoute`, `TxSender`, `LendJobs`, `Rebalance`, `SafeChain`,
`SafeJobs`, `LoopCards`, `VaultButtons`, `ExponentPanel`, `PriceReads`): any ring size, hour length, amounts, prices, gains, losses, fee rates, attempts, lifetimes and delays, any number
of executors up to the registry's 16, any number of concurrent requests, tabs, pages, transactions, trades, tokens and moves.

| Theorem | States | Module |
|---|---|---|
| `LedgerTypeCorrect`, `LedgerIsExact`, `WindowIsSandwiched` | `TypeOK`, `LedgerExact`, `WindowSandwich` | `ExecutorLedgerProofs` |
| `LedgerImplementsBudget` | `ExecutorLedger` implements `RollingBudget` | `ExecutorLedgerProofs` |
| `VaultTypeCorrect`, `NoPhantomPrincipalHolds` | the invariants of the same meaning | `ProgramProofs` |
| `VaultTypeCorrectWithExponent` | both of them, with the Exponent route beside | `ProgramProofs` |
| `ExitAccountsAlwaysExist` | whenever the Safe holds shares, the accounts `kamino_withdraw` needs exist | `ProgramProofs` |
| `FeeIsOnlyOnRealizedProfit`, `VaultKeepsCustodyPromise` | `FeeOnlyOnRealizedProfit`; `YieldVault` implements `Custody`; assuming `ClientEmptiesFirst` | `ProgramProofs` |
| `ExecutorIsAuthorised` | an executor's step is authorised by owner and admin at that moment | `ProgramProofs` |
| `ExecutorStaysWithinLimits`, `ExponentStaysWithinLimits` | `ExecutorWithinLimits`, `ExponentWithinLimits` | `ProgramProofs` |
| `PolicyIsOwnerGranted` | `PolicyOwnerGranted`, assuming `ClientClosesPolicy` | `ProgramProofs` |
| `TargetIsNeverExceeded` | `TargetNeverExceeded` for `DelegatedSpec` | `ProgramProofs` |
| `ExponentTypeCorrect`, `BasisIsConserved`, `TrackedPtIsHeld`, `ExecutorLossIsCapped` | types, and the properties of the same meaning | `ProgramProofs` |
| `RouteAlwaysFollowsPosition`, `PositionKeepsItsAccounts` | `RouteFollowsPosition`; the accounts an exit names exist; assuming `ClientEmptiesFirst` | `ProgramProofs` |
| `SenderTypeCorrect`, `ResendsOnlyTheDead` | `SenderTypeOK`, `NoResendWhileLive` | `AgentProofs` |
| `SenderImplementsAtMostOnce` | `TxSender` implements `AtMostOnce`, assuming `LastProbeAnswers` | `AgentProofs` |
| `RebalanceTypeCorrect`, `ReportsAreTrue`, `GoalIsReached` | `TypeOK`, `ReportIsTrue`, `ReachesItsGoal` of `Rebalance` | `AgentProofs` |
| `LendTypeCorrect`, `EachRequestOperatesOnce`, `SecondPositionNeedsRace`, `EveryTopUpComesBack` | `TypeOK`, `OperatesOnce`, `OnePositionUnlessRaced`, `TopUpComesBack` | `LendJobsProofs` |
| `RepaymentsClose` | `RepaidMeansClosed`, for interest and margins as below | `LendJobsProofs` |
| `OwnerTypeCorrect`, `SavedTargetIsKept`, `FullExitReturnsAll` | `TypeOK`, `SavedTargetKept`, `FullExitIsFull` | `OwnerClientsProofs` |
| `JournalHoldsTheOpenOperation` | `OneOpenOperation`, assuming one tab | `OwnerClientsProofs` |
| `PagesTyped` | `TypeOK` of `AppScreens`: all seven modules of the pages side by side | `AppScreensProofs` |
| `CardsTellTheTruth`, `ChatActsOnConfirmation` | `CardReportsAreTrue`, `ChatRunsWhatWasConfirmed` | `AppScreensProofs` |
| `TradesAreAsReviewed` | `TradeIsAsReviewed` | `AppScreensProofs` |
| `ReadsAreAlwaysRecent` | `ReadsAreRecent` | `AppScreensProofs` |

*Ledger.* `LedgerInv` adds to `LedgerExact` that no bucket is claimed for a future hour
(`NoFutureEpoch`) and that nothing was charged in one (`NoFutureCharge`). The step that matters is a
charge into a bucket of another hour: two hours of the window are less than a ring apart, so they never
share a bucket (`NearHoursDiffer`), and clearing the old hour loses nothing the window still needs.

*Window.* What `charge_volume` counts is a sum over buckets, what the owner was promised is a sum over ticks. `HistoryInv` ties the two
histories together: what an hour holds is what its ticks hold, nothing is spent ahead of the clock, and a bucket once claimed names an hour that
fits it. The sum over the ring is then regrouped by hour (`SumByKey`), each hour is split into its ticks, and the ticks of the counted
hours lie between the exact window and the window plus one hour. The refinement of `RollingBudget` follows from the lower half: a charge the ring
admits, the exact budget admits.

*Vault.* `VaultInv` is `TypeOK` with: targets add up to at most 10000 bps (otherwise a deposit could
exceed the idle USDC), no basis without a Safe (otherwise re-creation would break the next part), no
basis without shares, and registry only after config (otherwise shares could exist without the config
an exit needs). The two Kamino instructions are first reduced to `DepositOf` and `ExitOf`, which say
what they do with the arithmetic done; the first lemmas of `ProgramProofs` bound the parts (a share of the
basis is at most the basis, the last share takes all of it, the fee is at most 20% of the gain).
The same two effects then give the invariant, the fee bound and the step refinement of `Custody`.

*Limits.* `ExecutorWithinLimits` measures what moved on the token accounts, so its proof has to show that the program charges what it moves: what the
kVault took, not what was asked for, on a deposit, and what it paid, before the fee, on an exit. The rest is `charge_volume`: the charged sum grows
by the charge and was admitted under the three limits of the moment. `ExponentWithinLimits` is the same for the PT trades, which charge the larger of basis and
proceeds, in the ledger both routes share. Its invariant `SharedInv` is `VaultInv` and `PositionInv` together, of which every step of either route keeps both.

*Target.* Inductive together with `VaultInv`: a deposit is checked against the target after the CPI; an
exit lowers the basis and never the idle USDC, since the fee is at most what was received, so the share
of basis in basis plus idle falls; a gain or loss of the kVault changes neither side.

*Exponent.* `PositionInv` (types, books, tracked ≤ held, cumulative loss) is inductive without any
knowledge of the Safe: a buy, an exit and a recovery are reduced to `Bought`, `Sold` and `Recovered`.
That the last exit takes the rest of the basis is what makes basis and tracked PT end together.
`RouteInv` joins it with `VaultInv` and needs the equality of the two principals also while there is no
Safe or no position: that is where closing an empty Safe enters the argument.

*Sender.* `SenderInv` says that at most the transaction of the current turn is alive: earlier ones are past
their block height (`EarlierDead`), later ones unsigned, and the error on whose strength the loop goes on is
a real expiry (`ExpiryIsReal`). `NoResendWhileLive` then needs no assumption on the node; that an earlier
transaction also had no effect, and so the refinement, needs the answered status request.

*Rebalancer.* A job's answer is compared with a count of the transactions of its call that took effect. `RebalanceInv` keeps, for each of
any number of overlapping jobs (`JobsGood`), that nothing took effect before it sends, that while it sends the transactions done and those left are
what was planned, and that a success was answered with none left; a transaction given up on belongs to a job that
answered with an error (`LateFailed`), so its landing later makes no success untrue; the panel's word is that of the call it waited for (`PanelFollows`).

*Allocation.* `GoalInv` is about a job that nothing crossed and that has left out nothing. While it reads, it has seen what the Safe holds of every token it has come to; what it
then sends is one trade for each token of a set `T` of those that are off. With `T` left to do, every other token is within its tolerance,
and USDC and the offsets of `T` add up to no more than the tolerances of the tokens that are done (`SharesLeft`). When the job divides the Safe the
offsets of all tokens cancel, because the weights add up to 100 and what the Safe was worth is the sum of what it holds, and those it leaves alone are within `MIN_SWAP_USD`
(`SharesStart`); a trade takes its token out of `T`
and costs at most that token's tolerance (`TradeMoves`, `TradeDone`: rounding of amount and quote, and slippage, for any price); with `T` empty the allocation is reached
(`SharesReached`). A conversion is the same argument without a sum (`SalesLeft`, `SaleDone`). It needs that the strategy lists no token twice, which is an assumption on
`Allocations`; with a token listed twice the job would trade it twice from the same reading.

*Lending.* `LendInv`: a job sends one of the plans its kind builds, in order (`JobsSound`); until it has answered it has had no effect
(`OneShot`), so neither a retry with another margin nor a transaction that lands after it was given up on (`LateSound`: at most one per job, and only of a
job that answered with an error) makes it two. A job about to create a position saw none and there is none unless it was disturbed (`CreationInv`).
The lamports are a matter of a sum over all jobs: `LoanInv` says that what the executor has and what planned or lost last transactions will
refund (`owed`) is at most what it started with, and, while no job has failed, that the Safe keeps no more than its own reserve and what it owes.

*Repayment.* `RepayInv` says of a full repayment under way that debt and payment leave the margin and less than a unit beyond it and the interest since,
unless another job worked on the position. `RepaymentsClose` therefore has two hypotheses: the interest added in between is at most
`(JUPITER_REPAY_DUST_USER_RAW - JUPITER_REPAY_SAFETY_MEDIUM) * SCALE`, and the market's least debt is below the larger margin. The code's constants are 100000 and 100 raw units
(`jupiterBorrow.ts` 22–44), so the first allows 0.0999 USDC of interest between reading the debt and paying it; more would leave more than dust behind a
reported full repayment. The second is about a figure of the market that the code cannot read and only estimates ("between 0 and `min_user_debt`"); where it fails, a
payment that leaves the margin is refused, also the second time, and the refusal is reported as a success (section 7, item 6).

*Clients.* `SafeInv` has, besides types in which every USDC is in the wallet, the Safe or Kamino: signatures are numbered as they are made,
and no more targets were saved than transactions landed (`Numbered`); whatever is built, planned, signed or sent for another purpose than setting the target, and planned
from the target that is still the saved one, *keeps* it: it does not touch it, or ends by putting that very value back (`TxFresh`, `PanelFresh`,
`TabFresh`); the panel waits for a transaction it sent (`Watched`); and the last transaction of a full exit withdraws at least what the Safe holds,
for as long as nobody pays in, so that once it has landed nothing is left (`ExitInv`). The lemmas about lists of instructions
(`EffectType` and the run of `Execute`, for lists of any length) say that an accepted list which keeps the target leaves it, that only a deposit adds to what the Safe
holds and that a list is executed as a whole or not at all.

*Reads.* The age of a value is bounded only at the end of a chain of caches, and requests join, overlap and
overtake one another on the way. `ReadsInv` therefore bounds every place a value can be: an entry of the route's cache
expires at most a lifetime and a delay after it was current (`KeptInv`), a request to the indexer was made no later than
whoever waits for it came (`AskedInv`), an answer on its way to a page is at most a lifetime and two delays old
and complete unless an answer was lost (`BackInv`), and a reader joins no request that is older than a delay. Each action
has its lemma; time itself (`SecondPassesKeeps`) is the one that needs that requests are not left waiting longer than `DELAY`.

*Screens.* `AppInv` joins an invariant for each part of the pages; the theorems are about `Spec`, in which all parts take steps. A step of one part
says of another caller `c` only that it `Passes(c)`: its call stays as it is, and the Safe too unless `c` counts as disturbed from then on.
Each invariant speaks of its own caller, its own variable and the Safe, so it is kept by whatever passes it, and `StepOf(c)` (a step passes all but `c`) is proved once
for each click and each answer. What a job does to the Safe is stated once for each kind (the outcome lemmas), for any balances.

*Cards.* That a report is true at its end follows from a claim at each step on the way: while step `k` of an activation is under way and nothing crossed it, the Safe is where
`k - 1` steps lead, or `k` once the answer is a success (`EarnFollows`, `Activated`). A deactivation promises less, because a job may keep a part (`note`), so
`LoopFollows` says of the shares, the debt and the collateral only what the steps without a note promise. The hook of the buttons knows whose result it shows only
while one of its handlers runs by itself: `ButtonInv` claims something only while `alone` is set, and then that the last call's job is the label shown and did what the label says.

*Chat.* A request handled by the server stems from the proposal shown: it carries the button's action only as "confirm" and only for that proposal, and the model's tools are enabled
for execution by nothing but a yes to a swap (`ChatInv`).

*PT trades.* `TradeInv`: what is offered has a minimum of at least its floor (`Quotes`), a transaction enforces no less than was accepted when it was prepared
(`Enforces`), only what was prepared is with the wallet, and it stays so while rates move, quotes expire and other trades land. Landing then pays what the transaction
enforces. Types of the market (`MarketInv`) need that the rates the market takes are bounded.

*Journal.* `JournalInv` adds to `OneOpenOperation` that the tab waits for exactly what is in the journal, and that it is
with the wallet only while the journal is empty (`TabInv`): so what is signed is signed next to nothing, and what a
check clears is what had been settled. All other steps are reduced to `OpensNone`. `TabInv` is what a second tab breaks (section 7).

*Sums and lists.* The library's induction theorems take an operator as parameter, which the installed provers cannot instantiate. Where a proof needs
induction it argues by a least counterexample instead: the smallest number (`UpTo`), or a smallest subset of a finite set (`SmallestSubset`), for which
a statement fails. `SumLemmas` gets from it what a fold over a set is, and the effect of a list of instructions is unrolled in the same way.

*Model-checked only.* Liveness under fairness (`CallerIsAnswered`, `EveryRequestAnswered`, `PanelFreed`, `ScreensFreed`), which with ENABLED is out of the
prover's reach. Every safety property of a passing run is stated by a theorem.

## 7. Disagreements between code and documents

**Shown by a run.** `close_fee`: `close_safe` (`lib.rs` 862) does not look at what the Safe holds. A Safe closed with a
Kamino position and created again has `route_principal` 0 beside the same shares, so the next
`kamino_withdraw` counts the whole redemption as gain: a fee of up to 20% of principal without any
profit. README.md:53 promises a fee "only to realized profit", README.md:55 that "Nothing is lost by
closing". The current web client does not offer the close; the program allows it.

**Met while modelling.** The models contain the behaviour; the properties state what holds beside it.

*Program and sender*

1. Closing without appending the policy account leaves it enabled, at an address the next
   Safe of the same owner derives again; `initialize` does not touch it, so the executor of the new Safe is
   enabled without a signature for it, against docs/yield-ai-v2-executor-limits.md:15. `PolicyOwnerGranted` fails with
   `ClientClosesPolicy` FALSE.
2. Closing with PT held sets the route principal to 0 while the position's principal survives in its own
   account. `buy` and `exit` require the two equal, so the position cannot
   be bought into, sold or redeemed until an in-kind recovery of some PT writes them equal, against
   README.md:55 ("restores control of every remaining token account and position"). `RouteFollowsPosition` fails with
   `ClientEmptiesFirst` FALSE.
3. Both status requests of an expired attempt swallow their errors (`send.ts` 146, 222). When
   both fail, "Probe signature status before deciding it's a failure" (send.ts:145) has not happened, and the
   instructions of a transaction that took effect are signed with a fresh blockhash and take effect twice. The refinement of
   `AtMostOnce` fails with `LastProbeAnswers` FALSE.

*Agent jobs*

4. A repayment in full that is retried with the larger margin leaves the first attempt's top-up in the Safe, although
   docs/earn-opportunities.md:115 says that the follow-up refund returns what remains. `TopUpComesBack` leaves such jobs out.
5. "Create a position NFT only when none exists" (docs/earn-opportunities.md) does not hold of two requests at once.
6. A repayment refused twice is reported as a success, and the branch at `runRebalance.ts` 313 and 325 for a failed exact
   withdrawal is never reached: `jupiterBorrow.ts` 729 has fallen back to the maximum by then.
7. "Sell ALL non-USDC holdings" (`rebalance/engine.ts`): only listed tokens are sold.

*Safe panel and mobile*

8. "Reclaim rent" closes the Safe's empty USDC account while its USDC is in Kamino. Redemptions are then rejected on chain until a mobile
   or native plan creates the account again (a deposit of the web panel fails as well), although SafeV2Panel.tsx:403 says that "Each confirmed
   step can be resumed after interruption".
9. A panel that shows old figures closes a Safe that has shares by now, although SafeV2Panel.tsx:526 says
   "Close Safe unlocks after every holding is withdrawn".
10. The mobile panel's check (`V2MobileSafePanel.tsx` 116) removes whatever entry the journal has, and `signAndSend` reads the journal before
    it waits for the wallet: two tabs can have two operations open (docs/yield-ai-v2-mobile-mainnet.md:30). The run
    uses one tab. The entry of a transaction the wallet signed and that was dropped before its status was ever known cannot be cleared.
11. A return plan carried out again returns USDC again; docs/yield-ai-v2-owner-protocol-api.md:42 says so.

*PT panel*

12. A buy with the route disabled writes back the allocation read at preparation: a save that landed in between is
    lost (exponentOwnerAllocation.ts:4 "restore the executor policy atomically"). Of two prepared setups the second fails.
    After "Confirmation is pending; inspect the signature before retrying" (ExponentOnycPanel.tsx:168) a newly prepared trade may land beside the first.

*Cards and chat*

13. "Withdraw all" withdraws the USDC of the render before the conversion (`DepositCard.tsx` 252–261, a stale closure): what was
    converted stays in the Safe, although DepositCard.tsx:477 says "Converts all vault tokens to USDC, then withdraws".
    A drop on the card in the meantime sets its step to idle, so that a second withdrawal can be started. The xStock counts as something to convert and is never sold.
14. `useRebalance` has one flag, one label and one result. "Convert" is barred only for the mint being converted (`AssetRow.tsx` 172): during a borrow it
    clears the flag early, and the card says "Swap complete" of a borrow. The card never shows a job's `note`, so
    "Jupiter Lend withdraw complete" is also said of a job that kept a part because of debt.
15. A loan is sized from the balance shown, the deposit before it from the balance there is; after an activation that stopped half-way the card's
    retry fails for want of the xStock. A deactivation unstakes all shares of the loop's kVault, also those of other deposits, and none
    if the holding was not yet shown. "Auto-deleverage if health < 1.5" and "with health watch" (earnIdeas.ts:68, 73) have no code behind
    them, and "Showing cached snapshot" (EarnIdeasCards.tsx:672) is a constant list.
16. After an answer of HTTP 500 the chat's status stays "error", in which every field and button is disabled, `clearError` included
    (`AIChat.tsx` 798): only a reload helps.
17. Agreeing in words to a proposed swap executes nothing of it but leaves the model's tools enabled, which may then run a rebalance
    or a conversion any number of times, although the prompt says "NEVER call rebalanceVault, convertAllToUsdc or individual swap logic directly".
    A question about amounts answers before any pending action and drops it.

The statements on prices and yields (docs/yield-ai-v2-owner-protocol-api.md:97, 100, 132: at most 60 seconds of server cache, no expired rates served as fresh) hold. For
a page the two lifetimes add up: the route's cache and its own.

## 8. What is not modelled, and why

* Generic CPI gateway and `set_allowed_programs`: each call is checked by itself and leaves no state any other code reads
  (`last_rebalance_ts`); what the called program does with the accounts it was given is that program's. There is nothing for a sequence
  or an interleaving to break. The jobs that use it treat it as external.
* `deposit_spl`, `withdraw_spl`: a transfer each, of mints no other modelled state mentions. `withdraw_excess_lamports`: one transfer of what
  lies above the rent minimum. The cards' use of the first two is in `TransferCard`.
* Recovery of SY and YT, which touches no modelled state beyond the pause of the position.
* Account layouts, discriminators, instruction encodings, tick arrays, lookup tables, rent figures: data checks without state.
* Of the Safe panel: executor limits, pause, executor sync, excess lamports and other tokens, each one instruction built from one form.
  Of the mobile API: request parsing, fees, a change of the wallet's account.
* Holdings, history, charts and the earn catalogue: computed afresh for each request, or constants. The forms
  to buy and to lend on the Safe card, switched off in the source (`{false && …}`).
* Read-only tools of the chat; what a language model says beyond which tool it calls.
* Operator scripts and the standalone swap CLI: one-shot commands without state of their own.
* Validator behaviour, a compromised upgrade authority, and the internals of Kamino, Exponent, Orca and Jupiter.

Modelled code is a third of the implementation's lines; most of the rest is layout, parsing, formatting and scripts.

## 9. Plan

Done: the program (`VaultMath`, `ExecutorPolicy`, `ExecutorLedger` ⊑ `RollingBudget`, `YieldVault` ⊑ `Custody`,
`ExponentRoute`), the sender (`TxSender` ⊑ `AtMostOnce`), the jobs on top of `AtMostOnce` (`LendJobs`, `Rebalance`), the clients
(`OwnerClients`), the screens and the reads (`AppScreens`), and the proofs above.

Left: `TargetNeverExceeded` over both routes, and the executor's volume across re-creations of the Safe.

## 10. Running

```
tlc -workers 2 -config VaultOwner.cfg MCYieldVault        # likewise the other .cfg files
tlapm ProgramProofs.tla                                   # likewise the other *Proofs modules
```

| Configuration | Module | | Configuration | Module |
|---|---|---|---|---|
| `ExecutorLedger.cfg` | `MCExecutorLedger` | | `TxSender.cfg` | `MCTxSender` |
| `VaultOwner.cfg`, `VaultExecutor.cfg`, `VaultTarget.cfg`, `VaultCloseFee.cfg` | `MCYieldVault` | | `LendJobs.cfg` | `MCLendJobs` |
| `ExponentOwner.cfg`, `ExponentExecutor.cfg` | `MCExponentRoute` | | `Rebalance.cfg` | `MCRebalance` |
| `OwnerClients.cfg` | `MCOwnerClients` | | `AppScreens.cfg` | `MCAppScreens` |

Runs take between a few seconds and about three minutes (`AppScreens.cfg`, some 490,000 states), proofs a few minutes together.
