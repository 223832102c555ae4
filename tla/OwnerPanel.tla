----------------------------- MODULE OwnerPanel ------------------------------
(***************************************************************************)
(* The web panel, web/src/components/SafeV2Panel.tsx, and the sender it    *)
(* uses, sendOwnerTransaction of web/src/lib/safeV2.ts.  The buttons go by *)
(* what the panel last read ("shown"), an investment and the full exit     *)
(* read the Safe again.  A transaction is built, simulated, given to the   *)
(* wallet and watched until its block height is over.  The panel reads     *)
(* the Safe again after a success; after an error only the full exit does. *)
(***************************************************************************)
EXTENDS SafeChain

VARIABLE panel
(* at: where the operation stands; id: the transaction it watches; ixs:    *)
(* the one it builds; last, step: shares at the last read of a full exit   *)
(* and redemptions made; read: saves when an investment read the target.   *)

PanelAt == {"idle", "invest", "exit", "built", "confirm", "height"}
Said == {"nothing", "confirmed", "failed", "expired", "all_returned"}

hasUnwithdrawnAssets(s) == s.idle > 0 \/ s.shares > 0

-----------------------------------------------------------------------------
(* Ends of an operation. *)

Resting(shown, word) ==
  [at |-> "idle", op |-> "none", ixs |-> <<>>, id |-> 0, last |-> 0, step |-> 0,
   read |-> 0, shown |-> shown, said |-> word]

(* "Confirmed", then refresh, which may fail: the error replaces the       *)
(* message and the panel keeps what it showed.                             *)
Confirmed == panel' \in {Resting(chain, "confirmed"), Resting(panel.shown, "failed")}

(* The full exit reads the Safe in its finally and keeps its message.      *)
ExitEnds(word) == panel' \in {Resting(chain, word), Resting(panel.shown, word)}

Stops(word) ==
  IF panel.op = "full_exit" THEN ExitEnds("failed") ELSE panel' = Resting(panel.shown, word)

AllReturned == ExitEnds("all_returned")

-----------------------------------------------------------------------------
(* The buttons: enabled by what is shown, one operation at a time. *)

(* The one button that is never disabled.                                  *)
Refresh ==
  /\ panel.shown # chain
  /\ panel' = [panel EXCEPT !.shown = chain]
  /\ UNCHANGED chainVars

Begin(op, ixs) ==
  /\ op \in uses.panel /\ panel.at = "idle"
  /\ panel' = [panel EXCEPT !.at = "built", !.op = op, !.ixs = ixs,
                            !.said = "nothing", !.read = saves]
  /\ UNCHANGED chainVars

CreateSafe == ~panel.shown.exists /\ Begin("create", <<Ix("initialize", 0)>>)

DepositUsdc(n) ==
  /\ panel.shown.exists /\ n <= panel.shown.wallet
  /\ Begin("deposit", <<Ix("deposit", n)>>)

WithdrawAmount(n) ==
  /\ panel.shown.exists /\ n <= panel.shown.idle
  /\ Begin("withdraw", <<Ix("withdraw", n)>>)

SaveAllocation(t) ==
  /\ panel.shown.exists /\ t # panel.shown.target
  /\ Begin("save_allocation", <<Ix("set_allocation", t)>>)

kaminoPut == (panel.shown.idle * panel.shown.target) \div 100

PutToWork ==
  /\ panel.shown.exists /\ kaminoPut > 0
  /\ Begin("put", <<Ix("create_shares", 0), Ix("kamino_deposit", kaminoPut)>>)

(* All legs of Kamino's plan in one transaction; the last may be its ALL.  *)
WithdrawAllFromKamino ==
  /\ panel.shown.exists /\ panel.shown.shares > 0
  /\ \E n \in {ALL, panel.shown.shares} :
       Begin("redeem_all", <<Ix("kamino_withdraw", n)>>)

closeEmptyTokens ==
  (IF panel.shown.usdc_ata /\ panel.shown.idle = 0 THEN <<Ix("close_usdc", 0)>> ELSE <<>>)
  \o (IF panel.shown.shares_ata /\ panel.shown.shares = 0 THEN <<Ix("close_shares", 0)>> ELSE <<>>)

ReclaimRent ==
  /\ panel.shown.exists /\ closeEmptyTokens # <<>>
  /\ Begin("reclaim", closeEmptyTokens)

CloseSafe ==
  /\ panel.shown.exists /\ ~hasUnwithdrawnAssets(panel.shown)
  /\ Begin("close_safe", closeEmptyTokens \o <<Ix("close_safe", 0)>>)

-----------------------------------------------------------------------------
(* buildOwnerKaminoDeposit: reads the Safe again, borrows a target of 100% *)
(* for the length of the transaction and puts the one it read back.        *)

Invest(source, n) ==
  /\ "invest" \in uses.panel /\ panel.at = "idle" /\ panel.shown.exists
  /\ n <= IF source = "safe" THEN panel.shown.idle ELSE panel.shown.wallet
  /\ panel' = [panel EXCEPT !.at = "invest", !.op = "invest", !.said = "nothing",
                            !.ixs = <<Ix(source, n)>>]
  /\ UNCHANGED chainVars

InvestIxs(source, n, original) ==
  LET borrow(t) == IF original = 100 THEN <<>> ELSE <<Ix("set_allocation", t)>>
  IN  borrow(100)
      \o (IF source = "wallet" THEN <<Ix("deposit", n)>> ELSE <<>>)
      \o <<Ix("create_shares", 0), Ix("kamino_deposit", n)>>
      \o borrow(original)

BuildInvest ==
  LET source == panel.ixs[1].op
      n == panel.ixs[1].n
      available == IF source = "safe" THEN chain.idle ELSE chain.wallet
  IN  /\ panel.at = "invest"
      /\ IF chain.exists /\ n <= available
         THEN panel' = [panel EXCEPT !.at = "built", !.read = saves,
                                     !.ixs = InvestIxs(source, n, chain.target)]
         ELSE Stops("failed")
      /\ UNCHANGED chainVars

-----------------------------------------------------------------------------
(* runFullExit: redeem leg by leg until no shares are left, each leg       *)
(* planned from the shares just read, then withdraw the USDC just read.    *)

FullExit ==
  /\ "full_exit" \in uses.panel /\ panel.at = "idle"
  /\ panel.shown.exists /\ hasUnwithdrawnAssets(panel.shown)
  /\ panel' = [panel EXCEPT !.at = "exit", !.op = "full_exit", !.said = "nothing",
                            !.last = 0, !.step = 0]
  /\ UNCHANGED chainVars

(* What Kamino's plan redeems first: what one reserve can pay, or ALL.     *)
Leg(shares) == {ALL} \cup 1..shares

ExitBuilds(ixs) ==
  panel' = [panel EXCEPT !.at = "built", !.ixs = ixs, !.last = chain.shares, !.read = saves]

\* Mutant of GivesUp: one step more than there may be.
GivesUpLater == (panel.step > 0 /\ chain.shares >= panel.last) \/ panel.step > uses.steps

(* The last redemption did not leave less, or was the last there may be.   *)
GivesUp == (panel.step > 0 /\ chain.shares >= panel.last) \/ panel.step >= uses.steps

ExitRead ==
  /\ panel.at = "exit"
  /\ IF chain.shares > 0
     THEN IF GivesUp
          THEN Stops("failed")
          ELSE \E n \in Leg(chain.shares) : ExitBuilds(<<Ix("kamino_withdraw", n)>>)
     ELSE IF chain.idle > 0
          THEN ExitBuilds(<<Ix("withdraw", chain.idle)>>)
          ELSE AllReturned
  /\ inflow' = FALSE
  /\ UNCHANGED <<uses, chain, tx, moves, saves>>

\* Mutant of ExitStepDone: after the last redemption the first balance is taken.
ExitStepForgets ==
  IF panel.ixs[1].op = "withdraw" \/ chain.shares = 0
  THEN AllReturned
  ELSE panel' = [panel EXCEPT !.at = "exit", !.step = @ + 1, !.id = 0, !.ixs = <<>>]

(* A confirmed step of the exit.                                           *)
ExitStepDone ==
  IF panel.ixs[1].op = "withdraw"
  THEN AllReturned
  ELSE panel' = [panel EXCEPT !.at = "exit", !.step = @ + 1, !.id = 0, !.ixs = <<>>]

-----------------------------------------------------------------------------
(* sendOwnerTransaction. *)

(* A transaction that simulates is put before the owner; what changes     *)
(* until it is signed is taken with what changes until it lands.           *)
Sends(panelAfter) ==
  /\ panel.at = "built" /\ Simulates(panel.ixs)
  /\ SignTx("panel", panel.op, panel.ixs, panel.read, "live")
  /\ panelAfter
  /\ UNCHANGED <<chain, history>>

Approve == Sends(panel' = [panel EXCEPT !.at = "confirm", !.id = NextTx, !.read = 0])

(* The wallet has sent it and its answer is an error, or none.             *)
AnswerLost == Sends(Stops("failed"))

(* The simulation fails, or the owner refuses.                             *)
NotSent ==
  /\ panel.at = "built"
  /\ Stops("failed")
  /\ UNCHANGED chainVars

(* The status first, the block height after it: a transaction that lands   *)
(* between the two is reported as expired.                                 *)
PollStatus ==
  LET st == tx[panel.id].st
  IN  /\ panel.at = "confirm"
      /\ CASE st = "done" -> IF panel.op = "full_exit" THEN ExitStepDone ELSE Confirmed
           [] st = "failed" -> Stops("failed")
           [] OTHER -> panel' = [panel EXCEPT !.at = "height"]
      /\ inflow' = IF panel'.at = "idle" THEN TRUE ELSE inflow
      /\ UNCHANGED <<uses, chain, tx, moves, saves>>

PollHeight ==
  LET st == tx[panel.id].st
  IN  /\ panel.at = "height"
      /\ \/ st # "live" /\ Stops("expired")
         \/ st # "dead" /\ panel' = [panel EXCEPT !.at = "confirm"]
      /\ UNCHANGED chainVars

PanelInit == panel = Resting(chain, "nothing")

Buttons ==
  \/ Refresh \/ CreateSafe \/ PutToWork \/ WithdrawAllFromKamino
  \/ ReclaimRent \/ CloseSafe \/ FullExit
  \/ \E n \in Amounts : DepositUsdc(n) \/ WithdrawAmount(n)
  \/ \E n \in Amounts, source \in {"safe", "wallet"} : Invest(source, n)
  \/ \E t \in Targets : SaveAllocation(t)

PanelNext ==
  \/ Buttons \/ BuildInvest \/ ExitRead
  \/ Approve \/ AnswerLost \/ NotSent \/ PollStatus \/ PollHeight

PanelTypeOK ==
  /\ panel.at \in PanelAt /\ panel.said \in Said /\ panel.op \in Kinds
  /\ panel.id \in 0..MaxTx /\ panel.last \in 0..Supply /\ panel.step \in 0..uses.steps
  /\ panel.read \in 0..MaxTx /\ panel.shown \in Chain
=============================================================================
