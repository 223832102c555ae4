---------------------------- MODULE TransferCard -----------------------------
(***************************************************************************)
(* The transfer card, web/src/components/DepositCard.tsx, with the hook    *)
(* web/src/hooks/useVault.ts and the transactions of web/src/lib/vault.ts: *)
(* the owner pays in and out, or converts everything and withdraws.  Also  *)
(* the drop on the wallet's card, web/src/components/WalletAssetsCard.tsx. *)
(***************************************************************************)
EXTENDS SafeJobs

VARIABLE card   \* withdrawStep, txPending, and for each call what it is for and the USDC it saw

CardSteps == {"idle", "converting", "withdrawing", "whitelist_needed"}
Doings == {"nothing", "submit", "convert", "withdraw"}
Busy == card.txPending \/ card.step \in {"converting", "withdrawing"}

(* The xStock counts as something to convert; the jobs do not sell it.     *)
HasNonUsdcHoldings == shown.tok > 0 \/ shown.coll > 0

Tokens == DOMAIN Purse

(* What may be paid in is the wallet's balance, what may be paid out the   *)
(* row of the Safe's assets, for USDC without a row useVault's balance.    *)
depositAssets == [token \in Tokens |-> shown[Purse[token]]]
withdrawAssets ==
  [token \in Tokens |->
     IF token # "usdc" THEN shown[token]
     ELSE IF shown.row > 0 THEN shown.row ELSE shown.usdc]

(* A handler of the card starts; one may still be under way.               *)
FreeTransfer(c) ==
  /\ card.doing[c] = "nothing"
  /\ c = "transfer again" => card.doing["transfer"] # "nothing"

(* One asset, the whole of it (setMax).                                    *)
Submit(c) ==
  /\ "transfers" \in use.parts /\ ~Busy /\ FreeTransfer(c) /\ Begin(c)
  /\ card' = [card EXCEPT !.txPending = TRUE, !.doing[c] = "submit"]
  /\ \E token \in Tokens :
       \/ /\ depositAssets[token] > 0
          /\ Ask(c, Transfer("pay_in", token, depositAssets[token]))
       \/ /\ withdrawAssets[token] > 0 /\ token = "usdc"
          /\ Ask(c, Job("pay_out_usdc", withdrawAssets[token]))
       \/ /\ withdrawAssets[token] > 0 /\ token # "usdc"
          /\ Ask(c, Transfer("pay_out", token, withdrawAssets[token]))
  /\ UNCHANGED <<use, safe, shown, late>>

(* The balance withdrawn in the end is the one this rendering had, even    *)
(* after a conversion and a refresh.                                       *)
WithdrawSeen(c, usdc) ==
  IF usdc > 0
  THEN /\ Ask(c, Job("pay_out_usdc", usdc))
       /\ card' = [card EXCEPT !.step = "withdrawing", !.txPending = TRUE,
                               !.doing[c] = "withdraw"]
  ELSE /\ HangUp(c)
       /\ card' = [card EXCEPT !.step = "idle", !.doing[c] = "nothing"]

WithdrawAll(c) ==
  /\ "withdraw_all" \in use.parts /\ ~Busy /\ card.step # "whitelist_needed"
  /\ shown.usdc > 0 \/ HasNonUsdcHoldings
  /\ FreeTransfer(c) /\ Begin(c)
  /\ IF HasNonUsdcHoldings
     THEN /\ Ask(c, Job("convert_all", 0))
          /\ card' = [card EXCEPT !.step = "converting", !.doing[c] = "convert",
                                  !.usdc[c] = shown.usdc]
     ELSE WithdrawSeen(c, shown.usdc)
  /\ UNCHANGED <<use, safe, shown, late>>

ConversionEnds(c) ==
  /\ card.doing[c] = "convert" /\ Answered(c)
  /\ CASE calls[c].st = "error" ->
            HangUp(c) /\ card' = [card EXCEPT !.step = "idle", !.doing[c] = "nothing"]
       [] calls[c].st = "needs_whitelist" ->
            HangUp(c) /\ card' = [card EXCEPT !.step = "whitelist_needed", !.doing[c] = "nothing"]
       [] OTHER -> WithdrawSeen(c, card.usdc[c])
  /\ UNCHANGED <<use, safe, shown, late, disturbed, budget>>

Ended(c) ==
  [card EXCEPT !.txPending = FALSE, !.doing[c] = "nothing",
               !.step = IF card.doing[c] = "withdraw" THEN "idle" ELSE @]

\* Mutant of TransferEnds: txPending is cleared only when the transfer succeeds.
TransferEndsOnSuccess(c) ==
  /\ card.doing[c] \in {"submit", "withdraw"} /\ Answered(c) /\ HangUp(c)
  /\ card' = [Ended(c) EXCEPT !.txPending = calls[c].st # "success"]
  /\ UNCHANGED <<use, safe, shown, late, disturbed, budget>>

TransferEnds(c) ==
  /\ card.doing[c] \in {"submit", "withdraw"} /\ Answered(c) /\ HangUp(c)
  /\ card' = Ended(c)
  /\ UNCHANGED <<use, safe, shown, late, disturbed, budget>>

(* A change of tab or of the asset to withdraw: at any time, also while a  *)
(* conversion or a withdrawal is under way.                                *)
ResetWithdraw ==
  /\ card.step # "idle" /\ card' = [card EXCEPT !.step = "idle"]
  /\ UNCHANGED jobsVars

(* An asset of the wallet dropped on the card fills in the form and resets *)
(* the step as well.                                                       *)
DropOnCard ==
  /\ "drops" \in use.parts /\ Click
  /\ \E token \in Tokens : depositAssets[token] > 0
  /\ card' = [card EXCEPT !.step = "idle"]
  /\ UNCHANGED <<use, safe, shown, calls, late, disturbed>>

(* A row of the Safe dropped on the wallet's card is withdrawn as it is.   *)
DropOnWallet ==
  /\ "drops" \in use.parts /\ calls["drop"] = NoCall /\ Begin("drop")
  /\ \E token \in Tokens :
       LET n == IF token = "usdc" THEN shown.row ELSE shown[token]
       IN  n > 0 /\ Ask("drop", Transfer("pay_out", token, n))
  /\ UNCHANGED <<use, safe, shown, late, card>>

DropOnWalletEnds ==
  /\ Answered("drop") /\ HangUp("drop")
  /\ UNCHANGED <<use, safe, shown, late, disturbed, budget, card>>

CardInit ==
  card = [step |-> "idle", txPending |-> FALSE,
          usdc |-> [c \in TransferCalls |-> 0],
          doing |-> [c \in TransferCalls |-> "nothing"]]
CardClicks ==
  \/ \E c \in TransferCalls : Submit(c) \/ WithdrawAll(c)
  \/ ResetWithdraw \/ DropOnCard \/ DropOnWallet
CardStepsOn ==
  \/ \E c \in TransferCalls : ConversionEnds(c) \/ TransferEnds(c)
  \/ DropOnWalletEnds
CardNext == CardClicks \/ CardStepsOn
CardTypeOK ==
  /\ card.step \in CardSteps /\ card.txPending \in BOOLEAN
  /\ \A c \in TransferCalls : card.doing[c] \in Doings /\ card.usdc[c] \in Nat
=============================================================================
