---------------------------- MODULE VaultButtons -----------------------------
(***************************************************************************)
(* The Safe's card, web/src/components/VaultCard.tsx, apart from its loop: *)
(* the buttons that rebalance, sell one holding, borrow, repay and take    *)
(* the collateral back, all through the hook web/src/hooks/useRebalance.ts.*)
(* The hook has one flag, one label and one result for all of them.  The   *)
(* card's forms to buy and to lend are disabled in the source.             *)
(***************************************************************************)
EXTENDS SafeJobs

CONSTANT Typed   \* what the owner may type into the borrow and repay fields

ASSUME ButtonsAssumption == Typed \subseteq Nat \ {0}

VARIABLE buttons   \* the hook's state; the call last started, whether it was alone, the Safe then

NoLabel == "none"
hasActiveLoops == shown.shares > 0 \/ shown.lent > 0 \/ shown.debt > 0
hasPosition == shown.lent > 0 \/ shown.debt > 0

(* A handler of the hook starts; others may still be under way.            *)
FreeButton(c) ==
  /\ calls[c] = NoCall
  /\ c = "button again" => calls["button"] # NoCall

Press(c, job) ==
  /\ "buttons" \in use.parts /\ FreeButton(c) /\ Begin(c) /\ Ask(c, job)
  /\ buttons' = [buttons EXCEPT
       !.rebalancing = TRUE, !.label = job, !.result = "none", !.from = safe, !.by = c,
       !.alone = \A d \in ButtonCalls : calls[d] = NoCall,
       !.converting = IF job.kind = "sell" THEN job.token ELSE @]
  /\ UNCHANGED <<use, safe, shown, late>>

rebalance(c) == ~buttons.rebalancing /\ ~hasActiveLoops /\ Press(c, Job("rebalance", 0))

(* A row's button waits only for that row, not for the flag.               *)
convertAssetToUsdc(c) ==
  \E token \in {"tok", "coll"} :
    /\ buttons.converting # token /\ shown[token] > 0
    /\ Press(c, Transfer("sell", token, shown[token]))

handleJupiterLendWithdraw(c) ==
  /\ ~buttons.rebalancing /\ hasPosition /\ shown.debt = 0
  /\ Press(c, Job("withdraw_collateral", 0))

handleJupiterUsdcBorrow(c) ==
  /\ ~buttons.rebalancing /\ hasPosition
  /\ \E n \in Typed : Press(c, Job("borrow", n))

(* MAX needs some USDC and a debt; a typed amount is taken as it is.       *)
handleJupiterUsdcRepay(c) ==
  /\ ~buttons.rebalancing /\ shown.debt > 0
  /\ \/ shown.row > 0 /\ Press(c, Job("repay_all", 0))
     \/ \E n \in Typed : Press(c, Job("repay", n))

\* Mutant of handleResult: the flags are cleared only when the job succeeded.
handleResultOnSuccess(c) ==
  [buttons EXCEPT !.rebalancing = calls[c].st # "success", !.result = calls[c].st,
                  !.converting = IF calls[c].job.kind = "sell" THEN NoLabel ELSE @]

(* Whatever ends first clears the flags of all.                            *)
handleResult(c) ==
  [buttons EXCEPT !.rebalancing = FALSE, !.result = calls[c].st,
                  !.converting = IF calls[c].job.kind = "sell" THEN NoLabel ELSE @]

ButtonEnds(c) ==
  /\ Answered(c) /\ HangUp(c) /\ buttons' = handleResult(c)
  /\ UNCHANGED <<use, safe, shown, late, disturbed, budget>>

ButtonsInit ==
  buttons = [rebalancing |-> FALSE, converting |-> NoLabel, label |-> NoJob, by |-> "button",
             result |-> "none", alone |-> TRUE, from |-> safe]

ButtonClicks ==
  \E c \in ButtonCalls :
    \/ rebalance(c) \/ convertAssetToUsdc(c) \/ handleJupiterLendWithdraw(c)
    \/ handleJupiterUsdcBorrow(c) \/ handleJupiterUsdcRepay(c)
ButtonSteps == \E c \in ButtonCalls : ButtonEnds(c)
ButtonsNext == ButtonClicks \/ ButtonSteps

ButtonsTypeOK ==
  /\ buttons.rebalancing \in BOOLEAN /\ buttons.alone \in BOOLEAN
  /\ buttons.converting \in {NoLabel, "tok", "coll"}
  /\ buttons.result \in Answers \cup {"none"}
=============================================================================
