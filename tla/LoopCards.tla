------------------------------ MODULE LoopCards ------------------------------
(***************************************************************************)
(* The cards that enter and leave a loop: web/src/components/              *)
(* EarnIdeasCards.tsx lends an xStock, borrows USDC against it and stakes  *)
(* that in a kVault, or just stakes USDC; web/src/components/VaultCard.tsx *)
(* unstakes, repays and takes the collateral back, or just unstakes.  Each *)
(* goes through its steps one call after another, from the figures its     *)
(* hooks had when the button was pressed; none knows of the other.         *)
(***************************************************************************)
EXTENDS SafeJobs, Sequences

CONSTANT LTV_PCT   \* loopAction.ltvPct: the loan asked for is one percent less

ASSUME LoopAssumption == LTV_PCT \in 1..100

VARIABLES
  earn,   \* the idea cards: what is pending, its steps and its figures
  loop    \* the loop card: the same of a deactivation

loopVars == <<earn, loop>>

NoSteps == <<>>
Stages == {"pending", "running", "done", "error"}
AllDone(steps) == steps # NoSteps /\ \A i \in 1..Len(steps) : steps[i] = "done"
At(steps) == CHOOSE i \in 1..Len(steps) : steps[i] = "running"
After(steps) ==
  [i \in 1..Len(steps) |->
     IF i = At(steps) THEN "done" ELSE IF i = At(steps) + 1 THEN "running" ELSE steps[i]]
Broken(steps) == [steps EXCEPT ![At(steps)] = "error"]

-----------------------------------------------------------------------------
(* EarnIdeasCards: doing is what pendingIdeaId stands for. *)

Loan(coll) == (coll * (LTV_PCT - 1)) \div 100

ActivationJob(e, i) ==
  CASE i = 1 -> Job("lend", e.coll)
    [] i = 2 -> Job("borrow", e.loan)
    [] i = 3 -> Job("stake", e.loan)

(* An idea is offered for what the wallet or the Safe holds; only what is  *)
(* in the Safe can be used.                                                *)
InSafe(asset) == shown[asset] > 0

ActivateLoop ==
  LET coll == shown.coll
      e == [doing |-> "loop", steps |-> <<"running", "pending", "pending">>,
            coll |-> coll, loan |-> Loan(coll), from |-> safe, said |-> "nothing"]
  IN  /\ "activate" \in use.parts /\ earn.doing = "none" /\ InSafe("coll") /\ Loan(coll) > 0
      /\ Begin("earn") /\ earn' = e /\ Ask("earn", ActivationJob(e, 1))
      /\ UNCHANGED <<use, safe, shown, late, loop>>

\* Mutant of Accepted: a step goes on unless the answer is an error.
AcceptedUnlessError(st) == st # "error"

Accepted(st) == st = "success"

ActivationStep ==
  /\ earn.doing = "loop" /\ Answered("earn")
  /\ IF ~Accepted(calls["earn"].st)
     THEN /\ HangUp("earn")
          /\ earn' = [earn EXCEPT !.doing = "none", !.steps = Broken(@), !.said = "error"]
     ELSE IF At(earn.steps) < 3
     THEN /\ Ask("earn", ActivationJob(earn, At(earn.steps) + 1))
          /\ earn' = [earn EXCEPT !.steps = After(@)]
     ELSE /\ HangUp("earn")
          /\ earn' = [earn EXCEPT !.doing = "none", !.steps = After(@),
                                  !.said = "activated"]
  /\ UNCHANGED <<use, safe, shown, late, disturbed, budget, loop>>

(* The whole holding that was shown.                                       *)
DepositIdea ==
  /\ "stake_idea" \in use.parts /\ earn.doing = "none" /\ InSafe("row")
  /\ Begin("earn") /\ Ask("earn", Job("stake", shown.row))
  /\ earn' = [earn EXCEPT !.doing = "deposit", !.said = "nothing"]
  /\ UNCHANGED <<use, safe, shown, late, loop>>

DepositIdeaEnds ==
  /\ earn.doing = "deposit" /\ Answered("earn") /\ HangUp("earn")
  /\ earn' = [earn EXCEPT !.doing = "none",
                !.said = IF Accepted(calls["earn"].st) THEN "deposited" ELSE "error"]
  /\ UNCHANGED <<use, safe, shown, late, disturbed, budget, loop>>

-----------------------------------------------------------------------------
(* VaultCard.  The routes answer needs_whitelist with a status that is not *)
(* ok, so it ends a step as an error does.                                 *)

DeactivationJob(l, i) ==
  CASE i = 1 -> Job("unstake", l.shares)
    [] i = 2 -> Job("repay_all", 0)
    [] i = 3 -> Job("withdraw_collateral", 0)

activeJupiterLeg == shown.lent > 0 \/ shown.debt > 0

(* Offered for the position shown, again only after an error; the shares   *)
(* are all the kVault shows, and none shown skips the step.                *)
DeactivateLoop ==
  LET first == IF shown.shares > 0 THEN 1 ELSE 2
      l == [busy |-> TRUE, shares |-> shown.shares, from |-> safe,
            steps |-> IF first = 1 THEN <<"running", "pending", "pending">>
                                   ELSE <<"done", "running", "pending">>,
            notes |-> [i \in 1..3 |-> FALSE]]
  IN  /\ "deactivate" \in use.parts /\ ~loop.busy /\ ~AllDone(loop.steps)
      /\ activeJupiterLeg
      /\ Begin("loop") /\ loop' = l /\ Ask("loop", DeactivationJob(l, first))
      /\ UNCHANGED <<use, safe, shown, late, earn>>

DeactivationStep ==
  LET i == At(loop.steps)
  IN  /\ loop.busy /\ Answered("loop")
      /\ IF ~Accepted(calls["loop"].st)
         THEN /\ HangUp("loop")
              /\ loop' = [loop EXCEPT !.busy = FALSE, !.steps = Broken(@)]
         ELSE /\ IF i < 3 THEN Ask("loop", DeactivationJob(loop, i + 1))
                          ELSE HangUp("loop")
              /\ loop' = [loop EXCEPT !.busy = i < 3, !.steps = After(@),
                                      !.notes[i] = calls["loop"].note]
      /\ UNCHANGED <<use, safe, shown, late, disturbed, budget, earn>>

KaminoWithdraw ==
  /\ "unstake" \in use.parts /\ calls["kamino"] = NoCall /\ shown.shares > 0
  /\ Begin("kamino") /\ Ask("kamino", Job("unstake", shown.shares))
  /\ UNCHANGED <<use, safe, shown, late, loopVars>>

KaminoWithdrawEnds ==
  /\ Answered("kamino") /\ HangUp("kamino")
  /\ UNCHANGED <<use, safe, shown, late, disturbed, budget, loopVars>>

-----------------------------------------------------------------------------
LoopInit ==
  /\ earn = [doing |-> "none", steps |-> NoSteps, coll |-> 0, loan |-> 0,
             from |-> safe, said |-> "nothing"]
  /\ loop = [busy |-> FALSE, steps |-> NoSteps, shares |-> 0, from |-> safe,
             notes |-> [i \in 1..3 |-> FALSE]]

LoopClicks == ActivateLoop \/ DepositIdea \/ DeactivateLoop \/ KaminoWithdraw
LoopSteps == ActivationStep \/ DepositIdeaEnds \/ DeactivationStep \/ KaminoWithdrawEnds
LoopNext == LoopClicks \/ LoopSteps

LoopTypeOK ==
  /\ earn.doing \in {"none", "loop", "deposit"}
  /\ earn.said \in {"nothing", "activated", "deposited", "error"}
  /\ \A steps \in {earn.steps, loop.steps} :
       steps = NoSteps \/ steps \in [1..3 -> Stages]
  /\ loop.busy \in BOOLEAN /\ loop.notes \in [1..3 -> BOOLEAN]
=============================================================================
