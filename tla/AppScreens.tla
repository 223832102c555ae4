----------------------------- MODULE AppScreens ------------------------------
(***************************************************************************)
(* The pages of the web app: the cards and the chat at one Safe, the panel *)
(* that trades PT, and the reads of prices and rates.                      *)
(***************************************************************************)
EXTENDS LoopCards, VaultButtons, TransferCard, ChatAssistant, ExponentPanel, PriceReads

appVars == <<jobsVars, loopVars, buttons, card, chat>>
vars == <<appVars, exVars, readVars>>

(* The only way on from a chat in "error": the whole page starts again,    *)
(* and what was under way goes on without it.                              *)
Reload ==
  /\ chat.status = "error" /\ chat' = FreshChat
  /\ late' = late \cup {calls[c].job : c \in {d \in Callers : Waiting(d)}}
  /\ calls' = [c \in Callers |-> NoCall] /\ shown' = Seen(safe)
  /\ earn' = [earn EXCEPT !.doing = "none", !.steps = NoSteps, !.said = "nothing"]
  /\ loop' = [loop EXCEPT !.busy = FALSE, !.steps = NoSteps]
  /\ buttons' = [buttons EXCEPT !.rebalancing = FALSE, !.converting = NoLabel,
                                !.label = NoJob, !.result = "none", !.alone = TRUE]
  /\ card' = [card EXCEPT !.step = "idle", !.txPending = FALSE,
                          !.doing = [c \in TransferCalls |-> "nothing"]]
  /\ UNCHANGED <<use, safe, disturbed, budget>>

Init == JobsInit /\ LoopInit /\ ButtonsInit /\ CardInit /\ ChatInit /\ ExInit /\ ReadsInit

AppNext ==
  \/ JobsNext /\ UNCHANGED <<loopVars, buttons, card, chat>>
  \/ LoopNext /\ UNCHANGED <<buttons, card, chat>>
  \/ ButtonsNext /\ UNCHANGED <<loopVars, card, chat>>
  \/ CardNext /\ UNCHANGED <<loopVars, buttons, chat>>
  \/ ChatNext /\ UNCHANGED <<loopVars, buttons, card>>
  \/ Reload

TradesPt == use.trades > 0
ReadsPrices == use.reads > 0
Next ==
  \/ ~TradesPt /\ ~ReadsPrices /\ AppNext /\ UNCHANGED <<exVars, readVars>>
  \/ TradesPt /\ ExNext /\ UNCHANGED <<appVars, readVars>>
  \/ ReadsPrices /\ ReadsNext /\ UNCHANGED <<appVars, exVars>>

(* As long as something is under way, something goes on: a call is         *)
(* answered or fails, a handler or the route takes its next step.          *)
Fairness ==
  /\ WF_appVars(\/ (\E c \in Callers : Serve(c) \/ TurnAway(c) \/ LoseAnswer(c))
                   /\ UNCHANGED <<loopVars, buttons, card, chat>>
                \/ LoopSteps /\ UNCHANGED <<buttons, card, chat>>
                \/ ButtonSteps /\ UNCHANGED <<loopVars, card, chat>>
                \/ CardStepsOn /\ UNCHANGED <<loopVars, buttons, chat>>
                \/ ChatSteps /\ UNCHANGED <<loopVars, buttons, card>>)
  /\ WF_exVars(ExSteps)
  /\ WF_readVars(ReadSteps)

Spec == Init /\ [][Next]_vars /\ Fairness

-----------------------------------------------------------------------------
(* Types of the Safe, the calls and every screen.                          *)
TypeOK ==
  /\ JobsTypeOK /\ LoopTypeOK /\ ButtonsTypeOK /\ CardTypeOK /\ ChatTypeOK
  /\ ExTypeOK /\ ReadsTypeOK

ActivationReportIsTrue ==
  earn.said = "activated" /\ "earn" \notin disturbed /\ earn.coll = earn.from.coll =>
    safe = [earn.from EXCEPT !.coll = 0, !.lent = @ + earn.coll,
                             !.debt = @ + earn.loan, !.shares = @ + earn.loan]

DeactivationReportIsTrue ==
  AllDone(loop.steps) /\ "loop" \notin disturbed =>
    /\ safe.shares = loop.from.shares - loop.shares
    /\ ~loop.notes[2] => safe.debt = 0
    /\ ~loop.notes[3] => safe.lent = 0 /\ safe.debt = 0
    /\ safe.coll + safe.lent = loop.from.coll + loop.from.lent

ButtonReportIsTrue ==
  LET job == buttons.label
      from == buttons.from
      Claim ==
        CASE job.kind = "sell" ->
               safe = [from EXCEPT ![job.token] = @ - job.n, !.usdc = @ + job.n]
          [] job.kind = "borrow" ->
               safe = [from EXCEPT !.debt = @ + job.n, !.usdc = @ + job.n]
          [] job.kind = "repay" ->
               safe = [from EXCEPT !.debt = @ - job.n, !.usdc = @ - job.n]
          [] job.kind = "withdraw_collateral" /\ from.debt = 0 ->
               safe = [from EXCEPT !.lent = 0, !.coll = @ + from.lent]
          [] OTHER -> safe.lent + safe.coll = from.lent + from.coll
  IN  buttons.result = "success" /\ buttons.alone /\ buttons.by \notin disturbed => Claim

(* "loop activated." means: what was lent, borrowed and staked are the     *)
(* figures of the three steps; three ticks on the way out mean: no share   *)
(* that was shown is left, a debt or a collateral left behind is told in   *)
(* a note; "Swap complete", "Jupiter Lend borrow complete" and the like    *)
(* mean that this action did what its button was given.  So it is unless   *)
(* another caller's job came between, or two buttons' jobs overlapped      *)
(* (runLoopActivation, handleDeactivateLoop, useRebalance).                *)
CardReportsAreTrue ==
  ActivationReportIsTrue /\ DeactivationReportIsTrue /\ ButtonReportIsTrue

(* The chat runs the job that was proposed to the owner, once, and only    *)
(* when the owner pressed its button or agreed in words; words that agree  *)
(* to a swap let the model's tools run instead (POST of the chat route).   *)
ChatRunsWhatWasConfirmed ==
  [][LET job == calls'["chat"].job
     IN  calls["chat"] = NoCall /\ calls'["chat"] # NoCall =>
           /\ chat.req.text \in {"confirm", "yes"}
           /\ \/ job.kind = chat.proposal /\ job.n = chat.n /\ chat.jobs = 0
              \/ chat.proposal = "swap" /\ chat.req.text = "yes"]_vars

(* Nothing stays pending: whatever the answers, once the owner lets the    *)
(* screens be every handler has cleared its flag, and the chat is ready or *)
(* shows an error, and every read is answered (the finally blocks of the   *)
(* handlers, useChat's status, the requests readers share).                *)
NothingPending ==
  /\ earn.doing = "none" /\ ~loop.busy /\ ~Busy /\ chat.status # "busy" /\ Idle
  /\ ~buttons.rebalancing /\ buttons.converting = NoLabel
  /\ (\A c \in Callers : calls[c] = NoCall) /\ reads.waiting = {}

ScreensFreed == []<>NothingPending

(* What lands pays at least the minimum of the quote the owner accepted    *)
(* (a transfer of ONyc: what was entered),                                 *)
(* for an exit to USDC that was worth it at least the loss floor shown,    *)
(* and leaves the allocation as it was, unless that is no longer the one   *)
(* the trade was prepared for (quote, unsignedTransaction,                 *)
(* exponentOwnerAllocation).                                               *)
TradeIsAsReviewed ==
  [][\A i \in Trades :
       trade[i].st = "live" /\ trade'[i].st = "done" =>
         LET t == trade[i]
             paid == IF t.action = "setup" THEN 0 ELSE book'[Received(t)] - book[Received(t)]
         IN  /\ paid >= t.accepted /\ paid >= t.floor
             /\ t.alloc = book.alloc => book'.alloc = book.alloc]_vars
=============================================================================
