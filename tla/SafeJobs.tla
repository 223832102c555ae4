------------------------------ MODULE SafeJobs -------------------------------
(***************************************************************************)
(* The Safe and the agent's jobs as the cards and the chat of the web app  *)
(* see them: one call for each click, answered by a route of               *)
(* web/src/app/api or, for the owner's own transfers, by the wallet.  What *)
(* a job does inside is the matter of LendJobs and Rebalance: here it      *)
(* takes effect as a whole, or, for a conversion, in part.  A card acts on *)
(* what its hooks last read, part by part, and every caller knows only the *)
(* answer to its own call.                                                 *)
(***************************************************************************)
EXTENDS Naturals

CONSTANTS
  Uses,         \* what is used side by side in one behaviour, see JobsInit
  LTV_LIMIT,    \* percent of the collateral the market lends at most
  RESIDUE,      \* debt the safety margin of a full repayment leaves behind
  BUFFER        \* one part in BUFFER of the collateral stays while debt does

ASSUME JobsAssumption ==
  /\ LTV_LIMIT \in 0..100 /\ RESIDUE \in Nat /\ BUFFER \in Nat \ {0}

VARIABLES
  use,         \* the parts of the app used, the Safe at the start, the clicks and mishaps
               \* (answers lost, pages that break) there may be, the trades of PT
  safe,        \* the Safe, its positions and the owner's wallet
  shown,       \* what the hooks of the page last read of them
  calls,       \* calls[c]: the call of caller c and its answer
  late,        \* jobs whose caller was told they failed, still to end
  disturbed,   \* callers whose doings another has crossed since they began
  budget       \* clicks and mishaps spent

jobsVars == <<use, safe, shown, calls, late, disturbed, budget>>

(* The idea cards, the loop card, its Kamino row and the chat wait for at  *)
(* most one call.  The buttons of the Safe's card and the transfer card    *)
(* may come to wait for several, two here, and so may the wallet's card,   *)
(* one here.                                                               *)
ButtonCalls == {"button", "button again"}
TransferCalls == {"transfer", "transfer again"}
Callers == {"earn", "loop", "kamino", "drop", "chat"} \cup ButtonCalls \cup TransferCalls

(* usdc, tok (listed tokens, at their value) and coll (the xStock) in the  *)
(* Safe, the collateral lent, the debt, the kVault shares, and what the    *)
(* owner's wallet holds of the first three.                                *)
Safe == [usdc : Nat, tok : Nat, coll : Nat, lent : Nat, debt : Nat, shares : Nat,
         wallet : Nat, wtok : Nat, wcoll : Nat]

ASSUME UsesAssumption ==
  \A u \in Uses : u.safe \in Safe /\ u.clicks \in Nat /\ u.mishaps \in Nat

Purse == [usdc |-> "wallet", tok |-> "wtok", coll |-> "wcoll"]

(* Two hooks read the Safe's USDC: useVault as its balance, useVaultAssets *)
(* as one row of its assets.                                               *)
Seen(s) == [f \in DOMAIN s \cup {"row"} |-> IF f = "row" THEN s.usdc ELSE s[f]]

Job(kind, n) == [kind |-> kind, n |-> n]
Transfer(kind, token, n) == [kind |-> kind, token |-> token, n |-> n]
NoJob == Job("none", 0)
NoCall == [job |-> NoJob, st |-> "none", note |-> FALSE]
Answers == {"success", "error", "needs_whitelist"}

-----------------------------------------------------------------------------
(* What a job may do to the Safe, and what it answers. *)

Answer(s, st) == [safe |-> s, st |-> st, note |-> FALSE]
Success(s) == Answer(s, "success")
Noted(s) == [Success(s) EXCEPT !.note = TRUE]
Failure == Answer(safe, "error")
Smaller(a, b) == IF a < b THEN a ELSE b

(* Lends what is asked or what the Safe holds, whichever is less.          *)
Lend(n) ==
  LET m == Smaller(n, safe.coll)
  IN  IF m = 0 THEN {Failure}
      ELSE {Success([safe EXCEPT !.coll = @ - m, !.lent = @ + m])}

Borrow(n) ==
  IF (safe.debt + n) * 100 > safe.lent * LTV_LIMIT THEN {Failure}
  ELSE {Success([safe EXCEPT !.debt = @ + n, !.usdc = @ + n])}

(* Nothing owed; dust, which counts as closed; or the debt less a safety   *)
(* margin.  A repayment the market refuses twice is reported as done.      *)
RepayAll ==
  IF safe.debt = 0 THEN {Success(safe)}
  ELSE IF safe.debt <= RESIDUE THEN {Noted(safe)}
  ELSE LET paid == safe.debt - RESIDUE
       IN  IF paid > safe.usdc THEN {Failure}
           ELSE {Noted([safe EXCEPT !.usdc = @ - paid, !.debt = RESIDUE]), Noted(safe)}

(* A part of the debt; the market has a minimum for what is left.          *)
Repay(n) ==
  IF n = 0 \/ n > Smaller(safe.usdc, safe.debt) THEN {Failure}
  ELSE {Failure, Success([safe EXCEPT !.usdc = @ - n, !.debt = @ - n])}

(* All of it once nothing is owed, else all but a part, said in the note.  *)
WithdrawCollateral ==
  LET kept == (safe.lent + BUFFER - 1) \div BUFFER
  IN  IF safe.lent = 0 THEN {Failure}
      ELSE IF safe.debt = 0
           THEN {Success([safe EXCEPT !.coll = @ + safe.lent, !.lent = 0])}
      ELSE IF safe.debt * 100 > kept * LTV_LIMIT THEN {Failure}
      ELSE {Noted([safe EXCEPT !.coll = @ + (safe.lent - kept), !.lent = kept])}

(* Moves n, all of it or nothing.                                          *)
Moves(from, to, n) ==
  IF n = 0 \/ n > safe[from] THEN {Failure}
  ELSE {Success([safe EXCEPT ![from] = @ - n, ![to] = @ + n])}

Stake(n) == Moves("usdc", "shares", n)

\* Mutant of Unstake: the shares held are not looked up again.
UnstakeUnseen(n) ==
  IF n = 0 THEN {Failure}
  ELSE {Success([safe EXCEPT !.usdc = @ + n, !.shares = @ - n])}

Unstake(n) == Moves("shares", "usdc", n)

(* Sells the listed tokens one after the other; the first failure ends it. *)
ConvertAll ==
  {Answer([safe EXCEPT !.usdc = @ + sold, !.tok = @ - sold],
          IF sold = safe.tok THEN "success" ELSE "error") : sold \in 0..safe.tok}

(* Halves between USDC and the listed tokens stand for the strategy's mix. *)
Rebalance ==
  LET sum == safe.usdc + safe.tok
  IN  {Success([safe EXCEPT !.tok = sum \div 2, !.usdc = sum - (sum \div 2)])}

Swap(n) == Moves("usdc", "tok", n)
Sell(token, n) == Moves(token, "usdc", n)

(* The owner's transfers, signed in the wallet (web/src/lib/vault.ts).     *)
depositSpl(token, n) == Moves(Purse[token], token, n)
withdrawUsdc(n) == Moves("usdc", "wallet", n)
withdrawSpl(token, n) == Moves(token, Purse[token], n)

Outcomes(job) ==
  CASE job.kind = "lend" -> Lend(job.n)
    [] job.kind = "borrow" -> Borrow(job.n)
    [] job.kind = "repay_all" -> RepayAll
    [] job.kind = "repay" -> Repay(job.n)
    [] job.kind = "withdraw_collateral" -> WithdrawCollateral
    [] job.kind = "stake" -> Stake(job.n)
    [] job.kind = "unstake" -> Unstake(job.n)
    [] job.kind = "convert_all" -> ConvertAll
    [] job.kind = "rebalance" -> Rebalance
    [] job.kind = "swap" -> Swap(job.n)
    [] job.kind = "sell" -> Sell(job.token, job.n)
    [] job.kind = "pay_in" -> depositSpl(job.token, job.n)
    [] job.kind = "pay_out_usdc" -> withdrawUsdc(job.n)
    [] job.kind = "pay_out" -> withdrawSpl(job.token, job.n)

-----------------------------------------------------------------------------
(* Calls and their answers. *)

Waiting(c) == calls[c].st = "asked"
Answered(c) == calls[c].st \in Answers

Click ==
  budget.clicks < use.clicks /\ budget' = [budget EXCEPT !.clicks = @ + 1]

(* A caller begins something: what crosses it from here on disturbs it.    *)
Begin(c) == Click /\ disturbed' = disturbed \ {c}

Asking(job) == [job |-> job, st |-> "asked", note |-> FALSE]
Ask(c, job) == calls' = [calls EXCEPT ![c] = Asking(job)]
HangUp(c) == calls' = [calls EXCEPT ![c] = NoCall]

Crossed(c, s) == IF s = safe THEN disturbed ELSE disturbed \cup (Callers \ {c})

Serve(c) ==
  /\ Waiting(c)
  /\ \E o \in Outcomes(calls[c].job) :
       /\ safe' = o.safe /\ disturbed' = Crossed(c, o.safe)
       /\ calls' = [calls EXCEPT ![c].st = o.st, ![c].note = o.note]
  /\ UNCHANGED <<use, shown, late, budget>>

(* A route turns any job away, the owner refuses to sign a transfer.       *)
Refusals(job) ==
  IF job.kind \in {"pay_in", "pay_out_usdc", "pay_out"} THEN {"error"} ELSE {"error", "needs_whitelist"}

TurnAway(c) ==
  /\ Waiting(c)
  /\ \E st \in Refusals(calls[c].job) : calls' = [calls EXCEPT ![c].st = st]
  /\ UNCHANGED <<use, safe, shown, late, disturbed, budget>>

(* The answer is an error, or never comes, and the job still runs or ran.  *)
LoseAnswer(c) ==
  /\ Waiting(c) /\ budget.mishaps < use.mishaps
  /\ budget' = [budget EXCEPT !.mishaps = @ + 1]
  /\ late' = late \cup {calls[c].job}
  /\ calls' = [calls EXCEPT ![c].st = "error"]
  /\ UNCHANGED <<use, safe, shown, disturbed>>

LateJobEnds ==
  \E job \in late :
    /\ late' = late \ {job}
    /\ \E o \in Outcomes(job) \cup {Failure} :
         /\ safe' = o.safe
         /\ disturbed' = IF o.safe = safe THEN disturbed ELSE Callers
    /\ UNCHANGED <<use, shown, calls, budget>>

(* Each hook rereads its part, alone, and keeps what it has on failure.    *)
Reread(fields) ==
  /\ \E f \in fields : shown[f] # Seen(safe)[f]
  /\ shown' = [f \in DOMAIN shown |-> IF f \in fields THEN Seen(safe)[f] ELSE shown[f]]
  /\ UNCHANGED <<use, safe, calls, late, disturbed, budget>>

useVault == Reread({"usdc"})
useVaultAssets == Reread({"row", "tok", "coll"})
useWalletAssets == Reread({"wallet", "wtok", "wcoll"})
useJupiterBorrowPositions == Reread({"lent", "debt"})
useKaminoKvaultPositions == Reread({"shares"})

Refresh ==
  \/ useVault \/ useVaultAssets \/ useWalletAssets
  \/ useJupiterBorrowPositions \/ useKaminoKvaultPositions

JobsInit ==
  /\ use \in Uses /\ safe = use.safe /\ shown = Seen(safe)
  /\ calls = [c \in Callers |-> NoCall]
  /\ late = {} /\ disturbed = {} /\ budget = [clicks |-> 0, mishaps |-> 0]

JobsNext ==
  \/ \E c \in Callers : Serve(c) \/ TurnAway(c) \/ LoseAnswer(c)
  \/ LateJobEnds \/ Refresh

JobsTypeOK ==
  /\ safe \in Safe /\ \A f \in DOMAIN shown : shown[f] \in Nat
  /\ \A c \in Callers : calls[c].st \in Answers \cup {"none", "asked"}
  /\ disturbed \subseteq Callers
  /\ budget.clicks \in 0..use.clicks /\ budget.mishaps \in 0..use.mishaps
=============================================================================
