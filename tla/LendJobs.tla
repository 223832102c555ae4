------------------------------- MODULE LendJobs -------------------------------
(***************************************************************************)
(* The agent's protocol jobs, web/src/server/agent/runRebalance.ts with    *)
(* protocols/jupiterBorrow.ts and protocols/kaminoKvault.ts, behind the    *)
(* routes of web/src/app/api: deposit and withdraw collateral, borrow and  *)
(* repay USDC on Jupiter Lend, deposit to and withdraw from a kVault.      *)
(* Jobs keep nothing between requests and take no lock; two of them run    *)
(* side by side on one Safe.  A job reads the chain, plans transactions    *)
(* from what it read, and hands them one by one to the sender, of which it *)
(* knows what AtMostOnce says.  Debt is kept in units SCALE times finer    *)
(* than the amounts the jobs name.                                         *)
(***************************************************************************)
EXTENDS Integers, Sequences, FiniteSets, FiniteSetsExt

CONSTANTS
  Jobs,
  Requests,           \* what the routes are asked for, see Request below
  MaxId,              \* position ids the market hands out
  DEFAULT_POSITION_SCAN_DEPTH,  \* how many of the newest ids a scan looks at
  Debts,              \* debts of a position the Safe may start with, fine units
  Deposited,          \* collateral in the Safe, and in that position, at the start
  Idle,               \* USDC the Safe starts with
  SafeLamports,       \* lamports of the Safe PDA at the start
  ExecutorLamports,   \* lamports of the executor's wallet at the start
  SCALE,              \* 10^(9 - 6)
  JUPITER_REPAY_DUST_USER_RAW,
  JUPITER_REPAY_FULL_CLOSE_USER_RAW,
  JUPITER_REPAY_SAFETY_FULL,
  JUPITER_REPAY_SAFETY_MEDIUM,
  DustBuffer,         \* 100: with dust debt a 100th of the collateral stays
  DebtBuffer,         \* 10: with real debt a 10th stays
  VAULT_PDA_LAMPORT_BUFFER,
  VAULT_PDA_REFUND_RESERVE,
  AUTHORITY_FEE_RESERVE,
  RentMinimum,        \* rent-exempt minimum of the Safe PDA
  Rents,              \* what an operate instruction may cost the Safe in rent
  MIN_KVAULT_DEPOSIT_RAW,
  MinUserDebt,        \* the market's min_user_debt, in fine units
  MaxAccruals,        \* times the interest adds a fine unit to a debt
  MaxLate             \* transactions that land after the job was told "err"

ASSUME LendAssumption ==
  /\ IsFiniteSet(Jobs)
  /\ {SCALE, DustBuffer, DebtBuffer, DEFAULT_POSITION_SCAN_DEPTH} \subseteq Nat \ {0}
  /\ {MaxId, Deposited, Idle, SafeLamports, ExecutorLamports, RentMinimum, MinUserDebt,
      MIN_KVAULT_DEPOSIT_RAW, VAULT_PDA_LAMPORT_BUFFER, VAULT_PDA_REFUND_RESERVE, AUTHORITY_FEE_RESERVE,
      MaxAccruals, MaxLate} \subseteq Nat
  /\ JUPITER_REPAY_SAFETY_FULL \in Nat
  /\ JUPITER_REPAY_SAFETY_MEDIUM \in Nat
  /\ JUPITER_REPAY_SAFETY_FULL < JUPITER_REPAY_SAFETY_MEDIUM
  /\ JUPITER_REPAY_DUST_USER_RAW \in Nat
  /\ JUPITER_REPAY_SAFETY_MEDIUM < JUPITER_REPAY_DUST_USER_RAW
  /\ JUPITER_REPAY_FULL_CLOSE_USER_RAW \in Nat
  /\ Rents \subseteq Nat /\ Debts \subseteq Nat

Ids == 1..MaxId
NoPosition == 0

Kinds == {"deposit", "withdraw", "borrow", "repay", "kvault_deposit", "kvault_withdraw"}
Program(kind) == IF kind \in {"kvault_deposit", "kvault_withdraw"} THEN "kvault" ELSE "lend"

(* A request names its kind, an amount, the position if the caller knows   *)
(* it, and whether a repayment is for all of the debt.                     *)
Request == [kind : Kinds, amount : Nat, position : {NoPosition} \cup Ids, max : BOOLEAN]

ASSUME RequestAssumption == Requests \subseteq Request

VARIABLES
  chain,      \* what the transactions read and write
  job,        \* job[j]: the request being served by j
  late,       \* transactions that may still land although their job was told "err"
  executed,   \* history: how many operations of each job's request took effect
  disturbed,  \* history: another job's transaction took effect since this one read
  raced,      \* history: a position was created by a job that had been disturbed
  accruals

vars == <<chain, job, late, executed, disturbed, raced, accruals>>

Position == [held : BOOLEAN, col : Nat, debt : Nat]

(* One transaction: what it does to a position or the kVault, the lamports *)
(* it moves to the Safe before, and the most it may take back after.       *)
Tx == [op : {"init", "setup", "operate", "kvault"}, id : {NoPosition} \cup Ids,
       col : Int, debt : Int, all : BOOLEAN, topUp : Nat, refund : Nat]

Job == [request : Request, pc : {"idle", "read", "find", "setup", "build", "send", "done"},
        id : {NoPosition} \cup Nat, plan : Seq(Tx), safety : Nat,
        status : {"none", "success", "error", "needs_whitelist"}]

TypeOK ==
  /\ chain \in [positions : [Ids -> Position], nextId : Nat, allowed : SUBSET {"lend", "kvault"},
                col : Nat, usdc : Nat, shares : Nat, lamports : Nat, sol : Nat]
  /\ job \in [Jobs -> Job]
  /\ late \subseteq Jobs \X Tx
  /\ executed \in [Jobs -> Nat]
  /\ disturbed \in [Jobs -> BOOLEAN]
  /\ raced \in BOOLEAN
  /\ accruals \in 0..MaxAccruals

NoRequest == [kind |-> "deposit", amount |-> 0, position |-> NoPosition, max |-> FALSE]

Init ==
  /\ \E allowed \in {{}, {"lend", "kvault"}}, debt \in {0} \cup Debts :
       LET has == IF debt = 0 THEN {} ELSE {1} IN
       chain = [positions |-> [i \in Ids |-> [held |-> i \in has,
                                              col |-> IF i \in has THEN Deposited ELSE 0,
                                              debt |-> IF i \in has THEN debt ELSE 0]],
                nextId |-> 1 + Cardinality(has), allowed |-> allowed,
                col |-> Deposited, usdc |-> Idle, shares |-> 0,
                lamports |-> SafeLamports, sol |-> ExecutorLamports]
  /\ job = [j \in Jobs |-> [request |-> NoRequest, pc |-> "idle", id |-> NoPosition,
                            plan |-> <<>>, safety |-> 0, status |-> "none"]]
  /\ late = {}
  /\ executed = [j \in Jobs |-> 0]
  /\ disturbed = [j \in Jobs |-> FALSE]
  /\ raced = FALSE
  /\ accruals = 0

-----------------------------------------------------------------------------
(* The chain: what a transaction would do to it.                           *)

(* lib.rs: the refund leaves the rent minimum and the reserve.             *)
Refunded(c, amount) ==
  LET back == Min({amount, Max({0, c.lamports - (RentMinimum + VAULT_PDA_REFUND_RESERVE)})})
  IN [c EXCEPT !.lamports = @ - back, !.sol = @ + back]

(* The next position of the market is created for the executor and handed  *)
(* to the Safe; somebody else may have taken its id.                       *)
InitResults(c, tx) ==
  {[c EXCEPT !.positions[tx.id].held = TRUE, !.nextId = @ + 1] :
     i \in {tx.id} \cap {c.nextId}}

SetupResults(c, tx) ==
  {[c EXCEPT !.sol = @ - topUp, !.lamports = @ + topUp] :
     topUp \in {tx.topUp} \cap 0..c.sol}

(* Jupiter Lend's operate: collateral covers twice the debt and a debt is  *)
(* either nothing or at least the minimum.  A repayment may be scaled up   *)
(* by one fine unit.                                                       *)
DebtAfter(p, tx, quirk) ==
  p.debt + tx.debt * SCALE - (IF tx.debt < 0 THEN quirk ELSE 0)

ColAfter(p, tx) == IF tx.all THEN 0 ELSE p.col + tx.col

TooLow(c, tx, quirk) ==
  /\ tx.op = "operate" /\ tx.debt < 0
  /\ DebtAfter(c.positions[tx.id], tx, quirk) \in 1..MinUserDebt - 1

OperateResults(c, tx, quirk) ==
  LET p == c.positions[tx.id]
      debt == DebtAfter(p, tx, quirk)
      col == ColAfter(p, tx)
  IN IF /\ p.held /\ "lend" \in c.allowed
        /\ debt >= 0 /\ col >= 0
        /\ debt <= col * SCALE
        /\ tx.debt = 0 \/ debt = 0 \/ debt >= MinUserDebt
        /\ c.col + p.col - col >= 0
        /\ c.usdc + tx.debt >= 0
     THEN {Refunded([c EXCEPT !.positions[tx.id].col = col, !.positions[tx.id].debt = debt,
                              !.col = @ + p.col - col, !.usdc = @ + tx.debt,
                              !.lamports = @ - rent], tx.refund) :
             rent \in {r \in Rents : c.lamports - r >= RentMinimum}}
     ELSE {}

KvaultResults(c, tx) ==
  IF "kvault" \in c.allowed /\ c.usdc - tx.col >= 0 /\ c.shares + tx.col >= 0
  THEN {[c EXCEPT !.usdc = @ - tx.col, !.shares = @ + tx.col]}
  ELSE {}

Results(c, tx) ==
  CASE tx.op = "init" -> InitResults(c, tx)
    [] tx.op = "setup" -> SetupResults(c, tx)
    [] tx.op = "operate" -> OperateResults(c, tx, 0) \cup OperateResults(c, tx, 1)
    [] tx.op = "kvault" -> KvaultResults(c, tx)

(* A transaction of job j takes effect. *)
Executes(j, tx) ==
  /\ chain' \in Results(chain, tx)
  /\ executed' = [executed EXCEPT ![j] = @ + IF tx.op \in {"operate", "kvault"} THEN 1 ELSE 0]
  /\ disturbed' = [k \in Jobs |-> disturbed[k] \/ k # j]
  /\ raced' = (raced \/ (tx.op = "init" /\ disturbed[j]))

NothingExecutes == UNCHANGED <<chain, executed, disturbed, raced>>

(* A transaction lands after its job gave up on it, or never does.         *)
LandsLate ==
  \E l \in late :
    /\ Executes(l[1], l[2]) \/ NothingExecutes
    /\ late' = late \ {l}
    /\ UNCHANGED <<job, accruals>>

Accrue ==
  /\ accruals < MaxAccruals
  /\ \E i \in Ids :
       /\ chain.positions[i].debt > 0
       /\ chain' = [chain EXCEPT !.positions[i].debt = @ + 1]
  /\ accruals' = accruals + 1
  /\ UNCHANGED <<job, late, executed, disturbed, raced>>

(* Another user of the market takes the next position id.                  *)
StrangerTakesId ==
  /\ chain.nextId < MaxId
  /\ chain' = [chain EXCEPT !.nextId = @ + 1]
  /\ UNCHANGED <<job, late, executed, disturbed, raced, accruals>>

-----------------------------------------------------------------------------
(* The routes and the jobs' reads.  A read changes nothing but the job, and *)
(* forgets what disturbed the earlier ones.                                 *)

Held == {i \in Ids : chain.positions[i].held}
UserDebt(i) == chain.positions[i].debt \div SCALE

(* The scan looks at the newest ids of the market, a fixed number of them; *)
(* an older position of the Safe is not found.                             *)
Scanned == {i \in Held : chain.nextId - i \in 1..DEFAULT_POSITION_SCAN_DEPTH}

PositionsShown == {i \in Scanned : chain.positions[i].col # 0 \/ chain.positions[i].debt # 0}

(* What each route takes.                                                  *)
DepositAsked(r) == r.kind = "deposit" /\ r.amount > 0
BorrowAsked(r) == r.kind = "borrow" /\ r.amount > 0
RepayAsked(r) == r.kind = "repay" /\ (r.max \/ r.amount > 0)
WithdrawAsked(r) == r.kind = "withdraw"
KvaultDepositAsked(r) == r.kind = "kvault_deposit" /\ r.amount >= MIN_KVAULT_DEPOSIT_RAW
KvaultWithdrawAsked(r) == r.kind = "kvault_withdraw" /\ r.amount > 0

Accepted(r) ==
  \/ DepositAsked(r) \/ BorrowAsked(r) \/ RepayAsked(r) \/ WithdrawAsked(r)
  \/ KvaultDepositAsked(r) \/ KvaultWithdrawAsked(r)

Answer(b, status) == [b EXCEPT !.pc = "done", !.status = status, !.plan = <<>>]

Serve(j) ==
  /\ job[j].pc = "idle"
  /\ \E r \in Requests :
       /\ r.position \in {NoPosition} \cup PositionsShown
       /\ job' = [job EXCEPT ![j] =
                    LET b == [@ EXCEPT !.request = r, !.pc = "read"]
                    IN IF Accepted(r) THEN b ELSE Answer(b, "error")]
  /\ UNCHANGED <<chain, late, executed, disturbed, raced, accruals>>

Read(j, becomes) ==
  /\ job' = [job EXCEPT ![j] = becomes]
  /\ disturbed' = [disturbed EXCEPT ![j] = FALSE]
  /\ UNCHANGED <<chain, late, executed, raced, accruals>>

KvaultTx(r) ==
  [op |-> "kvault", id |-> NoPosition, debt |-> 0, all |-> FALSE, topUp |-> 0, refund |-> 0,
   col |-> IF r.kind = "kvault_deposit" THEN r.amount ELSE -r.amount]

ReadSafe(j) ==
  LET b == job[j] IN
  /\ b.pc = "read"
  /\ \/ /\ Program(b.request.kind) \notin chain.allowed
        /\ Read(j, Answer(b, "needs_whitelist"))
     \/ /\ Program(b.request.kind) \in chain.allowed
        /\ IF Program(b.request.kind) = "kvault"
           THEN Read(j, [b EXCEPT !.pc = "send", !.plan = <<KvaultTx(b.request)>>])
           ELSE Read(j, [b EXCEPT !.pc = IF b.request.position = NoPosition THEN "find" ELSE "build",
                                  !.id = b.request.position])
     \/ Read(j, Answer(b, "error"))

\* Mutant of NewestHeld: the scan overlooks positions without debt.
NewestInDebt == Max({NoPosition} \cup {i \in Scanned : chain.positions[i].debt # 0})

NewestHeld == Max({NoPosition} \cup Scanned)

Find(j) ==
  LET b == job[j]
      newest == NewestHeld
  IN /\ b.pc = "find"
     /\ \/ newest # NoPosition /\ Read(j, [b EXCEPT !.pc = "build", !.id = newest])
        \/ /\ newest = NoPosition
           /\ IF b.request.kind = "deposit" THEN Read(j, [b EXCEPT !.pc = "setup"])
                                            ELSE Read(j, Answer(b, "error"))
        \/ Read(j, Answer(b, "error"))

(* The position is created under the next id, read here; unlike the other  *)
(* reads this one rests on what Find saw, so it keeps the disturbance.     *)
SetUp(j) ==
  /\ job[j].pc = "setup"
  /\ \/ /\ chain.sol >= VAULT_PDA_LAMPORT_BUFFER
        /\ chain.nextId \in Ids
        /\ job' = [job EXCEPT ![j].pc = "send", ![j].id = chain.nextId,
                   ![j].plan = <<[op |-> "init", id |-> chain.nextId, col |-> 0, debt |-> 0,
                                  all |-> FALSE, topUp |-> 0, refund |-> 0]>>]
     \/ job' = [job EXCEPT ![j] = Answer(@, "error")]
  /\ UNCHANGED <<chain, late, executed, disturbed, raced, accruals>>

-----------------------------------------------------------------------------
(* Building the transactions of an operation.                              *)

Operate(id, col, debt) ==
  [op |-> "operate", id |-> id, col |-> col, debt |-> debt, all |-> FALSE,
   topUp |-> 0, refund |-> 0]

\* Mutant of PlanTopUp: a Safe above its buffer is not told from one below.
PlanAnyTopUp(needsRent) ==
  IF needsRent
  THEN Min({VAULT_PDA_LAMPORT_BUFFER - chain.lamports, Max({0, chain.sol - AUTHORITY_FEE_RESERVE})})
  ELSE 0

PlanTopUp(needsRent) ==
  IF needsRent
  THEN Min({Max({0, VAULT_PDA_LAMPORT_BUFFER - chain.lamports}),
            Max({0, chain.sol - AUTHORITY_FEE_RESERVE})})
  ELSE 0

\* Mutant of WithTopUp: the refund is never appended.
TopUpOnly(op, needsRent) ==
  LET setup == [Operate(op.id, 0, 0) EXCEPT !.op = "setup", !.topUp = PlanTopUp(needsRent)]
  IN IF needsRent THEN <<setup, op>> ELSE <<op>>

(* The SDK asks for a setup instruction or does not.  With one, the Safe is *)
(* topped up in the setup transaction and the last transaction gives back   *)
(* up to as much.                                                           *)
WithTopUp(op, needsRent) ==
  LET topUp == PlanTopUp(needsRent)
      setup == [Operate(op.id, 0, 0) EXCEPT !.op = "setup", !.topUp = topUp]
  IN IF needsRent THEN <<setup, [op EXCEPT !.refund = topUp]>> ELSE <<op>>

Build(j, ops) ==
  /\ job[j].pc = "build"
  /\ \/ \E op \in ops, needsRent \in BOOLEAN :
          Read(j, [job[j] EXCEPT !.pc = "send", !.plan = WithTopUp(op, needsRent)])
     \/ Read(j, Answer(job[j], "error"))

(* One raw unit stays in the Safe; a balance that cannot be read does not  *)
(* limit the deposit.                                                      *)
Clamped(amount) == Min({amount, Max({0, chain.col - 1})})

BuildDeposit(j) ==
  LET b == job[j] IN
  /\ b.request.kind = "deposit"
  /\ Build(j, {Operate(b.id, amount, 0) :
                 amount \in {Clamped(b.request.amount), b.request.amount} \ {0}})

(* With debt left, some of the collateral stays.  Whatever goes wrong on    *)
(* the way, a position with debt and no collateral included, ends in a      *)
(* withdrawal of everything.                                                *)
Kept(p) ==
  p.col \div (IF p.debt <= JUPITER_REPAY_DUST_USER_RAW * SCALE THEN DustBuffer ELSE DebtBuffer)

WithdrawAll(id) == [Operate(id, 0, 0) EXCEPT !.all = TRUE]

BuildWithdraw(j) ==
  LET b == job[j]
      p == chain.positions[b.id]
      part == p.col - Kept(p)
  IN /\ b.request.kind = "withdraw" /\ b.pc = "build"
     /\ Build(j, {WithdrawAll(b.id)} \cup
                 {Operate(b.id, -col, 0) : col \in {c \in {part} : p.debt > 0 /\ c > 0}})

BuildBorrow(j) ==
  /\ job[j].request.kind = "borrow"
  /\ Build(j, {Operate(job[j].id, 0, job[j].request.amount)})

\* Mutant of Safety: the retry forgets its larger margin.
SafetyByDebt(debt, override) ==
  IF debt >= JUPITER_REPAY_FULL_CLOSE_USER_RAW THEN JUPITER_REPAY_SAFETY_FULL
  ELSE JUPITER_REPAY_SAFETY_MEDIUM

(* What of a debt a full repayment leaves behind.                          *)
Safety(debt, override) ==
  IF override > 0 THEN override
  ELSE IF debt >= JUPITER_REPAY_FULL_CLOSE_USER_RAW THEN JUPITER_REPAY_SAFETY_FULL
  ELSE JUPITER_REPAY_SAFETY_MEDIUM

BuildRepay(j) ==
  LET b == job[j]
      debt == UserDebt(b.id)
  IN /\ b.request.kind = "repay" /\ b.pc = "build"
     /\ IF b.request.max
        THEN \/ /\ debt <= JUPITER_REPAY_DUST_USER_RAW
                /\ Read(j, Answer(b, "success"))
             \/ /\ debt > JUPITER_REPAY_DUST_USER_RAW
                /\ Build(j, {Operate(b.id, 0, Safety(debt, b.safety) - debt)})
        ELSE Build(j, {Operate(b.id, 0, -b.request.amount)})

-----------------------------------------------------------------------------
(* Sending the plan.                                                       *)

Tell(j, b) == job' = [job EXCEPT ![j] = b]

Proceed(b) ==
  IF Len(b.plan) > 1 THEN [b EXCEPT !.plan = Tail(@)]
  ELSE IF Head(b.plan).op = "init" THEN [b EXCEPT !.pc = "build", !.plan = <<>>]
  ELSE Answer(b, "success")

\* Mutant of Refusal: any failed operation is worth a second attempt.
RefusalOfAny(b, tooLow) ==
  IF b.safety = 0 /\ Head(b.plan).op = "operate"
  THEN [b EXCEPT !.pc = "build", !.plan = <<>>, !.safety = JUPITER_REPAY_SAFETY_MEDIUM]
  ELSE Answer(b, "error")

\* Mutant of Refusal: the job tries until it succeeds.
RefusalUntilDone(b, tooLow) == [b EXCEPT !.pc = "build", !.plan = <<>>]

(* The program refused the repayment because of the debt it would leave:   *)
(* tried once more with the larger margin, then given up as a success.     *)
Refusal(b, tooLow) ==
  IF tooLow /\ b.request.max
  THEN IF b.safety = 0
       THEN [b EXCEPT !.pc = "build", !.plan = <<>>, !.safety = JUPITER_REPAY_SAFETY_MEDIUM]
       ELSE Answer(b, "success")
  ELSE Answer(b, "error")

SendExecuted(j) ==
  /\ job[j].pc = "send"
  /\ Executes(j, Head(job[j].plan))
  /\ Tell(j, Proceed(job[j]))
  /\ UNCHANGED <<late, accruals>>

SendRefused(j) ==
  LET b == job[j]
      tx == Head(b.plan)
  IN /\ b.pc = "send"
     /\ \/ \E quirk \in {0, 1} : TooLow(chain, tx, quirk) /\ Tell(j, Refusal(b, TRUE))
        \/ ~(\A quirk \in {0, 1} : TooLow(chain, tx, quirk)) /\ Tell(j, Refusal(b, FALSE))
     /\ NothingExecutes
     /\ UNCHANGED <<late, accruals>>

(* The sender gave up without knowing.                                     *)
SendLost(j) ==
  /\ job[j].pc = "send"
  /\ Cardinality(late) < MaxLate
  /\ late' = late \cup {<<j, Head(job[j].plan)>>}
  /\ Tell(j, Refusal(job[j], FALSE))
  /\ NothingExecutes
  /\ UNCHANGED accruals

-----------------------------------------------------------------------------
JobStep(j) ==
  \/ ReadSafe(j) \/ Find(j) \/ SetUp(j)
  \/ BuildDeposit(j) \/ BuildWithdraw(j) \/ BuildBorrow(j) \/ BuildRepay(j)
  \/ SendExecuted(j) \/ SendRefused(j) \/ SendLost(j)

Environment == LandsLate \/ Accrue \/ StrangerTakesId

Done == (\A j \in Jobs : job[j].pc = "done") /\ UNCHANGED vars

Next == (\E j \in Jobs : Serve(j) \/ JobStep(j)) \/ Environment \/ Done

Spec == Init /\ [][Next]_vars /\ \A j \in Jobs : WF_vars(JobStep(j))

-----------------------------------------------------------------------------
(* A request's operation takes effect at most once: a job that does not     *)
(* know what became of its transaction never plans it again.  Retrying a    *)
(* repayment is safe only because the refusal proves nothing took effect.   *)
OperatesOnce == \A j \in Jobs : executed[j] <= 1

(* A job reports a full repayment done.                                    *)
ReportsRepaid(j) ==
  /\ job[j].request.kind = "repay" /\ job[j].request.max
  /\ job'[j].status = "success" /\ job[j].status # "success"

(* The market refuses the debt that even the larger margin leaves.         *)
MarginRefused(j) ==
  LET tx == Head(job[j].plan)
  IN /\ job[j].pc = "send" /\ job[j].safety # 0 /\ executed'[j] = 0
     /\ \E quirk \in {0, 1} : TooLow(chain, tx, quirk)
     /\ chain.positions[tx.id].debt + tx.debt * SCALE >= JUPITER_REPAY_SAFETY_MEDIUM * SCALE

(* A full repayment that is reported done leaves at most dust behind,       *)
(* unless another job worked on the position meanwhile or the market's      *)
(* minimum debt, which the code does not know, lies above both margins.     *)
RepaidMeansClosed ==
  [][\A j \in Jobs :
       ReportsRepaid(j) => \/ disturbed'[j] \/ MarginRefused(j)
                           \/ UserDebt(job[j].id)' <= JUPITER_REPAY_DUST_USER_RAW]_vars

(* What the note of a repayment refused twice says, runRebalance.ts 581:    *)
(* the debt that stays is below the market's minimum, or it is dust.        *)
RepaidAsNoted ==
  [][\A j \in Jobs :
       ReportsRepaid(j) => \/ disturbed'[j]
                           \/ UserDebt(job[j].id)' <= JUPITER_REPAY_DUST_USER_RAW
                           \/ chain'.positions[job[j].id].debt < MinUserDebt]_vars

(* A position is created only where the scan would not find one, unless two *)
(* requests were looking for one side by side or a creation landed late.    *)
OnePositionUnlessRaced ==
  raced \/ \A i, k \in Held : k > i => k - i > DEFAULT_POSITION_SCAN_DEPTH

(* What the executor lends the Safe for rent comes back to it, whatever     *)
(* other job tops up meanwhile, and never more than that: once all requests *)
(* are answered and every one that did something succeeded at once, the     *)
(* Safe is no richer than before, and the executor never gains.             *)
TopUpComesBack ==
  /\ chain.sol <= ExecutorLamports
  /\ (/\ late = {}
      /\ \A j \in Jobs : job[j].status # "error" /\ job[j].pc \in {"idle", "done"} /\ job[j].safety = 0)
     => chain.lamports <= Max({SafeLamports, RentMinimum + VAULT_PDA_REFUND_RESERVE})

(* Every request is answered: the one retry is the last.                    *)
EveryRequestAnswered == \A j \in Jobs : job[j].pc = "read" ~> job[j].pc = "done"
=============================================================================
