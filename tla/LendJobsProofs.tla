--------------------------- MODULE LendJobsProofs ----------------------------
(***************************************************************************)
(* Proofs about the protocol jobs of LendJobs for any number of jobs side  *)
(* by side, any requests, rents, debts and accruals: no operation takes    *)
(* effect twice, a second position needs a race, what the executor lends   *)
(* the Safe comes back, and a full repayment that is reported done is one. *)
(***************************************************************************)
EXTENDS LendJobs, SumLemmas, SequenceTheorems

-----------------------------------------------------------------------------
(* The inductive invariant. *)

(* The plans a job ever holds: a kVault transaction, the creation of a     *)
(* position, an operation by itself, or a top-up and then the operation    *)
(* that gives back as much.                                                *)
KvaultPlan(b) ==
  Len(b.plan) = 1 /\ b.plan[1].op = "kvault" /\ b.plan[1].refund = 0

InitPlan(b) ==
  /\ Len(b.plan) = 1
  /\ b.plan[1].op = "init" /\ b.plan[1].refund = 0 /\ b.plan[1].id = b.id /\ b.id \in Ids

OperateNext(b, i) == b.plan[i].op = "operate" /\ b.plan[i].id = b.id /\ b.id \in Ids

LastPlan(b) == Len(b.plan) = 1 /\ OperateNext(b, 1)

ToppedUpPlan(b) ==
  /\ Len(b.plan) = 2
  /\ b.plan[1].op = "setup" /\ b.plan[1].refund = 0 /\ b.plan[1].topUp = b.plan[2].refund
  /\ OperateNext(b, 2)

(* Job by job: what is planned fits the stage and the request, the margin  *)
(* of a repayment is the retry's or unset, and an answer is the last word. *)
JobSound(b) ==
  /\ b.pc # "send" => b.plan = <<>>
  /\ b.pc = "send" => KvaultPlan(b) \/ InitPlan(b) \/ LastPlan(b) \/ ToppedUpPlan(b)
  /\ b.pc = "send" /\ b.request.kind = "repay" => LastPlan(b) \/ ToppedUpPlan(b)
  /\ b.pc = "setup" => b.request.kind = "deposit"
  /\ b.pc = "build" => b.id \in Ids
  /\ b.safety \in {0, JUPITER_REPAY_SAFETY_MEDIUM}
  /\ b.status # "none" <=> b.pc = "done"

JobsSound == \A j \in Jobs : JobSound(job[j])

(* A job that has not answered has had no effect and left nothing behind;  *)
(* one that has, left behind at most one transaction, and only if it had   *)
(* no effect before and was answered with an error.                        *)
LateSound ==
  \A l \in late :
    /\ job[l[1]].pc = "done" /\ job[l[1]].status = "error" /\ executed[l[1]] = 0
    /\ l[2].op \in {"init", "operate"} => l[2].id \in Ids
    /\ l[2].op # "operate" => l[2].refund = 0
    /\ \A k \in late : k[1] = l[1] => k = l

OneShot == \A j \in Jobs : job[j].pc # "done" => executed[j] = 0

(* Whoever is about to create a position saw none: each one held is out of *)
(* the scan's reach, for good, as ids only grow, unless another job's      *)
(* transaction took effect in between.                                     *)
Distant == \A i \in Held : chain.nextId - i > DEFAULT_POSITION_SCAN_DEPTH

HeldBelow == \A i \in Held : i < chain.nextId

Creates(b) == b.pc = "setup" \/ (b.pc = "send" /\ InitPlan(b))

CreationInv ==
  /\ OnePositionUnlessRaced /\ HeldBelow
  /\ \A j \in Jobs : Creates(job[j]) => disturbed[j] \/ Distant
  /\ \A l \in late : l[2].op = "init" => disturbed[l[1]] \/ Distant

(* What the Safe has been lent and the job's last transaction would give   *)
(* back: planned, or lost and perhaps still to land.                       *)
Owes(b, j, L) ==
  IF b.pc = "send" /\ Len(b.plan) = 1 THEN b.plan[1].refund
  ELSE IF \E l \in L : l[1] = j THEN (CHOOSE l \in L : l[1] = j)[2].refund
  ELSE 0

owed == [j \in Jobs |-> Owes(job[j], j, late)]

Undisturbed == \A j \in Jobs : job[j].status # "error" /\ job[j].safety = 0

SafeCap == Max({SafeLamports, RentMinimum + VAULT_PDA_REFUND_RESERVE})

LoanInv ==
  /\ chain.sol + SumOf(owed, Jobs) <= ExecutorLamports
  /\ Undisturbed => late = {} /\ chain.lamports <= SafeCap + SumOf(owed, Jobs)

LendInv == TypeOK /\ JobsSound /\ LateSound /\ OneShot /\ OperatesOnce /\ CreationInv /\ LoanInv

(* A full repayment under way: whatever interest adds, it leaves the margin *)
(* and less than a unit more, as long as no other job touched the position. *)
RepayPlanned(b) ==
  LET tx == b.plan[Len(b.plan)]
  IN \E margin \in {JUPITER_REPAY_SAFETY_FULL, JUPITER_REPAY_SAFETY_MEDIUM} :
       /\ b.safety # 0 => margin = JUPITER_REPAY_SAFETY_MEDIUM
       /\ chain.positions[b.id].debt + tx.debt * SCALE
            \in margin * SCALE .. margin * SCALE + SCALE - 1 + accruals

RepaysAll(b) == b.pc = "send" /\ b.request.kind = "repay" /\ b.request.max

RepayInv == \A j \in Jobs : RepaysAll(job[j]) => disturbed[j] \/ RepayPlanned(job[j])

-----------------------------------------------------------------------------
(* Smallest and largest of two. *)

LEMMA MinOfTwo ==
  ASSUME NEW a \in Int, NEW b \in Int
  PROVE  Min({a, b}) = IF a <= b THEN a ELSE b
<1>1. \E x \in {a, b} : \A y \in {a, b} : x <= y
  OBVIOUS
<1>. QED
  BY <1>1 DEF Min

LEMMA MaxOfTwo ==
  ASSUME NEW a \in Int, NEW b \in Int
  PROVE  Max({a, b}) = IF a >= b THEN a ELSE b
<1>1. \E x \in {a, b} : \A y \in {a, b} : x >= y
  OBVIOUS
<1>. QED
  BY <1>1 DEF Max

(* Subtraction that stops at zero, as the top-up and the refund use it.    *)
LEMMA MaxWithZero ==
  ASSUME NEW a \in Int
  PROVE  /\ Max({0, a}) \in Nat
         /\ Max({0, a}) = IF a > 0 THEN a ELSE 0
BY MaxOfTwo

-----------------------------------------------------------------------------
(* What a transaction does to the chain. *)

ChainType ==
  [positions : [Ids -> Position], nextId : Nat, allowed : SUBSET {"lend", "kvault"},
   col : Nat, usdc : Nat, shares : Nat, lamports : Nat, sol : Nat]

HeldIn(c) == {i \in Ids : c.positions[i].held}

SameLoans(c, d) == d.sol = c.sol /\ d.lamports = c.lamports
SameDebts(c, d) == \A i \in Ids : d.positions[i].debt = c.positions[i].debt

(* The refund: at most what was asked for, and all of it unless that would *)
(* take the Safe below its rent minimum and reserve.                       *)
LEMMA RefundedEffect ==
  ASSUME NEW c \in ChainType, NEW amount \in Nat
  PROVE  /\ Refunded(c, amount) \in ChainType
         /\ Refunded(c, amount).positions = c.positions
         /\ Refunded(c, amount).nextId = c.nextId
         /\ \E back \in 0 .. amount :
              /\ Refunded(c, amount).sol = c.sol + back
              /\ Refunded(c, amount).lamports = c.lamports - back
              /\ \/ back = amount
                 \/ c.lamports - back <= RentMinimum + VAULT_PDA_REFUND_RESERVE
<1>. DEFINE floor == RentMinimum + VAULT_PDA_REFUND_RESERVE
            spare == Max({0, c.lamports - floor})
            back == Min({amount, spare})
<1>1. floor \in Nat /\ c.lamports \in Nat /\ c.sol \in Nat
  BY LendAssumption DEF ChainType
<1>2. spare \in Nat /\ spare = IF c.lamports - floor > 0 THEN c.lamports - floor ELSE 0
  <2>. HIDE DEF floor
  <2>. QED
    BY <1>1, MaxWithZero
<1>3. back = IF amount <= spare THEN amount ELSE spare
  <2>. HIDE DEF spare
  <2>. QED
    BY <1>2, MinOfTwo
<1>4. Refunded(c, amount) = [c EXCEPT !.lamports = @ - back, !.sol = @ + back]
  BY DEF Refunded
<1>. HIDE DEF floor, spare, back
<1>5. back \in 0 .. amount /\ back <= c.lamports
      /\ (back = amount \/ c.lamports - back <= floor)
  BY <1>1, <1>2, <1>3
<1>6. Refunded(c, amount) \in ChainType
  <2>1. c.lamports - back \in Nat /\ c.sol + back \in Nat
    BY <1>1, <1>5
  <2>. QED
    BY <1>4, <2>1 DEF ChainType
<1>7. /\ Refunded(c, amount).positions = c.positions
      /\ Refunded(c, amount).nextId = c.nextId
      /\ Refunded(c, amount).sol = c.sol + back
      /\ Refunded(c, amount).lamports = c.lamports - back
  BY <1>4 DEF ChainType
<1>. QED
  BY <1>5, <1>6, <1>7 DEF floor

(* The creation of a position.                                             *)
LEMMA InitEffect ==
  ASSUME NEW c \in ChainType, NEW tx \in Tx, tx.id \in Ids, NEW d \in InitResults(c, tx)
  PROVE  /\ d \in ChainType
         /\ HeldIn(d) = HeldIn(c) \cup {tx.id}
         /\ tx.id = c.nextId /\ d.nextId = c.nextId + 1
         /\ SameLoans(c, d) /\ SameDebts(c, d)
<1>1. d = [c EXCEPT !.positions[tx.id].held = TRUE, !.nextId = @ + 1] /\ tx.id = c.nextId
  BY DEF InitResults
<1>2. c.positions \in [Ids -> Position] /\ c.nextId + 1 \in Nat
  BY DEF ChainType
<1>3. PICK positions \in [Ids -> Position] :
        positions = [c.positions EXCEPT ![tx.id].held = TRUE]
  BY <1>2 DEF Position
<1>4. d = [c EXCEPT !.positions = positions, !.nextId = c.nextId + 1]
  BY <1>1, <1>3 DEF ChainType
<1>5. d \in ChainType /\ d.positions = positions /\ SameLoans(c, d) /\ d.nextId = c.nextId + 1
  BY <1>2, <1>4 DEF ChainType, SameLoans
<1>6. SameDebts(c, d) /\ HeldIn(d) = HeldIn(c) \cup {tx.id}
  BY <1>2, <1>3, <1>5 DEF Position, SameDebts, HeldIn
<1>. QED
  BY <1>1, <1>5, <1>6

(* The top-up.                                                             *)
LEMMA SetupEffect ==
  ASSUME NEW c \in ChainType, NEW tx \in Tx, NEW d \in SetupResults(c, tx)
  PROVE  /\ d \in ChainType
         /\ HeldIn(d) = HeldIn(c) /\ SameDebts(c, d) /\ d.nextId = c.nextId
         /\ d.sol = c.sol - tx.topUp /\ d.lamports = c.lamports + tx.topUp
<1>1. /\ d = [c EXCEPT !.sol = @ - tx.topUp, !.lamports = @ + tx.topUp]
      /\ tx.topUp \in 0 .. c.sol
  BY DEF SetupResults
<1>2. c.sol - tx.topUp \in Nat /\ c.lamports + tx.topUp \in Nat
  BY <1>1 DEF ChainType
<1>3. /\ d \in ChainType /\ d.positions = c.positions /\ d.nextId = c.nextId
      /\ d.sol = c.sol - tx.topUp /\ d.lamports = c.lamports + tx.topUp
  BY <1>1, <1>2 DEF ChainType
<1>. QED
  BY <1>3 DEF HeldIn, SameDebts

(* A kVault deposit or withdrawal.                                         *)
LEMMA KvaultEffect ==
  ASSUME NEW c \in ChainType, NEW tx \in Tx, NEW d \in KvaultResults(c, tx)
  PROVE  /\ d \in ChainType
         /\ HeldIn(d) = HeldIn(c) /\ SameDebts(c, d) /\ SameLoans(c, d)
         /\ d.nextId = c.nextId
<1>1. /\ d = [c EXCEPT !.usdc = @ - tx.col, !.shares = @ + tx.col]
      /\ c.usdc - tx.col >= 0 /\ c.shares + tx.col >= 0
  BY DEF KvaultResults
<1>2. tx.col \in Int /\ c.usdc \in Nat /\ c.shares \in Nat
  BY DEF ChainType, Tx
<1>3. c.usdc - tx.col \in Nat /\ c.shares + tx.col \in Nat
  BY <1>1, <1>2
<1>4. d \in ChainType /\ d.positions = c.positions /\ SameLoans(c, d) /\ d.nextId = c.nextId
  BY <1>1, <1>3 DEF ChainType, SameLoans
<1>. QED
  BY <1>4 DEF HeldIn, SameDebts

(* An operation on a position: its debt changes by what was asked for, up  *)
(* to one fine unit less, and what comes back is at most the refund.       *)
LEMMA OperateEffect ==
  ASSUME NEW c \in ChainType, NEW tx \in Tx, tx.id \in Ids, NEW quirk \in {0, 1},
         NEW d \in OperateResults(c, tx, quirk)
  PROVE  /\ d \in ChainType
         /\ HeldIn(d) = HeldIn(c) /\ d.nextId = c.nextId
         /\ d.positions[tx.id].debt = DebtAfter(c.positions[tx.id], tx, quirk)
         /\ \E back \in 0 .. tx.refund :
              /\ d.sol = c.sol + back
              /\ d.lamports <= c.lamports - back
              /\ \/ back = tx.refund
                 \/ d.lamports <= RentMinimum + VAULT_PDA_REFUND_RESERVE
<1>. DEFINE p == c.positions[tx.id]
            debt == DebtAfter(p, tx, quirk)
            col == ColAfter(p, tx)
<1>1. /\ debt >= 0 /\ col >= 0
      /\ c.col + p.col - col >= 0 /\ c.usdc + tx.debt >= 0
      /\ \E rent \in Rents :
           /\ c.lamports - rent >= RentMinimum
           /\ d = Refunded([c EXCEPT !.positions[tx.id].col = col,
                                     !.positions[tx.id].debt = debt,
                                     !.col = @ + p.col - col, !.usdc = @ + tx.debt,
                                     !.lamports = @ - rent], tx.refund)
  BY Zenon DEF OperateResults
<1>2. /\ c.positions \in [Ids -> Position] /\ p \in Position
      /\ c.col \in Nat /\ c.usdc \in Nat /\ c.lamports \in Nat
      /\ tx.col \in Int /\ tx.debt \in Int /\ tx.refund \in Nat
  BY DEF ChainType, Tx
<1>3. debt \in Nat /\ col \in Nat
  <2>1. debt \in Int
    BY <1>2, LendAssumption DEF DebtAfter, Position
  <2>2. col \in Int
    BY <1>2 DEF ColAfter, Position
  <2>. QED
    BY <1>1, <2>1, <2>2
<1>4. PICK rent \in Rents :
        /\ c.lamports - rent >= RentMinimum
        /\ d = Refunded([c EXCEPT !.positions[tx.id].col = col,
                                  !.positions[tx.id].debt = debt,
                                  !.col = @ + p.col - col, !.usdc = @ + tx.debt,
                                  !.lamports = @ - rent], tx.refund)
  BY <1>1
<1>5. PICK spent, left, usdc \in Nat :
        /\ spent = c.lamports - rent /\ spent <= c.lamports
        /\ left = c.col + p.col - col /\ usdc = c.usdc + tx.debt
  <2>1. rent \in Nat /\ RentMinimum \in Nat /\ p.col \in Nat
    BY <1>2, LendAssumption DEF Position
  <2>2. c.lamports - rent \in Nat /\ c.lamports - rent <= c.lamports
    BY <1>2, <1>4, <2>1
  <2>3. c.col + p.col - col \in Nat /\ c.usdc + tx.debt \in Nat
    BY <1>1, <1>2, <1>3, <2>1
  <2>. QED
    BY <2>2, <2>3
<1>. HIDE DEF debt, col
<1>6. PICK positions \in [Ids -> Position] :
        positions = [c.positions EXCEPT ![tx.id].col = col, ![tx.id].debt = debt]
  BY <1>2, <1>3 DEF Position
<1>7. PICK mid : mid = [c EXCEPT !.positions = positions, !.col = left, !.usdc = usdc,
                                 !.lamports = spent]
  OBVIOUS
<1>8. /\ mid \in ChainType /\ mid.positions = positions /\ mid.nextId = c.nextId
      /\ mid.lamports = spent /\ mid.sol = c.sol
  BY <1>7 DEF ChainType
<1>9. d = Refunded(mid, tx.refund)
  <2>1. mid = [c EXCEPT !.positions[tx.id].col = col, !.positions[tx.id].debt = debt,
                        !.col = @ + p.col - col, !.usdc = @ + tx.debt, !.lamports = @ - rent]
    BY <1>2, <1>5, <1>6, <1>7 DEF ChainType
  <2>. QED
    BY <1>4, <2>1
<1>10. /\ d \in ChainType /\ d.positions = positions /\ d.nextId = c.nextId
       /\ \E back \in 0 .. tx.refund :
            /\ d.sol = mid.sol + back /\ d.lamports = mid.lamports - back
            /\ \/ back = tx.refund
               \/ mid.lamports - back <= RentMinimum + VAULT_PDA_REFUND_RESERVE
  BY <1>2, <1>8, <1>9, RefundedEffect
<1>11. \E back \in 0 .. tx.refund :
         /\ d.sol = c.sol + back /\ d.lamports <= c.lamports - back
         /\ back = tx.refund \/ d.lamports <= RentMinimum + VAULT_PDA_REFUND_RESERVE
  BY <1>2, <1>5, <1>8, <1>10
<1>12. /\ positions[tx.id].debt = debt
       /\ \A i \in Ids : positions[i].held = c.positions[i].held
  BY <1>2, <1>6 DEF Position
<1>. QED
  BY <1>10, <1>11, <1>12 DEF HeldIn, debt

-----------------------------------------------------------------------------
(* All of it in one: what is known of the chain after a transaction.       *)
Effect(tx, c, d) ==
  /\ d \in ChainType
  /\ HeldIn(d) = IF tx.op = "init" THEN HeldIn(c) \cup {tx.id} ELSE HeldIn(c)
  /\ IF tx.op = "init" THEN tx.id = c.nextId /\ d.nextId = c.nextId + 1
                       ELSE d.nextId = c.nextId
  /\ tx.op # "operate" => SameDebts(c, d)
  /\ tx.op = "operate" =>
       \E quirk \in {0, 1} :
         d.positions[tx.id].debt = DebtAfter(c.positions[tx.id], tx, quirk)
  /\ tx.op \in {"init", "kvault"} => SameLoans(c, d)
  /\ tx.op = "setup" => d.sol = c.sol - tx.topUp /\ d.lamports = c.lamports + tx.topUp
  /\ tx.op = "operate" =>
       \E back \in 0 .. tx.refund :
         /\ d.sol = c.sol + back /\ d.lamports <= c.lamports - back
         /\ back = tx.refund \/ d.lamports <= RentMinimum + VAULT_PDA_REFUND_RESERVE

(* What a transaction may do to the chain, whatever it is.                 *)
LEMMA ResultsEffect ==
  ASSUME NEW c \in ChainType, NEW tx \in Tx, tx.op \in {"init", "operate"} => tx.id \in Ids,
         NEW d \in Results(c, tx)
  PROVE  Effect(tx, c, d)
<1>1. CASE tx.op = "init"
  <2>1. d \in InitResults(c, tx)
    BY <1>1 DEF Results
  <2>. QED
    BY <1>1, <2>1, InitEffect DEF Effect
<1>2. CASE tx.op = "setup"
  <2>1. d \in SetupResults(c, tx)
    BY <1>2 DEF Results
  <2>. QED
    BY <1>2, <2>1, SetupEffect DEF Effect
<1>3. CASE tx.op = "operate"
  <2>1. \E quirk \in {0, 1} : d \in OperateResults(c, tx, quirk)
    BY <1>3 DEF Results
  <2>. QED
    BY <1>3, <2>1, OperateEffect DEF Effect
<1>4. CASE tx.op = "kvault"
  <2>1. d \in KvaultResults(c, tx)
    BY <1>4 DEF Results
  <2>. QED
    BY <1>4, <2>1, KvaultEffect DEF Effect
<1>. QED
  BY <1>1, <1>2, <1>3, <1>4 DEF Tx
-----------------------------------------------------------------------------
(* Steps of a job after which the chain is as it was: the request is read, *)
(* planned, refused or answered.  What it was to give back it now leaves   *)
(* to nobody, and then it ends with an error or on the retry's margin.     *)

NothingOwed(b) == b.pc = "send" /\ Len(b.plan) = 1 => b.plan[1].refund = 0

Becomes(j, b) ==
  /\ b \in Job /\ JobSound(b) /\ NothingOwed(b)
  /\ NothingOwed(job[j]) \/ b.status = "error" \/ b.safety # 0
  /\ job[j].safety # 0 => b.safety # 0
  /\ Creates(b) => disturbed'[j] \/ Distant

Quiet(j) ==
  /\ job[j].pc # "done"
  /\ \E b \in Job : Becomes(j, b) /\ job' = [job EXCEPT ![j] = b]
  /\ disturbed' \in [Jobs -> BOOLEAN]
  /\ \A k \in Jobs \ {j} : disturbed'[k] = disturbed[k]
  /\ UNCHANGED <<chain, late, executed, raced, accruals>>

(* An answered job plans nothing.                                          *)
LEMMA AnswerSound ==
  ASSUME NEW b \in Job, b.safety \in {0, JUPITER_REPAY_SAFETY_MEDIUM},
         NEW status \in {"success", "error", "needs_whitelist"}
  PROVE  /\ Answer(b, status) \in Job /\ JobSound(Answer(b, status))
         /\ Answer(b, status).pc = "done" /\ Answer(b, status).status = status
         /\ Answer(b, status).plan = <<>> /\ Answer(b, status).safety = b.safety
         /\ Answer(b, status).id = b.id /\ Answer(b, status).request = b.request
<1>1. /\ Answer(b, status) \in Job
      /\ Answer(b, status).pc = "done" /\ Answer(b, status).status = status
      /\ Answer(b, status).plan = <<>> /\ Answer(b, status).safety = b.safety
      /\ Answer(b, status).id = b.id /\ Answer(b, status).request = b.request
  <2>1. PICK empty \in Seq(Tx) : empty = <<>>
    BY EmptySeq, Zenon
  <2>2. Answer(b, status) = [b EXCEPT !.pc = "done", !.status = status, !.plan = empty]
    BY <2>1 DEF Answer
  <2>. QED
    BY <2>1, <2>2 DEF Job
<1>2. JobSound(Answer(b, status))
  BY <1>1 DEF JobSound
<1>. QED
  BY <1>1, <1>2

(* A read, by a job that has nothing under way.                            *)
LEMMA ReadIsQuiet ==
  ASSUME LendInv, NEW j \in Jobs, job[j].pc \notin {"send", "done"},
         NEW b \in Job, JobSound(b), NothingOwed(b), b.safety = job[j].safety,
         Creates(b) => Distant, Read(j, b)
  PROVE  Quiet(j)
<1>1. /\ job' = [job EXCEPT ![j] = b]
      /\ disturbed' = [disturbed EXCEPT ![j] = FALSE]
      /\ UNCHANGED <<chain, late, executed, raced, accruals>>
  BY DEF Read
<1>2. disturbed \in [Jobs -> BOOLEAN]
  BY DEF LendInv, TypeOK
<1>3. Becomes(j, b)
  BY DEF Becomes, NothingOwed
<1>. QED
  BY <1>1, <1>2, <1>3 DEF Quiet

(* An answer before the first transaction changes nothing on the chain.    *)
LEMMA AnswerIsQuiet ==
  ASSUME LendInv, NEW j \in Jobs, job[j].pc \notin {"send", "done"},
         NEW status \in {"success", "error", "needs_whitelist"},
         Read(j, Answer(job[j], status))
  PROVE  Quiet(j)
<1>1. job[j] \in Job /\ job[j].safety \in {0, JUPITER_REPAY_SAFETY_MEDIUM}
  BY DEF LendInv, TypeOK, JobsSound, JobSound
<1>2. PICK b : b = Answer(job[j], status)
  OBVIOUS
<1>3. b \in Job /\ JobSound(b) /\ b.pc = "done" /\ b.safety = job[j].safety
  BY <1>1, <1>2, AnswerSound
<1>. QED
  BY <1>2, <1>3, ReadIsQuiet DEF NothingOwed, Creates

(* Each step before the first transaction is quiet: taking the request,    *)
LEMMA ServeIsQuiet ==
  ASSUME LendInv, NEW j \in Jobs, Serve(j)
  PROVE  Quiet(j)
<1>1. PICK r \in Requests :
        job' = [job EXCEPT ![j] =
                  IF Accepted(r) THEN [@ EXCEPT !.request = r, !.pc = "read"]
                  ELSE Answer([@ EXCEPT !.request = r, !.pc = "read"], "error")]
  BY DEF Serve
<1>2. job[j] \in Job /\ JobSound(job[j]) /\ job[j].pc = "idle" /\ job \in [Jobs -> Job]
  BY DEF LendInv, TypeOK, JobsSound, Serve
<1>3. PICK asked : asked = [job[j] EXCEPT !.request = r, !.pc = "read"]
  OBVIOUS
<1>4. /\ asked \in Job /\ asked.pc = "read" /\ asked.safety = job[j].safety
      /\ asked.plan = job[j].plan /\ asked.status = job[j].status
  BY <1>2, <1>3, RequestAssumption DEF Job
<1>5. JobSound(asked)
  BY <1>2, <1>4 DEF JobSound
<1>6. PICK b \in {asked, Answer(asked, "error")} : job' = [job EXCEPT ![j] = b]
  BY <1>1, <1>2, <1>3
<1>7. /\ b \in Job /\ JobSound(b) /\ b.pc \in {"read", "done"}
      /\ b.safety = job[j].safety
  BY <1>4, <1>5, <1>6, AnswerSound DEF JobSound
<1>8. Becomes(j, b)
  BY <1>2, <1>7 DEF Becomes, NothingOwed, Creates
<1>. QED
  BY <1>2, <1>6, <1>7, <1>8 DEF Quiet, Serve, LendInv, TypeOK

(* reading the Safe,                                                       *)
LEMMA ReadSafeIsQuiet ==
  ASSUME LendInv, NEW j \in Jobs, ReadSafe(j)
  PROVE  Quiet(j)
<1>1. job[j] \in Job /\ JobSound(job[j]) /\ job[j].pc = "read"
      /\ job[j].request \in Request
  BY DEF LendInv, TypeOK, JobsSound, ReadSafe, Job
<1>2. ASSUME NEW b, b = [job[j] EXCEPT !.pc = "send", !.plan = <<KvaultTx(job[j].request)>>],
             Program(job[j].request.kind) = "kvault", Read(j, b)
      PROVE  Quiet(j)
  <2>1. PICK tx \in Tx : tx = KvaultTx(job[j].request) /\ tx.op = "kvault" /\ tx.refund = 0
    <3>1. job[j].request.amount \in Nat /\ -job[j].request.amount \in Int
      BY <1>1 DEF Request
    <3>2. PICK col \in Int :
            col = IF job[j].request.kind = "kvault_deposit" THEN job[j].request.amount
                                                            ELSE -job[j].request.amount
      BY <3>1
    <3>3. KvaultTx(job[j].request)
            = [op |-> "kvault", id |-> NoPosition, debt |-> 0, all |-> FALSE, topUp |-> 0,
               refund |-> 0, col |-> col]
      BY <3>2 DEF KvaultTx
    <3>4. KvaultTx(job[j].request) \in Tx
      BY <3>3 DEF Tx
    <3>. QED
      BY <3>3, <3>4
  <2>2. <<tx>> \in Seq(Tx) /\ Len(<<tx>>) = 1 /\ <<tx>>[1] = tx
    OBVIOUS
  <2>3. /\ b \in Job /\ b.pc = "send" /\ b.plan = <<tx>> /\ b.safety = job[j].safety
        /\ b.status = job[j].status /\ b.request = job[j].request
    BY <1>1, <1>2, <2>1, <2>2 DEF Job
  <2>4. job[j].request.kind # "repay"
    BY <1>2 DEF Program
  <2>5. JobSound(b)
    BY <1>1, <2>1, <2>2, <2>3, <2>4 DEF JobSound, KvaultPlan
  <2>6. NothingOwed(b) /\ ~Creates(b)
    BY <2>1, <2>2, <2>3 DEF NothingOwed, Creates, InitPlan
  <2>. QED
    BY <1>1, <1>2, <2>3, <2>5, <2>6, ReadIsQuiet
<1>3. ASSUME NEW b, b = [job[j] EXCEPT
                           !.pc = IF job[j].request.position = NoPosition THEN "find" ELSE "build",
                           !.id = job[j].request.position],
             Read(j, b)
      PROVE  Quiet(j)
  <2>1. job[j].request.position \in {NoPosition} \cup Ids
    BY <1>1 DEF Request
  <2>2. /\ b \in Job /\ b.pc \in {"find", "build"} /\ (b.pc = "build" => b.id \in Ids)
        /\ b.plan = job[j].plan /\ b.safety = job[j].safety /\ b.status = job[j].status
    <3>1. PICK pc \in {"find", "build"}, id \in {NoPosition} \cup Nat :
            /\ pc = IF job[j].request.position = NoPosition THEN "find" ELSE "build"
            /\ id = job[j].request.position
            /\ pc = "build" => id \in Ids
      BY <2>1 DEF Ids
    <3>2. b = [job[j] EXCEPT !.pc = pc, !.id = id]
      BY <1>3, <3>1
    <3>. QED
      BY <1>1, <3>1, <3>2 DEF Job
  <2>3. JobSound(b)
    BY <1>1, <2>2 DEF JobSound
  <2>. QED
    BY <1>1, <1>3, <2>2, <2>3, ReadIsQuiet DEF NothingOwed, Creates
<1>4. ASSUME NEW status \in {"error", "needs_whitelist"}, Read(j, Answer(job[j], status))
      PROVE  Quiet(j)
  BY <1>1, <1>4, AnswerIsQuiet
<1>. QED
  BY <1>2, <1>3, <1>4 DEF ReadSafe

SmallestIn(A, S, x) == \A y \in S : A[y] \subseteq A[x] => A[y] = A[x]

(* Of finitely many subsets, one holds none of the others properly.        *)
LEMMA SmallestOfFamily ==
  ASSUME NEW S, IsFiniteSet(S), S # {}, NEW A \in [S -> SUBSET S]
  PROVE  \E x \in S : SmallestIn(A, S, x)
<1>. DEFINE Bad == {T \in SUBSET S : \E x \in S : T = A[x]}
<1>1. Bad # {}
  OBVIOUS
<1>2. PICK T \in Bad : \A U \in Bad : U \subseteq T => U = T
  <2>1. Bad \subseteq SUBSET S
    OBVIOUS
  <2>. HIDE DEF Bad
  <2>. QED
    BY <1>1, <2>1, SmallestSubset
<1>3. PICK x \in S : T = A[x]
  OBVIOUS
<1>4. \A y \in S : A[y] \in Bad
  OBVIOUS
<1>. QED
  BY <1>2, <1>3, <1>4 DEF SmallestIn

(* A finite set of integers has a largest member.                          *)
LEMMA LargestMember ==
  ASSUME NEW S, IsFiniteSet(S), S \subseteq Int, S # {}
  PROVE  Max(S) \in S /\ \A y \in S : Max(S) >= y
<1>1. PICK A : A = [x \in S |-> {y \in S : y >= x}]
  OBVIOUS
<1>2. A \in [S -> SUBSET S]
  BY <1>1
<1>3. PICK x \in S : SmallestIn(A, S, x)
  BY <1>2, SmallestOfFamily
<1>4. ASSUME NEW y \in S, y > x PROVE FALSE
  <2>1. \A z \in S : z >= y => z >= x
    BY <1>4
  <2>2. A[y] \subseteq A[x]
    BY <1>1, <2>1
  <2>3. x \in A[x] /\ x \notin A[y]
    BY <1>1, <1>4
  <2>. QED
    BY <1>3, <2>2, <2>3 DEF SmallestIn
<1>5. \A y \in S : x >= y
  BY <1>4
<1>. QED
  BY <1>5 DEF Max

(* The scan finds a position of the Safe exactly if there is one.          *)
LEMMA NewestIsHeld ==
  ASSUME chain.nextId \in Nat, HeldBelow
  PROVE  NewestHeld \in {NoPosition} \cup Held /\ (NewestHeld = NoPosition => Distant)
<1>1. Ids \subseteq Int /\ IsFiniteSet(Ids) /\ \A i \in Ids : i > NoPosition
  BY LendAssumption, FS_Interval DEF Ids, NoPosition
<1>2. Scanned \subseteq Held /\ Held \subseteq Ids
  BY DEF Held, Scanned
<1>3. PICK S : S = {NoPosition} \cup Scanned
  OBVIOUS
<1>4. IsFiniteSet(Scanned)
  BY <1>1, <1>2, FS_Subset, Zenon
<1>5. IsFiniteSet(S)
  <2>1. S = Scanned \cup {NoPosition}
    BY <1>3
  <2>. QED
    BY <1>4, <2>1, FS_AddElement
<1>6. S \subseteq Int /\ S # {} /\ NoPosition \in S
  BY <1>1, <1>2, <1>3 DEF NoPosition
<1>7. PICK m : m = Max(S)
  OBVIOUS
<1>8. m \in S /\ \A y \in S : m >= y
  BY <1>5, <1>6, <1>7, LargestMember, Zenon
<1>9. NewestHeld = m
  BY <1>3, <1>7 DEF NewestHeld
<1>10. ASSUME m = NoPosition PROVE Distant
  <2>1. Scanned = {}
    BY <1>1, <1>2, <1>3, <1>8, <1>10 DEF NoPosition, Ids
  <2>2. ASSUME NEW i \in Held PROVE chain.nextId - i > DEFAULT_POSITION_SCAN_DEPTH
    <3>1. i \in Int /\ i < chain.nextId
      BY <1>1, <1>2 DEF HeldBelow
    <3>2. chain.nextId - i \notin 1 .. DEFAULT_POSITION_SCAN_DEPTH
      BY <2>1 DEF Scanned
    <3>. QED
      BY <3>1, <3>2, LendAssumption
  <2>. QED
    BY <2>2 DEF Distant
<1>. QED
  BY <1>2, <1>3, <1>8, <1>9, <1>10

(* looking for the newest position,                                        *)
LEMMA FindIsQuiet ==
  ASSUME LendInv, NEW j \in Jobs, Find(j)
  PROVE  Quiet(j)
<1>1. /\ job[j] \in Job /\ JobSound(job[j]) /\ job[j].pc = "find"
      /\ chain.nextId \in Nat /\ HeldBelow
  BY DEF LendInv, TypeOK, JobsSound, CreationInv, Find
<1>2. Held \subseteq Ids /\ Ids \subseteq Nat
  BY DEF Held, Ids
<1>3. ASSUME NewestHeld # NoPosition, Read(j, [job[j] EXCEPT !.pc = "build", !.id = NewestHeld])
      PROVE  Quiet(j)
  <2>1. PICK i \in Ids : i = NewestHeld
    BY <1>1, <1>2, <1>3, NewestIsHeld
  <2>2. PICK b : b = [job[j] EXCEPT !.pc = "build", !.id = i]
    OBVIOUS
  <2>3. /\ b \in Job /\ b.pc = "build" /\ b.id \in Ids
        /\ b.plan = job[j].plan /\ b.safety = job[j].safety /\ b.status = job[j].status
    BY <1>1, <1>2, <2>2 DEF Job
  <2>4. JobSound(b) /\ NothingOwed(b) /\ ~Creates(b)
    BY <1>1, <2>3 DEF JobSound, NothingOwed, Creates
  <2>. QED
    BY <1>1, <1>3, <2>1, <2>2, <2>3, <2>4, ReadIsQuiet
<1>4. ASSUME NewestHeld = NoPosition, job[j].request.kind = "deposit",
             Read(j, [job[j] EXCEPT !.pc = "setup"])
      PROVE  Quiet(j)
  <2>1. PICK b : b = [job[j] EXCEPT !.pc = "setup"]
    OBVIOUS
  <2>2. /\ b \in Job /\ b.pc = "setup" /\ b.request = job[j].request
        /\ b.plan = job[j].plan /\ b.safety = job[j].safety /\ b.status = job[j].status
    BY <1>1, <2>1 DEF Job
  <2>3. JobSound(b) /\ NothingOwed(b)
    BY <1>1, <1>4, <2>2 DEF JobSound, NothingOwed
  <2>. QED
    BY <1>1, <1>4, <2>1, <2>2, <2>3, ReadIsQuiet, NewestIsHeld
<1>5. ASSUME Read(j, Answer(job[j], "error")) PROVE Quiet(j)
  BY <1>1, <1>5, AnswerIsQuiet
<1>. QED
  BY <1>3, <1>4, <1>5 DEF Find

(* planning the creation of one,                                           *)
LEMMA SetUpIsQuiet ==
  ASSUME LendInv, NEW j \in Jobs, SetUp(j)
  PROVE  Quiet(j)
<1>1. /\ job \in [Jobs -> Job] /\ job[j] \in Job /\ JobSound(job[j]) /\ job[j].pc = "setup"
      /\ disturbed \in [Jobs -> BOOLEAN]
      /\ disturbed[j] \/ Distant
      /\ UNCHANGED <<chain, late, executed, disturbed, raced, accruals>>
  BY DEF LendInv, TypeOK, JobsSound, SetUp, CreationInv, Creates
<1>2. CASE /\ chain.nextId \in Ids
           /\ job' = [job EXCEPT ![j].pc = "send", ![j].id = chain.nextId,
                        ![j].plan = <<[op |-> "init", id |-> chain.nextId, col |-> 0, debt |-> 0,
                                       all |-> FALSE, topUp |-> 0, refund |-> 0]>>]
  <2>1. PICK i \in Ids : i = chain.nextId
    BY <1>2
  <2>2. i \in Nat
    BY DEF Ids
  <2>3. PICK tx \in Tx :
          tx = [op |-> "init", id |-> i, col |-> 0, debt |-> 0, all |-> FALSE,
                topUp |-> 0, refund |-> 0]
    <3>1. [op |-> "init", id |-> i, col |-> 0, debt |-> 0, all |-> FALSE,
           topUp |-> 0, refund |-> 0] \in Tx
      BY DEF Tx
    <3>. QED
      BY <3>1, Zenon
  <2>4. PICK plan \in Seq(Tx) : plan = <<tx>> /\ Len(plan) = 1 /\ plan[1] = tx
    <3>1. <<tx>> \in Seq(Tx) /\ Len(<<tx>>) = 1 /\ <<tx>>[1] = tx
      OBVIOUS
    <3>. QED
      BY <3>1, Zenon
  <2>5. PICK b : b = [job[j] EXCEPT !.pc = "send", !.id = i, !.plan = plan]
    OBVIOUS
  <2>6. job' = [job EXCEPT ![j] = b]
    BY <1>1, <1>2, <2>1, <2>3, <2>4, <2>5
  <2>7. /\ b \in Job /\ b.pc = "send" /\ b.plan = plan /\ b.request = job[j].request
        /\ b.safety = job[j].safety /\ b.status = job[j].status /\ b.id = i
    BY <1>1, <2>2, <2>5 DEF Job
  <2>8. JobSound(b) /\ NothingOwed(b)
    BY <1>1, <2>3, <2>4, <2>7 DEF JobSound, InitPlan, NothingOwed
  <2>9. Becomes(j, b)
    BY <1>1, <2>7, <2>8 DEF Becomes, NothingOwed
  <2>. QED
    BY <1>1, <2>6, <2>7, <2>9 DEF Quiet
<1>3. CASE job' = [job EXCEPT ![j] = Answer(@, "error")]
  <2>1. PICK b : b = Answer(job[j], "error")
    OBVIOUS
  <2>2. b \in Job /\ JobSound(b) /\ b.pc = "done" /\ b.safety = job[j].safety
    BY <1>1, <2>1, AnswerSound DEF JobSound
  <2>3. Becomes(j, b)
    BY <1>1, <2>2 DEF Becomes, NothingOwed, Creates
  <2>4. job' = [job EXCEPT ![j] = b]
    BY <1>1, <1>3, <2>1
  <2>. QED
    BY <1>1, <2>2, <2>3, <2>4 DEF Quiet
<1>. QED
  BY <1>2, <1>3 DEF SetUp

(* The plan that Build makes of an operation on the job's position.        *)
LEMMA PlanTopUpType ==
  ASSUME chain.lamports \in Nat, chain.sol \in Nat, NEW needsRent \in BOOLEAN
  PROVE  PlanTopUp(needsRent) \in Nat
<1>1. PICK short, spare \in Int :
        /\ short = VAULT_PDA_LAMPORT_BUFFER - chain.lamports
        /\ spare = chain.sol - AUTHORITY_FEE_RESERVE
  <2>1. /\ VAULT_PDA_LAMPORT_BUFFER - chain.lamports \in Int
        /\ chain.sol - AUTHORITY_FEE_RESERVE \in Int
    BY LendAssumption
  <2>. QED
    BY <2>1
<1>2. PICK a, b \in Nat : a = Max({0, short}) /\ b = Max({0, spare})
  BY MaxWithZero
<1>3. Min({a, b}) \in Nat
  BY MinOfTwo
<1>4. PlanTopUp(needsRent) = IF needsRent THEN Min({a, b}) ELSE 0
  BY <1>1, <1>2 DEF PlanTopUp
<1>. QED
  BY <1>3, <1>4

OperationOn(i, op) ==
  op \in Tx /\ op.op = "operate" /\ op.id = i /\ op.refund = 0

Planned(b, op, needsRent) == [b EXCEPT !.pc = "send", !.plan = WithTopUp(op, needsRent)]

(* A plan of one operation, topped up or not, is of the shape the invariant*)
(* knows, and owes nothing yet.                                            *)
LEMMA PlannedIsSound ==
  ASSUME NEW b \in Job, JobSound(b), b.pc = "build", NEW op, OperationOn(b.id, op),
         chain.lamports \in Nat, chain.sol \in Nat, NEW needsRent \in BOOLEAN,
         NEW d, d = Planned(b, op, needsRent)
  PROVE  /\ d \in Job /\ JobSound(d) /\ NothingOwed(d) /\ d.safety = b.safety /\ d.pc = "send"
         /\ ~InitPlan(d) /\ d.request = b.request /\ d.id = b.id
<1>1. op \in Tx /\ op.op = "operate" /\ op.id = b.id /\ op.refund = 0 /\ b.id \in Ids
  BY DEF OperationOn, JobSound
<1>2. CASE ~needsRent
  <2>1. WithTopUp(op, needsRent) = <<op>>
    BY <1>2 DEF WithTopUp
  <2>2. <<op>> \in Seq(Tx) /\ Len(<<op>>) = 1 /\ <<op>>[1] = op
    BY <1>1
  <2>3. /\ d \in Job /\ d.pc = "send" /\ d.plan = <<op>> /\ d.safety = b.safety
        /\ d.status = b.status /\ d.request = b.request /\ d.id = b.id
    BY <2>1, <2>2 DEF Job, Planned
  <2>4. LastPlan(d) /\ ~InitPlan(d) /\ NothingOwed(d)
    BY <1>1, <2>2, <2>3 DEF LastPlan, OperateNext, InitPlan, NothingOwed
  <2>. QED
    BY <2>3, <2>4 DEF JobSound
<1>3. CASE needsRent
  <2>1. PICK topUp \in Nat : topUp = PlanTopUp(needsRent)
    BY PlanTopUpType
  <2>2. PICK setup \in Tx :
          /\ setup = [Operate(op.id, 0, 0) EXCEPT !.op = "setup", !.topUp = topUp]
          /\ setup.op = "setup" /\ setup.topUp = topUp /\ setup.refund = 0
    <3>1. PICK s : s = [Operate(op.id, 0, 0) EXCEPT !.op = "setup", !.topUp = topUp]
      OBVIOUS
    <3>2. s = [op |-> "setup", id |-> op.id, col |-> 0, debt |-> 0, all |-> FALSE,
               topUp |-> topUp, refund |-> 0]
      BY <3>1 DEF Operate
    <3>3. s \in Tx /\ s.op = "setup" /\ s.topUp = topUp /\ s.refund = 0
      BY <1>1, <3>2 DEF Tx
    <3>. QED
      BY <3>1, <3>3
  <2>3. PICK last \in Tx :
          /\ last = [op EXCEPT !.refund = topUp]
          /\ last.op = "operate" /\ last.id = op.id /\ last.refund = topUp
    <3>1. PICK l : l = [op EXCEPT !.refund = topUp]
      OBVIOUS
    <3>2. l \in Tx /\ l.op = "operate" /\ l.id = op.id /\ l.refund = topUp
      BY <1>1, <3>1 DEF Tx
    <3>. QED
      BY <3>1, <3>2
  <2>4. WithTopUp(op, needsRent) = <<setup, last>>
    BY <1>3, <2>1, <2>2, <2>3 DEF WithTopUp
  <2>5. PICK plan \in Seq(Tx) :
          plan = <<setup, last>> /\ Len(plan) = 2 /\ plan[1] = setup /\ plan[2] = last
    <3>1. /\ <<setup, last>> \in Seq(Tx) /\ Len(<<setup, last>>) = 2
          /\ <<setup, last>>[1] = setup /\ <<setup, last>>[2] = last
      OBVIOUS
    <3>. QED
      BY <3>1, Zenon
  <2>6. d = [b EXCEPT !.pc = "send", !.plan = plan]
    BY <2>4, <2>5 DEF Planned
  <2>7. /\ d \in Job /\ d.pc = "send" /\ d.plan = plan /\ d.safety = b.safety
        /\ d.status = b.status /\ d.request = b.request /\ d.id = b.id
    BY <2>6 DEF Job
  <2>8. ToppedUpPlan(d) /\ ~InitPlan(d) /\ NothingOwed(d)
    <3>1. Len(d.plan) = 2 /\ d.plan[1] = setup /\ d.plan[2] = last
      BY <2>5, <2>7
    <3>2. d.plan[1].op = "setup" /\ d.plan[1].refund = 0 /\ d.plan[1].topUp = d.plan[2].refund
      BY <2>2, <2>3, <3>1
    <3>3. OperateNext(d, 2)
      BY <1>1, <2>3, <2>7, <3>1 DEF OperateNext
    <3>. QED
      BY <3>1, <3>2, <3>3 DEF ToppedUpPlan, InitPlan, NothingOwed
  <2>. QED
    BY <2>7, <2>8 DEF JobSound
<1>. QED
  BY <1>2, <1>3

(* planning any set of alternative operations on the position found,       *)
LEMMA BuildIsQuiet ==
  ASSUME LendInv, NEW j \in Jobs, NEW ops, \A op \in ops : OperationOn(job[j].id, op),
         Build(j, ops)
  PROVE  Quiet(j)
<1>1. /\ job[j] \in Job /\ JobSound(job[j]) /\ job[j].pc = "build"
      /\ chain.lamports \in Nat /\ chain.sol \in Nat
  BY DEF LendInv, TypeOK, JobsSound, Build
<1>2. ASSUME NEW op \in ops, NEW needsRent \in BOOLEAN,
             Read(j, [job[j] EXCEPT !.pc = "send", !.plan = WithTopUp(op, needsRent)])
      PROVE  Quiet(j)
  <2>1. PICK d : d = Planned(job[j], op, needsRent)
    OBVIOUS
  <2>2. OperationOn(job[j].id, op)
    OBVIOUS
  <2>3. /\ d \in Job /\ JobSound(d) /\ NothingOwed(d) /\ d.safety = job[j].safety
        /\ d.pc = "send" /\ ~InitPlan(d)
    BY <1>1, <2>1, <2>2, PlannedIsSound
  <2>. QED
    BY <1>1, <1>2, <2>1, <2>3, ReadIsQuiet DEF Creates, Planned
<1>3. ASSUME Read(j, Answer(job[j], "error")) PROVE Quiet(j)
  BY <1>1, <1>3, AnswerIsQuiet
<1>. QED
  BY <1>2, <1>3 DEF Build

(* An operation is a transaction.                                          *)
LEMMA OperateType ==
  ASSUME NEW i \in Ids, NEW col \in Int, NEW debt \in Int
  PROVE  /\ OperationOn(i, Operate(i, col, debt))
         /\ Operate(i, col, debt).debt = debt /\ ~Operate(i, col, debt).all
BY DEF Operate, OperationOn, Tx

(* and so those of a deposit,                                              *)
LEMMA BuildDepositIsQuiet ==
  ASSUME LendInv, NEW j \in Jobs, BuildDeposit(j)
  PROVE  Quiet(j)
<1>. DEFINE r == job[j].request
            amounts == {Clamped(r.amount), r.amount} \ {0}
            ops == {Operate(job[j].id, amount, 0) : amount \in amounts}
<1>1. /\ job[j].id \in Ids /\ r.amount \in Nat /\ chain.col \in Nat
  BY DEF LendInv, TypeOK, JobsSound, JobSound, BuildDeposit, Build, Job, Request
<1>2. Clamped(r.amount) \in Int
  <2>1. PICK spare \in Nat : spare = Max({0, chain.col - 1})
    BY <1>1, MaxWithZero
  <2>2. Min({r.amount, spare}) \in Int
    BY <1>1, MinOfTwo
  <2>. QED
    BY <2>1, <2>2 DEF Clamped
<1>3. amounts \subseteq Int
  BY <1>1, <1>2
<1>4. Build(j, ops)
  BY DEF BuildDeposit
<1>. HIDE DEF amounts
<1>5. \A op \in ops : OperationOn(job[j].id, op)
  BY <1>1, <1>3, OperateType
<1>. HIDE DEF ops
<1>. QED
  BY <1>4, <1>5, BuildIsQuiet

(* a withdrawal,                                                           *)
LEMMA BuildWithdrawIsQuiet ==
  ASSUME LendInv, NEW j \in Jobs, BuildWithdraw(j)
  PROVE  Quiet(j)
<1>. DEFINE p == chain.positions[job[j].id]
            part == p.col - Kept(p)
            cols == {c \in {part} : p.debt > 0 /\ c > 0}
            ops == {WithdrawAll(job[j].id)} \cup {Operate(job[j].id, -col, 0) : col \in cols}
<1>1. job[j].id \in Ids /\ p \in Position
  BY DEF LendInv, TypeOK, JobsSound, JobSound, BuildWithdraw, Job
<1>2. Kept(p) \in Int
  <2>1. \A d \in {DustBuffer, DebtBuffer} : p.col \div d \in Int
    BY <1>1, LendAssumption DEF Position
  <2>. QED
    BY <2>1 DEF Kept
<1>3. cols \subseteq Int
  BY <1>1, <1>2 DEF Position
<1>4. Build(j, ops)
  BY Zenon DEF BuildWithdraw
<1>5. OperationOn(job[j].id, WithdrawAll(job[j].id))
  <2>1. PICK op : op = Operate(job[j].id, 0, 0)
    OBVIOUS
  <2>2. OperationOn(job[j].id, op)
    BY <1>1, <2>1, OperateType
  <2>3. OperationOn(job[j].id, [op EXCEPT !.all = TRUE])
    BY <2>2 DEF OperationOn, Tx
  <2>. QED
    BY <2>1, <2>3 DEF WithdrawAll
<1>. HIDE DEF cols
<1>6. \A col \in cols : OperationOn(job[j].id, Operate(job[j].id, -col, 0))
  <2>1. \A col \in cols : -col \in Int
    BY <1>3
  <2>. QED
    BY <1>1, <2>1, OperateType
<1>7. \A op \in ops : OperationOn(job[j].id, op)
  BY <1>5, <1>6
<1>. HIDE DEF ops
<1>. QED
  BY <1>4, <1>7, BuildIsQuiet

(* a loan                                                                  *)
LEMMA BuildBorrowIsQuiet ==
  ASSUME LendInv, NEW j \in Jobs, BuildBorrow(j)
  PROVE  Quiet(j)
<1>1. job[j].id \in Ids /\ job[j].request.amount \in Int
  <2>1. job[j] \in Job /\ JobSound(job[j]) /\ job[j].pc = "build"
    BY DEF LendInv, TypeOK, JobsSound, BuildBorrow, Build
  <2>. QED
    BY <2>1 DEF JobSound, Job, Request
<1>2. OperationOn(job[j].id, Operate(job[j].id, 0, job[j].request.amount))
  BY <1>1, OperateType
<1>. QED
  BY <1>2, BuildIsQuiet DEF BuildBorrow

(* The debt in whole units is the fine one rounded down.                   *)
LEMMA UserDebtType ==
  ASSUME NEW i \in Ids, chain \in ChainType
  PROVE  /\ UserDebt(i) \in Nat
         /\ chain.positions[i].debt \in UserDebt(i) * SCALE .. UserDebt(i) * SCALE + SCALE - 1
<1>1. PICK d \in Nat : d = chain.positions[i].debt
  BY DEF ChainType, Position
<1>2. d \div SCALE \in Nat /\ d \in (d \div SCALE) * SCALE .. (d \div SCALE) * SCALE + SCALE - 1
  BY LendAssumption
<1>. QED
  BY <1>1, <1>2 DEF UserDebt

(* and a repayment.                                                        *)
LEMMA BuildRepayIsQuiet ==
  ASSUME LendInv, NEW j \in Jobs, BuildRepay(j)
  PROVE  Quiet(j)
<1>1. /\ job[j] \in Job /\ job[j].pc = "build" /\ job[j].id \in Ids
      /\ job[j].request.amount \in Nat /\ job[j].safety \in Nat
  BY DEF LendInv, TypeOK, JobsSound, JobSound, BuildRepay, Job, Request
<1>2. UserDebt(job[j].id) \in Nat
  BY <1>1, UserDebtType DEF LendInv, TypeOK, ChainType
<1>3. PICK debt, margin \in Nat : debt = UserDebt(job[j].id) /\ margin = Safety(debt, job[j].safety)
  <2>1. Safety(UserDebt(job[j].id), job[j].safety) \in Nat
    BY <1>1, LendAssumption DEF Safety
  <2>. QED
    BY <1>2, <2>1
<1>4. ASSUME Build(j, {Operate(job[j].id, 0, margin - debt)}) PROVE Quiet(j)
  <2>1. OperationOn(job[j].id, Operate(job[j].id, 0, margin - debt))
    BY <1>1, OperateType
  <2>. QED
    BY <1>4, <2>1, BuildIsQuiet
<1>5. ASSUME Build(j, {Operate(job[j].id, 0, -job[j].request.amount)}) PROVE Quiet(j)
  <2>1. OperationOn(job[j].id, Operate(job[j].id, 0, -job[j].request.amount))
    BY <1>1, OperateType
  <2>. QED
    BY <1>5, <2>1, BuildIsQuiet
<1>6. ASSUME Read(j, Answer(job[j], "success")) PROVE Quiet(j)
  BY <1>1, <1>6, AnswerIsQuiet
<1>. QED
  BY <1>3, <1>4, <1>5, <1>6 DEF BuildRepay

(* A refusal: an answer, or once the same repayment with a larger margin.  *)
LEMMA RefusedIsQuiet ==
  ASSUME LendInv, NEW j \in Jobs, SendRefused(j)
  PROVE  Quiet(j)
<1>1. /\ job \in [Jobs -> Job] /\ job[j] \in Job /\ JobSound(job[j]) /\ job[j].pc = "send"
      /\ disturbed \in [Jobs -> BOOLEAN]
      /\ UNCHANGED <<chain, late, executed, disturbed, raced, accruals>>
  BY DEF LendInv, TypeOK, JobsSound, SendRefused, NothingExecutes
<1>2. JUPITER_REPAY_SAFETY_MEDIUM \in Nat \ {0}
  BY LendAssumption
<1>3. ASSUME NEW status \in {"success", "error"}, status = "error" \/ job[j].safety # 0,
             job' = [job EXCEPT ![j] = Answer(job[j], status)]
      PROVE  Quiet(j)
  <2>1. PICK b : b = Answer(job[j], status)
    OBVIOUS
  <2>2. /\ b \in Job /\ JobSound(b) /\ b.pc = "done" /\ b.safety = job[j].safety
        /\ b.status = status
    BY <1>1, <1>3, <2>1, AnswerSound DEF JobSound
  <2>3. Becomes(j, b)
    BY <1>3, <2>2 DEF Becomes, NothingOwed, Creates
  <2>. QED
    BY <1>1, <1>3, <2>1, <2>2, <2>3 DEF Quiet
<1>4. ASSUME NEW quirk \in {0, 1}, TooLow(chain, Head(job[j].plan), quirk),
             job' = [job EXCEPT ![j] = [job[j] EXCEPT !.pc = "build", !.plan = <<>>,
                                          !.safety = JUPITER_REPAY_SAFETY_MEDIUM]]
      PROVE  Quiet(j)
  <2>1. PICK empty \in Seq(Tx) : empty = <<>>
    BY EmptySeq, Zenon
  <2>2. PICK b : b = [job[j] EXCEPT !.pc = "build", !.plan = empty,
                                    !.safety = JUPITER_REPAY_SAFETY_MEDIUM]
    OBVIOUS
  <2>3. job[j].id \in Ids
    <3>1. job[j].plan[1].op = "operate"
      BY <1>1, <1>4 DEF TooLow, Job
    <3>. QED
      BY <1>1, <3>1 DEF JobSound, KvaultPlan, InitPlan, LastPlan, ToppedUpPlan, OperateNext
  <2>4. /\ b \in Job /\ b.pc = "build" /\ b.plan = <<>> /\ b.status = job[j].status
        /\ b.safety = JUPITER_REPAY_SAFETY_MEDIUM /\ b.id = job[j].id
    BY <1>1, <1>2, <2>1, <2>2 DEF Job
  <2>5. JobSound(b)
    BY <1>1, <2>3, <2>4 DEF JobSound
  <2>6. Becomes(j, b)
    BY <1>2, <2>4, <2>5 DEF Becomes, NothingOwed, Creates
  <2>. QED
    BY <1>1, <1>4, <2>1, <2>2, <2>4, <2>6 DEF Quiet
<1>. QED
  BY <1>3, <1>4 DEF SendRefused, Tell, Refusal

-----------------------------------------------------------------------------
(* What a job owes. *)

(* What a job owes is what its last planned transaction gives back, what   *)
(* the one it lost does, or nothing.                                       *)
LEMMA OwesPlanned ==
  ASSUME NEW b, b.pc = "send", Len(b.plan) = 1, NEW j, NEW L
  PROVE  Owes(b, j, L) = b.plan[1].refund
BY DEF Owes

(* A job that has no refund left to send and lost none owes nothing,       *)
LEMMA OwesNothing ==
  ASSUME NEW b, b.pc # "send" \/ Len(b.plan) # 1, NEW j, NEW L, \A l \in L : l[1] # j
  PROVE  Owes(b, j, L) = 0
BY DEF Owes

(* and one that lost its refund owes that one.                             *)
LEMMA OwesLost ==
  ASSUME NEW b, b.pc # "send" \/ Len(b.plan) # 1, NEW j, NEW L, NEW l \in L, l[1] = j,
         \A k \in L : k[1] = j => k = l
  PROVE  Owes(b, j, L) = l[2].refund
<1>1. PICK c : c = CHOOSE k \in L : k[1] = j
  OBVIOUS
<1>2. c \in L /\ c[1] = j
  BY <1>1
<1>3. Owes(b, j, L) = c[2].refund
  BY <1>1 DEF Owes
<1>. QED
  BY <1>2, <1>3

(* The transactions that other jobs lost do not matter.                    *)
LEMMA OwesItsOwn ==
  ASSUME NEW b, NEW j, NEW L, NEW M, \A l \in L \cup M : l[1] = j => l \in L /\ l \in M,
         \A k, l \in L : k[1] = j /\ l[1] = j => k = l
  PROVE  Owes(b, j, L) = Owes(b, j, M)
<1>1. CASE b.pc = "send" /\ Len(b.plan) = 1
  BY <1>1, OwesPlanned
<1>2. CASE (b.pc # "send" \/ Len(b.plan) # 1) /\ \A l \in L : l[1] # j
  BY <1>2, OwesNothing
<1>3. ASSUME b.pc # "send" \/ Len(b.plan) # 1, NEW l \in L, l[1] = j
      PROVE  Owes(b, j, L) = Owes(b, j, M)
  <2>1. Owes(b, j, L) = l[2].refund
    BY <1>3, OwesLost
  <2>2. l \in M /\ \A k \in M : k[1] = j => k = l
    BY <1>3
  <2>3. Owes(b, j, M) = l[2].refund
    BY <1>3, <2>2, OwesLost
  <2>. QED
    BY <2>1, <2>3
<1>. QED
  BY <1>1, <1>2, <1>3

(* What all jobs owe is a natural number.                                  *)
LEMMA OwedType ==
  ASSUME LendInv
  PROVE  /\ \A j \in Jobs : owed[j] \in Nat
         /\ owed = [j \in Jobs |-> owed[j]]
         /\ SumOf(owed, Jobs) \in Nat
<1>1. ASSUME NEW j \in Jobs PROVE Owes(job[j], j, late) \in Nat
  <2>1. /\ job[j] \in Job /\ JobSound(job[j])
        /\ \A l \in late : l \in Jobs \X Tx
        /\ \A k, l \in late : k[1] = j /\ l[1] = j => k = l
    BY DEF LendInv, TypeOK, JobsSound, LateSound
  <2>2. PICK b \in Job : b = job[j]
    BY <2>1
  <2>3. CASE b.pc = "send" /\ Len(b.plan) = 1
    <3>1. b.plan[1] \in Tx
      BY <2>3 DEF Job
    <3>. QED
      BY <2>2, <2>3, <3>1, OwesPlanned DEF Tx
  <2>4. CASE (b.pc # "send" \/ Len(b.plan) # 1) /\ \A l \in late : l[1] # j
    BY <2>2, <2>4, OwesNothing
  <2>5. ASSUME b.pc # "send" \/ Len(b.plan) # 1, NEW l \in late, l[1] = j
        PROVE  Owes(b, j, late) \in Nat
    <3>1. Owes(b, j, late) = l[2].refund
      BY <2>1, <2>5, OwesLost
    <3>2. l[2] \in Tx
      BY <2>1
    <3>. QED
      BY <3>1, <3>2 DEF Tx
  <2>. QED
    BY <2>2, <2>3, <2>4, <2>5
<1>2. \A j \in Jobs : owed[j] \in Nat
  BY <1>1 DEF owed
<1>3. owed = [j \in Jobs |-> owed[j]]
  BY DEF owed
<1>. QED
  BY <1>2, <1>3, SumType, LendAssumption

(* The sum follows the one job whose debt changed.                         *)
LEMMA OwedMoves ==
  ASSUME LendInv, NEW j \in Jobs, NEW a \in Int, owed[j] + a \in Nat,
         Owes(job'[j], j, late') = owed[j] + a,
         \A k \in Jobs \ {j} : Owes(job'[k], k, late') = owed[k]
  PROVE  \E s, t \in Nat : s = SumOf(owed, Jobs) /\ t = SumOf(owed, Jobs)' /\ t = s + a
<1>1. PICK f : f = owed
  OBVIOUS
<1>2. PICK g : g = owed'
  OBVIOUS
<1>3. \A k \in Jobs : f[k] \in Nat
  BY <1>1, OwedType
<1>4. \A k \in Jobs : g[k] = Owes(job'[k], k, late')
  BY <1>2 DEF owed
<1>5. g[j] = f[j] + a /\ \A k \in Jobs \ {j} : g[k] = f[k]
  BY <1>1, <1>4
<1>6. \A k \in Jobs : g[k] \in Nat
  BY <1>1, <1>3, <1>5
<1>7. SumOf(g, Jobs) = SumOf(f, Jobs) + a
  BY <1>3, <1>5, SumUpdate, LendAssumption
<1>8. SumOf(f, Jobs) \in Nat /\ SumOf(g, Jobs) \in Nat
  BY <1>3, <1>6, SumType, LendAssumption
<1>. QED
  BY <1>1, <1>2, <1>7, <1>8, Zenon

(* The loans stay covered when what a step takes from the executor is owed *)
(* to it and what the Safe gives back no longer is.                        *)
LEMMA LoansFollow ==
  ASSUME LendInv, NEW j \in Jobs, NEW a \in Int, owed[j] + a \in Nat,
         Owes(job'[j], j, late') = owed[j] + a,
         \A k \in Jobs \ {j} : Owes(job'[k], k, late') = owed[k],
         NEW d \in ChainType, d = chain', d.sol + a <= chain.sol,
         Undisturbed' => /\ Undisturbed /\ late' = {}
                         /\ \/ d.lamports <= chain.lamports + a
                            \/ d.lamports <= RentMinimum + VAULT_PDA_REFUND_RESERVE
  PROVE  LoanInv'
<1>1. PICK s, t \in Nat : s = SumOf(owed, Jobs) /\ t = SumOf(owed, Jobs)' /\ t = s + a
  BY OwedMoves
<1>2. chain.sol \in Nat /\ chain.lamports \in Nat /\ d.sol \in Nat /\ d.lamports \in Nat
  BY DEF LendInv, TypeOK, ChainType
<1>3. PICK cap \in Nat : cap = SafeCap /\ RentMinimum + VAULT_PDA_REFUND_RESERVE <= cap
  <2>1. PICK floor \in Nat : floor = RentMinimum + VAULT_PDA_REFUND_RESERVE
    BY LendAssumption
  <2>2. PICK cap \in Nat : cap = Max({SafeLamports, floor}) /\ floor <= cap
    BY LendAssumption, MaxOfTwo
  <2>. QED
    BY <2>1, <2>2 DEF SafeCap
<1>4. chain.sol + s <= ExecutorLamports /\ (Undisturbed => chain.lamports <= cap + s)
  BY <1>1, <1>3 DEF LendInv, LoanInv
<1>5. d.sol + t <= ExecutorLamports
  BY <1>1, <1>2, <1>4, LendAssumption
<1>6. Undisturbed' => late' = {} /\ d.lamports <= cap + t
  <2>. SUFFICES ASSUME Undisturbed' PROVE d.lamports <= cap + t
    OBVIOUS
  <2>1. chain.lamports <= cap + s
    BY <1>4
  <2>2. CASE d.lamports <= chain.lamports + a
    BY <1>1, <1>2, <2>1, <2>2
  <2>3. CASE d.lamports <= RentMinimum + VAULT_PDA_REFUND_RESERVE
    <3>1. RentMinimum + VAULT_PDA_REFUND_RESERVE \in Nat
      BY LendAssumption
    <3>. QED
      BY <1>2, <1>3, <2>3, <3>1
  <2>. QED
    BY <2>2, <2>3
<1>. QED
  BY <1>1, <1>3, <1>5, <1>6, Zenon DEF LoanInv, SafeCap

-----------------------------------------------------------------------------
(* Every step keeps the invariant. *)

(* Nothing lost is of a job that is still at work, and nothing lost is     *)
(* refunded twice.                                                         *)
LEMMA LateIsOver ==
  ASSUME LendInv
  PROVE  /\ \A l \in late : /\ l \in Jobs \X Tx /\ l[1] \in Jobs /\ l[2] \in Tx
                            /\ job[l[1]].pc = "done"
         /\ \A j \in Jobs : \A k, l \in late : k[1] = j /\ l[1] = j => k = l
BY DEF LendInv, TypeOK, LateSound

(* A position out of the scan's reach stays so, whoever takes ids.         *)
LEMMA DistantStays ==
  ASSUME chain \in ChainType, chain' \in ChainType, Held' = Held,
         chain'.nextId >= chain.nextId
  PROVE  (Distant => Distant') /\ (HeldBelow => HeldBelow')
<1>1. Held \subseteq Int /\ chain.nextId \in Int /\ chain'.nextId \in Int
  BY DEF Held, Ids, ChainType
<1>2. ASSUME Distant PROVE Distant'
  <2>. SUFFICES ASSUME NEW i \in Held' PROVE chain'.nextId - i > DEFAULT_POSITION_SCAN_DEPTH
    BY DEF Distant
  <2>1. i \in Held /\ i \in Int
    BY <1>1
  <2>2. chain.nextId - i > DEFAULT_POSITION_SCAN_DEPTH
    BY <1>2, <2>1 DEF Distant
  <2>. QED
    BY <1>1, <2>1, <2>2, LendAssumption
<1>3. ASSUME HeldBelow PROVE HeldBelow'
  <2>. SUFFICES ASSUME NEW i \in Held' PROVE i < chain'.nextId
    BY DEF HeldBelow
  <2>1. i \in Held /\ i \in Int
    BY <1>1
  <2>2. i < chain.nextId
    BY <1>3, <2>1 DEF HeldBelow
  <2>. QED
    BY <1>1, <2>1, <2>2
<1>. QED
  BY <1>2, <1>3

(* A quiet step keeps the part of the invariant about single jobs,         *)
LEMMA QuietKeepsJobs ==
  ASSUME LendInv, NEW j \in Jobs, Quiet(j)
  PROVE  /\ TypeOK' /\ JobsSound' /\ LateSound' /\ OneShot' /\ OperatesOnce'
         /\ CreationInv'
<1>1. PICK b \in Job : Becomes(j, b) /\ job' = [job EXCEPT ![j] = b]
  BY DEF Quiet
<1>2. /\ job[j].pc # "done" /\ disturbed' \in [Jobs -> BOOLEAN]
      /\ \A k \in Jobs \ {j} : disturbed'[k] = disturbed[k]
      /\ UNCHANGED <<chain, late, executed, raced, accruals>>
  BY DEF Quiet
<1>3. TypeOK /\ JobsSound /\ LateSound /\ OneShot /\ OperatesOnce /\ CreationInv
  BY DEF LendInv
<1>4. job' \in [Jobs -> Job] /\ job'[j] = b /\ \A k \in Jobs \ {j} : job'[k] = job[k]
  BY <1>1, <1>3 DEF TypeOK
<1>5. TypeOK'
  BY <1>2, <1>3, <1>4 DEF TypeOK
<1>6. JobsSound'
  BY <1>1, <1>3, <1>4 DEF JobsSound, Becomes
<1>7. \A l \in late : l[1] \in Jobs \ {j}
  BY <1>2, LateIsOver
<1>8. LateSound'
  BY <1>2, <1>3, <1>4, <1>7 DEF LateSound
<1>9. OneShot' /\ OperatesOnce'
  BY <1>2, <1>3, <1>4 DEF OneShot, OperatesOnce
<1>10. Held' = Held /\ (Distant' <=> Distant) /\ (HeldBelow' <=> HeldBelow)
  BY <1>2 DEF Held, Distant, HeldBelow
<1>11. OnePositionUnlessRaced' /\ HeldBelow'
  BY <1>2, <1>3, <1>10 DEF CreationInv, OnePositionUnlessRaced
<1>12. \A k \in Jobs : Creates(job'[k]) => disturbed'[k] \/ Distant'
  BY <1>1, <1>2, <1>3, <1>4, <1>10 DEF Becomes, CreationInv
<1>13. \A l \in late' : l[2].op = "init" => disturbed'[l[1]] \/ Distant'
  BY <1>2, <1>3, <1>7, <1>10 DEF CreationInv
<1>14. CreationInv'
  BY <1>11, <1>12, <1>13 DEF CreationInv
<1>. QED
  BY <1>5, <1>6, <1>8, <1>9, <1>14

(* and the lamport books.                                                  *)
LEMMA QuietKeepsLoans ==
  ASSUME LendInv, NEW j \in Jobs, Quiet(j)
  PROVE  LoanInv'
<1>1. PICK b \in Job : Becomes(j, b) /\ job' = [job EXCEPT ![j] = b]
  BY DEF Quiet
<1>2. job[j].pc # "done" /\ UNCHANGED <<chain, late>> /\ job \in [Jobs -> Job]
  BY DEF Quiet, LendInv, TypeOK
<1>3. job'[j] = b /\ \A k \in Jobs \ {j} : job'[k] = job[k]
  BY <1>1, <1>2
<1>4. owed[j] \in Nat /\ SumOf(owed, Jobs) \in Nat
  BY OwedType
<1>5. \A l \in late : l[1] # j
  BY <1>2, LateIsOver
<1>6. Owes(b, j, late) = 0
  BY <1>1, <1>5, OwesPlanned, OwesNothing DEF Becomes, NothingOwed
<1>7. \A k \in Jobs \ {j} : Owes(job'[k], k, late') = owed[k]
  BY <1>2, <1>3 DEF owed
<1>8. /\ -owed[j] \in Int /\ owed[j] + (-owed[j]) \in Nat
      /\ Owes(job'[j], j, late') = owed[j] + (-owed[j])
  BY <1>2, <1>3, <1>4, <1>6
<1>9. chain \in ChainType
  BY DEF LendInv, TypeOK, ChainType
<1>10. chain.sol + (-owed[j]) <= chain.sol
  <2>1. chain.sol \in Nat
    BY <1>9 DEF ChainType
  <2>. QED
    BY <1>4, <2>1
<1>11. Undisturbed' => Undisturbed
  BY <1>1, <1>2, <1>3 DEF Undisturbed, Becomes, LendInv, JobsSound, JobSound
<1>12. Undisturbed' => owed[j] = 0
  <2>1. Undisturbed' => b.status # "error" /\ b.safety = 0
    BY <1>3 DEF Undisturbed
  <2>2. NothingOwed(job[j]) => owed[j] = 0
    <3>1. owed[j] = Owes(job[j], j, late)
      BY DEF owed
    <3>. QED
      BY <1>5, <3>1, OwesPlanned, OwesNothing DEF NothingOwed
  <2>. QED
    BY <1>1, <2>1, <2>2 DEF Becomes
<1>13. Undisturbed' => Undisturbed /\ late' = {} /\ chain.lamports <= chain.lamports + (-owed[j])
  <2>1. chain.lamports \in Nat
    BY <1>9 DEF ChainType
  <2>. QED
    BY <1>2, <1>11, <1>12, <2>1 DEF LendInv, LoanInv
<1>. QED
  BY <1>2, <1>7, <1>8, <1>9, <1>10, <1>13, LoansFollow

(* What any transaction that takes effect keeps, whoever sent it.          *)
LEMMA ExecutesKeeps ==
  ASSUME LendInv, NEW j \in Jobs, NEW tx \in Tx, executed[j] = 0,
         tx.op \in {"init", "operate"} => tx.id \in Ids,
         tx.op = "init" => disturbed[j] \/ Distant,
         Executes(j, tx)
  PROVE  /\ chain' \in ChainType /\ Effect(tx, chain, chain')
         /\ executed' \in [Jobs -> Nat] /\ OperatesOnce'
         /\ tx.op \notin {"operate", "kvault"} => executed'[j] = 0
         /\ \A k \in Jobs \ {j} : executed'[k] = executed[k] /\ disturbed'[k]
         /\ disturbed' \in [Jobs -> BOOLEAN] /\ raced' \in BOOLEAN
         /\ OnePositionUnlessRaced' /\ HeldBelow'
<1>1. /\ chain \in ChainType /\ executed \in [Jobs -> Nat]
      /\ disturbed \in [Jobs -> BOOLEAN] /\ raced \in BOOLEAN
      /\ OperatesOnce /\ OnePositionUnlessRaced /\ HeldBelow
  BY DEF LendInv, TypeOK, ChainType, CreationInv
<1>2. /\ chain' \in Results(chain, tx)
      /\ executed' = [executed EXCEPT ![j] = @ + IF tx.op \in {"operate", "kvault"} THEN 1 ELSE 0]
      /\ disturbed' = [k \in Jobs |-> disturbed[k] \/ k # j]
      /\ raced' = (raced \/ (tx.op = "init" /\ disturbed[j]))
  BY DEF Executes
<1>3. Effect(tx, chain, chain')
  BY <1>1, <1>2, ResultsEffect
<1>4. chain' \in ChainType
  BY <1>3 DEF Effect
<1>5. PICK n \in {0, 1} : /\ n = IF tx.op \in {"operate", "kvault"} THEN 1 ELSE 0
                          /\ executed' = [executed EXCEPT ![j] = n]
  <2>1. PICK n \in {0, 1} : n = IF tx.op \in {"operate", "kvault"} THEN 1 ELSE 0
    OBVIOUS
  <2>2. executed[j] + n = n
    OBVIOUS
  <2>3. executed' = [executed EXCEPT ![j] = executed[j] + n]
    BY <1>2, <2>1, Zenon
  <2>. QED
    BY <2>1, <2>2, <2>3, Zenon
<1>6. /\ executed' \in [Jobs -> Nat] /\ executed'[j] = n
      /\ \A k \in Jobs \ {j} : executed'[k] = executed[k]
  BY <1>1, <1>5
<1>7. OperatesOnce'
  BY <1>1, <1>6 DEF OperatesOnce
<1>8. disturbed' \in [Jobs -> BOOLEAN] /\ raced' \in BOOLEAN /\ \A k \in Jobs \ {j} : disturbed'[k]
  BY <1>1, <1>2
<1>9. Held = HeldIn(chain) /\ Held' = HeldIn(chain') /\ Held \subseteq Int /\ chain.nextId \in Int
  BY <1>1 DEF Held, HeldIn, Ids, ChainType
<1>10. CASE tx.op # "init"
  <2>1. Held' = Held /\ chain'.nextId = chain.nextId /\ raced' = raced
    BY <1>1, <1>2, <1>3, <1>9, <1>10 DEF Effect
  <2>2. OnePositionUnlessRaced'
    BY <1>1, <2>1 DEF OnePositionUnlessRaced
  <2>3. HeldBelow'
    BY <1>1, <2>1 DEF HeldBelow
  <2>. QED
    BY <1>3, <1>4, <1>5, <1>6, <1>7, <1>8, <2>2, <2>3
<1>11. CASE tx.op = "init"
  <2>1. Held' = Held \cup {chain.nextId} /\ chain'.nextId = chain.nextId + 1
    BY <1>3, <1>9, <1>11 DEF Effect
  <2>2. HeldBelow'
    BY <1>1, <1>9, <2>1 DEF HeldBelow
  <2>3. ASSUME Distant PROVE OnePositionUnlessRaced'
    <3>1. ASSUME ~raced, NEW i \in Held', NEW k \in Held', k > i
          PROVE  k - i > DEFAULT_POSITION_SCAN_DEPTH
      <4>1. i \in Held
        BY <1>1, <1>9, <2>1, <3>1 DEF HeldBelow
      <4>2. CASE k = chain.nextId
        BY <2>3, <4>1, <4>2 DEF Distant
      <4>3. CASE k \in Held
        BY <1>1, <3>1, <4>1, <4>3 DEF OnePositionUnlessRaced
      <4>. QED
        BY <2>1, <4>2, <4>3
    <3>2. raced => raced'
      BY <1>2
    <3>3. raced' \/ \A i, k \in Held' : k > i => k - i > DEFAULT_POSITION_SCAN_DEPTH
      BY <3>1, <3>2
    <3>. QED
      BY <3>3 DEF OnePositionUnlessRaced
  <2>4. ASSUME disturbed[j] PROVE OnePositionUnlessRaced'
    BY <1>2, <1>11, <2>4 DEF OnePositionUnlessRaced
  <2>5. OnePositionUnlessRaced'
    BY <1>11, <2>3, <2>4
  <2>. QED
    BY <1>3, <1>4, <1>5, <1>6, <1>7, <1>8, <2>2, <2>5
<1>. QED
  BY <1>10, <1>11

(* The transaction a job is about to send, and what is left of the job once *)
(* it took effect.                                                          *)
LEMMA NextSent ==
  ASSUME NEW b \in Job, JobSound(b), b.pc = "send"
  PROVE  /\ Head(b.plan) = b.plan[1] /\ Head(b.plan) \in Tx
         /\ Len(b.plan) \in {1, 2}
         /\ Head(b.plan).op \in {"init", "operate"} => Head(b.plan).id \in Ids
         /\ Head(b.plan).op = "init" => InitPlan(b)
         /\ Head(b.plan).op # "operate" => Head(b.plan).refund = 0
         /\ Len(b.plan) = 2 => Head(b.plan).op = "setup"
         /\ b.status = "none"
<1>1. b.plan \in Seq(Tx)
  BY DEF Job
<1>2. Len(b.plan) \in {1, 2}
  BY DEF JobSound, KvaultPlan, InitPlan, LastPlan, ToppedUpPlan
<1>3. Head(b.plan) = b.plan[1] /\ b.plan[1] \in Tx
  BY <1>1, <1>2
<1>. QED
  BY <1>2, <1>3 DEF JobSound, KvaultPlan, InitPlan, LastPlan, ToppedUpPlan, OperateNext

(* What is left of a plan once its first transaction has executed.         *)
LEMMA ProceedEffect ==
  ASSUME NEW b \in Job, JobSound(b), b.pc = "send", NEW d, d = Proceed(b)
  PROVE  /\ d \in Job /\ JobSound(d) /\ ~Creates(d)
         /\ d.safety = b.safety /\ d.status # "error" /\ d.request = b.request /\ d.id = b.id
         /\ d.pc # "done" => Head(b.plan).op \in {"init", "setup"}
         /\ Len(b.plan) = 1 => d.pc # "send"
         /\ Len(b.plan) = 2 => /\ d.pc = "send" /\ Len(d.plan) = 1
                               /\ d.plan[1] = b.plan[2]
                               /\ d.plan[1].refund = Head(b.plan).topUp
<1>1. b.plan \in Seq(Tx) /\ b.safety \in {0, JUPITER_REPAY_SAFETY_MEDIUM}
  BY DEF Job, JobSound
<1>2. CASE Len(b.plan) = 2
  <2>1. ToppedUpPlan(b)
    BY <1>2 DEF JobSound, KvaultPlan, InitPlan, LastPlan
  <2>2. b.plan # <<>>
    BY <1>2
  <2>3. PICK rest \in Seq(Tx) : rest = Tail(b.plan) /\ Len(rest) = 1 /\ rest[1] = b.plan[2]
    <3>1. /\ Tail(b.plan) \in Seq(Tx) /\ Len(Tail(b.plan)) = 1
          /\ Tail(b.plan)[1] = b.plan[2]
      BY <1>1, <1>2, <2>2, HeadTailProperties
    <3>. QED
      BY <3>1
  <2>4. d = [b EXCEPT !.plan = rest]
    BY <1>2, <2>3 DEF Proceed
  <2>5. /\ d \in Job /\ d.plan = rest /\ d.pc = "send" /\ d.safety = b.safety
        /\ d.status = b.status /\ d.request = b.request /\ d.id = b.id
    BY <2>4 DEF Job
  <2>6. LastPlan(d) /\ ~InitPlan(d)
    BY <2>1, <2>3, <2>5 DEF ToppedUpPlan, OperateNext, LastPlan, InitPlan
  <2>7. JobSound(d) /\ ~Creates(d)
    BY <2>5, <2>6 DEF JobSound, Creates
  <2>8. d.status # "error"
    BY <2>5 DEF JobSound
  <2>9. Head(b.plan) = b.plan[1] /\ Head(b.plan).op = "setup"
        /\ Head(b.plan).topUp = b.plan[2].refund
    BY <2>1, NextSent DEF ToppedUpPlan
  <2>. QED
    BY <1>2, <2>3, <2>5, <2>7, <2>8, <2>9
<1>3. CASE Len(b.plan) = 1 /\ Head(b.plan).op = "init"
  <2>1. PICK empty \in Seq(Tx) : empty = <<>>
    BY EmptySeq, Zenon
  <2>2. d = [b EXCEPT !.pc = "build", !.plan = empty]
    BY <1>3, <2>1 DEF Proceed
  <2>3. /\ d \in Job /\ d.plan = <<>> /\ d.pc = "build" /\ d.safety = b.safety
        /\ d.status = b.status /\ d.request = b.request /\ d.id = b.id
    BY <2>1, <2>2 DEF Job
  <2>4. b.id \in Ids
    BY <1>3, NextSent DEF InitPlan
  <2>5. JobSound(d) /\ ~Creates(d) /\ d.status # "error"
    BY <2>3, <2>4 DEF JobSound, Creates
  <2>. QED
    BY <1>3, <2>3, <2>5
<1>4. CASE Len(b.plan) = 1 /\ Head(b.plan).op # "init"
  <2>1. d = Answer(b, "success")
    BY <1>4 DEF Proceed
  <2>2. /\ d \in Job /\ JobSound(d) /\ d.pc = "done" /\ d.status = "success"
        /\ d.safety = b.safety /\ d.id = b.id /\ d.request = b.request
    BY <1>1, <2>1, AnswerSound
  <2>. QED
    BY <1>4, <2>2 DEF Creates
<1>. QED
  BY <1>2, <1>3, <1>4, NextSent

(* An executed transaction keeps the part of the invariant about single    *)
(* jobs,                                                                   *)
LEMMA SentKeepsJobs ==
  ASSUME LendInv, NEW j \in Jobs, SendExecuted(j)
  PROVE  /\ TypeOK' /\ JobsSound' /\ LateSound' /\ OneShot' /\ OperatesOnce'
         /\ CreationInv'
<1>1. TypeOK /\ JobsSound /\ LateSound /\ OneShot /\ OperatesOnce /\ CreationInv
  BY DEF LendInv
<1>2. PICK b \in Job : b = job[j] /\ JobSound(b) /\ b.pc = "send"
  BY <1>1 DEF TypeOK, JobsSound, SendExecuted
<1>3. PICK d : d = Proceed(b)
  OBVIOUS
<1>4. PICK tx \in Tx : tx = Head(b.plan)
  BY <1>2, NextSent
<1>5. /\ Executes(j, tx) /\ job' = [job EXCEPT ![j] = d]
      /\ UNCHANGED <<late, accruals>>
  BY <1>2, <1>3, <1>4 DEF SendExecuted, Tell
<1>6. /\ d \in Job /\ JobSound(d) /\ ~Creates(d)
      /\ d.pc # "done" => tx.op \in {"init", "setup"}
  BY <1>2, <1>3, <1>4, ProceedEffect
<1>7. job' \in [Jobs -> Job] /\ job'[j] = d /\ \A k \in Jobs \ {j} : job'[k] = job[k]
  BY <1>1, <1>5, <1>6 DEF TypeOK
<1>8. executed[j] = 0
  BY <1>1, <1>2 DEF OneShot
<1>9. /\ tx.op \in {"init", "operate"} => tx.id \in Ids
      /\ tx.op = "init" => disturbed[j] \/ Distant
  BY <1>1, <1>2, <1>4, NextSent DEF CreationInv, Creates
<1>10. /\ chain' \in ChainType /\ Effect(tx, chain, chain')
       /\ executed' \in [Jobs -> Nat] /\ OperatesOnce'
       /\ tx.op \notin {"operate", "kvault"} => executed'[j] = 0
       /\ \A k \in Jobs \ {j} : executed'[k] = executed[k] /\ disturbed'[k]
       /\ disturbed' \in [Jobs -> BOOLEAN] /\ raced' \in BOOLEAN
       /\ OnePositionUnlessRaced' /\ HeldBelow'
  BY <1>5, <1>8, <1>9, ExecutesKeeps
<1>11. TypeOK'
  BY <1>1, <1>5, <1>7, <1>10 DEF TypeOK, ChainType
<1>12. JobsSound'
  BY <1>1, <1>6, <1>7 DEF JobsSound
<1>13. \A l \in late : l[1] \in Jobs \ {j}
  BY <1>2, LateIsOver
<1>14. LateSound'
  BY <1>1, <1>5, <1>7, <1>10, <1>13 DEF LateSound
<1>15. OneShot'
  BY <1>1, <1>6, <1>7, <1>10 DEF OneShot
<1>16. CreationInv'
  <2>1. \A k \in Jobs : Creates(job'[k]) => disturbed'[k] \/ Distant'
    BY <1>6, <1>7, <1>10
  <2>2. \A l \in late' : l[2].op = "init" => disturbed'[l[1]] \/ Distant'
    BY <1>5, <1>10, <1>13
  <2>. QED
    BY <1>10, <2>1, <2>2 DEF CreationInv
<1>. QED
  BY <1>10, <1>11, <1>12, <1>14, <1>15, <1>16

(* and the lamport books: a top-up is owed from now on, a refund no longer.*)
LEMMA SentKeepsLoans ==
  ASSUME LendInv, NEW j \in Jobs, SendExecuted(j)
  PROVE  LoanInv'
<1>1. PICK b \in Job : b = job[j] /\ JobSound(b) /\ b.pc = "send"
  BY DEF LendInv, TypeOK, JobsSound, SendExecuted
<1>2. PICK d : d = Proceed(b)
  OBVIOUS
<1>3. PICK tx \in Tx : tx = Head(b.plan)
  BY <1>1, NextSent
<1>4. /\ Executes(j, tx) /\ job' = [job EXCEPT ![j] = d] /\ late' = late
  BY <1>1, <1>2, <1>3 DEF SendExecuted, Tell
<1>5. /\ d.safety = b.safety /\ d.status # "error"
      /\ Len(b.plan) = 1 => d.pc # "send"
      /\ Len(b.plan) = 2 => d.pc = "send" /\ Len(d.plan) = 1 /\ d.plan[1].refund = tx.topUp
  BY <1>1, <1>2, <1>3, ProceedEffect
<1>6. job'[j] = d /\ \A k \in Jobs \ {j} : job'[k] = job[k]
  BY <1>4 DEF LendInv, TypeOK
<1>7. \A l \in late : l[1] # j
  BY <1>1, LateIsOver
<1>8. \A k \in Jobs \ {j} : Owes(job'[k], k, late') = owed[k]
  BY <1>4, <1>6 DEF owed
<1>9. owed[j] = Owes(b, j, late) /\ owed[j] \in Nat
  BY <1>1, OwedType DEF owed
<1>10. /\ tx = b.plan[1] /\ Len(b.plan) \in {1, 2} /\ b.status = "none"
       /\ Len(b.plan) = 2 => tx.op = "setup"
       /\ tx.op # "operate" => tx.refund = 0
  BY <1>1, <1>3, NextSent
<1>11. chain \in ChainType /\ chain.sol \in Nat /\ chain.lamports \in Nat
  BY DEF LendInv, TypeOK, ChainType
<1>12. PICK c \in ChainType : c = chain' /\ Effect(tx, chain, c)
  <2>1. executed[j] = 0
    BY <1>1 DEF LendInv, OneShot
  <2>2. /\ tx.op \in {"init", "operate"} => tx.id \in Ids
        /\ tx.op = "init" => disturbed[j] \/ Distant
    BY <1>1, <1>3, NextSent DEF LendInv, CreationInv, Creates
  <2>. QED
    BY <1>4, <2>1, <2>2, ExecutesKeeps
<1>13. /\ tx.topUp \in Nat /\ tx.refund \in Nat /\ c.sol \in Nat /\ c.lamports \in Nat
  BY <1>12 DEF Tx, ChainType
<1>14. Undisturbed' => Undisturbed /\ late' = {}
  <2>1. Undisturbed' => Undisturbed
    BY <1>1, <1>5, <1>6, <1>10 DEF Undisturbed
  <2>. QED
    BY <1>4, <2>1 DEF LendInv, LoanInv
<1>15. CASE Len(b.plan) = 2
  <2>1. owed[j] = 0
    BY <1>7, <1>9, <1>15, OwesNothing
  <2>2. Owes(d, j, late) = tx.topUp
    BY <1>5, <1>15, OwesPlanned
  <2>3. Owes(job'[j], j, late') = owed[j] + tx.topUp
    BY <1>4, <1>6, <1>13, <2>1, <2>2
  <2>4. c.sol = chain.sol - tx.topUp /\ c.lamports = chain.lamports + tx.topUp
    BY <1>10, <1>12, <1>15 DEF Effect
  <2>5. c.sol + tx.topUp <= chain.sol /\ c.lamports <= chain.lamports + tx.topUp
    BY <1>11, <1>13, <2>4
  <2>6. owed[j] + tx.topUp \in Nat /\ tx.topUp \in Int
    BY <1>13, <2>1
  <2>. QED
    BY <1>8, <1>12, <1>14, <2>3, <2>5, <2>6, LoansFollow
<1>16. CASE Len(b.plan) = 1
  <2>1. owed[j] = tx.refund
    BY <1>1, <1>9, <1>10, <1>16, OwesPlanned
  <2>2. Owes(d, j, late) = 0
    BY <1>5, <1>7, <1>16, OwesNothing
  <2>3. PICK a \in Int : a = -tx.refund
    BY <1>13
  <2>4. owed[j] + a = 0 /\ owed[j] + a \in Nat
    BY <1>13, <2>1, <2>3
  <2>5. Owes(job'[j], j, late') = owed[j] + a
    BY <1>4, <1>6, <2>2, <2>4
  <2>6. /\ c.sol + a <= chain.sol
        /\ \/ c.lamports <= chain.lamports + a
           \/ c.lamports <= RentMinimum + VAULT_PDA_REFUND_RESERVE
    <3>1. CASE tx.op = "operate"
      <4>1. PICK back \in 0 .. tx.refund :
              /\ c.sol = chain.sol + back /\ c.lamports <= chain.lamports - back
              /\ back = tx.refund \/ c.lamports <= RentMinimum + VAULT_PDA_REFUND_RESERVE
        BY <1>12, <3>1 DEF Effect
      <4>. QED
        BY <1>11, <1>13, <2>3, <4>1
    <3>2. CASE tx.op \in {"init", "kvault"}
      <4>1. c.sol = chain.sol /\ c.lamports = chain.lamports
        BY <1>12, <3>2 DEF Effect, SameLoans
      <4>2. a = 0
        BY <1>10, <2>3, <3>2
      <4>. QED
        BY <1>11, <4>1, <4>2
    <3>3. tx.op # "setup"
      BY <1>1, <1>10, <1>16 DEF JobSound, KvaultPlan, InitPlan, LastPlan, ToppedUpPlan, OperateNext
    <3>. QED
      BY <3>1, <3>2, <3>3 DEF Tx
  <2>. QED
    BY <1>8, <1>12, <1>14, <2>4, <2>5, <2>6, LoansFollow
<1>. QED
  BY <1>10, <1>15, <1>16

(* A transaction nobody knows the fate of: the job is answered with an     *)
(* error and what it owed is still owed.                                   *)
LEMMA LostKeeps ==
  ASSUME LendInv, NEW j \in Jobs, SendLost(j)
  PROVE  LendInv'
<1>1. TypeOK /\ JobsSound /\ LateSound /\ OneShot /\ OperatesOnce /\ CreationInv
  BY DEF LendInv
<1>2. PICK b \in Job : b = job[j] /\ JobSound(b) /\ b.pc = "send"
  BY <1>1 DEF TypeOK, JobsSound, SendLost
<1>3. PICK tx \in Tx : tx = Head(b.plan)
  BY <1>2, NextSent
<1>4. PICK d : d = Answer(b, "error")
  OBVIOUS
<1>5. d \in Job /\ JobSound(d) /\ d.pc = "done" /\ d.status = "error"
  BY <1>2, <1>4, AnswerSound DEF JobSound
<1>6. PICK l \in Jobs \X Tx : l = <<j, tx>> /\ l[1] = j /\ l[2] = tx
  <2>1. PICK l : l = <<j, tx>>
    OBVIOUS
  <2>2. l \in Jobs \X Tx /\ l[1] = j /\ l[2] = tx
    BY <2>1
  <2>. QED
    BY <2>1, <2>2
<1>7. /\ late' = late \cup {l} /\ job' = [job EXCEPT ![j] = d]
      /\ UNCHANGED <<chain, executed, disturbed, raced, accruals>>
  BY <1>2, <1>3, <1>4, <1>6 DEF SendLost, Tell, Refusal, NothingExecutes
<1>8. job' \in [Jobs -> Job] /\ job'[j] = d /\ \A k \in Jobs \ {j} : job'[k] = job[k]
  BY <1>1, <1>5, <1>7 DEF TypeOK
<1>9. executed[j] = 0
  BY <1>1, <1>2 DEF OneShot
<1>10. \A k \in late : k[1] \in Jobs \ {j}
  BY <1>2, LateIsOver
<1>11. /\ tx.op \in {"init", "operate"} => tx.id \in Ids
       /\ tx.op = "init" => InitPlan(b)
       /\ tx.op # "operate" => tx.refund = 0
       /\ tx = b.plan[1] /\ Len(b.plan) \in {1, 2}
       /\ Len(b.plan) = 2 => tx.op = "setup"
  BY <1>2, <1>3, NextSent
<1>12. TypeOK'
  BY <1>1, <1>6, <1>7, <1>8 DEF TypeOK
<1>13. JobsSound'
  BY <1>1, <1>5, <1>8 DEF JobsSound
<1>14. LateSound'
  <2>1. ASSUME NEW m \in late
        PROVE  /\ job'[m[1]].pc = "done" /\ job'[m[1]].status = "error" /\ executed'[m[1]] = 0
               /\ m[2].op \in {"init", "operate"} => m[2].id \in Ids
               /\ m[2].op # "operate" => m[2].refund = 0
               /\ \A k \in late' : k[1] = m[1] => k = m
    BY <1>1, <1>6, <1>7, <1>8, <1>10 DEF LateSound
  <2>2. /\ job'[l[1]].pc = "done" /\ job'[l[1]].status = "error" /\ executed'[l[1]] = 0
        /\ l[2].op \in {"init", "operate"} => l[2].id \in Ids
        /\ l[2].op # "operate" => l[2].refund = 0
        /\ \A k \in late' : k[1] = l[1] => k = l
    BY <1>5, <1>6, <1>7, <1>8, <1>9, <1>10, <1>11
  <2>. QED
    BY <1>7, <2>1, <2>2 DEF LateSound
<1>15. OneShot' /\ OperatesOnce'
  BY <1>1, <1>5, <1>7, <1>8 DEF OneShot, OperatesOnce
<1>16. CreationInv'
  <2>1. Held' = Held /\ (Distant' <=> Distant) /\ (HeldBelow' <=> HeldBelow)
    BY <1>7 DEF Held, Distant, HeldBelow
  <2>2. OnePositionUnlessRaced' /\ HeldBelow'
    BY <1>1, <1>7, <2>1 DEF CreationInv, OnePositionUnlessRaced
  <2>3. \A k \in Jobs : Creates(job'[k]) => disturbed'[k] \/ Distant'
    BY <1>1, <1>5, <1>7, <1>8, <2>1 DEF CreationInv, Creates
  <2>4. \A m \in late' : m[2].op = "init" => disturbed'[m[1]] \/ Distant'
    BY <1>1, <1>2, <1>6, <1>7, <1>11, <2>1 DEF CreationInv, Creates
  <2>. QED
    BY <2>2, <2>3, <2>4 DEF CreationInv
<1>17. LoanInv'
  <2>1. owed[j] = Owes(b, j, late) /\ owed[j] \in Nat
    BY <1>2, OwedType DEF owed
  <2>2. owed[j] = tx.refund
    <3>1. CASE Len(b.plan) = 1
      BY <1>2, <1>11, <2>1, <3>1, OwesPlanned
    <3>2. CASE Len(b.plan) = 2
      BY <1>10, <1>11, <2>1, <3>2, OwesNothing
    <3>. QED
      BY <1>11, <3>1, <3>2
  <2>3. Owes(d, j, late') = tx.refund
    <3>1. d.pc # "send" /\ l \in late' /\ \A k \in late' : k[1] = j => k = l
      BY <1>5, <1>6, <1>7, <1>10
    <3>. QED
      BY <1>6, <3>1, OwesLost
  <2>4. ASSUME NEW k \in Jobs \ {j} PROVE Owes(job'[k], k, late') = owed[k]
    <3>1. owed[k] = Owes(job[k], k, late)
      BY DEF owed
    <3>2. /\ \A m \in late \cup late' : m[1] = k => m \in late /\ m \in late'
          /\ \A m, n \in late : m[1] = k /\ n[1] = k => m = n
      BY <1>6, <1>7, LateIsOver
    <3>. QED
      BY <1>8, <3>1, <3>2, OwesItsOwn
  <2>5. Owes(job'[j], j, late') = owed[j] + 0 /\ owed[j] + 0 \in Nat
    BY <1>8, <2>1, <2>2, <2>3
  <2>6. chain \in ChainType /\ chain.sol + 0 <= chain.sol
    BY DEF LendInv, TypeOK, ChainType
  <2>7. ~Undisturbed'
    BY <1>5, <1>8 DEF Undisturbed
  <2>8. PICK none \in Int : none = 0
    OBVIOUS
  <2>9. ASSUME NEW c \in ChainType, c = chain', c.sol + none <= chain.sol PROVE LoanInv'
    BY <2>4, <2>5, <2>7, <2>8, <2>9, LoansFollow
  <2>. QED
    BY <1>7, <2>6, <2>8, <2>9
<1>. QED
  BY <1>12, <1>13, <1>14, <1>15, <1>16, <1>17 DEF LendInv

(* A lost transaction lands or expires: its job is long answered.          *)
LEMMA LandsLateKeeps ==
  ASSUME LendInv, LandsLate
  PROVE  LendInv'
<1>1. TypeOK /\ JobsSound /\ LateSound /\ OneShot /\ OperatesOnce /\ CreationInv
  BY DEF LendInv
<1>2. PICK l \in late : /\ Executes(l[1], l[2]) \/ NothingExecutes
                        /\ late' = late \ {l} /\ UNCHANGED <<job, accruals>>
  BY DEF LandsLate
<1>3. PICK j \in Jobs, tx \in Tx : j = l[1] /\ tx = l[2]
  BY LateIsOver
<1>4. /\ job[j].pc = "done" /\ job[j].status = "error" /\ executed[j] = 0
      /\ tx.op \in {"init", "operate"} => tx.id \in Ids
      /\ tx.op # "operate" => tx.refund = 0
      /\ \A k \in late : k[1] = j => k = l
  BY <1>1, <1>3 DEF LateSound
<1>5. tx.op = "init" => disturbed[j] \/ Distant
  BY <1>1, <1>3 DEF CreationInv
<1>6. \A k \in late' : k \in late /\ k[1] \in Jobs \ {j}
  BY <1>2, <1>4, LateIsOver
<1>7. /\ owed[j] = tx.refund /\ Owes(job'[j], j, late') = 0
  <2>1. owed[j] = Owes(job[j], j, late) /\ job[j].pc # "send"
    BY <1>4 DEF owed
  <2>2. Owes(job[j], j, late) = tx.refund
    BY <1>3, <1>4, <2>1, OwesLost
  <2>3. Owes(job[j], j, late') = 0
    BY <1>6, <2>1, OwesNothing
  <2>. QED
    BY <1>2, <2>1, <2>2, <2>3
<1>8. ASSUME NEW k \in Jobs \ {j} PROVE Owes(job'[k], k, late') = owed[k]
  <2>1. owed[k] = Owes(job[k], k, late)
    BY DEF owed
  <2>2. /\ \A m \in late \cup late' : m[1] = k => m \in late /\ m \in late'
        /\ \A m, n \in late : m[1] = k /\ n[1] = k => m = n
    BY <1>2, <1>3, LateIsOver
  <2>. QED
    BY <1>2, <2>1, <2>2, OwesItsOwn
<1>9. ~Undisturbed'
  BY <1>2, <1>4 DEF Undisturbed
<1>10. PICK a \in Int : a = -tx.refund /\ owed[j] + a = 0 /\ owed[j] + a \in Nat
  <2>1. tx.refund \in Nat
    BY DEF Tx
  <2>. QED
    BY <1>7, <2>1
<1>11. chain \in ChainType /\ chain.sol \in Nat
  BY DEF LendInv, TypeOK, ChainType
<1>12. ASSUME NEW c \in ChainType, c = chain', c.sol + a <= chain.sol PROVE LoanInv'
  BY <1>7, <1>8, <1>9, <1>10, <1>12, LoansFollow
<1>13. CASE NothingExecutes
  <2>1. UNCHANGED <<chain, executed, disturbed, raced, job, accruals>>
    BY <1>2, <1>13 DEF NothingExecutes
  <2>2. Held' = Held /\ (Distant' <=> Distant) /\ (HeldBelow' <=> HeldBelow)
    BY <2>1 DEF Held, Distant, HeldBelow
  <2>3. TypeOK' /\ JobsSound' /\ OneShot' /\ OperatesOnce'
    BY <1>1, <1>6, <2>1 DEF TypeOK, JobsSound, OneShot, OperatesOnce
  <2>4. LateSound'
    BY <1>1, <1>6, <2>1 DEF LateSound
  <2>5. CreationInv'
    BY <1>1, <1>6, <2>1, <2>2 DEF CreationInv, OnePositionUnlessRaced
  <2>6. chain.sol + a <= chain.sol
    BY <1>10, <1>11 DEF Tx
  <2>7. LoanInv'
    BY <1>11, <1>12, <2>1, <2>6
  <2>. QED
    BY <2>3, <2>4, <2>5, <2>7 DEF LendInv
<1>14. CASE Executes(j, tx)
  <2>1. /\ chain' \in ChainType /\ Effect(tx, chain, chain')
        /\ executed' \in [Jobs -> Nat] /\ OperatesOnce'
        /\ \A k \in Jobs \ {j} : executed'[k] = executed[k] /\ disturbed'[k]
        /\ disturbed' \in [Jobs -> BOOLEAN] /\ raced' \in BOOLEAN
        /\ OnePositionUnlessRaced' /\ HeldBelow'
    BY <1>4, <1>5, <1>14, ExecutesKeeps
  <2>2. TypeOK'
    BY <1>1, <1>2, <1>6, <2>1 DEF TypeOK, ChainType
  <2>3. JobsSound'
    BY <1>1, <1>2 DEF JobsSound
  <2>4. LateSound'
    BY <1>1, <1>2, <1>6, <2>1 DEF LateSound
  <2>5. OneShot'
    BY <1>1, <1>2, <1>4, <2>1 DEF OneShot
  <2>6. CreationInv'
    <3>1. \A k \in Jobs : Creates(job'[k]) => disturbed'[k] \/ Distant'
      BY <1>2, <1>4, <2>1 DEF Creates
    <3>2. \A m \in late' : m[2].op = "init" => disturbed'[m[1]] \/ Distant'
      BY <1>6, <2>1
    <3>. QED
      BY <2>1, <3>1, <3>2 DEF CreationInv
  <2>7. PICK c \in ChainType : c = chain' /\ Effect(tx, chain, c)
    BY <2>1
  <2>8. c.sol + a <= chain.sol
    <3>1. tx.refund \in Nat /\ tx.topUp \in Nat /\ c.sol \in Nat
      BY <2>7 DEF Tx, ChainType
    <3>2. CASE tx.op = "operate"
      BY <1>10, <1>11, <2>7, <3>1, <3>2 DEF Effect
    <3>3. CASE tx.op = "setup"
      BY <1>10, <1>11, <2>7, <3>1, <3>3 DEF Effect
    <3>4. CASE tx.op \in {"init", "kvault"}
      BY <1>10, <1>11, <2>7, <3>1, <3>4 DEF Effect, SameLoans
    <3>. QED
      BY <3>2, <3>3, <3>4 DEF Tx
  <2>9. LoanInv'
    BY <1>12, <2>7, <2>8
  <2>. QED
    BY <2>1, <2>2, <2>3, <2>4, <2>5, <2>6, <2>9 DEF LendInv
<1>. QED
  BY <1>2, <1>3, <1>13, <1>14

(* The market moves: nothing of it touches a job, a loan or who holds what. *)
LEMMA MarketKeeps ==
  ASSUME LendInv, chain' \in ChainType, Held' = Held, SameLoans(chain, chain'),
         chain'.nextId >= chain.nextId,
         accruals' \in 0 .. MaxAccruals,
         UNCHANGED <<job, late, executed, disturbed, raced>>
  PROVE  LendInv'
<1>1. TypeOK /\ JobsSound /\ LateSound /\ OneShot /\ OperatesOnce /\ CreationInv /\ LoanInv
  BY DEF LendInv
<1>2. TypeOK'
  BY <1>1 DEF TypeOK, ChainType
<1>3. JobsSound' /\ LateSound' /\ OneShot' /\ OperatesOnce'
  BY <1>1 DEF JobsSound, LateSound, OneShot, OperatesOnce
<1>4. CreationInv'
  <2>1. (Distant => Distant') /\ (HeldBelow => HeldBelow')
    BY <1>1, DistantStays DEF TypeOK, ChainType
  <2>. QED
    BY <1>1, <2>1 DEF CreationInv, OnePositionUnlessRaced
<1>5. LoanInv'
  <2>1. owed' = owed
    BY DEF owed
  <2>2. (Undisturbed' <=> Undisturbed) /\ late' = late
    BY DEF Undisturbed
  <2>3. chain'.sol = chain.sol /\ chain'.lamports = chain.lamports
    BY DEF SameLoans
  <2>. QED
    BY <1>1, <2>1, <2>2, <2>3, Zenon DEF LoanInv
<1>. QED
  BY <1>2, <1>3, <1>4, <1>5 DEF LendInv

(* Interest touches no job and no lamport.                                 *)
LEMMA AccrueKeeps ==
  ASSUME LendInv, Accrue
  PROVE  LendInv'
<1>1. /\ chain \in ChainType /\ accruals \in 0 .. MaxAccruals /\ accruals < MaxAccruals
      /\ accruals' = accruals + 1 /\ UNCHANGED <<job, late, executed, disturbed, raced>>
  BY DEF LendInv, TypeOK, ChainType, Accrue
<1>2. PICK i \in Ids : chain' = [chain EXCEPT !.positions[i].debt = @ + 1]
  BY DEF Accrue
<1>3. PICK debt \in Nat : debt = chain.positions[i].debt + 1
  <2>1. chain.positions[i].debt + 1 \in Nat
    BY <1>1 DEF ChainType, Position
  <2>. QED
    BY <2>1
<1>4. PICK positions \in [Ids -> Position] :
        /\ positions = [chain.positions EXCEPT ![i].debt = debt]
        /\ \A k \in Ids : positions[k].held = chain.positions[k].held
  <2>1. PICK p : p = [chain.positions EXCEPT ![i].debt = debt]
    OBVIOUS
  <2>2. p \in [Ids -> Position] /\ \A k \in Ids : p[k].held = chain.positions[k].held
    BY <1>1, <2>1 DEF ChainType, Position
  <2>. QED
    BY <2>1, <2>2
<1>5. chain' = [chain EXCEPT !.positions = positions]
  BY <1>1, <1>2, <1>3, <1>4 DEF ChainType
<1>6. /\ chain' \in ChainType /\ chain'.positions = positions /\ SameLoans(chain, chain')
      /\ chain'.nextId >= chain.nextId
  BY <1>1, <1>5 DEF ChainType, SameLoans
<1>7. Held' = Held
  BY <1>4, <1>6 DEF Held
<1>8. accruals' \in 0 .. MaxAccruals
  BY <1>1, LendAssumption
<1>. QED
  BY <1>1, <1>6, <1>7, <1>8, MarketKeeps

(* Nor does another user of the market.                                    *)
LEMMA StrangerKeeps ==
  ASSUME LendInv, StrangerTakesId
  PROVE  LendInv'
<1>1. /\ chain \in ChainType /\ accruals' \in 0 .. MaxAccruals
      /\ chain' = [chain EXCEPT !.nextId = @ + 1]
      /\ UNCHANGED <<job, late, executed, disturbed, raced>>
  BY DEF LendInv, TypeOK, ChainType, StrangerTakesId
<1>2. /\ chain' \in ChainType /\ chain'.positions = chain.positions
      /\ SameLoans(chain, chain') /\ chain'.nextId >= chain.nextId
  BY <1>1 DEF ChainType, SameLoans
<1>3. Held' = Held
  BY <1>2 DEF Held
<1>. QED
  BY <1>1, <1>2, <1>3, MarketKeeps

(* A quiet step keeps the invariant.                                       *)
LEMMA QuietKeeps ==
  ASSUME LendInv, NEW j \in Jobs, Quiet(j)
  PROVE  LendInv'
BY QuietKeepsJobs, QuietKeepsLoans DEF LendInv

(* An executed transaction keeps it.                                       *)
LEMMA SentKeeps ==
  ASSUME LendInv, NEW j \in Jobs, SendExecuted(j)
  PROVE  LendInv'
BY SentKeepsJobs, SentKeepsLoans DEF LendInv

(* Every step keeps it.                                                    *)
LEMMA LendStep ==
  ASSUME LendInv, [Next]_vars
  PROVE  LendInv'
<1>1. ASSUME NEW j \in Jobs, Serve(j) PROVE LendInv'
  BY <1>1, ServeIsQuiet, QuietKeeps
<1>2. ASSUME NEW j \in Jobs, ReadSafe(j) PROVE LendInv'
  BY <1>2, ReadSafeIsQuiet, QuietKeeps
<1>3. ASSUME NEW j \in Jobs, Find(j) PROVE LendInv'
  BY <1>3, FindIsQuiet, QuietKeeps
<1>4. ASSUME NEW j \in Jobs, SetUp(j) PROVE LendInv'
  BY <1>4, SetUpIsQuiet, QuietKeeps
<1>5. ASSUME NEW j \in Jobs, BuildDeposit(j) PROVE LendInv'
  BY <1>5, BuildDepositIsQuiet, QuietKeeps
<1>6. ASSUME NEW j \in Jobs, BuildWithdraw(j) PROVE LendInv'
  BY <1>6, BuildWithdrawIsQuiet, QuietKeeps
<1>7. ASSUME NEW j \in Jobs, BuildBorrow(j) PROVE LendInv'
  BY <1>7, BuildBorrowIsQuiet, QuietKeeps
<1>8. ASSUME NEW j \in Jobs, BuildRepay(j) PROVE LendInv'
  BY <1>8, BuildRepayIsQuiet, QuietKeeps
<1>9. ASSUME NEW j \in Jobs, SendExecuted(j) PROVE LendInv'
  BY <1>9, SentKeeps
<1>10. ASSUME NEW j \in Jobs, SendRefused(j) PROVE LendInv'
  BY <1>10, RefusedIsQuiet, QuietKeeps
<1>11. ASSUME NEW j \in Jobs, SendLost(j) PROVE LendInv'
  BY <1>11, LostKeeps
<1>12. ASSUME Environment PROVE LendInv'
  BY <1>12, LandsLateKeeps, AccrueKeeps, StrangerKeeps DEF Environment
<1>13. ASSUME UNCHANGED vars PROVE LendInv'
  <2>1. /\ UNCHANGED <<job, late, executed, disturbed, raced>>
        /\ chain' = chain /\ accruals' = accruals
    BY <1>13 DEF vars
  <2>2. /\ chain' \in ChainType /\ accruals' \in 0 .. MaxAccruals /\ SameLoans(chain, chain')
        /\ chain'.nextId >= chain.nextId
    BY <2>1 DEF LendInv, TypeOK, ChainType, SameLoans
  <2>3. Held' = Held
    BY <2>1 DEF Held
  <2>. QED
    BY <2>1, <2>2, <2>3, MarketKeeps
<1>. QED
  BY <1>1, <1>2, <1>3, <1>4, <1>5, <1>6, <1>7, <1>8, <1>9, <1>10, <1>11, <1>12, <1>13
  DEF Next, JobStep, Done

(* At the start no job is at work, the Safe holds at most one position and *)
(* owes nothing.                                                           *)
LEMMA LendInit ==
  ASSUME Init
  PROVE  LendInv
<1>1. PICK allowed \in {{}, {"lend", "kvault"}}, debt \in {0} \cup Debts :
        LET has == IF debt = 0 THEN {} ELSE {1} IN
        chain = [positions |-> [i \in Ids |-> [held |-> i \in has,
                                               col |-> IF i \in has THEN Deposited ELSE 0,
                                               debt |-> IF i \in has THEN debt ELSE 0]],
                 nextId |-> 1 + Cardinality(has), allowed |-> allowed,
                 col |-> Deposited, usdc |-> Idle, shares |-> 0,
                 lamports |-> SafeLamports, sol |-> ExecutorLamports]
  BY DEF Init
<1>2. PICK has \in {{}, {1}} : has = IF debt = 0 THEN {} ELSE {1}
  OBVIOUS
<1>3. Cardinality(has) \in Nat /\ Cardinality(has) <= 1
  BY <1>2, FS_EmptySet, FS_Singleton
<1>4. chain \in ChainType /\ chain.lamports = SafeLamports /\ chain.sol = ExecutorLamports
  <2>1. debt \in Nat /\ Deposited \in Nat /\ Idle \in Nat
        /\ SafeLamports \in Nat /\ ExecutorLamports \in Nat
    BY LendAssumption
  <2>2. PICK positions \in [Ids -> Position] :
          positions = [i \in Ids |-> [held |-> i \in has,
                                      col |-> IF i \in has THEN Deposited ELSE 0,
                                      debt |-> IF i \in has THEN debt ELSE 0]]
    <3>1. PICK p : p = [i \in Ids |-> [held |-> i \in has,
                                       col |-> IF i \in has THEN Deposited ELSE 0,
                                       debt |-> IF i \in has THEN debt ELSE 0]]
      OBVIOUS
    <3>2. p \in [Ids -> Position]
      BY <2>1, <3>1 DEF Position
    <3>. QED
      BY <3>1, <3>2
  <2>3. PICK n \in Nat : n = 1 + Cardinality(has)
    BY <1>3
  <2>4. chain = [positions |-> positions, nextId |-> n, allowed |-> allowed,
                 col |-> Deposited, usdc |-> Idle, shares |-> 0,
                 lamports |-> SafeLamports, sol |-> ExecutorLamports]
    BY <1>1, <1>2, <2>2, <2>3
  <2>. QED
    BY <2>1, <2>4 DEF ChainType
<1>5. /\ job = [j \in Jobs |-> [request |-> NoRequest, pc |-> "idle", id |-> NoPosition,
                                plan |-> <<>>, safety |-> 0, status |-> "none"]]
      /\ late = {} /\ executed = [j \in Jobs |-> 0] /\ disturbed = [j \in Jobs |-> FALSE]
      /\ raced = FALSE /\ accruals = 0
  BY DEF Init
<1>6. NoRequest \in Request
  BY DEF NoRequest, Request, Kinds
<1>7. ASSUME NEW j \in Jobs
      PROVE  /\ job[j] \in Job /\ JobSound(job[j]) /\ job[j].pc = "idle"
             /\ job[j].status = "none" /\ job[j].safety = 0
  <2>1. PICK empty \in Seq(Tx) : empty = <<>>
    BY EmptySeq, Zenon
  <2>2. PICK b : b = [request |-> NoRequest, pc |-> "idle", id |-> NoPosition,
                      plan |-> empty, safety |-> 0, status |-> "none"]
    OBVIOUS
  <2>3. job[j] = b
    BY <1>5, <2>1, <2>2
  <2>4. b \in Job /\ b.pc = "idle" /\ b.status = "none" /\ b.safety = 0 /\ b.plan = <<>>
    BY <1>6, <2>1, <2>2 DEF Job
  <2>. QED
    BY <2>3, <2>4 DEF JobSound
<1>8. TypeOK
  <2>1. job \in [Jobs -> Job]
    BY <1>5, <1>7
  <2>2. executed \in [Jobs -> Nat] /\ disturbed \in [Jobs -> BOOLEAN] /\ raced \in BOOLEAN
    BY <1>5
  <2>3. late \subseteq Jobs \X Tx /\ accruals \in 0 .. MaxAccruals
    BY <1>5, LendAssumption
  <2>. QED
    BY <1>4, <2>1, <2>2, <2>3 DEF TypeOK, ChainType
<1>9. JobsSound /\ LateSound /\ OneShot /\ OperatesOnce
  BY <1>5, <1>7 DEF JobsSound, LateSound, OneShot, OperatesOnce
<1>10. CreationInv
  <2>1. Held \subseteq has /\ chain.nextId = 1 + Cardinality(has)
    BY <1>1, <1>2 DEF Held
  <2>2. \A i \in Held : i = 1
    BY <1>2, <2>1
  <2>3. OnePositionUnlessRaced
    BY <2>2 DEF OnePositionUnlessRaced
  <2>4. HeldBelow
    <3>1. has = {1} => chain.nextId = 2
      BY <2>1, FS_Singleton
    <3>. QED
      BY <1>2, <2>1, <2>2, <3>1 DEF HeldBelow
  <2>. QED
    BY <1>5, <1>7, <2>3, <2>4 DEF CreationInv, Creates
<1>11. LoanInv
  <2>1. \A j \in Jobs : owed[j] = 0
    BY <1>5, <1>7, OwesNothing DEF owed
  <2>2. SumOf(owed, {}) = SumOf(owed, Jobs)
    <3>1. IsFiniteSet(Jobs) /\ {} \subseteq Jobs /\ \A j \in Jobs : owed[j] \in Int
      BY <2>1, LendAssumption
    <3>2. \A j \in Jobs \ {} : owed[j] = 0
      BY <2>1
    <3>3. PICK f : f = owed
      OBVIOUS
    <3>. QED
      BY <3>1, <3>2, <3>3, SumIgnoresZeros
  <2>3. SumOf(owed, Jobs) = 0
    BY <2>2, SumEmpty, Zenon
  <2>4. SafeLamports <= SafeCap /\ SafeCap \in Nat
    <3>1. PICK floor \in Nat : floor = RentMinimum + VAULT_PDA_REFUND_RESERVE
      BY LendAssumption
    <3>2. Max({SafeLamports, floor}) \in Nat /\ SafeLamports <= Max({SafeLamports, floor})
      BY LendAssumption, MaxOfTwo
    <3>. QED
      BY <3>1, <3>2 DEF SafeCap
  <2>5. SafeLamports \in Nat /\ ExecutorLamports \in Nat
    BY LendAssumption
  <2>6. chain.sol + 0 <= ExecutorLamports /\ chain.lamports <= SafeCap + 0
    BY <1>4, <2>4, <2>5
  <2>. QED
    BY <1>5, <2>3, <2>6, Zenon DEF LoanInv
<1>. QED
  BY <1>8, <1>9, <1>10, <1>11 DEF LendInv

-----------------------------------------------------------------------------
(* What follows for every run. *)

(* The invariant of the protocol jobs.                                     *)
LEMMA LendInvariant == Spec => []LendInv
<1>1. Init => LendInv
  BY LendInit
<1>2. LendInv /\ [Next]_vars => LendInv'
  BY LendStep
<1>. QED
  BY <1>1, <1>2, PTL DEF Spec

(* The chain and the jobs keep their types: no balance, debt or collateral *)
(* of jupiterBorrow.ts and kaminoKvault.ts ever goes below zero.           *)
THEOREM LendTypeCorrect == Spec => []TypeOK
<1>1. LendInv => TypeOK
  BY DEF LendInv
<1>. QED
  BY <1>1, LendInvariant, PTL

(* However many requests runRebalance.ts serves side by side, none of them *)
(* takes effect twice, also if one of its transactions is lost and lands   *)
(* later or a repayment is tried again.                                    *)
THEOREM EachRequestOperatesOnce == Spec => []OperatesOnce
<1>1. LendInv => OperatesOnce
  BY DEF LendInv
<1>. QED
  BY <1>1, LendInvariant, PTL

(* jupiterBorrow.ts creates a second position of the Safe within the reach *)
(* of its scan only when the creation was disturbed after the scan; beyond *)
(* DEFAULT_POSITION_SCAN_DEPTH ids it needs no race to create one.         *)
THEOREM SecondPositionNeedsRace == Spec => []OnePositionUnlessRaced
<1>1. LendInv => OnePositionUnlessRaced
  BY DEF LendInv, CreationInv
<1>. QED
  BY <1>1, LendInvariant, PTL

(* The lamports of the top-up come back to the executor once every request *)
(* is answered, and it never gains; what is still out is owed by name.     *)
THEOREM EveryTopUpComesBack == Spec => []TopUpComesBack
<1>1. ASSUME LendInv PROVE TopUpComesBack
  <2>1. PICK s \in Nat : s = SumOf(owed, Jobs)
    BY <1>1, OwedType
  <2>2. chain.sol \in Nat /\ chain.lamports \in Nat
    BY <1>1 DEF LendInv, TypeOK
  <2>3. chain.sol + s <= ExecutorLamports
    BY <1>1, <2>1 DEF LendInv, LoanInv
  <2>4. chain.sol <= ExecutorLamports
    BY <2>1, <2>2, <2>3, LendAssumption
  <2>5. ASSUME late = {},
               \A j \in Jobs : /\ job[j].status # "error"
                               /\ job[j].pc \in {"idle", "done"} /\ job[j].safety = 0
        PROVE  chain.lamports <= SafeCap
    <3>1. \A j \in Jobs : owed[j] = 0
      BY <2>5, OwesNothing DEF owed
    <3>2. PICK f : f = owed
      OBVIOUS
    <3>3. IsFiniteSet(Jobs) /\ {} \subseteq Jobs /\ \A j \in Jobs : f[j] \in Int /\ f[j] = 0
      BY <3>1, <3>2, LendAssumption
    <3>4. SumOf(f, {}) = SumOf(f, Jobs)
      BY <3>3, SumIgnoresZeros
    <3>5. s = 0
      BY <2>1, <3>2, <3>4, SumEmpty, Zenon
    <3>6. chain.lamports <= SafeCap + s
      BY <1>1, <2>1, <2>5 DEF LendInv, LoanInv, Undisturbed
    <3>7. SafeCap \in Int
      <4>1. PICK floor \in Nat : floor = RentMinimum + VAULT_PDA_REFUND_RESERVE
        BY LendAssumption
      <4>2. Max({SafeLamports, floor}) \in Int
        BY LendAssumption, MaxOfTwo
      <4>. QED
        BY <4>1, <4>2 DEF SafeCap
    <3>. QED
      BY <3>5, <3>6, <3>7
  <2>. QED
    BY <2>4, <2>5 DEF TopUpComesBack, SafeCap
<1>. QED
  BY <1>1, LendInvariant, PTL

-----------------------------------------------------------------------------
(* Full repayments. *)

(* The last transaction of a plan is one.                                  *)
LEMMA LastInPlan ==
  ASSUME NEW plan \in Seq(Tx), Len(plan) \in {1, 2}
  PROVE  plan[Len(plan)] \in Tx
<1>1. Len(plan) \in 1 .. Len(plan)
  OBVIOUS
<1>. QED
  BY <1>1, ElementOfSeq

(* A job that neither acted nor was disturbed still repays what it planned *)
(* to, however much interest was added.                                    *)
LEMMA RepayStays ==
  ASSUME LendInv, NEW k \in Jobs, RepaysAll(job[k]) => disturbed[k] \/ RepayPlanned(job[k]),
         NEW c \in ChainType, c = chain', NEW grown \in {0, 1}, accruals' = accruals + grown,
         \A i \in Ids : \E more \in {0, 1} :
           c.positions[i].debt = chain.positions[i].debt + more /\ more <= grown,
         job'[k] = job[k], disturbed'[k] = disturbed[k]
  PROVE  RepaysAll(job'[k]) => disturbed'[k] \/ RepayPlanned(job[k])'
<1>. SUFFICES ASSUME RepaysAll(job[k]), ~disturbed[k]
              PROVE  RepayPlanned(job[k])'
  OBVIOUS
<1>1. PICK b \in Job : b = job[k] /\ JobSound(b)
  BY DEF LendInv, TypeOK, JobsSound
<1>2. PICK tx \in Tx : tx = b.plan[Len(b.plan)] /\ b.id \in Ids
  <2>1. b.plan \in Seq(Tx) /\ (LastPlan(b) \/ ToppedUpPlan(b))
    BY <1>1 DEF Job, JobSound, RepaysAll
  <2>2. Len(b.plan) \in {1, 2} /\ b.id \in Ids
    BY <2>1 DEF LastPlan, ToppedUpPlan, OperateNext
  <2>3. b.plan[Len(b.plan)] \in Tx
    <3>1. PICK plan \in Seq(Tx) : plan = b.plan
      BY <2>1
    <3>2. Len(plan) \in {1, 2}
      BY <2>2, <3>1
    <3>3. plan[Len(plan)] \in Tx
      BY <3>2, LastInPlan
    <3>. QED
      BY <3>1, <3>3
  <2>. QED
    BY <2>2, <2>3
<1>3. PICK margin \in {JUPITER_REPAY_SAFETY_FULL, JUPITER_REPAY_SAFETY_MEDIUM} :
        /\ b.safety # 0 => margin = JUPITER_REPAY_SAFETY_MEDIUM
        /\ chain.positions[b.id].debt + tx.debt * SCALE
             \in margin * SCALE .. margin * SCALE + SCALE - 1 + accruals
  BY <1>1, <1>2 DEF RepayPlanned
<1>4. PICK low, change \in Int : low = margin * SCALE /\ change = tx.debt * SCALE
  <2>1. margin * SCALE \in Int /\ tx.debt * SCALE \in Int
    BY LendAssumption DEF Tx
  <2>. QED
    BY <2>1
<1>5. PICK debt, after \in Nat :
        /\ debt = chain.positions[b.id].debt /\ after = c.positions[b.id].debt
        /\ after \in debt .. debt + grown
  <2>1. chain.positions[b.id].debt \in Nat /\ c.positions[b.id].debt \in Nat
    BY <1>2 DEF LendInv, TypeOK, ChainType, Position
  <2>2. PICK more \in {0, 1} : c.positions[b.id].debt = chain.positions[b.id].debt + more
                               /\ more <= grown
    BY <1>2
  <2>. QED
    BY <2>1, <2>2
<1>6. PICK now \in Nat : now = accruals' /\ now = accruals + grown
  <2>1. accruals + grown \in Nat
    BY LendAssumption DEF LendInv, TypeOK
  <2>. QED
    BY <2>1
<1>7. after + change \in low .. low + SCALE - 1 + now
  <2>1. accruals \in Nat /\ SCALE \in Nat
    BY LendAssumption DEF LendInv, TypeOK
  <2>. QED
    BY <1>3, <1>4, <1>5, <1>6, <2>1
<1>8. c.positions[b.id].debt + tx.debt * SCALE \in margin * SCALE .. margin * SCALE + SCALE - 1 + now
  BY <1>4, <1>5, <1>7
<1>. QED
  BY <1>1, <1>2, <1>3, <1>6, <1>8, Zenon DEF RepayPlanned

(* The chain as it was.                                                    *)
LEMMA RepayUntouched ==
  ASSUME LendInv, RepayInv, NEW k \in Jobs, UNCHANGED <<chain, accruals>>,
         job'[k] = job[k], disturbed'[k] = disturbed[k]
  PROVE  RepaysAll(job'[k]) => disturbed'[k] \/ RepayPlanned(job[k])'
<1>1. PICK c \in ChainType : c = chain' /\ c = chain
  BY DEF LendInv, TypeOK, ChainType
<1>2. PICK grown \in {0, 1} : grown = 0
  OBVIOUS
<1>3. accruals' = accruals + grown
  BY <1>2 DEF LendInv, TypeOK
<1>4. ASSUME NEW i \in Ids
      PROVE  \E more \in {0, 1} :
               c.positions[i].debt = chain.positions[i].debt + more /\ more <= grown
  <2>1. chain.positions[i].debt \in Nat
    BY <1>1 DEF ChainType, Position
  <2>. QED
    BY <1>1, <1>2, <2>1
<1>5. RepaysAll(job[k]) => disturbed[k] \/ RepayPlanned(job[k])
  BY DEF RepayInv
<1>. QED
  BY <1>1, <1>3, <1>4, <1>5, RepayStays

(* A step of a job that changes nothing of the chain: enough to look at    *)
(* that job.                                                               *)
LEMMA QuietKeepsRepay ==
  ASSUME LendInv, RepayInv, NEW j \in Jobs, Quiet(j),
         RepaysAll(job'[j]) => disturbed'[j] \/ RepayPlanned(job[j])'
  PROVE  RepayInv'
<1>1. /\ job \in [Jobs -> Job] /\ UNCHANGED <<chain, accruals>>
      /\ \A k \in Jobs \ {j} : disturbed'[k] = disturbed[k]
      /\ \E b \in Job : job' = [job EXCEPT ![j] = b]
  BY DEF Quiet, LendInv, TypeOK
<1>2. \A k \in Jobs \ {j} : job'[k] = job[k]
  BY <1>1
<1>3. \A k \in Jobs \ {j} : RepaysAll(job'[k]) => disturbed'[k] \/ RepayPlanned(job[k])'
  BY <1>1, <1>2, RepayUntouched
<1>. QED
  BY <1>3 DEF RepayInv

(* Only BuildRepay plans a full repayment.                                 *)
LEMMA OthersDoNotRepay ==
  ASSUME LendInv, NEW j \in Jobs,
         \/ Serve(j) \/ ReadSafe(j) \/ Find(j) \/ SetUp(j)
         \/ BuildDeposit(j) \/ BuildWithdraw(j) \/ BuildBorrow(j) \/ SendRefused(j)
  PROVE  ~RepaysAll(job'[j])
<1>1. job \in [Jobs -> Job] /\ JobSound(job[j]) /\ job[j] \in Job
  BY DEF LendInv, TypeOK, JobsSound
<1>2. ASSUME NEW b, job' = [job EXCEPT ![j] = b] PROVE job'[j] = b
  BY <1>1, <1>2
<1>3. ASSUME NEW status PROVE ~RepaysAll(Answer(job[j], status))
  BY <1>1 DEF Answer, RepaysAll, Job
<1>4. CASE Serve(j)
  <2>1. PICK r \in Requests :
          job' = [job EXCEPT ![j] =
                    IF Accepted(r) THEN [@ EXCEPT !.request = r, !.pc = "read"]
                    ELSE Answer([@ EXCEPT !.request = r, !.pc = "read"], "error")]
    BY <1>4 DEF Serve
  <2>2. job'[j].pc # "send"
    BY <1>1, <2>1 DEF Answer, Job
  <2>. QED
    BY <2>2 DEF RepaysAll
<1>5. CASE ReadSafe(j)
  <2>1. CASE /\ Program(job[j].request.kind) = "kvault"
             /\ Read(j, [job[j] EXCEPT !.pc = "send", !.plan = <<KvaultTx(job[j].request)>>])
    <3>1. job'[j].request = job[j].request
      BY <1>1, <2>1 DEF Read, Job
    <3>. QED
      BY <2>1, <3>1 DEF RepaysAll, Program
  <2>2. CASE Read(j, [job[j] EXCEPT
                        !.pc = IF job[j].request.position = NoPosition THEN "find" ELSE "build",
                        !.id = job[j].request.position])
    <3>1. job'[j].pc # "send"
      BY <1>1, <2>2 DEF Read, Job
    <3>. QED
      BY <3>1 DEF RepaysAll
  <2>3. ASSUME NEW status, Read(j, Answer(job[j], status)) PROVE ~RepaysAll(job'[j])
    BY <1>2, <1>3, <2>3 DEF Read
  <2>. QED
    BY <1>5, <2>1, <2>2, <2>3 DEF ReadSafe
<1>6. CASE Find(j)
  <2>1. ASSUME NEW i, Read(j, [job[j] EXCEPT !.pc = "build", !.id = i])
        PROVE  ~RepaysAll(job'[j])
    BY <1>1, <2>1 DEF Read, Job, RepaysAll
  <2>2. ASSUME Read(j, [job[j] EXCEPT !.pc = "setup"]) PROVE ~RepaysAll(job'[j])
    BY <1>1, <2>2 DEF Read, Job, RepaysAll
  <2>3. ASSUME NEW status, Read(j, Answer(job[j], status)) PROVE ~RepaysAll(job'[j])
    BY <1>2, <1>3, <2>3 DEF Read
  <2>. QED
    BY <1>6, <2>1, <2>2, <2>3 DEF Find
<1>7. CASE SetUp(j)
  <2>1. job[j].request.kind = "deposit"
    BY <1>1, <1>7 DEF JobSound, SetUp
  <2>2. CASE job' = [job EXCEPT ![j].pc = "send", ![j].id = chain.nextId,
                       ![j].plan = <<[op |-> "init", id |-> chain.nextId, col |-> 0, debt |-> 0,
                                      all |-> FALSE, topUp |-> 0, refund |-> 0]>>]
    <3>1. job'[j].request = job[j].request
      BY <1>1, <2>2 DEF Job
    <3>. QED
      BY <2>1, <3>1 DEF RepaysAll
  <2>3. CASE job' = [job EXCEPT ![j] = Answer(@, "error")]
    BY <1>2, <1>3, <2>3
  <2>. QED
    BY <1>7, <2>2, <2>3 DEF SetUp
<1>8. ASSUME NEW ops, Build(j, ops), job[j].request.kind # "repay" PROVE ~RepaysAll(job'[j])
  <2>1. ASSUME NEW plan, Read(j, [job[j] EXCEPT !.pc = "send", !.plan = plan])
        PROVE  ~RepaysAll(job'[j])
    <3>1. job'[j].request = job[j].request
      BY <1>1, <2>1 DEF Read, Job
    <3>. QED
      BY <1>8, <3>1 DEF RepaysAll
  <2>2. ASSUME NEW status, Read(j, Answer(job[j], status)) PROVE ~RepaysAll(job'[j])
    BY <1>2, <1>3, <2>2 DEF Read
  <2>. QED
    BY <1>8, <2>1, <2>2 DEF Build
<1>9. CASE SendRefused(j)
  <2>1. ASSUME NEW tooLow \in BOOLEAN, Tell(j, Refusal(job[j], tooLow))
        PROVE  ~RepaysAll(job'[j])
    <3>1. job'[j] = Refusal(job[j], tooLow)
      BY <1>2, <2>1 DEF Tell
    <3>2. CASE job'[j] = [job[j] EXCEPT !.pc = "build", !.plan = <<>>,
                                        !.safety = JUPITER_REPAY_SAFETY_MEDIUM]
      BY <1>1, <3>2 DEF Job, RepaysAll
    <3>3. CASE \E status : job'[j] = Answer(job[j], status)
      BY <1>3, <3>3
    <3>. QED
      BY <3>1, <3>2, <3>3 DEF Refusal
  <2>. QED
    BY <1>9, <2>1 DEF SendRefused
<1>. QED
  BY <1>4, <1>5, <1>6, <1>7, <1>8, <1>9 DEF BuildDeposit, BuildWithdraw, BuildBorrow

(* BuildRepay leaves the margin of what it read: of a debt above the dust, *)
(* rounded down to whole units.                                            *)
LEMMA MarginKept ==
  ASSUME LendInv, NEW j \in Jobs, BuildRepay(j), job[j].request.max,
         NEW debt \in Nat, debt = UserDebt(job[j].id),
         NEW margin, margin = Safety(debt, job[j].safety),
         NEW needsRent \in BOOLEAN,
         Read(j, Planned(job[j], Operate(job[j].id, 0, margin - debt), needsRent))
  PROVE  RepayPlanned(job[j])'
<1>1. PICK b \in Job : /\ b = job[j] /\ JobSound(b) /\ b.pc = "build" /\ b.id \in Ids
                       /\ b.safety \in {0, JUPITER_REPAY_SAFETY_MEDIUM}
  BY DEF LendInv, TypeOK, JobsSound, JobSound, BuildRepay
<1>2. /\ margin \in {JUPITER_REPAY_SAFETY_FULL, JUPITER_REPAY_SAFETY_MEDIUM} /\ margin \in Nat
      /\ b.safety # 0 => margin = JUPITER_REPAY_SAFETY_MEDIUM
  BY <1>1, LendAssumption DEF Safety
<1>3. PICK op : op = Operate(b.id, 0, margin - debt)
  OBVIOUS
<1>4. OperationOn(b.id, op) /\ op.debt = margin - debt /\ op \in Tx
  <2>1. margin - debt \in Int
    BY <1>2
  <2>2. OperationOn(b.id, op) /\ op.debt = margin - debt
    BY <1>1, <1>3, <2>1, OperateType
  <2>. QED
    BY <2>2 DEF OperationOn
<1>5. PICK d : d = Planned(b, op, needsRent)
  OBVIOUS
<1>6. d.plan = WithTopUp(op, needsRent)
  BY <1>5 DEF Planned, Job
<1>7. d.plan[Len(d.plan)].debt = op.debt
  <2>1. CASE ~needsRent
    BY <1>6, <2>1 DEF WithTopUp
  <2>2. CASE needsRent
    <3>1. PICK setup, last : d.plan = <<setup, last>> /\ last = [op EXCEPT !.refund = PlanTopUp(needsRent)]
      BY <1>6, <2>2, Zenon DEF WithTopUp
    <3>2. last.debt = op.debt
      BY <1>4, <3>1 DEF Tx
    <3>3. Len(d.plan) = 2 /\ d.plan[2] = last
      BY <3>1
    <3>. QED
      BY <3>2, <3>3
  <2>. QED
    BY <2>1, <2>2
<1>8. d.id = b.id /\ d.safety = b.safety
  <2>1. chain.lamports \in Nat /\ chain.sol \in Nat
    BY DEF LendInv, TypeOK
  <2>. QED
    BY <1>1, <1>5 DEF Planned, Job
<1>9. job'[j] = d /\ UNCHANGED <<chain, accruals>>
  BY <1>1, <1>3, <1>5 DEF Read, LendInv, TypeOK
<1>10. PICK fine \in Nat : /\ fine = chain.positions[b.id].debt
                           /\ fine \in debt * SCALE .. debt * SCALE + SCALE - 1
  <2>1. chain \in ChainType
    BY DEF LendInv, TypeOK, ChainType
  <2>2. /\ chain.positions[b.id].debt \in Nat
        /\ chain.positions[b.id].debt \in debt * SCALE .. debt * SCALE + SCALE - 1
    BY <1>1, <2>1, UserDebtType DEF ChainType, Position
  <2>. QED
    BY <2>2
<1>11. fine + (margin - debt) * SCALE \in margin * SCALE .. margin * SCALE + SCALE - 1 + accruals
  <2>1. PICK low, owing \in Nat : low = margin * SCALE /\ owing = debt * SCALE
    BY <1>2, LendAssumption
  <2>2. (margin - debt) * SCALE = low - owing
    BY <1>2, <2>1, LendAssumption
  <2>3. accruals \in Nat /\ SCALE \in Nat
    BY LendAssumption DEF LendInv, TypeOK
  <2>. QED
    BY <1>10, <2>1, <2>2, <2>3
<1>12. chain.positions[d.id].debt + d.plan[Len(d.plan)].debt * SCALE
         \in margin * SCALE .. margin * SCALE + SCALE - 1 + accruals
  BY <1>4, <1>7, <1>8, <1>10, <1>11
<1>. QED
  BY <1>2, <1>8, <1>9, <1>12, Zenon DEF RepayPlanned

(* The plan of a full repayment covers the debt with the margin of its     *)
(* attempt.                                                                *)
LEMMA BuildRepayKeepsRepay ==
  ASSUME LendInv, NEW j \in Jobs, BuildRepay(j)
  PROVE  RepaysAll(job'[j]) => disturbed'[j] \/ RepayPlanned(job[j])'
<1>1. /\ job \in [Jobs -> Job] /\ job[j] \in Job /\ job[j].id \in Ids
  BY DEF LendInv, TypeOK, JobsSound, JobSound, BuildRepay
<1>2. ASSUME NEW status, Read(j, Answer(job[j], status)) PROVE ~RepaysAll(job'[j])
  BY <1>1, <1>2 DEF Read, Answer, RepaysAll, Job
<1>3. ASSUME ~job[j].request.max, NEW plan,
             Read(j, [job[j] EXCEPT !.pc = "send", !.plan = plan])
      PROVE  ~RepaysAll(job'[j])
  BY <1>1, <1>3 DEF Read, RepaysAll, Job
<1>4. CASE ~job[j].request.max
  BY <1>2, <1>3, <1>4 DEF BuildRepay, Build
<1>5. CASE job[j].request.max
  <2>1. chain \in ChainType
    BY DEF LendInv, TypeOK, ChainType
  <2>2. PICK debt \in Nat : debt = UserDebt(job[j].id)
    BY <1>1, <2>1, UserDebtType
  <2>3. PICK margin : margin = Safety(debt, job[j].safety)
    OBVIOUS
  <2>4. \/ Read(j, Answer(job[j], "success"))
        \/ Read(j, Answer(job[j], "error"))
        \/ \E needsRent \in BOOLEAN :
             Read(j, Planned(job[j], Operate(job[j].id, 0, margin - debt), needsRent))
    BY <1>5, <2>2, <2>3 DEF BuildRepay, Build, Planned
  <2>. QED
    BY <1>2, <1>5, <2>2, <2>3, <2>4, MarginKept
<1>. QED
  BY <1>4, <1>5

(* The top-up leaves every debt as it was, and the repayment is still to   *)
(* come; with any other transaction the job is at its end.                 *)
LEMMA SentKeepsRepay ==
  ASSUME LendInv, RepayInv, NEW j \in Jobs, SendExecuted(j)
  PROVE  RepayInv'
<1>1. PICK b \in Job : b = job[j] /\ JobSound(b) /\ b.pc = "send"
  BY DEF LendInv, TypeOK, JobsSound, SendExecuted
<1>2. PICK d : d = Proceed(b)
  OBVIOUS
<1>3. PICK tx \in Tx : tx = Head(b.plan)
  BY <1>1, NextSent
<1>4. /\ Executes(j, tx) /\ job' = [job EXCEPT ![j] = d] /\ accruals' = accruals
      /\ job \in [Jobs -> Job]
  BY <1>1, <1>2, <1>3 DEF SendExecuted, Tell, LendInv, TypeOK
<1>5. executed[j] = 0
  BY <1>1 DEF LendInv, OneShot
<1>6. /\ tx.op \in {"init", "operate"} => tx.id \in Ids
      /\ tx.op = "init" => disturbed[j] \/ Distant
      /\ Len(b.plan) = 2 => tx.op = "setup"
      /\ Len(b.plan) \in {1, 2}
  BY <1>1, <1>3, NextSent DEF LendInv, CreationInv, Creates
<1>7. Effect(tx, chain, chain') /\ \A k \in Jobs \ {j} : disturbed'[k]
  BY <1>4, <1>5, <1>6, ExecutesKeeps
<1>8. job'[j] = d
  BY <1>4
<1>9. ASSUME RepaysAll(d), ~disturbed'[j] PROVE RepayPlanned(job[j])'
  <2>1. /\ d.pc = "send" /\ d.request = b.request /\ d.safety = b.safety /\ d.id = b.id
        /\ Len(b.plan) = 2 => Len(d.plan) = 1 /\ d.plan[1] = b.plan[2]
        /\ Len(b.plan) = 1 => d.pc # "send"
    BY <1>1, <1>2, <1>9, ProceedEffect DEF RepaysAll
  <2>2. Len(b.plan) = 2
    BY <1>6, <2>1
  <2>3. tx.op = "setup" /\ RepaysAll(b) /\ b.id \in Ids
    BY <1>1, <1>6, <1>9, <2>1, <2>2
    DEF RepaysAll, JobSound, LastPlan, ToppedUpPlan, OperateNext
  <2>4. ~disturbed[j]
    BY <1>4, <1>9 DEF Executes
  <2>5. RepayPlanned(b)
    BY <1>1, <2>3, <2>4 DEF RepayInv
  <2>6. chain'.positions[b.id].debt = chain.positions[b.id].debt
    BY <1>7, <2>3 DEF Effect, SameDebts
  <2>7. d.plan[Len(d.plan)] = b.plan[Len(b.plan)]
    BY <2>1, <2>2
  <2>. QED
    BY <1>4, <1>8, <2>1, <2>5, <2>6, <2>7, Zenon DEF RepayPlanned
<1>. QED
  BY <1>7, <1>8, <1>9 DEF RepayInv

(* A lost transaction ends a job with an error.                            *)
LEMMA LostKeepsRepay ==
  ASSUME LendInv, RepayInv, NEW j \in Jobs, SendLost(j)
  PROVE  RepayInv'
<1>1. /\ job \in [Jobs -> Job] /\ UNCHANGED <<chain, accruals, disturbed>>
      /\ job' = [job EXCEPT ![j] = Answer(job[j], "error")]
  BY DEF SendLost, Tell, Refusal, NothingExecutes, LendInv, TypeOK
<1>2. \A k \in Jobs \ {j} : job'[k] = job[k]
  BY <1>1
<1>3. ~RepaysAll(job'[j])
  BY <1>1 DEF Answer, RepaysAll, Job
<1>4. \A k \in Jobs \ {j} : RepaysAll(job'[k]) => disturbed'[k] \/ RepayPlanned(job[k])'
  BY <1>1, <1>2, RepayUntouched
<1>. QED
  BY <1>3, <1>4 DEF RepayInv

(* Others move the debt only by interest, or disturb.                      *)
LEMMA EnvironmentKeepsRepay ==
  ASSUME LendInv, RepayInv, Environment
  PROVE  RepayInv'
<1>1. CASE LandsLate
  <2>1. PICK l \in late : (Executes(l[1], l[2]) \/ NothingExecutes) /\ UNCHANGED <<job, accruals>>
    BY <1>1 DEF LandsLate
  <2>2. CASE NothingExecutes
    <3>1. UNCHANGED <<chain, accruals, disturbed, job>>
      BY <2>1, <2>2 DEF NothingExecutes
    <3>. QED
      BY <3>1, RepayUntouched DEF RepayInv
  <2>3. CASE Executes(l[1], l[2])
    <3>1. \A k \in Jobs : k # l[1] => disturbed'[k]
      BY <2>3 DEF Executes
    <3>2. ~RepaysAll(job[l[1]])
      BY LateIsOver DEF RepaysAll
    <3>. QED
      BY <2>1, <3>1, <3>2 DEF RepayInv
  <2>. QED
    BY <2>1, <2>2, <2>3
<1>2. CASE StrangerTakesId
  <2>1. UNCHANGED <<job, disturbed, accruals>> /\ chain' = [chain EXCEPT !.nextId = @ + 1]
    BY <1>2 DEF StrangerTakesId
  <2>2. chain'.positions = chain.positions
    BY <2>1 DEF LendInv, TypeOK
  <2>3. \A k \in Jobs : RepayPlanned(job[k])' <=> RepayPlanned(job[k])
    BY <2>1, <2>2, Zenon DEF RepayPlanned
  <2>. QED
    BY <2>1, <2>3 DEF RepayInv
<1>3. CASE Accrue
  <2>1. /\ chain \in ChainType /\ accruals' = accruals + 1 /\ UNCHANGED <<job, disturbed>>
    BY <1>3 DEF Accrue, LendInv, TypeOK, ChainType
  <2>2. PICK i \in Ids : chain' = [chain EXCEPT !.positions[i].debt = @ + 1]
    BY <1>3 DEF Accrue
  <2>3. PICK c \in ChainType : c = chain'
    BY <1>3, AccrueKeeps DEF LendInv, TypeOK, ChainType
  <2>4. PICK one \in {0, 1} : one = 1
    OBVIOUS
  <2>5. ASSUME NEW k \in Ids
        PROVE  \E more \in {0, 1} :
                 c.positions[k].debt = chain.positions[k].debt + more /\ more <= one
    <3>1. chain.positions[k].debt \in Nat
      BY <2>1 DEF ChainType, Position
    <3>2. c.positions[k].debt = IF k = i THEN chain.positions[k].debt + 1
                                ELSE chain.positions[k].debt
      BY <2>1, <2>2, <2>3 DEF ChainType, Position
    <3>. QED
      BY <2>4, <3>1, <3>2
  <2>6. \A k \in Jobs : RepaysAll(job[k]) => disturbed[k] \/ RepayPlanned(job[k])
    BY DEF RepayInv
  <2>7. accruals' = accruals + one
    BY <2>1, <2>4
  <2>8. \A k \in Jobs : RepaysAll(job'[k]) => disturbed'[k] \/ RepayPlanned(job[k])'
    BY <2>1, <2>3, <2>5, <2>6, <2>7, RepayStays
  <2>. QED
    BY <2>8 DEF RepayInv
<1>. QED
  BY <1>1, <1>2, <1>3 DEF Environment

(* Every step keeps it.                                                    *)
LEMMA RepayStep ==
  ASSUME LendInv, RepayInv, [Next]_vars
  PROVE  RepayInv'
<1>1. ASSUME NEW j \in Jobs,
             \/ Serve(j) \/ ReadSafe(j) \/ Find(j) \/ SetUp(j)
             \/ BuildDeposit(j) \/ BuildWithdraw(j) \/ BuildBorrow(j) \/ SendRefused(j)
      PROVE  RepayInv'
  <2>1. Quiet(j)
    BY <1>1, ServeIsQuiet, ReadSafeIsQuiet, FindIsQuiet, SetUpIsQuiet, BuildDepositIsQuiet,
       BuildWithdrawIsQuiet, BuildBorrowIsQuiet, RefusedIsQuiet
  <2>2. ~RepaysAll(job'[j])
    BY <1>1, OthersDoNotRepay
  <2>. QED
    BY <2>1, <2>2, QuietKeepsRepay
<1>2. ASSUME NEW j \in Jobs, BuildRepay(j) PROVE RepayInv'
  BY <1>2, BuildRepayIsQuiet, BuildRepayKeepsRepay, QuietKeepsRepay
<1>3. ASSUME UNCHANGED vars PROVE RepayInv'
  <2>1. UNCHANGED <<chain, accruals, disturbed, job>>
    BY <1>3 DEF vars
  <2>. QED
    BY <2>1, RepayUntouched DEF RepayInv
<1>. QED
  BY <1>1, <1>2, <1>3, SentKeepsRepay, LostKeepsRepay, EnvironmentKeepsRepay
  DEF Next, JobStep, Done

(* Whole units in fine ones.                                               *)
LEMMA FineType ==
  ASSUME NEW units \in Int
  PROVE  units * SCALE \in Int
BY LendAssumption

(* The debt of a position.                                                 *)
LEMMA DebtType ==
  ASSUME NEW c \in ChainType, NEW i \in Ids
  PROVE  c.positions[i].debt \in Nat
BY DEF ChainType, Position

(* How much a debt in fine units is in whole ones, at most.                *)
LEMMA UnitsBounded ==
  ASSUME NEW debt \in Nat, NEW most \in Nat, debt < most * SCALE + SCALE
  PROVE  debt \div SCALE <= most
<1>1. PICK q \in Nat : q = debt \div SCALE /\ q * SCALE <= debt
  BY LendAssumption
<1>2. SCALE \in Nat /\ SCALE > 0
  BY LendAssumption
<1>3. ASSUME q > most PROVE FALSE
  <2>1. PICK more \in Nat : q = most + 1 + more
    <3>1. q - most - 1 \in Nat /\ q = most + 1 + (q - most - 1)
      BY <1>3
    <3>. QED
      BY <3>1
  <2>2. q * SCALE = most * SCALE + SCALE + more * SCALE /\ more * SCALE \in Nat
    BY <1>2, <2>1
  <2>3. most * SCALE \in Nat
    BY <1>2
  <2>. QED
    BY <1>1, <1>2, <2>2, <2>3
<1>. QED
  BY <1>1, <1>3

(* Reported done by a job nobody disturbed: it read no more than dust, its *)
(* repayment took effect, or the market refused what the larger margin     *)
(* leaves.                                                                 *)
LEMMA SuccessMeansClosed ==
  ASSUME MaxAccruals <= (JUPITER_REPAY_DUST_USER_RAW - JUPITER_REPAY_SAFETY_MEDIUM) * SCALE,
         LendInv, RepayInv, NEW j \in Jobs, JobStep(j),
         job[j].request.kind = "repay", job[j].request.max,
         job'[j].status = "success", job[j].status # "success", ~disturbed'[j]
  PROVE  MarginRefused(j) \/ UserDebt(job[j].id)' <= JUPITER_REPAY_DUST_USER_RAW
<1>1. PICK b \in Job : b = job[j] /\ JobSound(b)
  BY DEF LendInv, TypeOK, JobsSound
<1>2. job \in [Jobs -> Job]
  BY DEF LendInv, TypeOK
<1>3. PICK dust, low \in Nat :
        /\ chain \in ChainType
        /\ dust = JUPITER_REPAY_DUST_USER_RAW
        /\ low = JUPITER_REPAY_SAFETY_MEDIUM * SCALE
        /\ low + MaxAccruals <= dust * SCALE
  <2>1. /\ JUPITER_REPAY_SAFETY_MEDIUM * SCALE \in Nat
        /\ JUPITER_REPAY_DUST_USER_RAW * SCALE \in Nat
        /\ (JUPITER_REPAY_DUST_USER_RAW - JUPITER_REPAY_SAFETY_MEDIUM) * SCALE
             = JUPITER_REPAY_DUST_USER_RAW * SCALE - JUPITER_REPAY_SAFETY_MEDIUM * SCALE
    BY LendAssumption
  <2>2. chain \in ChainType
    BY DEF LendInv, TypeOK, ChainType
  <2>. QED
    BY <2>1, <2>2, LendAssumption
<1>4. ASSUME NEW d, job' = [job EXCEPT ![j] = d] PROVE d.status = "success" /\ job'[j] = d
  BY <1>2, <1>4
<1>5. CASE BuildRepay(j)
  <2>1. PICK debt : debt = UserDebt(job[j].id)
    OBVIOUS
  <2>2. ASSUME NEW ops, Build(j, ops) PROVE FALSE
    <3>1. ASSUME NEW plan, Read(j, [job[j] EXCEPT !.pc = "send", !.plan = plan]) PROVE FALSE
      BY <1>1, <1>4, <3>1 DEF Read, Job
    <3>2. ASSUME Read(j, Answer(job[j], "error")) PROVE FALSE
      BY <1>1, <1>4, <3>2 DEF Read, Answer, Job
    <3>. QED
      BY <2>2, <3>1, <3>2 DEF Build
  <2>3. debt <= JUPITER_REPAY_DUST_USER_RAW /\ Read(j, Answer(job[j], "success"))
    BY <1>5, <2>1, <2>2 DEF BuildRepay
  <2>4. chain' = chain /\ job'[j].id = job[j].id
    BY <1>1, <1>4, <2>3 DEF Read, Answer, Job
  <2>5. UserDebt(job[j].id)' = debt
    BY <2>1, <2>4 DEF UserDebt
  <2>. QED
    BY <2>3, <2>5
<1>6. CASE SendExecuted(j)
  <2>1. b.pc = "send" /\ RepaysAll(b) /\ ~disturbed[j] /\ RepayPlanned(b)
    BY <1>1, <1>6 DEF SendExecuted, Executes, RepaysAll, RepayInv
  <2>2. PICK d : d = Proceed(b) /\ job'[j] = d /\ d.status = "success"
    BY <1>1, <1>4, <1>6 DEF SendExecuted, Tell
  <2>3. d.pc = "done" /\ d.id = b.id /\ JobSound(d)
    BY <1>1, <2>1, <2>2, ProceedEffect DEF JobSound
  <2>4. Len(b.plan) = 1 /\ Head(b.plan) = b.plan[1] /\ Head(b.plan) \in Tx
    BY <1>1, <2>1, <2>2, <2>3, ProceedEffect, NextSent
  <2>5. PICK tx \in Tx : /\ tx = Head(b.plan) /\ tx = b.plan[Len(b.plan)]
                         /\ tx.op = "operate" /\ tx.id = b.id /\ b.id \in Ids
    <3>1. LastPlan(b)
      BY <1>1, <2>1, <2>4 DEF JobSound, RepaysAll, ToppedUpPlan
    <3>. QED
      BY <2>4, <3>1 DEF LastPlan, OperateNext
  <2>6. PICK c \in ChainType : c = chain' /\ Effect(tx, chain, c)
    <3>1. executed[j] = 0 /\ Executes(j, tx)
      BY <1>1, <1>6, <2>1, <2>5 DEF LendInv, OneShot, SendExecuted
    <3>. QED
      BY <2>5, <3>1, ExecutesKeeps
  <2>7. PICK quirk \in {0, 1} :
          c.positions[b.id].debt = DebtAfter(chain.positions[b.id], tx, quirk)
    BY <2>5, <2>6 DEF Effect
  <2>8. PICK after, debt \in Nat, change \in Int :
          /\ after = c.positions[b.id].debt /\ debt = chain.positions[b.id].debt
          /\ change = tx.debt * SCALE /\ after <= debt + change
    <3>1. tx.debt \in Int
      BY DEF Tx
    <3>2. PICK after, debt \in Nat :
            after = c.positions[b.id].debt /\ debt = chain.positions[b.id].debt
      BY <1>3, <2>5, DebtType
    <3>3. PICK change \in Int : change = tx.debt * SCALE
      BY <3>1, FineType
    <3>4. after = debt + tx.debt * SCALE - (IF tx.debt < 0 THEN quirk ELSE 0)
      BY <2>7, <3>2 DEF DebtAfter
    <3>5. after <= debt + change
      BY <3>3, <3>4
    <3>. QED
      BY <3>2, <3>3, <3>5
  <2>9. after < dust * SCALE + SCALE
    <3>1. PICK margin \in {JUPITER_REPAY_SAFETY_FULL, JUPITER_REPAY_SAFETY_MEDIUM} :
            debt + change \in margin * SCALE .. margin * SCALE + SCALE - 1 + accruals
      BY <2>1, <2>5, <2>8 DEF RepayPlanned
    <3>2. PICK left \in Nat : left = margin * SCALE /\ left <= low
      <4>1. /\ JUPITER_REPAY_SAFETY_FULL * SCALE <= JUPITER_REPAY_SAFETY_MEDIUM * SCALE
            /\ margin * SCALE \in Nat
        BY LendAssumption
      <4>. QED
        BY <1>3, <4>1
    <3>3. accruals \in Nat /\ accruals <= MaxAccruals /\ SCALE \in Nat /\ dust * SCALE \in Nat
      BY LendAssumption DEF LendInv, TypeOK
    <3>. QED
      BY <1>3, <2>8, <3>1, <3>2, <3>3, LendAssumption
  <2>10. after \div SCALE <= dust
    BY <2>9, UnitsBounded
  <2>11. UserDebt(job[j].id)' = after \div SCALE
    BY <2>2, <2>3, <2>6, <2>8 DEF UserDebt
  <2>. QED
    BY <1>3, <2>10, <2>11
<1>7. CASE SendRefused(j)
  <2>1. b.pc = "send" /\ RepaysAll(b) /\ ~disturbed[j] /\ RepayPlanned(b)
    BY <1>1, <1>7 DEF SendRefused, NothingExecutes, RepaysAll, RepayInv
  <2>2. PICK tooLow \in BOOLEAN :
          /\ Tell(j, Refusal(b, tooLow))
          /\ tooLow => \E quirk \in {0, 1} : TooLow(chain, Head(b.plan), quirk)
    BY <1>1, <1>7 DEF SendRefused
  <2>3. tooLow /\ b.safety # 0
    <3>1. Refusal(b, tooLow).status = "success"
      BY <1>4, <2>2 DEF Tell
    <3>. QED
      BY <1>1, <3>1 DEF Refusal, Answer, Job
  <2>4. PICK quirk \in {0, 1} : TooLow(chain, Head(b.plan), quirk)
    BY <2>2, <2>3
  <2>5. PICK tx \in Tx : tx = Head(b.plan) /\ tx = b.plan[1] /\ Len(b.plan) \in {1, 2}
                         /\ tx.op = "operate"
    BY <1>1, <2>1, <2>4, NextSent DEF TooLow
  <2>6. tx = b.plan[Len(b.plan)] /\ tx.id = b.id /\ b.id \in Ids
    <3>1. LastPlan(b)
      BY <1>1, <2>1, <2>5 DEF JobSound, RepaysAll, ToppedUpPlan
    <3>. QED
      BY <2>5, <3>1 DEF LastPlan, OperateNext
  <2>7. PICK debt \in Nat, change \in Int :
          debt = chain.positions[b.id].debt /\ change = tx.debt * SCALE
    <3>1. tx.debt \in Int
      BY DEF Tx
    <3>. QED
      BY <1>3, <2>6, <3>1, DebtType, FineType
  <2>8. debt + change >= low
    BY <1>3, <2>1, <2>3, <2>6, <2>7, LendAssumption DEF RepayPlanned
  <2>9. executed'[j] = 0
    BY <1>1, <1>7, <2>1 DEF SendRefused, NothingExecutes, LendInv, OneShot
  <2>10. chain.positions[tx.id].debt + tx.debt * SCALE >= JUPITER_REPAY_SAFETY_MEDIUM * SCALE
    BY <1>3, <2>6, <2>7, <2>8
  <2>11. tx = Head(job[j].plan) /\ job[j].pc = "send" /\ job[j].safety # 0
    BY <1>1, <2>1, <2>3, <2>5
  <2>12. MarginRefused(j)
    BY <2>2, <2>3, <2>9, <2>10, <2>11, <1>1, Zenon DEF MarginRefused
  <2>. QED
    BY <2>12
<1>8. CASE SendLost(j)
  BY <1>1, <1>4, <1>8 DEF SendLost, Tell, Refusal, Answer, Job
<1>9. ASSUME NEW status, status # "success", Read(j, Answer(job[j], status)) PROVE FALSE
  BY <1>1, <1>4, <1>9 DEF Read, Answer, Job
<1>10. ~ReadSafe(j)
  <2>1. ASSUME NEW plan, Read(j, [job[j] EXCEPT !.pc = "send", !.plan = plan]) PROVE FALSE
    BY <1>1, <1>4, <2>1 DEF Read, Job
  <2>2. ASSUME NEW pc, NEW id, Read(j, [job[j] EXCEPT !.pc = pc, !.id = id]) PROVE FALSE
    BY <1>1, <1>4, <2>2 DEF Read, Job
  <2>. QED
    BY <1>9, <2>1, <2>2 DEF ReadSafe
<1>11. ~Find(j)
  <2>1. ASSUME NEW id, Read(j, [job[j] EXCEPT !.pc = "build", !.id = id]) PROVE FALSE
    BY <1>1, <1>4, <2>1 DEF Read, Job
  <2>2. ASSUME Read(j, [job[j] EXCEPT !.pc = "setup"]) PROVE FALSE
    BY <1>1, <1>4, <2>2 DEF Read, Job
  <2>. QED
    BY <1>9, <2>1, <2>2 DEF Find
<1>12. ~SetUp(j)
  BY <1>1 DEF SetUp, LendInv, JobsSound, JobSound
<1>. QED
  BY <1>5, <1>6, <1>7, <1>8, <1>10, <1>11, <1>12
  DEF JobStep, BuildDeposit, BuildWithdraw, BuildBorrow

(* Nothing is repaid at the start.                                         *)
LEMMA RepayInit ==
  ASSUME Init
  PROVE  RepayInv
BY DEF Init, RepayInv, RepaysAll

(* Both invariants hold throughout.                                        *)
LEMMA RepayInvariant == Spec => [](LendInv /\ RepayInv)
<1>1. Init => LendInv /\ RepayInv
  BY LendInit, RepayInit
<1>2. LendInv /\ RepayInv /\ [Next]_vars => (LendInv /\ RepayInv)'
  BY LendStep, RepayStep
<1>. QED
  BY <1>1, <1>2, PTL DEF Spec

(* A full repayment that jupiterBorrow.ts reports done leaves at most the  *)
(* dust, unless another job worked on the Safe meanwhile or the market     *)
(* refused what even the larger margin leaves: whatever the market's       *)
(* minimum debt is, for every margin below the dust, provided the interest *)
(* added in between stays below their difference.                          *)
THEOREM RepaymentsClose ==
  ASSUME MaxAccruals <= (JUPITER_REPAY_DUST_USER_RAW - JUPITER_REPAY_SAFETY_MEDIUM) * SCALE
  PROVE  Spec => RepaidMeansClosed
<1>. DEFINE Closed(j) ==
       ReportsRepaid(j) => \/ disturbed'[j] \/ MarginRefused(j)
                           \/ UserDebt(job[j].id)' <= JUPITER_REPAY_DUST_USER_RAW
<1>1. ASSUME LendInv, RepayInv, [Next]_vars, NEW j \in Jobs PROVE Closed(j)
  <2>. SUFFICES ASSUME job[j].request.kind = "repay", job[j].request.max,
                       job'[j].status = "success", job[j].status # "success"
                PROVE  \/ disturbed'[j] \/ MarginRefused(j)
                       \/ UserDebt(job[j].id)' <= JUPITER_REPAY_DUST_USER_RAW
    BY DEF ReportsRepaid
  <2>1. /\ job \in [Jobs -> Job] /\ JobSound(job[j])
    BY <1>1 DEF LendInv, TypeOK, JobsSound
  <2>2. JobStep(j)
    <3>1. ASSUME NEW k \in Jobs, Serve(k) PROVE FALSE
      <4>1. k # j => job'[j] = job[j]
        BY <2>1, <3>1 DEF Serve
      <4>2. k = j => job'[j].status # "success"
        BY <2>1, <3>1 DEF Serve, Answer, Job, JobSound
      <4>. QED
        BY <4>1, <4>2
    <3>2. ASSUME NEW k \in Jobs \ {j}, JobStep(k) PROVE FALSE
      <4>1. job'[j] = job[j]
        BY <2>1, <3>2 DEF JobStep, ReadSafe, Find, SetUp, BuildDeposit, BuildWithdraw,
           BuildBorrow, BuildRepay, Build, Read, SendExecuted, SendRefused, SendLost, Tell
      <4>. QED
        BY <4>1
    <3>3. ASSUME job' = job PROVE FALSE
      BY <3>3
    <3>. QED
      BY <1>1, <3>1, <3>2, <3>3
      DEF Next, Environment, LandsLate, Accrue, StrangerTakesId, Done, vars
  <2>. QED
    BY <1>1, <2>2, SuccessMeansClosed
<1>2. LendInv /\ RepayInv /\ [Next]_vars => [\A j \in Jobs : Closed(j)]_vars
  BY <1>1
<1>. QED
  BY <1>2, RepayInvariant, PTL DEF Spec, RepaidMeansClosed
=============================================================================
