------------------------------ MODULE SafeChain ------------------------------
(***************************************************************************)
(* What the owner's clients talk to: the Safe on the chain, reduced to the *)
(* USDC a client moves, and the transactions its owner has signed.  The    *)
(* instructions are those the builders of web/src/lib/safeV2.ts and        *)
(* web/src/lib/mobileSafe.ts make; their on-chain side is the matter of    *)
(* YieldVault and is kept here to what a client can see: one share is one  *)
(* USDC, no fee is due.  A transaction takes effect as a whole or fails as *)
(* a whole, some time after it was sent and before its blockhash expires.  *)
(***************************************************************************)
EXTENDS Integers, Sequences, FiniteSets, SequencesExt

CONSTANTS
  Supply,    \* USDC of the owner
  Targets,   \* Kamino targets, in percent, an owner saves
  Amounts,   \* USDC an owner enters
  MaxTx,     \* transactions the owner signs
  MaxMoves,  \* moves of the executor
  Uses       \* what one owner does with which client in one behaviour, in
             \* how many transactions, and the redemptions a full exit of
             \* the panel makes at most (8 in the code)

PanelOps == {"create", "deposit", "withdraw", "save_allocation", "put", "redeem_all",
             "invest", "reclaim", "close_safe", "full_exit"}
MobileOps == {"create", "create_deposit", "deposit", "withdraw"}
ApiOps == {"invest", "redeem", "return"}
Kinds == {"none"} \cup PanelOps \cup MobileOps \cup ApiOps

ASSUME SafeChainAssumption ==
  /\ Supply \in Nat /\ Amounts \subseteq Nat \ {0} /\ Targets \subseteq 0..100
  /\ MaxTx \in Nat /\ MaxMoves \in Nat
  /\ Uses \subseteq [panel : SUBSET PanelOps, mobile : SUBSET MobileOps, api : SUBSET ApiOps,
                     txs : 0..MaxTx, steps : Nat]

VARIABLES
  uses,      \* chosen once from Uses
  chain,     \* the Safe, its token accounts and the owner's wallet
  tx,        \* tx[i]: the i-th transaction the owner signed
  moves,     \* moves of the executor so far
  saves,     \* history: transactions that saved a target or left another
  inflow     \* history: FALSE from a read of a full exit until USDC comes in

chainVars == <<uses, chain, tx, moves, saves, inflow>>
history == <<uses, moves, saves, inflow>>

ALL == 0     \* Kamino's u64::MAX: redeem whatever is there
Ix(op, n) == [op |-> op, n |-> n]

(* The amount a redemption burns of the shares there are.                  *)
Burned(c, n) == IF n = ALL THEN c.shares ELSE n

-----------------------------------------------------------------------------
(* The instructions: when one is accepted, and what it does.               *)

Accepts(c, ix) ==
  CASE ix.op = "initialize" -> ~c.exists
    [] ix.op = "deposit" -> c.exists /\ c.usdc_ata /\ ix.n > 0 /\ ix.n <= c.wallet
    [] ix.op = "withdraw" -> c.exists /\ c.usdc_ata /\ ix.n > 0 /\ ix.n <= c.idle
    [] ix.op = "set_allocation" -> c.exists
    [] ix.op = "kamino_deposit" ->
         /\ c.exists /\ c.usdc_ata /\ c.shares_ata
         /\ ix.n > 0 /\ ix.n <= (c.idle * c.target) \div 100
    [] ix.op = "kamino_withdraw" ->
         /\ c.exists /\ c.usdc_ata /\ c.shares_ata
         /\ Burned(c, ix.n) > 0 /\ Burned(c, ix.n) <= c.shares
    [] ix.op = "close_usdc" -> c.exists /\ c.usdc_ata /\ c.idle = 0
    [] ix.op = "close_shares" -> c.exists /\ c.shares_ata /\ c.shares = 0
    [] ix.op = "close_safe" -> c.exists
    [] ix.op \in {"create_usdc", "create_shares"} -> TRUE

Effect(c, ix) ==
  CASE ix.op = "initialize" ->
         [c EXCEPT !.exists = TRUE, !.target = 0, !.usdc_ata = TRUE]
    [] ix.op = "deposit" -> [c EXCEPT !.wallet = @ - ix.n, !.idle = @ + ix.n]
    [] ix.op = "withdraw" -> [c EXCEPT !.wallet = @ + ix.n, !.idle = @ - ix.n]
    [] ix.op = "set_allocation" -> [c EXCEPT !.target = ix.n]
    [] ix.op = "kamino_deposit" -> [c EXCEPT !.idle = @ - ix.n, !.shares = @ + ix.n]
    [] ix.op = "kamino_withdraw" ->
         [c EXCEPT !.idle = @ + Burned(c, ix.n), !.shares = @ - Burned(c, ix.n)]
    [] ix.op = "close_usdc" -> [c EXCEPT !.usdc_ata = FALSE]
    [] ix.op = "close_shares" -> [c EXCEPT !.shares_ata = FALSE]
    [] ix.op = "close_safe" -> [c EXCEPT !.exists = FALSE, !.target = 0]
    [] ix.op = "create_usdc" -> [c EXCEPT !.usdc_ata = TRUE]
    [] ix.op = "create_shares" -> [c EXCEPT !.shares_ata = TRUE]

(* All the instructions of a transaction, or none.                         *)
Execute(c, ixs) ==
  LET after[k \in 0..Len(ixs)] ==
        IF k = 0 THEN [ok |-> TRUE, chain |-> c]
        ELSE IF after[k - 1].ok /\ Accepts(after[k - 1].chain, ixs[k])
        THEN [ok |-> TRUE, chain |-> Effect(after[k - 1].chain, ixs[k])]
        ELSE [ok |-> FALSE, chain |-> c]
  IN after[Len(ixs)]

Simulates(ixs) == Execute(chain, ixs).ok

Ops(ixs) == {ix.op : ix \in Range(ixs)}

-----------------------------------------------------------------------------
(* Transactions. *)

Clients == {"panel", "mobile", "api"}
Txs == 1..MaxTx
NoTx == [by |-> "panel", kind |-> "none", ixs |-> <<>>, read |-> 0, st |-> "none"]
Signed == Cardinality({i \in Txs : tx[i].st # "none"})
CanSign == Signed < uses.txs
NextTx == Signed + 1

(* A signature of the owner under a transaction planned when saves was     *)
(* "read".                                                                 *)
SignTx(by, kind, ixs, read, st) ==
  /\ CanSign
  /\ tx' = [tx EXCEPT ![NextTx] = [by |-> by, kind |-> kind, ixs |-> ixs,
                                   read |-> read, st |-> st]]

(* Saving the target is what these are for; an investment only borrows it. *)
SetsTarget(kind) == kind \in {"save_allocation", "create", "close_safe"}

(* Of a settled transaction only a redemption is looked at again, for what *)
(* it brought.                                                             *)
Settled(t, st) ==
  [by |-> t.by, kind |-> "none", read |-> 0, st |-> st,
   ixs |-> IF st = "done" /\ Ops(t.ixs) = {"kamino_withdraw"}
           THEN <<Ix("kamino_withdraw", Burned(chain, t.ixs[1].n))>> ELSE <<>>]

Land(i) ==
  /\ tx[i].st = "live"
  /\ LET result == Execute(chain, tx[i].ixs)
     IN  /\ chain' = result.chain
         /\ tx' = [tx EXCEPT ![i] = Settled(tx[i], IF result.ok THEN "done" ELSE "failed")]
         /\ saves' = IF result.ok /\ (\/ SetsTarget(tx[i].kind)
                                     \/ result.chain.target # chain.target)
                     THEN saves + 1 ELSE saves
         /\ inflow' = IF result.ok /\ "deposit" \in Ops(tx[i].ixs) THEN TRUE ELSE inflow
  /\ UNCHANGED <<uses, moves>>

(* The block height passes the one its blockhash is good for.              *)
Expire(i) ==
  /\ tx[i].st \in {"signed", "live"}
  /\ tx' = [tx EXCEPT ![i] = Settled(tx[i], "dead")]
  /\ UNCHANGED <<chain, history>>

(* The executor moves USDC between the Safe and Kamino, within its target. *)
ExecutorDeposits(n) ==
  /\ moves < MaxMoves
  /\ Simulates(<<Ix("kamino_deposit", n)>>)
  /\ (chain.shares + n) * 100 <= (chain.shares + chain.idle) * chain.target
  /\ chain' = Effect(chain, Ix("kamino_deposit", n))
  /\ moves' = moves + 1
  /\ UNCHANGED <<uses, tx, saves, inflow>>

ExecutorWithdraws(n) ==
  /\ moves < MaxMoves
  /\ Simulates(<<Ix("kamino_withdraw", n)>>)
  /\ chain' = Effect(chain, Ix("kamino_withdraw", n))
  /\ moves' = moves + 1
  /\ UNCHANGED <<uses, tx, saves, inflow>>

(* A wallet that never used the program, or a Safe a while in use.         *)
ChainInit ==
  /\ uses \in Uses
  /\ chain \in
       {[exists |-> FALSE, wallet |-> Supply, idle |-> 0, shares |-> 0, target |-> 0,
         usdc_ata |-> FALSE, shares_ata |-> FALSE]}
       \cup {[exists |-> TRUE, wallet |-> w, idle |-> Supply - w - s, shares |-> s,
              target |-> t, usdc_ata |-> TRUE, shares_ata |-> TRUE] :
             w \in 0..Supply, s \in 0..Supply, t \in Targets}
  /\ chain.idle >= 0
  /\ tx = [i \in Txs |-> NoTx]
  /\ moves = 0 /\ saves = 0 /\ inflow = TRUE

ChainNext ==
  \/ \E i \in Txs : Land(i) \/ Expire(i)
  \/ \E n \in Amounts : ExecutorDeposits(n) \/ ExecutorWithdraws(n)

Chain == [exists : BOOLEAN, wallet : 0..Supply, idle : 0..Supply, shares : 0..Supply,
          target : {0, 100} \cup Targets, usdc_ata : BOOLEAN, shares_ata : BOOLEAN]

=============================================================================
