-------------------------- MODULE OwnerClientsProofs --------------------------
(***************************************************************************)
(* The owner's clients and the chain they share, for any number of         *)
(* transactions, tabs, plans and amounts and whatever the agent's executor *)
(* does: type correctness, the saved target, the full exit, and, with one  *)
(* tab, the journal of the mobile panel.                                   *)
(***************************************************************************)
EXTENDS OwnerClients, SumLemmas, SequenceTheorems

-----------------------------------------------------------------------------
(***************************************************************************)
(* The inductive invariant of the types, of the full exit and of the saved *)
(* target.                                                                 *)

TargetOps == {"initialize", "set_allocation", "close_safe"}
OpNames == TargetOps \cup {"deposit", "withdraw", "kamino_deposit", "kamino_withdraw",
                           "close_usdc", "close_shares", "create_usdc", "create_shares"}
Percents == {0, 100} \cup Targets
Sources == [op : {"safe", "wallet"}, n : Nat]   \* where an investment takes its USDC
Instr == {ix \in [op : OpNames, n : Nat] : ix.op = "set_allocation" => ix.n \in Percents}

TxType == [by : Clients, kind : Kinds, ixs : Seq(Instr), read : Nat,
           st : {"none", "signed", "live", "done", "failed", "dead"}]
PlanType == [kind : Kinds, ixs : Seq(Instr), read : Nat]
TabType == [at : TabAt, plan : PlanType, pending : 0 .. MaxTx]
PanelType == [at : PanelAt, op : Kinds, ixs : Seq(Instr \cup Sources), id : 0 .. MaxTx, last : 0 .. Supply,
              step : Nat, read : 0 .. MaxTx, shown : Chain, said : Said]

Owned(c) == c \in Chain /\ c.wallet + c.idle + c.shares = Supply

ChainTypes ==
  /\ uses \in Uses /\ Owned(chain) /\ tx \in [Txs -> TxType]
  /\ moves \in 0 .. MaxMoves /\ saves \in Nat /\ inflow \in BOOLEAN

PanelTypes ==
  /\ panel \in PanelType /\ panel.step <= uses.steps
  /\ IF panel.at = "invest" THEN panel.op = "invest" /\ \E from \in Sources : panel.ixs = <<from>>
     ELSE panel.ixs \in Seq(Instr)

TabTypes == tab \in [Tabs -> TabType] /\ journal \in 0 .. MaxTx /\ overlapped \in BOOLEAN

(* The owner's signatures are numbered as they are made, and no more       *)
(* targets are saved than transactions land.                               *)
Done == {i \in Txs : tx[i].st = "done"}
Numbered ==
  /\ \E n \in 0 .. MaxTx : \A i \in Txs : tx[i].st # "none" <=> i <= n
  /\ saves <= Cardinality(Done)

(* Instructions that leave the target as it is, or put t back.             *)
Keeps(ixs, t) ==
  \/ \A k \in 1 .. Len(ixs) : ixs[k].op \notin TargetOps
  \/ ixs # <<>> /\ ixs[Len(ixs)] = Ix("set_allocation", t)

(* What was planned from the target that is still the one saved keeps it.  *)
Fresh(kind, ixs, read) ==
  /\ read <= saves
  /\ read = saves /\ ~SetsTarget(kind) => Keeps(ixs, chain.target)

TxFresh == \A i \in Txs : tx[i].st \in {"signed", "live"} => Fresh(tx[i].kind, tx[i].ixs, tx[i].read)
PanelFresh ==
  /\ panel.read <= saves
  /\ panel.at = "built" => Fresh(panel.op, panel.ixs, panel.read)
TabFresh == \A t \in Tabs : Fresh(tab[t].plan.kind, tab[t].plan.ixs, tab[t].plan.read)

(* The full exit: while nothing is paid in, what the Safe holds is what    *)
(* its last withdrawal takes, and nothing once it has landed.              *)
Holds == chain.idle + chain.shares

ExitIxs(n) == panel.ixs = <<Ix("withdraw", n)>>
ExitLeaves(n) ==
  /\ panel.at = "built" => Holds <= n
  /\ panel.at # "built" /\ tx[panel.id].st = "live" => tx[panel.id].ixs = panel.ixs /\ Holds <= n
  /\ panel.at # "built" /\ tx[panel.id].st = "done" => Holds <= 0

Watching == panel.at \in {"confirm", "height"}
Leaving == panel.op = "full_exit" /\ panel.at \in {"built", "confirm", "height"}

Watched == Watching => panel.id \in Txs /\ tx[panel.id].st \in {"live", "done", "failed", "dead"}

ExitInv ==
  Leaving =>
    \/ \E n \in Nat : panel.ixs = <<Ix("kamino_withdraw", n)>> /\ panel.step < uses.steps
    \/ \E n \in Nat : ExitIxs(n) /\ (~inflow => ExitLeaves(n))

SafeInv ==
  /\ ChainTypes /\ PanelTypes /\ TabTypes /\ Numbered
  /\ TxFresh /\ PanelFresh /\ TabFresh /\ Watched /\ ExitInv


-----------------------------------------------------------------------------
(* What instructions do. *)

(* The targets an instruction may carry are percentages, 0 and 100 among   *)
(* them.                                                                   *)
LEMMA PercentType == Percents \subseteq 0 .. 100 /\ 0 \in Percents /\ 100 \in Percents
BY SafeChainAssumption DEF Percents

(* An accepted instruction moves USDC between the wallet, the Safe and     *)
(* Kamino; only three touch the target, and only a deposit adds to what    *)
(* the Safe holds.                                                         *)
LEMMA EffectType ==
  ASSUME NEW c, Owned(c), NEW ix \in Instr, Accepts(c, ix), NEW d, d = Effect(c, ix)
  PROVE  /\ Owned(d)
         /\ ix.op \notin TargetOps => d.target = c.target
         /\ ix.op = "set_allocation" => d.target = ix.n
         /\ ix.op # "deposit" => d.idle + d.shares <= c.idle + c.shares
         /\ ix.op = "withdraw" => d.idle + d.shares = c.idle + c.shares - ix.n
<1>1. PICK supply \in Nat : supply = Supply
  BY SafeChainAssumption
<1>2. PICK n \in Nat, op \in OpNames : n = ix.n /\ op = ix.op /\ ix = [op |-> op, n |-> n]
  BY DEF Instr
<1>3. PICK exists \in BOOLEAN, wallet \in 0 .. supply, idle \in 0 .. supply, shares \in 0 .. supply,
           target \in Percents, usdc \in BOOLEAN, sh \in BOOLEAN :
        /\ c = [exists |-> exists, wallet |-> wallet, idle |-> idle, shares |-> shares,
                target |-> target, usdc_ata |-> usdc, shares_ata |-> sh]
        /\ wallet + idle + shares = supply
  <2>1. c \in [exists : BOOLEAN, wallet : 0 .. supply, idle : 0 .. supply, shares : 0 .. supply,
               target : Percents, usdc_ata : BOOLEAN, shares_ata : BOOLEAN]
    BY <1>1 DEF Owned, Chain, Percents
  <2>2. c = [exists |-> c.exists, wallet |-> c.wallet, idle |-> c.idle, shares |-> c.shares,
             target |-> c.target, usdc_ata |-> c.usdc_ata, shares_ata |-> c.shares_ata]
    BY <2>1
  <2>3. c.wallet + c.idle + c.shares = supply
    BY <1>1 DEF Owned
  <2>. QED
    BY <2>1, <2>2, <2>3
<1>4. ASSUME NEW e2 \in BOOLEAN, NEW w2 \in Nat, NEW i2 \in Nat, NEW s2 \in Nat,
             NEW t2 \in Percents, NEW u2 \in BOOLEAN, NEW h2 \in BOOLEAN,
             d = [exists |-> e2, wallet |-> w2, idle |-> i2, shares |-> s2,
                  target |-> t2, usdc_ata |-> u2, shares_ata |-> h2],
             w2 + i2 + s2 = supply
      PROVE  Owned(d)
  <2>1. w2 \in 0 .. supply /\ i2 \in 0 .. supply /\ s2 \in 0 .. supply
    BY <1>4
  <2>. QED
    BY <1>1, <1>4, <2>1 DEF Owned, Chain, Percents
<1>5. CASE op \in {"initialize", "set_allocation", "close_usdc", "close_shares", "close_safe",
                   "create_usdc", "create_shares"}
  <2>1. PICK e2 \in BOOLEAN, t2 \in Percents, u2 \in BOOLEAN, h2 \in BOOLEAN :
          /\ d = [exists |-> e2, wallet |-> wallet, idle |-> idle, shares |-> shares,
                  target |-> t2, usdc_ata |-> u2, shares_ata |-> h2]
          /\ op \notin TargetOps => t2 = target
          /\ op = "set_allocation" => t2 = n
    <3>1. op = "set_allocation" => n \in Percents
      BY <1>2 DEF Instr
    <3>2. CASE op = "initialize"
      <4>1. d = [exists |-> TRUE, wallet |-> wallet, idle |-> idle, shares |-> shares,
                 target |-> 0, usdc_ata |-> TRUE, shares_ata |-> sh]
        BY <1>2, <1>3, <3>2 DEF Effect
      <4>. QED
        BY <3>2, <4>1, PercentType DEF TargetOps
    <3>3. CASE op = "set_allocation"
      <4>1. d = [exists |-> exists, wallet |-> wallet, idle |-> idle, shares |-> shares,
                 target |-> n, usdc_ata |-> usdc, shares_ata |-> sh]
        BY <1>2, <1>3, <3>3 DEF Effect
      <4>. QED
        BY <3>1, <3>3, <4>1 DEF TargetOps
    <3>4. CASE op = "close_safe"
      <4>1. d = [exists |-> FALSE, wallet |-> wallet, idle |-> idle, shares |-> shares,
                 target |-> 0, usdc_ata |-> usdc, shares_ata |-> sh]
        BY <1>2, <1>3, <3>4 DEF Effect
      <4>. QED
        BY <3>4, <4>1, PercentType DEF TargetOps
    <3>5. CASE op \in {"close_usdc", "create_usdc"}
      <4>1. PICK u2 \in BOOLEAN :
              d = [exists |-> exists, wallet |-> wallet, idle |-> idle, shares |-> shares,
                   target |-> target, usdc_ata |-> u2, shares_ata |-> sh]
        BY <1>2, <1>3, <3>5 DEF Effect
      <4>. QED
        BY <3>5, <4>1
    <3>6. CASE op \in {"close_shares", "create_shares"}
      <4>1. PICK h2 \in BOOLEAN :
              d = [exists |-> exists, wallet |-> wallet, idle |-> idle, shares |-> shares,
                   target |-> target, usdc_ata |-> usdc, shares_ata |-> h2]
        BY <1>2, <1>3, <3>6 DEF Effect
      <4>. QED
        BY <3>6, <4>1
    <3>. QED
      BY <1>5, <3>2, <3>3, <3>4, <3>5, <3>6
  <2>2. Owned(d)
    BY <1>3, <1>4, <2>1
  <2>3. d.idle = idle /\ d.shares = shares /\ d.target = t2 /\ c.idle = idle /\ c.shares = shares
        /\ c.target = target
    BY <1>3, <2>1
  <2>. QED
    BY <1>2, <1>5, <2>1, <2>2, <2>3
<1>6. CASE op = "deposit"
  <2>1. n <= wallet
    BY <1>2, <1>3, <1>6 DEF Accepts
  <2>2. d = [exists |-> exists, wallet |-> wallet - n, idle |-> idle + n, shares |-> shares,
             target |-> target, usdc_ata |-> usdc, shares_ata |-> sh]
    BY <1>2, <1>3, <1>6 DEF Effect
  <2>3. wallet - n \in Nat /\ idle + n \in Nat /\ (wallet - n) + (idle + n) + shares = supply
    BY <1>3, <2>1
  <2>4. Owned(d)
    BY <1>4, <2>2, <2>3
  <2>. QED
    BY <1>2, <1>3, <1>6, <2>2, <2>4
<1>7. CASE op = "withdraw"
  <2>1. n <= idle
    BY <1>2, <1>3, <1>7 DEF Accepts
  <2>2. d = [exists |-> exists, wallet |-> wallet + n, idle |-> idle - n, shares |-> shares,
             target |-> target, usdc_ata |-> usdc, shares_ata |-> sh]
    BY <1>2, <1>3, <1>7 DEF Effect
  <2>3. wallet + n \in Nat /\ idle - n \in Nat /\ (wallet + n) + (idle - n) + shares = supply
        /\ (idle - n) + shares = idle + shares - n /\ (idle - n) + shares <= idle + shares
    BY <1>3, <2>1
  <2>4. Owned(d)
    BY <1>4, <2>2, <2>3
  <2>. QED
    BY <1>2, <1>3, <1>7, <2>2, <2>3, <2>4
<1>8. CASE op = "kamino_deposit"
  <2>1. n <= idle
    <3>1. PICK t \in 0 .. 100 : t = target
      BY PercentType
    <3>2. n <= (idle * t) \div 100
      BY <1>2, <1>3, <1>8, <3>1 DEF Accepts
    <3>3. (idle * t) \div 100 <= idle
      <4>1. idle * t <= idle * 100 /\ idle * t \in Nat
        OBVIOUS
      <4>. QED
        BY <4>1
    <3>. QED
      BY <3>2, <3>3
  <2>2. d = [exists |-> exists, wallet |-> wallet, idle |-> idle - n, shares |-> shares + n,
             target |-> target, usdc_ata |-> usdc, shares_ata |-> sh]
    BY <1>2, <1>3, <1>8 DEF Effect
  <2>3. shares + n \in Nat /\ idle - n \in Nat /\ wallet + (idle - n) + (shares + n) = supply
        /\ (idle - n) + (shares + n) <= idle + shares
    BY <1>3, <2>1
  <2>4. Owned(d)
    BY <1>4, <2>2, <2>3
  <2>. QED
    BY <1>2, <1>3, <1>8, <2>2, <2>3, <2>4
<1>9. CASE op = "kamino_withdraw"
  <2>1. PICK b \in Nat : b = Burned(c, n) /\ b <= shares
    BY <1>2, <1>3, <1>9 DEF Accepts, Burned
  <2>2. d = [exists |-> exists, wallet |-> wallet, idle |-> idle + b, shares |-> shares - b,
             target |-> target, usdc_ata |-> usdc, shares_ata |-> sh]
    BY <1>2, <1>3, <1>9, <2>1 DEF Effect
  <2>3. shares - b \in Nat /\ idle + b \in Nat /\ wallet + (idle + b) + (shares - b) = supply
        /\ (idle + b) + (shares - b) <= idle + shares
    BY <1>3, <2>1
  <2>4. Owned(d)
    BY <1>4, <2>2, <2>3
  <2>. QED
    BY <1>2, <1>3, <1>9, <2>2, <2>3, <2>4
<1>. QED
  BY <1>5, <1>6, <1>7, <1>8, <1>9 DEF OpNames, TargetOps

-----------------------------------------------------------------------------
(* What transactions do. *)

(* The recursion of Execute.                                               *)
Step(c, r, ix) ==
  IF r.ok /\ Accepts(r.chain, ix) THEN [ok |-> TRUE, chain |-> Effect(r.chain, ix)]
  ELSE [ok |-> FALSE, chain |-> c]

IsRun(c, ixs, n, f) ==
  f = [k \in 0 .. n |-> IF k = 0 THEN [ok |-> TRUE, chain |-> c] ELSE Step(c, f[k - 1], ixs[k])]

(* Every sequence of instructions has a run from every state: by least     *)
(* counterexample on its length.                                           *)
LEMMA RunExists ==
  ASSUME NEW c, NEW ixs, NEW N \in Nat
  PROVE  \E f : IsRun(c, ixs, N, f)
<1>. DEFINE P == {k \in 0 .. N : \E f : IsRun(c, ixs, k, f)}
            base == [ok |-> TRUE, chain |-> c]
<1>1. 0 \in P
  <2>1. IsRun(c, ixs, 0, [n \in 0 .. 0 |-> base])
    BY DEF IsRun
  <2>. QED
    BY <2>1
<1>2. ASSUME NEW n \in 1 .. N, n - 1 \in P PROVE n \in P
  <2>1. PICK g : IsRun(c, ixs, n - 1, g)
    BY <1>2
  <2>. DEFINE h == [i \in 0 .. n |-> IF i = n THEN Step(c, g[n - 1], ixs[n]) ELSE g[i]]
  <2>2. ASSUME NEW i \in 0 .. n
        PROVE  h[i] = IF i = 0 THEN base ELSE Step(c, h[i - 1], ixs[i])
    <3>1. CASE i = n
      BY <3>1
    <3>2. CASE i # n
      <4>1. i \in 0 .. n - 1
        BY <3>2
      <4>2. g[i] = IF i = 0 THEN base ELSE Step(c, g[i - 1], ixs[i])
        BY <2>1, <4>1 DEF IsRun
      <4>3. i = 0 \/ h[i - 1] = g[i - 1]
        BY <4>1
      <4>. QED
        BY <3>2, <4>2, <4>3
    <3>. QED
      BY <3>1, <3>2
  <2>3. IsRun(c, ixs, n, h)
    BY <2>2 DEF IsRun
  <2>. QED
    BY <2>3
<1>. HIDE DEF P
<1>3. N \in P
  BY <1>1, <1>2, UpTo
<1>. QED
  BY <1>3 DEF P

(* What holds of the Safe at the beginning, and after every instruction    *)
(* that is accepted, holds after the transaction; what holds after the     *)
(* last instruction holds too.                                             *)
LEMMA ExecuteRuns ==
  ASSUME NEW c, NEW S, NEW ixs \in Seq(S), NEW I,
         c \in I,
         \A d \in I, ix \in Range(ixs) : Accepts(d, ix) => Effect(d, ix) \in I
  PROVE  \E ok \in BOOLEAN, d \in I :
           /\ Execute(c, ixs) = [ok |-> ok, chain |-> d]
           /\ ~ok => d = c
           /\ ok /\ ixs # <<>> => \E e \in I : /\ Accepts(e, ixs[Len(ixs)])
                                               /\ d = Effect(e, ixs[Len(ixs)])
           /\ ok /\ Len(ixs) = 1 => Accepts(c, ixs[1]) /\ d = Effect(c, ixs[1])
           /\ ixs = <<>> => ok /\ d = c
<1>1. PICK N \in Nat : N = Len(ixs)
  OBVIOUS
<1>2. PICK f : IsRun(c, ixs, N, f) /\ Execute(c, ixs) = f[N]
  <2>. DEFINE f == CHOOSE f : IsRun(c, ixs, N, f)
  <2>1. IsRun(c, ixs, N, f)
    BY RunExists
  <2>2. Execute(c, ixs) = f[N]
    BY <1>1 DEF Execute, IsRun, Step
  <2>. QED
    BY <2>1, <2>2
<1>3. f[0] = [ok |-> TRUE, chain |-> c]
  BY <1>2 DEF IsRun
<1>4. ASSUME NEW k \in 1 .. N PROVE f[k] = Step(c, f[k - 1], ixs[k])
  <2>1. k \in 0 .. N /\ k # 0
    OBVIOUS
  <2>. QED
    BY <1>2, <2>1 DEF IsRun
<1>5. \A k \in 1 .. N : ixs[k] \in Range(ixs)
  BY <1>1 DEF Range
<1>. DEFINE Result == [ok : BOOLEAN, chain : I]
            P == {k \in 0 .. N : f[k] \in Result /\ (~f[k].ok => f[k].chain = c)}
<1>6. 0 \in P
  <2>1. [ok |-> TRUE, chain |-> c] \in Result
    OBVIOUS
  <2>2. f[0] \in Result /\ f[0].ok
    BY <1>3, <2>1
  <2>. QED
    BY <2>2
<1>7. ASSUME NEW n \in 1 .. N, n - 1 \in P PROVE n \in P
  <2>1. PICK r \in Result : r = f[n - 1]
    BY <1>7
  <2>2. PICK ix \in Range(ixs) : ix = ixs[n]
    BY <1>5
  <2>3. f[n] = Step(c, r, ix)
    BY <1>4, <2>1, <2>2
  <2>4. Step(c, r, ix) \in Result /\ (~Step(c, r, ix).ok => Step(c, r, ix).chain = c)
    BY <2>1 DEF Step
  <2>. QED
    BY <2>3, <2>4
<1>8. ASSUME NEW k \in 0 .. N PROVE f[k] \in Result /\ (~f[k].ok => f[k].chain = c)
  <2>1. 0 .. N \subseteq P
    <3>. HIDE DEF P
    <3>. QED
      BY <1>6, <1>7, UpTo
  <2>. QED
    BY <2>1
<1>9. PICK ok \in BOOLEAN, d \in I : f[N] = [ok |-> ok, chain |-> d] /\ (~ok => d = c)
  BY <1>8
<1>10. ASSUME ok, ixs # <<>>
       PROVE  \E r \in Result : /\ r = f[N - 1] /\ r.ok /\ Accepts(r.chain, ixs[N])
                                /\ d = Effect(r.chain, ixs[N])
  <2>1. N \in 1 .. N /\ N - 1 \in 0 .. N
    BY <1>1, <1>10
  <2>2. f[N] = Step(c, f[N - 1], ixs[N])
    BY <1>4, <2>1
  <2>3. PICK r \in Result : r = f[N - 1]
    BY <1>8, <2>1
  <2>. QED
    BY <1>9, <1>10, <2>2, <2>3 DEF Step
<1>11. ok /\ ixs # <<>> => \E e \in I : /\ Accepts(e, ixs[Len(ixs)])
                                        /\ d = Effect(e, ixs[Len(ixs)])
  BY <1>1, <1>10
<1>12. ok /\ Len(ixs) = 1 => Accepts(c, ixs[1]) /\ d = Effect(c, ixs[1])
  <2>. SUFFICES ASSUME ok, N = 1 PROVE Accepts(c, ixs[1]) /\ d = Effect(c, ixs[1])
    BY <1>1
  <2>1. ixs # <<>>
    <3>1. Len(<<>>) = 0
      OBVIOUS
    <3>2. 0 # 1
      OBVIOUS
    <3>. QED
      BY <1>1, <3>1, <3>2, Zenon
  <2>2. N - 1 = 0
    OBVIOUS
  <2>. QED
    BY <1>3, <1>10, <2>1, <2>2
<1>13. ixs = <<>> => ok /\ d = c
  BY <1>1, <1>3, <1>9
<1>. QED
  BY <1>2, <1>9, <1>11, <1>12, <1>13

(* A transaction of well-formed instructions keeps the supply; one that    *)
(* keeps a target ends with it; and without a deposit the Safe holds no    *)
(* more than before.                                                       *)
LEMMA ExecuteType ==
  ASSUME NEW c, Owned(c), NEW ixs \in Seq(Instr)
  PROVE  /\ Execute(c, ixs).ok \in BOOLEAN
         /\ Owned(Execute(c, ixs).chain)
         /\ ~Execute(c, ixs).ok => Execute(c, ixs).chain = c
         /\ Keeps(ixs, c.target) => Execute(c, ixs).chain.target = c.target
         /\ "deposit" \notin Ops(ixs) =>
              Execute(c, ixs).chain.idle + Execute(c, ixs).chain.shares <= c.idle + c.shares
<1>1. \A ix \in Range(ixs) : ix \in Instr
  <2>1. PICK n \in Nat : n = Len(ixs) /\ ixs \in [1 .. n -> Instr]
    BY LenProperties
  <2>. QED
    BY <2>1 DEF Range
<1>2. c.idle \in Nat /\ c.shares \in Nat /\ c \in Chain
  BY SafeChainAssumption DEF Owned, Chain
<1>3. \A d : Owned(d) => d.idle \in Nat /\ d.shares \in Nat
  BY SafeChainAssumption DEF Owned, Chain
<1>4. \A d, ix : Owned(d) /\ ix \in Range(ixs) /\ Accepts(d, ix) =>
        /\ Owned(Effect(d, ix))
        /\ ix.op \notin TargetOps => Effect(d, ix).target = d.target
        /\ ix.op = "set_allocation" => Effect(d, ix).target = ix.n
        /\ ix.op # "deposit" =>
             Effect(d, ix).idle + Effect(d, ix).shares <= d.idle + d.shares
  BY <1>1, EffectType
<1>. DEFINE result == Execute(c, ixs)
<1>5. result.ok \in BOOLEAN /\ Owned(result.chain) /\ (~result.ok => result.chain = c)
      /\ (result.ok /\ ixs # <<>> =>
            \E e : Owned(e) /\ Accepts(e, ixs[Len(ixs)])
                   /\ result.chain = Effect(e, ixs[Len(ixs)]))
  <2>. DEFINE I == {d \in Chain : Owned(d)}
  <2>1. c \in I /\ \A d \in I, ix \in Range(ixs) : Accepts(d, ix) => Effect(d, ix) \in I
    BY <1>2, <1>4 DEF Owned
  <2>2. \A d \in I : Owned(d)
    OBVIOUS
  <2>. HIDE DEF I
  <2>3. PICK ok \in BOOLEAN, d \in I :
           /\ Execute(c, ixs) = [ok |-> ok, chain |-> d]
           /\ ~ok => d = c
           /\ ok /\ ixs # <<>> => \E e \in I : /\ Accepts(e, ixs[Len(ixs)])
                                               /\ d = Effect(e, ixs[Len(ixs)])
    BY <2>1, ExecuteRuns
  <2>. QED
    BY <2>2, <2>3
<1>6. ASSUME Keeps(ixs, c.target) PROVE result.chain.target = c.target
  <2>1. CASE \A k \in 1 .. Len(ixs) : ixs[k].op \notin TargetOps
    <3>. DEFINE I == {d \in Chain : Owned(d) /\ d.target = c.target}
    <3>1. \A ix \in Range(ixs) : ix.op \notin TargetOps
      <4>1. PICK n \in Nat : n = Len(ixs) /\ ixs \in [1 .. n -> Instr]
        BY LenProperties
      <4>. QED
        BY <2>1, <4>1 DEF Range
    <3>2. c \in I /\ \A d \in I, ix \in Range(ixs) : Accepts(d, ix) => Effect(d, ix) \in I
      BY <1>2, <1>4, <3>1 DEF Owned
    <3>3. \A d \in I : d.target = c.target
      OBVIOUS
    <3>. HIDE DEF I
    <3>4. PICK ok \in BOOLEAN, d \in I : Execute(c, ixs) = [ok |-> ok, chain |-> d]
      BY <3>2, ExecuteRuns
    <3>. QED
      BY <3>3, <3>4
  <2>2. CASE ixs # <<>> /\ ixs[Len(ixs)] = Ix("set_allocation", c.target)
    <3>1. PICK n \in Nat : n = Len(ixs) /\ n > 0
      <4>1. Len(ixs) \in Nat \ {0}
        BY <2>2, EmptySeq
      <4>. QED
        BY <4>1
    <3>2. PICK ix \in Range(ixs) : ix = ixs[n] /\ ix.op = "set_allocation" /\ ix.n = c.target
      <4>1. ixs[n] \in Range(ixs)
        BY <3>1 DEF Range
      <4>. QED
        BY <2>2, <3>1, <4>1 DEF Ix
    <3>3. CASE result.ok
      <4>1. PICK e : Owned(e) /\ Accepts(e, ix) /\ result.chain = Effect(e, ix)
        BY <1>5, <2>2, <3>1, <3>2, <3>3
      <4>. QED
        BY <1>4, <3>2, <4>1
    <3>4. CASE ~result.ok
      BY <1>5, <3>4
    <3>. QED
      BY <3>3, <3>4
  <2>. QED
    BY <1>6, <2>1, <2>2 DEF Keeps
<1>7. ASSUME "deposit" \notin Ops(ixs)
      PROVE  result.chain.idle + result.chain.shares <= c.idle + c.shares
  <2>. DEFINE I == {d \in Chain : Owned(d) /\ d.idle + d.shares <= c.idle + c.shares}
  <2>1. \A ix \in Range(ixs) : ix.op # "deposit"
    BY <1>7 DEF Ops
  <2>2. c \in I
    BY <1>2 DEF Owned
  <2>3. ASSUME NEW d \in I, NEW ix \in Range(ixs), Accepts(d, ix) PROVE Effect(d, ix) \in I
    <3>1. PICK b : b = Effect(d, ix)
      OBVIOUS
    <3>2. Owned(b) /\ b.idle + b.shares <= d.idle + d.shares
      BY <1>4, <2>1, <2>3, <3>1
    <3>3. b.idle \in Nat /\ b.shares \in Nat /\ d.idle \in Nat /\ d.shares \in Nat
      BY <1>3, <3>2
    <3>4. b.idle + b.shares <= c.idle + c.shares
      BY <1>2, <3>2, <3>3
    <3>. QED
      BY <3>1, <3>2, <3>4 DEF Owned
  <2>4. \A d \in I : d.idle + d.shares <= c.idle + c.shares
    OBVIOUS
  <2>. HIDE DEF I
  <2>5. PICK ok \in BOOLEAN, d \in I : Execute(c, ixs) = [ok |-> ok, chain |-> d]
    BY <2>2, <2>3, ExecuteRuns
  <2>. QED
    BY <2>4, <2>5
<1>. QED
  BY <1>5, <1>6, <1>7

(* A transaction of one instruction.                                       *)
LEMMA ExecuteOne ==
  ASSUME NEW c, Owned(c), NEW ix \in Instr, Execute(c, <<ix>>).ok
  PROVE  Accepts(c, ix) /\ Execute(c, <<ix>>).chain = Effect(c, ix)
<1>1. PICK ixs \in Seq(Instr) : ixs = <<ix>> /\ Len(ixs) = 1 /\ ixs[1] = ix
  <2>1. <<ix>> \in Seq(Instr) /\ Len(<<ix>>) = 1 /\ <<ix>>[1] = ix
    OBVIOUS
  <2>. QED
    BY <2>1
<1>2. \A x \in Range(ixs) : x = ix
  BY <1>1 DEF Range
<1>3. PICK J : c \in J /\ \A d \in J, x \in Range(ixs) : Accepts(d, x) => Effect(d, x) \in J
  <2>. DEFINE J == {d \in Chain : Owned(d)}
  <2>1. c \in J
    BY DEF Owned
  <2>2. \A d \in J, x \in Range(ixs) : Accepts(d, x) => Effect(d, x) \in J
    BY <1>2, EffectType DEF Owned
  <2>. QED
    BY <2>1, <2>2
<1>4. \E ok \in BOOLEAN, d \in J :
        /\ Execute(c, ixs) = [ok |-> ok, chain |-> d]
        /\ ok /\ Len(ixs) = 1 => Accepts(c, ixs[1]) /\ d = Effect(c, ixs[1])
  BY <1>3, ExecuteRuns
<1>. QED
  BY <1>1, <1>4

-----------------------------------------------------------------------------
(* What the clients plan. *)

(* Instructions that do not touch the target.                              *)
Plain == {ix \in Instr : ix.op \notin TargetOps}

(* The instructions that leave the target alone, and the three that do not.*)
LEMMA IxType ==
  /\ \A op \in OpNames \ TargetOps, n \in Nat : Ix(op, n) \in Plain
  /\ \A t \in Percents : Ix("set_allocation", t) \in Instr
  /\ \A op \in TargetOps \ {"set_allocation"}, n \in Nat : Ix(op, n) \in Instr
<1>1. Percents \subseteq Nat
  BY PercentType
<1>. QED
  BY <1>1 DEF Ix, Plain, Instr, OpNames, TargetOps

(* Instructions none of which touches the target keep any target.          *)
LEMMA PlainKeeps ==
  ASSUME NEW ixs \in Seq(Plain), NEW t
  PROVE  ixs \in Seq(Instr) /\ Keeps(ixs, t)
<1>1. PICK n \in Nat : n = Len(ixs) /\ ixs \in [1 .. n -> Plain]
  BY LenProperties
<1>2. ixs \in Seq(Instr)
  <2>1. Plain \subseteq Instr
    BY DEF Plain
  <2>2. ixs \in [1 .. n -> Instr]
    BY <1>1, <2>1
  <2>. QED
    BY <2>2, SeqDef
<1>3. \A k \in 1 .. n : ixs[k].op \notin TargetOps
  BY <1>1 DEF Plain
<1>. QED
  BY <1>1, <1>2, <1>3 DEF Keeps

(* One instruction that leaves the target alone.                           *)
LEMMA PlainOne ==
  ASSUME NEW op \in OpNames \ TargetOps, NEW n \in Nat
  PROVE  <<Ix(op, n)>> \in Seq(Plain)
<1>1. PICK ix \in Plain : ix = Ix(op, n)
  BY IxType
<1>2. <<ix>> \in Seq(Plain)
  OBVIOUS
<1>. QED
  BY <1>1, <1>2

(* Two plain sequences joined are plain.                                   *)
LEMMA PlainJoin ==
  ASSUME NEW s \in Seq(Plain), NEW r \in Seq(Plain)
  PROVE  s \o r \in Seq(Plain)
BY ConcatProperties

(* The empty sequence is plain.                                            *)
LEMMA EmptyPlain == <<>> \in Seq(Plain)
BY EmptySeq, Zenon

(* A target that is put back in the end.                                   *)
LEMMA PutBackKeeps ==
  ASSUME NEW s \in Seq(Instr), NEW t \in Percents
  PROVE  /\ s \o <<Ix("set_allocation", t)>> \in Seq(Instr)
         /\ Keeps(s \o <<Ix("set_allocation", t)>>, t)
<1>1. PICK ix \in Instr : ix = Ix("set_allocation", t)
  BY IxType
<1>2. PICK n \in Nat : n = Len(s)
  OBVIOUS
<1>3. PICK last \in Seq(Instr) : last = <<ix>> /\ Len(last) = 1 /\ last[1] = ix
  <2>1. <<ix>> \in Seq(Instr) /\ Len(<<ix>>) = 1 /\ <<ix>>[1] = ix
    OBVIOUS
  <2>. QED
    BY <2>1
<1>4. PICK all \in Seq(Instr) : all = s \o last /\ Len(all) = n + 1 /\ all[n + 1] = ix
  <2>1. s \o last \in Seq(Instr) /\ Len(s \o last) = n + 1
    BY <1>2, <1>3, ConcatProperties
  <2>2. (s \o last)[n + 1] = ix
    <3>1. n + 1 \in 1 .. Len(s) + Len(last) /\ ~(n + 1 <= Len(s)) /\ n + 1 - Len(s) = 1
      BY <1>2, <1>3
    <3>. QED
      BY <1>3, <3>1, ConcatProperties
  <2>. QED
    BY <2>1, <2>2
<1>5. all # <<>>
  <2>1. Len(<<>>) = 0 /\ n + 1 # 0
    OBVIOUS
  <2>. QED
    BY <1>4, <2>1, Zenon
<1>. QED
  BY <1>1, <1>3, <1>4, <1>5 DEF Keeps

(* Setting the target to 100 before plain instructions and back after them *)
(* keeps it.                                                               *)
LEMMA BorrowKeeps ==
  ASSUME NEW before \in Seq(Plain), NEW between \in Seq(Plain), NEW t \in Percents,
         NEW borrow, NEW back,
         IF t = 100 THEN borrow = <<>> /\ back = <<>>
         ELSE borrow = <<Ix("set_allocation", 100)>> /\ back = <<Ix("set_allocation", t)>>
  PROVE  /\ before \o borrow \o between \o back \in Seq(Instr)
         /\ Keeps(before \o borrow \o between \o back, t)
<1>1. CASE t = 100
  <2>1. before \o borrow \o between \o back = before \o between
    <3>1. borrow = <<>> /\ back = <<>>
      BY <1>1
    <3>2. before \o <<>> = before
      BY ConcatEmptySeq
    <3>3. before \o between \in Seq(Plain)
      BY PlainJoin
    <3>4. (before \o between) \o <<>> = before \o between
      BY <3>3, ConcatEmptySeq
    <3>. QED
      BY <3>1, <3>2, <3>4, Zenon
  <2>2. PICK all \in Seq(Plain) : all = before \o between
    BY PlainJoin
  <2>. QED
    BY <2>1, <2>2, PlainKeeps, Zenon
<1>2. CASE t # 100
  <2>1. PICK first \in Seq(Instr) : first = borrow
    <3>1. PICK ix \in Instr : ix = Ix("set_allocation", 100)
      BY IxType, PercentType
    <3>2. <<ix>> \in Seq(Instr)
      OBVIOUS
    <3>. QED
      BY <1>2, <3>1, <3>2
  <2>2. before \in Seq(Instr) /\ between \in Seq(Instr)
    BY PlainKeeps
  <2>3. PICK all \in Seq(Instr) : all = before \o borrow \o between
    <3>1. before \o first \in Seq(Instr)
      BY <2>2, ConcatProperties
    <3>2. (before \o first) \o between \in Seq(Instr)
      BY <2>2, <3>1, ConcatProperties
    <3>. QED
      BY <2>1, <3>2
  <2>4. back = <<Ix("set_allocation", t)>>
    BY <1>2
  <2>. QED
    BY <2>3, <2>4, PutBackKeeps, Zenon
<1>. QED
  BY <1>1, <1>2

(* buildOwnerKaminoDeposit keeps the target it read, from the Safe or from *)
(* the wallet.                                                             *)
LEMMA InvestIxsType ==
  ASSUME NEW source \in {"safe", "wallet"}, NEW n \in Nat, NEW t \in Percents
  PROVE  InvestIxs(source, n, t) \in Seq(Instr) /\ Keeps(InvestIxs(source, n, t), t)
<1>. DEFINE borrow == IF t = 100 THEN <<>> ELSE <<Ix("set_allocation", 100)>>
            back == IF t = 100 THEN <<>> ELSE <<Ix("set_allocation", t)>>
            pay == IF source = "wallet" THEN <<Ix("deposit", n)>> ELSE <<>>
            put == <<Ix("create_shares", 0), Ix("kamino_deposit", n)>>
<1>1. pay \in Seq(Plain)
  BY EmptyPlain, PlainOne DEF OpNames, TargetOps
<1>2. put \in Seq(Plain)
  <2>1. PICK a \in Plain, b \in Plain : a = Ix("create_shares", 0) /\ b = Ix("kamino_deposit", n)
    BY IxType DEF OpNames, TargetOps
  <2>2. <<a, b>> \in Seq(Plain)
    OBVIOUS
  <2>. QED
    BY <2>1, <2>2
<1>3. InvestIxs(source, n, t) = borrow \o pay \o put \o back
  BY DEF InvestIxs
<1>4. PICK B, K : B = borrow /\ K = back
  OBVIOUS
<1>5. IF t = 100 THEN B = <<>> /\ K = <<>>
      ELSE B = <<Ix("set_allocation", 100)>> /\ K = <<Ix("set_allocation", t)>>
  BY <1>4
<1>. HIDE DEF borrow, back, pay, put
<1>6. PICK between \in Seq(Plain) : between = pay \o put
  BY <1>1, <1>2, PlainJoin
<1>7. B \in Seq(Instr)
  <2>1. <<>> \in Seq(Instr)
    BY EmptySeq, Zenon
  <2>2. PICK ix \in Instr : ix = Ix("set_allocation", 100)
    BY IxType, PercentType
  <2>3. <<ix>> \in Seq(Instr)
    OBVIOUS
  <2>. QED
    BY <1>5, <2>1, <2>2, <2>3
<1>8. B \o pay \o put = <<>> \o B \o between
  <2>1. pay \in Seq(Instr) /\ put \in Seq(Instr)
    BY <1>1, <1>2, PlainKeeps
  <2>2. (B \o pay) \o put = B \o (pay \o put)
    BY <1>7, <2>1, ConcatAssociative
  <2>3. <<>> \o B = B
    BY <1>7, ConcatEmptySeq
  <2>. QED
    BY <1>6, <2>2, <2>3, Zenon
<1>9. /\ <<>> \o B \o between \o K \in Seq(Instr)
      /\ Keeps(<<>> \o B \o between \o K, t)
  BY <1>5, EmptyPlain, BorrowKeeps
<1>. QED
  BY <1>3, <1>4, <1>8, <1>9, Zenon

(* The instructions that open or close token accounts leave the target     *)
(* alone.                                                                  *)
LEMMA CreateType ==
  createUsdc \in Seq(Plain) /\ createShares \in Seq(Plain) /\ closeEmptyTokens \in Seq(Plain)
<1>1. <<>> \in Seq(Plain)
  BY EmptyPlain
<1>2. PICK u \in Seq(Plain), s \in Seq(Plain), cu \in Seq(Plain), cs \in Seq(Plain) :
        /\ u = <<Ix("create_usdc", 0)>> /\ s = <<Ix("create_shares", 0)>>
        /\ cu = <<Ix("close_usdc", 0)>> /\ cs = <<Ix("close_shares", 0)>>
  BY PlainOne DEF OpNames, TargetOps
<1>3. \A a \in {<<>>, cu}, b \in {<<>>, cs} : a \o b \in Seq(Plain)
  BY <1>1, PlainJoin
<1>4. closeEmptyTokens \in Seq(Plain)
  BY <1>2, <1>3 DEF closeEmptyTokens
<1>. QED
  BY <1>1, <1>2, <1>4 DEF createUsdc, createShares

(* Joining three sequences of instructions is associative.                 *)
LEMMA JoinThree == \A s, a, b \in Seq(Instr) : (s \o a) \o b = s \o (a \o b)
BY ConcatAssociative

AreSeqs(s, a, b, c) ==
  s \in Seq(Instr) /\ a \in Seq(Instr) /\ b \in Seq(Instr) /\ c \in Seq(Instr)

JoinsInAnyOrder(s, a, b, c) == ((s \o a) \o b) \o c = s \o ((a \o b) \o c)

(* The same, for a fourth sequence.                                        *)
LEMMA JoinFour ==
  ASSUME NEW s, NEW a, NEW b, NEW c, AreSeqs(s, a, b, c)
  PROVE  JoinsInAnyOrder(s, a, b, c)
<1>1. s \in Seq(Instr) /\ a \in Seq(Instr) /\ b \in Seq(Instr) /\ c \in Seq(Instr)
  BY DEF AreSeqs
<1>2. PICK ab : ab = a \o b
  OBVIOUS
<1>3. ab \in Seq(Instr)
  BY <1>1, <1>2, ConcatProperties
<1>4. (s \o a) \o b = s \o ab
  BY <1>1, <1>2, JoinThree
<1>5. (s \o ab) \o c = s \o (ab \o c)
  BY <1>1, <1>3, JoinThree
<1>. QED
  BY <1>2, <1>4, <1>5, Zenon DEF JoinsInAnyOrder

(* The mobile Kamino deposit keeps the target it is planned from.          *)
LEMMA KaminoDepositPlanType ==
  ASSUME NEW source \in {"safe", "wallet"}, NEW n \in Nat, chain.target \in Percents, saves \in Nat,
         NEW plan, plan = KaminoDepositPlan(source, n)
  PROVE  plan \in PlanType /\ plan.kind = "invest" /\ Fresh(plan.kind, plan.ixs, plan.read)
<1>1. PICK t \in Percents : t = chain.target
  OBVIOUS
<1>. DEFINE borrow == IF t = 100 THEN <<>> ELSE <<Ix("set_allocation", 100)>>
            back == IF t = 100 THEN <<>> ELSE <<Ix("set_allocation", t)>>
            pay == IF source = "wallet" THEN <<Ix("deposit", n)>> ELSE <<>>
            put == <<Ix("kamino_deposit", n)>>
<1>2. pay \in Seq(Plain) /\ put \in Seq(Plain) /\ createUsdc \in Seq(Plain)
      /\ createShares \in Seq(Plain)
  BY EmptyPlain, PlainOne, CreateType DEF OpNames, TargetOps
<1>3. KaminoDepositPlan(source, n)
        = Plan("invest", createUsdc \o borrow \o pay \o createShares \o put \o back)
  BY <1>1 DEF KaminoDepositPlan
<1>4. PICK B, K : B = borrow /\ K = back
  OBVIOUS
<1>5. IF t = 100 THEN B = <<>> /\ K = <<>>
      ELSE B = <<Ix("set_allocation", 100)>> /\ K = <<Ix("set_allocation", t)>>
  BY <1>4
<1>. HIDE DEF borrow, back, pay, put
<1>6. PICK between \in Seq(Plain) : between = pay \o createShares \o put
  <2>1. pay \o createShares \in Seq(Plain)
    BY <1>2, PlainJoin
  <2>. QED
    BY <1>2, <2>1, PlainJoin
<1>7. PICK first \in Seq(Plain) : first = createUsdc
  BY <1>2
<1>8. B \in Seq(Instr)
  <2>1. <<>> \in Seq(Instr)
    BY EmptySeq, Zenon
  <2>2. PICK ix \in Instr : ix = Ix("set_allocation", 100)
    BY IxType, PercentType
  <2>3. <<ix>> \in Seq(Instr)
    OBVIOUS
  <2>. QED
    BY <1>5, <2>1, <2>2, <2>3
<1>9. createUsdc \o B \o pay \o createShares \o put = first \o B \o between
  <2>1. first \in Seq(Instr) /\ pay \in Seq(Instr) /\ createShares \in Seq(Instr) /\ put \in Seq(Instr)
    BY <1>2, PlainKeeps
  <2>2. first \o B \in Seq(Instr)
    BY <1>8, <2>1, ConcatProperties
  <2>3. PICK s, p, q, r : s = first \o B /\ p = pay /\ q = createShares /\ r = put
    OBVIOUS
  <2>4. AreSeqs(s, p, q, r)
    BY <2>1, <2>2, <2>3 DEF AreSeqs
  <2>5. JoinsInAnyOrder(s, p, q, r)
    BY <2>4, JoinFour
  <2>6. ((s \o p) \o q) \o r = s \o ((p \o q) \o r)
    BY <2>5, Zenon DEF JoinsInAnyOrder
  <2>. QED
    BY <1>6, <1>7, <2>3, <2>6, Zenon
<1>10. PICK ixs \in Seq(Instr) : ixs = first \o B \o between \o K /\ Keeps(ixs, t)
  BY <1>5, BorrowKeeps
<1>11. plan = Plan("invest", ixs)
  BY <1>3, <1>4, <1>9, <1>10, Zenon
<1>. QED
  BY <1>1, <1>10, <1>11 DEF Plan, PlanType, Fresh, Kinds, ApiOps

-----------------------------------------------------------------------------
(* The plans of the mobile clients. *)

PlanFits(plan) == plan \in PlanType /\ Fresh(plan.kind, plan.ixs, plan.read)

(* A plan that sets a target on purpose, or keeps the one it read, is      *)
(* fresh.                                                                  *)
LEMMA PlanOf ==
  ASSUME saves \in Nat, NEW kind \in Kinds, NEW ixs \in Seq(Instr),
         SetsTarget(kind) \/ Keeps(ixs, chain.target)
  PROVE  PlanFits(Plan(kind, ixs))
BY DEF PlanFits, PlanType, Plan, Fresh

(* A single instruction is a sequence of instructions.                     *)
LEMMA OneType ==
  ASSUME NEW op \in OpNames, NEW n \in Nat, op = "set_allocation" => n \in Percents
  PROVE  <<Ix(op, n)>> \in Seq(Instr)
<1>1. PICK ix \in Instr : ix = Ix(op, n)
  BY DEF Ix, Instr
<1>2. <<ix>> \in Seq(Instr)
  OBVIOUS
<1>. QED
  BY <1>1, <1>2

(* The mobile plan that creates the Safe and deposits is fresh.            *)
LEMMA CreationPlanFits ==
  ASSUME saves \in Nat, NEW n \in Nat
  PROVE  PlanFits(CreationPlan(n))
<1>1. PICK a \in Instr, b \in Instr : a = Ix("initialize", 0) /\ b = Ix("deposit", n)
  BY DEF Ix, Instr, OpNames, TargetOps
<1>2. <<a>> \in Seq(Instr) /\ <<a, b>> \in Seq(Instr)
  OBVIOUS
<1>3. "create" \in Kinds /\ SetsTarget("create")
  BY DEF Kinds, PanelOps, SetsTarget
<1>4. \A ixs \in Seq(Instr) : PlanFits(Plan("create", ixs))
  BY <1>3, PlanOf
<1>. QED
  BY <1>1, <1>2, <1>4 DEF CreationPlan

(* The mobile deposit and withdrawal plans are fresh.                      *)
LEMMA TransferPlansFit ==
  ASSUME saves \in Nat, Owned(chain), NEW kind \in {"deposit", "withdraw"}, NEW n \in Nat,
         NEW plan \in TransferPlans(kind, n)
  PROVE  PlanFits(plan)
<1>1. chain.idle \in Nat
  BY SafeChainAssumption DEF Owned, Chain
<1>2. \A ixs \in Seq(Plain) : PlanFits(Plan(kind, ixs))
  <2>1. kind \in Kinds
    BY DEF Kinds, PanelOps
  <2>. QED
    BY <2>1, PlainKeeps, PlanOf
<1>3. PICK ixs \in Seq(Plain) : plan = Plan(kind, ixs)
  <2>1. CASE kind = "deposit"
    <3>1. <<Ix("deposit", n)>> \in Seq(Plain)
      BY PlainOne DEF OpNames, TargetOps
    <3>2. createUsdc \o <<Ix("deposit", n)>> \in Seq(Plain)
      BY <3>1, CreateType, PlainJoin
    <3>. QED
      BY <2>1, <3>2 DEF TransferPlans
  <2>2. CASE kind = "withdraw"
    <3>1. PICK a \in Nat : plan = Plan(kind, <<Ix("withdraw", a)>>)
      BY <1>1, <2>2 DEF TransferPlans
    <3>2. <<Ix("withdraw", a)>> \in Seq(Plain)
      BY PlainOne DEF OpNames, TargetOps
    <3>. QED
      BY <3>1, <3>2
  <2>. QED
    BY <2>1, <2>2
<1>. QED
  BY <1>2, <1>3

(* Every plan the mobile API prepares is fresh.                            *)
LEMMA PlansForFit ==
  ASSUME saves \in Nat, Owned(chain), NEW op \in MobileOps, NEW n \in Nat,
         NEW plan \in PlansFor(op, n)
  PROVE  PlanFits(plan)
<1>1. CASE op = "create" \/ op = "create_deposit"
  <2>1. plan = CreationPlan(0) \/ plan = CreationPlan(n)
    BY <1>1 DEF PlansFor
  <2>. QED
    BY <2>1, CreationPlanFits
<1>2. CASE op = "deposit" \/ op = "withdraw"
  <2>1. plan \in TransferPlans(op, n)
    BY <1>2 DEF PlansFor
  <2>. QED
    BY <1>2, <2>1, TransferPlansFit
<1>. QED
  BY <1>1, <1>2 DEF MobileOps

(* The plans that redeem from Kamino or return USDC are fresh.             *)
LEMMA KaminoPlansFit ==
  ASSUME saves \in Nat, NEW plan, NEW n \in Nat, NEW kind \in {"redeem", "return"},
         NEW op \in {"kamino_withdraw", "withdraw"}, plan = Plan(kind, <<Ix(op, n)>>)
  PROVE  PlanFits(plan)
<1>1. kind \in Kinds
  BY DEF Kinds, ApiOps
<1>2. <<Ix(op, n)>> \in Seq(Plain)
  BY PlainOne DEF OpNames, TargetOps
<1>. QED
  BY <1>1, <1>2, PlainKeeps, PlanOf

-----------------------------------------------------------------------------
(* The transactions the owner signed. *)

Others(i) == \A j \in Txs \ {i} : tx'[j] = tx[j]

(* The bounds of a use of the clients are numbers.                         *)
LEMMA UseType ==
  ASSUME uses \in Uses
  PROVE  uses.txs \in 0 .. MaxTx /\ uses.steps \in Nat
BY SafeChainAssumption

(* A set of signatures is finite and within the bound.                     *)
LEMMA DoneFinite ==
  ASSUME NEW S, S \subseteq Txs
  PROVE  IsFiniteSet(S) /\ Cardinality(S) \in 0 .. MaxTx
<1>1. IsFiniteSet(1 .. MaxTx) /\ Cardinality(1 .. MaxTx) = MaxTx
  <2>1. MaxTx \in Nat
    BY SafeChainAssumption
  <2>. QED
    BY <2>1, FS_Interval
<1>2. IsFiniteSet(S) /\ Cardinality(S) <= MaxTx
  BY <1>1, FS_Subset DEF Txs
<1>3. Cardinality(S) \in Nat
  BY <1>2, FS_CardinalityType
<1>. QED
  BY <1>2, <1>3, SafeChainAssumption

(* The signatures made are the first ones, so counting them gives the last.*)
LEMMA SignedPrefix ==
  ASSUME NEW n \in 0 .. MaxTx, \A i \in Txs : tx[i].st # "none" <=> i <= n
  PROVE  Signed = n
<1>1. {i \in Txs : tx[i].st # "none"} = 1 .. n
  BY SafeChainAssumption DEF Txs
<1>2. Cardinality(1 .. n) = n
  BY FS_Interval, SafeChainAssumption
<1>. QED
  BY <1>1, <1>2 DEF Signed

(* No more targets are saved than there are transactions.                  *)
LEMMA SavesBound ==
  ASSUME ChainTypes, Numbered
  PROVE  saves \in 0 .. MaxTx
<1>1. PICK s \in Nat : s = saves
  BY DEF ChainTypes
<1>2. Cardinality(Done) \in 0 .. MaxTx
  BY DoneFinite DEF Done
<1>. QED
  BY <1>1, <1>2, SafeChainAssumption DEF Numbered

(* The next signature has not been made.                                   *)
LEMMA NextIsFree ==
  ASSUME ChainTypes, Numbered, CanSign
  PROVE  NextTx \in Txs /\ tx[NextTx].st = "none"
<1>1. PICK n \in 0 .. MaxTx : \A i \in Txs : tx[i].st # "none" <=> i <= n
  BY DEF Numbered
<1>2. Signed = n
  BY <1>1, SignedPrefix
<1>3. PICK most \in 0 .. MaxTx : most = uses.txs
  BY UseType DEF ChainTypes
<1>4. n < most
  BY <1>2, <1>3 DEF CanSign
<1>5. n + 1 \in Txs /\ ~(n + 1 <= n)
  BY <1>4, SafeChainAssumption DEF Txs
<1>. QED
  BY <1>1, <1>2, <1>5 DEF NextTx

(* A step that changes one transaction leaves the others.                  *)
LEMMA OneTx ==
  ASSUME tx \in [Txs -> TxType], NEW i \in Txs, NEW r \in TxType, tx' = [tx EXCEPT ![i] = r]
  PROVE  (tx \in [Txs -> TxType])' /\ tx'[i] = r /\ Others(i)
BY DEF Others

(* A new signature takes the next number.                                  *)
LEMMA SignNumbered ==
  ASSUME ChainTypes, Numbered, CanSign, NEW r \in TxType, r.st \in {"signed", "live"},
         tx' = [tx EXCEPT ![NextTx] = r], UNCHANGED saves
  PROVE  Numbered'
<1>1. PICK n \in 0 .. MaxTx : \A i \in Txs : tx[i].st # "none" <=> i <= n
  BY DEF Numbered
<1>2. PICK m \in Txs : m = NextTx /\ m = n + 1 /\ tx[m].st = "none"
  <2>1. NextTx = n + 1
    BY <1>1, SignedPrefix DEF NextTx
  <2>. QED
    BY <2>1, NextIsFree
<1>3. tx'[m] = r /\ Others(m)
  BY <1>2, OneTx DEF ChainTypes
<1>4. m \in 0 .. MaxTx
  BY SafeChainAssumption DEF Txs
<1>5. ASSUME NEW i \in Txs PROVE tx'[i].st # "none" <=> i <= m
  <2>1. CASE i = m
    BY <1>2, <1>3, <2>1
  <2>2. CASE i # m
    <3>1. tx'[i] = tx[i]
      BY <1>3, <2>2 DEF Others
    <3>2. i <= m <=> i <= n
      BY <1>2, <2>2 DEF Txs
    <3>. QED
      BY <1>1, <3>1, <3>2
  <2>. QED
    BY <2>1, <2>2
<1>6. Done' = Done
  <2>1. \A i \in Txs : tx'[i].st = "done" <=> tx[i].st = "done"
    BY <1>2, <1>3 DEF Others
  <2>. QED
    BY <2>1 DEF Done, Txs
<1>7. (saves <= Cardinality(Done))'
  <2>1. saves <= Cardinality(Done)
    BY DEF Numbered
  <2>. QED
    BY <1>6, <2>1, Zenon
<1>. QED
  BY <1>4, <1>5, <1>7 DEF Numbered, Txs

(* A transaction that settles keeps its number, and saves a target only by *)
(* landing.                                                                *)
LEMMA MoveNumbered ==
  ASSUME ChainTypes, Numbered, NEW i \in Txs, NEW r \in TxType, tx' = [tx EXCEPT ![i] = r],
         tx[i].st \in {"signed", "live"}, r.st # "none",
         saves' = saves \/ (saves' = saves + 1 /\ r.st = "done")
  PROVE  Numbered'
<1>1. PICK n \in 0 .. MaxTx : \A j \in Txs : tx[j].st # "none" <=> j <= n
  BY DEF Numbered
<1>2. tx'[i] = r /\ Others(i)
  BY OneTx DEF ChainTypes
<1>3. \A j \in Txs : tx'[j].st # "none" <=> j <= n
  BY <1>1, <1>2 DEF Others
<1>4. PICK D : D = Done /\ D \subseteq Txs /\ i \notin D
  <2>1. Done \subseteq Txs /\ i \notin Done
    BY DEF Done
  <2>. QED
    BY <2>1
<1>5. IsFiniteSet(D) /\ Cardinality(D) \in Nat
  BY <1>4, DoneFinite
<1>6. PICK s \in Nat : s = saves /\ s <= Cardinality(D)
  BY <1>4 DEF ChainTypes, Numbered
<1>7. \A j \in Txs : tx'[j].st = "done" <=> tx[j].st = "done" \/ (j = i /\ r.st = "done")
  BY <1>2 DEF Others
<1>8. (saves <= Cardinality(Done))'
  <2>1. CASE r.st = "done"
    <3>1. Done' = D \cup {i}
      BY <1>4, <1>7, <2>1 DEF Done, Txs
    <3>2. Cardinality(D \cup {i}) = Cardinality(D) + 1
      BY <1>4, <1>5, FS_AddElement
    <3>3. s <= Cardinality(D) + 1 /\ s + 1 <= Cardinality(D) + 1
      BY <1>5, <1>6
    <3>4. saves' = s \/ saves' = s + 1
      BY <1>6
    <3>. QED
      BY <3>1, <3>2, <3>3, <3>4, Zenon
  <2>2. CASE r.st # "done"
    <3>1. Done' = D
      BY <1>4, <1>7, <2>2 DEF Done, Txs
    <3>2. saves' = s
      BY <1>6, <2>2
    <3>. QED
      BY <1>6, <3>1, <3>2, Zenon
  <2>. QED
    BY <2>1, <2>2
<1>. QED
  BY <1>3, <1>8 DEF Numbered, Txs

-----------------------------------------------------------------------------
(* A plan stays fresh while the chain moves on: a target that changes is   *)
(* counted as saved.                                                       *)
Onward == saves' = saves + 1 \/ (saves' = saves /\ chain'.target = chain.target)

(* A plan stays fresh while the target stays, and when a target is saved it*)
(* is no longer asked to keep it.                                          *)
LEMMA FreshOnward ==
  ASSUME saves \in Nat, Onward, NEW kind, NEW ixs, NEW read \in Nat, Fresh(kind, ixs, read)
  PROVE  Fresh(kind, ixs, read)'
<1>1. PICK s \in Nat, z \in Nat : s = saves /\ z = saves' /\ (z = s + 1 \/ z = s)
  <2>1. saves + 1 \in Nat
    OBVIOUS
  <2>2. saves' \in Nat /\ (saves' = saves + 1 \/ saves' = saves)
    BY <2>1 DEF Onward
  <2>. QED
    BY <2>2
<1>2. read <= z
  BY <1>1 DEF Fresh
<1>3. ASSUME read = z PROVE z = s
  BY <1>1, <1>3 DEF Fresh
<1>4. read = saves' /\ ~SetsTarget(kind) => Keeps(ixs, chain'.target)
  <2>1. CASE read = z
    <3>1. saves' = saves /\ chain'.target = chain.target
      BY <1>1, <1>3, <2>1 DEF Onward
    <3>2. read = saves
      BY <1>1, <1>3, <2>1
    <3>. QED
      BY <3>1, <3>2 DEF Fresh
  <2>2. CASE read # z
    BY <1>1, <2>2
  <2>. QED
    BY <2>1, <2>2
<1>5. read <= saves'
  BY <1>1, <1>2, Zenon
<1>. QED
  BY <1>4, <1>5 DEF Fresh

(* The same of what the web panel has built.                               *)
LEMMA PanelFreshOnward ==
  ASSUME ChainTypes, PanelTypes, PanelFresh, Onward, UNCHANGED panel
  PROVE  PanelFresh'
<1>1. PICK s \in Nat : s = saves
  BY DEF ChainTypes
<1>2. PICK r \in Nat : r = panel.read
  BY SafeChainAssumption DEF PanelTypes, PanelType
<1>3. (panel.read <= saves)'
  <2>1. r <= s
    BY <1>1, <1>2 DEF PanelFresh
  <2>2. r <= s + 1
    BY <2>1
  <2>3. saves' = s \/ saves' = s + 1
    BY <1>1 DEF Onward
  <2>4. panel'.read = r
    BY <1>2
  <2>. QED
    BY <2>1, <2>2, <2>3, <2>4, Zenon
<1>4. ASSUME (panel.at = "built")' PROVE Fresh(panel.op, panel.ixs, panel.read)'
  <2>1. PICK op, ixs : op = panel.op /\ ixs = panel.ixs
    OBVIOUS
  <2>2. Fresh(op, ixs, r)
    BY <1>2, <1>4, <2>1 DEF PanelFresh
  <2>3. Fresh(op, ixs, r)'
    BY <1>1, <2>2, FreshOnward
  <2>4. (panel.op = op /\ panel.ixs = ixs /\ panel.read = r)'
    BY <1>2, <2>1
  <2>. QED
    BY <2>3, <2>4 DEF Fresh
<1>. QED
  BY <1>3, <1>4 DEF PanelFresh

(* The same of what the mobile tabs hold.                                  *)
LEMMA TabFreshOnward ==
  ASSUME ChainTypes, TabTypes, TabFresh, Onward, UNCHANGED tab
  PROVE  TabFresh'
<1>1. ASSUME NEW t \in Tabs
      PROVE  Fresh(tab[t].plan.kind, tab[t].plan.ixs, tab[t].plan.read)'
  <2>1. PICK q \in PlanType : q = tab[t].plan
    BY DEF TabTypes, TabType
  <2>2. q.read \in Nat
    BY DEF PlanType
  <2>3. Fresh(q.kind, q.ixs, q.read)'
    <3>1. Fresh(q.kind, q.ixs, q.read)
      BY <2>1 DEF TabFresh
    <3>. QED
      BY <2>2, <3>1, FreshOnward DEF ChainTypes
  <2>4. (tab[t].plan = q)'
    BY <2>1
  <2>. QED
    BY <2>3, <2>4 DEF Fresh
<1>. QED
  BY <1>1 DEF TabFresh

(* What one transaction becomes.                                           *)
LEMMA TxFreshStep ==
  ASSUME ChainTypes, TxFresh, Onward, NEW i \in Txs, NEW r \in TxType,
         tx' = [tx EXCEPT ![i] = r],
         r.st \in {"signed", "live"} => Fresh(r.kind, r.ixs, r.read)'
  PROVE  TxFresh'
<1>1. tx'[i] = r /\ Others(i)
  BY OneTx DEF ChainTypes
<1>2. ASSUME NEW j \in Txs, tx'[j].st \in {"signed", "live"}
      PROVE  Fresh(tx[j].kind, tx[j].ixs, tx[j].read)'
  <2>1. CASE j = i
    <3>1. (tx[j] = r)'
      BY <1>1, <2>1
    <3>2. Fresh(r.kind, r.ixs, r.read)'
      BY <1>2, <3>1
    <3>. QED
      BY <3>1, <3>2 DEF Fresh
  <2>2. CASE j # i
    <3>1. PICK q \in TxType : q = tx[j] /\ q = tx'[j]
      BY <1>1, <2>2 DEF ChainTypes, Others
    <3>2. q.read \in Nat
      BY DEF TxType
    <3>3. Fresh(q.kind, q.ixs, q.read)
      BY <1>2, <3>1 DEF TxFresh
    <3>4. Fresh(q.kind, q.ixs, q.read)'
      BY <3>2, <3>3, FreshOnward DEF ChainTypes
    <3>5. (tx[j] = q)'
      BY <3>1
    <3>. QED
      BY <3>4, <3>5 DEF Fresh
  <2>. QED
    BY <2>1, <2>2
<1>. QED
  BY <1>2 DEF TxFresh, Txs

(* The same of the transactions that have not landed.                      *)
LEMMA TxFreshOnward ==
  ASSUME ChainTypes, TxFresh, Onward, UNCHANGED tx
  PROVE  TxFresh'
<1>1. ASSUME NEW j \in Txs, tx'[j].st \in {"signed", "live"}
      PROVE  Fresh(tx[j].kind, tx[j].ixs, tx[j].read)'
  <2>1. PICK q \in TxType : q = tx[j] /\ q = tx'[j]
    BY DEF ChainTypes
  <2>2. q.read \in Nat
    BY DEF TxType
  <2>3. Fresh(q.kind, q.ixs, q.read)
    BY <1>1, <2>1 DEF TxFresh
  <2>4. Fresh(q.kind, q.ixs, q.read)'
    BY <2>2, <2>3, FreshOnward DEF ChainTypes
  <2>5. (tx[j] = q)'
    BY <2>1
  <2>. QED
    BY <2>4, <2>5 DEF Fresh
<1>. QED
  BY <1>1 DEF TxFresh, Txs

-----------------------------------------------------------------------------
(* Steps of the chain. *)

(* The amounts of an accounted state are numbers and its target a          *)
(* percentage.                                                             *)
LEMMA AmountsType ==
  ASSUME NEW c, Owned(c)
  PROVE  c.idle \in Nat /\ c.shares \in Nat /\ c.wallet \in Nat /\ c.target \in Percents
BY SafeChainAssumption DEF Owned, Chain, Percents

(* A settled transaction is a transaction.                                 *)
LEMMA SettledType ==
  ASSUME Owned(chain), NEW t \in TxType, NEW st \in {"done", "failed", "dead"},
         NEW r, r = Settled(t, st)
  PROVE  r \in TxType /\ r.st = st
<1>1. PICK ixs \in Seq(Instr) : ixs = r.ixs
  <2>1. CASE st = "done" /\ Ops(t.ixs) = {"kamino_withdraw"}
    <3>1. PICK n \in Nat : n = Len(t.ixs) /\ t.ixs \in [1 .. n -> Instr]
      <4>1. t.ixs \in Seq(Instr)
        BY DEF TxType
      <4>. QED
        BY <4>1, LenProperties
    <3>2. 1 \in 1 .. n
      <4>1. Range(t.ixs) # {}
        BY <2>1 DEF Ops
      <4>. QED
        BY <3>1, <4>1 DEF Range
    <3>3. PICK m \in Nat : m = t.ixs[1].n
      BY <3>1, <3>2 DEF Instr
    <3>4. PICK k \in Nat : k = Burned(chain, m)
      BY AmountsType DEF Burned
    <3>5. <<Ix("kamino_withdraw", k)>> \in Seq(Instr)
      BY OneType DEF OpNames
    <3>6. r.ixs = <<Ix("kamino_withdraw", k)>>
      BY <2>1, <3>3, <3>4 DEF Settled
    <3>. QED
      BY <3>5, <3>6
  <2>2. CASE ~(st = "done" /\ Ops(t.ixs) = {"kamino_withdraw"})
    <3>1. r.ixs = <<>>
      BY <2>2 DEF Settled
    <3>2. <<>> \in Seq(Instr)
      BY EmptySeq, Zenon
    <3>. QED
      BY <3>1, <3>2
  <2>. QED
    BY <2>1, <2>2
<1>2. r = [by |-> t.by, kind |-> "none", ixs |-> ixs, read |-> 0, st |-> st]
  BY <1>1 DEF Settled
<1>3. t.by \in Clients /\ "none" \in Kinds
  BY DEF TxType, Kinds
<1>. QED
  BY <1>2, <1>3 DEF TxType

(* A transaction that settles in a step that goes onward keeps the         *)
(* numbering and the freshness of the others.                              *)
LEMMA SettleStep ==
  ASSUME ChainTypes, Numbered, TxFresh, Onward,
         NEW i \in Txs, tx[i].st \in {"signed", "live"}, NEW st \in {"done", "failed", "dead"},
         tx' = [tx EXCEPT ![i] = Settled(tx[i], st)],
         saves' = saves \/ (saves' = saves + 1 /\ st = "done")
  PROVE  (tx \in [Txs -> TxType])' /\ Numbered' /\ TxFresh' /\ tx'[i].st = st /\ Others(i)
<1>1. PICK r \in TxType : r = Settled(tx[i], st) /\ r.st = st
  <2>1. tx[i] \in TxType /\ Owned(chain)
    BY DEF ChainTypes
  <2>2. Settled(tx[i], st) \in TxType /\ Settled(tx[i], st).st = st
    BY <2>1, SettledType
  <2>. QED
    BY <2>2
<1>2. tx' = [tx EXCEPT ![i] = r]
  BY <1>1
<1>3. (tx \in [Txs -> TxType])' /\ tx'[i] = r /\ Others(i)
  BY <1>2, OneTx DEF ChainTypes
<1>4. Numbered'
  BY <1>1, <1>2, MoveNumbered
<1>5. TxFresh'
  <2>1. r.st \notin {"signed", "live"}
    BY <1>1
  <2>. QED
    BY <1>2, <2>1, TxFreshStep
<1>. QED
  BY <1>1, <1>3, <1>4, <1>5

(* The invariants of a client that does nothing.                           *)
LEMMA WatchedOnward ==
  ASSUME Watched, UNCHANGED panel,
         \A i \in Txs : tx[i].st \in {"live", "done", "failed", "dead"} =>
                        tx'[i].st \in {"live", "done", "failed", "dead"}
  PROVE  Watched'
<1>1. ASSUME Watching' PROVE (panel.id \in Txs /\ tx[panel.id].st \in {"live", "done", "failed", "dead"})'
  <2>1. panel.id \in Txs /\ tx[panel.id].st \in {"live", "done", "failed", "dead"}
    BY <1>1 DEF Watched, Watching
  <2>. QED
    BY <2>1 DEF Txs
<1>. QED
  BY <1>1 DEF Watched

(* The full exit is left as it is by a step that leaves the panel and does *)
(* not add to what the Safe holds.                                         *)
LEMMA ExitOnward ==
  ASSUME ExitInv, UNCHANGED <<uses, panel>>, ~inflow' => ~inflow,
         \A n \in Nat : Leaving /\ ExitIxs(n) /\ ~inflow' /\ ExitLeaves(n) => ExitLeaves(n)'
  PROVE  ExitInv'
<1>1. ASSUME Leaving'
      PROVE  (\/ \E n \in Nat : panel.ixs = <<Ix("kamino_withdraw", n)>> /\ panel.step < uses.steps
              \/ \E n \in Nat : ExitIxs(n) /\ (~inflow => ExitLeaves(n)))'
  <2>1. Leaving
    BY <1>1 DEF Leaving
  <2>2. CASE \E n \in Nat : panel.ixs = <<Ix("kamino_withdraw", n)>> /\ panel.step < uses.steps
    BY <2>2
  <2>3. ASSUME NEW n \in Nat, ExitIxs(n), ~inflow => ExitLeaves(n)
        PROVE  (ExitIxs(n) /\ (~inflow => ExitLeaves(n)))'
    <3>1. ExitIxs(n)'
      BY <2>3 DEF ExitIxs
    <3>2. ~inflow' => ExitLeaves(n)'
      BY <2>1, <2>3
    <3>. QED
      BY <3>1, <3>2
  <2>. QED
    BY <2>1, <2>2, <2>3 DEF ExitInv
<1>. QED
  BY <1>1 DEF ExitInv

(* A step of another client keeps the panel's types.                       *)
LEMMA PanelTypesOnward ==
  ASSUME PanelTypes, UNCHANGED <<uses, panel>>
  PROVE  PanelTypes'
BY DEF PanelTypes

(* A step of another client keeps the tabs' types.                         *)
LEMMA TabTypesOnward ==
  ASSUME TabTypes, UNCHANGED mobileVars
  PROVE  TabTypes'
BY DEF TabTypes, mobileVars

(* A transaction that lands keeps every USDC accounted for, saves at most  *)
(* one target, and keeps the target it was planned from if none was saved  *)
(* since.                                                                  *)
LEMMA LandExecutes ==
  ASSUME ChainTypes, TxFresh, NEW i \in Txs, Land(i)
  PROVE  /\ Owned(chain)' /\ Onward
         /\ inflow' \in BOOLEAN /\ (~inflow' => ~inflow)
         /\ ~inflow' => Holds' <= Holds
         /\ tx[i].ixs \in Seq(Instr)
         /\ \E st \in {"done", "failed"} :
              /\ tx' = [tx EXCEPT ![i] = Settled(tx[i], st)]
              /\ st = "done" => Execute(chain, tx[i].ixs).ok /\ chain' = Execute(chain, tx[i].ixs).chain
              /\ saves' = saves \/ (saves' = saves + 1 /\ st = "done")
<1>1. tx[i].ixs \in Seq(Instr)
  <2>1. PICK t \in TxType : t = tx[i]
    BY DEF ChainTypes
  <2>. QED
    BY <2>1 DEF TxType
<1>2. PICK R : R = Execute(chain, tx[i].ixs)
  OBVIOUS
<1>3. /\ R.ok \in BOOLEAN /\ Owned(R.chain) /\ (~R.ok => R.chain = chain)
      /\ "deposit" \notin Ops(tx[i].ixs) => R.chain.idle + R.chain.shares <= chain.idle + chain.shares
  <2>1. Owned(chain)
    BY DEF ChainTypes
  <2>2. PICK ixs \in Seq(Instr) : ixs = tx[i].ixs
    BY <1>1
  <2>3. /\ Execute(chain, ixs).ok \in BOOLEAN /\ Owned(Execute(chain, ixs).chain)
        /\ ~Execute(chain, ixs).ok => Execute(chain, ixs).chain = chain
        /\ "deposit" \notin Ops(ixs) =>
             Execute(chain, ixs).chain.idle + Execute(chain, ixs).chain.shares <= chain.idle + chain.shares
    BY <2>1, ExecuteType
  <2>. QED
    BY <1>2, <2>2, <2>3
<1>4. chain' = R.chain
  BY <1>2 DEF Land
<1>5. saves' = IF R.ok /\ (SetsTarget(tx[i].kind) \/ R.chain.target # chain.target)
               THEN saves + 1 ELSE saves
  BY <1>2 DEF Land
<1>6. inflow' = IF R.ok /\ "deposit" \in Ops(tx[i].ixs) THEN TRUE ELSE inflow
  BY <1>2, Zenon DEF Land
<1>7. tx' = [tx EXCEPT ![i] = Settled(tx[i], IF R.ok THEN "done" ELSE "failed")]
  BY <1>2, Zenon DEF Land
<1>8. Owned(chain)'
  BY <1>3, <1>4 DEF Owned, Chain
<1>9. Onward
  BY <1>3, <1>4, <1>5 DEF Onward
<1>10. inflow' \in BOOLEAN /\ (~inflow' => ~inflow)
  BY <1>6, Zenon DEF ChainTypes
<1>11. ASSUME ~inflow' PROVE Holds' <= Holds
  <2>1. PICK d : d = R.chain /\ Owned(d)
    BY <1>3
  <2>2. d.idle \in Nat /\ d.shares \in Nat /\ chain.idle \in Nat /\ chain.shares \in Nat
    BY <2>1, AmountsType DEF ChainTypes
  <2>3. PICK h \in Nat, g \in Nat : h = chain.idle + chain.shares /\ g = d.idle + d.shares
    <3>1. chain.idle + chain.shares \in Nat /\ d.idle + d.shares \in Nat
      BY <2>2
    <3>. QED
      BY <3>1
  <2>4. ~R.ok \/ "deposit" \notin Ops(tx[i].ixs)
    BY <1>6, <1>11, Zenon
  <2>5. g <= h
    BY <1>3, <2>1, <2>3, <2>4
  <2>6. Holds' = g /\ Holds = h
    BY <1>4, <2>1, <2>3, Zenon DEF Holds
  <2>. QED
    BY <2>5, <2>6, Zenon
<1>12. \E st \in {"done", "failed"} :
              /\ tx' = [tx EXCEPT ![i] = Settled(tx[i], st)]
              /\ st = "done" => Execute(chain, tx[i].ixs).ok /\ chain' = Execute(chain, tx[i].ixs).chain
              /\ saves' = saves \/ (saves' = saves + 1 /\ st = "done")
  <2>1. CASE R.ok
    <3>1. tx' = [tx EXCEPT ![i] = Settled(tx[i], "done")]
      BY <1>7, <2>1, Zenon
    <3>2. saves' = saves \/ saves' = saves + 1
      BY <1>5
    <3>. QED
      BY <1>2, <1>4, <2>1, <3>1, <3>2, Zenon
  <2>2. CASE ~R.ok
    <3>1. tx' = [tx EXCEPT ![i] = Settled(tx[i], "failed")]
      BY <1>7, <2>2, Zenon
    <3>2. saves' = saves
      BY <1>5, <2>2
    <3>3. "failed" # "done"
      OBVIOUS
    <3>. QED
      BY <3>1, <3>2, <3>3, Zenon
  <2>. QED
    BY <2>1, <2>2
<1>. QED
  BY <1>1, <1>8, <1>9, <1>10, <1>11, <1>12

(* What the Safe holds stays within the full exit's last withdrawal while  *)
(* it does not grow.                                                       *)
LEMMA LeavesOnward ==
  ASSUME Leaving, Owned(chain), Owned(chain)', Holds' <= Holds, UNCHANGED panel,
         Watching => tx'[panel.id] = tx[panel.id],
         NEW n \in Nat, ExitLeaves(n)
  PROVE  ExitLeaves(n)'
<1>1. PICK h \in Nat, g \in Nat : h = Holds /\ g = Holds' /\ g <= h
  <2>1. PICK d : d = chain' /\ Owned(d)
    <3>1. Owned(chain)'
      OBVIOUS
    <3>. QED
      BY <3>1 DEF Owned, Chain
  <2>2. chain.idle + chain.shares \in Nat /\ d.idle + d.shares \in Nat
    BY <2>1, AmountsType
  <2>3. Holds \in Nat /\ Holds' \in Nat
    BY <2>1, <2>2 DEF Holds
  <2>. QED
    BY <2>3
<1>2. (panel.at = "built" => Holds <= n)'
  <2>1. ASSUME panel.at = "built" PROVE g <= n
    BY <1>1, <2>1 DEF ExitLeaves
  <2>. QED
    BY <1>1, <2>1, Zenon
<1>3. CASE panel.at = "built"
  BY <1>2, <1>3 DEF ExitLeaves
<1>4. CASE panel.at # "built"
  <2>1. tx'[panel.id] = tx[panel.id]
    BY <1>4 DEF Leaving, Watching
  <2>2. tx[panel.id].st = "live" => tx[panel.id].ixs = panel.ixs /\ g <= n
    BY <1>1, <1>4 DEF ExitLeaves
  <2>3. tx[panel.id].st = "done" => g <= 0
    BY <1>1, <1>4 DEF ExitLeaves
  <2>4. (tx[panel.id].st = "live" => tx[panel.id].ixs = panel.ixs /\ Holds <= n)'
    BY <1>1, <2>1, <2>2, Zenon
  <2>5. (tx[panel.id].st = "done" => Holds <= 0)'
    BY <1>1, <2>1, <2>3, Zenon
  <2>. QED
    BY <1>2, <2>4, <2>5, Zenon DEF ExitLeaves
<1>. QED
  BY <1>3, <1>4

(* Its own transaction settles: a withdrawal takes what was left.          *)
LEMMA LandLeaves ==
  ASSUME SafeInv, NEW i \in Txs, Land(i), UNCHANGED panel, Watching, panel.id = i,
         NEW n \in Nat, ExitIxs(n), ExitLeaves(n)
  PROVE  ExitLeaves(n)'
<1>1. PICK st \in {"done", "failed"} :
              /\ tx' = [tx EXCEPT ![i] = Settled(tx[i], st)]
              /\ st = "done" => Execute(chain, tx[i].ixs).ok /\ chain' = Execute(chain, tx[i].ixs).chain
              /\ saves' = saves \/ (saves' = saves + 1 /\ st = "done")
  BY LandExecutes DEF SafeInv
<1>2. Onward
  BY LandExecutes DEF SafeInv
<1>3. tx'[i].st = st
  BY <1>1, <1>2, SettleStep DEF SafeInv, Land
<1>4. panel.at # "built"
  BY DEF Watching
<1>5. tx[i].st = "live" /\ tx[i].ixs = <<Ix("withdraw", n)>> /\ Holds <= n
  BY <1>4 DEF Land, ExitLeaves, ExitIxs
<1>6. ASSUME st = "done" PROVE (Holds <= 0)'
  <2>1. PICK ix \in Instr : ix = Ix("withdraw", n) /\ ix.op = "withdraw" /\ ix.n = n
    <3>1. Ix("withdraw", n) \in Instr /\ Ix("withdraw", n).op = "withdraw" /\ Ix("withdraw", n).n = n
      BY DEF Ix, Instr, OpNames, TargetOps
    <3>. QED
      BY <3>1
  <2>2. Execute(chain, <<ix>>).ok /\ chain' = Execute(chain, <<ix>>).chain
    BY <1>1, <1>5, <1>6, <2>1
  <2>3. Owned(chain)
    BY DEF SafeInv, ChainTypes
  <2>4. Accepts(chain, ix) /\ chain' = Effect(chain, ix)
    BY <2>2, <2>3, ExecuteOne
  <2>5. PICK d : d = chain' /\ Owned(d) /\ d.idle + d.shares = chain.idle + chain.shares - n
    BY <2>1, <2>3, <2>4, EffectType
  <2>6. PICK h \in Nat : h = chain.idle + chain.shares /\ h <= n
    <3>1. chain.idle + chain.shares \in Nat
      BY <2>3, AmountsType
    <3>. QED
      BY <1>5, <3>1 DEF Holds
  <2>7. d.idle + d.shares <= 0
    <3>1. d.idle \in Nat /\ d.shares \in Nat /\ chain.idle \in Nat /\ chain.shares \in Nat
      BY <2>3, <2>5, AmountsType
    <3>. QED
      BY <2>5, <2>6, <3>1
  <2>8. Holds' = d.idle + d.shares
    BY <2>5 DEF Holds
  <2>. QED
    BY <2>7, <2>8, Zenon
<1>7. (panel.id = i /\ panel.at # "built")'
  BY <1>4
<1>. QED
  BY <1>3, <1>6, <1>7, Zenon DEF ExitLeaves

(* A transaction landing keeps the invariant: the full exit's own          *)
(* withdrawal empties the Safe.                                            *)
LEMMA LandKeeps ==
  ASSUME SafeInv, NEW i \in Txs, Land(i), UNCHANGED <<panel, mobileVars>>
  PROVE  SafeInv'
<1>. USE DEF SafeInv
<1>1. PICK st \in {"done", "failed"} :
              /\ tx' = [tx EXCEPT ![i] = Settled(tx[i], st)]
              /\ saves' = saves \/ (saves' = saves + 1 /\ st = "done")
  BY LandExecutes
<1>2. /\ Owned(chain)' /\ Onward
      /\ inflow' \in BOOLEAN /\ (~inflow' => ~inflow)
      /\ ~inflow' => Holds' <= Holds
  BY LandExecutes
<1>3. tx[i].st = "live" /\ UNCHANGED <<uses, moves>>
  BY DEF Land
<1>4. (tx \in [Txs -> TxType])' /\ Numbered' /\ TxFresh' /\ tx'[i].st = st /\ Others(i)
  BY <1>1, <1>2, <1>3, SettleStep
<1>5. ChainTypes'
  <2>1. saves' \in Nat
    <3>1. saves \in Nat /\ saves + 1 \in Nat
      BY DEF ChainTypes
    <3>. QED
      BY <1>1, <3>1, Zenon
  <2>2. (uses \in Uses /\ moves \in 0 .. MaxMoves)'
    BY <1>3 DEF ChainTypes
  <2>. QED
    BY <1>2, <1>4, <2>1, <2>2, Zenon DEF ChainTypes
<1>6. PanelTypes' /\ TabTypes'
  BY <1>3, PanelTypesOnward, TabTypesOnward
<1>7. PanelFresh' /\ TabFresh'
  BY <1>2, PanelFreshOnward, TabFreshOnward DEF mobileVars
<1>8. Watched'
  BY <1>4, WatchedOnward DEF Others
<1>9. ExitInv'
  <2>1. ASSUME NEW n \in Nat, Leaving, ExitIxs(n), ~inflow', ExitLeaves(n) PROVE ExitLeaves(n)'
    <3>1. CASE Watching /\ panel.id = i
      BY <2>1, <3>1, LandLeaves
    <3>2. CASE ~(Watching /\ panel.id = i)
      <4>1. Watching => tx'[panel.id] = tx[panel.id]
        BY <1>4, <3>2 DEF Others, Watched
      <4>2. Owned(chain)
        BY DEF ChainTypes
      <4>. QED
        BY <1>2, <2>1, <4>1, <4>2, LeavesOnward
    <3>. QED
      BY <3>1, <3>2
  <2>. QED
    BY <1>2, <1>3, <2>1, ExitOnward
<1>. QED
  BY <1>4, <1>5, <1>6, <1>7, <1>8, <1>9

(* A transaction expiring keeps the invariant.                             *)
LEMMA ExpireKeeps ==
  ASSUME SafeInv, NEW i \in Txs, Expire(i), UNCHANGED <<panel, mobileVars>>
  PROVE  SafeInv'
<1>. USE DEF SafeInv
<1>1. /\ tx[i].st \in {"signed", "live"} /\ tx' = [tx EXCEPT ![i] = Settled(tx[i], "dead")]
      /\ UNCHANGED <<chain, uses, moves, saves, inflow>>
  BY DEF Expire, history
<1>2. Onward
  BY <1>1 DEF Onward
<1>3. (tx \in [Txs -> TxType])' /\ Numbered' /\ TxFresh' /\ tx'[i].st = "dead" /\ Others(i)
  BY <1>1, <1>2, SettleStep
<1>4. ChainTypes'
  BY <1>1, <1>3 DEF ChainTypes, Owned, Chain
<1>5. PanelTypes' /\ TabTypes'
  BY <1>1, PanelTypesOnward, TabTypesOnward
<1>6. PanelFresh' /\ TabFresh'
  BY <1>2, PanelFreshOnward, TabFreshOnward DEF mobileVars
<1>7. Watched'
  BY <1>3, WatchedOnward DEF Others
<1>8. ExitInv'
  <2>1. ASSUME NEW n \in Nat, Leaving, ExitIxs(n), ~inflow', ExitLeaves(n) PROVE ExitLeaves(n)'
    <3>1. CASE Watching /\ panel.id = i
      <4>1. (panel.at # "built" /\ panel.id = i)'
        BY <3>1 DEF Watching
      <4>. QED
        BY <1>3, <4>1 DEF ExitLeaves
    <3>2. CASE ~(Watching /\ panel.id = i)
      <4>1. Watching => tx'[panel.id] = tx[panel.id]
        BY <1>3, <3>2 DEF Others, Watched
      <4>2. Owned(chain) /\ Owned(chain)' /\ Holds' <= Holds
        <5>1. Owned(chain) /\ Owned(chain)'
          BY <1>4 DEF ChainTypes
        <5>2. Holds \in Nat /\ Holds' = Holds
          BY <1>1, <5>1, AmountsType DEF Holds
        <5>3. Holds <= Holds
          BY <5>2
        <5>. QED
          BY <5>1, <5>2, <5>3, Zenon
      <4>. QED
        BY <2>1, <4>1, <4>2, LeavesOnward
    <3>. QED
      BY <3>1, <3>2
  <2>. QED
    BY <1>1, <2>1, ExitOnward
<1>. QED
  BY <1>3, <1>4, <1>5, <1>6, <1>7, <1>8

(* A Kamino move of the agent keeps the invariant: it changes neither the  *)
(* target nor what the Safe holds.                                         *)
LEMMA ExecutorKeeps ==
  ASSUME SafeInv, NEW n \in Nat, NEW op \in {"kamino_deposit", "kamino_withdraw"},
         Simulates(<<Ix(op, n)>>), chain' = Effect(chain, Ix(op, n)),
         moves < MaxMoves, moves' = moves + 1,
         UNCHANGED <<uses, tx, saves, inflow, panel, mobileVars>>
  PROVE  SafeInv'
<1>. USE DEF SafeInv
<1>1. PICK ix \in Instr : ix = Ix(op, n) /\ ix.op = op
  <2>1. Ix(op, n) \in Instr /\ Ix(op, n).op = op
    BY DEF Ix, Instr, OpNames, TargetOps
  <2>. QED
    BY <2>1
<1>2. Owned(chain)
  BY DEF ChainTypes
<1>3. Accepts(chain, ix)
  BY <1>1, <1>2, ExecuteOne DEF Simulates
<1>4. PICK d : /\ d = chain' /\ Owned(d) /\ d.target = chain.target
               /\ d.idle + d.shares <= chain.idle + chain.shares
  BY <1>1, <1>2, <1>3, EffectType DEF TargetOps
<1>5. Onward
  BY <1>4 DEF Onward
<1>6. Owned(chain)' /\ Holds' <= Holds
  <2>1. Owned(chain)'
    BY <1>4 DEF Owned, Chain
  <2>2. Holds' = d.idle + d.shares /\ Holds = chain.idle + chain.shares
    BY <1>4 DEF Holds
  <2>. QED
    BY <1>4, <2>1, <2>2, Zenon
<1>7. ChainTypes'
  <2>1. (moves \in 0 .. MaxMoves)'
    <3>1. moves + 1 \in 0 .. MaxMoves
      BY SafeChainAssumption DEF ChainTypes
    <3>. QED
      BY <3>1, Zenon
  <2>. QED
    BY <1>6, <2>1 DEF ChainTypes
<1>8. PanelTypes' /\ TabTypes'
  BY PanelTypesOnward, TabTypesOnward
<1>9. TxFresh' /\ PanelFresh' /\ TabFresh'
  BY <1>5, TxFreshOnward, PanelFreshOnward, TabFreshOnward DEF mobileVars
<1>10. Numbered' /\ Watched'
  BY DEF Numbered, Done, Watched, Watching, Txs
<1>11. ExitInv'
  <2>1. ASSUME NEW m \in Nat, Leaving, ExitIxs(m), ~inflow', ExitLeaves(m) PROVE ExitLeaves(m)'
    <3>1. Watching => tx'[panel.id] = tx[panel.id]
      OBVIOUS
    <3>. QED
      BY <1>2, <1>6, <2>1, <3>1, LeavesOnward
  <2>. QED
    BY <2>1, ExitOnward
<1>. QED
  BY <1>7, <1>8, <1>9, <1>10, <1>11

(* The chain's own steps keep the invariant.                               *)
LEMMA ChainKeeps ==
  ASSUME SafeInv, ChainNext, UNCHANGED <<panel, mobileVars>>
  PROVE  SafeInv'
<1>1. ASSUME NEW i \in Txs, Land(i) \/ Expire(i) PROVE SafeInv'
  BY <1>1, LandKeeps, ExpireKeeps
<1>2. ASSUME NEW n \in Amounts, ExecutorDeposits(n) \/ ExecutorWithdraws(n) PROVE SafeInv'
  <2>1. n \in Nat
    BY SafeChainAssumption
  <2>2. CASE ExecutorDeposits(n)
    BY <2>1, <2>2, ExecutorKeeps DEF ExecutorDeposits
  <2>3. CASE ExecutorWithdraws(n)
    BY <2>1, <2>3, ExecutorKeeps DEF ExecutorWithdraws
  <2>. QED
    BY <1>2, <2>2, <2>3
<1>. QED
  BY <1>1, <1>2 DEF ChainNext

-----------------------------------------------------------------------------
(* Steps of the panel. *)

(* A step of the web panel has only its own parts of the invariant to keep.*)
LEMMA PanelStep ==
  ASSUME SafeInv, UNCHANGED <<uses, chain, tx, moves, saves, mobileVars>>, inflow' \in BOOLEAN,
         PanelTypes', PanelFresh', Watched', ExitInv'
  PROVE  SafeInv'
<1>. USE DEF SafeInv
<1>1. ChainTypes'
  BY DEF ChainTypes, Owned, Chain
<1>2. TabTypes'
  BY TabTypesOnward
<1>3. Onward
  BY DEF Onward
<1>4. Numbered' /\ TxFresh' /\ TabFresh'
  BY <1>3, TxFreshOnward, TabFreshOnward DEF Numbered, Done, mobileVars, Txs
<1>. QED
  BY <1>1, <1>2, <1>4

(* Instructions are a case of what the panel may have built.               *)
LEMMA WiderIxs ==
  ASSUME NEW ixs \in Seq(Instr)
  PROVE  ixs \in Seq(Instr \cup Sources)
<1>1. PICK n \in Nat : n = Len(ixs) /\ ixs \in [1 .. n -> Instr]
  BY LenProperties
<1>2. ixs \in [1 .. n -> Instr \cup Sources]
  BY <1>1
<1>. QED
  BY <1>2, SeqDef

(* The panel is its nine fields.                                           *)
LEMMA PanelFields ==
  ASSUME PanelTypes
  PROVE  /\ panel = [at |-> panel.at, op |-> panel.op, ixs |-> panel.ixs, id |-> panel.id,
                     last |-> panel.last, step |-> panel.step, read |-> panel.read,
                     shown |-> panel.shown, said |-> panel.said]
         /\ panel.at \in PanelAt /\ panel.op \in Kinds /\ panel.id \in 0 .. MaxTx
         /\ panel.last \in 0 .. Supply /\ panel.step \in Nat /\ panel.read \in 0 .. MaxTx
         /\ panel.shown \in Chain /\ panel.said \in Said
BY DEF PanelTypes, PanelType

(* An operation that ends.                                                 *)
LEMMA EndsRest ==
  ASSUME ChainTypes, PanelTypes, NEW word \in Said, Confirmed \/ Stops(word) \/ AllReturned
  PROVE  \E s \in Chain, w \in Said : panel' = Resting(s, w)
<1>1. chain \in Chain /\ panel.shown \in Chain
  BY PanelFields DEF ChainTypes, Owned
<1>2. {"confirmed", "failed", "all_returned"} \subseteq Said
  BY DEF Said
<1>. QED
  BY <1>1, <1>2 DEF Confirmed, Stops, AllReturned, ExitEnds

(* The panel at rest owes nothing.                                         *)
LEMMA RestFits ==
  ASSUME ChainTypes, PanelTypes, UNCHANGED uses, UNCHANGED saves,
         NEW s \in Chain, NEW w \in Said, panel' = Resting(s, w)
  PROVE  PanelTypes' /\ PanelFresh' /\ Watched' /\ ExitInv'
<1>1. panel' = [at |-> "idle", op |-> "none", ixs |-> <<>>, id |-> 0, last |-> 0, step |-> 0,
                read |-> 0, shown |-> s, said |-> w]
  BY DEF Resting
<1>2. <<>> \in Seq(Instr)
  BY EmptySeq, Zenon
<1>3. PanelTypes'
  <2>1. <<>> \in Seq(Instr \cup Sources)
    BY EmptySeq, Zenon
  <2>2. (panel \in PanelType)'
    BY <1>1, <2>1, SafeChainAssumption DEF PanelType, PanelAt, Kinds
  <2>3. (panel.step <= uses.steps)'
    BY <1>1, UseType DEF ChainTypes
  <2>. QED
    BY <1>1, <1>2, <2>2, <2>3 DEF PanelTypes
<1>4. PanelFresh'
  BY <1>1 DEF PanelFresh, ChainTypes
<1>5. Watched' /\ ExitInv'
  BY <1>1 DEF Watched, Watching, ExitInv, Leaving
<1>. QED
  BY <1>3, <1>4, <1>5

(* However an operation of the panel ends, the invariant is kept.          *)
LEMMA EndKeeps ==
  ASSUME SafeInv, NEW word \in Said, Confirmed \/ Stops(word) \/ AllReturned,
         UNCHANGED <<uses, chain, tx, moves, saves, mobileVars>>, inflow' \in BOOLEAN
  PROVE  SafeInv'
<1>1. PICK s \in Chain, w \in Said : panel' = Resting(s, w)
  BY EndsRest DEF SafeInv
<1>2. PanelTypes' /\ PanelFresh' /\ Watched' /\ ExitInv'
  BY <1>1, RestFits DEF SafeInv
<1>. QED
  BY <1>2, PanelStep

(* A transaction that is built from what was just read.                    *)
LEMMA BuiltFits ==
  ASSUME SafeInv, UNCHANGED <<uses, chain, saves>>,
         NEW op \in Kinds, NEW ixs \in Seq(Instr), NEW last \in 0 .. Supply, NEW said \in Said,
         SetsTarget(op) \/ Keeps(ixs, chain.target),
         panel' = [at |-> "built", op |-> op, ixs |-> ixs, id |-> panel.id, last |-> last,
                   step |-> panel.step, read |-> saves, shown |-> panel.shown, said |-> said]
  PROVE  PanelTypes' /\ PanelFresh' /\ Watched'
<1>. USE DEF SafeInv
<1>1. ixs \in Seq(Instr \cup Sources)
  BY WiderIxs
<1>2. saves \in 0 .. MaxTx /\ saves \in Nat
  BY SavesBound DEF ChainTypes
<1>3. PanelTypes'
  <2>1. (panel \in PanelType)'
    BY <1>1, <1>2, PanelFields DEF PanelType, PanelAt
  <2>2. (panel.step <= uses.steps)'
    BY DEF PanelTypes
  <2>. QED
    BY <2>1, <2>2 DEF PanelTypes
<1>4. PanelFresh'
  <2>1. saves <= saves
    BY <1>2
  <2>. QED
    BY <2>1 DEF PanelFresh, Fresh
<1>5. Watched'
  BY DEF Watched, Watching
<1>. QED
  BY <1>3, <1>4, <1>5

(* A button that builds its instructions keeps the invariant.              *)
LEMMA BeginKeeps ==
  ASSUME SafeInv, NEW op \in Kinds, op # "full_exit", NEW ixs \in Seq(Instr),
         SetsTarget(op) \/ Keeps(ixs, chain.target), Begin(op, ixs), UNCHANGED mobileVars
  PROVE  SafeInv'
<1>1. UNCHANGED <<uses, chain, tx, moves, saves, inflow, mobileVars>>
  BY DEF Begin, chainVars
<1>2. panel' = [at |-> "built", op |-> op, ixs |-> ixs, id |-> panel.id, last |-> panel.last,
                step |-> panel.step, read |-> saves, shown |-> panel.shown, said |-> "nothing"]
  <2>1. panel = [at |-> panel.at, op |-> panel.op, ixs |-> panel.ixs, id |-> panel.id,
                 last |-> panel.last, step |-> panel.step, read |-> panel.read,
                 shown |-> panel.shown, said |-> panel.said]
    BY PanelFields DEF SafeInv
  <2>2. panel' = [panel EXCEPT !.at = "built", !.op = op, !.ixs = ixs,
                               !.said = "nothing", !.read = saves]
    BY DEF Begin
  <2>. QED
    BY <2>1, <2>2
<1>3. PanelTypes' /\ PanelFresh' /\ Watched'
  <2>1. panel.last \in 0 .. Supply /\ "nothing" \in Said
    BY PanelFields DEF SafeInv, Said
  <2>. QED
    BY <1>1, <1>2, <2>1, BuiltFits
<1>4. ExitInv'
  BY <1>2 DEF ExitInv, Leaving
<1>5. inflow' \in BOOLEAN
  BY <1>1 DEF SafeInv, ChainTypes
<1>. QED
  BY <1>1, <1>3, <1>4, <1>5, PanelStep

(* Every button of the panel keeps the invariant.                          *)
LEMMA ButtonsKeep ==
  ASSUME SafeInv, Buttons, UNCHANGED mobileVars
  PROVE  SafeInv'
<1>1. \A op \in Kinds \ {"full_exit"} : \A ixs \in Seq(Plain) : Begin(op, ixs) => SafeInv'
  BY PlainKeeps, BeginKeeps
<1>2. \A op \in Kinds \ {"full_exit"} : \A ixs \in Seq(Instr) :
        SetsTarget(op) /\ Begin(op, ixs) => SafeInv'
  BY BeginKeeps
<1>3. PanelOps \subseteq Kinds
  BY DEF Kinds
<1>4. panel.shown \in Chain /\ panel.shown.shares \in Nat /\ panel.shown.idle \in Nat
      /\ panel.shown.target \in 0 .. 100
  <2>1. panel.shown \in Chain
    BY PanelFields DEF SafeInv
  <2>2. /\ panel.shown.target \in Percents
        /\ panel.shown.shares \in 0 .. Supply /\ panel.shown.idle \in 0 .. Supply
    BY <2>1 DEF Chain, Percents
  <2>3. panel.shown.target \in 0 .. 100
    BY <2>2, PercentType
  <2>4. Supply \in Nat
    BY SafeChainAssumption
  <2>5. panel.shown.shares \in Nat /\ panel.shown.idle \in Nat
    BY <2>2, <2>4
  <2>. QED
    BY <2>1, <2>3, <2>5
<1>5. panel = [at |-> panel.at, op |-> panel.op, ixs |-> panel.ixs, id |-> panel.id,
               last |-> panel.last, step |-> panel.step, read |-> panel.read,
               shown |-> panel.shown, said |-> panel.said]
      /\ panel.at \in PanelAt /\ panel.op \in Kinds /\ panel.id \in 0 .. MaxTx
      /\ panel.last \in 0 .. Supply /\ panel.step \in Nat /\ panel.read \in 0 .. MaxTx
      /\ panel.said \in Said /\ panel.ixs \in Seq(Instr \cup Sources)
  BY PanelFields DEF SafeInv, PanelTypes, PanelType
<1>6. inflow \in BOOLEAN /\ chain \in Chain /\ uses.steps \in Nat
  BY UseType DEF SafeInv, ChainTypes, Owned
<1>7. CASE CreateSafe
  <2>1. Begin("create", <<Ix("initialize", 0)>>)
    BY <1>7 DEF CreateSafe
  <2>2. <<Ix("initialize", 0)>> \in Seq(Instr)
    BY OneType DEF OpNames, TargetOps
  <2>. QED
    BY <1>2, <1>3, <2>1, <2>2 DEF PanelOps, SetsTarget
<1>8. ASSUME NEW n \in Amounts, DepositUsdc(n) \/ WithdrawAmount(n) PROVE SafeInv'
  <2>1. n \in Nat
    BY SafeChainAssumption
  <2>2. <<Ix("deposit", n)>> \in Seq(Plain) /\ <<Ix("withdraw", n)>> \in Seq(Plain)
    BY <2>1, PlainOne DEF OpNames, TargetOps
  <2>3. Begin("deposit", <<Ix("deposit", n)>>) \/ Begin("withdraw", <<Ix("withdraw", n)>>)
    BY <1>8 DEF DepositUsdc, WithdrawAmount
  <2>. QED
    BY <1>1, <1>3, <2>2, <2>3 DEF PanelOps
<1>9. ASSUME NEW t \in Targets, SaveAllocation(t) PROVE SafeInv'
  <2>1. t \in Percents /\ t \in Nat
    BY SafeChainAssumption DEF Percents
  <2>2. <<Ix("set_allocation", t)>> \in Seq(Instr)
    BY <2>1, OneType DEF OpNames, TargetOps
  <2>3. Begin("save_allocation", <<Ix("set_allocation", t)>>)
    BY <1>9 DEF SaveAllocation
  <2>. QED
    BY <1>2, <1>3, <2>2, <2>3 DEF PanelOps, SetsTarget
<1>10. CASE PutToWork
  <2>1. PICK n \in Nat : n = kaminoPut
    <3>1. kaminoPut \in Nat
      BY <1>4 DEF kaminoPut
    <3>. QED
      BY <3>1
  <2>2. PICK a \in Plain, b \in Plain : a = Ix("create_shares", 0) /\ b = Ix("kamino_deposit", n)
    BY IxType DEF OpNames, TargetOps
  <2>3. <<a, b>> \in Seq(Plain)
    OBVIOUS
  <2>4. Begin("put", <<a, b>>)
    BY <1>10, <2>1, <2>2 DEF PutToWork
  <2>. QED
    BY <1>1, <1>3, <2>3, <2>4 DEF PanelOps
<1>11. CASE WithdrawAllFromKamino
  <2>1. PICK n \in Nat : Begin("redeem_all", <<Ix("kamino_withdraw", n)>>)
    BY <1>4, <1>11 DEF WithdrawAllFromKamino, ALL
  <2>2. <<Ix("kamino_withdraw", n)>> \in Seq(Plain)
    BY PlainOne DEF OpNames, TargetOps
  <2>. QED
    BY <1>1, <1>3, <2>1, <2>2 DEF PanelOps
<1>12. CASE ReclaimRent
  <2>1. Begin("reclaim", closeEmptyTokens)
    BY <1>12 DEF ReclaimRent
  <2>. QED
    BY <1>1, <1>3, <2>1, CreateType DEF PanelOps
<1>13. CASE CloseSafe
  <2>1. Begin("close_safe", closeEmptyTokens \o <<Ix("close_safe", 0)>>)
    BY <1>13 DEF CloseSafe
  <2>2. closeEmptyTokens \in Seq(Instr) /\ <<Ix("close_safe", 0)>> \in Seq(Instr)
    BY CreateType, PlainKeeps, OneType DEF OpNames, TargetOps
  <2>3. closeEmptyTokens \o <<Ix("close_safe", 0)>> \in Seq(Instr)
    BY <2>2, ConcatProperties
  <2>. QED
    BY <1>2, <1>3, <2>1, <2>3 DEF PanelOps, SetsTarget
<1>14. CASE Refresh
  <2>1. UNCHANGED <<uses, chain, tx, moves, saves, inflow>>
    BY <1>14 DEF Refresh, chainVars
  <2>2. panel' = [at |-> panel.at, op |-> panel.op, ixs |-> panel.ixs, id |-> panel.id,
                  last |-> panel.last, step |-> panel.step, read |-> panel.read,
                  shown |-> chain, said |-> panel.said]
    BY <1>5, <1>14 DEF Refresh
  <2>3. PanelTypes'
    <3>1. (panel \in PanelType)'
      BY <1>5, <1>6, <2>2 DEF PanelType
    <3>. QED
      BY <2>1, <2>2, <3>1 DEF SafeInv, PanelTypes
  <2>4. PanelFresh' /\ Watched'
    BY <2>1, <2>2 DEF SafeInv, PanelFresh, Fresh, Watched, Watching, Txs
  <2>5. ExitInv'
    BY <2>1, <2>2 DEF SafeInv, ExitInv, Leaving, ExitIxs, ExitLeaves, Holds
  <2>. QED
    BY <1>6, <2>1, <2>3, <2>4, <2>5, PanelStep
<1>15. CASE FullExit
  <2>1. UNCHANGED <<uses, chain, tx, moves, saves, inflow>>
    BY <1>15 DEF FullExit, chainVars
  <2>2. panel' = [at |-> "exit", op |-> "full_exit", ixs |-> panel.ixs, id |-> panel.id,
                  last |-> 0, step |-> 0, read |-> panel.read,
                  shown |-> panel.shown, said |-> "nothing"]
    BY <1>5, <1>15 DEF FullExit
  <2>3. PanelTypes'
    <3>1. (panel \in PanelType)'
      BY <1>4, <1>5, <2>2, <1>3, SafeChainAssumption DEF PanelType, PanelAt, PanelOps, Said
    <3>2. panel.ixs \in Seq(Instr)
      BY <1>15 DEF FullExit, SafeInv, PanelTypes
    <3>. QED
      BY <1>6, <2>1, <2>2, <3>1, <3>2 DEF PanelTypes
  <2>4. PanelFresh' /\ Watched' /\ ExitInv'
    BY <2>1, <2>2 DEF SafeInv, PanelFresh, Watched, Watching, ExitInv, Leaving
  <2>. QED
    BY <1>6, <2>1, <2>3, <2>4, PanelStep
<1>16. ASSUME NEW n \in Amounts, NEW source \in {"safe", "wallet"}, Invest(source, n) PROVE SafeInv'
  <2>1. UNCHANGED <<uses, chain, tx, moves, saves, inflow>>
    BY <1>16 DEF Invest, chainVars
  <2>2. PICK from \in Sources : from = Ix(source, n)
    BY SafeChainAssumption DEF Ix, Sources
  <2>3. panel' = [at |-> "invest", op |-> "invest", ixs |-> <<from>>, id |-> panel.id,
                  last |-> panel.last, step |-> panel.step, read |-> panel.read,
                  shown |-> panel.shown, said |-> "nothing"]
    BY <1>5, <1>16, <2>2 DEF Invest
  <2>4. PanelTypes'
    <3>1. (panel \in PanelType)'
      <4>1. <<from>> \in Seq(Instr \cup Sources)
        OBVIOUS
      <4>. QED
        BY <1>3, <1>4, <1>5, <2>3, <4>1 DEF PanelType, PanelAt, PanelOps, Said
    <3>. QED
      BY <2>1, <2>3, <3>1 DEF SafeInv, PanelTypes
  <2>5. PanelFresh' /\ Watched' /\ ExitInv'
    BY <2>1, <2>3 DEF SafeInv, PanelFresh, Watched, Watching, ExitInv, Leaving
  <2>. QED
    BY <1>6, <2>1, <2>4, <2>5, PanelStep
<1>. QED
  BY <1>7, <1>8, <1>9, <1>10, <1>11, <1>12, <1>13, <1>14, <1>15, <1>16 DEF Buttons

(* Reading the Safe again to invest keeps the invariant.                   *)
LEMMA BuildInvestKeeps ==
  ASSUME SafeInv, BuildInvest, UNCHANGED mobileVars
  PROVE  SafeInv'
<1>1. UNCHANGED <<uses, chain, tx, moves, saves, inflow>>
  BY DEF BuildInvest, chainVars
<1>2. inflow' \in BOOLEAN
  BY <1>1 DEF SafeInv, ChainTypes
<1>3. CASE Stops("failed")
  BY <1>1, <1>2, <1>3, EndKeeps DEF Said
<1>4. CASE ~Stops("failed")
  <2>1. PICK from \in Sources : panel.ixs = <<from>> /\ panel.op = "invest" /\ panel.at = "invest"
    BY DEF BuildInvest, SafeInv, PanelTypes
  <2>2. PICK source \in {"safe", "wallet"}, n \in Nat : source = from.op /\ n = from.n
    BY DEF Sources
  <2>3. PICK t \in Percents : t = chain.target
    BY AmountsType DEF SafeInv, ChainTypes
  <2>4. PICK ixs \in Seq(Instr) : ixs = InvestIxs(source, n, t) /\ Keeps(ixs, chain.target)
    BY <2>3, InvestIxsType
  <2>5. panel' = [panel EXCEPT !.at = "built", !.read = saves, !.ixs = ixs]
    <3>1. panel.ixs[1] = from
      BY <2>1
    <3>. QED
      BY <1>4, <2>2, <2>3, <2>4, <3>1 DEF BuildInvest
  <2>6. panel' = [at |-> "built", op |-> "invest", ixs |-> ixs, id |-> panel.id, last |-> panel.last,
                  step |-> panel.step, read |-> saves, shown |-> panel.shown, said |-> panel.said]
    BY <2>1, <2>5, PanelFields DEF SafeInv
  <2>7. PanelTypes' /\ PanelFresh' /\ Watched'
    <3>1. panel.last \in 0 .. Supply /\ panel.said \in Said /\ "invest" \in Kinds
      BY PanelFields DEF SafeInv, Kinds, PanelOps
    <3>. QED
      BY <1>1, <2>4, <2>6, <3>1, BuiltFits
  <2>8. ExitInv'
    BY <2>6 DEF ExitInv, Leaving
  <2>. QED
    BY <1>1, <1>2, <2>7, <2>8, PanelStep
<1>. QED
  BY <1>3, <1>4

(* The full exit's read keeps the invariant: its withdrawal is all the Safe*)
(* then holds.                                                             *)
LEMMA ExitReadKeeps ==
  ASSUME SafeInv, ExitRead, UNCHANGED mobileVars
  PROVE  SafeInv'
<1>1. UNCHANGED <<uses, chain, tx, moves, saves>> /\ inflow' = FALSE
  BY DEF ExitRead
<1>2. inflow' \in BOOLEAN
  BY <1>1
<1>3. chain.idle \in Nat /\ chain.shares \in Nat
  BY AmountsType DEF SafeInv, ChainTypes
<1>4. CASE Stops("failed") \/ AllReturned
  BY <1>1, <1>2, <1>4, EndKeeps DEF Said
<1>5. CASE ~(Stops("failed") \/ AllReturned)
  <2>1. PICK n \in Nat, op \in {"kamino_withdraw", "withdraw"} :
          /\ ExitBuilds(<<Ix(op, n)>>)
          /\ op = "kamino_withdraw" => ~GivesUp
          /\ op = "withdraw" => n = chain.idle /\ chain.shares = 0
    <3>1. CASE chain.shares > 0
      <4>1. PICK n \in Leg(chain.shares) : ExitBuilds(<<Ix("kamino_withdraw", n)>>) /\ ~GivesUp
        BY <1>5, <3>1 DEF ExitRead
      <4>2. n \in Nat
        BY <1>3 DEF Leg, ALL
      <4>. QED
        BY <4>1, <4>2
    <3>2. CASE ~(chain.shares > 0)
      <4>1. ExitBuilds(<<Ix("withdraw", chain.idle)>>)
        BY <1>5, <3>2 DEF ExitRead
      <4>. QED
        BY <1>3, <3>2, <4>1
    <3>. QED
      BY <3>1, <3>2
  <2>2. PICK ixs \in Seq(Instr) : ixs = <<Ix(op, n)>> /\ Keeps(ixs, chain.target)
    <3>1. <<Ix(op, n)>> \in Seq(Plain)
      BY PlainOne DEF OpNames, TargetOps
    <3>. QED
      BY <3>1, PlainKeeps
  <2>3. panel' = [at |-> "built", op |-> panel.op, ixs |-> ixs, id |-> panel.id, last |-> chain.shares,
                  step |-> panel.step, read |-> saves, shown |-> panel.shown, said |-> panel.said]
    BY <2>1, <2>2, PanelFields DEF SafeInv, ExitBuilds
  <2>4. PanelTypes' /\ PanelFresh' /\ Watched'
    <3>1. panel.op \in Kinds /\ panel.said \in Said /\ chain.shares \in 0 .. Supply
      BY PanelFields DEF SafeInv, ChainTypes, Owned, Chain
    <3>. QED
      BY <1>1, <2>2, <2>3, <3>1, BuiltFits
  <2>5. ExitInv'
    <3>1. CASE op = "kamino_withdraw"
      <4>1. panel.step < uses.steps
        <5>1. ~(panel.step >= uses.steps)
          BY <2>1, <3>1 DEF GivesUp
        <5>2. panel.step \in Nat /\ uses.steps \in Nat
          BY PanelFields, UseType DEF SafeInv, ChainTypes
        <5>. QED
          BY <5>1, <5>2
      <4>2. (panel.ixs = <<Ix("kamino_withdraw", n)>> /\ panel.step < uses.steps)'
        BY <1>1, <2>2, <2>3, <3>1, <4>1
      <4>. QED
        BY <4>2 DEF ExitInv
    <3>2. CASE op = "withdraw"
      <4>1. Holds' = n
        <5>1. chain.idle + chain.shares = n
          BY <1>3, <2>1, <3>2
        <5>. QED
          BY <1>1, <5>1 DEF Holds
      <4>2. (panel.at = "built")' /\ ExitIxs(n)'
        BY <2>2, <2>3, <3>2 DEF ExitIxs
      <4>3. n <= n
        OBVIOUS
      <4>4. ExitLeaves(n)'
        BY <4>1, <4>2, <4>3, Zenon DEF ExitLeaves
      <4>. QED
        BY <4>2, <4>4 DEF ExitInv
    <3>. QED
      BY <3>1, <3>2
  <2>. QED
    BY <1>1, <1>2, <2>4, <2>5, PanelStep
<1>. QED
  BY <1>4, <1>5

(* A panel that goes on watching its transaction.                          *)
LEMMA WatchKeeps ==
  ASSUME SafeInv, NEW at \in {"confirm", "height"}, Watching, panel' = [panel EXCEPT !.at = at],
         UNCHANGED <<uses, chain, tx, moves, saves, inflow, mobileVars>>
  PROVE  SafeInv'
<1>1. panel' = [at |-> at, op |-> panel.op, ixs |-> panel.ixs, id |-> panel.id, last |-> panel.last,
                step |-> panel.step, read |-> panel.read, shown |-> panel.shown, said |-> panel.said]
  BY PanelFields DEF SafeInv
<1>2. PanelTypes'
  <2>1. (panel \in PanelType)'
    BY <1>1, PanelFields DEF SafeInv, PanelTypes, PanelType, PanelAt
  <2>2. panel.ixs \in Seq(Instr) /\ panel.step <= uses.steps
    BY DEF SafeInv, PanelTypes, Watching
  <2>. QED
    BY <1>1, <2>1, <2>2 DEF PanelTypes
<1>3. PanelFresh' /\ Watched'
  BY <1>1 DEF SafeInv, PanelFresh, Watched, Watching, Txs
<1>4. ExitInv'
  <2>1. Leaving' => Leaving
    BY <1>1 DEF Leaving, Watching
  <2>2. \A n : ExitLeaves(n) => ExitLeaves(n)'
    BY <1>1 DEF ExitLeaves, Watching, Holds
  <2>3. \A n : ExitIxs(n) => ExitIxs(n)'
    BY <1>1 DEF ExitIxs
  <2>. QED
    BY <1>1, <2>1, <2>2, <2>3 DEF SafeInv, ExitInv
<1>5. inflow' \in BOOLEAN
  BY DEF SafeInv, ChainTypes
<1>. QED
  BY <1>2, <1>3, <1>4, <1>5, PanelStep

(* A transaction that was not sent keeps the invariant.                    *)
LEMMA NotSentKeeps ==
  ASSUME SafeInv, NotSent, UNCHANGED mobileVars
  PROVE  SafeInv'
<1>1. UNCHANGED <<uses, chain, tx, moves, saves, inflow>> /\ Stops("failed")
  BY DEF NotSent, chainVars
<1>2. inflow' \in BOOLEAN
  BY <1>1 DEF SafeInv, ChainTypes
<1>. QED
  BY <1>1, <1>2, EndKeeps DEF Said

(* A poll that finds the block height passed keeps the invariant.          *)
LEMMA PollHeightKeeps ==
  ASSUME SafeInv, PollHeight, UNCHANGED mobileVars
  PROVE  SafeInv'
<1>1. UNCHANGED <<uses, chain, tx, moves, saves, inflow>> /\ Watching
  BY DEF PollHeight, chainVars, Watching
<1>2. inflow' \in BOOLEAN
  BY <1>1 DEF SafeInv, ChainTypes
<1>3. CASE Stops("expired")
  BY <1>1, <1>2, <1>3, EndKeeps DEF Said
<1>4. CASE panel' = [panel EXCEPT !.at = "confirm"]
  BY <1>1, <1>4, WatchKeeps
<1>. QED
  BY <1>3, <1>4 DEF PollHeight

(* A full exit that goes on after a confirmed step keeps the invariant.    *)
LEMMA StepDoneKeeps ==
  ASSUME SafeInv, panel.at = "confirm", panel.op = "full_exit", ExitStepDone,
         UNCHANGED <<uses, chain, tx, moves, saves, mobileVars>>, inflow' \in BOOLEAN
  PROVE  SafeInv'
<1>1. CASE AllReturned
  BY <1>1, EndKeeps DEF Said
<1>2. CASE ~AllReturned
  <2>1. panel.ixs[1].op # "withdraw"
    BY <1>2 DEF ExitStepDone
  <2>2. Leaving
    BY DEF Leaving
  <2>3. \A n \in Nat : ~ExitIxs(n)
    BY <2>1 DEF ExitIxs, Ix
  <2>4. panel.step < uses.steps
    BY <2>2, <2>3 DEF SafeInv, ExitInv
  <2>5. PICK k \in Nat, most \in Nat : k = panel.step /\ most = uses.steps /\ k + 1 <= most
    <3>1. panel.step \in Nat /\ uses.steps \in Nat
      BY PanelFields, UseType DEF SafeInv, ChainTypes
    <3>2. panel.step + 1 <= uses.steps
      BY <2>4, <3>1
    <3>. QED
      BY <3>1, <3>2
  <2>6. panel' = [at |-> "exit", op |-> panel.op, ixs |-> <<>>, id |-> 0, last |-> panel.last,
                  step |-> k + 1, read |-> panel.read, shown |-> panel.shown, said |-> panel.said]
    BY <1>2, <2>5, PanelFields DEF SafeInv, ExitStepDone
  <2>7. PanelTypes'
    <3>1. <<>> \in Seq(Instr) /\ <<>> \in Seq(Instr \cup Sources)
      BY EmptySeq, Zenon
    <3>2. (panel \in PanelType)'
      BY <2>6, <3>1, PanelFields, SafeChainAssumption DEF SafeInv, PanelType, PanelAt
    <3>3. (panel.step <= uses.steps)'
      BY <2>5, <2>6
    <3>. QED
      BY <2>6, <3>1, <3>2, <3>3 DEF PanelTypes
  <2>8. PanelFresh' /\ Watched' /\ ExitInv'
    BY <2>6 DEF SafeInv, PanelFresh, Watched, Watching, ExitInv, Leaving
  <2>. QED
    BY <2>7, <2>8, PanelStep
<1>. QED
  BY <1>1, <1>2

(* A poll of the transaction's status keeps the invariant.                 *)
LEMMA PollStatusKeeps ==
  ASSUME SafeInv, PollStatus, UNCHANGED mobileVars
  PROVE  SafeInv'
<1>1. UNCHANGED <<uses, chain, tx, moves, saves>> /\ panel.at = "confirm" /\ Watching
  BY DEF PollStatus, Watching
<1>2. inflow' = IF panel'.at = "idle" THEN TRUE ELSE inflow
  BY DEF PollStatus
<1>3. inflow' \in BOOLEAN
  BY <1>2, Zenon DEF SafeInv, ChainTypes
<1>4. CASE Confirmed \/ Stops("failed")
  BY <1>1, <1>3, <1>4, EndKeeps DEF Said
<1>5. CASE panel.op = "full_exit" /\ ExitStepDone
  BY <1>1, <1>3, <1>5, StepDoneKeeps
<1>6. CASE panel' = [panel EXCEPT !.at = "height"]
  <2>1. panel'.at # "idle"
    BY <1>6, PanelFields DEF SafeInv
  <2>2. UNCHANGED inflow
    BY <1>2, <2>1, Zenon
  <2>. QED
    BY <1>1, <1>6, <2>2, WatchKeeps
<1>. QED
  BY <1>4, <1>5, <1>6 DEF PollStatus

-----------------------------------------------------------------------------
(* The owner signs. *)

(* What a signature adds, whoever asks for it.                             *)
LEMMA SignFits ==
  ASSUME SafeInv, NEW by \in Clients, NEW kind \in Kinds, NEW ixs \in Seq(Instr), NEW read \in Nat,
         NEW st \in {"signed", "live"}, Fresh(kind, ixs, read), SignTx(by, kind, ixs, read, st),
         UNCHANGED <<chain, history>>
  PROVE  /\ ChainTypes' /\ Numbered' /\ TxFresh'
         /\ NextTx \in Txs /\ tx[NextTx].st = "none" /\ Others(NextTx)
         /\ tx'[NextTx] = [by |-> by, kind |-> kind, ixs |-> ixs, read |-> read, st |-> st]
<1>. USE DEF SafeInv
<1>1. PICK r \in TxType : r = [by |-> by, kind |-> kind, ixs |-> ixs, read |-> read, st |-> st]
  BY DEF TxType
<1>2. CanSign /\ tx' = [tx EXCEPT ![NextTx] = r]
  BY <1>1 DEF SignTx
<1>3. NextTx \in Txs /\ tx[NextTx].st = "none"
  BY <1>2, NextIsFree
<1>4. UNCHANGED <<chain, uses, moves, saves, inflow>>
  BY DEF history
<1>5. (tx \in [Txs -> TxType])' /\ tx'[NextTx] = r /\ Others(NextTx)
  BY <1>2, <1>3, OneTx DEF ChainTypes
<1>6. ChainTypes'
  BY <1>4, <1>5 DEF ChainTypes, Owned, Chain
<1>7. Numbered'
  BY <1>1, <1>2, <1>4, SignNumbered
<1>8. TxFresh'
  <2>1. Fresh(r.kind, r.ixs, r.read)'
    BY <1>1, <1>4 DEF Fresh
  <2>2. Onward
    BY <1>4 DEF Onward
  <2>. QED
    BY <1>2, <1>3, <2>1, <2>2, TxFreshStep
<1>. QED
  BY <1>1, <1>3, <1>5, <1>6, <1>7, <1>8

(* The owner's signature in the panel keeps the invariant.                 *)
LEMMA ApproveKeeps ==
  ASSUME SafeInv, Approve, UNCHANGED mobileVars
  PROVE  SafeInv'
<1>. USE DEF SafeInv
<1>1. /\ panel.at = "built" /\ SignTx("panel", panel.op, panel.ixs, panel.read, "live")
      /\ panel' = [panel EXCEPT !.at = "confirm", !.id = NextTx, !.read = 0]
      /\ UNCHANGED <<chain, history>>
  BY DEF Approve, Sends
<1>2. UNCHANGED <<chain, uses, moves, saves, inflow>>
  BY <1>1 DEF history
<1>3. "panel" \in Clients /\ panel.op \in Kinds /\ panel.ixs \in Seq(Instr) /\ panel.read \in Nat
      /\ Fresh(panel.op, panel.ixs, panel.read)
  BY <1>1, PanelFields, SafeChainAssumption DEF PanelTypes, PanelFresh, Clients
<1>4. /\ ChainTypes' /\ Numbered' /\ TxFresh'
      /\ NextTx \in Txs /\ tx[NextTx].st = "none" /\ Others(NextTx)
      /\ tx'[NextTx] = [by |-> "panel", kind |-> panel.op, ixs |-> panel.ixs, read |-> panel.read,
                        st |-> "live"]
  BY <1>1, <1>3, SignFits
<1>5. PICK m \in Txs : m = NextTx
  BY <1>4
<1>6. panel' = [at |-> "confirm", op |-> panel.op, ixs |-> panel.ixs, id |-> m, last |-> panel.last,
                step |-> panel.step, read |-> 0, shown |-> panel.shown, said |-> panel.said]
  BY <1>1, <1>5, PanelFields
<1>7. tx'[m].st = "live" /\ tx'[m].ixs = panel.ixs
  BY <1>4, <1>5
<1>8. PanelTypes'
  <2>1. m \in 0 .. MaxTx /\ 0 \in 0 .. MaxTx
    BY SafeChainAssumption DEF Txs
  <2>2. (panel \in PanelType)'
    BY <1>6, <2>1, PanelFields DEF PanelTypes, PanelType, PanelAt
  <2>. QED
    BY <1>2, <1>3, <1>6, <2>2 DEF PanelTypes
<1>9. TabTypes'
  BY TabTypesOnward
<1>10. PanelFresh' /\ TabFresh'
  <2>1. Onward
    BY <1>2 DEF Onward
  <2>2. PanelFresh'
    BY <1>2, <1>6 DEF PanelFresh, ChainTypes
  <2>. QED
    BY <2>1, <2>2, TabFreshOnward DEF mobileVars
<1>11. Watched'
  BY <1>6, <1>7 DEF Watched, Txs
<1>12. ExitInv'
  <2>1. ASSUME panel.op = "full_exit"
        PROVE  (\/ \E n \in Nat : panel.ixs = <<Ix("kamino_withdraw", n)>> /\ panel.step < uses.steps
                \/ \E n \in Nat : ExitIxs(n) /\ (~inflow => ExitLeaves(n)))'
    <3>1. Leaving
      BY <1>1, <2>1 DEF Leaving
    <3>2. CASE \E n \in Nat : panel.ixs = <<Ix("kamino_withdraw", n)>> /\ panel.step < uses.steps
      BY <1>2, <1>6, <3>2
    <3>3. ASSUME NEW n \in Nat, ExitIxs(n), ~inflow => ExitLeaves(n)
          PROVE  (ExitIxs(n) /\ (~inflow => ExitLeaves(n)))'
      <4>1. ExitIxs(n)'
        BY <1>6, <3>3 DEF ExitIxs
      <4>2. ASSUME ~inflow PROVE ExitLeaves(n)'
        <5>1. Holds <= n /\ Holds' = Holds
          BY <1>1, <1>2, <3>3, <4>2 DEF ExitLeaves, Holds
        <5>2. (Holds <= n)'
          BY <5>1, Zenon
        <5>3. panel'.at # "built" /\ panel'.id = m /\ panel'.ixs = panel.ixs
          BY <1>6
        <5>. QED
          BY <1>7, <5>2, <5>3, Zenon DEF ExitLeaves
      <4>. QED
        BY <1>2, <4>1, <4>2
    <3>. QED
      BY <3>1, <3>2, <3>3 DEF ExitInv
  <2>2. (panel.op = "full_exit")' => panel.op = "full_exit"
    BY <1>6
  <2>. QED
    BY <2>1, <2>2 DEF ExitInv, Leaving
<1>. QED
  BY <1>4, <1>8, <1>9, <1>10, <1>11, <1>12

(* A signature whose answer is lost keeps the invariant.                   *)
LEMMA AnswerLostKeeps ==
  ASSUME SafeInv, AnswerLost, UNCHANGED mobileVars
  PROVE  SafeInv'
<1>. USE DEF SafeInv
<1>1. /\ panel.at = "built" /\ SignTx("panel", panel.op, panel.ixs, panel.read, "live")
      /\ Stops("failed") /\ UNCHANGED <<chain, history>>
  BY DEF AnswerLost, Sends
<1>2. UNCHANGED <<chain, uses, moves, saves, inflow>>
  BY <1>1 DEF history
<1>3. "panel" \in Clients /\ panel.op \in Kinds /\ panel.ixs \in Seq(Instr) /\ panel.read \in Nat
      /\ Fresh(panel.op, panel.ixs, panel.read)
  BY <1>1, PanelFields, SafeChainAssumption DEF PanelTypes, PanelFresh, Clients
<1>4. ChainTypes' /\ Numbered' /\ TxFresh'
  BY <1>1, <1>3, SignFits
<1>5. PanelTypes' /\ PanelFresh' /\ Watched' /\ ExitInv'
  <2>1. PICK s \in Chain, w \in Said : panel' = Resting(s, w)
    BY <1>1, EndsRest DEF Said
  <2>. QED
    BY <1>2, <2>1, RestFits
<1>6. TabTypes' /\ TabFresh'
  <2>1. Onward
    BY <1>2 DEF Onward
  <2>. QED
    BY <2>1, TabTypesOnward, TabFreshOnward DEF mobileVars
<1>. QED
  BY <1>4, <1>5, <1>6

(* Every step of the web panel keeps the invariant.                        *)
LEMMA PanelKeeps ==
  ASSUME SafeInv, PanelNext, UNCHANGED mobileVars
  PROVE  SafeInv'
BY ButtonsKeep, BuildInvestKeeps, ExitReadKeeps, ApproveKeeps, AnswerLostKeeps, NotSentKeeps,
   PollStatusKeeps, PollHeightKeeps DEF PanelNext

-----------------------------------------------------------------------------
(* Steps of the mobile clients. *)

(* What the other clients sign is not what the panel watches.              *)
LEMMA PanelStands ==
  ASSUME SafeInv, UNCHANGED <<chain, uses, moves, saves, inflow, panel>>,
         NEW i \in Txs, tx[i].st \in {"none", "signed"}, Others(i), tx'[i].st \in {"signed", "live"}
  PROVE  PanelTypes' /\ PanelFresh' /\ Watched' /\ ExitInv'
<1>. USE DEF SafeInv
<1>1. Onward
  BY DEF Onward
<1>2. PanelTypes' /\ PanelFresh'
  BY <1>1, PanelTypesOnward, PanelFreshOnward
<1>3. Watched'
  <2>1. \A j \in Txs : tx[j].st \in {"live", "done", "failed", "dead"} =>
                       tx'[j].st \in {"live", "done", "failed", "dead"}
    BY DEF Others
  <2>. QED
    BY <2>1, WatchedOnward
<1>4. Watching => tx'[panel.id] = tx[panel.id]
  <2>1. ASSUME Watching PROVE panel.id \in Txs \ {i}
    BY <2>1 DEF Watched
  <2>. QED
    BY <2>1 DEF Others
<1>5. Owned(chain) /\ Owned(chain)' /\ Holds' <= Holds
  <2>1. Owned(chain) /\ Owned(chain)'
    BY DEF ChainTypes, Owned, Chain
  <2>2. Holds \in Nat /\ Holds' = Holds
    BY <2>1, AmountsType DEF Holds
  <2>3. Holds <= Holds
    BY <2>2
  <2>. QED
    BY <2>1, <2>2, <2>3, Zenon
<1>6. ExitInv'
  <2>1. ASSUME NEW n \in Nat, Leaving, ExitIxs(n), ~inflow', ExitLeaves(n) PROVE ExitLeaves(n)'
    BY <1>4, <1>5, <2>1, LeavesOnward
  <2>. QED
    BY <2>1, ExitOnward
<1>. QED
  BY <1>2, <1>3, <1>6

(* A step of a tab has only the tabs' parts of the invariant to keep.      *)
LEMMA TabStep ==
  ASSUME SafeInv, UNCHANGED <<chainVars, panel>>, TabTypes', TabFresh'
  PROVE  SafeInv'
<1>. USE DEF SafeInv
<1>1. UNCHANGED <<uses, chain, tx, moves, saves, inflow>>
  BY DEF chainVars
<1>2. ChainTypes' /\ Numbered' /\ TxFresh'
  <2>1. Onward
    BY <1>1 DEF Onward
  <2>2. TxFresh'
    BY <1>1, <2>1, TxFreshOnward
  <2>. QED
    BY <1>1, <2>2 DEF ChainTypes, Owned, Chain, Numbered, Done, Txs
<1>3. PanelTypes' /\ PanelFresh' /\ Watched' /\ ExitInv'
  BY <1>1 DEF PanelTypes, PanelFresh, Fresh, Watched, Watching, ExitInv, Leaving, ExitIxs,
              ExitLeaves, Holds, Txs
<1>. QED
  BY <1>2, <1>3

(* A tab that takes a fresh plan keeps the tabs fresh.                     *)
LEMMA TabSet ==
  ASSUME TabTypes, TabFresh, NEW t \in Tabs, NEW r \in TabType,
         Fresh(r.plan.kind, r.plan.ixs, r.plan.read), tab' = [tab EXCEPT ![t] = r],
         journal' \in 0 .. MaxTx, overlapped' \in BOOLEAN, UNCHANGED <<chain, saves>>
  PROVE  TabTypes' /\ TabFresh'
<1>1. TabTypes'
  BY DEF TabTypes
<1>2. ASSUME NEW u \in Tabs
      PROVE  Fresh(tab[u].plan.kind, tab[u].plan.ixs, tab[u].plan.read)'
  <2>1. PICK p \in TabType : p = tab'[u] /\ Fresh(p.plan.kind, p.plan.ixs, p.plan.read)
    BY DEF TabTypes, TabFresh
  <2>2. (tab[u] = p)'
    BY <2>1
  <2>. QED
    BY <2>1, <2>2 DEF Fresh
<1>. QED
  BY <1>1, <1>2 DEF TabFresh

(* A tab is its three fields.                                              *)
LEMMA TabFields ==
  ASSUME TabTypes, NEW t \in Tabs
  PROVE  /\ tab[t] = [at |-> tab[t].at, plan |-> tab[t].plan, pending |-> tab[t].pending]
         /\ tab[t].at \in TabAt /\ tab[t].plan \in PlanType /\ tab[t].pending \in 0 .. MaxTx
         /\ tab[t].plan.kind \in Kinds /\ tab[t].plan.ixs \in Seq(Instr) /\ tab[t].plan.read \in Nat
         /\ journal \in 0 .. MaxTx /\ overlapped \in BOOLEAN
BY DEF TabTypes, TabType, PlanType

(* A change of some of the fields of a tab, written in full.               *)
LEMMA TabExcept ==
  ASSUME TabTypes, NEW t \in Tabs, NEW x
  PROVE  /\ [tab EXCEPT ![t].at = x]
              = [tab EXCEPT ![t] = [at |-> x, plan |-> tab[t].plan, pending |-> tab[t].pending]]
         /\ [tab EXCEPT ![t].pending = x]
              = [tab EXCEPT ![t] = [at |-> tab[t].at, plan |-> tab[t].plan, pending |-> x]]
<1>1. PICK a, p, d : tab[t] = [at |-> a, plan |-> p, pending |-> d]
  BY TabFields
<1>2. [tab[t] EXCEPT !.at = x] = [at |-> x, plan |-> tab[t].plan, pending |-> tab[t].pending]
  BY <1>1
<1>3. [tab[t] EXCEPT !.pending = x] = [at |-> tab[t].at, plan |-> tab[t].plan, pending |-> x]
  BY <1>1
<1>. QED
  BY <1>2, <1>3

(* A tab without a plan has nothing to keep.                               *)
LEMMA NoPlanFits ==
  ASSUME saves \in Nat
  PROVE  NoPlan \in PlanType /\ Fresh(NoPlan.kind, NoPlan.ixs, NoPlan.read)
<1>1. <<>> \in Seq(Plain)
  BY EmptyPlain
<1>2. <<>> \in Seq(Instr) /\ Keeps(<<>>, chain.target)
  BY <1>1, PlainKeeps
<1>. QED
  BY <1>2 DEF NoPlan, PlanType, Fresh, Kinds

(* A tab that changes alone.                                               *)
LEMMA TabKeeps ==
  ASSUME SafeInv, NEW t \in Tabs, NEW at \in TabAt, NEW plan \in PlanType, NEW pending \in 0 .. MaxTx,
         Fresh(plan.kind, plan.ixs, plan.read),
         tab' = [tab EXCEPT ![t] = [at |-> at, plan |-> plan, pending |-> pending]],
         journal' \in 0 .. MaxTx, overlapped' \in BOOLEAN, UNCHANGED <<chainVars, panel>>
  PROVE  SafeInv'
<1>1. PICK r \in TabType : r = [at |-> at, plan |-> plan, pending |-> pending]
  BY DEF TabType
<1>2. r.plan = plan
  BY <1>1
<1>3. TabTypes' /\ TabFresh'
  BY <1>1, <1>2, TabSet DEF SafeInv, chainVars
<1>. QED
  BY <1>3, TabStep

(* The steps of a tab that sign and send nothing keep the invariant.       *)
LEMMA QuietTabsKeep ==
  ASSUME SafeInv, NEW t \in Tabs, Prepare(t) \/ AskWallet(t) \/ GiveUp(t) \/ Check(t) \/ Reload(t),
         UNCHANGED panel
  PROVE  SafeInv'
<1>1. /\ tab[t] = [at |-> tab[t].at, plan |-> tab[t].plan, pending |-> tab[t].pending]
      /\ tab[t].at \in TabAt /\ tab[t].plan \in PlanType /\ tab[t].pending \in 0 .. MaxTx
      /\ journal \in 0 .. MaxTx /\ Fresh(tab[t].plan.kind, tab[t].plan.ixs, tab[t].plan.read)
  BY TabFields DEF SafeInv, TabFresh
<1>2. tab \in [Tabs -> TabType] /\ 0 \in 0 .. MaxTx /\ UNCHANGED chainVars /\ overlapped' \in BOOLEAN
  BY SafeChainAssumption DEF SafeInv, TabTypes, Prepare, AskWallet, GiveUp, Check, Reload
<1>3. NoPlan \in PlanType /\ Fresh(NoPlan.kind, NoPlan.ixs, NoPlan.read)
  BY NoPlanFits DEF SafeInv, ChainTypes
<1>4. CASE Prepare(t)
  <2>1. PICK plan : PlanFits(plan) /\ tab' = [tab EXCEPT ![t].at = "review", ![t].plan = plan]
    <3>1. PICK op \in uses.mobile, n \in Amounts :
            \E plan \in PlansFor(op, n) : tab' = [tab EXCEPT ![t].at = "review", ![t].plan = plan]
      BY <1>4 DEF Prepare
    <3>2. op \in MobileOps /\ n \in Nat
      BY SafeChainAssumption DEF SafeInv, ChainTypes
    <3>3. \A plan \in PlansFor(op, n) : PlanFits(plan)
      BY <3>2, PlansForFit DEF SafeInv, ChainTypes
    <3>. QED
      BY <3>1, <3>3
  <2>2. plan \in PlanType /\ Fresh(plan.kind, plan.ixs, plan.read)
    BY <2>1 DEF PlanFits
  <2>4. tab' = [tab EXCEPT ![t] = [at |-> "review", plan |-> plan, pending |-> tab[t].pending]]
    <3>1. PICK b : b = [at |-> "review", plan |-> tab[t].plan, pending |-> tab[t].pending]
      OBVIOUS
    <3>2. [b EXCEPT !.plan = plan] = [at |-> "review", plan |-> plan, pending |-> tab[t].pending]
      BY <3>1
    <3>3. [tab EXCEPT ![t].at = "review"] = [tab EXCEPT ![t] = b]
      BY <3>1, TabExcept DEF SafeInv
    <3>4. tab' = [[tab EXCEPT ![t] = b] EXCEPT ![t].plan = plan]
      BY <2>1, <3>3
    <3>5. [[tab EXCEPT ![t] = b] EXCEPT ![t].plan = plan] = [tab EXCEPT ![t] = [b EXCEPT !.plan = plan]]
      BY <1>2
    <3>. QED
      BY <3>2, <3>4, <3>5
  <2>5. journal' \in 0 .. MaxTx
    BY <1>1, <1>4 DEF Prepare
  <2>6. "review" \in TabAt
    BY DEF TabAt
  <2>. QED
    BY <1>1, <1>2, <2>2, <2>4, <2>5, <2>6, TabKeeps
<1>5. CASE AskWallet(t)
  <2>1. tab' = [tab EXCEPT ![t] = [at |-> "signing", plan |-> tab[t].plan, pending |-> tab[t].pending]]
    BY <1>5, TabExcept DEF AskWallet, SafeInv
  <2>2. journal' \in 0 .. MaxTx /\ "signing" \in TabAt
    BY <1>1, <1>5 DEF AskWallet, TabAt
  <2>. QED
    BY <1>1, <1>2, <2>1, <2>2, TabKeeps
<1>6. CASE GiveUp(t)
  <2>1. \/ tab' = [tab EXCEPT ![t] = [at |-> "review", plan |-> tab[t].plan, pending |-> tab[t].pending]]
        \/ tab' = [tab EXCEPT ![t] = [at |-> "idle", plan |-> NoPlan, pending |-> tab[t].pending]]
    BY <1>1, <1>2, <1>6 DEF GiveUp
  <2>2. journal' \in 0 .. MaxTx /\ "review" \in TabAt /\ "idle" \in TabAt
    BY <1>1, <1>6 DEF GiveUp, TabAt
  <2>. QED
    BY <1>1, <1>2, <1>3, <2>1, <2>2, TabKeeps
<1>7. CASE Check(t)
  <2>1. tab' = [tab EXCEPT ![t] = [at |-> tab[t].at, plan |-> tab[t].plan, pending |-> 0]]
    BY <1>7, TabExcept DEF Check, SafeInv
  <2>2. journal' \in 0 .. MaxTx
    BY <1>2, <1>7 DEF Check
  <2>. QED
    BY <1>1, <1>2, <2>1, <2>2, TabKeeps
<1>8. CASE Reload(t)
  <2>1. tab' = [tab EXCEPT ![t] = [at |-> "idle", plan |-> NoPlan, pending |-> journal]]
    BY <1>8 DEF Reload
  <2>2. journal' \in 0 .. MaxTx /\ "idle" \in TabAt
    BY <1>1, <1>8 DEF Reload, TabAt
  <2>. QED
    BY <1>1, <1>2, <1>3, <2>1, <2>2, TabKeeps
<1>. QED
  BY <1>4, <1>5, <1>6, <1>7, <1>8

(* The signature of a mobile operation keeps the invariant.                *)
LEMMA SignAndSaveKeeps ==
  ASSUME SafeInv, NEW t \in Tabs, SignAndSave(t), UNCHANGED panel
  PROVE  SafeInv'
<1>. USE DEF SafeInv
<1>1. PICK plan \in PlanType :
        /\ plan = tab[t].plan
        /\ plan.kind \in Kinds /\ plan.ixs \in Seq(Instr) /\ plan.read \in Nat
        /\ Fresh(plan.kind, plan.ixs, plan.read)
  BY TabFields DEF TabFresh
<1>2. /\ SignTx("mobile", plan.kind, plan.ixs, plan.read, "signed")
      /\ journal' = NextTx /\ UNCHANGED <<chain, history>> /\ overlapped' \in BOOLEAN
      /\ tab' = [tab EXCEPT ![t] = [at |-> "sending", plan |-> NoPlan, pending |-> NextTx]]
  BY <1>1, TabFields DEF SignAndSave
<1>3. UNCHANGED <<chain, uses, moves, saves, inflow>>
  BY <1>2 DEF history
<1>4. /\ ChainTypes' /\ Numbered' /\ TxFresh'
      /\ NextTx \in Txs /\ tx[NextTx].st = "none" /\ Others(NextTx)
      /\ tx'[NextTx].st = "signed"
  <2>1. "mobile" \in Clients
    BY DEF Clients
  <2>2. /\ ChainTypes' /\ Numbered' /\ TxFresh'
        /\ NextTx \in Txs /\ tx[NextTx].st = "none" /\ Others(NextTx)
        /\ tx'[NextTx] = [by |-> "mobile", kind |-> plan.kind, ixs |-> plan.ixs, read |-> plan.read,
                          st |-> "signed"]
    BY <1>1, <1>2, <2>1, SignFits
  <2>. QED
    BY <2>2
<1>5. PICK m \in Txs : m = NextTx /\ m \in 0 .. MaxTx
  <2>1. NextTx \in 0 .. MaxTx
    BY <1>4, SafeChainAssumption DEF Txs
  <2>. QED
    BY <1>4, <2>1
<1>6. PanelTypes' /\ PanelFresh' /\ Watched' /\ ExitInv'
  BY <1>3, <1>4, PanelStands
<1>7. TabTypes' /\ TabFresh'
  <2>1. NoPlan \in PlanType /\ Fresh(NoPlan.kind, NoPlan.ixs, NoPlan.read)
    BY NoPlanFits DEF ChainTypes
  <2>2. PICK r \in TabType : r = [at |-> "sending", plan |-> NoPlan, pending |-> m] /\ r.plan = NoPlan
    <3>1. [at |-> "sending", plan |-> NoPlan, pending |-> m] \in TabType
      BY <1>5, <2>1 DEF TabType, TabAt
    <3>. QED
      BY <3>1
  <2>3. tab' = [tab EXCEPT ![t] = r]
    BY <1>2, <1>5, <2>2
  <2>4. journal' \in 0 .. MaxTx /\ overlapped' \in BOOLEAN
    BY <1>2, <1>5
  <2>. QED
    BY <1>3, <2>1, <2>2, <2>3, <2>4, TabSet
<1>. QED
  BY <1>4, <1>6, <1>7

(* Broadcasting a signed mobile operation keeps the invariant.             *)
LEMMA SubmitKeeps ==
  ASSUME SafeInv, NEW t \in Tabs, Submit(t), UNCHANGED panel
  PROVE  SafeInv'
<1>. USE DEF SafeInv
<1>1. PICK i \in 0 .. MaxTx : i = tab[t].pending
  BY TabFields
<1>2. /\ \/ tx[i].st = "signed" /\ tx' = [tx EXCEPT ![i].st = "live"]
         \/ UNCHANGED tx
      /\ tab' = [tab EXCEPT ![t].at = "idle"]
      /\ UNCHANGED <<chain, uses, moves, saves, inflow, journal, overlapped>>
  BY <1>1 DEF Submit, history
<1>3. Onward
  BY <1>2 DEF Onward
<1>4. TabTypes' /\ TabFresh'
  <2>1. /\ tab[t] = [at |-> tab[t].at, plan |-> tab[t].plan, pending |-> tab[t].pending]
        /\ tab[t].plan \in PlanType /\ tab[t].pending \in 0 .. MaxTx
        /\ journal \in 0 .. MaxTx /\ Fresh(tab[t].plan.kind, tab[t].plan.ixs, tab[t].plan.read)
        /\ overlapped \in BOOLEAN
    BY TabFields DEF TabFresh
  <2>2. PICK r \in TabType : r = [at |-> "idle", plan |-> tab[t].plan, pending |-> tab[t].pending]
                             /\ r.plan = tab[t].plan
    <3>1. [at |-> "idle", plan |-> tab[t].plan, pending |-> tab[t].pending] \in TabType
      BY <2>1 DEF TabType, TabAt
    <3>. QED
      BY <3>1
  <2>3. tab' = [tab EXCEPT ![t] = r]
    BY <1>2, <2>2, TabExcept
  <2>4. journal' \in 0 .. MaxTx /\ overlapped' \in BOOLEAN
    BY <1>2, <2>1
  <2>. QED
    BY <1>2, <2>1, <2>2, <2>3, <2>4, TabSet
<1>5. CASE UNCHANGED tx
  <2>1. ChainTypes' /\ Numbered'
    BY <1>2, <1>5 DEF ChainTypes, Owned, Chain, Numbered, Done, Txs
  <2>2. TxFresh'
    BY <1>3, <1>5, TxFreshOnward
  <2>3. PanelTypes' /\ PanelFresh' /\ Watched' /\ ExitInv'
    BY <1>2, <1>5 DEF PanelTypes, PanelFresh, Fresh, Watched, Watching, ExitInv, Leaving, ExitIxs,
                ExitLeaves, Holds, Txs
  <2>. QED
    BY <1>4, <2>1, <2>2, <2>3
<1>6. CASE i \in Txs /\ tx[i].st = "signed" /\ tx' = [tx EXCEPT ![i].st = "live"]
  <2>1. PICK was \in TxType : was = tx[i] /\ was.st = "signed" /\ Fresh(was.kind, was.ixs, was.read)
    BY <1>6 DEF ChainTypes, TxFresh
  <2>2. PICK r \in TxType : /\ r = [was EXCEPT !.st = "live"] /\ r.st = "live"
                            /\ r.kind = was.kind /\ r.ixs = was.ixs /\ r.read = was.read
    <3>1. [was EXCEPT !.st = "live"] \in TxType /\ [was EXCEPT !.st = "live"].st = "live"
      BY DEF TxType
    <3>2. /\ [was EXCEPT !.st = "live"].kind = was.kind /\ [was EXCEPT !.st = "live"].ixs = was.ixs
          /\ [was EXCEPT !.st = "live"].read = was.read
      BY DEF TxType
    <3>. QED
      BY <3>1, <3>2
  <2>3. tx' = [tx EXCEPT ![i] = r]
    BY <1>6, <2>1, <2>2 DEF ChainTypes
  <2>4. (tx \in [Txs -> TxType])' /\ tx'[i] = r /\ Others(i)
    BY <1>6, <2>3, OneTx DEF ChainTypes
  <2>5. ChainTypes'
    BY <1>2, <2>4 DEF ChainTypes, Owned, Chain
  <2>6. Numbered'
    BY <1>2, <1>6, <2>2, <2>3, MoveNumbered
  <2>7. TxFresh'
    <3>1. Fresh(r.kind, r.ixs, r.read)'
      BY <1>2, <2>1, <2>2 DEF Fresh
    <3>. QED
      BY <1>3, <1>6, <2>3, <3>1, TxFreshStep
  <2>8. PanelTypes' /\ PanelFresh' /\ Watched' /\ ExitInv'
    BY <1>2, <1>6, <2>2, <2>4, PanelStands
  <2>. QED
    BY <1>4, <2>5, <2>6, <2>7, <2>8
<1>7. CASE i \notin Txs /\ tx' = [tx EXCEPT ![i].st = "live"]
  BY <1>5, <1>7 DEF ChainTypes
<1>. QED
  BY <1>2, <1>5, <1>6, <1>7

(* A plan of the API signed by its caller keeps the invariant.             *)
LEMMA ApiSignsKeeps ==
  ASSUME SafeInv, NEW plan, PlanFits(plan), ApiSigns(plan), UNCHANGED panel
  PROVE  SafeInv'
<1>. USE DEF SafeInv
<1>1. /\ SignTx("api", plan.kind, plan.ixs, plan.read, "live") /\ UNCHANGED <<chain, history, mobileVars>>
  BY DEF ApiSigns
<1>2. UNCHANGED <<chain, uses, moves, saves, inflow>>
  BY <1>1 DEF history
<1>3. plan.kind \in Kinds /\ plan.ixs \in Seq(Instr) /\ plan.read \in Nat
      /\ Fresh(plan.kind, plan.ixs, plan.read)
  BY DEF PlanFits, PlanType
<1>4. /\ ChainTypes' /\ Numbered' /\ TxFresh'
      /\ NextTx \in Txs /\ tx[NextTx].st = "none" /\ Others(NextTx)
      /\ tx'[NextTx].st = "live"
  <2>1. "api" \in Clients
    BY DEF Clients
  <2>2. /\ ChainTypes' /\ Numbered' /\ TxFresh'
        /\ NextTx \in Txs /\ tx[NextTx].st = "none" /\ Others(NextTx)
        /\ tx'[NextTx] = [by |-> "api", kind |-> plan.kind, ixs |-> plan.ixs, read |-> plan.read,
                          st |-> "live"]
    BY <1>1, <1>3, <2>1, SignFits
  <2>. QED
    BY <2>2
<1>5. PanelTypes' /\ PanelFresh' /\ Watched' /\ ExitInv'
  BY <1>2, <1>4, PanelStands
<1>6. TabTypes' /\ TabFresh'
  <2>1. Onward
    BY <1>2 DEF Onward
  <2>. QED
    BY <1>1, <2>1, TabTypesOnward, TabFreshOnward DEF mobileVars
<1>. QED
  BY <1>4, <1>5, <1>6

(* Every call of the API keeps the invariant.                              *)
LEMMA ApiKeeps ==
  ASSUME SafeInv, ApiNext, UNCHANGED panel
  PROVE  SafeInv'
<1>1. saves \in Nat /\ chain.target \in Percents /\ chain.shares \in Nat
  BY AmountsType DEF SafeInv, ChainTypes
<1>2. ASSUME NEW n \in Amounts, NEW source \in {"safe", "wallet"}, ApiSigns(KaminoDepositPlan(source, n))
      PROVE  SafeInv'
  <2>1. n \in Nat
    BY SafeChainAssumption
  <2>2. PlanFits(KaminoDepositPlan(source, n))
    BY <1>1, <2>1, KaminoDepositPlanType DEF PlanFits
  <2>. QED
    BY <1>2, <2>2, ApiSignsKeeps
<1>3. ASSUME NEW target \in 1 .. chain.shares, NEW plan \in KaminoWithdrawalPlans(target), ApiSigns(plan)
      PROVE  SafeInv'
  <2>1. PICK leg \in Nat : plan = Plan("redeem", <<Ix("kamino_withdraw", leg)>>)
    BY <1>1 DEF KaminoWithdrawalPlans, FirstLegs, ALL
  <2>2. PlanFits(plan)
    BY <1>1, <2>1, KaminoPlansFit
  <2>. QED
    BY <1>3, <2>2, ApiSignsKeeps
<1>4. ASSUME NEW i \in Txs, Redemption(i), ApiSigns(KaminoReturnPlan(i)) PROVE SafeInv'
  <2>1. PICK n \in Nat : n = tx[i].ixs[1].n
    <3>1. PICK ixs \in Seq(Instr) : ixs = tx[i].ixs /\ Len(ixs) = 1
      BY <1>4 DEF SafeInv, ChainTypes, TxType, Redemption
    <3>2. ixs[1] \in Instr
      BY <3>1
    <3>. QED
      BY <3>1, <3>2 DEF Instr
  <2>2. PlanFits(KaminoReturnPlan(i))
    BY <1>1, <2>1, KaminoPlansFit DEF KaminoReturnPlan
  <2>. QED
    BY <1>4, <2>2, ApiSignsKeeps
<1>. QED
  BY <1>2, <1>3, <1>4 DEF ApiNext

(* Every step of the mobile tabs keeps the invariant.                      *)
LEMMA TabsKeep ==
  ASSUME SafeInv, TabNext, UNCHANGED panel
  PROVE  SafeInv'
BY QuietTabsKeep, SignAndSaveKeeps, SubmitKeeps DEF TabNext

-----------------------------------------------------------------------------
(* The theorems. *)

(* The invariant holds at the start, when nothing is planned or signed.    *)
LEMMA InitSafe == Init => SafeInv
<1>. SUFFICES ASSUME Init PROVE SafeInv
  OBVIOUS
<1>1. /\ uses \in Uses /\ tx = [i \in Txs |-> NoTx] /\ moves = 0 /\ saves = 0 /\ inflow = TRUE
      /\ panel = Resting(chain, "nothing") /\ journal = 0 /\ overlapped = FALSE
      /\ tab = [t \in Tabs |-> [at |-> "idle", plan |-> NoPlan, pending |-> 0]]
  BY DEF Init, ChainInit, PanelInit, TabInit
<1>2. Owned(chain)
  <2>1. CASE chain = [exists |-> FALSE, wallet |-> Supply, idle |-> 0, shares |-> 0, target |-> 0,
                      usdc_ata |-> FALSE, shares_ata |-> FALSE]
    BY <2>1, SafeChainAssumption DEF Owned, Chain
  <2>2. CASE chain.idle >= 0 /\ \E w \in 0 .. Supply, s \in 0 .. Supply, t \in Targets :
               chain = [exists |-> TRUE, wallet |-> w, idle |-> Supply - w - s, shares |-> s,
                        target |-> t, usdc_ata |-> TRUE, shares_ata |-> TRUE]
    <3>1. PICK w \in 0 .. Supply, s \in 0 .. Supply, t \in Targets :
               chain = [exists |-> TRUE, wallet |-> w, idle |-> Supply - w - s, shares |-> s,
                        target |-> t, usdc_ata |-> TRUE, shares_ata |-> TRUE]
      BY <2>2
    <3>2. PICK i \in 0 .. Supply : i = Supply - w - s /\ w + i + s = Supply
      <4>1. Supply - w - s \in 0 .. Supply /\ w + (Supply - w - s) + s = Supply
        BY <2>2, <3>1, SafeChainAssumption
      <4>. QED
        BY <4>1
    <3>. QED
      BY <3>1, <3>2, SafeChainAssumption DEF Owned, Chain
  <2>. QED
    BY <2>1, <2>2 DEF Init, ChainInit
<1>3. <<>> \in Seq(Instr) /\ <<>> \in Seq(Instr \cup Sources)
  BY EmptySeq, Zenon
<1>4. tx \in [Txs -> TxType] /\ \A i \in Txs : tx[i].st = "none"
  <2>1. NoTx \in TxType /\ NoTx.st = "none"
    BY <1>3 DEF NoTx, TxType, Clients, Kinds
  <2>. QED
    BY <1>1, <2>1
<1>5. ChainTypes
  BY <1>1, <1>2, <1>4, SafeChainAssumption DEF ChainTypes
<1>6. panel = [at |-> "idle", op |-> "none", ixs |-> <<>>, id |-> 0, last |-> 0, step |-> 0,
               read |-> 0, shown |-> chain, said |-> "nothing"]
  BY <1>1 DEF Resting
<1>7. PanelTypes
  <2>1. panel \in PanelType
    BY <1>2, <1>3, <1>6, SafeChainAssumption DEF Owned, PanelType, PanelAt, Kinds, Said
  <2>2. panel.step <= uses.steps
    BY <1>1, <1>6, UseType
  <2>. QED
    BY <1>3, <1>6, <2>1, <2>2 DEF PanelTypes
<1>8. NoPlan \in PlanType /\ Fresh(NoPlan.kind, NoPlan.ixs, NoPlan.read)
  BY <1>1, NoPlanFits
<1>9. PICK r \in TabType : r = [at |-> "idle", plan |-> NoPlan, pending |-> 0] /\ r.plan = NoPlan
  <2>1. [at |-> "idle", plan |-> NoPlan, pending |-> 0] \in TabType
    BY <1>8, SafeChainAssumption DEF TabType, TabAt
  <2>. QED
    BY <2>1
<1>10. tab = [t \in Tabs |-> r]
  BY <1>1, <1>9
<1>11. TabTypes /\ TabFresh
  <2>1. tab \in [Tabs -> TabType] /\ journal \in 0 .. MaxTx
    BY <1>1, <1>9, <1>10, SafeChainAssumption
  <2>2. overlapped \in BOOLEAN
    BY <1>1, Zenon
  <2>3. TabFresh
    BY <1>8, <1>9, <1>10 DEF TabFresh
  <2>. QED
    BY <2>1, <2>2, <2>3 DEF TabTypes
<1>12. Numbered
  <2>1. \A i \in Txs : tx[i].st # "none" <=> i <= 0
    BY <1>4, SafeChainAssumption DEF Txs
  <2>2. 0 \in 0 .. MaxTx
    BY SafeChainAssumption
  <2>3. Cardinality(Done) \in Nat
    BY DoneFinite DEF Done
  <2>4. saves <= Cardinality(Done)
    BY <1>1, <2>3
  <2>. QED
    BY <2>1, <2>2, <2>4 DEF Numbered
<1>13. TxFresh /\ PanelFresh /\ Watched /\ ExitInv
  BY <1>1, <1>4, <1>6 DEF TxFresh, PanelFresh, Watched, Watching, ExitInv, Leaving
<1>. QED
  BY <1>5, <1>7, <1>11, <1>12, <1>13 DEF SafeInv

(* Every step keeps the invariant, whichever client takes it.              *)
LEMMA NextSafe == SafeInv /\ [Next]_vars => SafeInv'
<1>. SUFFICES ASSUME SafeInv, [Next]_vars PROVE SafeInv'
  OBVIOUS
<1>1. CASE PanelNext /\ UNCHANGED mobileVars
  BY <1>1, PanelKeeps
<1>2. CASE (TabNext \/ ApiNext) /\ UNCHANGED panel
  BY <1>2, TabsKeep, ApiKeeps
<1>3. CASE ChainNext /\ UNCHANGED <<panel, mobileVars>>
  BY <1>3, ChainKeeps
<1>4. CASE UNCHANGED vars
  <2>1. UNCHANGED <<uses, chain, tx, moves, saves, inflow, panel, tab, journal, overlapped>>
    BY <1>4 DEF vars, chainVars, mobileVars
  <2>2. UNCHANGED <<chainVars, panel>> /\ TabTypes' /\ TabFresh'
    BY <2>1 DEF chainVars, SafeInv, TabTypes, TabFresh, Fresh
  <2>. QED
    BY <2>2, TabStep
<1>. QED
  BY <1>1, <1>2, <1>3, <1>4 DEF Next

(* The invariant holds in every behaviour.                                 *)
LEMMA SafeInvHolds == Spec => []SafeInv
BY InitSafe, NextSafe, PTL DEF Spec

(* The invariant implies the type invariant that the run checks.           *)
LEMMA TypesOK == SafeInv => TypeOK
<1>. SUFFICES ASSUME SafeInv PROVE TypeOK
  OBVIOUS
<1>1. \A i \in Txs : /\ tx[i].by \in Clients /\ tx[i].kind \in Kinds
                     /\ tx[i].st \in {"none", "signed", "live", "done", "failed", "dead"}
  BY DEF SafeInv, ChainTypes, TxType
<1>2. chain \in Chain /\ chain.wallet + chain.idle + chain.shares = Supply
      /\ moves \in 0 .. MaxMoves /\ inflow \in BOOLEAN
  BY DEF SafeInv, ChainTypes, Owned
<1>3. saves \in 0 .. MaxTx
  BY SavesBound DEF SafeInv
<1>4. PanelTypeOK
  <2>1. panel.step \in 0 .. uses.steps
    BY PanelFields, UseType DEF SafeInv, ChainTypes, PanelTypes
  <2>. QED
    BY <2>1, PanelFields DEF SafeInv, PanelTypeOK
<1>5. MobileTypeOK
  BY TabFields DEF SafeInv, TabTypes, MobileTypeOK
<1>. QED
  BY <1>1, <1>2, <1>3, <1>4, <1>5 DEF TypeOK

(* Type correctness of the owner's clients: the web panel, the mobile tabs *)
(* and the chain they share hold only what TypeOK says, for any number of  *)
(* transactions, tabs, moves and any supply.                               *)
THEOREM OwnerTypeCorrect == Spec => []TypeOK
BY SafeInvHolds, TypesOK, PTL

(* A landing transaction planned from the target still saved keeps it.     *)
LEMMA TargetStep ==
  ASSUME SafeInv, [Next]_vars, NEW i \in Txs, tx[i].st = "live", tx'[i].st = "done",
         ~SetsTarget(tx[i].kind), tx[i].read = saves
  PROVE  chain'.target = chain.target
<1>. USE DEF SafeInv
<1>1. CASE Land(i)
  <2>1. PICK ixs \in Seq(Instr) : ixs = tx[i].ixs /\ Keeps(ixs, chain.target)
    <3>1. tx[i].ixs \in Seq(Instr)
      BY DEF ChainTypes, TxType
    <3>2. Fresh(tx[i].kind, tx[i].ixs, tx[i].read)
      BY DEF TxFresh
    <3>. QED
      BY <3>1, <3>2 DEF Fresh
  <2>2. Execute(chain, ixs).chain.target = chain.target
    BY <2>1, ExecuteType DEF ChainTypes
  <2>. QED
    BY <1>1, <2>1, <2>2 DEF Land
<1>2. CASE UNCHANGED chain
  BY <1>2
<1>3. ASSUME NEW j \in Txs, Land(j), j # i PROVE FALSE
  <2>1. PICK st : tx' = [tx EXCEPT ![j] = Settled(tx[j], st)]
    BY <1>3 DEF Land
  <2>2. tx'[i] = tx[i]
    BY <1>3, <2>1 DEF ChainTypes
  <2>. QED
    BY <2>2
<1>4. ASSUME NEW n, ExecutorDeposits(n) \/ ExecutorWithdraws(n) PROVE FALSE
  BY <1>4 DEF ExecutorDeposits, ExecutorWithdraws
<1>5. ASSUME PanelNext PROVE UNCHANGED chain
  BY <1>5 DEF PanelNext, Buttons, Refresh, CreateSafe, PutToWork, WithdrawAllFromKamino, ReclaimRent,
              CloseSafe, FullExit, DepositUsdc, WithdrawAmount, Invest, SaveAllocation, Begin, chainVars,
              BuildInvest, ExitRead, Approve, AnswerLost, Sends, NotSent, PollStatus, PollHeight
<1>6. ASSUME TabNext \/ ApiNext PROVE UNCHANGED chain
  BY <1>6 DEF TabNext, ApiNext, Prepare, AskWallet, GiveUp, SignAndSave, Submit, Check, Reload,
              ApiSigns, chainVars
<1>7. ASSUME NEW j \in Txs, Expire(j) PROVE UNCHANGED chain
  BY <1>7 DEF Expire
<1>. QED
  BY <1>1, <1>2, <1>3, <1>4, <1>5, <1>6, <1>7 DEF Next, ChainNext, vars, chainVars

(* An operation that is not about the target (an investment borrows 100%   *)
(* and puts back what it read, safeV2.ts and the mobile planner) leaves the*)
(* owner's saved target as it was, if no target was saved since it was     *)
(* planned.                                                                *)
THEOREM SavedTargetIsKept == Spec => SavedTargetKept
<1>1. SafeInv /\ [Next]_vars =>
        [\A i \in Txs :
           tx[i].st = "live" /\ tx'[i].st = "done"
             /\ ~SetsTarget(tx[i].kind) /\ tx[i].read = saves
           => chain'.target = chain.target]_vars
  BY TargetStep
<1>. QED
  BY <1>1, SafeInvHolds, PTL DEF Spec, SavedTargetKept

(* A full exit that says all was returned, with nothing paid in since it   *)
(* read, leaves an empty Safe.                                             *)
LEMMA ExitStep ==
  ASSUME SafeInv, Next, panel'.said = "all_returned", panel.said # "all_returned", ~inflow
  PROVE  chain.idle = 0 /\ chain.shares = 0
<1>. USE DEF SafeInv
<1>1. chain.idle \in Nat /\ chain.shares \in Nat
  BY AmountsType DEF ChainTypes
<1>2. panel = [at |-> panel.at, op |-> panel.op, ixs |-> panel.ixs, id |-> panel.id,
               last |-> panel.last, step |-> panel.step, read |-> panel.read,
               shown |-> panel.shown, said |-> panel.said]
  BY PanelFields
<1>10. "said" \in DOMAIN panel
  BY <1>2
<1>3. PanelNext
  BY DEF Next
<1>4. ~Buttons
  <2>1. ASSUME NEW op, NEW ixs PROVE ~Begin(op, ixs)
    BY <1>2 DEF Begin
  <2>2. ~Refresh
    BY <1>2 DEF Refresh
  <2>3. ~FullExit
    <3>1. FullExit => panel'.said = "nothing"
      BY <1>10 DEF FullExit
    <3>. QED
      BY <3>1
  <2>4. ASSUME NEW source, NEW n PROVE ~Invest(source, n)
    <3>1. Invest(source, n) => panel'.said = "nothing"
      BY <1>10 DEF Invest
    <3>. QED
      BY <3>1
  <2>5. ~CreateSafe /\ ~PutToWork /\ ~WithdrawAllFromKamino /\ ~ReclaimRent /\ ~CloseSafe
    BY <2>1 DEF CreateSafe, PutToWork, WithdrawAllFromKamino, ReclaimRent, CloseSafe
  <2>6. ASSUME NEW n PROVE ~DepositUsdc(n) /\ ~WithdrawAmount(n) /\ ~SaveAllocation(n)
    BY <2>1 DEF DepositUsdc, WithdrawAmount, SaveAllocation
  <2>. QED
    BY <2>2, <2>3, <2>4, <2>5, <2>6 DEF Buttons
<1>5. ~Stops("failed") /\ ~Stops("expired") /\ ~Confirmed
  BY DEF Stops, ExitEnds, Confirmed, Resting
<1>6. ~BuildInvest /\ ~Approve /\ ~AnswerLost /\ ~NotSent /\ ~PollHeight
  <2>1. ~BuildInvest
    BY <1>2, <1>5 DEF BuildInvest
  <2>2. ~Approve
    BY <1>2 DEF Approve, Sends
  <2>3. ~AnswerLost /\ ~NotSent
    BY <1>5 DEF AnswerLost, Sends, NotSent
  <2>4. ~PollHeight
    BY <1>2, <1>5 DEF PollHeight
  <2>. QED
    BY <2>1, <2>2, <2>3, <2>4
<1>7. CASE ExitRead
  <2>1. \A ixs : ~ExitBuilds(ixs)
    BY <1>2 DEF ExitBuilds
  <2>2. ~(chain.shares > 0) /\ ~(chain.idle > 0)
    BY <1>5, <1>7, <2>1 DEF ExitRead
  <2>. QED
    BY <1>1, <2>2
<1>8. CASE PollStatus
  <2>1. panel.at = "confirm" /\ tx[panel.id].st = "done" /\ panel.op = "full_exit" /\ ExitStepDone
    BY <1>2, <1>5, <1>8 DEF PollStatus
  <2>2. panel.ixs[1].op = "withdraw"
    BY <1>2, <2>1 DEF ExitStepDone
  <2>3. \A n \in Nat : panel.ixs # <<Ix("kamino_withdraw", n)>>
    BY <2>2 DEF Ix
  <2>4. PICK n \in Nat : ExitLeaves(n)
    BY <2>1, <2>3 DEF ExitInv, Leaving
  <2>5. chain.idle + chain.shares <= 0
    BY <2>1, <2>4 DEF ExitLeaves, Holds
  <2>. QED
    BY <1>1, <2>5
<1>. QED
  BY <1>3, <1>4, <1>6, <1>7, <1>8 DEF PanelNext

(* runFullExit says that everything was returned only when the Safe holds  *)
(* neither USDC nor shares, unless somebody paid into it during the exit.  *)
THEOREM FullExitReturnsAll == Spec => FullExitIsFull
<1>1. SafeInv /\ [Next]_vars =>
        [panel'.said = "all_returned" /\ panel.said # "all_returned" /\ ~inflow
           => chain.idle = 0 /\ chain.shares = 0]_vars
  BY ExitStep
<1>. QED
  BY <1>1, SafeInvHolds, PTL DEF Spec, FullExitIsFull

-----------------------------------------------------------------------------
(* The journal of the mobile panel: until a tab signs while another waits  *)
(* to check an operation, at most one operation it had signed is open.     *)

Open(i) == tx[i].by = "mobile" /\ tx[i].st \in {"signed", "live", "dead"}

(* Transactions and tabs are records, of which only the fields the journal *)
(* depends on matter here.                                                 *)
IsTx(r) == r = [by |-> r.by, kind |-> r.kind, ixs |-> r.ixs, read |-> r.read, st |-> r.st]
IsTab(r) == r = [at |-> r.at, plan |-> r.plan, pending |-> r.pending]

TxShape == DOMAIN tx = Txs /\ tx = [i \in Txs |-> tx[i]] /\ \A i \in Txs : IsTx(tx[i])
TabShape == tab = [t \in Tabs |-> tab[t]] /\ \A t \in Tabs : IsTab(tab[t])

(* What a tab waits for is what the journal has, unless another tab has    *)
(* cleared it; what the journal has, some tab waits for; and a tab that is *)
(* with its wallet waits for nothing.                                      *)
Waits(pending) == pending # 0 => journal \in {0, pending}
TabInv ==
  \/ overlapped
  \/ /\ \A t \in Tabs : Waits(tab[t].pending) /\ (tab[t].at = "signing" => tab[t].pending = 0)
     /\ journal # 0 => \E t \in Tabs : tab[t].pending = journal

JournalInv == TxShape /\ TabShape /\ TabInv /\ OneOpenOperation

(* A step that opens no operation of the mobile panel.                     *)
OpensNone == TxShape' /\ \A i \in Txs : Open(i)' => Open(i)

LEMMA InitJournal == Init => JournalInv
<1>. SUFFICES ASSUME Init PROVE JournalInv
  OBVIOUS
<1>1. tx = [i \in Txs |-> NoTx] /\ journal = 0
      /\ tab = [t \in Tabs |-> [at |-> "idle", plan |-> NoPlan, pending |-> 0]]
  BY DEF Init, ChainInit, TabInit
<1>2. TxShape
  BY <1>1 DEF TxShape, IsTx, NoTx
<1>3. TabShape /\ TabInv
  BY <1>1 DEF TabShape, IsTab, TabInv, Waits
<1>4. OneOpenOperation
  BY <1>1 DEF OneOpenOperation, NoTx
<1>. QED
  BY <1>2, <1>3, <1>4 DEF JournalInv

-----------------------------------------------------------------------------
(* Steps of the others. *)

LEMMA StayOpensNone ==
  ASSUME TxShape, UNCHANGED tx
  PROVE  OpensNone
BY DEF OpensNone, TxShape, IsTx, Open

(* Another client may sign over nothing the mobile panel signed: whatever  *)
(* the entry it takes, that entry is then its own.                         *)
LEMMA SignOpensNone ==
  ASSUME TxShape, NEW by, by # "mobile", NEW kind, NEW ixs, NEW read, NEW st,
         SignTx(by, kind, ixs, read, st)
  PROVE  OpensNone
<1>1. tx' = [tx EXCEPT ![NextTx] = [by |-> by, kind |-> kind, ixs |-> ixs,
                                    read |-> read, st |-> st]]
  BY DEF SignTx
<1>2. \A i \in Txs : \/ tx'[i] = tx[i]
                     \/ tx'[i] = [by |-> by, kind |-> kind, ixs |-> ixs, read |-> read, st |-> st]
  BY <1>1 DEF TxShape
<1>3. TxShape'
  BY <1>1, <1>2 DEF TxShape, IsTx
<1>. QED
  BY <1>2, <1>3 DEF OpensNone, Open

(* A transaction that lands or expires was open before.                    *)
LEMMA SettleOpensNone ==
  ASSUME TxShape, NEW i \in Txs, tx[i].st \in {"signed", "live"},
         NEW st, tx' = [tx EXCEPT ![i] = Settled(tx[i], st)]
  PROVE  OpensNone
<1>1. /\ tx'[i] = Settled(tx[i], st)
      /\ \A j \in Txs \ {i} : tx'[j] = tx[j]
  BY DEF TxShape
<1>2. Settled(tx[i], st).by = tx[i].by /\ IsTx(Settled(tx[i], st))
  BY DEF Settled, IsTx
<1>3. TxShape'
  BY <1>1, <1>2 DEF TxShape, IsTx
<1>4. Open(i)' => Open(i)
  BY <1>1, <1>2 DEF Open
<1>5. \A j \in Txs \ {i} : Open(j)' => Open(j)
  BY <1>1 DEF Open
<1>. QED
  BY <1>3, <1>4, <1>5 DEF OpensNone

LEMMA ChainOpensNone ==
  ASSUME TxShape, ChainNext
  PROVE  OpensNone
<1>1. ASSUME NEW i \in Txs, Land(i) PROVE OpensNone
  <2>1. tx[i].st \in {"signed", "live"}
    BY <1>1 DEF Land
  <2>2. PICK st : tx' = [tx EXCEPT ![i] = Settled(tx[i], st)]
    BY <1>1 DEF Land
  <2>. QED
    BY <2>1, <2>2, SettleOpensNone
<1>2. ASSUME NEW i \in Txs, Expire(i) PROVE OpensNone
  BY <1>2, SettleOpensNone DEF Expire
<1>3. ASSUME NEW n \in Amounts, ExecutorDeposits(n) \/ ExecutorWithdraws(n) PROVE OpensNone
  BY <1>3, StayOpensNone DEF ExecutorDeposits, ExecutorWithdraws
<1>. QED
  BY <1>1, <1>2, <1>3 DEF ChainNext

LEMMA PanelOpensNone ==
  ASSUME TxShape, PanelNext
  PROVE  OpensNone
<1>1. CASE Buttons
  <2>1. UNCHANGED tx
    BY <1>1 DEF Buttons, Refresh, CreateSafe, PutToWork, WithdrawAllFromKamino, ReclaimRent,
                CloseSafe, FullExit, DepositUsdc, WithdrawAmount, Invest, SaveAllocation,
                Begin, chainVars
  <2>. QED
    BY <2>1, StayOpensNone
<1>2. CASE BuildInvest \/ ExitRead \/ NotSent \/ PollStatus \/ PollHeight
  <2>1. UNCHANGED tx
    BY <1>2 DEF BuildInvest, ExitRead, NotSent, PollStatus, PollHeight, chainVars
  <2>. QED
    BY <2>1, StayOpensNone
<1>3. CASE Approve \/ AnswerLost
  <2>1. SignTx("panel", panel.op, panel.ixs, panel.read, "live")
    BY <1>3 DEF Approve, AnswerLost, Sends
  <2>. QED
    BY <2>1, SignOpensNone
<1>. QED
  BY <1>1, <1>2, <1>3 DEF PanelNext

LEMMA ApiOpensNone ==
  ASSUME TxShape, ApiNext
  PROVE  OpensNone /\ UNCHANGED mobileVars
<1>1. PICK plan : ApiSigns(plan)
  BY DEF ApiNext
<1>2. SignTx("api", plan.kind, plan.ixs, plan.read, "live") /\ UNCHANGED mobileVars
  BY <1>1 DEF ApiSigns
<1>. QED
  BY <1>2, SignOpensNone

LEMMA OthersKeepJournal ==
  ASSUME JournalInv, OpensNone, UNCHANGED mobileVars
  PROVE  JournalInv'
<1>1. tab' = tab /\ journal' = journal /\ overlapped' = overlapped
  BY DEF mobileVars
<1>2. TabShape' /\ TabInv'
  BY <1>1 DEF JournalInv, TabShape, IsTab, TabInv, Waits
<1>3. OneOpenOperation'
  BY <1>1 DEF JournalInv, OpensNone, OneOpenOperation, Open
<1>. QED
  BY <1>2, <1>3 DEF JournalInv, OpensNone

-----------------------------------------------------------------------------
(* Steps of a tab. *)

(* The tab waits for what it waited for, or for what the journal has.      *)
LEMMA TabMoves ==
  ASSUME JournalInv, NEW t \in Tabs, OpensNone, journal' = journal, overlapped' = overlapped,
         NEW r, IsTab(r), r.pending \in {tab[t].pending, journal},
         ~overlapped /\ r.at = "signing" => r.pending = 0,
         tab' = [tab EXCEPT ![t] = r]
  PROVE  JournalInv'
<1>1. \A u \in Tabs : tab'[u] = IF u = t THEN r ELSE tab[u]
  BY DEF JournalInv, TabShape
<1>2. TabShape'
  BY <1>1 DEF JournalInv, TabShape, IsTab
<1>3. TabInv'
  <2>1. CASE overlapped
    BY <2>1 DEF TabInv
  <2>2. CASE ~overlapped
    <3>1. /\ \A u \in Tabs : Waits(tab[u].pending) /\ (tab[u].at = "signing" => tab[u].pending = 0)
          /\ journal # 0 => \E u \in Tabs : tab[u].pending = journal
      BY <2>2 DEF JournalInv, TabInv
    <3>2. ASSUME NEW u \in Tabs
          PROVE  /\ tab'[u].pending # 0 => journal \in {0, tab'[u].pending}
                 /\ tab'[u].at = "signing" => tab'[u].pending = 0
      BY <1>1, <2>2, <3>1 DEF Waits
    <3>3. ASSUME journal # 0 PROVE \E u \in Tabs : tab'[u].pending = journal
      <4>1. PICK u \in Tabs : tab[u].pending = journal
        BY <3>1, <3>3
      <4>2. tab'[u].pending = journal
        BY <1>1, <4>1
      <4>. QED
        BY <4>2
    <3>. QED
      BY <3>2, <3>3 DEF TabInv, Waits
  <2>. QED
    BY <2>1, <2>2
<1>4. OneOpenOperation'
  BY DEF JournalInv, OpensNone, OneOpenOperation, Open
<1>. QED
  BY <1>2, <1>3, <1>4 DEF JournalInv, OpensNone

(* Preparing, asking and giving up touch neither journal nor transactions. *)
LEMMA ReviewKeepsJournal ==
  ASSUME JournalInv, NEW t \in Tabs, Prepare(t) \/ AskWallet(t) \/ GiveUp(t)
  PROVE  JournalInv'
<1>0. OpensNone /\ journal' = journal /\ overlapped' = overlapped
  BY StayOpensNone DEF JournalInv, Prepare, AskWallet, GiveUp, chainVars
<1>1. IsTab(tab[t]) /\ tab = [u \in Tabs |-> tab[u]]
  BY DEF JournalInv, TabShape
<1>2. CASE Prepare(t)
  <2>1. PICK plan : tab' = [tab EXCEPT ![t].at = "review", ![t].plan = plan]
    BY <1>2 DEF Prepare
  <2>2. PICK r : r = [tab[t] EXCEPT !.at = "review", !.plan = plan]
    OBVIOUS
  <2>3. IsTab(r) /\ r.pending = tab[t].pending /\ r.at = "review"
    BY <1>1, <2>2 DEF IsTab
  <2>4. tab' = [tab EXCEPT ![t] = r]
    BY <2>1, <2>2
  <2>. QED
    BY <1>0, <2>3, <2>4, TabMoves
<1>3. CASE AskWallet(t)
  <2>1. PICK r : r = [tab[t] EXCEPT !.at = "signing"]
    OBVIOUS
  <2>2. IsTab(r) /\ r.pending = tab[t].pending
    BY <1>1, <2>1 DEF IsTab
  <2>3. tab' = [tab EXCEPT ![t] = r] /\ tab[t].pending = 0
    BY <1>3, <2>1 DEF AskWallet, Reconciled
  <2>. QED
    BY <1>0, <2>2, <2>3, TabMoves
<1>4. CASE GiveUp(t)
  <2>1. PICK at \in {"review", "idle"}, plan \in {tab[t].plan, NoPlan} :
          tab' = [tab EXCEPT ![t] = [at |-> at, plan |-> plan, pending |-> tab[t].pending]]
    BY <1>1, <1>4 DEF IsTab, GiveUp
  <2>. QED
    BY <1>0, <1>1, <2>1, TabMoves DEF IsTab
<1>. QED
  BY <1>2, <1>3, <1>4

(* A tab that is with its wallet waits for nothing.  If no other tab waits *)
(* either, the journal is empty and nothing is open: what is signed is the *)
(* one operation, and it is in the journal.                                *)
LEMMA SignAndSaveKeepsJournal ==
  ASSUME JournalInv, NEW t \in Tabs, SignAndSave(t)
  PROVE  JournalInv'
<1>1. PICK signed : /\ IsTx(signed)
                    /\ tx' = [tx EXCEPT ![NextTx] = signed]
  BY DEF SignAndSave, SignTx, IsTx
<1>2. \A i \in Txs : tx'[i] = IF i = NextTx THEN signed ELSE tx[i]
  BY <1>1 DEF JournalInv, TxShape
<1>3. TxShape'
  BY <1>1, <1>2 DEF JournalInv, TxShape, IsTx
<1>4. PICK r : r = [at |-> "sending", plan |-> NoPlan, pending |-> NextTx]
               /\ tab' = [tab EXCEPT ![t] = r]
  BY DEF SignAndSave
<1>5. \A u \in Tabs : tab'[u] = IF u = t THEN r ELSE tab[u]
  BY <1>4 DEF JournalInv, TabShape
<1>6. TabShape'
  BY <1>4, <1>5 DEF JournalInv, TabShape, IsTab
<1>7. journal' = NextTx /\ overlapped' = (overlapped \/ AnotherTabPending(t)) /\ tab[t].at = "signing"
  BY DEF SignAndSave
<1>8. CASE overlapped \/ AnotherTabPending(t)
  <2>1. overlapped'
    BY <1>7, <1>8
  <2>. QED
    BY <1>3, <1>6, <2>1 DEF JournalInv, TabInv, OneOpenOperation
<1>9. CASE ~overlapped /\ ~AnotherTabPending(t)
  <2>1. \A u \in Tabs : tab[u].pending = 0
    BY <1>7, <1>9 DEF JournalInv, TabInv, AnotherTabPending
  <2>2. journal = 0
    BY <1>9, <2>1 DEF JournalInv, TabInv
  <2>3. \A i \in Txs : ~Open(i)
    BY <1>9, <2>2 DEF JournalInv, OneOpenOperation, Open, Txs
  <2>4. OneOpenOperation'
    BY <1>2, <1>7, <2>3 DEF OneOpenOperation, Open
  <2>5. \A u \in Tabs : tab'[u].pending = IF u = t THEN journal' ELSE 0
    BY <1>4, <1>5, <1>7, <2>1
  <2>6. \A u \in Tabs : u # t => tab'[u].pending = 0
    BY <2>5
  <2>7. tab'[t].pending = journal' /\ tab'[t].at # "signing"
    BY <1>4, <1>5, <2>5
  <2>8. TabInv'
    BY <2>6, <2>7 DEF TabInv, Waits
  <2>. QED
    BY <1>3, <1>6, <2>4, <2>8 DEF JournalInv
<1>. QED
  BY <1>8, <1>9

(* Only what was signed is sent, so it was open before.                    *)
LEMMA SubmitKeepsJournal ==
  ASSUME JournalInv, NEW t \in Tabs, Submit(t)
  PROVE  JournalInv'
<1>1. IsTab(tab[t]) /\ tab = [u \in Tabs |-> tab[u]]
  BY DEF JournalInv, TabShape
<1>2. OpensNone
  <2>1. CASE UNCHANGED tx
    BY <2>1, StayOpensNone DEF JournalInv
  <2>2. ASSUME NEW i, i = tab[t].pending, tx[i].st = "signed", tx' = [tx EXCEPT ![i].st = "live"]
        PROVE  OpensNone
    <3>1. \A j \in Txs : tx'[j] = IF j = i THEN [tx[j] EXCEPT !.st = "live"] ELSE tx[j]
      BY <2>2 DEF JournalInv, TxShape
    <3>2. \A j \in Txs : /\ IsTx(tx'[j]) /\ tx'[j].by = tx[j].by
                         /\ tx'[j].st = IF j = i THEN "live" ELSE tx[j].st
      BY <3>1 DEF JournalInv, TxShape, IsTx
    <3>3. TxShape'
      BY <2>2, <3>2 DEF JournalInv, TxShape
    <3>. QED
      BY <2>2, <3>2, <3>3 DEF OpensNone, Open
  <2>. QED
    BY <2>1, <2>2 DEF Submit
<1>3. PICK r : r = [tab[t] EXCEPT !.at = "idle"]
  OBVIOUS
<1>4. IsTab(r) /\ r.pending = tab[t].pending /\ r.at = "idle"
  BY <1>1, <1>3 DEF IsTab
<1>5. tab' = [tab EXCEPT ![t] = r] /\ journal' = journal /\ overlapped' = overlapped
  BY <1>3 DEF Submit
<1>. QED
  BY <1>2, <1>4, <1>5, TabMoves

(* What the check clears is final, and the journal has that or nothing: no *)
(* open operation is lost.                                                 *)
LEMMA CheckKeepsJournal ==
  ASSUME JournalInv, NEW t \in Tabs, Check(t)
  PROVE  JournalInv'
<1>1. IsTab(tab[t]) /\ tab = [u \in Tabs |-> tab[u]]
  BY DEF JournalInv, TabShape
<1>2. /\ journal' = 0 /\ overlapped' = overlapped /\ UNCHANGED tx
      /\ tab' = [tab EXCEPT ![t].pending = 0] /\ tab[t].at # "signing" /\ tab[t].pending # 0
  BY DEF Check, chainVars
<1>3. tx[tab[t].pending].st \in {"done", "failed"}
  BY DEF Check, Settles, Status
<1>4. OneOpenOperation'
  <2>1. CASE overlapped
    BY <1>2, <2>1 DEF OneOpenOperation
  <2>2. CASE ~overlapped
    <3>1. journal \in {0, tab[t].pending}
      BY <1>2, <2>2 DEF JournalInv, TabInv, Waits
    <3>2. \A i \in Txs : ~Open(i)
      BY <1>3, <2>2, <3>1 DEF JournalInv, OneOpenOperation, Open, Txs
    <3>. QED
      BY <1>2, <3>2 DEF OneOpenOperation, Open
  <2>. QED
    BY <2>1, <2>2
<1>5. TabShape' /\ TabInv'
  <2>1. PICK r : r = [tab[t] EXCEPT !.pending = 0]
    OBVIOUS
  <2>2. IsTab(r) /\ r.pending = 0
    BY <1>1, <2>1 DEF IsTab
  <2>3. \A u \in Tabs : tab'[u] = IF u = t THEN r ELSE tab[u]
    BY <1>1, <1>2, <2>1
  <2>4. TabShape'
    BY <1>1, <1>2, <2>2, <2>3 DEF JournalInv, TabShape, IsTab
  <2>5. CASE overlapped
    BY <1>2, <2>4, <2>5 DEF TabInv
  <2>6. CASE ~overlapped
    <3>1. \A u \in Tabs : tab'[u].at = "signing" => tab'[u].pending = 0
      BY <2>2, <2>3, <2>6 DEF JournalInv, TabInv
    <3>. QED
      BY <1>2, <2>4, <3>1 DEF TabInv, Waits
  <2>. QED
    BY <2>5, <2>6
<1>6. TxShape'
  BY <1>2 DEF JournalInv, TxShape, IsTx
<1>. QED
  BY <1>4, <1>5, <1>6 DEF JournalInv

(* The journal is all a reloaded tab knows, and all it has to.             *)
LEMMA ReloadKeepsJournal ==
  ASSUME JournalInv, NEW t \in Tabs, Reload(t)
  PROVE  JournalInv'
<1>1. OpensNone /\ journal' = journal /\ overlapped' = overlapped
  BY StayOpensNone DEF JournalInv, Reload, chainVars
<1>2. tab' = [tab EXCEPT ![t] = [at |-> "idle", plan |-> NoPlan, pending |-> journal]]
  BY DEF Reload
<1>. QED
  BY <1>1, <1>2, TabMoves DEF IsTab

-----------------------------------------------------------------------------
LEMMA NextKeepsJournal ==
  ASSUME JournalInv, [Next]_vars
  PROVE  JournalInv'
<1>0. TxShape
  BY DEF JournalInv
<1>1. CASE PanelNext /\ UNCHANGED mobileVars
  BY <1>0, <1>1, PanelOpensNone, OthersKeepJournal
<1>2. CASE ChainNext /\ UNCHANGED mobileVars
  BY <1>0, <1>2, ChainOpensNone, OthersKeepJournal
<1>3. CASE ApiNext
  BY <1>0, <1>3, ApiOpensNone, OthersKeepJournal
<1>4. ASSUME NEW t \in Tabs, Prepare(t) \/ AskWallet(t) \/ GiveUp(t) PROVE JournalInv'
  BY <1>4, ReviewKeepsJournal
<1>5. ASSUME NEW t \in Tabs, SignAndSave(t) PROVE JournalInv'
  BY <1>5, SignAndSaveKeepsJournal
<1>6. ASSUME NEW t \in Tabs, Submit(t) PROVE JournalInv'
  BY <1>6, SubmitKeepsJournal
<1>7. ASSUME NEW t \in Tabs, Check(t) PROVE JournalInv'
  BY <1>7, CheckKeepsJournal
<1>8. ASSUME NEW t \in Tabs, Reload(t) PROVE JournalInv'
  BY <1>8, ReloadKeepsJournal
<1>9. CASE UNCHANGED vars
  BY <1>0, <1>9, StayOpensNone, OthersKeepJournal DEF vars, chainVars, mobileVars
<1>10. CASE TabNext
  BY <1>10, <1>4, <1>5, <1>6, <1>7, <1>8 DEF TabNext
<1>. QED
  BY <1>1, <1>2, <1>3, <1>9, <1>10 DEF Next, mobileVars

(* With any number of tabs, until one signs while another waits to check   *)
(* an operation, the mobile panel has at most one operation open and the   *)
(* journal has it, whatever is reloaded, lost, landed late or done by the  *)
(* other clients (V2MobileSafePanel.tsx, prepare, signAndSend and check).  *)
THEOREM JournalHoldsTheOpenOperation == Spec => []OneOpenOperation
<1>1. Init => JournalInv
  BY InitJournal
<1>2. JournalInv /\ [Next]_vars => JournalInv'
  BY NextKeepsJournal
<1>3. JournalInv => OneOpenOperation
  BY DEF JournalInv
<1>. QED
  BY <1>1, <1>2, <1>3, PTL DEF Spec
=============================================================================
