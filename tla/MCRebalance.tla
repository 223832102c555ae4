----------------------------- MODULE MCRebalance -----------------------------
(* Small instances of Rebalance: the Conservative strategy.                *)
EXTENDS Rebalance

Conservative == <<USDC, "USDY">>
ConservativeWeight == [t \in {USDC, "USDY"} |-> IF t = USDC THEN 40 ELSE 60]
UnitPrices == [t \in Tokens |-> IF t = "USDY" THEN 2 ELSE 1]

Holding(usdc, usdy) == USDC :> usdc @@ "USDY" :> usdy

SomeShapes == {{"setup", "cleanup_other"}}

SomeBalances == {Holding(30, 0), Holding(4, 10)}
=============================================================================
