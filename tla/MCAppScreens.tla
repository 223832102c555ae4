---------------------------- MODULE MCAppScreens -----------------------------
(* AppScreens on small instances (see AppScreens.cfg).  In one behaviour   *)
(* some parts of the app are used, next to one another.                    *)
EXTENDS AppScreens

Empty == [usdc |-> 0, tok |-> 0, coll |-> 0, lent |-> 0, debt |-> 0, shares |-> 0,
          wallet |-> 0, wtok |-> 0, wcoll |-> 0]
Held == [Empty EXCEPT !.usdc = 2, !.tok = 2, !.coll = 10, !.wallet = 1]
Bought == [Empty EXCEPT !.tok = 2, !.coll = 10]
Looped == [Empty EXCEPT !.usdc = 1, !.lent = 10, !.debt = 4, !.shares = 4]
Traded == [Empty EXCEPT !.usdc = 1, !.tok = 1]
Carried == [Traded EXCEPT !.wallet = 1]
Lent == [Looped EXCEPT !.debt = 2, !.shares = 2]
Repaid == [Empty EXCEPT !.usdc = 2, !.lent = 10, !.wallet = 1]
Mixed == [Repaid EXCEPT !.tok = 1, !.coll = 1]
Use(parts, start, clicks, mishaps) ==
  [parts |-> parts, safe |-> start, clicks |-> clicks, mishaps |-> mishaps,
   trades |-> 0, reads |-> 0, mints |-> {}, until |-> 0]
Trading(parts, trades) == [Use(parts, Held, 0, 0) EXCEPT !.trades = trades]
Reading(parts, mints, n, until, mishaps) ==
  [Use(parts, Held, 0, mishaps) EXCEPT !.mints = mints, !.reads = n, !.until = until]

MCUses ==
  {Use({"activate", "deactivate"}, Held, 2, 1),
   Use({"stake_idea", "deactivate", "unstake"}, Looped, 2, 1),
   Use({"activate", "chat"}, Bought, 3, 0),
   Use({"withdraw_all", "chat"}, Traded, 3, 1),
   Use({"withdraw_all", "transfers", "stake_idea"}, Held, 2, 1),
   Use({"withdraw_all", "transfers", "deactivate"}, Repaid, 2, 1),
   Use({"withdraw_all", "drops"}, Carried, 3, 0),
   Use({"buttons", "unstake"}, Lent, 2, 0),
   Use({"buttons", "drops"}, Held, 2, 1),
   Use({"buttons", "stake_idea"}, Mixed, 2, 1),
   Trading({"panel", "buy", "sell", "onyc", "clock"}, 1),
   Trading({"panel", "buy", "redeem", "save", "clock"}, 1),
   Trading({"panel", "buy", "deposit_onyc", "withdraw_onyc", "onyc"}, 2),
   Trading({"panel", "buy", "setup", "mobile"}, 2),
   Trading({"panel", "buy", "sell", "mobile"}, 2),
   Trading({"mobile", "save", "clock"}, 2),
   Reading({"prices"}, {"m1"}, 2, 5, 0), Reading({"tokens"}, Mints, 2, 2, 1),
   Reading({"rates"}, {}, 3, 5, 0)}

Share(k, o) == [kamino |-> k, onyc |-> o]
MCAllocations == {Share(50, 0), Share(50, 50)}
MCStart(new) ==
  LET held == IF new THEN 0 ELSE 1000
  IN  [position |-> ~new, pt |-> held, basis |-> held, usdc |-> 1000, onyc |-> 1000,
       wallet |-> 1000, own |-> 1000, alloc |-> Share(50, 0)]
=============================================================================
