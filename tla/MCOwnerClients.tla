--------------------------- MODULE MCOwnerClients ----------------------------
(* OwnerClients on small instances (see the cfg files).  In one behaviour  *)
(* an owner uses some of the buttons: those of a set below, together with  *)
(* the clients that could get in their way.                                *)
EXTENDS OwnerClients, TLC

MCUses ==
  {[panel |-> {"full_exit"}, mobile |-> {}, api |-> {"redeem", "return"},
    txs |-> 3, steps |-> 2],
   [panel |-> {"full_exit", "deposit"}, mobile |-> {}, api |-> {"invest"},
    txs |-> 2, steps |-> 1],
   [panel |-> {"full_exit"}, mobile |-> {"withdraw"}, api |-> {},
    txs |-> 2, steps |-> 1],
   [panel |-> {"invest", "save_allocation"}, mobile |-> {}, api |-> {},
    txs |-> 3, steps |-> 0],
   [panel |-> {"save_allocation"}, mobile |-> {}, api |-> {"invest"},
    txs |-> 3, steps |-> 0],
   [panel |-> {"put", "redeem_all", "withdraw"}, mobile |-> {"deposit"}, api |-> {},
    txs |-> 2, steps |-> 0],
   [panel |-> {"create", "reclaim", "close_safe"}, mobile |-> {"create"},
    api |-> {}, txs |-> 3, steps |-> 0],
   [panel |-> {}, mobile |-> {"create_deposit", "deposit", "withdraw"}, api |-> {},
    txs |-> 3, steps |-> 0],
   [panel |-> {}, mobile |-> {"create_deposit", "deposit", "withdraw"},
    api |-> {"invest", "redeem", "return"}, txs |-> 2, steps |-> 0]}

TabSymmetry == Permutations(Tabs)
=============================================================================
