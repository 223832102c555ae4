---------------------------- MODULE OwnerClients -----------------------------
(***************************************************************************)
(* The web panel, the mobile panel and a native client of one owner at the *)
(* same Safe, with its executor.  Nothing tells them of each other but the *)
(* chain.                                                                  *)
(***************************************************************************)
EXTENDS OwnerPanel, MobileSafe

vars == <<chainVars, panel, mobileVars>>

Init == ChainInit /\ PanelInit /\ TabInit

Next ==
  \/ PanelNext /\ UNCHANGED mobileVars
  \/ (TabNext \/ ApiNext) /\ UNCHANGED panel
  \/ ChainNext /\ UNCHANGED <<panel, mobileVars>>

Spec == Init /\ [][Next]_vars

-----------------------------------------------------------------------------
(* Types of the chain, of the transactions and of what each client keeps.  *)
TypeOK ==
  /\ chain \in Chain /\ chain.wallet + chain.idle + chain.shares = Supply
  /\ \A i \in Txs : /\ tx[i].by \in Clients /\ tx[i].kind \in Kinds
                    /\ tx[i].st \in {"none", "signed", "live", "done", "failed", "dead"}
  /\ moves \in 0..MaxMoves /\ saves \in 0..MaxTx /\ inflow \in BOOLEAN
  /\ PanelTypeOK /\ MobileTypeOK

(* "All supported USDC assets have been returned to your wallet": when the *)
(* panel's full exit says so, the Safe holds no share and no USDC, whatever *)
(* the executor and the owner's other clients did meanwhile, unless one of *)
(* them paid in after the exit's last read (runFullExit).                  *)
FullExitIsFull ==
  [][panel'.said = "all_returned" /\ panel.said # "all_returned" /\ ~inflow
       => chain.idle = 0 /\ chain.shares = 0]_vars

(* "This does not change your saved allocation": a transaction that is not *)
(* a save leaves the target as the owner saved it, unless a save landed    *)
(* between its plan and itself (buildOwnerKaminoDeposit, kaminoDepositPlan).*)
SavedTargetKept ==
  [][\A i \in Txs :
       tx[i].st = "live" /\ tx'[i].st = "done"
         /\ ~SetsTarget(tx[i].kind) /\ tx[i].read = saves
       => chain'.target = chain.target]_vars

(* At most one operation the mobile panel had signed can still take effect *)
(* or is still unknown, and it is the one in the journal: a reload does    *)
(* not lose it and no other is signed next to it, in any tab, until a tab  *)
(* signs while another still waits to check an operation                   *)
(* (V2MobileSafePanel.tsx, prepare, signAndSend and check).                *)
OneOpenOperation ==
  \/ overlapped
  \/ \A i \in Txs :
       tx[i].by = "mobile" /\ tx[i].st \in {"signed", "live", "dead"} => journal = i
=============================================================================
