--------------------------- MODULE MCExponentRoute ---------------------------
(* ExponentRoute on small instances: one owner, one executor, buys of 20   *)
(* USDC so that a loss of 5% is a whole unit (see the cfg files).  The     *)
(* protocol is deployed at the start and its config stays as it is.        *)
EXTENDS ExponentRoute

DeployedInit ==
  /\ \E a \in Admins :
       config = [exists |-> TRUE, admin |-> a, performance_fee_bps |-> 0]
  /\ registry = RegistryOf(NoKey, Executors)
  /\ safe = NoSafe /\ limits = NoLimits /\ granted = FALSE
  /\ wallet = Supply /\ idle = 0 /\ shares = 0 /\ nav = 0 /\ treasury = 0
  /\ losses = 0 /\ now = FirstTime
  /\ position = NoPosition
  /\ pt = 0 /\ onyc = 0 /\ ownerOnyc = OwnerOnyc
  /\ executorExits = [basis |-> 0, received |-> 0]

DeployedNext == ExponentNext /\ UNCHANGED protocolVars

DeployedSpec == DeployedInit /\ [][DeployedNext]_allVars

(* For the limits: beside the default the owner chooses limits whose       *)
(* actions are too small for a trade and whose day is long.  The admin may *)
(* take the executor off the registry and put it back.                     *)
OwnersLimits == {<<20, 20, 20>>, <<1, 40, 40>>}

ChosenBy(policy) ==
  <<policy.max_action_usdc, policy.max_24h_volume_usdc, policy.max_principal_usdc>>

LimitedNext ==
  /\ ExponentNext
  /\ UNCHANGED config
  /\ limits' # limits /\ limits'.exists => ChosenBy(limits') \in OwnersLimits

LimitedSpec == DeployedInit /\ [][LimitedNext]_allVars
=============================================================================
