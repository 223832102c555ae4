--------------------------- MODULE ExecutorPolicy ----------------------------
(***************************************************************************)
(* The ExecutorLimits account of lib.rs as a record, and charge_volume as  *)
(* two operators on it: when a charge is accepted, and the ledger after    *)
(* it.  The ledger is a ring of hourly buckets; in the code it has 25 of   *)
(* them, the current hour and the 24 before it.                            *)
(***************************************************************************)
EXTENDS Integers, FiniteSetsExt

CONSTANTS
  EXECUTOR_VOLUME_HOURS,        \* buckets of the ring (25 in the code)
  SECONDS_PER_HOUR,             \* clock ticks of an hour (3600 in the code)
  DEFAULT_EXECUTOR_LIMIT_USDC   \* each limit of a freshly created policy

ASSUME PolicyAssumption ==
  /\ EXECUTOR_VOLUME_HOURS \in Nat \ {0}
  /\ SECONDS_PER_HOUR \in Nat \ {0}
  /\ DEFAULT_EXECUTOR_LIMIT_USDC \in Nat \ {0}

Buckets == 0 .. EXECUTOR_VOLUME_HOURS - 1

ExecutorLimits ==
  [exists : BOOLEAN, enabled : BOOLEAN,
   max_action_usdc : Nat, max_24h_volume_usdc : Nat, max_principal_usdc : Nat,
   hour_epoch : [Buckets -> Nat], hour_volume : [Buckets -> Nat]]

ZeroLedger == [i \in Buckets |-> 0]

(* The account does not exist (its fields are those of a zeroed account).  *)
NoLimits ==
  [exists |-> FALSE, enabled |-> FALSE,
   max_action_usdc |-> 0, max_24h_volume_usdc |-> 0, max_principal_usdc |-> 0,
   hour_epoch |-> ZeroLedger, hour_volume |-> ZeroLedger]

(* initialize_default_executor_limits: every field, the ledger included.   *)
DefaultLimits ==
  [exists |-> TRUE, enabled |-> TRUE,
   max_action_usdc |-> DEFAULT_EXECUTOR_LIMIT_USDC,
   max_24h_volume_usdc |-> DEFAULT_EXECUTOR_LIMIT_USDC,
   max_principal_usdc |-> DEFAULT_EXECUTOR_LIMIT_USDC,
   hour_epoch |-> ZeroLedger, hour_volume |-> ZeroLedger]

\* Mutant of LimitsAccepted: an action limit above the 24-hour limit passes.
LimitsUnordered(max_action, max_24h, max_principal, enabled) ==
  enabled => max_action > 0 /\ max_24h > 0 /\ max_principal > 0

(* set_executor_limits: the limits it accepts.                             *)
LimitsAccepted(max_action, max_24h, max_principal, enabled) ==
  enabled => /\ max_action > 0 /\ max_24h > 0 /\ max_principal > 0
             /\ max_24h >= max_action

\* Mutant of WithLimits: new limits start with an empty ledger.
WithLimitsReset(limits, max_action, max_24h, max_principal, enabled) ==
  [DefaultLimits EXCEPT !.enabled = enabled,
                        !.max_action_usdc = max_action,
                        !.max_24h_volume_usdc = max_24h,
                        !.max_principal_usdc = max_principal]

(* The account set_executor_limits leaves: the ledger survives the change. *)
WithLimits(limits, max_action, max_24h, max_principal, enabled) ==
  [limits EXCEPT !.exists = TRUE, !.enabled = enabled,
                 !.max_action_usdc = max_action,
                 !.max_24h_volume_usdc = max_24h,
                 !.max_principal_usdc = max_principal]

HourOf(now) == now \div SECONDS_PER_HOUR
BucketOf(hour) == hour % EXECUTOR_VOLUME_HOURS

\* Mutant of Rolled: the claimed bucket keeps the volume of its old hour.
RolledUncleared(limits, hour) ==
  [limits EXCEPT !.hour_epoch[BucketOf(hour)] = hour]

(* The ledger once the bucket of the current hour has been claimed for it. *)
Rolled(limits, hour) ==
  IF limits.hour_epoch[BucketOf(hour)] = hour
  THEN limits
  ELSE [limits EXCEPT !.hour_epoch[BucketOf(hour)] = hour,
                      !.hour_volume[BucketOf(hour)] = 0]

\* Mutant of InWindow: only the whole hours since 23 hours ago.
InWindowShort(limits, hour) ==
  {i \in Buckets : /\ limits.hour_epoch[i] > hour - (EXECUTOR_VOLUME_HOURS - 1)
                   /\ limits.hour_epoch[i] <= hour}

(* The buckets whose hour is the current one or one of the 24 before it.   *)
InWindow(limits, hour) ==
  {i \in Buckets : /\ limits.hour_epoch[i] >= hour - (EXECUTOR_VOLUME_HOURS - 1)
                   /\ limits.hour_epoch[i] <= hour}

PreviousVolume(limits, hour) ==
  LET rolled == Rolled(limits, hour)
  IN  MapThenSumSet(LAMBDA i : rolled.hour_volume[i], InWindow(rolled, hour))

NoPrincipal == -1   \* charge_volume's None: an exit, not held to max_principal

ChargeAccepted(limits, moved_usdc, principal_after_deposit, now) ==
  /\ limits.enabled
  /\ moved_usdc > 0
  /\ moved_usdc <= limits.max_action_usdc
  /\ principal_after_deposit # NoPrincipal =>
       principal_after_deposit <= limits.max_principal_usdc
  /\ PreviousVolume(limits, HourOf(now)) + moved_usdc <= limits.max_24h_volume_usdc

Charged(limits, moved_usdc, now) ==
  LET hour == HourOf(now)
  IN  [Rolled(limits, hour) EXCEPT !.hour_volume[BucketOf(hour)] = @ + moved_usdc]
=============================================================================
