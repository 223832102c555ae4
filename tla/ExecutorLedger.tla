--------------------------- MODULE ExecutorLedger ----------------------------
(***************************************************************************)
(* The life of one ExecutorLimits account: the owner's set_executor_limits *)
(* and the charges of the executor (one per kamino_deposit,                *)
(* kamino_withdraw or Exponent action), against the Solana clock.          *)
(***************************************************************************)
EXTENDS ExecutorPolicy

CONSTANTS
  FirstHour,      \* the hour the model starts in
  LastHour,       \* bound: the clock stops at the end of this hour
  LimitValues,    \* values the owner picks limits from
  Amounts,        \* USDC one executor action moves
  Principals      \* total route principal a deposit would leave

(* The clock of a live cluster is far past hour EXECUTOR_VOLUME_HOURS, so  *)
(* the zero epochs of a fresh account lie outside every window.            *)
ASSUME LedgerAssumption ==
  /\ FirstHour \in Nat /\ FirstHour >= EXECUTOR_VOLUME_HOURS
  /\ LastHour \in Nat /\ LastHour >= FirstHour
  /\ LimitValues \subseteq Nat
  /\ Amounts \subseteq Nat
  /\ Principals \subseteq Nat

VARIABLES
  now,      \* Clock::get()?.unix_timestamp
  limits,   \* the account
  spent,    \* history: USDC charged at each tick
  hourly    \* history: USDC charged in each hour

vars == <<now, limits, spent, hourly>>

Hours == 0 .. LastHour
Times == 0 .. (LastHour + 1) * SECONDS_PER_HOUR - 1

Init ==
  /\ now = FirstHour * SECONDS_PER_HOUR
  /\ limits = NoLimits
  /\ spent = [t \in Times |-> 0]
  /\ hourly = [h \in Hours |-> 0]

SetExecutorLimits(max_action, max_24h, max_principal, enabled) ==
  /\ LimitsAccepted(max_action, max_24h, max_principal, enabled)
  /\ limits' = WithLimits(limits, max_action, max_24h, max_principal, enabled)
  /\ UNCHANGED <<now, spent, hourly>>

ChargeVolume(moved_usdc, principal_after_deposit) ==
  /\ limits.exists
  /\ ChargeAccepted(limits, moved_usdc, principal_after_deposit, now)
  /\ limits' = Charged(limits, moved_usdc, now)
  /\ spent' = [spent EXCEPT ![now] = @ + moved_usdc]
  /\ hourly' = [hourly EXCEPT ![HourOf(now)] = @ + moved_usdc]
  /\ UNCHANGED now

Tick ==
  /\ now + 1 \in Times
  /\ now' = now + 1
  /\ UNCHANGED <<limits, spent, hourly>>

Next ==
  \/ \E a, v, p \in LimitValues, enabled \in BOOLEAN :
       SetExecutorLimits(a, v, p, enabled)
  \/ \E moved \in Amounts, p \in Principals \cup {NoPrincipal} :
       ChargeVolume(moved, p)
  \/ Tick

Spec == Init /\ [][Next]_vars

-----------------------------------------------------------------------------
(* Types of the account and of the two histories.  The owner cannot enable *)
(* limits under which no action of the permitted size would ever fit.      *)
TypeOK ==
  /\ now \in Times
  /\ limits \in ExecutorLimits
  /\ limits.enabled => limits.max_24h_volume_usdc >= limits.max_action_usdc
  /\ spent \in [Times -> Nat]
  /\ hourly \in [Hours -> Nat]

(* What the ring holds for an hour: 0 unless a bucket is claimed for it.   *)
RingVolume(hour) ==
  IF limits.hour_epoch[BucketOf(hour)] = hour
  THEN limits.hour_volume[BucketOf(hour)]
  ELSE 0

WindowHours == {h \in Hours : /\ h > HourOf(now) - EXECUTOR_VOLUME_HOURS
                              /\ h <= HourOf(now)}

(* The ring forgets nothing it still needs and remembers nothing else: for *)
(* the current hour and each of the hours before it that charge_volume     *)
(* counts, the ring holds exactly what the executor moved in that hour,    *)
(* however the hours, the pauses and the changes of limits fell.           *)
LedgerExact == \A h \in WindowHours : RingVolume(h) = hourly[h]

SpentSince(tick) ==
  MapThenSumSet(LAMBDA t : spent[t], {t \in Times : t >= tick /\ t <= now})

Window == (EXECUTOR_VOLUME_HOURS - 1) * SECONDS_PER_HOUR

(* "Whole hourly buckets can make the window up to one hour longer, never  *)
(* shorter" (charge_volume): the volume counted against the limit is at    *)
(* least what moved in the exact last 24 hours and at most what moved in   *)
(* the last 25.                                                            *)
WindowSandwich ==
  LET counted == PreviousVolume(limits, HourOf(now))
  IN  /\ SpentSince(now - Window + 1) <= counted
      /\ counted <= SpentSince(now - Window - SECONDS_PER_HOUR + 1)

(* The account implements the exact rolling budget: no pause, no change of *)
(* limits and no position of the clock within its hour lets the executor   *)
(* move more in 24 hours than the limit in force at that moment.           *)
Budget == INSTANCE RollingBudget
  WITH cap <- IF limits.enabled THEN limits.max_24h_volume_usdc ELSE 0
BudgetSpec == Budget!Spec
=============================================================================
