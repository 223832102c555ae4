------------------------ MODULE ExecutorPolicyProofs -------------------------
(***************************************************************************)
(* Lemmas about the executor policy: the arithmetic of the ring of hourly  *)
(* buckets and what a charge returns, for a ring of any size and hours of  *)
(* any length.                                                             *)
(***************************************************************************)
EXTENDS ExecutorPolicy, SumLemmas

-----------------------------------------------------------------------------
(* The arithmetic of the ring. *)

(* BucketOf is an index of the ring.                                       *)
LEMMA BucketInRing ==
  ASSUME NEW hour \in Nat
  PROVE  BucketOf(hour) \in Buckets
BY PolicyAssumption DEF BucketOf, Buckets

(* Two hours less than a turn of the ring apart never share a bucket: the  *)
(* hour that is claimed evicts none that charge_volume still counts.       *)
LEMMA NearHoursDiffer ==
  ASSUME NEW early \in Nat, NEW late \in Nat,
         early < late, late - early < EXECUTOR_VOLUME_HOURS
  PROVE  BucketOf(early) # BucketOf(late)
<1>. DEFINE W == EXECUTOR_VOLUME_HOURS
<1>1. W \in Nat \ {0}
  BY PolicyAssumption
<1>2. SUFFICES ASSUME early % W = late % W PROVE FALSE
  BY DEF BucketOf
<1>3. /\ early = W * (early \div W) + (early % W)
      /\ late = W * (late \div W) + (late % W)
  BY <1>1
<1>4. /\ early \div W \in Int /\ late \div W \in Int
      /\ late - early = W * (late \div W) - W * (early \div W)
  BY <1>1, <1>2, <1>3
<1>5. \A a, b \in Int : W * a - W * b < W => a <= b
  BY <1>1
<1>6. \A a, b \in Int : a <= b => W * a - W * b <= 0
  BY <1>1
<1>. QED
  BY <1>4, <1>5, <1>6

(* The clock enters at most one hour per tick and never goes back.         *)
LEMMA TickHour ==
  ASSUME NEW t \in Nat
  PROVE  HourOf(t + 1) = HourOf(t) \/ HourOf(t + 1) = HourOf(t) + 1
BY PolicyAssumption DEF HourOf

-----------------------------------------------------------------------------
(* What the operations of the account return. *)

LEMMA RolledType ==
  ASSUME NEW account \in ExecutorLimits, NEW hour \in Nat
  PROVE  /\ Rolled(account, hour) \in ExecutorLimits
         /\ Rolled(account, hour).exists = account.exists
         /\ Rolled(account, hour).enabled = account.enabled
         /\ Rolled(account, hour).max_24h_volume_usdc = account.max_24h_volume_usdc
         /\ Rolled(account, hour).max_action_usdc = account.max_action_usdc
         /\ Rolled(account, hour).hour_epoch
              = [account.hour_epoch EXCEPT ![BucketOf(hour)] = hour]
         /\ \A i \in Buckets : i # BucketOf(hour) =>
              Rolled(account, hour).hour_volume[i] = account.hour_volume[i]
         /\ Rolled(account, hour).hour_volume[BucketOf(hour)] =
              IF account.hour_epoch[BucketOf(hour)] = hour
              THEN account.hour_volume[BucketOf(hour)] ELSE 0
BY BucketInRing DEF Rolled, ExecutorLimits

(* A charge claims the bucket of its hour, adds to it what moved on top of *)
(* what that hour already held, and touches no other bucket and no limit.  *)
ChargesOnly(account, after, moved, hour) ==
  /\ after \in ExecutorLimits
  /\ after.exists = account.exists
  /\ after.enabled = account.enabled
  /\ after.max_24h_volume_usdc = account.max_24h_volume_usdc
  /\ after.max_action_usdc = account.max_action_usdc
  /\ after.hour_epoch = [account.hour_epoch EXCEPT ![BucketOf(hour)] = hour]
  /\ \A i \in Buckets : i # BucketOf(hour) =>
       after.hour_volume[i] = account.hour_volume[i]
  /\ after.hour_volume[BucketOf(hour)] = moved +
       (IF account.hour_epoch[BucketOf(hour)] = hour
        THEN account.hour_volume[BucketOf(hour)] ELSE 0)

LEMMA ChargedType ==
  ASSUME NEW account \in ExecutorLimits, NEW moved \in Nat, NEW t \in Nat
  PROVE  ChargesOnly(account, Charged(account, moved, t), moved, HourOf(t))
<1>. DEFINE hour == HourOf(t)
            rolled == Rolled(account, hour)
            after == Charged(account, moved, t)
            bucket == BucketOf(hour)
<1>1. hour \in Nat
  BY PolicyAssumption DEF HourOf
<1>2. bucket \in Buckets
  BY <1>1, BucketInRing
<1>3. after = [rolled EXCEPT !.hour_volume[bucket] = @ + moved]
  BY DEF Charged
<1>4. rolled \in ExecutorLimits
  BY <1>1, RolledType
<1>5. /\ after \in ExecutorLimits
      /\ after.exists = rolled.exists
      /\ after.enabled = rolled.enabled
      /\ after.max_24h_volume_usdc = rolled.max_24h_volume_usdc
      /\ after.max_action_usdc = rolled.max_action_usdc
      /\ after.hour_epoch = rolled.hour_epoch
      /\ \A i \in Buckets : i # bucket => after.hour_volume[i] = rolled.hour_volume[i]
      /\ after.hour_volume[bucket] = rolled.hour_volume[bucket] + moved
  <2>. HIDE DEF hour, bucket, rolled, after
  <2>. QED
    BY <1>2, <1>3, <1>4 DEF ExecutorLimits
<1>6. rolled.hour_volume[bucket] \in Nat
  BY <1>2, <1>4 DEF ExecutorLimits
<1>7. hour = HourOf(t) /\ bucket = BucketOf(HourOf(t)) /\ rolled = Rolled(account, hour)
  OBVIOUS
<1>. HIDE DEF hour, bucket, rolled, after
<1>8. /\ rolled.exists = account.exists
      /\ rolled.enabled = account.enabled
      /\ rolled.max_24h_volume_usdc = account.max_24h_volume_usdc
      /\ rolled.max_action_usdc = account.max_action_usdc
      /\ rolled.hour_epoch = [account.hour_epoch EXCEPT ![bucket] = hour]
      /\ \A i \in Buckets : i # bucket => rolled.hour_volume[i] = account.hour_volume[i]
      /\ rolled.hour_volume[bucket] =
           IF account.hour_epoch[bucket] = hour THEN account.hour_volume[bucket] ELSE 0
  BY <1>1, <1>7, RolledType
<1>9. after.hour_volume[bucket] = moved +
        (IF account.hour_epoch[bucket] = hour THEN account.hour_volume[bucket] ELSE 0)
  BY <1>5, <1>6, <1>8
<1>. QED
  BY <1>5, <1>7, <1>8, <1>9 DEF after, ChargesOnly
-----------------------------------------------------------------------------
(* What charge_volume counts against the 24-hour limit. *)

LEMMA BucketsFinite == IsFiniteSet(Buckets)
BY PolicyAssumption, FS_Interval DEF Buckets

LEMMA PreviousVolumeIsSum ==
  ASSUME NEW account, NEW hour
  PROVE  PreviousVolume(account, hour) =
           SumOf(Rolled(account, hour).hour_volume, InWindow(Rolled(account, hour), hour))
BY DEF PreviousVolume, SumOf, MapThenSumSet, MapThenFoldSet

LEMMA PreviousVolumeType ==
  ASSUME NEW account \in ExecutorLimits, NEW hour \in Nat
  PROVE  PreviousVolume(account, hour) \in Nat
<1>. DEFINE rolled == Rolled(account, hour)
            window == InWindow(rolled, hour)
<1>1. rolled.hour_volume \in [Buckets -> Nat]
  BY RolledType DEF ExecutorLimits
<1>2. IsFiniteSet(window) /\ window \subseteq Buckets
  BY BucketsFinite, FS_Subset DEF InWindow
<1>3. SumOf(rolled.hour_volume, window) \in Nat
  <2>. HIDE DEF rolled, window
  <2>. QED
    BY <1>1, <1>2, SumType
<1>. QED
  BY <1>3, PreviousVolumeIsSum

(* Whatever the clock and the ring: what a charge adds to the volume that  *)
(* counts is the USDC that moved, once.                                    *)
LEMMA ChargeCounted ==
  ASSUME NEW account \in ExecutorLimits, NEW moved \in Nat, NEW t \in Nat
  PROVE  PreviousVolume(Charged(account, moved, t), HourOf(t))
           = PreviousVolume(account, HourOf(t)) + moved
<1>h. PICK hour \in Nat : hour = HourOf(t)
  BY PolicyAssumption DEF HourOf
<1>. DEFINE bucket == BucketOf(hour)
            rolled == Rolled(account, hour)
            after == Charged(account, moved, t)
            window == InWindow(rolled, hour)
<1>1. bucket \in Buckets
  BY BucketInRing
<1>2. ChargesOnly(account, after, moved, hour)
  BY <1>h, ChargedType
<1>3. /\ rolled \in ExecutorLimits
      /\ rolled.hour_epoch = [account.hour_epoch EXCEPT ![bucket] = hour]
      /\ \A i \in Buckets : i # bucket => rolled.hour_volume[i] = account.hour_volume[i]
      /\ rolled.hour_volume[bucket] =
           IF account.hour_epoch[bucket] = hour THEN account.hour_volume[bucket] ELSE 0
  BY RolledType
<1>4. /\ account.hour_epoch \in [Buckets -> Nat] /\ account.hour_volume \in [Buckets -> Nat]
      /\ rolled.hour_volume \in [Buckets -> Nat]
  BY <1>3 DEF ExecutorLimits
<1>. HIDE DEF bucket, rolled, after
<1>5. /\ after.hour_epoch = rolled.hour_epoch /\ rolled.hour_epoch[bucket] = hour
      /\ \A i \in Buckets \ {bucket} : after.hour_volume[i] = rolled.hour_volume[i]
      /\ after.hour_volume[bucket] = rolled.hour_volume[bucket] + moved
  BY <1>1, <1>2, <1>3, <1>4 DEF ChargesOnly, bucket
<1>6. Rolled(after, hour) = after /\ InWindow(after, hour) = window
  BY <1>5 DEF Rolled, InWindow, bucket
<1>7. bucket \in window /\ window \subseteq Buckets /\ IsFiniteSet(window)
  <2>1. window \subseteq Buckets /\ IsFiniteSet(window)
    BY BucketsFinite, FS_Subset DEF InWindow
  <2>2. bucket \in window
    BY <1>1, <1>5, PolicyAssumption DEF InWindow
  <2>. QED
    BY <2>1, <2>2
<1>. HIDE DEF window
<1>8. SumOf(after.hour_volume, window) = SumOf(rolled.hour_volume, window) + moved
  BY <1>4, <1>5, <1>7, SumUpdate
<1>9. /\ PreviousVolume(account, hour) = SumOf(rolled.hour_volume, window)
      /\ PreviousVolume(after, hour) = SumOf(after.hour_volume, window)
  BY <1>6, PreviousVolumeIsSum DEF rolled, window
<1>. QED
  BY <1>h, <1>8, <1>9 DEF after
=============================================================================
