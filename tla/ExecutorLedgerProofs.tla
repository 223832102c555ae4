------------------------ MODULE ExecutorLedgerProofs -------------------------
(***************************************************************************)
(* Proofs about the executor ledger for a ring of any size, hours of any   *)
(* length and any limits: the types of the account; that the ring holds    *)
(* exactly what was charged in every hour it still has to know; that what  *)
(* charge_volume counts lies between the exact sums over 24 and 25 hours;  *)
(* and that the account implements the budget of RollingBudget.            *)
(***************************************************************************)
EXTENDS ExecutorLedger, ExecutorPolicyProofs

(* Every clock value lies in one of the modelled hours.                    *)
LEMMA HourInRange ==
  ASSUME NEW t \in Times
  PROVE  HourOf(t) \in Hours
BY PolicyAssumption, LedgerAssumption DEF HourOf, Times, Hours

-----------------------------------------------------------------------------
(* The inductive invariant.  LedgerExact alone is not inductive: when the  *)
(* clock enters a new hour, the ring must not already claim a bucket for   *)
(* it, and nothing may have been charged in an hour still to come.         *)

NoFutureEpoch == \A i \in Buckets : limits.hour_epoch[i] <= HourOf(now)
NoFutureCharge == \A h \in Hours : h > HourOf(now) => hourly[h] = 0
LedgerInv == TypeOK /\ NoFutureEpoch /\ NoFutureCharge /\ LedgerExact

LEMMA LedgerInit == Init => LedgerInv
<1>. SUFFICES ASSUME Init PROVE LedgerInv
  OBVIOUS
<1>1. now \in Times /\ now \in Nat
  <2>1. now \in Nat /\ now <= (LastHour + 1) * SECONDS_PER_HOUR - 1
    <3>1. \A a, b \in Nat, s \in Nat \ {0} : a <= b => a * s <= (b + 1) * s - 1
      OBVIOUS
    <3>. QED
      BY <3>1, PolicyAssumption, LedgerAssumption DEF Init
  <2>. QED
    BY <2>1, PolicyAssumption, LedgerAssumption DEF Times
<1>2. limits \in ExecutorLimits /\ ~limits.enabled
  BY DEF Init, NoLimits, ZeroLedger, ExecutorLimits
<1>3. TypeOK
  BY <1>1, <1>2 DEF TypeOK, Init
<1>4. HourOf(now) = FirstHour
  BY PolicyAssumption, LedgerAssumption DEF Init, HourOf
<1>5. \A i \in Buckets : limits.hour_epoch[i] = 0
  BY DEF Init, NoLimits, ZeroLedger
<1>6. NoFutureEpoch
  BY <1>4, <1>5, LedgerAssumption DEF NoFutureEpoch
<1>7. NoFutureCharge
  BY DEF Init, NoFutureCharge
<1>8. LedgerExact
  <2>. SUFFICES ASSUME NEW h \in WindowHours PROVE RingVolume(h) = hourly[h]
    BY DEF LedgerExact
  <2>1. h \in Nat /\ h \in Hours /\ h # 0
    BY <1>4, PolicyAssumption, LedgerAssumption DEF WindowHours, Hours
  <2>2. limits.hour_epoch[BucketOf(h)] = 0
    BY <1>5, <2>1, BucketInRing
  <2>. QED
    BY <2>1, <2>2 DEF RingVolume, Init
<1>. QED
  BY <1>3, <1>6, <1>7, <1>8 DEF LedgerInv

(* The owner's change of limits leaves the ledger as it was.               *)
LEMMA SetLimitsKeepsLedger ==
  ASSUME LedgerInv, NEW a \in LimitValues, NEW v \in LimitValues,
         NEW p \in LimitValues, NEW enabled \in BOOLEAN,
         SetExecutorLimits(a, v, p, enabled)
  PROVE  LedgerInv'
<1>1. a \in Nat /\ v \in Nat /\ p \in Nat
  BY LedgerAssumption
<1>2. /\ limits' \in ExecutorLimits
      /\ limits'.hour_epoch = limits.hour_epoch
      /\ limits'.hour_volume = limits.hour_volume
      /\ limits'.enabled => limits'.max_24h_volume_usdc >= limits'.max_action_usdc
      /\ UNCHANGED <<now, spent, hourly>>
  BY <1>1 DEF SetExecutorLimits, WithLimits, LimitsAccepted, LedgerInv, TypeOK, ExecutorLimits
<1>3. TypeOK'
  BY <1>2 DEF LedgerInv, TypeOK
<1>4. NoFutureEpoch' /\ NoFutureCharge'
  BY <1>2 DEF LedgerInv, NoFutureEpoch, NoFutureCharge
<1>5. LedgerExact'
  BY <1>2 DEF LedgerInv, LedgerExact, RingVolume, WindowHours
<1>. QED
  BY <1>3, <1>4, <1>5 DEF LedgerInv

(* A charge is added to its own hour, and evicts no hour that still counts. *)
LEMMA ChargeKeepsLedger ==
  ASSUME LedgerInv, NEW moved \in Amounts, NEW p \in Principals \cup {NoPrincipal},
         ChargeVolume(moved, p)
  PROVE  LedgerInv'
<1>1. /\ moved \in Nat /\ now \in Times /\ limits \in ExecutorLimits
      /\ spent \in [Times -> Nat] /\ hourly \in [Hours -> Nat]
  BY LedgerAssumption DEF LedgerInv, TypeOK
<1>h. PICK hour \in Hours : hour = HourOf(now)
  BY <1>1, HourInRange
<1>. DEFINE bucket == BucketOf(hour)
<1>n. now \in Nat /\ hour \in Nat /\ bucket \in Buckets
  BY <1>1, BucketInRing DEF Times, Hours
<1>. HIDE DEF bucket
<1>2. ChargesOnly(limits, limits', moved, hour)
  BY <1>1, <1>h, <1>n, ChargedType DEF ChargeVolume
<1>3. /\ now' = now
      /\ spent' = [spent EXCEPT ![now] = @ + moved]
      /\ hourly' = [hourly EXCEPT ![hour] = @ + moved]
  BY <1>h DEF ChargeVolume
<1>4. TypeOK'
  BY <1>1, <1>h, <1>n, <1>2, <1>3 DEF TypeOK, LedgerInv, ChargesOnly
<1>5. limits.hour_epoch \in [Buckets -> Nat] /\ limits'.hour_epoch \in [Buckets -> Nat]
  BY <1>1, <1>h, <1>n, <1>2 DEF ExecutorLimits, ChargesOnly, bucket
<1>6. NoFutureEpoch'
  BY <1>1, <1>h, <1>n, <1>2, <1>3, <1>5 DEF NoFutureEpoch, LedgerInv, ChargesOnly, bucket
<1>7. NoFutureCharge'
  BY <1>1, <1>h, <1>n, <1>3 DEF NoFutureCharge, LedgerInv
<1>8. LedgerExact'
  <2>. SUFFICES ASSUME NEW h \in WindowHours PROVE RingVolume(h)' = hourly'[h]
    BY <1>3 DEF LedgerExact, WindowHours
  <2>1. /\ h \in Nat /\ h \in Hours /\ h <= hour /\ hour - h < EXECUTOR_VOLUME_HOURS
        /\ BucketOf(h) \in Buckets
        /\ RingVolume(h) = hourly[h]
    BY <1>1, <1>h, <1>n, BucketInRing, PolicyAssumption, LedgerAssumption
    DEF WindowHours, Hours, LedgerInv, LedgerExact
  <2>2. CASE h = hour
    <3>1. limits'.hour_epoch[bucket] = hour
      BY <1>1, <1>h, <1>n, <1>2, <1>5 DEF ChargesOnly, bucket
    <3>2. RingVolume(hour)' = moved + RingVolume(hour)
      BY <1>2, <3>1 DEF RingVolume, bucket, ChargesOnly
    <3>3. hourly'[hour] = moved + hourly[hour]
      BY <1>1, <1>h, <1>n, <1>3
    <3>. QED
      BY <2>1, <2>2, <3>2, <3>3
  <2>3. CASE h # hour
    <3>1. BucketOf(h) # bucket
      BY <1>1, <1>h, <1>n, <2>1, <2>3, NearHoursDiffer DEF bucket
    <3>2. /\ limits'.hour_epoch[BucketOf(h)] = limits.hour_epoch[BucketOf(h)]
          /\ limits'.hour_volume[BucketOf(h)] = limits.hour_volume[BucketOf(h)]
      BY <1>1, <1>h, <1>n, <1>2, <1>5, <2>1, <3>1 DEF ChargesOnly, bucket
    <3>3. RingVolume(h)' = RingVolume(h)
      BY <3>2 DEF RingVolume
    <3>4. hourly'[h] = hourly[h]
      BY <1>1, <1>h, <1>n, <1>3, <2>1, <2>3
    <3>. QED
      BY <2>1, <3>3, <3>4
  <2>. QED
    BY <2>2, <2>3
<1>. QED
  BY <1>4, <1>6, <1>7, <1>8 DEF LedgerInv

(* When an hour begins, the ring holds nothing for it and nothing moved in *)
(* it yet; the other hours that count were counted before.                 *)
LEMMA TickKeepsLedger == LedgerInv /\ Tick => LedgerInv'
<1>. SUFFICES ASSUME LedgerInv, Tick PROVE LedgerInv'
  OBVIOUS
<1>. DEFINE hour == HourOf(now)
            next == HourOf(now + 1)
<1>1. /\ now \in Nat /\ now + 1 \in Times /\ hour \in Nat /\ next \in Nat /\ next \in Hours
      /\ limits.hour_epoch \in [Buckets -> Nat]
      /\ now' = now + 1 /\ limits' = limits /\ spent' = spent /\ hourly' = hourly
  <2>1. now \in Nat /\ now + 1 \in Times
    BY DEF LedgerInv, TypeOK, Tick, Times
  <2>2. hour \in Hours /\ next \in Hours
    BY <2>1, HourInRange DEF LedgerInv, TypeOK
  <2>. QED
    BY <2>1, <2>2, LedgerAssumption DEF Hours, Tick, LedgerInv, TypeOK, ExecutorLimits
<1>2. next = hour \/ next = hour + 1
  BY <1>1, TickHour
<1>3. HourOf(now)' = next
  BY <1>1
<1>. HIDE DEF hour, next
<1>4. TypeOK'
  BY <1>1 DEF TypeOK, LedgerInv
<1>5. NoFutureEpoch'
  BY <1>1, <1>2, <1>3 DEF NoFutureEpoch, LedgerInv, hour
<1>6. NoFutureCharge'
  BY <1>1, <1>2, <1>3, LedgerAssumption DEF NoFutureCharge, LedgerInv, Hours, hour
<1>7. LedgerExact'
  <2>. SUFFICES ASSUME NEW h \in Hours, h > next - EXECUTOR_VOLUME_HOURS, h <= next
                PROVE  RingVolume(h)' = hourly'[h]
    BY <1>3 DEF LedgerExact, WindowHours
  <2>1. RingVolume(h)' = RingVolume(h) /\ hourly'[h] = hourly[h]
    BY <1>1 DEF RingVolume
  <2>2. CASE h <= hour
    <3>1. h \in WindowHours
      BY <1>1, <1>2, <2>2, PolicyAssumption, LedgerAssumption DEF WindowHours, Hours, hour
    <3>. QED
      BY <2>1, <3>1 DEF LedgerInv, LedgerExact
  <2>3. CASE h > hour
    <3>1. h \in Nat /\ BucketOf(h) \in Buckets
      BY LedgerAssumption, BucketInRing DEF Hours
    <3>2. limits.hour_epoch[BucketOf(h)] # h
      BY <1>1, <2>3, <3>1 DEF LedgerInv, NoFutureEpoch, hour
    <3>3. RingVolume(h) = 0
      BY <3>2 DEF RingVolume
    <3>4. hourly[h] = 0
      BY <2>3 DEF LedgerInv, NoFutureCharge, hour
    <3>. QED
      BY <2>1, <3>3, <3>4
  <2>. QED
    BY <1>1, <2>2, <2>3, LedgerAssumption DEF Hours
<1>. QED
  BY <1>4, <1>5, <1>6, <1>7 DEF LedgerInv

LEMMA LedgerStep == LedgerInv /\ [Next]_vars => LedgerInv'
<1>. SUFFICES ASSUME LedgerInv, [Next]_vars PROVE LedgerInv'
  OBVIOUS
<1>1. ASSUME NEW a \in LimitValues, NEW v \in LimitValues, NEW p \in LimitValues,
             NEW enabled \in BOOLEAN, SetExecutorLimits(a, v, p, enabled)
      PROVE  LedgerInv'
  BY <1>1, SetLimitsKeepsLedger
<1>2. ASSUME NEW moved \in Amounts, NEW p \in Principals \cup {NoPrincipal},
             ChargeVolume(moved, p)
      PROVE  LedgerInv'
  BY <1>2, ChargeKeepsLedger
<1>3. CASE Tick
  BY <1>3, TickKeepsLedger
<1>4. CASE UNCHANGED vars
  BY <1>4 DEF vars, LedgerInv, TypeOK, NoFutureEpoch, NoFutureCharge, LedgerExact,
              RingVolume, WindowHours
<1>. QED
  BY <1>1, <1>2, <1>3, <1>4 DEF Next

LEMMA LedgerAlways == Spec => []LedgerInv
BY LedgerInit, LedgerStep, PTL DEF Spec

(* Every value of the account and of the clock is of its type, and enabled *)
(* limits always admit an action of the largest permitted size             *)
(* (set_executor_limits).                                                  *)
THEOREM LedgerTypeCorrect == Spec => []TypeOK
BY LedgerAlways, PTL DEF LedgerInv

(* charge_volume: for the current hour and all those before it that count  *)
(* against the 24-hour limit, the ring holds exactly what the executor     *)
(* moved, with any number of buckets, any hour length and any limits.      *)
THEOREM LedgerIsExact == Spec => []LedgerExact
BY LedgerAlways, PTL DEF LedgerInv
-----------------------------------------------------------------------------
(* From the ring to the clock: what the sums of charge_volume stand for.    *)
(* Beside LedgerInv this needs that the two histories agree, that nothing  *)
(* is spent ahead of the clock, and that a bucket which was ever claimed   *)
(* holds an hour that maps to it.                                          *)

TicksOf(hour) == {t \in Times : HourOf(t) = hour}

HoursAddUp == \A h \in Hours : hourly[h] = SumOf(spent, TicksOf(h))
NoFutureSpending == \A t \in Times : t > now => spent[t] = 0
ClaimedInPlace == \A i \in Buckets : limits.hour_epoch[i] = 0 \/ BucketOf(limits.hour_epoch[i]) = i
Started == now >= FirstHour * SECONDS_PER_HOUR
HistoryInv == HoursAddUp /\ NoFutureSpending /\ ClaimedInPlace /\ Started

LEMMA TimesFinite == IsFiniteSet(Times) /\ Times \subseteq Nat
<1>1. (LastHour + 1) * SECONDS_PER_HOUR - 1 \in Int
  BY PolicyAssumption, LedgerAssumption
<1>. QED
  BY <1>1, FS_Interval DEF Times

LEMMA TicksFinite ==
  ASSUME NEW hour
  PROVE  IsFiniteSet(TicksOf(hour)) /\ TicksOf(hour) \subseteq Times
BY TimesFinite, FS_Subset DEF TicksOf

(* The ticks of an hour, and those a whole number of hours apart.          *)
LEMMA HourBounds ==
  ASSUME NEW t \in Nat
  PROVE  /\ HourOf(t) \in Nat
         /\ HourOf(t) * SECONDS_PER_HOUR <= t
         /\ t < (HourOf(t) + 1) * SECONDS_PER_HOUR
BY PolicyAssumption DEF HourOf

LEMMA HoursApart ==
  ASSUME NEW early \in Nat, NEW late \in Nat, NEW n \in Nat,
         early > late - n * SECONDS_PER_HOUR
  PROVE  HourOf(early) >= HourOf(late) - n
<1>. DEFINE S == SECONDS_PER_HOUR
            a == HourOf(early)
            b == HourOf(late)
<1>1. S \in Nat \ {0}
  BY PolicyAssumption
<1>2. a \in Nat /\ b \in Nat /\ early < (a + 1) * S /\ b * S <= late
  BY HourBounds
<1>3. SUFFICES ASSUME a + 1 <= b - n PROVE FALSE
  BY <1>2
<1>. HIDE DEF S, a, b
<1>4. (a + 1) * S <= (b - n) * S
  BY <1>1, <1>2, <1>3
<1>5. (b - n) * S = b * S - n * S
  BY <1>1, <1>2
<1>. QED
  BY <1>1, <1>2, <1>4, <1>5 DEF S

LEMMA HoursNear ==
  ASSUME NEW early \in Nat, NEW late \in Nat, NEW n \in Nat,
         HourOf(early) >= HourOf(late) - n
  PROVE  early >= late - n * SECONDS_PER_HOUR - SECONDS_PER_HOUR + 1
<1>. DEFINE S == SECONDS_PER_HOUR
            a == HourOf(early)
            b == HourOf(late)
<1>1. S \in Nat \ {0}
  BY PolicyAssumption
<1>2. a \in Nat /\ b \in Nat /\ a * S <= early /\ late < (b + 1) * S
  BY HourBounds
<1>3. a >= b - n
  OBVIOUS
<1>. HIDE DEF S, a, b
<1>4. (b - n) * S <= a * S
  BY <1>1, <1>2, <1>3
<1>5. (b - n) * S = b * S - n * S /\ (b + 1) * S = b * S + S
  BY <1>1, <1>2
<1>. QED
  BY <1>1, <1>2, <1>4, <1>5 DEF S

LEMMA EarlierTickEarlierHour ==
  ASSUME NEW early \in Nat, NEW late \in Nat, early <= late
  PROVE  HourOf(early) <= HourOf(late)
<1>1. late > early - 1 * SECONDS_PER_HOUR
  BY PolicyAssumption
<1>. DEFINE S == SECONDS_PER_HOUR
            a == HourOf(early)
            b == HourOf(late)
<1>2. S \in Nat \ {0} /\ a \in Nat /\ b \in Nat /\ a * S <= early /\ late < (b + 1) * S
  BY PolicyAssumption, HourBounds
<1>3. SUFFICES ASSUME b + 1 <= a PROVE FALSE
  BY <1>2
<1>. HIDE DEF S, a, b
<1>4. (b + 1) * S <= a * S
  BY <1>2, <1>3
<1>. QED
  BY <1>2, <1>4

LEMMA HistoryInit == Init => HistoryInv
<1>. SUFFICES ASSUME Init PROVE HistoryInv
  OBVIOUS
<1>1. \A t \in Times : spent[t] = 0
  BY DEF Init
<1>2. HoursAddUp
  <2>. SUFFICES ASSUME NEW h \in Hours PROVE SumOf(spent, TicksOf(h)) = 0
    BY DEF HoursAddUp, Init
  <2>1. SumOf(spent, {}) = SumOf(spent, TicksOf(h))
    <3>1. /\ \A t \in TicksOf(h) : spent[t] \in Int
          /\ \A t \in TicksOf(h) \ {} : spent[t] = 0
      BY <1>1, TicksFinite
    <3>2. {} \subseteq TicksOf(h)
      OBVIOUS
    <3>. QED
      BY <3>1, <3>2, TicksFinite, SumIgnoresZeros
  <2>. QED
    BY <2>1, SumEmpty
<1>3. NoFutureSpending
  BY <1>1 DEF NoFutureSpending
<1>4. ClaimedInPlace
  BY DEF Init, NoLimits, ZeroLedger, ClaimedInPlace
<1>5. Started
  BY PolicyAssumption, LedgerAssumption DEF Started, Init
<1>. QED
  BY <1>2, <1>3, <1>4, <1>5 DEF HistoryInv

LEMMA ChargeKeepsHistory ==
  ASSUME LedgerInv, HistoryInv, NEW moved \in Amounts, NEW p \in Principals \cup {NoPrincipal},
         ChargeVolume(moved, p)
  PROVE  HistoryInv'
<1>1. /\ moved \in Nat /\ now \in Times /\ now \in Nat /\ limits \in ExecutorLimits
      /\ spent \in [Times -> Nat] /\ hourly \in [Hours -> Nat]
      /\ HourOf(now) \in Hours /\ HourOf(now) \in Nat
  BY LedgerAssumption, TimesFinite, HourInRange, HourBounds DEF LedgerInv, TypeOK
<1>2. ChargesOnly(limits, limits', moved, HourOf(now))
  BY <1>1, ChargedType DEF ChargeVolume
<1>3. /\ now' = now
      /\ spent' = [spent EXCEPT ![now] = @ + moved]
      /\ hourly' = [hourly EXCEPT ![HourOf(now)] = @ + moved]
  BY DEF ChargeVolume
<1>4. HoursAddUp'
  <2>. SUFFICES ASSUME NEW h \in Hours PROVE hourly'[h] = SumOf(spent', TicksOf(h))
    BY DEF HoursAddUp, TicksOf
  <2>1. /\ hourly[h] = SumOf(spent, TicksOf(h))
        /\ \A t \in TicksOf(h) : spent[t] \in Int
    <3>1. hourly[h] = SumOf(spent, TicksOf(h))
      BY DEF HistoryInv, HoursAddUp
    <3>2. \A t \in Times : spent[t] \in Int
      BY <1>1
    <3>. QED
      BY <3>1, <3>2, TicksFinite
  <2>2. CASE h = HourOf(now)
    <3>1. /\ now \in TicksOf(h)
          /\ spent'[now] = spent[now] + moved
          /\ \A t \in TicksOf(h) \ {now} : spent'[t] = spent[t]
      BY <1>1, <1>3, <2>2, TicksFinite DEF TicksOf
    <3>2. moved \in Int
      BY <1>1
    <3>3. SumOf(spent', TicksOf(h)) = SumOf(spent, TicksOf(h)) + moved
      BY <2>1, <3>1, <3>2, TicksFinite, SumUpdate
    <3>. QED
      BY <1>1, <1>3, <2>1, <2>2, <3>3
  <2>3. CASE h # HourOf(now)
    <3>1. \A t \in TicksOf(h) : spent[t] = spent'[t]
      BY <1>1, <1>3, <2>3 DEF TicksOf
    <3>2. SumOf(spent, TicksOf(h)) = SumOf(spent', TicksOf(h))
      BY <3>1, TicksFinite, SumAgree
    <3>. QED
      BY <1>1, <1>3, <2>1, <2>3, <3>2
  <2>. QED
    BY <2>2, <2>3
<1>5. NoFutureSpending'
  BY <1>1, <1>3, TimesFinite DEF HistoryInv, NoFutureSpending
<1>6. ClaimedInPlace'
  BY <1>1, <1>2, BucketInRing DEF HistoryInv, ClaimedInPlace, ChargesOnly, ExecutorLimits
<1>7. Started'
  BY <1>3 DEF HistoryInv, Started
<1>. QED
  BY <1>4, <1>5, <1>6, <1>7 DEF HistoryInv

LEMMA HistoryStep == LedgerInv /\ HistoryInv /\ [Next]_vars => HistoryInv'
<1>. SUFFICES ASSUME LedgerInv, HistoryInv, [Next]_vars PROVE HistoryInv'
  OBVIOUS
<1>1. ASSUME NEW a \in LimitValues, NEW v \in LimitValues, NEW p \in LimitValues,
             NEW enabled \in BOOLEAN, SetExecutorLimits(a, v, p, enabled)
      PROVE  HistoryInv'
  <2>1. limits'.hour_epoch = limits.hour_epoch /\ UNCHANGED <<now, spent, hourly>>
    BY <1>1 DEF SetExecutorLimits, WithLimits, LedgerInv, TypeOK, ExecutorLimits
  <2>. QED
    BY <2>1 DEF HistoryInv, HoursAddUp, NoFutureSpending, ClaimedInPlace, Started, TicksOf
<1>2. ASSUME NEW moved \in Amounts, NEW p \in Principals \cup {NoPrincipal},
             ChargeVolume(moved, p)
      PROVE  HistoryInv'
  BY <1>2, ChargeKeepsHistory
<1>3. CASE Tick
  <2>1. now \in Nat /\ now' = now + 1 /\ UNCHANGED <<limits, spent, hourly>>
    BY <1>3, TimesFinite DEF Tick, LedgerInv, TypeOK
  <2>2. NoFutureSpending'
    BY <2>1, TimesFinite DEF HistoryInv, NoFutureSpending
  <2>3. Started'
    BY <2>1, PolicyAssumption, LedgerAssumption DEF HistoryInv, Started
  <2>. QED
    BY <2>1, <2>2, <2>3 DEF HistoryInv, HoursAddUp, ClaimedInPlace, TicksOf
<1>4. CASE UNCHANGED vars
  BY <1>4 DEF vars, HistoryInv, HoursAddUp, NoFutureSpending, ClaimedInPlace, Started, TicksOf
<1>. QED
  BY <1>1, <1>2, <1>3, <1>4 DEF Next

(* The volume charge_volume counts is a sum over clock ticks: those of the *)
(* window's hours that own their bucket.                                   *)
OwnsBucket(hour) ==
  Rolled(limits, HourOf(now)).hour_epoch[BucketOf(hour)] = hour

CountedTicks == {t \in Times : HourOf(t) \in WindowHours /\ OwnsBucket(HourOf(t))}

LEMMA CountedIsSum ==
  ASSUME LedgerInv, HistoryInv
  PROVE  PreviousVolume(limits, HourOf(now)) = SumOf(spent, CountedTicks)
<1>h. PICK hour \in Hours : hour = HourOf(now)
  BY HourInRange DEF LedgerInv, TypeOK
<1>1. /\ limits \in ExecutorLimits /\ hour \in Nat /\ now \in Times
      /\ spent \in [Times -> Nat] /\ hourly \in [Hours -> Nat]
      /\ Hours \subseteq Nat
  BY LedgerAssumption DEF LedgerInv, TypeOK, Hours
<1>2. hour >= EXECUTOR_VOLUME_HOURS
  <2>1. now \in Nat /\ now >= FirstHour * SECONDS_PER_HOUR
    BY <1>1, TimesFinite DEF HistoryInv, Started
  <2>2. FirstHour * SECONDS_PER_HOUR \in Nat
    BY PolicyAssumption, LedgerAssumption
  <2>3. HourOf(FirstHour * SECONDS_PER_HOUR) = FirstHour
    BY PolicyAssumption, LedgerAssumption DEF HourOf
  <2>4. FirstHour <= hour
    BY <1>h, <2>1, <2>2, <2>3, EarlierTickEarlierHour
  <2>. QED
    BY <1>1, <2>4, PolicyAssumption, LedgerAssumption
<1>. DEFINE bucket == BucketOf(hour)
            rolled == Rolled(limits, hour)
            window == InWindow(rolled, hour)
            key == [t \in CountedTicks |-> BucketOf(HourOf(t))]
<1>3. bucket \in Buckets
  BY <1>1, BucketInRing
<1>4. /\ rolled.hour_epoch = [limits.hour_epoch EXCEPT ![bucket] = hour]
      /\ \A i \in Buckets : i # bucket => rolled.hour_volume[i] = limits.hour_volume[i]
      /\ rolled.hour_volume[bucket] =
           IF limits.hour_epoch[bucket] = hour THEN limits.hour_volume[bucket] ELSE 0
      /\ limits.hour_epoch \in [Buckets -> Nat]
  BY <1>1, RolledType DEF ExecutorLimits
<1>. HIDE DEF rolled
<1>5. ASSUME NEW i \in window
      PROVE  /\ i \in Buckets /\ rolled.hour_epoch[i] \in WindowHours
             /\ BucketOf(rolled.hour_epoch[i]) = i
             /\ rolled.hour_volume[i] = hourly[rolled.hour_epoch[i]]
  <2>1. /\ i \in Buckets
        /\ rolled.hour_epoch[i] >= hour - (EXECUTOR_VOLUME_HOURS - 1)
        /\ rolled.hour_epoch[i] <= hour
    BY DEF InWindow
  <2>2. rolled.hour_epoch[i] \in Nat /\ rolled.hour_epoch[i] # 0
    BY <1>1, <1>2, <1>3, <1>4, <2>1, PolicyAssumption
  <2>3. rolled.hour_epoch[i] \in WindowHours
    BY <1>h, <1>1, <2>1, <2>2, PolicyAssumption, LedgerAssumption DEF WindowHours, Hours
  <2>4. RingVolume(rolled.hour_epoch[i]) = hourly[rolled.hour_epoch[i]]
    BY <2>3 DEF LedgerInv, LedgerExact
  <2>5. CASE i = bucket
    <3>1. rolled.hour_epoch[i] = hour
      BY <1>3, <1>4, <2>5
    <3>2. rolled.hour_volume[i] = RingVolume(hour)
      BY <1>4, <2>5 DEF RingVolume
    <3>. QED
      BY <2>1, <2>3, <2>4, <2>5, <3>1, <3>2
  <2>6. CASE i # bucket
    <3>1. rolled.hour_epoch[i] = limits.hour_epoch[i]
      BY <1>3, <1>4, <2>1, <2>6
    <3>2. BucketOf(limits.hour_epoch[i]) = i
      BY <2>1, <2>2, <3>1 DEF HistoryInv, ClaimedInPlace
    <3>3. rolled.hour_volume[i] = RingVolume(limits.hour_epoch[i])
      BY <1>4, <2>1, <2>6, <3>2 DEF RingVolume
    <3>. QED
      BY <2>1, <2>3, <2>4, <3>1, <3>2, <3>3
  <2>. QED
    BY <2>5, <2>6
<1>6. \A i \in window : rolled.hour_volume[i] = SumOf(spent, WithKey(CountedTicks, key, i))
  <2>. SUFFICES ASSUME NEW i \in window
                PROVE  rolled.hour_volume[i] = SumOf(spent, WithKey(CountedTicks, key, i))
    OBVIOUS
  <2>1. hourly[rolled.hour_epoch[i]] = SumOf(spent, TicksOf(rolled.hour_epoch[i]))
    BY <1>5 DEF HistoryInv, HoursAddUp, WindowHours
  <2>2. WithKey(CountedTicks, key, i) = TicksOf(rolled.hour_epoch[i])
    BY <1>h, <1>5 DEF WithKey, CountedTicks, TicksOf, OwnsBucket, rolled
  <2>. QED
    BY <1>5, <2>1, <2>2
<1>7. \A t \in CountedTicks : key[t] \in window
  <2>. SUFFICES ASSUME NEW t \in CountedTicks PROVE BucketOf(HourOf(t)) \in window
    OBVIOUS
  <2>1. /\ HourOf(t) \in Nat /\ HourOf(t) > hour - EXECUTOR_VOLUME_HOURS /\ HourOf(t) <= hour
        /\ rolled.hour_epoch[BucketOf(HourOf(t))] = HourOf(t)
    BY <1>h, <1>1 DEF CountedTicks, WindowHours, OwnsBucket, rolled
  <2>2. BucketOf(HourOf(t)) \in Buckets
    BY <2>1, BucketInRing
  <2>. QED
    BY <1>1, <2>1, <2>2, PolicyAssumption DEF InWindow
<1>8. /\ IsFiniteSet(CountedTicks) /\ \A t \in CountedTicks : spent[t] \in Int
      /\ IsFiniteSet(window)
  BY <1>1, TimesFinite, BucketsFinite, FS_Subset DEF CountedTicks, InWindow
<1>9. SumOf(spent, CountedTicks) = SumOf(rolled.hour_volume, window)
  <2>1. PICK k : k = key
    OBVIOUS
  <2>2. PICK w : w = window
    OBVIOUS
  <2>3. PICK v : v = rolled.hour_volume
    OBVIOUS
  <2>4. /\ \A t \in CountedTicks : k[t] \in w
        /\ \A i \in w : v[i] = SumOf(spent, WithKey(CountedTicks, k, i))
        /\ IsFiniteSet(w)
    BY <1>6, <1>7, <1>8, <2>1, <2>2, <2>3
  <2>5. SumOf(spent, CountedTicks) = SumOf(v, w)
    <3>. HIDE DEF key, window
    <3>. QED
      BY <1>8, <2>4, SumByKey
  <2>. QED
    BY <2>2, <2>3, <2>5
<1>. QED
  BY <1>h, <1>9, PreviousVolumeIsSum DEF rolled

(* An hour of the window that owns no bucket saw no spending.              *)
LEMMA UncountedIsZero ==
  ASSUME LedgerInv, HistoryInv, NEW t \in Times, HourOf(t) \in WindowHours, t \notin CountedTicks
  PROVE  spent[t] = 0
<1>. DEFINE h == HourOf(t)
            hour == HourOf(now)
<1>1. /\ limits \in ExecutorLimits /\ hour \in Nat /\ h \in Nat /\ h \in Hours /\ h <= hour
      /\ hour - h < EXECUTOR_VOLUME_HOURS
      /\ spent \in [Times -> Nat] /\ t \in TicksOf(h)
  BY HourBounds, TimesFinite, PolicyAssumption DEF LedgerInv, TypeOK, WindowHours, TicksOf
<1>2. ~OwnsBucket(h)
  BY DEF CountedTicks
<1>3. /\ Rolled(limits, hour).hour_epoch = [limits.hour_epoch EXCEPT ![BucketOf(hour)] = hour]
      /\ limits.hour_epoch \in [Buckets -> Nat]
      /\ BucketOf(hour) \in Buckets /\ BucketOf(h) \in Buckets
  BY <1>1, RolledType, BucketInRing DEF ExecutorLimits
<1>. HIDE DEF h, hour
<1>4. h # hour
  BY <1>2, <1>3 DEF OwnsBucket, h, hour
<1>5. limits.hour_epoch[BucketOf(h)] # h
  <2>1. BucketOf(h) # BucketOf(hour)
    BY <1>1, <1>4, NearHoursDiffer
  <2>. QED
    BY <1>2, <1>3, <2>1 DEF OwnsBucket, hour
<1>6. SumOf(spent, TicksOf(h)) = 0
  BY <1>1, <1>5 DEF RingVolume, LedgerInv, LedgerExact, HistoryInv, HoursAddUp, h
<1>7. \A x \in TicksOf(h) : spent[x] \in Nat
  BY <1>1, TicksFinite
<1>8. SumOf(spent, TicksOf(h)) = spent[t] + SumOf(spent, TicksOf(h) \ {t})
  BY <1>1, <1>7, TicksFinite, SumRemove
<1>9. SumOf(spent, TicksOf(h) \ {t}) \in Nat
  BY <1>7, TicksFinite, SumMonotone
<1>. QED
  BY <1>1, <1>6, <1>7, <1>8, <1>9

LEMMA SpentSinceIsSum ==
  ASSUME NEW tick
  PROVE  SpentSince(tick) = SumOf(spent, {t \in Times : t >= tick /\ t <= now})
BY DEF SpentSince, SumOf, MapThenSumSet, MapThenFoldSet

LEMMA SandwichHolds == LedgerInv /\ HistoryInv => WindowSandwich
<1>. SUFFICES ASSUME LedgerInv, HistoryInv PROVE WindowSandwich
  OBVIOUS
<1>. DEFINE from == now - Window + 1
            early == now - Window - SECONDS_PER_HOUR + 1
            A == {t \in Times : t >= from /\ t <= now}
            B == {t \in Times : t >= early /\ t <= now}
            past == {t \in CountedTicks : t <= now}
            n == EXECUTOR_VOLUME_HOURS - 1
<1>1. /\ now \in Nat /\ spent \in [Times -> Nat] /\ n \in Nat /\ SECONDS_PER_HOUR \in Nat
      /\ Window = n * SECONDS_PER_HOUR /\ Window \in Nat /\ HourOf(now) \in Nat
  BY TimesFinite, PolicyAssumption, HourBounds DEF LedgerInv, TypeOK, Window
<1>2. /\ CountedTicks \subseteq Times /\ IsFiniteSet(CountedTicks)
      /\ IsFiniteSet(A) /\ IsFiniteSet(B)
      /\ \A t \in Times : spent[t] \in Nat /\ t \in Nat
  BY <1>1, TimesFinite, FS_Subset DEF CountedTicks
<1>3. \A t \in A : HourOf(t) \in WindowHours
  <2>. SUFFICES ASSUME NEW t \in A PROVE HourOf(t) \in WindowHours
    OBVIOUS
  <2>1. t \in Nat /\ t \in Times /\ t <= now /\ t > now - n * SECONDS_PER_HOUR
    BY <1>1, <1>2
  <2>2. HourOf(t) \in Hours /\ HourOf(t) \in Nat
    BY <2>1, HourInRange, HourBounds
  <2>. HIDE DEF n
  <2>3. HourOf(t) >= HourOf(now) - n /\ HourOf(t) <= HourOf(now)
    BY <1>1, <2>1, HoursApart, EarlierTickEarlierHour
  <2>. QED
    BY <1>1, <2>2, <2>3, PolicyAssumption DEF WindowHours, n
<1>4. SumOf(spent, A) <= SumOf(spent, CountedTicks)
  <2>. DEFINE both == A \cap CountedTicks
  <2>1. \A t \in A \ both : spent[t] = 0
    BY <1>3, UncountedIsZero
  <2>2. both \subseteq A /\ both \subseteq CountedTicks /\ A \subseteq Times
        /\ \A t \in A : spent[t] \in Int
    BY <1>2
  <2>. HIDE DEF both, A
  <2>3. SumOf(spent, both) = SumOf(spent, A)
    BY <1>2, <2>1, <2>2, SumIgnoresZeros
  <2>4. SumOf(spent, both) <= SumOf(spent, CountedTicks)
    <3>1. \A t \in CountedTicks : spent[t] \in Nat
      BY <1>2
    <3>. QED
      BY <1>2, <2>2, <3>1, SumMonotone
  <2>. QED
    BY <2>3, <2>4
<1>5. SumOf(spent, CountedTicks) <= SumOf(spent, B)
  <2>1. past \subseteq B
    <3>. SUFFICES ASSUME NEW t \in past PROVE t >= early
      BY <1>2
    <3>1. t \in Nat /\ HourOf(t) \in Nat /\ HourOf(t) >= HourOf(now) - n
      BY <1>1, <1>2, HourBounds, PolicyAssumption DEF CountedTicks, WindowHours
    <3>. HIDE DEF n
    <3>2. t >= now - n * SECONDS_PER_HOUR - SECONDS_PER_HOUR + 1
      BY <1>1, <3>1, HoursNear
    <3>. QED
      BY <1>1, <3>2
  <2>2. \A t \in CountedTicks \ past : spent[t] = 0
    BY <1>1, <1>2 DEF HistoryInv, NoFutureSpending
  <2>3. /\ past \subseteq CountedTicks /\ \A t \in CountedTicks : spent[t] \in Int
        /\ \A t \in B : spent[t] \in Nat
    BY <1>2
  <2>. HIDE DEF past, B
  <2>4. SumOf(spent, past) = SumOf(spent, CountedTicks)
    BY <1>2, <2>2, <2>3, SumIgnoresZeros
  <2>5. SumOf(spent, past) <= SumOf(spent, B)
    BY <1>2, <2>1, <2>3, SumMonotone
  <2>. QED
    BY <2>4, <2>5
<1>. QED
  BY <1>4, <1>5, CountedIsSum, SpentSinceIsSum DEF WindowSandwich

LEMMA HistoryAlways == Spec => [](LedgerInv /\ HistoryInv)
BY LedgerInit, LedgerStep, HistoryInit, HistoryStep, PTL DEF Spec

(* charge_volume: "Whole hourly buckets can make the window up to one hour *)
(* longer, never shorter": the volume counted against the 24-hour limit    *)
(* lies between what moved in the exact last Window ticks and what moved   *)
(* in that and one hour more, with any number of buckets and any hours.    *)
THEOREM WindowIsSandwiched == Spec => []WindowSandwich
BY HistoryAlways, SandwichHolds, PTL

-----------------------------------------------------------------------------
(* The account implements the exact rolling budget. *)

LEMMA BudgetInit == Init => Budget!Init
<1>. SUFFICES ASSUME Init PROVE Budget!Init
  OBVIOUS
<1>1. now \in Times
  BY LedgerInit DEF LedgerInv, TypeOK
<1>. QED
  BY <1>1 DEF Init, Budget!Init, NoLimits

LEMMA BudgetSpentIn ==
  ASSUME LedgerInv
  PROVE  Budget!SpentIn(Budget!LastWindow) = SpentSince(now - Window + 1)
<1>1. now \in Nat /\ Window \in Nat /\ Times \subseteq Nat
  BY TimesFinite, PolicyAssumption DEF LedgerInv, TypeOK, Window
<1>2. \A t \in Times : t > now - Window <=> t >= now - Window + 1
  BY <1>1
<1>3. Budget!LastWindow = {t \in Times : t >= now - Window + 1 /\ t <= now}
  BY <1>2 DEF Budget!LastWindow
<1>4. PICK ticks : ticks = Budget!LastWindow
  OBVIOUS
<1>5. Budget!SpentIn(ticks) = SumOf(spent, ticks)
  BY DEF Budget!SpentIn, Budget!MapThenSumSet, Budget!MapThenFoldSet,
         SumOf, MapThenSumSet, MapThenFoldSet
<1>. QED
  BY <1>3, <1>4, <1>5, SpentSinceIsSum, Zenon

LEMMA BudgetStep == LedgerInv /\ HistoryInv /\ [Next]_vars => [Budget!Next]_(Budget!vars)
<1>. SUFFICES ASSUME LedgerInv, HistoryInv, [Next]_vars PROVE [Budget!Next]_(Budget!vars)
  OBVIOUS
<1>. DEFINE cap == IF limits.enabled THEN limits.max_24h_volume_usdc ELSE 0
<1>1. ASSUME NEW a \in LimitValues, NEW v \in LimitValues, NEW p \in LimitValues,
             NEW enabled \in BOOLEAN, SetExecutorLimits(a, v, p, enabled)
      PROVE  Budget!SetCap
  <2>1. cap' \in Nat
    <3>1. limits' \in ExecutorLimits
      BY <1>1, SetLimitsKeepsLedger DEF LedgerInv, TypeOK
    <3>. QED
      BY <3>1 DEF ExecutorLimits
  <2>. QED
    BY <1>1, <2>1 DEF Budget!SetCap, SetExecutorLimits
<1>2. ASSUME NEW moved \in Amounts, NEW p \in Principals \cup {NoPrincipal},
             ChargeVolume(moved, p)
      PROVE  Budget!Spend(moved)
  <2>1. /\ moved \in Nat /\ limits \in ExecutorLimits /\ now \in Nat /\ HourOf(now) \in Nat
    BY LedgerAssumption, TimesFinite, HourBounds DEF LedgerInv, TypeOK
  <2>2. ChargesOnly(limits, limits', moved, HourOf(now))
    BY <1>2, <2>1, ChargedType DEF ChargeVolume
  <2>3. cap' = cap
    BY <2>2 DEF ChargesOnly
  <2>4. PreviousVolume(limits, HourOf(now)) + moved <= cap
    BY <1>2 DEF ChargeVolume, ChargeAccepted
  <2>5. SpentSince(now - Window + 1) <= PreviousVolume(limits, HourOf(now))
    BY SandwichHolds DEF WindowSandwich
  <2>6. SpentSince(now - Window + 1) \in Nat /\ PreviousVolume(limits, HourOf(now)) \in Nat
        /\ cap \in Nat
    <3>1. /\ {t \in Times : t >= now - Window + 1 /\ t <= now} \subseteq Times
          /\ \A t \in Times : spent[t] \in Nat
      BY DEF LedgerInv, TypeOK
    <3>2. SpentSince(now - Window + 1) \in Nat
      BY <3>1, TimesFinite, SumMonotone, SpentSinceIsSum
    <3>. QED
      BY <2>1, <3>2, PreviousVolumeType DEF ExecutorLimits
  <2>7. Budget!SpentIn(Budget!LastWindow) + moved <= cap
    <3>. HIDE DEF cap
    <3>. QED
      BY <2>1, <2>4, <2>5, <2>6, BudgetSpentIn
  <2>. QED
    BY <1>2, <2>3, <2>7 DEF Budget!Spend, ChargeVolume
<1>3. ASSUME Tick PROVE Budget!Tick
  BY <1>3, TimesFinite DEF Tick, Budget!Tick, LedgerInv, TypeOK
<1>4. ASSUME UNCHANGED vars PROVE UNCHANGED Budget!vars
  BY <1>4 DEF vars, Budget!vars
<1>. QED
  BY <1>1, <1>2, <1>3, <1>4 DEF Next, Budget!Next

(* The ring of hourly buckets implements the exact rolling budget: through *)
(* any sequence of charges, pauses and changes of limits, and wherever the *)
(* clock stands in its hour, the executor never moves more in Window ticks *)
(* than the limit in force at that moment.                                 *)
THEOREM LedgerImplementsBudget == Spec => BudgetSpec
BY HistoryAlways, BudgetInit, BudgetStep, PTL DEF Spec, BudgetSpec, Budget!Spec
=============================================================================
