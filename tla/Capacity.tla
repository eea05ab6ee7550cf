------------------------------ MODULE Capacity ------------------------------
(***************************************************************************)
(* The forecast of lib/monitoring: how fast the database grows, when it will *)
(* be full, and what of that is an alert.  A snapshot of the size is taken    *)
(* now and then; each is judged with the history that the one before left.    *)
(*                                                                         *)
(* Time is in half days and sizes are small numbers.  A rate is a fraction    *)
(* of units by days, where the code has a floating point number.             *)
(***************************************************************************)
EXTENDS Integers, Sequences, SequencesExt, FiniteSetsExt

CONSTANTS
    Limits,         \* bound: values of MON_DB_CAPACITY_LIMIT_BYTES; 0 is none
    FirstSize,      \* bound: sizes of the database at first
    Change,         \* bound: how it grows or shrinks between snapshots
    Interval,       \* bound: half days between snapshots
    HistoryLimit,   \* rows readCapacityHistory reads (200)
    MaxSnapshots    \* bound

ASSUME CapacityAssumption ==
    /\ Limits \subseteq Nat /\ FirstSize \subseteq Nat /\ Change \subseteq Int
    /\ Interval \subseteq Nat \ {0}
    /\ HistoryLimit \in Nat \ {0} /\ MaxSnapshots \in Nat \ {0}

VARIABLES
    snapshots,      \* rows of database_capacity_snapshots, newest first
    limit           \* the limit the operator has configured

capacityVars == <<snapshots, limit>>

CapacityInit ==
    /\ limit \in Limits
    /\ \E size \in FirstSize : snapshots = <<[at |-> 0, size |-> size]>>

-----------------------------------------------------------------------------
(* Growth *)

Latest == Head(snapshots)

\* readCapacityHistory, before the new row is inserted.
History == SubSeq(snapshots, 2, Min({Len(snapshots), HistoryLimit + 1}))

NoRate == <<>>
LessThan(p, q) == p[1] * q[2] < q[1] * p[2]
Larger(p, q) == IF LessThan(p, q) THEN q ELSE p
Zero == <<0, 1>>

Off(row, target) == LET off == Latest.at - row.at - target IN IF off < 0 THEN -off ELSE off

\* growthRatePerDay: since the row nearest to the target, the newer of two.
GrowthRate(target, tolerance) ==
    LET close == {i \in DOMAIN History : Off(History[i], target) <= tolerance}
        nearest == {i \in close : \A j \in close : Off(History[i], target) <= Off(History[j], target)}
    IN  IF close = {} THEN NoRate
        ELSE LET base == History[Min(nearest)]
             IN  <<2 * (Latest.size - base.size), Latest.at - base.at>>

DailyRate == GrowthRate(2, 1)
LongRates == {GrowthRate(14, 4), GrowthRate(60, 10)} \ {NoRate}

\* MUTANT: the smallest of the rates.
LeastRate ==
    IF LongRates # {} THEN CHOOSE r \in LongRates : \A q \in LongRates : ~LessThan(q, r)
    ELSE DailyRate

\* computeGrowthRates: the largest of the long rates, or else the daily rate.
ConservativeRate ==
    IF LongRates # {}
    THEN Larger(Zero, CHOOSE r \in LongRates : \A q \in LongRates : ~LessThan(r, q))
    ELSE IF DailyRate = NoRate THEN NoRate ELSE Larger(Zero, DailyRate)

-----------------------------------------------------------------------------
(* What is left *)

FreeSpace == limit - Latest.size

Growing == ConservativeRate # NoRate /\ ConservativeRate # Zero /\ ConservativeRate[1] > 0

\* daysToLimit < days.  Without growth it is infinite or null.
LimitWithin(days) ==
    limit # 0 /\ Growing /\ FreeSpace * ConservativeRate[2] < days * ConservativeRate[1]

\* computeFree: freePercent < percent.
FreeBelow(percent) == limit # 0 /\ 100 * FreeSpace < percent * limit

\* forecastStatus: the stricter of the two.
ForecastStatus ==
    IF limit = 0 THEN "unknown"
    ELSE IF LimitWithin(30) \/ FreeBelow(20) THEN "critical"
    ELSE IF LimitWithin(45) \/ FreeBelow(30) THEN "warning"
    ELSE "healthy"

\* historySpanDays, in half days.
Span == IF History = <<>> THEN 0 ELSE Latest.at - Last(History).at

\* forecast: not from a single snapshot, nor from less than a day.
EnoughHistory == ConservativeRate # NoRate /\ Len(History) + 1 >= 2 /\ Span >= 2

\* projectedTotalBytes of a horizon, times the denominator of the rate.
Projected(days) == Latest.size * ConservativeRate[2] + days * ConservativeRate[1]

-----------------------------------------------------------------------------
TakeSnapshot(wait, change) ==
    /\ Len(snapshots) < MaxSnapshots
    /\ Latest.size + change >= 0
    /\ snapshots' = Cons([at |-> Latest.at + wait, size |-> Latest.size + change], snapshots)
    /\ UNCHANGED limit

\* The operator buys room, or forgets to configure the limit.
SetLimit(l) == l # limit /\ limit' = l /\ UNCHANGED snapshots

CapacityNext ==
    \/ \E wait \in Interval, change \in Change : TakeSnapshot(wait, change)
    \/ \E l \in Limits : SetLimit(l)

CapacitySpec == CapacityInit /\ [][CapacityNext]_capacityVars

-----------------------------------------------------------------------------
CapacityTypeOK ==
    /\ limit \in Limits
    /\ \A i \in DOMAIN snapshots : snapshots[i].at \in Nat /\ snapshots[i].size \in Nat
    /\ \A i \in 1..Len(snapshots) - 1 : snapshots[i].at > snapshots[i + 1].at

\* A database that is full is critical, whatever its growth is or is not known
\* to be; without a limit nothing is claimed.
FullIsCritical ==
    /\ limit # 0 /\ Latest.size >= limit => ForecastStatus = "critical"
    /\ ForecastStatus = "unknown" <=> limit = 0

\* "headroom policy: >=30 days AND >=30% free" (capacity.ts): no measured rate of
\* a week or a month is ignored, the one that fills the limit first decides; and
\* slow growth does not make up for a lack of free space.
HeadroomPolicy ==
    limit # 0 =>
        /\ \A r \in LongRates :
              Latest.size * r[2] + 30 * r[1] > limit * r[2] => ForecastStatus = "critical"
        /\ ForecastStatus = "healthy" => 10 * FreeSpace >= 3 * limit

\* "never imminent": a database no smaller at any time of its history is judged
\* by its free space alone.
ShrinkingIsNotImminent ==
    (\A i \in DOMAIN History : History[i].size >= Latest.size) => ~LimitWithin(45)

\* The forecast for a horizon runs out of space exactly when the days to the
\* limit are fewer than the horizon.
ForecastsAgree ==
    \A days \in {30, 90, 365} :
        EnoughHistory /\ limit # 0 /\ Growing =>
            (Projected(days) > limit * ConservativeRate[2] <=> LimitWithin(days))

CapacityInv ==
    /\ CapacityTypeOK /\ FullIsCritical /\ HeadroomPolicy /\ ShrinkingIsNotImminent
    /\ ForecastsAgree
=============================================================================
