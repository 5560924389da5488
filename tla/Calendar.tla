------------------------------ MODULE Calendar ------------------------------
(***************************************************************************)
(* Days, ISO weeks and months as the analytics use them (derive.py,        *)
(* trends.py, drill.py).  A day is an integer; months are given by their   *)
(* first days, and a week is WeekDays long, so that instances can be small *)
(* and the real calendar is one instance.                                  *)
(***************************************************************************)
EXTENDS Integers, Sequences, FiniteSets

CONSTANTS
    MonthFirsts,  \* first days of the months; the last one bounds the horizon
    WeekDays,     \* days of a week (7 in the code)
    Monday        \* a day that starts a week

ASSUME CalendarAssumption ==
    /\ MonthFirsts \subseteq Nat /\ IsFiniteSet(MonthFirsts)
    /\ WeekDays \in Nat \ {0} /\ Monday \in Int

\* derive.month_start: first day of the month of a day.
MonthOf(d) == CHOOSE m \in MonthFirsts :
    m <= d /\ \A n \in MonthFirsts : n <= d => n <= m

AddCalendarMonth(m) == CHOOSE n \in MonthFirsts :
    n > m /\ \A o \in MonthFirsts : o > m => n <= o

IsoWeekStart(d) == d - ((d - Monday) % WeekDays)

BucketStart(d, grain) ==
    CASE grain = "day"   -> d
      [] grain = "week"  -> IsoWeekStart(d)
      [] grain = "month" -> MonthOf(d)

BucketEndExclusive(b, grain) ==
    CASE grain = "day"   -> b + 1
      [] grain = "week"  -> b + WeekDays
      [] grain = "month" -> AddCalendarMonth(b)

\* iter_buckets: from the bucket of the first day, a bucket at a time.
IterBuckets(from, to, grain) ==
    LET last == BucketStart(to - 1, grain)
        walk[b \in Int] ==
            IF b < last THEN <<b>> \o walk[BucketEndExclusive(b, grain)] ELSE <<b>>
    IN  IF from >= to THEN <<>> ELSE walk[BucketStart(from, grain)]
=============================================================================
