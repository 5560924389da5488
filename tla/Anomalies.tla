------------------------------ MODULE Anomalies ------------------------------
(***************************************************************************)
(* The anomaly rules (anomalies.py): a month, or a bucket, against the     *)
(* median of the same metric in the published months before it.  Medians   *)
(* may fall between two values, so values beside a median are doubled, and *)
(* a deviation from a median is doubled again.  Severity, the order of the *)
(* answer and its limit are left out: a metric has one draft at most.      *)
(***************************************************************************)
EXTENDS Insights, TLC

CONSTANTS
    MinBaselineMonths,  \* MIN_BASELINE_MONTHS
    MaxBaselineMonths,  \* MAX_BASELINE_MONTHS
    GroupLimit          \* SERIES_GROUP_LIMIT

ASSUME AnomaliesAssumption ==
    /\ MinBaselineMonths \in Nat \ {0}
    /\ MaxBaselineMonths \in Nat /\ MaxBaselineMonths >= MinBaselineMonths
    /\ GroupLimit \in Nat \ {0}

Floor   == [money |-> 5, count |-> 5, rate |-> RateScale \div 20, roas |-> RateScale \div 4]
NonZAbs == [money |-> 5, count |-> 5, rate |-> RateScale \div 10, roas |-> RateScale \div 2]

\* The k-th smallest value of a function, and twice its _median.
Smallest(f, k) == CHOOSE v \in {f[x] : x \in DOMAIN f} :
    /\ Cardinality({x \in DOMAIN f : f[x] < v}) < k
    /\ Cardinality({x \in DOMAIN f : f[x] <= v}) >= k

Median2(f) ==
    LET n == Cardinality(DOMAIN f)
    IN  IF n % 2 = 1 THEN 2 * Smallest(f, n \div 2 + 1)
        ELSE Smallest(f, n \div 2) + Smallest(f, n \div 2 + 1)

\* Twice current - median; a count loses its half.
Delta2(metric, current, med2) ==
    LET exact == 2 * current - med2
    IN  IF Metrics[metric].kind = "count"
        THEN IF exact < 0 THEN -2 * (Abs(exact) \div 2) ELSE 2 * (exact \div 2)
        ELSE exact

\* Mutant: every published month but the current one is a baseline month.
SelectBaselineMonthsAround(published, current) ==
    LET others == published \ {current}
    IN  {m \in others : Cardinality({n \in others : n > m}) < MaxBaselineMonths}

\* select_baseline_months: the last published months before the current one.
SelectBaselineMonths(published, current) ==
    LET prior == {m \in published : m < current}
    IN  {m \in prior : Cardinality({n \in prior : n > m}) < MaxBaselineMonths}

\* _observe: NULL when the denominator is not sufficient.
Observe(metric, measures) ==
    IF DenominatorSufficient(metric, measures) THEN Pick(metric, measures) ELSE NULL

\* classify_anomaly
ClassifyAnomaly(metric, current, baseline) ==
    LET kind    == Metrics[metric].kind
        med2    == Median2(baseline)
        exact   == 2 * current - med2
        delta2  == Abs(Delta2(metric, current, med2))
        mad4    == Median2([m \in DOMAIN baseline |-> Abs(2 * baseline[m] - med2)])
        madOk   == mad4 * 10 >= Max({40 * Floor[kind], Abs(med2)})
        z       == RoundHalfUp(13490 * Abs(exact), mad4)   \* 1/10000 of a robust z
        extreme == \/ \A m \in DOMAIN baseline : current < baseline[m]
                   \/ \A m \in DOMAIN baseline : current > baseline[m]
        pct     == SafeDivide(exact, med2)
        far     == kind = "rate" \/ (pct # NULL /\ 2 * Abs(pct) >= RateScale)
        side    == IF exact > 0 THEN "spike" ELSE "drop"
    IN  CASE delta2 < 2 * Floor[kind] -> None
          [] delta2 >= 2 * Floor[kind] /\ madOk /\ z >= 35000 ->
                [kind |-> "rolling_deviation", direction |-> side, median2 |-> med2]
          [] OTHER ->
                IF extreme /\ far /\ delta2 >= 2 * NonZAbs[kind]
                THEN [kind |-> side, direction |-> side, median2 |-> med2] ELSE None

\* build_group_drivers: the groups that moved the same way from their own
\* median; a month without rows of a group counts as 0, "Other" is skipped.
\* rows are [key, month, measures]; now is the month of the current rows.
CellValue(metric, cell) ==
    IF cell = {} THEN 0 ELSE Observe(metric, (CHOOSE r \in cell : TRUE).measures)

GroupDriver(k, current, med2, delta2, total2) ==
    [key |-> k, current |-> current, baseline2 |-> med2, delta |-> delta2,
     contribution |-> RoundHalfUp(delta2 * RateScale, total2)]

FromMedian(metric, k, current, med2, total2) ==
    GroupDriver(k, current, med2, Delta2(metric, current, med2), total2)

\* value[k] of each group: its current value, and by baseline month.
DriversOf(metric, value, months, now, total2) ==
    {r \in {FromMedian(metric, k, value[k][now], Median2([m \in months |-> Zero(value[k][m])]), total2)
                : k \in {x \in DOMAIN value : value[x][now] # NULL}} :
        (r.delta > 0) = (total2 > 0)}

TopDrivers(drivers) ==
    IF drivers = {} THEN {} ELSE IF TopShare(drivers) < DriverShare THEN {} ELSE drivers

GroupDrivers(metric, rows, months, now, total2) ==
    LET keys == {r.key : r \in rows} \ {OtherKey}
    IN  IF total2 = 0 \/ Cardinality(keys) < MinDriverGroups THEN {}
        ELSE TopDrivers(FirstDrivers(
                DriversOf(metric,
                    [k \in keys |-> [m \in months \cup {now} |->
                        CellValue(metric, {r \in rows : r.key = k /\ r.month = m})]],
                    months, now, total2), MaxDriversShown))

\* The dimension of the largest first driver, the first asked on a tie.
AnomalyDraft(metric, value, verdict, months, asked, drivers, usable) ==
    LET base == [metric |-> metric, kind |-> verdict.kind, direction |-> verdict.direction,
                 current |-> value, median2 |-> verdict.median2, months |-> months]
    IN  IF usable = {} THEN base @@ [dimension |-> None, drivers |-> {}]
        ELSE LET i == Leading([j \in usable |-> TopShare(drivers[j])])
             IN  base @@ [dimension |-> asked[i], drivers |-> drivers[i]]

Explained(metric, value, verdict, months, asked, drivers) ==
    IF verdict = None THEN {}
    ELSE {AnomalyDraft(metric, value, verdict, months, asked, drivers,
                       {i \in DOMAIN asked : drivers[i] # {}})}

Classified(metric, value, verdict, months, now, asked, grouped) ==
    Explained(metric, value, verdict, months, asked,
        [i \in DOMAIN asked |->
            IF verdict = None \/ ~Metrics[metric].additive THEN {}
            ELSE GroupDrivers(metric, grouped[asked[i]], months, now,
                              Delta2(metric, value, verdict.median2))])

\* One metric: values are those of the baseline months that have one.
Judged(metric, value, values, now, asked, grouped) ==
    Classified(metric, value,
        IF value = NULL \/ Cardinality(DOMAIN values) < MinBaselineMonths THEN None
        ELSE ClassifyAnomaly(metric, value, values),
        DOMAIN values, now, asked, grouped)

SeenOnly(values) == [m \in {n \in DOMAIN values : values[n] # NULL} |-> values[m]]

\* build_anomalies: current and each baseline month are measures; grouped[d]
\* is a set of [key, month, measures].
BuildAnomalies(metrics, current, now, baseline, asked, grouped) ==
    IF Cardinality(DOMAIN baseline) < MinBaselineMonths THEN {}
    ELSE UNION {Judged(metric, Observe(metric, current),
                       SeenOnly([m \in DOMAIN baseline |-> Observe(metric, baseline[m])]),
                       now, asked, grouped) : metric \in metrics}

\* Rows of a series as the rows of one month.
AsMonth(series, bucket, month) ==
    {[key |-> g.key, month |-> month, measures |-> g.measures] : g \in InBucket(series, bucket)}

TotalOf(read, bucket) == MeasuresOf(InBucket(read.total, bucket), None)

\* The read behind the anomalies of a month: the baseline months and the
\* whole current month.
Lookback(prior, now) == Window("range", Min(prior), AddCalendarMonth(now), None)

\* anomalies at the month grain, from one read of totals and one per dimension;
\* the sum of the period when the read of totals has no row of the month.
MonthlyAnomalies(metrics, now, sum, prior, asked, read) ==
    BuildAnomalies(metrics, IF InBucket(read.total, now) = {} THEN sum ELSE TotalOf(read, now), now,
        [m \in {n \in prior : InBucket(read.total, n) # {}} |-> TotalOf(read, m)], asked,
        [d \in {asked[i] : i \in DOMAIN asked} |->
            {[key |-> r.key, month |-> r.bucket, measures |-> r.measures] : r \in read.series[d]}])

\* The bucket of a slot in a month, if it has rows there: {<<month, bucket>>}.
SameSlot(slot, m, buckets, grain, read) ==
    {<<m, buckets[j]>> : j \in {i \in DOMAIN buckets :
        Slot(buckets, i, grain) = slot /\ InBucket(read.total, buckets[i]) # {}}}

BucketAnomalies(metrics, bucket, asked, now, past, found) ==
    BuildAnomalies(metrics, TotalOf(now, bucket), bucket,
        [m \in {p[1] : p \in found} |-> TotalOf(past[m], (CHOOSE p \in found : p[1] = m)[2])], asked,
        [d \in {asked[i] : i \in DOMAIN asked} |->
            (UNION {AsMonth(past[p[1]].series[d], p[2], p[1]) : p \in found})
            \cup AsMonth(now.series[d], bucket, bucket)])

\* _granular_anomalies: each bucket of the window against the bucket of the
\* same slot in each prior month; past[m] are the reads of a prior month.
GranularAnomalies(metrics, window, grain, asked, now, past) ==
    LET buckets == IterBuckets(window.from, window.to, grain)
        present == {i \in DOMAIN buckets : InBucket(now.total, buckets[i]) # {}}
        Found(slot) == UNION {SameSlot(slot, m, IterBuckets(m, AddCalendarMonth(m), grain), grain, past[m])
                                : m \in DOMAIN past}
    IN  UNION {{[bucket |-> buckets[i], draft |-> a] : a \in
            BucketAnomalies(metrics, buckets[i], asked, now, past, Found(Slot(buckets, i, grain)))}
                : i \in present}
=============================================================================
