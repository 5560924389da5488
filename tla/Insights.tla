------------------------------ MODULE Insights ------------------------------
(***************************************************************************)
(* The deterministic insights (insights.py): metrics that moved materially *)
(* between two windows, the groups that account for the movement, and      *)
(* pairs that moved against each other.  Headlines and explanations are    *)
(* left out.  A score is a number of 1/RateScale; the code's quotient      *)
(* |delta| / |prior| is rounded to a rate here.                            *)
(***************************************************************************)
EXTENDS Views

\* Thresholds, in units of a rate or of the metric's kind.
MaterialPct       == RateScale \div 10
MaterialHighPct   == RateScale \div 4
DriverShare       == (2 * RateScale) \div 5
MultiDriverEach   == RateScale \div 4
MultiDriverBoth   == (3 * RateScale) \div 5
MinDriverGroups   == 2
MaxDriversShown   == 3
AbsFloor == [money |-> 1, count |-> 1, rate |-> RateScale \div 100, roas |-> RateScale \div 10]

CategoryWeight == [dominant_driver |-> 400, material_change |-> 300, negative_signal |-> 250,
                   positive_signal |-> 200, relationship |-> 150]

RelationshipPairs == {<<"revenue_inr", "overall_roas">>, <<"delivered", "delivery_rate">>}

\* Alphabetical order, the last resort of the ranking.
MetricOrder == [delivered |-> 1, delivery_rate |-> 2, overall_roas |-> 3, revenue_inr |-> 4,
                total_cost |-> 5]
CategoryOrder == [dominant_driver |-> 1, material_change |-> 2, negative_signal |-> 3,
                  positive_signal |-> 4, relationship |-> 5]

\* denominator_sufficient
DenominatorSufficient(metric, measures) ==
    LET spec == Metrics[metric] IN
    spec.den # "none" =>
        /\ measures[spec.den] # NULL /\ measures[spec.den] # 0
        /\ spec.kind = "rate" => measures[spec.den] >= 1

\* snapshot_for
Movement(enough, now, then) ==
    [current |-> now, prior |-> then,
     delta |-> IF enough THEN Delta(now, then) ELSE NULL,
     pct   |-> IF enough THEN DeltaPct(now, then) ELSE NULL]

Snapshot(metric, current, prior) ==
    Movement(DenominatorSufficient(metric, current) /\ DenominatorSufficient(metric, prior),
             Pick(metric, current), Pick(metric, prior))

IsMaterial(metric, snap) ==
    /\ snap.delta # NULL /\ snap.pct # NULL
    /\ Abs(snap.pct) >= MaterialPct
    /\ Abs(snap.delta) >= AbsFloor[Metrics[metric].kind]

\* signed_category: a fall of the cost is an improvement.
Category(metric, snap) ==
    IF Abs(snap.pct) >= MaterialHighPct THEN "material_change"
    ELSE IF (metric = "total_cost") = (snap.delta < 0) THEN "positive_signal"
    ELSE "negative_signal"

\* insight_score
Score(category, snap, pct, share) ==
    LET base == IF snap.prior = NULL \/ snap.prior = 0 THEN 1 ELSE Abs(snap.prior)
    IN  Min({Abs(pct), 10 * RateScale}) * 10000
        + Min({SafeDivide(Abs(snap.delta), base), 10 * RateScale}) * 100
        + share * 1000 + CategoryWeight[category] * RateScale

\* The value of a group in one window, 0 when it has no rows there.
ValueIn(metric, side, k) ==
    IF \E g \in side : g.key = k THEN Pick(metric, MeasuresOf(side, k)) ELSE 0

DriverRow(k, now, then, total) ==
    [key |-> k, current |-> now, prior |-> then, delta |-> Delta(now, then),
     contribution |-> SafeDivide(Delta(now, then), total)]

\* Mutant: only the groups of the current window are drivers.
DriverRowsOfCurrent(metric, groups, prior, total) ==
    IF total = 0 THEN {}
    ELSE {DriverRow(k, ValueIn(metric, groups, k), ValueIn(metric, prior, k), total)
            : k \in {g.key : g \in groups}}

\* driver_rows of an additive metric: every group of either window.
DriverRows(metric, groups, prior, total) ==
    IF total = 0 THEN {}
    ELSE {DriverRow(k, ValueIn(metric, groups, k), ValueIn(metric, prior, k), total)
            : k \in {g.key : g \in groups \cup prior}}

\* _same_sign
SameSign(rows, total) ==
    {r \in rows : r.delta # NULL /\ r.delta # 0 /\ ((r.delta > 0) = (total > 0))}

\* Order of drivers: contribution, delta, key, each descending.
DriverBefore(a, b) ==
    \/ Abs(a.contribution) > Abs(b.contribution)
    \/ /\ Abs(a.contribution) = Abs(b.contribution)
       /\ \/ Abs(a.delta) > Abs(b.delta)
          \/ Abs(a.delta) = Abs(b.delta) /\ a.key > b.key

DriverRank(r, rows) == Cardinality({s \in rows : DriverBefore(s, r)}) + 1
FirstDrivers(rows, n) == {r \in rows : DriverRank(r, rows) <= n}
TopShare(rows) == Max({Abs(r.contribution) : r \in rows})

\* _driver_qualifies
DriverQualifies(metric, r, share) ==
    Abs(r.delta) >= AbsFloor[Metrics[metric].kind] /\ Abs(r.contribution) >= share

\* One driver of DRIVER_SHARE, or two that make up MULTI_DRIVER_TOGETHER.
Dominant(metric, rows) ==
    \/ \E r \in rows : DriverQualifies(metric, r, DriverShare)
    \/ \E r, s \in FirstDrivers(rows, 2) :
        /\ r # s
        /\ DriverQualifies(metric, r, MultiDriverEach)
        /\ DriverQualifies(metric, s, MultiDriverEach)
        /\ Abs(r.contribution + s.contribution) >= MultiDriverBoth

Draft(category, metric, snap, share, dimension, drivers) ==
    [category |-> category, metric |-> metric, current |-> snap.current, prior |-> snap.prior,
     delta |-> snap.delta, pct |-> snap.pct, score |-> Score(category, snap, snap.pct, share),
     dimension |-> dimension, drivers |-> drivers]

\* The groups of a dimension that moved with the metric, if it has enough.
MovedWith(metric, snap, groups, prior) ==
    IF Cardinality({g.key : g \in groups \cup prior}) < MinDriverGroups THEN {}
    ELSE SameSign(DriverRows(metric, groups, prior, snap.delta), snap.delta)

\* The driver insight of a metric: the dimension whose first driver has the
\* largest share, the first of the asked dimensions on a tie.
Leading(share) ==
    CHOOSE i \in DOMAIN share : \A j \in DOMAIN share :
        share[i] > share[j] \/ (share[i] = share[j] /\ i <= j)

DriverDraft(metric, snap, dimension, moved) ==
    IF ~Dominant(metric, moved) THEN {}
    ELSE {Draft("dominant_driver", metric, snap, TopShare(moved), dimension,
                FirstDrivers(moved, MaxDriversShown))}

LeadingDraft(metric, snap, asked, moved, usable) ==
    IF usable = {} THEN {}
    ELSE UNION {DriverDraft(metric, snap, asked[i], moved[i])
                    : i \in {Leading([j \in usable |-> TopShare(moved[j])])}}

DriverDrafts(metric, snap, asked, moved) ==
    LeadingDraft(metric, snap, asked, moved, {i \in DOMAIN asked : moved[i] # {}})

\* The order of the answer: score, movement, metric, category.
InsightBefore(a, b) ==
    \/ a.score > b.score
    \/ /\ a.score = b.score
       /\ \/ Abs(a.pct) > Abs(b.pct)
          \/ /\ Abs(a.pct) = Abs(b.pct)
             /\ \/ MetricOrder[a.metric] < MetricOrder[b.metric]
                \/ /\ a.metric = b.metric
                   /\ CategoryOrder[a.category] < CategoryOrder[b.category]

\* Two related metrics that both moved materially, in opposite directions.
RelationshipDraft(metric, snap, related) ==
    [Draft("relationship", metric, snap, 0, None, {}) EXCEPT
        !.score = Score("relationship", snap, Max({Abs(snap.pct), Abs(related.pct)}), 0)]

RelationshipDrafts(snaps) ==
    {RelationshipDraft(p[1], snaps[p[1]], snaps[p[2]]) : p \in
        {q \in RelationshipPairs :
            /\ {q[1], q[2]} \subseteq DOMAIN snaps
            /\ IsMaterial(q[1], snaps[q[1]]) /\ IsMaterial(q[2], snaps[q[2]])
            /\ (snaps[q[1]].delta > 0) # (snaps[q[2]].delta > 0)}}

\* build_insights: grouped[d] holds the groups of a dimension in both windows.
DraftsOf(metric, snap, asked, grouped) ==
    IF ~IsMaterial(metric, snap) THEN {}
    ELSE {Draft(Category(metric, snap), metric, snap, 0, None, {})}
         \cup (IF Metrics[metric].additive /\ snap.delta # 0
               THEN DriverDrafts(metric, snap, asked,
                        [i \in DOMAIN asked |-> MovedWith(metric, snap, grouped[asked[i]].current,
                                                          grouped[asked[i]].prior)])
               ELSE {})

Drafts(snaps, asked, grouped) ==
    (UNION {DraftsOf(m, snaps[m], asked, grouped) : m \in DOMAIN snaps}) \cup RelationshipDrafts(snaps)

Foremost(drafts, limit) ==
    {d \in drafts : Cardinality({e \in drafts : InsightBefore(e, d)}) < limit}

BuildInsights(metrics, current, prior, asked, grouped, limit) ==
    Foremost(Drafts([m \in metrics |-> Snapshot(m, current, prior)], asked, grouped), limit)

\* insights at the month grain, from the sums and groups of both windows.
PeriodInsights(metrics, asked, now, before, limit) ==
    BuildInsights(metrics, now.total.measures, before.total.measures, asked,
        [d \in {asked[i] : i \in DOMAIN asked} |->
            [current |-> now.groups[d], prior |-> before.groups[d]]], limit)

\* _bucket_slots: the position of a bucket, in steps from the first.
Slot(buckets, i, grain) ==
    (buckets[i] - buckets[1]) \div (IF grain = "week" THEN WeekDays ELSE 1)

InBucket(series, bucket) ==
    {[key |-> r.key, measures |-> r.measures, count |-> r.count]
        : r \in {x \in series : x.bucket = bucket}}

\* _granular_insights: the buckets of the two windows paired by position, each
\* explained by the series of its bucket; no limit across buckets here.
PairedBuckets(buckets, before, grain) ==
    {<<buckets[p[1]], before[p[2]]>> : p \in {q \in (DOMAIN buckets) \X (DOMAIN before) :
        Slot(buckets, q[1], grain) = Slot(before, q[2], grain)}}

BucketInsights(metrics, asked, now, before, bucket, earlier, limit) ==
    BuildInsights(metrics, MeasuresOf(InBucket(now.total, bucket), None),
        MeasuresOf(InBucket(before.total, earlier), None), asked,
        [d \in {asked[i] : i \in DOMAIN asked} |->
            [current |-> InBucket(now.series[d], bucket),
             prior   |-> InBucket(before.series[d], earlier)]], limit)

GranularInsights(metrics, window, compare, grain, asked, now, before, limit) ==
    UNION {{[bucket |-> p[1], before |-> p[2], draft |-> d]
                : d \in BucketInsights(metrics, asked, now, before, p[1], p[2], limit)}
            : p \in {q \in PairedBuckets(IterBuckets(window.from, window.to, grain),
                                          IterBuckets(compare.from, compare.to, grain), grain) :
                        InBucket(now.total, q[1]) # {} /\ InBucket(before.total, q[2]) # {}}}
=============================================================================
