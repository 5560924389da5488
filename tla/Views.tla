------------------------------- MODULE Views -------------------------------
(***************************************************************************)
(* Trends, drilldown and performance explorer (trends.py, drill.py,        *)
(* explorer.py and the rows AnalyticsService builds): pure functions of    *)
(* the rows read from the published history.  Formatting, labels and the   *)
(* catalogs of the responses are left out.                                 *)
(***************************************************************************)
EXTENDS Periods

CONSTANTS
    MaxDrillDepth,   \* MAX_DRILL_DEPTH
    MaxDrillRows     \* MAX_DRILL_ROWS

ASSUME ViewsAssumption == MaxDrillDepth \in Nat \ {0} /\ MaxDrillRows \in Nat \ {0}

NoMeasures == [name \in AdditiveMeasures |-> NULL]

\* The measures of a key among groups, NoMeasures when it has no rows.
MeasuresOf(groups, key) ==
    LET found == {g \in groups : g.key = key}
    IN  IF found = {} THEN NoMeasures ELSE (CHOOSE g \in found : TRUE).measures

Delta(current, prior) == SafeSubtract(current, prior)
DeltaPct(current, prior) == SafeDivide(SafeSubtract(current, prior), prior)

(* Trends *)

\* The read behind a trend.
TrendSeries(rows, window, filters, grain, breakdown, metric) ==
    IF breakdown = None THEN TotalSeries(rows, window, filters, grain)
    ELSE Series(rows, window, filters, grain, breakdown, RankMeasure(metric), MaxSeries)

At(series, key, bucket) ==
    LET found == {r \in series : r.key = key /\ r.bucket = bucket}
    IN  IF found = {} THEN [measures |-> NoMeasures, count |-> 0] ELSE CHOOSE r \in found : TRUE

\* trends: a point per series and bucket, beside the bucket of the same
\* position in the comparison period.
TrendPoints(metric, current, compared, window, compare, grain) ==
    LET buckets  == IterBuckets(window.from, window.to, grain)
        before   == IF compare = None THEN <<>> ELSE IterBuckets(compare.from, compare.to, grain)
        keys     == IF current = {} THEN {None} ELSE {r.key : r \in current}
        Prior(i) == IF i \in DOMAIN before
                    THEN Pick(metric, At(compared, None, before[i]).measures) ELSE NULL
    IN  {LET cell == At(current, k, buckets[i]) IN
         [key |-> k, bucket |-> buckets[i], value |-> Pick(metric, cell.measures),
          prior |-> Prior(i), count |-> cell.count] : k \in keys, i \in DOMAIN buckets}

\* _fill_trend_bucket_shares: a point's part of its bucket.
BucketShare(point, points) ==
    LET present == {p \in points : p.bucket = point.bucket /\ p.value # NULL}
    IN  IF present = {} THEN NULL
        ELSE SafeDivide(point.value, SumOf([p \in present |-> p.value]))

WithShares(points) ==
    {[key |-> p.key, bucket |-> p.bucket, value |-> p.value, prior |-> p.prior, count |-> p.count,
      share |-> BucketShare(p, points)] : p \in points}

(* Drilldown *)

\* parse_parents and validate_drill_selection
PathAllowed(parents, dimension) ==
    /\ Len(parents) + 1 <= MaxDrillDepth
    /\ dimension \in DrillDimensions
    /\ \A i \in DOMAIN parents :
        /\ parents[i].dimension \in Dimensions
        /\ parents[i].value # OtherKey
        /\ parents[i].dimension # dimension
        /\ \A j \in DOMAIN parents : parents[i].dimension = parents[j].dimension => i = j

\* next_dimensions
NextDimensions(parents, dimension) ==
    IF dimension = "day" \/ Len(parents) + 1 >= MaxDrillDepth THEN {}
    ELSE DrillDimensions \ ({dimension} \cup {parents[i].dimension : i \in DOMAIN parents})

\* apply_parents narrows a filter to the parent's value, which it must allow.
ApplyParent(filters, parent) ==
    LET allowed == filters[parent.dimension]
    IN  IF allowed # {} /\ parent.value \notin allowed THEN Refused
        ELSE [filters EXCEPT ![parent.dimension] = {parent.value}]

\* _validate_parents: every parent occurs in the period under the ones before.
Narrowed(rows, window, filters, parent) ==
    IF filters = Refused THEN Refused
    ELSE IF parent.value \notin {g.key : g \in Groups(rows, window, filters, parent.dimension)}
         THEN Refused ELSE ApplyParent(filters, parent)

ValidateParents(rows, window, filters, parents) ==
    LET narrow[i \in 0..Len(parents)] ==
            IF i = 0 THEN filters ELSE Narrowed(rows, window, narrow[i - 1], parents[i])
    IN  narrow[Len(parents)]

\* intersect_slice
IntersectSlice(window, grain, bucket) ==
    LET start == Max({bucket, window.from})
        end   == Min({BucketEndExclusive(bucket, grain), window.to})
    IN  IF start >= end THEN Refused ELSE Window("range", start, end, None)

\* Mutant: the comparison slice is the last bucket, not the one of the same position.
SliceAtLast(window, compare, grain, aligned, buckets, before) ==
    IF \A i \in DOMAIN buckets : buckets[i] # aligned THEN Refused
    ELSE <<IntersectSlice(window, grain, aligned),
           IF before = <<>> THEN None ELSE IntersectSlice(compare, grain, before[Len(before)])>>

\* A drill from a trend point keeps its bucket, and the comparison bucket of
\* the same position.
SliceAt(window, compare, grain, aligned, buckets, before) ==
    LET index == {i \in DOMAIN buckets : buckets[i] = aligned}
    IN  IF index = {} THEN Refused
        ELSE <<IntersectSlice(window, grain, aligned),
               IF index \cap DOMAIN before = {} THEN None
               ELSE IntersectSlice(compare, grain, before[CHOOSE i \in index : TRUE])>>

\* resolve_slice_windows
SliceWindows(window, compare, slice) ==
    IF slice = None THEN <<window, compare>>
    ELSE SliceAt(window, compare, slice.grain, BucketStart(slice.bucket, slice.grain),
                 IterBuckets(window.from, window.to, slice.grain),
                 IF compare = None THEN <<>> ELSE IterBuckets(compare.from, compare.to, slice.grain))

\* The order of drill rows: volume first, then the key.
VolumeBefore(metric, a, b) ==
    \/ Volume(metric, a.measures) > Volume(metric, b.measures)
    \/ Volume(metric, a.measures) = Volume(metric, b.measures) /\ a.key < b.key

LargestGroups(metric, groups) ==
    {g \in groups : Cardinality({h \in groups : VolumeBefore(metric, h, g)}) < MaxDrillRows}

DrillRow(metric, key, measures, prior, count, total, drillable) ==
    [key |-> key, value |-> Pick(metric, measures), prior |-> Pick(metric, prior),
     share |-> SafeDivide(Volume(metric, measures), total), count |-> count,
     drillable |-> drillable]

KeptRows(metric, kept, prior, total, deeper) ==
    {DrillRow(metric, g.key, g.measures, MeasuresOf(prior, g.key), g.count, total,
              deeper /\ g.key # OtherKey) : g \in kept}

\* The groups beyond the largest, and what they were before.
OtherRow(metric, leftover, before, total) ==
    DrillRow(metric, OtherKey, CombineMeasures(leftover),
             IF before = {} THEN NoMeasures ELSE CombineMeasures(before),
             SumOf([g \in leftover |-> g.count]), total, FALSE)

\* Mutant: the comparison of "Other" is every group that is not shown.
OtherRowsOfAll(metric, kept, leftover, prior, total) ==
    IF leftover = {} THEN {}
    ELSE {OtherRow(metric, leftover, {p \in prior : \A g \in kept : g.key # p.key}, total)}

OtherRows(metric, kept, leftover, prior, total) ==
    IF leftover = {} THEN {}
    ELSE {OtherRow(metric, leftover, {p \in prior : \E g \in leftover : g.key = p.key}, total)}

RankedWith(metric, kept, leftover, prior, total, deeper) ==
    KeptRows(metric, kept, prior, total, deeper)
    \cup OtherRows(metric, kept, leftover, prior, total)

\* _ranked_rows: the largest groups and "Other"; a group of the comparison
\* period that has no current rows has no row.
RankedRows(metric, groups, prior, deeper) ==
    LET kept == LargestGroups(metric, groups)
    IN  RankedWith(metric, kept, groups \ kept, prior,
                   SumOf([g \in groups |-> Volume(metric, g.measures)]), deeper)

(* Performance explorer *)

\* validate_explorer_selection
ExplorerAllowed(ask, compare) ==
    /\ ask.secondary # None => ask.secondary # ask.dimension /\ ask.dimension # "day"
    /\ ~Metrics[ask.metric].additive => ask.sort # "contribution" /\ ask.min_contribution = None
    /\ ask.mode = "movers" => compare # None

\* _explorer_from_groups and _explorer_from_pairs
ExplorerBuilt(metric, groups, prior) ==
    {[parent |-> g.parent, key |-> g.key, value |-> Pick(metric, g.measures),
      prior |-> LET same == {p \in prior : p.parent = g.parent /\ p.key = g.key}
                IN  IF same = {} THEN NULL ELSE Pick(metric, (CHOOSE p \in same : TRUE).measures),
      count |-> g.count] : g \in groups}

WithParent(groups) ==
    {[parent |-> None, key |-> g.key, measures |-> g.measures, count |-> g.count] : g \in groups}

Contribution(metric, row, total) ==
    IF Metrics[metric].additive THEN SafeDivide(row.value, total) ELSE NULL

\* The thresholds, and the rows a mode keeps: movers moved the asked way.
Prepared(ask, built, total) ==
    {r \in built :
        /\ ask.min_value # None => r.value # NULL /\ r.value >= ask.min_value
        /\ ask.min_contribution # None =>
            LET share == Contribution(ask.metric, r, total)
            IN  share # NULL /\ share >= ask.min_contribution
        /\ ask.mode = "movers" =>
            /\ r.prior # NULL /\ r.value # NULL
            /\ IF ask.mover = "down" THEN r.value < r.prior ELSE r.value > r.prior}

\* _explorer_sort_tuple
SortNumber(ask, row, total) ==
    CASE ask.sort = "delta"        -> Delta(row.value, row.prior)
      [] ask.sort = "delta_pct"    -> DeltaPct(row.value, row.prior)
      [] ask.sort = "contribution" -> Contribution(ask.metric, row, total)
      [] OTHER                     -> row.value

ExplorerBefore(ask, total, a, b) ==
    LET x == SortNumber(ask, a, total)
        y == SortNumber(ask, b, total)
    IN  \/ x # NULL /\ y = NULL
        \/ x # NULL /\ y # NULL /\ (IF ask.desc THEN x > y ELSE x < y)
        \/ x = y /\ a.parent # None /\ a.parent < b.parent
        \/ x = y /\ a.parent = b.parent /\ a.key < b.key

\* explorer_drill_target: the path that opens a row, <<>> when it has none.
DrillPath(ask, row) ==
    LET own  == [dimension |-> ask.dimension, value |-> row.key]
        path == IF ask.secondary = None THEN <<own>>
                ELSE << [dimension |-> ask.dimension, value |-> row.parent],
                        [dimension |-> ask.secondary, value |-> row.key] >>
        last == IF ask.secondary = None THEN ask.dimension ELSE ask.secondary
    IN  IF NextDimensions(SubSeq(path, 1, Len(path) - 1), last) = {} THEN <<>> ELSE path

\* _rank_explorer_rows
ExplorerRow(ask, row, rank, total) ==
    [rank |-> rank, parent |-> row.parent, key |-> row.key, value |-> row.value,
     prior |-> row.prior, count |-> row.count, path |-> DrillPath(ask, row),
     share |-> Contribution(ask.metric, row, total)]

Ranked(ask, prepared, total) ==
    {ExplorerRow(ask, r, Cardinality({s \in prepared : ExplorerBefore(ask, total, s, r)}) + 1, total)
        : r \in prepared}

ExplorerRows(ask, built, total) ==
    {r \in Ranked(ask, Prepared(ask, built, total), total) : r.rank <= ask.limit}
=============================================================================
