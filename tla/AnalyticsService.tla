--------------------------- MODULE AnalyticsService ---------------------------
(***************************************************************************)
(* AnalyticsService: a reader asks for the overview, trends, a drilldown,  *)
(* an explorer ranking, insights or anomalies of a client's published      *)
(* history, and opens a trend point, a drill row or an explorer row of the *)
(* answer as a drilldown.  An answer is put together from several          *)
(* transactions: the scope, the current period and the comparison are read *)
(* one after the other, and publications (PublishedHistory) commit in      *)
(* between.  Reads of one period are one step.                             *)
(***************************************************************************)
EXTENDS PublishedHistory, Anomalies

CONSTANTS
    SnapshotOf,  \* the snapshot each publication freezes
    Asks,        \* what may be asked: the view with what it shows (question), and
                 \* the period, comparison and filters it is asked of (request)
    Limit,         \* insights of an answer
    MaxSeriesRows  \* MAX_SERIES_ROWS

ASSUME AnalyticsAssumption ==
    SnapshotOf \in [Ids -> Slices] /\ {Limit, MaxSeriesRows} \subseteq Nat \ {0}

\* The measures of a fact and the values it is grouped by are numbers or absent.
ASSUME FactsAreNumbers ==
    /\ \A f \in Facts :
        /\ \A m \in AdditiveMeasures : f[m] \in Int \cup {NULL}
        /\ f.channel \in Int \cup {NULL} /\ f.filter_logic_1 \in Int \cup {NULL}
    /\ \A g \in Grains : g.campaign_id \in Int \cup {NULL}

\* The calendar has the month of every day, and the one after it.
ASSUME DaysHaveMonths ==
    \A g \in Grains : /\ g.day \in Int
                      /\ \E m \in MonthFirsts : m <= g.day
                      /\ \E n \in MonthFirsts : g.day < n

VARIABLES
    step,        \* "idle", "scoped", "current", "answered" or "refused"
    request, question,
    scope,       \* the resolved scope
    seen,        \* the histories of the current and the comparison reads
    reads,       \* what the current reads returned
    answer,
    clicked      \* the cell a drilldown was opened from

reader == <<step, request, question, scope, seen, reads, answer, clicked>>
vars   == <<pubs, snap, current, history, step, request, question, scope, seen, reads, answer, clicked>>

\* The rows of a history.
RowsOf(h) ==
    {[grain |-> g, day |-> g.day, campaign_id |-> g.campaign_id, channel |-> h[g].channel,
      filter_logic_1 |-> h[g].filter_logic_1, sent |-> h[g].sent, failed |-> h[g].failed,
      delivered |-> h[g].delivered, revenue_inr |-> h[g].revenue_inr,
      total_cost |-> h[g].total_cost] : g \in {x \in Grains : h[x] # NoFact}}

MetricsOf(q) == IF q.metric = None THEN DOMAIN Metrics ELSE {q.metric}
Asked(q)     == {q.dimensions[i] : i \in DOMAIN q.dimensions}
Monthly(q)   == q.grain = "month"

NoReads == [filters |-> NoFilters]

(* The reads of each view *)

\* drilldown: the slice and the parents, Refused when one is not there.
NarrowedScope(window, compare, filters) ==
    IF filters = Refused THEN Refused
    ELSE [window |-> window, compare |-> compare, filters |-> filters]

SlicedScope(q, windows, filters, rows) ==
    IF windows = Refused THEN Refused
    ELSE NarrowedScope(windows[1], windows[2], ValidateParents(rows, windows[1], filters, q.parents))

DrillScope(q, sc, rows) ==
    IF ~PathAllowed(q.parents, q.dimension) THEN Refused
    ELSE SlicedScope(q, SliceWindows(sc.window, sc.compare, q.slice), sc.filters, rows)

DrillReads(ds, dimension, rows) ==
    IF ds = Refused THEN Refused
    ELSE [scope |-> ds, groups |-> Groups(rows, ds.window, ds.filters, dimension)]

\* trends: a series of too many rows is refused.
TrendReads(series) == IF Cardinality(series) > MaxSeriesRows THEN Refused ELSE series

ExplorerGroups(q, window, filters, rows) ==
    IF q.secondary = None THEN WithParent(Groups(rows, window, filters, q.dimension))
    ELSE Pairs(rows, window, filters, q.dimension, q.secondary)

\* _granular_insights, _granular_anomalies: totals and series of one window.
BucketReads(q, window, filters, rows, cap) ==
    [total  |-> TotalSeries(rows, window, filters, q.grain),
     series |-> [d \in Asked(q) |-> Series(rows, window, filters, q.grain, d, "total_cost", cap)]]

\* insights at the month grain: sums, and every group of a window.
PeriodReads(q, window, filters, rows) ==
    [total  |-> SumPublishedHistory(rows, window, filters),
     groups |-> [d \in Asked(q) |-> Groups(rows, window, filters, d)]]

ReadOf(q, sc, rows) ==
    CASE q.view = "overview"  -> SumPublishedHistory(rows, sc.window, sc.filters)
      [] q.view = "trends"    ->
            TrendReads(TrendSeries(rows, sc.window, sc.filters, q.grain, q.dimension, q.metric))
      [] q.view = "drilldown" -> DrillReads(DrillScope(q, sc, rows), q.dimension, rows)
      [] q.view = "explorer"  ->
            IF ~ExplorerAllowed(q, sc.compare) THEN Refused
            ELSE ExplorerGroups(q, sc.window, sc.filters, rows)
      [] q.view = "insights"  ->
            IF Monthly(q) THEN PeriodReads(q, sc.window, sc.filters, rows)
            ELSE BucketReads(q, sc.window, sc.filters, rows, MaxSeries)
      [] q.view = "anomalies" ->
            IF Monthly(q) THEN SumPublishedHistory(rows, sc.window, sc.filters)
            ELSE BucketReads(q, sc.window, sc.filters, rows, GroupLimit)

(* The answers, from the current reads and those of the comparison *)

\* overview: a card per hero KPI.
Cards(now, before) ==
    {[key |-> m, value |-> Pick(m, now), prior |-> Pick(m, before)] : m \in DOMAIN Metrics}

OverviewAnswer(sc, now, rows) ==
    Cards(now.measures, IF sc.compare = None THEN NoMeasures
                        ELSE SumPublishedHistory(rows, sc.compare, sc.filters).measures)

TrendAnswer(q, sc, now, rows) ==
    LET shown    == sc.compare # None /\ q.dimension = None
        compared == IF shown THEN TrendSeries(rows, sc.compare, sc.filters, q.grain, None, q.metric) ELSE {}
        points   == TrendPoints(q.metric, now, compared, sc.window,
                                IF shown THEN sc.compare ELSE None, q.grain)
    IN  IF q.dimension # None /\ Metrics[q.metric].additive THEN WithShares(points) ELSE points

DrillAnswer(q, now, rows) ==
    LET before == IF now.scope.compare = None THEN {}
                  ELSE Groups(rows, now.scope.compare, now.scope.filters, q.dimension)
    IN  RankedRows(q.metric, now.groups, before, NextDimensions(q.parents, q.dimension) # {})

ExplorerAnswer(q, sc, now, rows) ==
    LET before == IF sc.compare = None THEN {} ELSE ExplorerGroups(q, sc.compare, sc.filters, rows)
        total  == Pick(q.metric, SumPublishedHistory(rows, sc.window, sc.filters).measures)
    IN  ExplorerRows(q, ExplorerBuilt(q.metric, now, before), total)

InsightAnswer(q, sc, now, rows) ==
    IF sc.compare = None THEN {}
    ELSE IF ~Monthly(q) THEN
        GranularInsights(MetricsOf(q), sc.window, sc.compare, q.grain, q.dimensions,
            now, BucketReads(q, sc.compare, sc.filters, rows, MaxSeries), Limit)
    ELSE IF now.total.count = 0 THEN {}
    ELSE PeriodInsights(MetricsOf(q), q.dimensions,
            now, PeriodReads(q, sc.compare, sc.filters, rows), Limit)

AnomaliesOf(q, sc, now, month, prior, rows) ==
    IF Cardinality(prior) < MinBaselineMonths THEN {}
    ELSE IF ~Monthly(q) THEN
        GranularAnomalies(MetricsOf(q), sc.window, q.grain, q.dimensions, now,
            [m \in prior |-> BucketReads(q, MonthWindow(m), sc.filters, rows, GroupLimit)])
    ELSE IF sc.window.grain # "month" \/ now.count = 0 THEN {}   \* period_not_month, empty_period
    ELSE MonthlyAnomalies(MetricsOf(q), month, now.measures, prior, q.dimensions,
            BucketReads(q, Lookback(prior, month), sc.filters, rows, GroupLimit))

AnomalyAnswer(q, sc, now, rows) ==
    LET month == IF sc.window.month = None THEN MonthOf(sc.window.from) ELSE sc.window.month
    IN  AnomaliesOf(q, sc, now, month, SelectBaselineMonths(sc.months, month), rows)

AnswerOf(q, sc, now, rows) ==
    CASE q.view = "overview"  -> OverviewAnswer(sc, now, rows)
      [] q.view = "trends"    -> TrendAnswer(q, sc, now, rows)
      [] q.view = "drilldown" -> DrillAnswer(q, now, rows)
      [] q.view = "explorer"  -> ExplorerAnswer(q, sc, now, rows)
      [] q.view = "insights"  -> InsightAnswer(q, sc, now, rows)
      [] q.view = "anomalies" -> AnomalyAnswer(q, sc, now, rows)

NoSeen == [current |-> Empty, compared |-> Empty]

AnalyticsInit ==
    /\ Init
    /\ step = "idle" /\ request = None /\ question = None /\ scope = NoScope
    /\ seen = NoSeen /\ reads = NoReads /\ answer = {} /\ clicked = None

Publishes(i) == Publish(i, SnapshotOf[i]) /\ UNCHANGED reader

\* A request of the reader, its scope resolved.
Scoped(r, q, cell) ==
    /\ request' = r /\ question' = q /\ clicked' = cell
    /\ scope' = ResolveScope(RowsOf(history), r)
    /\ seen' = NoSeen /\ reads' = NoReads
    /\ step' = IF scope' = Refused THEN "refused"
               ELSE IF scope' = NoScope THEN "answered" ELSE "scoped"
    /\ answer' = {}
    /\ UNCHANGED published

Ask(ask) == step = "idle" /\ Scoped(ask.request, ask.question, None)

\* The reader closes the answer.
Close ==
    /\ step \in {"answered", "refused"}
    /\ step' = "idle" /\ request' = None /\ question' = None /\ scope' = NoScope
    /\ seen' = NoSeen /\ reads' = NoReads /\ answer' = {} /\ clicked' = None
    /\ UNCHANGED published

ReadCurrent ==
    /\ step = "scoped"
    /\ seen' = [seen EXCEPT !.current = history]
    /\ reads' = ReadOf(question, scope, RowsOf(history))
    /\ step' = IF reads' = Refused THEN "refused" ELSE "current"
    /\ UNCHANGED <<published, request, question, scope, answer, clicked>>

ReadCompared ==
    /\ step = "current"
    /\ seen' = [seen EXCEPT !.compared = history]
    /\ answer' = AnswerOf(question, scope, reads, RowsOf(history))
    /\ step' = "answered"
    /\ UNCHANGED <<published, request, question, scope, reads, clicked>>

(* What the reader may open *)

Opened(metric, dimension, parents, slice) ==
    [view |-> "drilldown", metric |-> metric, dimension |-> dimension, parents |-> parents,
     slice |-> slice]

Cell(row) == [value |-> row.value, prior |-> row.prior, count |-> row.count, seen |-> seen, scope |-> scope]

\* openTrendDrill: any point of the primary series but those of "Other".
OpenPoint(point) ==
    LET parents == IF question.dimension = None THEN <<>>
                   ELSE <<[dimension |-> question.dimension, value |-> point.key]>>
        dimension == IF question.dimension = "campaign_id" THEN "channel" ELSE "campaign_id"
    IN  /\ step = "answered" /\ question.view = "trends"
        /\ point.key # OtherKey
        /\ Scoped(request, Opened(question.metric, dimension, parents,
                                  [grain |-> question.grain, bucket |-> point.bucket]), Cell(point))

\* A drillable row of a drilldown, grouped by a next dimension.
OpenRow(row, dimension) ==
    LET parents == question.parents \o <<[dimension |-> question.dimension, value |-> row.key]>>
    IN  /\ step = "answered" /\ question.view = "drilldown"
        /\ row.drillable
        /\ dimension \in NextDimensions(question.parents, question.dimension)
        /\ Scoped(request, Opened(question.metric, dimension, parents, question.slice), Cell(row))

\* A row of the explorer that has a drill target, grouped by the first
\* dimension its path leaves.
DrillOrder == [campaign_id |-> 1, channel |-> 2, filter_logic_1 |-> 3, day |-> 4]

FirstDimension(path) ==
    LET left == DrillDimensions \ {path[i].dimension : i \in DOMAIN path}
    IN  CHOOSE d \in left : \A e \in left : DrillOrder[d] <= DrillOrder[e]
OpenRanked(row) ==
    /\ step = "answered" /\ question.view = "explorer"
    /\ row.path # <<>>
    /\ Scoped(request, Opened(question.metric, FirstDimension(row.path), row.path, None), Cell(row))

AnalyticsNext ==
    \/ \E i \in Ids : Publishes(i)
    \/ \E ask \in Asks : Ask(ask)
    \/ Close
    \/ ReadCurrent
    \/ ReadCompared
    \/ \E point \in answer : OpenPoint(point)
    \/ \E row \in answer : \E dimension \in DrillDimensions : OpenRow(row, dimension)
    \/ \E row \in answer : OpenRanked(row)

AnalyticsSpec == AnalyticsInit /\ [][AnalyticsNext]_vars

(* Properties *)

\* Type invariant: a drilldown that was opened is of the cell's metric and a
\* refused request shows nothing.
AnalyticsTypeOK ==
    /\ step \in {"idle", "scoped", "current", "answered", "refused"}
    /\ step = "idle" <=> request = None
    /\ step \in {"idle", "scoped", "current", "refused"} => answer = {}
    /\ clicked # None => question.view = "drilldown"
    /\ step \in {"scoped", "current"} => scope.history /\ scope.window.from < scope.window.to

\* Reference: the rows of a window that carry one of the selected values,
\* NULL read as blank.
RowsIn(h, from, to, filters) ==
    {r \in RowsOf(h) : /\ from <= r.day /\ r.day < to
                       /\ \A d \in Dimensions :
                            filters[d] = {} \/ r[d] \in filters[d] \/ (r[d] = NULL /\ Blank \in filters[d])}

Answered(view) == step = "answered" /\ scope # NoScope /\ question.view = view

\* The place of a bucket among the buckets the days of a window fall in.
Position(window, grain, b) ==
    Cardinality({c \in {BucketStart(d, grain) : d \in window.from..(window.to - 1)} : c <= b})

\* The points of a trend account for every row of the period once: bucket by
\* bucket the series, "Other" included, add up to the total of the period's
\* rows, a comparison value is the total of the bucket of the same position,
\* and the shares of a bucket make up the whole (trends,
\* list_published_history_series).
TrendsReconcile ==
    Answered("trends") =>
        LET rows == RowsIn(seen.current, scope.window.from, scope.window.to, scope.filters)
            Rows(b) == {r \in rows : BucketStart(r.day, question.grain) = b}
            Points(b) == {p \in answer : p.bucket = b}
            Value(b)  == SumOf([p \in Points(b) |-> Zero(p.value)])
            buckets == {p.bucket : p \in answer}
        IN  /\ {BucketStart(r.day, question.grain) : r \in rows} \subseteq buckets
            /\ \A b \in buckets :
                /\ SumOf([p \in Points(b) |-> p.count]) = Cardinality(Rows(b))
                /\ Metrics[question.metric].additive =>
                    Value(b) = Zero(SumMeasure(Rows(b), question.metric))
                /\ question.dimension # None /\ Value(b) # 0
                   /\ Metrics[question.metric].additive =>
                    Abs(SumOf([p \in Points(b) |-> Zero(p.share)]) - RateScale) <= Cardinality(answer)
            /\ scope.compare # None /\ question.dimension = None =>
                LET earlier   == RowsIn(seen.compared, scope.compare.from, scope.compare.to, scope.filters)
                    Paired(b) == {r \in earlier :
                        Position(scope.compare, question.grain, BucketStart(r.day, question.grain))
                            = Position(scope.window, question.grain, b)}
                IN  \A p \in answer :
                        p.prior = Pick(question.metric, SumAdditiveMeasures(Paired(p.bucket)))

\* Every row of a drilldown is the metric of the sums of its own facts, and
\* "Other" the metric of the sums of all facts no other row shows: no fact is
\* left out or counted twice, the shares make up the whole, and the
\* comparison is that of the same groups (_ranked_rows).
DrillReconciles ==
    Answered("drilldown") =>
        LET ds    == reads.scope
            facts == RowsIn(seen.current, ds.window.from, ds.window.to, ds.filters)
            past  == IF ds.compare = None THEN {}
                     ELSE RowsIn(seen.compared, ds.compare.from, ds.compare.to, ds.filters)
            shown == {row.key : row \in answer}
            Key(r)   == KeyOf(r, question.dimension)
            Own(k)   == {r \in facts : IF k = OtherKey THEN Key(r) \notin shown ELSE Key(r) = k}
            Then(k)  == {r \in past : /\ IF k = OtherKey THEN Key(r) \notin shown ELSE Key(r) = k
                                      /\ \E f \in facts : Key(f) = Key(r)}
            Sums(rs, k) == IF k = OtherKey /\ rs # {}
                           THEN [m \in AdditiveMeasures |-> Zero(SumMeasure(rs, m))]
                           ELSE SumAdditiveMeasures(rs)
        IN  /\ \A row \in answer :
                /\ row.count = Cardinality(Own(row.key))
                /\ row.value = Pick(question.metric, Sums(Own(row.key), row.key))
                /\ row.prior = Pick(question.metric, Sums(Then(row.key), row.key))
            /\ SumOf([row \in answer |-> row.count]) = Cardinality(facts)
            /\ Cardinality(shown \ {OtherKey}) <= MaxDrillRows
            /\ Volume(question.metric, SumAdditiveMeasures(facts)) > 0 =>
                Abs(SumOf([row \in answer |-> row.share]) - RateScale) <= Cardinality(answer)

\* A drilldown opened from a cell is about that cell: the facts it breaks down
\* make up the value that was clicked, of the current period and of the
\* comparison, when no publication came in between (openTrendDrill,
\* resolve_slice_windows, _validate_parents, explorer_drill_target).
DrillKeepsTheCell ==
    clicked # None /\ clicked.count > 0 =>
        /\ step = "refused" => seen.current # clicked.seen.current \/ scope # clicked.scope
        /\ step = "answered" /\ seen = clicked.seen /\ scope = clicked.scope =>
            LET ds == reads.scope
                Total(h, w) == SumAdditiveMeasures(RowsIn(h, w.from, w.to, ds.filters))
            IN  /\ Pick(question.metric, Total(seen.current, ds.window)) = clicked.value
                /\ clicked.prior # NULL =>
                    /\ ds.compare # None
                    /\ Pick(question.metric, Total(seen.compared, ds.compare)) = clicked.prior

\* The groups an insight of a month names as drivers are the ones that moved
\* the metric most in its direction, whichever of the two periods they occur
\* in, and a driver's movement is that of its facts (driver_rows, _same_sign).
DriversAreTheLargest ==
    Answered("insights") /\ Monthly(question) =>
        \A insight \in {a \in answer : a.category = "dominant_driver"} :
            LET now  == RowsIn(seen.current, scope.window.from, scope.window.to, scope.filters)
                past == RowsIn(seen.compared, scope.compare.from, scope.compare.to, scope.filters)
                Of(rows, k)  == Zero(SumMeasure({r \in rows : Coalesce(r[insight.dimension]) = k}, insight.metric))
                Moved(k)     == Of(now, k) - Of(past, k)
                Known(rows, k) == LET own == {r \in rows : Coalesce(r[insight.dimension]) = k}
                                  IN  own = {} \/ SumMeasure(own, insight.metric) # NULL
                With(k)      == /\ Known(now, k) /\ Known(past, k)
                                /\ (Moved(k) > 0) = (insight.delta > 0) /\ Moved(k) # 0
                keys         == {Coalesce(r[insight.dimension]) : r \in now \cup past}
                named        == {d.key : d \in insight.drivers}
            IN  /\ \A d \in insight.drivers : d.delta = Moved(d.key) /\ With(d.key)
                /\ \A k \in keys \ named, n \in named : With(k) => Abs(Moved(k)) <= Abs(Moved(n))

\* A request that names a month asks for it, beside the month before or nothing.
OfAMonth(r) ==
    /\ r.month # None /\ r.period \notin {"all_history", "range"} /\ r.compare_month = None
    /\ r.compare # "none" => r.compare_from = None /\ r.compare_to = None

\* A verdict on a past month stands: the KPIs, insights and anomalies of a month
\* that was asked for by name do not depend on facts published for later days
\* (select_baseline_months, resolve_comparison).
PastVerdictsStand ==
    /\ step = "answered" /\ scope # NoScope
    /\ question.view \in {"overview", "insights", "anomalies"}
    /\ OfAMonth(request)
    /\ seen.current = seen.compared
    /\ scope = ResolveScope(RowsOf(seen.current), request)
    =>  LET early == {r \in RowsOf(seen.current) : r.day < AddCalendarMonth(request.month)}
            past  == ResolveScope(early, request)
        IN  answer = AnswerOf(question, past, ReadOf(question, past, early), early)

\* What D6_INSIGHTS.md says of the drivers of an insight, for the insights of
\* days and weeks: a group present in one window only counts as 0 in the
\* other, any other group as what it had there.
DriversOfBucketsAreTheirGroups ==
    Answered("insights") /\ ~Monthly(question) =>
        \A item \in answer : \A d \in item.draft.drivers :
            LET past == {r \in RowsIn(seen.compared, scope.compare.from, scope.compare.to, scope.filters) :
                            BucketStart(r.day, question.grain) = item.before}
            IN  d.key # OtherKey =>
                d.prior = Zero(SumMeasure({r \in past : Coalesce(r[item.draft.dimension]) = d.key},
                                          item.draft.metric))
=============================================================================
