---------------------------- MODULE HistoryReads ----------------------------
(***************************************************************************)
(* The reads of a client's published history that every analytics view is  *)
(* built from (dfip_db/publication_store.py): each is one statement over   *)
(* publication_history_grain, filtered by a window of days and by selected *)
(* dimension values, grouped by bucket, dimension or pair of dimensions.   *)
(* A dimension value is a number and Blank stands for '': NULL and '' are  *)
(* one group and one filter option.  Labels are left out, so an order by   *)
(* label is an order by value.                                             *)
(***************************************************************************)
EXTENDS Calendar, Measures

CONSTANTS
    None,        \* an absent parameter or value
    Blank,       \* the empty text
    OtherKey,    \* OTHER_SERIES_KEY
    MaxSeries    \* MAX_BREAKDOWN_SERIES

ASSUME HistoryReadsAssumption ==
    /\ Blank \in Int /\ OtherKey \in Int \ {Blank}
    /\ MaxSeries \in Nat \ {0}

\* ALLOWED_DIMENSIONS; the drill and the explorer also group by day.
Dimensions      == {"campaign_id", "channel", "filter_logic_1"}
DrillDimensions == Dimensions \cup {"day"}

NoFilters == [d \in Dimensions |-> {}]

\* COALESCE(column, '')
Coalesce(v) == IF v = NULL THEN Blank ELSE v

\* _text_predicate: no values select every row.
TextPredicate(v, values) == values = {} \/ Coalesce(v) \in values

\* _history_where
Selected(rows, from, to, filters) ==
    {r \in rows : /\ from <= r.day /\ r.day < to
                  /\ \A d \in Dimensions : TextPredicate(r[d], filters[d])}

In(rows, window, filters) == Selected(rows, window.from, window.to, filters)

ListPublishedMonthStarts(rows) == {MonthOf(r.day) : r \in rows}

\* published_day_bounds of a history with rows.
PublishedDayBounds(rows) ==
    LET days == {r.day : r \in rows} IN [min |-> Min(days), max |-> Max(days)]

\* sum_published_history
SumPublishedHistory(rows, window, filters) ==
    LET found == In(rows, window, filters)
    IN  [measures |-> SumAdditiveMeasures(found), count |-> Cardinality(found)]

\* list_published_filter_values
FilterValues(rows, window, dimension) ==
    {Coalesce(r[dimension]) : r \in In(rows, window, NoFilters)}

KeyOf(r, dimension) == IF dimension = "day" THEN r.day ELSE Coalesce(r[dimension])

Totals(rows) == [measures |-> SumAdditiveMeasures(rows), count |-> Cardinality(rows)]

\* list_published_history_groups
Groups(rows, window, filters, dimension) ==
    LET found == In(rows, window, filters)
        Of(k) == Totals({r \in found : KeyOf(r, dimension) = k})
    IN  {[key |-> k, measures |-> Of(k).measures, count |-> Of(k).count]
            : k \in {KeyOf(r, dimension) : r \in found}}

\* list_published_history_pairs
Pairs(rows, window, filters, primary, secondary) ==
    LET found == In(rows, window, filters)
        Of(k) == Totals({r \in found : <<KeyOf(r, primary), KeyOf(r, secondary)>> = k})
    IN  {[parent |-> k[1], key |-> k[2], measures |-> Of(k).measures, count |-> Of(k).count]
            : k \in {<<KeyOf(r, primary), KeyOf(r, secondary)>> : r \in found}}

\* ORDER BY SUM(rank) DESC NULLS LAST, dim_value
RanksBefore(a, b, rank) ==
    LET x == a.measures[rank]
        y == b.measures[rank]
    IN  \/ x # NULL /\ y = NULL
        \/ x # NULL /\ y # NULL /\ x > y
        \/ x = y /\ a.key < b.key

\* LIMIT cap
TopKeys(groups, rank, cap) ==
    {g.key : g \in {x \in groups :
        Cardinality({y \in groups : RanksBefore(y, x, rank)}) < cap}}

\* Mutant: the groups outside the ranking are dropped, not gathered in "Other".
SeriesTopOnly(rows, window, filters, grain, breakdown, rank, cap) ==
    LET found == In(rows, window, filters)
        kept  == TopKeys(Groups(rows, window, filters, breakdown), rank, cap)
        SeriesOf(r) == KeyOf(r, breakdown)
        Of(k) == Totals({r \in found : <<BucketStart(r.day, grain), SeriesOf(r)>> = k})
    IN  {[bucket |-> k[1], key |-> k[2], measures |-> Of(k).measures, count |-> Of(k).count]
            : k \in {<<BucketStart(r.day, grain), SeriesOf(r)>>
                        : r \in {x \in found : SeriesOf(x) \in kept}}}

\* list_published_history_series with a breakdown: the top groups of the
\* window, the others gathered as one series.
Series(rows, window, filters, grain, breakdown, rank, cap) ==
    LET found == In(rows, window, filters)
        kept  == TopKeys(Groups(rows, window, filters, breakdown), rank, cap)
        SeriesOf(r) == IF KeyOf(r, breakdown) \in kept THEN KeyOf(r, breakdown) ELSE OtherKey
        Of(k) == Totals({r \in found : <<BucketStart(r.day, grain), SeriesOf(r)>> = k})
    IN  {[bucket |-> k[1], key |-> k[2], measures |-> Of(k).measures, count |-> Of(k).count]
            : k \in {<<BucketStart(r.day, grain), SeriesOf(r)>> : r \in found}}

\* ... and without: one row per bucket that has rows.
TotalSeries(rows, window, filters, grain) ==
    LET found == In(rows, window, filters)
        Of(b) == Totals({r \in found : BucketStart(r.day, grain) = b})
    IN  {[bucket |-> b, key |-> None, measures |-> Of(b).measures, count |-> Of(b).count]
            : b \in {BucketStart(r.day, grain) : r \in found}}
=============================================================================
