------------------------------ MODULE Measures ------------------------------
(***************************************************************************)
(* Measures of fact rows and the KPIs computed from their sums (divide.py, *)
(* aggregate.py, kpis.py): sums skip NULL and are NULL when every value    *)
(* is, a ratio is taken after the sums, and a zero or NULL denominator     *)
(* gives NULL.  Money is counted in whole units; a rate is an integer      *)
(* number of 1/RateScale, rounded half up.  The chained KPIs of the "qa"          *)
(* namespace are left out: the analytics read the "client" namespace,      *)
(* which has none.                                                         *)
(***************************************************************************)
EXTENDS Integers, FiniteSetsExt

CONSTANTS
    NULL,       \* SQL NULL, Python None
    RateScale   \* units of a rate (10^6 in the code)

ASSUME MeasuresAssumption == RateScale \in Nat \ {0} /\ NULL \notin Int

AdditiveMeasures == {"sent", "failed", "delivered", "revenue_inr", "total_cost"}

Abs(n) == IF n < 0 THEN -n ELSE n

\* Quotient rounded half away from zero (ROUND_HALF_UP of Decimal).
RoundHalfUp(n, d) ==
    LET q == (2 * Abs(n) + Abs(d)) \div (2 * Abs(d))
    IN  IF (n < 0) = (d < 0) THEN q ELSE -q

SafeDivide(n, d) ==
    IF n = NULL \/ d = NULL \/ d = 0 THEN NULL ELSE RoundHalfUp(n * RateScale, d)

SafeSubtract(a, b) == IF a = NULL \/ b = NULL THEN NULL ELSE a - b

SumOf(f) == FoldFunction(+, 0, f)

\* SQL SUM, and _sum_measure in memory.
SumMeasure(rows, name) ==
    LET seen == {r \in rows : r[name] # NULL}
    IN  IF seen = {} THEN NULL ELSE SumOf([r \in seen |-> r[name]])

SumAdditiveMeasures(rows) == [name \in AdditiveMeasures |-> SumMeasure(rows, name)]

\* KPI_SPECS of the client namespace that the hero KPIs name, and one linear one.
KpiSpecs ==
    [delivery_rate |-> [num |-> "delivered",   den |-> "sent",       op |-> "divide"],
     overall_roas  |-> [num |-> "revenue_inr", den |-> "total_cost", op |-> "divide"],
     actual_sent   |-> [num |-> "sent",        den |-> "failed",     op |-> "subtract"]]

\* compute_kpis, of one KPI: operations on sums, never on rates.
ComputeKpi(spec, measures) ==
    IF spec.op = "divide" THEN SafeDivide(measures[spec.num], measures[spec.den])
    ELSE SafeSubtract(measures[spec.num], measures[spec.den])

\* HERO_KPIS, which are also the trend metrics: a summed measure or a client KPI.
Metrics ==
    [total_cost    |-> [kind |-> "money", additive |-> TRUE,  of |-> "total_cost",    den |-> "none"],
     delivered     |-> [kind |-> "count", additive |-> TRUE,  of |-> "delivered",     den |-> "none"],
     revenue_inr   |-> [kind |-> "money", additive |-> TRUE,  of |-> "revenue_inr",   den |-> "none"],
     delivery_rate |-> [kind |-> "rate",  additive |-> FALSE, of |-> "delivery_rate", den |-> "sent"],
     overall_roas  |-> [kind |-> "roas",  additive |-> FALSE, of |-> "overall_roas",  den |-> "total_cost"]]

\* _pick_metric.
PickAs(spec, measures) ==
    IF spec.additive THEN measures[spec.of] ELSE ComputeKpi(KpiSpecs[spec.of], measures)

Pick(metric, measures) == PickAs(Metrics[metric], measures)

\* rank_measure_name: the volume that orders groups, a ratio's denominator.
RankMeasureOf(spec) == IF spec.additive THEN spec.of ELSE spec.den
RankMeasure(metric) == RankMeasureOf(Metrics[metric])

\* _volume.
Zero(v) == IF v = NULL THEN 0 ELSE v
Volume(metric, measures) == Zero(measures[RankMeasure(metric)])

\* _combine_measures: the leftovers of a ranking, a missing value counted as 0.
CombineMeasures(groups) ==
    [name \in AdditiveMeasures |-> SumOf([g \in groups |-> Zero(g.measures[name])])]
=============================================================================
