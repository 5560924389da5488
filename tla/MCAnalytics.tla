----------------------------- MODULE MCAnalytics -----------------------------
(***************************************************************************)
(* A small calendar (months of four days, weeks of three, never aligned),  *)
(* five months of facts of three campaigns and three channels, one of them *)
(* NULL, published by three publications in any order: the first four      *)
(* months, a restatement of the fourth with a campaign more, and a later   *)
(* month with a correction of the third.                                   *)
(***************************************************************************)
EXTENDS PublishedReaders, TLC

\* The copies of a workbook behave alike.
Symmetry == Permutations(Copies)

MonthFirstsDef == {0, 4, 8, 12, 16, 20}

G(c, d) == [campaign_id |-> c, day |-> d]
GrainOrderDef == <<G(1, 0), G(2, 2), G(1, 5), G(2, 6), G(1, 9), G(2, 11),
                   G(1, 12), G(2, 13), G(3, 15), G(1, 17), G(3, 19)>>
GrainsDef == {GrainOrderDef[i] : i \in 1..11}

F(channel, logic, delivered, revenue, cost) ==
    [channel |-> channel, filter_logic_1 |-> logic, sent |-> IF delivered = NULL THEN NULL ELSE delivered + 2,
     failed |-> 2, delivered |-> delivered, revenue_inr |-> revenue, total_cost |-> cost]

First == [g \in GrainsDef |->
    CASE g = G(1, 0)  -> F(1, 1, 10, 30, 8)
      [] g = G(2, 2)  -> F(2, 1, 12, 30, 8)
      [] g = G(1, 5)  -> F(1, 1, 11, 28, 9)
      [] g = G(2, 6)  -> F(NULL, 2, 24, 32, 9)
      [] g = G(1, 9)  -> F(1, 1, 10, 30, 6)
      [] g = G(2, 11) -> F(2, 2, 36, 30, 8)
      [] g = G(1, 12) -> F(1, 1, 40, 34, 9)
      [] g = G(2, 13) -> F(0, 2, NULL, 34, 11)
      [] OTHER        -> NoFact]
Second == [g \in GrainsDef |->
    CASE g = G(1, 12) -> F(1, 1, 48, 22, 12)
      [] g = G(2, 13) -> F(NULL, 2, 20, 30, 10)
      [] g = G(3, 15) -> F(2, 2, 30, 90, 7)
      [] OTHER        -> NoFact]
Third == [g \in GrainsDef |->
    CASE g = G(2, 11) -> F(2, 2, 35, 31, 8)
      [] g = G(1, 17) -> F(1, 1, 9, 12, 4)
      [] g = G(3, 19) -> F(2, 1, 9, 60, 20)
      [] OTHER        -> NoFact]

SnapshotOfDef == <<First, Second, Third>>
FactsDef == (UNION {{SnapshotOfDef[i][g] : g \in GrainsDef} : i \in 1..3}) \ {NoFact}

None0 == [d \in {"campaign_id", "channel", "filter_logic_1"} |-> {}]
R(period, month, from, to, compare, filters) ==
    [period |-> period, month |-> month, from |-> from, to |-> to, compare |-> compare,
     compare_month |-> None, compare_from |-> None, compare_to |-> None, filters |-> filters]

Latest    == R(None, None, None, None, None, None0)
April     == R(None, 12, None, None, None, None0)
Channels  == R(None, 12, None, None, None, [None0 EXCEPT !.channel = {0, 1, 7}])
Days      == R(None, None, 9, 13, "none", None0)
Everything == R("all_history", None, None, None, None, None0)
Ranges    == [R("range", None, 12, 18, None, None0) EXCEPT !.compare_from = 5, !.compare_to = 9]

Q(view, metric, dimension, grain) ==
    [view |-> view, metric |-> metric, dimension |-> dimension, grain |-> grain]
Signals(view, metric, dimensions, grain) ==
    [view |-> view, metric |-> metric, dimensions |-> dimensions, grain |-> grain]
Drill(metric, dimension, parents) ==
    [view |-> "drilldown", metric |-> metric, dimension |-> dimension, parents |-> parents, slice |-> None]
Ranking(metric, dimension, secondary, mode, sort) ==
    [view |-> "explorer", metric |-> metric, dimension |-> dimension, secondary |-> secondary,
     mode |-> mode, mover |-> "up", sort |-> sort, desc |-> TRUE, limit |-> 2,
     min_value |-> None, min_contribution |-> None]

Earlier   == [April EXCEPT !.compare_month = 4]
Cheapest  == [Ranking("delivered", "day", None, "bottom", "value") EXCEPT !.desc = FALSE, !.min_value = 10]

Both == <<"campaign_id", "channel">>

AsksDef ==
    {[request |-> p[1], question |-> p[2]] : p \in
        ({April, Ranges, Days} \X
            {Q("trends", "total_cost", None, "week"), Q("trends", "delivered", "campaign_id", "day")})
        \cup ({Latest, Channels} \X {Q("trends", "delivery_rate", None, "month"), Q("overview", None, None, None)})
        \cup ({April, Everything, Channels} \X {Drill("revenue_inr", "campaign_id", <<>>)})
        \cup ({Ranges} \X {Drill("overall_roas", "day", <<>>)})
        \cup ({April, Ranges} \X
            {Ranking("total_cost", "campaign_id", "channel", "ranking", "contribution"),
             Ranking("delivered", "filter_logic_1", None, "movers", "delta")})
        \cup ({April, Latest, Days} \X
            {Signals("insights", None, Both, "month"), Signals("anomalies", None, Both, "month")})
        \cup ({April, Latest} \X
            {Signals("insights", None, Both, "day"), Signals("anomalies", None, <<"campaign_id">>, "week")})
        \cup ({Ranges} \X {Signals("insights", None, Both, "week"), Signals("anomalies", None, Both, "day")})
        \cup ({Channels} \X {Signals("anomalies", "revenue_inr", Both, "month"), Cheapest})
        \cup ({[Days EXCEPT !.to = 6]} \X {Drill("delivery_rate", "channel", <<>>)})
        \cup ({Earlier} \X {Signals("insights", None, Both, "month"), Q("trends", "revenue_inr", None, "day"),
                            Drill("total_cost", "channel", <<[dimension |-> "campaign_id", value |-> 2]>>)})}

(* Questions in words *)

W(says, metrics) ==
    [says |-> says, metrics |-> metrics, dimension |-> None, grain |-> None, breakdown |-> None, pair |-> None]

NoFocus ==
    [metric |-> None, trend_metric |-> None, explorer_metric |-> None, drill_metric |-> None,
     dimension |-> None, explorer_dimension |-> None, drill_dimension |-> None, insight |-> None,
     anomaly |-> None, trend_grain |-> None, trend_breakdown |-> None, explorer_mode |-> None,
     drill_parents |-> <<>>]

Words(source, words, focus, asked) ==
    [source |-> source, words |-> words, focus |-> focus, request |-> asked]

Revenue == <<"revenue_inr">>

QuestionsDef ==
    { Words("overview", W({"why", "change"}, Revenue), NoFocus, April),
      Words("kpi", W({"kpi_focus"}, <<>>), [NoFocus EXCEPT !.metric = "total_cost"], Channels),
      Words("overview", W({"what_changed"}, <<>>), NoFocus, Latest),
      Words("overview", W({"current_context", "current"}, <<>>), NoFocus, Days),
      Words("overview", W({"driver"}, <<>>), NoFocus, April),
      Words("insight", W({}, <<>>), [NoFocus EXCEPT !.insight = <<"dominant_driver", "revenue_inr">>], April),
      Words("overview", W({"unusual"}, <<>>), NoFocus, April),
      Words("drill", W({}, <<>>), [NoFocus EXCEPT !.drill_metric = "revenue_inr",
                                                  !.drill_dimension = "campaign_id"], Everything),
      Words("overview", [W({"rank_value"}, Revenue) EXCEPT !.dimension = "channel"], NoFocus, April),
      Words("overview", [W({"compare"}, <<"delivered">>) EXCEPT !.pair = <<1, 2>>], NoFocus, Earlier),
      Words("trend", W({}, <<>>), [NoFocus EXCEPT !.trend_metric = "total_cost", !.trend_grain = "week"], Ranges),
      Words("trend", W({}, <<>>), [NoFocus EXCEPT !.trend_metric = "delivered", !.trend_grain = "day",
                                                  !.trend_breakdown = "channel"], April),
      Words("overview", [W({"generate_trend", "no_comparison"}, <<"delivery_rate">>)
                            EXCEPT !.grain = "month"], NoFocus, Ranges),
      Words("overview", W({"generate_trend", "unknown_selection"}, <<"delivered">>), NoFocus, April),
      Words("overview", W({"sql_request"}, <<>>), NoFocus, April),
      Words("overview", W({"rank_period"}, <<>>), NoFocus, April),
      Words("overview", W({}, <<>>), NoFocus, April),
      Words("insight", W({}, <<>>), [NoFocus EXCEPT !.dimension = "day"], April),
      Words("explorer", W({}, <<>>), [NoFocus EXCEPT !.explorer_mode = "movers"], Days) }

P(operation, metric, dimension) == [operation |-> operation, metric |-> metric, dimension |-> dimension]

IntentProposalsDef ==
    { P("identify_driver", None, None), P("compare_periods", None, None), P("unsupported", None, None),
      P("drop_tables", None, None), P("generate_trend", "revenue_inr", None),
      P("explain_explorer_result", "delivered", "channel") }

TrendProposalsDef ==
    { [metric |-> "revenue_inr", secondary |-> None, grain |-> "week", breakdown |-> "campaign_id", compare |-> None],
      [metric |-> "revenue_inr", secondary |-> "delivered", grain |-> "week", breakdown |-> "campaign_id",
       compare |-> None] }
=============================================================================
