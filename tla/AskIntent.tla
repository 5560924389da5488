------------------------------ MODULE AskIntent ------------------------------
(***************************************************************************)
(* What a question asks for (ask.py): refusals, the ordered rules that     *)
(* choose an operation, the registry of operations, and what is taken of a *)
(* language model's proposal.  A question is                               *)
(*   says      the wordings (regular expressions) it matches,              *)
(*   metrics   the metrics it names, in the order of METRIC_ALIASES,       *)
(*   dimension the dimension it names, or None,                            *)
(*   grain, breakdown   what "by <...>" asks of a trend, or None,          *)
(*   pair      the two names around "with", "vs", or None.                 *)
(***************************************************************************)
EXTENDS Views, SequencesExt

CONSTANT ChannelHints   \* CHANNEL_HINTS, the keys of the channels

FirstOf(s)   == IF s = <<>> THEN None ELSE s[1]
Or(a, b)     == IF a # None THEN a ELSE b

\* refuse_question: the first of these that the question matches.
RefusalOrder ==
    <<"prompt_injection", "sql_request", "scope_widen", "unpublished", "mutate", "secrets",
      "foreign_company">>
Refusal(q) == FirstOf(SelectSeq(RefusalOrder, LAMBDA w : w \in q.says))

\* OPERATIONS: the view behind an operation and what it requires.
Spec2(view, comparison, groups, dimensions) ==
    [view |-> view, comparison |-> comparison, groups |-> groups, dimensions |-> dimensions]

Operations ==
    [explain_metric_change     |-> Spec2("overview", TRUE, FALSE, {}),
     compare_periods           |-> Spec2("overview", TRUE, FALSE, {}),
     summarize_current_context |-> Spec2("overview", FALSE, FALSE, {}),
     identify_driver           |-> Spec2("insights", TRUE, FALSE, DrillDimensions),
     explain_insight           |-> Spec2("insights", TRUE, FALSE, DrillDimensions),
     explain_anomaly           |-> Spec2("anomalies", FALSE, FALSE, DrillDimensions),
     compare_dimensions        |-> Spec2("explorer", FALSE, TRUE, DrillDimensions \ {"day"}),
     explain_explorer_result   |-> Spec2("explorer", FALSE, FALSE, DrillDimensions),
     explain_drilldown         |-> Spec2("drilldown", FALSE, FALSE, DrillDimensions),
     summarize_trend           |-> Spec2("trends", FALSE, FALSE, DrillDimensions),
     generate_trend            |-> Spec2("trends", FALSE, FALSE, Dimensions)]

\* IntentDecision.
Run(operation, metric, dimension, groups) ==
    [operation |-> operation, metric |-> metric, dimension |-> dimension, groups |-> groups,
     reason |-> None]
Unsupported(reason) == [Run(None, None, None, <<>>) EXCEPT !.reason = reason]

\* extract_compare_groups: two different names, neither of them a period.
CompareGroups(q) ==
    IF q.pair = None \/ "period_pair" \in q.says THEN <<>>
    ELSE IF q.pair[1] = q.pair[2] THEN <<>> ELSE q.pair

NamedMetric(q) == FirstOf(q.metrics)

Rule(when, then) == [when |-> when, then |-> then]

\* _classify_intent: what the object in focus and the words give; the first
\* rule that applies decides.
ObjectRules(q, source, focus, metric) ==
    LET Says(w)   == w \in q.says
        groups    == CompareGroups(q)
        Of(op)    == Run(op, metric, focus.dimension, <<>>)
        compared  == IF ToSet(groups) \subseteq ChannelHints THEN "channel"
                     ELSE Or(focus.dimension, "channel")
    IN  << Rule(Says("generate_trend"), Run("generate_trend", metric, None, <<>>)),
           Rule(groups # <<>> /\ Says("compare"), Run("compare_dimensions", metric, compared, groups)),
           Rule(source = "insight" \/ focus.insight # None \/ Says("insight"), Of("explain_insight")),
           Rule(source = "anomaly" \/ focus.anomaly # None \/ Says("unusual"), Of("explain_anomaly")),
           Rule(source = "drill" \/ Says("drill"), Of("explain_drilldown")),
           Rule(source = "explorer" \/ Says("ranking"), Of("explain_explorer_result")) >>

WordRules(q, source, focus, metric) ==
    LET Says(w) == w \in q.says
        Of(op)  == Run(op, metric, focus.dimension, <<>>)
    IN  << Rule(Says("rank_period") /\ q.dimension = None, Unsupported("period_rank_unsupported")),
           Rule(Says("contribution"),
                Run("identify_driver", metric, Or(focus.dimension, q.dimension), <<>>)),
           Rule(q.dimension # None /\ Says("rank_value"),
                Run("explain_explorer_result", metric, q.dimension, <<>>)),
           Rule(source = "trend" \/ Says("trend"), Of("summarize_trend")),
           Rule(Says("driver"), Of("identify_driver")) >>

ChangeRules(q, source, metric) ==
    LET Says(w) == w \in q.says
        found   == NamedMetric(q)
        Of(op)  == Run(op, metric, None, <<>>)
        change  == Of("explain_metric_change")
    IN  << Rule(Says("why"), IF metric = None THEN Unsupported("unsupported_metric") ELSE change),
           Rule(Says("what_changed") /\ metric # None, change),
           Rule(Says("what_changed") \/ Says("periods"), Of("compare_periods")),
           Rule(Says("current_context") /\ ~Says("change"), Of("summarize_current_context")),
           Rule(source = "kpi" /\ metric # None /\ Says("unrelated"), Unsupported("unsupported_intent")),
           Rule(/\ source = "kpi" /\ metric # None
                /\ found # None \/ Says("kpi_focus") \/ Says("causal"), change),
           Rule(found # None, [change EXCEPT !.metric = found]),
           Rule(TRUE, Unsupported("unsupported_intent")) >>

Deciding(rules) == rules[Min({i \in DOMAIN rules : rules[i].when})].then

Classified0(q, source, focus) ==
    LET metric == Or(NamedMetric(q), focus.metric)
    IN  Deciding(ObjectRules(q, source, focus, metric) \o WordRules(q, source, focus, metric)
                 \o ChangeRules(q, source, metric))

\* apply_operation_spec.
Allowed(d, spec) ==
    IF d.metric # None /\ d.metric \notin DOMAIN Metrics THEN Unsupported("unsupported_metric")
    ELSE IF d.dimension # None /\ spec.dimensions # {} /\ d.dimension \notin spec.dimensions
         THEN Unsupported("unsupported_dimension")
    ELSE IF spec.groups /\ Len(d.groups) < 2 THEN Unsupported("insufficient_evidence")
    ELSE IF spec.dimensions = {} THEN Run(d.operation, d.metric, None, d.groups) ELSE d

ApplyOperationSpec(d) ==
    IF d.operation = None THEN d
    ELSE IF d.operation \notin DOMAIN Operations THEN Unsupported("unsupported_operation")
    ELSE Allowed(d, Operations[d.operation])

ClassifyIntent(q, source, focus) == ApplyOperationSpec(Classified0(q, source, focus))

\* parse_ask_intent_selection: the model's proposal, None when it is not one of
\* the registry.  What it leaves open is taken from the question.
Proposed(raw, q) ==
    LET metric == Or(raw.metric, NamedMetric(q))
    IN  Run(raw.operation,
            IF metric = None /\ raw.operation = "identify_driver" THEN "revenue_inr" ELSE metric,
            Or(raw.dimension, q.dimension),
            IF raw.operation = "compare_dimensions" THEN CompareGroups(q) ELSE <<>>)

ParseAskIntentSelection(raw, q) ==
    IF raw.operation = "unsupported" THEN Unsupported("unsupported_intent")
    ELSE IF \/ raw.operation \notin DOMAIN Operations
            \/ raw.metric # None /\ raw.metric \notin DOMAIN Metrics
            \/ raw.dimension # None /\ raw.dimension \notin DrillDimensions
            \/ /\ raw.operation \in {"explain_metric_change", "compare_periods"}
               /\ Proposed(raw, q).metric = None
         THEN None
    ELSE Proposed(raw, q)

(* Trend selections *)

\* parse_generated_trend_selection and validate_trend_selection.
ValidSelection(s) ==
    /\ s.metric \in DOMAIN Metrics
    /\ s.secondary # None => s.secondary \in DOMAIN Metrics \ {s.metric} /\ s.breakdown = None
    /\ s.grain \in {"day", "week", "month"}
    /\ s.breakdown # None => s.breakdown \in Dimensions
    /\ s.compare \in {None, "none"}

ParseTrendSelection(s) == IF ValidSelection(s) THEN s ELSE Refused

\* parse_trend_request_text: the selection the words of the question give.
ParseTrendRequestText(q) ==
    IF "unknown_selection" \in q.says \/ q.metrics = <<>> THEN Refused
    ELSE ParseTrendSelection(
        [metric    |-> q.metrics[1],
         secondary |-> IF Len(q.metrics) > 1 THEN q.metrics[2] ELSE None,
         grain     |-> Or(q.grain, "day"),
         breakdown |-> q.breakdown,
         compare   |-> IF "no_comparison" \in q.says THEN "none" ELSE None])
=============================================================================
