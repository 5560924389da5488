------------------------------ MODULE AskService ------------------------------
(***************************************************************************)
(* AskService (ask_service.py): a question in words, put from the overview *)
(* page with the object in focus.  Refused questions are told so; the      *)
(* others run one operation, whose reads are those of AnalyticsService,    *)
(* and the evidence it gives is worded by the template or by a language    *)
(* model that is not trusted: it may fail, propose any operation or trend, *)
(* and reply any text.  Without a model the behaviours are those where it  *)
(* fails.  Reasons of unsupported answers and caveats are left out.        *)
(***************************************************************************)
EXTENDS AnalyticsService, AskWording

CONSTANTS
    Questions,        \* what may be asked: the words, the object in focus, the request
    IntentProposals,  \* operations the model may propose
    TrendProposals,   \* trend selections the model may propose
    Invented,         \* numbers that are in no evidence, one of them reads as a year
    AskLimit,         \* the explorer rows an operation asks for (25)
    MaxEvidenceRows   \* MAX_EVIDENCE_ROWS

ASSUME AskAssumption == AskLimit \in Nat \ {0} /\ MaxEvidenceRows \in Nat \ {0}

\* A list, of whatever it lists.
IsList(s) == s \in Seq({s[i] : i \in DOMAIN s})

\* Other metrics and dimensions are refused before any read, and the parents
\* of a drilldown are a list (parse_trend_metric, parse_trend_grain,
\* parse_breakdown, drill_metric, parse_parents, explorer_metric,
\* parse_insight_metric, parse_insight_dimension).
NamesTheKnown(q) ==
    /\ q.view = "insights" => q.dimensions \in Seq(Dimensions) /\ q.metric \in DOMAIN Metrics \cup {None}
    /\ q.view \in {"trends", "drilldown", "explorer"} => q.metric \in DOMAIN Metrics
    /\ q.view = "trends" => q.grain \in {"day", "week", "month"} /\ q.dimension \in Dimensions \cup {None}
    /\ q.view = "drilldown" => IsList(q.parents)

\* The days of a request are dates or absent (OptionalDate).
AsksForDays(r) ==
    /\ {"from", "to", "compare_from", "compare_to"} \subseteq DOMAIN r
    /\ {r.from, r.to, r.compare_from, r.compare_to} \subseteq Int \cup {None}

\* parse_ask_metric, parse_ask_dimension, parse_trend_grain
ASSUME NamesAreKnown ==
    /\ \A ask \in Asks : NamesTheKnown(ask.question) /\ AsksForDays(ask.request)
    /\ \A a \in Questions :
        /\ AsksForDays(a.request)
        /\ {a.focus.metric, a.focus.trend_metric, a.focus.explorer_metric, a.focus.drill_metric}
             \subseteq DOMAIN Metrics \cup {None}
        /\ a.focus.dimension \in Dimensions \cup {None, "day"}
        /\ a.focus.trend_grain \in {"day", "week", "month", None}
        /\ a.focus.trend_breakdown \in Dimensions \cup {None}
        /\ IsList(a.focus.drill_parents)

VARIABLE talk   \* the question being answered, None between questions

askVars == <<vars, talk>>

Stage(stage) == talk # None /\ talk.stage = stage

(* Choosing the operation *)

Talk(stage, ask, decision, called) ==
    [stage |-> stage, ask |-> ask, decision |-> decision, called |-> called,
     evidence |-> None, said |-> None]

\* _terminal: an answer without values.
Told(ask, status) ==
    [Talk(status, ask, None, FALSE) EXCEPT !.said = [by |-> "copy", clauses |-> <<>>, moved |-> None]]

\* What ask passes to classify_intent of the focus.
InFocus(f) ==
    [metric    |-> Or(f.metric, Or(f.trend_metric, Or(f.explorer_metric, f.drill_metric))),
     dimension |-> Or(f.dimension, Or(f.explorer_dimension, f.drill_dimension)),
     insight   |-> f.insight, anomaly |-> f.anomaly]

\* _run: the metric and the dimension of the operation.
MetricOf(d, f) == Or(d.metric, Or(f.metric, Or(f.trend_metric, Or(f.explorer_metric, "total_cost"))))
DimensionOf(d, f) ==
    IF Operations[d.operation].dimensions = {} THEN None
    ELSE Or(d.dimension, Or(f.dimension, Or(f.explorer_dimension, Or(f.drill_dimension, "channel"))))

DriverDimensions(dimension) == IF dimension = None THEN <<"campaign_id", "channel">> ELSE <<dimension>>

ExplorerQuestion(metric, dimension, mode) ==
    [view |-> "explorer", metric |-> metric, dimension |-> dimension, secondary |-> None,
     mode |-> mode, mover |-> "up", sort |-> IF mode = "movers" THEN "delta" ELSE "value",
     desc |-> mode # "bottom", limit |-> AskLimit, min_value |-> None, min_contribution |-> None]

TrendQuestion(metric, dimension, grain) ==
    [view |-> "trends", metric |-> metric, dimension |-> dimension, grain |-> grain]

SignalQuestion(view, metric, dimension) ==
    [view |-> view, metric |-> metric, dimensions |-> DriverDimensions(dimension), grain |-> "month"]

\* _run: the view an operation asks for, with its parameters.
QuestionOf(d, f) ==
    LET metric    == MetricOf(d, f)
        dimension == DimensionOf(d, f)
        view      == Operations[d.operation].view
    IN  CASE view = "overview"  -> [view |-> view, metric |-> None, dimension |-> None, grain |-> None]
          [] view = "insights"  -> SignalQuestion(view, Or(d.metric, f.metric), f.dimension)
          [] view = "anomalies" ->
                SignalQuestion(view, Or(d.metric, f.metric),
                               IF f.dimension = "day" THEN None ELSE Or(d.dimension, f.dimension))
          [] view = "explorer"  -> ExplorerQuestion(metric, dimension, Or(f.explorer_mode, "ranking"))
          [] view = "trends"    -> TrendQuestion(Or(f.trend_metric, metric), f.trend_breakdown,
                                           Or(f.trend_grain, "day"))
          [] view = "drilldown" ->
                [view |-> view, metric |-> Or(f.drill_metric, metric),
                 dimension |-> Or(f.drill_dimension, dimension), parents |-> f.drill_parents, slice |-> None]

\* "day" is no dimension of an insight: the request is refused before any read.
RefusedDimension(d, f) == Operations[d.operation].view = "insights" /\ f.dimension = "day"

\* A decision is told, or asks for a trend selection, or reads its view.
Proceed(a, d, called) ==
    \/ /\ d.operation = None
       /\ talk' = Told(a, "unsupported") /\ UNCHANGED vars
    \/ /\ d.operation = "generate_trend"
       /\ talk' = Talk("selection", a, d, called) /\ UNCHANGED vars
    \/ /\ d.operation \notin {None, "generate_trend"} /\ RefusedDimension(d, a.focus)
       /\ talk' = Told(a, "failed") /\ UNCHANGED vars
    \/ /\ d.operation \notin {None, "generate_trend"} /\ ~RefusedDimension(d, a.focus)
       /\ talk' = Talk("reading", a, d, called)
       /\ Scoped(a.request, QuestionOf(d, a.focus), None)

DecisionOf(a) == ClassifyIntent(a.words, a.source, InFocus(a.focus))

RefuseQuestion(a) ==
    /\ step = "idle" /\ talk = None
    /\ Refusal(a.words) # None
    /\ talk' = Told(a, "refused") /\ UNCHANGED vars

\* A question the rules make nothing of goes to the model.
Unclear(a) == DecisionOf(a).reason = "unsupported_intent"

AskModel(a) ==
    /\ step = "idle" /\ talk = None
    /\ Refusal(a.words) = None /\ Unclear(a)
    /\ talk' = Talk("intent", a, DecisionOf(a), FALSE) /\ UNCHANGED vars

AskQuestion(a) ==
    /\ step = "idle" /\ talk = None
    /\ Refusal(a.words) = None /\ ~Unclear(a)
    /\ Proceed(a, DecisionOf(a), FALSE)

\* _resolve_ask_intent: a proposal of the registry is taken, anything else
\* leaves the question unsupported.
IntentReply(raw) ==
    /\ Stage("intent")
    /\ LET parsed == ParseAskIntentSelection(raw, talk.ask.words)
       IN  Proceed(talk.ask, IF parsed = None THEN talk.decision ELSE ApplyOperationSpec(parsed), TRUE)

IntentFails ==
    /\ Stage("intent")
    /\ Proceed(talk.ask, talk.decision, TRUE)

(* generate_trend *)

\* _resolve_generated_trend_selection
Selection(raw, q) ==
    IF raw = None THEN ParseTrendRequestText(q)
    ELSE IF ParseTrendSelection(raw) = Refused THEN ParseTrendRequestText(q) ELSE raw

WithoutComparison(r) ==
    [r EXCEPT !.compare = "none", !.compare_month = None, !.compare_from = None, !.compare_to = None]

\* _ask_generate_trend, raw is None when the model fails.
SelectionReply(raw) ==
    /\ Stage("selection")
    /\ LET s == Selection(raw, talk.ask.words)
       IN  IF s = Refused THEN talk' = Told(talk.ask, "unsupported") /\ UNCHANGED vars
           ELSE /\ talk' = [talk EXCEPT !.stage = "reading"]
                /\ Scoped(IF s.compare = "none" THEN WithoutComparison(talk.ask.request)
                                              ELSE talk.ask.request,
                          TrendQuestion(s.metric, s.breakdown, s.grain), None)

(* The evidence of an operation, {} when there is not enough *)

HeroOrder == <<"total_cost", "revenue_inr", "overall_roas", "delivered", "delivery_rate">>

\* The cards of the overview, in the order of HERO_KPIS.
CardLines == [i \in DOMAIN HeroOrder |->
    LET card == CHOOSE c \in answer : c.key = HeroOrder[i]
    IN  MetricLine(card.key, card.value, card.prior)]

LineOf(lines, m, default) ==
    LET own == SelectSeq(lines, LAMBDA l : l.name = <<"metric", m>>)
    IN  IF own # <<>> THEN own[1] ELSE default

\* compare_periods: the cards that moved, the largest movement first.
Movers(lines) ==
    LET moved == {i \in DOMAIN lines : lines[i].pct # NULL}
        order == SetToSortSeq(moved, LAMBDA i, j :
                    Abs(lines[i].pct) > Abs(lines[j].pct) \/ (Abs(lines[i].pct) = Abs(lines[j].pct) /\ i < j))
    IN  [i \in DOMAIN order |-> lines[order[i]]]

PeriodsEvidence(metric, cards, ranked) ==
    Evidence("compare_periods",
        <<LineOf(ranked, metric, IF ranked = <<>> THEN cards[1] ELSE ranked[1])>> \o Upto(ranked, 1, 4), {})

OverviewEvidence(d, metric) ==
    LET cards == CardLines
        own   == LineOf(cards, metric, cards[1])
    IN  CASE Operations[d.operation].comparison /\ scope.compare = None -> {}
          [] d.operation = "summarize_current_context" -> {Evidence(d.operation, <<cards[1]>> \o cards, {})}
          [] d.operation = "compare_periods" /\ scope.compare # None ->
                {PeriodsEvidence(metric, cards, Movers(cards))}
          [] OTHER -> IF own.current = NULL THEN {} ELSE {Evidence(d.operation, <<own>>, {})}

\* The insight in focus, else the first driver, else the first of the answer.
InFront(items, Better(_, _)) == {x \in items : \A y \in items : ~Better(y, x)}

InsightItem(d, f) ==
    LET focused == {x \in answer : f.insight # None /\ <<x.category, x.metric>> = f.insight}
        drivers == {x \in answer : d.operation = "identify_driver" /\ x.category = "dominant_driver"}
    IN  IF focused # {} THEN focused ELSE IF drivers # {} THEN InFront(drivers, InsightBefore)
        ELSE InFront(answer, InsightBefore)

DriverLines(item) ==
    LET rows == SetToSortSeq(item.drivers, DriverBefore)
    IN  [i \in DOMAIN rows |-> GroupLine(rows[i].key, rows[i].current, rows[i].prior, rows[i].contribution)]

InsightEvidence(d, f) ==
    {LET own == MetricLine(x.metric, x.current, x.prior)
     IN  Evidence(d.operation, <<own>> \o DriverLines(x) \o <<own>>, {}) : x \in InsightItem(d, f)}

\* The anomaly in focus, else the first: the order of anomalies is left out,
\* and a median between two units is rounded down.  Its drivers carry their
\* share only.
AnomalyItem(f) ==
    LET focused == {x \in answer : f.anomaly # None /\ <<x.kind, x.metric>> = f.anomaly}
    IN  IF focused # {} THEN focused ELSE answer

AnomalyEvidence(d, f) ==
    {LET own  == MetricLine(x.metric, x.current, x.median2 \div 2)
         rows == SetToSortSeq(x.drivers, DriverBefore)
     IN  Evidence(d.operation,
            <<own>> \o [i \in DOMAIN rows |-> GroupLine(rows[i].key, NULL, NULL, rows[i].contribution)]
                    \o <<own>>,
            {}) : x \in AnomalyItem(f)}

\* Rows of a ranking as lines.
RowLines(rows) ==
    [i \in DOMAIN rows |-> GroupLine(rows[i].key, rows[i].value, rows[i].prior, rows[i].share)]

\* The metric of a ranking carries the values of its first row.
RowsEvidence(operation, metric, rows) ==
    IF rows = <<>> THEN {}
    ELSE {Evidence(operation, <<MetricLine(metric, rows[1].value, rows[1].prior)>>
                              \o RowLines(Upto(rows, 1, MaxEvidenceRows)), DOMAIN Upto(rows, 1, MaxEvidenceRows))}

\* compare_dimensions: the rows of the two names.
GroupsEvidence(metric, rows, groups) ==
    LET found == FlattenSeq([i \in DOMAIN groups |-> SelectSeq(rows, LAMBDA r : r.key = groups[i])])
    IN  IF Len(found) < 2 THEN {}
        ELSE {Evidence("compare_dimensions", <<MetricLine(metric, NULL, NULL)>> \o
                       [i \in 1..2 |-> [RowLines(found)[i] EXCEPT !.share = NULL]], {})}

ExplorerEvidence(d, metric) ==
    LET rows == SetToSortSeq(answer, LAMBDA r, s : r.rank < s.rank)
    IN  IF d.operation = "compare_dimensions" THEN GroupsEvidence(metric, rows, d.groups)
        ELSE RowsEvidence(d.operation, metric, rows)

\* The rows of a drilldown, in its order: the largest first, "Other" last.
DrillPlace(row) ==
    IF row.key = OtherKey THEN MaxDrillRows + 1
    ELSE Cardinality({g \in reads.groups : \E h \in reads.groups :
                        h.key = row.key /\ VolumeBefore(question.metric, g, h)})

DrillEvidence(d, metric) ==
    RowsEvidence(d.operation, metric,
                 SetToSortSeq(answer, LAMBDA r, s : DrillPlace(r) < DrillPlace(s)))

\* The total of a trend, or its first series; labels are in the order of keys.
FirstSeries(points) ==
    IF \E p \in points : p.key = None THEN None ELSE Min({p.key : p \in points} \ {OtherKey})

PointsShown == {p \in answer : p.key = FirstSeries(answer)}

\* A trend as evidence: its first and last values; its line has no movement.
LastPoint(valued) ==
    IF valued = {} THEN [value |-> NULL, prior |-> NULL]
    ELSE CHOOSE p \in valued : \A s \in valued : s.bucket <= p.bucket

Valued == {p \in PointsShown : p.value # NULL}

TrendOf(operation, own) ==
    [Evidence(operation, <<[own EXCEPT !.delta = NULL, !.pct = NULL]>>, {Cardinality(PointsShown)}) EXCEPT
        !.trend = IF Valued = {} THEN NoTrend
                  ELSE [first |-> (CHOOSE p \in Valued : \A s \in Valued : p.bucket <= s.bucket).value,
                        last  |-> LastPoint(Valued).value]]

\* summarize_trend compares the last point with its prior one.
SummarizedTrend(metric) ==
    TrendOf("summarize_trend", MetricLine(metric, LastPoint(Valued).value, LastPoint(Valued).prior))

GeneratedTrend(metric) ==
    TrendOf("generate_trend", MetricLine(metric, LastPoint(Valued).value, NULL))

TrendEvidence(d, metric) ==
    IF \A p \in answer : p.count = 0 THEN {}
    ELSE IF d.operation = "generate_trend" THEN {GeneratedTrend(metric)}
    ELSE {SummarizedTrend(metric)}

\* _run, after its reads.
Gathered(d, f) ==
    IF answer = {} THEN {}
    ELSE CASE question.view = "overview"  -> OverviewEvidence(d, MetricOf(d, f))
           [] question.view = "insights"  -> InsightEvidence(d, f)
           [] question.view = "anomalies" -> AnomalyEvidence(d, f)
           [] question.view = "explorer"  -> ExplorerEvidence(d, question.metric)
           [] question.view = "trends"    -> TrendEvidence(d, question.metric)
           [] question.view = "drilldown" -> DrillEvidence(d, question.metric)

\* A view that refuses fails the request, except for generate_trend.
ViewRefuses ==
    /\ Stage("reading") /\ step = "refused"
    /\ talk' = Told(talk.ask, IF talk.decision.operation = "generate_trend" THEN "unsupported" ELSE "failed")
    /\ UNCHANGED vars

NotEnough ==
    /\ Stage("reading") /\ step = "answered"
    /\ Gathered(talk.decision, talk.ask.focus) = {}
    /\ talk' = Told(talk.ask, "unsupported") /\ UNCHANGED vars

TooLittle      == talk # None /\ talk.decision # None /\ talk.decision.operation # "generate_trend" /\ NotEnough
TrendTooLittle == talk # None /\ talk.decision # None /\ talk.decision.operation = "generate_trend" /\ NotEnough

Collect ==
    /\ Stage("reading") /\ step = "answered"
    /\ \E ev \in Gathered(talk.decision, talk.ask.focus) :
        talk' = [talk EXCEPT !.stage = "wording", !.evidence = ev]
    /\ UNCHANGED vars

(* Wording *)

Say(by, text) ==
    /\ talk' = [talk EXCEPT !.stage = "answered",
                            !.said = [by |-> by, clauses |-> text.clauses, moved |-> text.moved]]
    /\ UNCHANGED vars

Template == TemplateAnswer(talk.evidence, QuestionFrame(talk.ask.words))

\* _explain: the model words an answer when it did not choose the operation.
Consulted == Stage("wording") /\ ~talk.called /\ talk.decision.operation # "generate_trend"

WordByTemplate == Stage("wording") /\ Say("template", Template)

\* coerce_llm_wording of a reply within the schema.
WordStructured(reply) ==
    /\ Consulted
    /\ Say("model", RenderStructured(reply, talk.evidence))

\* Prose is validated, and dropped for the template.
WordProse(reply) ==
    /\ Consulted
    /\ IF ValidAnswer(reply, talk.evidence) THEN Say("model", Texts(reply.clauses, None))
       ELSE Say("template", Template)

CloseTalk ==
    /\ talk # None /\ talk.said # None
    /\ talk' = None
    /\ IF step = "idle" THEN UNCHANGED vars ELSE Close

(* What a language model may reply *)

StructuredReplies == [direction : {"rose", "fell", "unchanged", None}]

NumbersOf(ev) ==
    (UNION {AllValues(Entities(ev)[i]) : i \in DOMAIN ev.lines}) \cup Invented

NamesOf(ev) == {ev.lines[i].name : i \in DOMAIN ev.lines}

Clauses(ev) ==
    {Clause(<<n>>, x, r, w) : n \in NamesOf(ev) \cup {<<"metric", "delivered">>}, x \in NumbersOf(ev),
        r \in {"current", "comparison"}, w \in {None}}
    \cup {Clause(<<n>>, x, "percent", w) : n \in NamesOf(ev), x \in NumbersOf(ev), w \in {"rose", "fell", None}}
    \cup {Clause(<<ev.lines[1].name, n>>, x, "any", None) : n \in NamesOf(ev), x \in NumbersOf(ev)}

Prose(clauses, says) == [clauses |-> clauses, says |-> says]

\* One clause of any kind, or a clause about the first line followed by one
\* that names nothing; or a text of forbidden words.
ProseReplies(ev) ==
    {Prose(<<c>>, {}) : c \in Clauses(ev)}
    \cup {Prose(<<Clause(<<n>>, x, "any", None), Clause(<<>>, x, r, None)>>, {}) :
            n \in NamesOf(ev), x \in NumbersOf(ev), r \in {"current", "comparison", "delta"}}
    \cup {Prose(<<>>, {"causal_language"})}

AskInit == AnalyticsInit /\ talk = None

AskNext ==
    \/ \E i \in Ids : Publishes(i) /\ UNCHANGED talk
    \/ \E ask \in Asks : talk = None /\ Ask(ask) /\ UNCHANGED talk
    \/ talk = None /\ Close /\ UNCHANGED talk
    \/ ReadCurrent /\ UNCHANGED talk
    \/ ReadCompared /\ UNCHANGED talk
    \/ \E point \in answer : talk = None /\ OpenPoint(point) /\ UNCHANGED talk
    \/ \E row \in answer : \E dimension \in DrillDimensions :
        talk = None /\ OpenRow(row, dimension) /\ UNCHANGED talk
    \/ \E row \in answer : talk = None /\ OpenRanked(row) /\ UNCHANGED talk
    \/ \E a \in Questions : RefuseQuestion(a)
    \/ \E a \in Questions : AskModel(a)
    \/ \E a \in Questions : AskQuestion(a)
    \/ \E raw \in IntentProposals : IntentReply(raw)
    \/ IntentFails
    \/ \E raw \in TrendProposals \cup {None} : SelectionReply(raw)
    \/ ViewRefuses
    \/ TooLittle
    \/ TrendTooLittle
    \/ Collect
    \/ WordByTemplate
    \/ \E reply \in StructuredReplies : WordStructured(reply)
    \/ Consulted /\ \E reply \in ProseReplies(talk.evidence) : WordProse(reply)
    \/ CloseTalk

AskSpec == AskInit /\ [][AskNext]_askVars

(* Properties *)

\* Reference: the metric of a group, or of everything, in a window.
TrueValue(h, window, filters, metric, name, dimension) ==
    LET rows == RowsIn(h, window.from, window.to, filters)
    IN  Zero(Pick(metric, SumAdditiveMeasures(
            {r \in rows : IsMetric(name) \/ KeyOf(r, dimension) = name[2]})))

\* The operations whose metric is that of the whole period.
OfThePeriod == {"explain_metric_change", "compare_periods", "summarize_current_context",
                "identify_driver", "explain_insight"}

\* An answer is grounded, whoever words it: a number it gives as the current
\* or the comparison value of a group, or of a metric of the period, is what
\* the published facts that were read say of that group or metric, a
\* percentage it calls a rise or a fall is that of its movement, and the
\* direction it states is the one of the two values (explain_llm_answer,
\* render_structured_ask_wording, template_answer and the evidence of _run).
\* A number from 2020 to 2039 in a model's text is beyond the validation,
\* which takes it for a year: nothing is said of it.
AnswersAreGrounded ==
    Stage("answered") =>
        LET ev     == talk.evidence
            ds     == IF question.view = "drilldown" THEN reads.scope ELSE scope
            metric == ev.lines[1].name[2]
            grouped == IF question.view \in {"drilldown", "explorer"} THEN {question.dimension}
                       ELSE IF question.view = "insights" THEN Asked(question) ELSE {}
            Metric(name) == IF IsMetric(name) THEN name[2] ELSE metric
            Now(name, d)  == TrueValue(seen.current, ds.window, ds.filters, Metric(name), name, d)
            Then(name, d) ==
                IF ds.compare = None THEN NULL
                ELSE TrueValue(seen.compared, ds.compare, ds.filters, Metric(name), name, d)
            Known(name) == IF IsMetric(name) THEN talk.decision.operation \in OfThePeriod
                           ELSE question.view \in {"drilldown", "explorer", "insights"} /\ name[2] # OtherKey
            Dims(name) == IF IsMetric(name) THEN {None} ELSE grouped
            said == talk.said.clauses
            Passed(c) == talk.said.by = "model" /\ ReadsAsYear(c)
            Fits(c, name, d) ==
                CASE c.role = "current"    -> c.number = Now(name, d)
                  [] c.role = "comparison" -> c.number = Then(name, d)
                  [] c.role = "percent" /\ c.moved # None /\ IsMetric(name) ->
                        /\ ds.compare # None
                        /\ (c.moved = "fell") = (Now(name, d) < Then(name, d))
                        /\ c.number = Abs(DeltaPct(Now(name, d), Then(name, d)))
                  [] OTHER -> TRUE
        IN  /\ \A i \in DOMAIN said :
                Len(said[i].names) = 1 /\ Known(said[i].names[1]) /\ ~Passed(said[i]) =>
                    \E d \in Dims(said[i].names[1]) : Fits(said[i], said[i].names[1], d)
            /\ talk.said.moved \in {"rose", "fell"} /\ ev.lines[1].comparison # NULL /\ Known(ev.lines[1].name) =>
                (talk.said.moved = "rose") =
                    (Now(ev.lines[1].name, None) > Then(ev.lines[1].name, None))
=============================================================================
