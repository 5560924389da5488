------------------------------ MODULE AskWording ------------------------------
(***************************************************************************)
(* What an answer of Ask says (ask.py): the template, the structured       *)
(* wording of a language model, and the validation of its prose.           *)
(*                                                                         *)
(* Evidence is a sequence of lines, each a metric or a group with its      *)
(* values; a text is a sequence of clauses, each with the names it uses    *)
(* before its number, the number, the role its words give the number and   *)
(* the direction they state.  A name is <<"metric", m>> or <<"group", k>>, *)
(* a percentage a number of 1/RateScale; spelling is left out, and of the  *)
(* several names of a clause the last is the nearest to its number.        *)
(***************************************************************************)
EXTENDS AskIntent

(* Evidence *)

Line(name, current, prior, share) ==
    [name |-> name, current |-> current, comparison |-> prior, delta |-> Delta(current, prior),
     pct |-> DeltaPct(current, prior), share |-> share]

MetricLine(m, current, prior) == Line(<<"metric", m>>, current, prior, NULL)
GroupLine(k, current, prior, share) == Line(<<"group", k>>, current, prior, share)

\* lines[1] is evidence["metric"]; trend the first and last point of a series.
NoTrend == [first |-> NULL, last |-> NULL]
Evidence(operation, lines, context) ==
    [operation |-> operation, lines |-> lines, context |-> context, trend |-> NoTrend]

(* The template *)

Clause(names, number, role, moved) ==
    [names |-> names, number |-> number, role |-> role, moved |-> moved]

ClauseIf(name, number, role) ==
    IF number = NULL THEN <<>> ELSE <<Clause(<<name>>, number, role, None)>>

\* question_frame
QuestionFrame(q) ==
    FirstOf(SelectSeq(<<"unusual", "contribution", "driver", "why", "what_changed", "current", "rank_value">>,
                      LAMBDA w : w \in q.says))

Direction(line) ==
    IF line.pct = NULL THEN None ELSE IF line.pct < 0 THEN "fell" ELSE IF line.pct > 0 THEN "rose" ELSE None

\* _metric_change_parts: the comparison is named when there is a percentage,
\* or when the frame is one of the two that name it anyway.
MetricChangeParts(frame, line) ==
    ClauseIf(line.name, line.current, "current")
    \o (IF line.current = NULL \/ (line.pct = NULL /\ frame \notin {"current", "what_changed"}) THEN <<>>
        ELSE ClauseIf(line.name, line.comparison, "comparison"))

Texts(clauses, moved) == [clauses |-> clauses, moved |-> moved]

LinesSay(lines, both) ==
    FlattenSeq([i \in DOMAIN lines |->
        ClauseIf(lines[i].name, lines[i].current, "current")
        \o (IF both THEN ClauseIf(lines[i].name, lines[i].comparison, "comparison") ELSE <<>>)])

Upto(s, from, to) == SubSeq(s, from, IF to < Len(s) THEN to ELSE Len(s))

\* template_answer.  The explanations of insights and anomalies are theirs.
TemplateAnswer(ev, frame) ==
    LET top == ev.lines[1]
    IN  CASE ev.operation = "compare_dimensions" -> Texts(LinesSay(Upto(ev.lines, 2, 3), TRUE), None)
          [] ev.operation = "summarize_trend" ->
                Texts(ClauseIf(top.name, ev.trend.first, "comparison")
                      \o ClauseIf(top.name, ev.trend.last, "current"), None)
          [] ev.operation \in {"generate_trend", "explain_anomaly", "explain_insight", "identify_driver"} ->
                Texts(<<>>, None)
          [] ev.operation \in {"explain_explorer_result", "explain_drilldown"} ->
                Texts(LinesSay(Upto(ev.lines, 2, 2), FALSE), None)
          [] ev.operation = "summarize_current_context" ->
                Texts(LinesSay(Upto(ev.lines, 2, 5), FALSE), None)
          [] ev.operation \in {"explain_metric_change", "compare_periods"} ->
                Texts(MetricChangeParts(frame, top), IF top.current = NULL THEN None ELSE Direction(top))

(* Structured wording *)

\* _metric_change_direction
MetricChangeDirection(line) ==
    IF line.current = NULL \/ line.comparison = NULL THEN None
    ELSE IF line.current > line.comparison THEN "rose"
    ELSE IF line.current < line.comparison THEN "fell" ELSE "unchanged"

\* render_structured_ask_wording: the direction of the numbers, the model's
\* own when a number is missing; a claim that is wrong is denied.  Without a
\* current value the reply is used as it came.
RenderStructured(reply, ev) ==
    LET top == ev.lines[1]
    IN  IF top.current = NULL THEN Texts(<<>>, None)
        ELSE Texts(ClauseIf(top.name, top.current, "current") \o ClauseIf(top.name, top.comparison, "comparison"),
                   Or(MetricChangeDirection(top), reply.direction))

(* Validation of prose *)

Forms(v) == IF v = NULL THEN {} ELSE {v}

\* _entities_from_evidence, _fill_entity_values, _add_pct.
Entity(line, trend) ==
    [name       |-> line.name,
     current    |-> Forms(line.current) \cup Forms(trend.last),
     comparison |-> Forms(line.comparison) \cup Forms(trend.first),
     delta      |-> Forms(line.delta),
     signed     |-> Forms(line.pct) \cup Forms(line.share),
     abs        |-> {Abs(p) : p \in Forms(line.pct) \cup Forms(line.share)},
     falling    |-> IF line.pct = NULL THEN None ELSE line.pct < 0]

Entities(ev) ==
    [i \in DOMAIN ev.lines |-> Entity(ev.lines[i], IF i = 1 THEN ev.trend ELSE NoTrend)]

IsMetric(name)   == name[1] = "metric"
AllValues(e)     == e.current \cup e.comparison \cup e.delta \cup e.signed \cup e.abs
Named(name, es)  == SelectSeq(es, LAMBDA e : e.name = name)

\* The only one of a sequence of entities, None when there are none or several.
Only(es) == IF Len(es) = 1 THEN es[1] ELSE None

\* _nearest_entity, last_entity: the last name used so far that the evidence
\* has, else its only metric, else its only line.
Attached(clauses, i, es) ==
    LET used  == FlattenSeq([j \in 1..i |-> clauses[j].names])
        known == SelectSeq(used, LAMBDA n : Named(n, es) # <<>>)
    IN  IF known # <<>> THEN Named(known[Len(known)], es)[1]
        ELSE Or(Only(SelectSeq(es, LAMBDA e : IsMetric(e.name))), Only(es))

\* The percentage of a stated fall or rise must be one.
PercentAllowed(c, e) ==
    CASE c.moved = "fell" -> e.falling # FALSE /\ c.number \in e.abs
      [] c.moved = "rose" -> e.falling # TRUE /\ c.number \in e.abs
      [] OTHER            -> c.number \in e.signed \cup e.abs

\* Mutant: any value of the entity will do, whatever the clause says of it.
NumberAllowedAnyRole(c, e) == c.number \in AllValues(e)

\* _number_allowed_for_role
NumberAllowed(c, e) ==
    CASE c.role = "current"    -> c.number \in e.current
      [] c.role = "comparison" -> c.number \in e.comparison
      [] c.role = "delta"      -> c.number \in e.delta
      [] c.role = "percent"    -> PercentAllowed(c, e)
      [] c.role = "any"        -> c.number \in AllValues(e)

ClauseAllowed(c, e, context) ==
    \/ c.role = "any" /\ c.number \in context
    \/ e # None /\ NumberAllowed(c, e)

\* A number that reads as a year is passed over, whatever it is said of.
Years == 2020..2039
ReadsAsYear(c) ==
    c.number \in {IF c.role = "percent" THEN (y * RateScale) \div 100 ELSE y : y \in Years}

\* explain_llm_answer
MetricsIn(clauses) == UNION {{n \in ToSet(clauses[i].names) : IsMetric(n)} : i \in DOMAIN clauses}

ValidAnswer(reply, ev) ==
    LET es   == Entities(ev)
        keys == {n \in {es[i].name : i \in DOMAIN es} : IsMetric(n)}
    IN  /\ reply.says \cap {"too_short", "too_long", "causal_language", "sql", "foreign_uuid"} = {}
        /\ MetricsIn(reply.clauses) \subseteq keys
        /\ \A i \in DOMAIN reply.clauses :
            \/ ReadsAsYear(reply.clauses[i])
            \/ ClauseAllowed(reply.clauses[i], Attached(reply.clauses, i, es), ev.context)
=============================================================================
