------------------------------- MODULE QaRules -------------------------------
(***************************************************************************)
(* The quality verdict of a run (dfip_analytics/qa.py, qa_workflow.py):    *)
(* findings from rejected rows, from the facts and from the run, and the   *)
(* verdict their severities give.  Findings of severity "info" never       *)
(* change a verdict and are left out.                                      *)
(***************************************************************************)
EXTENDS RowTransform, Integers, Sequences, FiniteSets

\* REJECT_TO_RULE: NO_CONFIG_VERSION has no rule of its own.
RejectToRule(reason) ==
    CASE reason = "MISSING_CAMPAIGN_ID" -> "QA-MISSING-KEY"
      [] reason = "MISSING_DAY"         -> "QA-MISSING-DATE"
      [] reason = "INVALID_DAY"         -> "QA-MALFORMED-ID"
      [] reason = "INVALID_NUMERIC"     -> "QA-INVALID-NUMERIC"
      [] reason = "DUPLICATE_GRAIN_KEY" -> "QA-DUPLICATE-GRAIN"
      [] OTHER                          -> "none"

\* A measure present on both sides, left above right.
Exceeds(fact, left, right) ==
    /\ fact[left].kind = "number" /\ fact[right].kind = "number"
    /\ fact[left].n > fact[right].n

Negative(fact, field) == fact[field].kind = "number" /\ fact[field].n < 0

\* The checks of one fact: rule, measure, and whether it fires.
FactChecks(fact) ==
    {<<"QA-NEGATIVE-COUNT", f, Negative(fact, f)>> : f \in {"sent", "delivered", "conversions"}}
    \cup { <<"QA-NEGATIVE-MONEY", "revenue", Negative(fact, "revenue")>>,
           <<"QA-NEGATIVE-MONEY", "cost", fact.cost < 0>>,
           <<"QA-IMPOSSIBLE-DELIVERED", "delivered", Exceeds(fact, "delivered", "sent")>>,
           <<"QA-RATIO-GT-ONE", "conversions", Exceeds(fact, "conversions", "delivered")>> }

FactFindings(fact) ==
    {<<check[1], <<Grain(fact), check[2]>> >> : check \in {c \in FactChecks(fact) : c[3]}}

\* One finding per rejected row that has a rule, keyed by its row number.
RejectFindings(evidence) ==
    [i \in {k \in DOMAIN evidence : RejectToRule(evidence[k].reason) # "none"}
        |-> <<RejectToRule(evidence[i].reason), evidence[i].row>>]

RunFindings(evidence, status, reconciled) ==
    {f \in {"QA-REJECTED-ROWS", "QA-RUN-FAILED", "QA-RECONCILE-FAIL"} :
        CASE f = "QA-REJECTED-ROWS"  -> evidence # <<>>
          [] f = "QA-RUN-FAILED"     -> status = "failed"
          [] f = "QA-RECONCILE-FAIL" -> reconciled = "failed"}

Warnings == {"QA-IMPOSSIBLE-DELIVERED", "QA-RATIO-GT-ONE", "QA-REJECTED-ROWS"}

\* The rules that fired.
RulesFired(evidence, facts, status, reconciled) ==
    {RejectFindings(evidence)[i][1] : i \in DOMAIN RejectFindings(evidence)}
    \cup (UNION {{f[1] : f \in FactFindings(fact)} : fact \in facts})
    \cup RunFindings(evidence, status, reconciled)

\* evaluate_and_persist_run: two findings with one key raise, and the verdict
\* of an evaluation that raised is "unavailable"; else the worst severity.
Verdict(evidence, facts, status, reconciled) ==
    LET fired == RulesFired(evidence, facts, status, reconciled) IN
    CASE ~IsInjective(RejectFindings(evidence)) -> "unavailable"
      [] IsInjective(RejectFindings(evidence)) /\ fired \ Warnings # {} -> "fail"
      [] IsInjective(RejectFindings(evidence)) /\ fired # {} /\ fired \subseteq Warnings -> "warn"
      [] OTHER -> "pass"

Publishable == {"pass", "warn"}

\* _rate_card_label: the one card of this transformation, else the card of
\* the run, else the one card id the facts carry, else none.
RateCardLabel(cards, runCard, facts) ==
    LET carried == {fact.ids.rate : fact \in facts} \ {NoId} IN
    CASE Cardinality(cards) = 1 -> CHOOSE card \in cards : TRUE
      [] Cardinality(cards) # 1 /\ runCard # NoId -> runCard
      [] Cardinality(cards) # 1 /\ runCard = NoId /\ Cardinality(carried) = 1
                              -> CHOOSE card \in carried : TRUE
      [] OTHER -> NoId

\* reconcile_run: the facts recompute under the card and carry the versions
\* of the run; not done without facts or without a card.  Its check of the
\* lineage is what for_run selects the facts by.
Reconciled(facts, card, ids) ==
    CASE facts = {} \/ card = NoId -> "skipped"
      [] facts # {} /\ card # NoId ->
            IF \A fact \in facts :
                  /\ Reconciles(fact, card)
                  /\ ids.campaign \in {NoId, fact.ids.campaign}
                  /\ ids.template \in {NoId, fact.ids.template}
            THEN "passed" ELSE "failed"
=============================================================================
