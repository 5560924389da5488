---------------------------- MODULE RowTransform ----------------------------
(***************************************************************************)
(* How one staged row becomes a fact: extraction of the source fields      *)
(* (extract.py), lookup of labels, template status and rate (resolve.py,   *)
(* rate_cards.py), cost (cost.py), the derived scalars (derive.py), the    *)
(* configuration a run binds (labels.py, pipeline.py) and the independent  *)
(* recomputation of the quality checks (reconcile.py).  Pure operators.    *)
(*                                                                         *)
(* A day is a number; DaysPerMonth of them make a month.  Money and rates  *)
(* are in thousandths.  A packaged version is identified by its label.  A   *)
(* start date is the minute of its day, which is not that of the fact, with *)
(* the offset it was written with, if any, in minutes.                      *)
(***************************************************************************)
EXTENDS Integers, Sequences, SequencesExt

CONSTANTS
    NoText,        \* None, in text columns
    NoId,          \* None, in version columns
    NoDay,         \* None, in day columns
    Lower(_),      \* str.lower
    DaysPerMonth,
    SessionZone,   \* offset of the time zone of the database sessions, in minutes
    CampaignRows, TemplateRows, GroupRows,        \* packaged JSON by label
    CampaignWindows, TemplateWindows, RateWindows \* <<label, from, to>>

GroupVersion == "fl1-group-v1"

ASSUME ZoneConstants == SessionZone \in Int

\* What the rate rules take of str.lower: the channels stay apart.
ASSUME LowerConstants ==
    /\ NoText # "" /\ Lower("Utility") = "utility"
    /\ LET channels == {"SMS", "Email", "RCS", "WhatsApp"}
       IN  \A a, b \in channels : Lower(a) = Lower(b) => a = b

-----------------------------------------------------------------------------
(* Lookup *)

\* Excel's lookup key: case is folded, blanks are not trimmed.
MatchKey(text) == IF text \in {NoText, ""} THEN NoText ELSE Lower(text)

\* Index of the first row, in row order, with the key of text; 0 for none.
FirstMatch(rows, field, text) ==
    SelectInSeq(rows, LAMBDA row : MatchKey(row[field]) = MatchKey(text))

\* The match status and the labels of a campaign name.
ResolveCampaign(rows, name) ==
    LET at == FirstMatch(rows, "campaign_name", name) IN
    CASE MatchKey(name) = NoText -> [status |-> "blank_key", label |-> NoText]
      [] MatchKey(name) # NoText /\ at = 0
                                 -> [status |-> "unmatched", label |-> NoText]
      [] OTHER                   -> [status |-> "matched", label |-> rows[at].filter_logic_1]

\* A miss is the empty string, never NULL (IFERROR of the workbook).
ResolveTemplate(rows, name) ==
    LET at == FirstMatch(rows, "template_name", name)
        found == IF at = 0 THEN NoText ELSE rows[at].template_status IN
    CASE MatchKey(name) = NoText -> [status |-> "blank_key", template_status |-> ""]
      [] MatchKey(name) # NoText /\ at = 0
                                 -> [status |-> "unmatched", template_status |-> ""]
      [] OTHER -> [status |-> "matched",
                   template_status |-> IF found = NoText THEN "" ELSE found]

\* Groups match the exact value; an unknown value passes through.
ResolveGroup(rows, value) ==
    LET at == SelectInSeq(rows, LAMBDA row : row.filter_logic_1_value = value)
    IN  IF at = 0 THEN value ELSE rows[at].group_name

\* The rules of a rate card in priority order.
RateRules(card) ==
    << [field |-> "template_status", value |-> "Utility",
        rate |-> IF card = "rate-v1" THEN 120 ELSE 115],
       [field |-> "channel", value |-> "SMS",   rate |-> 150],
       [field |-> "channel", value |-> "Email", rate |-> 10],
       [field |-> "channel", value |-> "RCS",   rate |-> 250],
       [field |-> "channel", value |-> "WhatsApp",
        rate |-> IF card = "rate-v1" THEN 830 ELSE 785] >>

\* Mutant: the channel outranks the template status.
ChannelFirstRule(card, template_status, channel) ==
    SelectLastInSeq(RateRules(card), LAMBDA rule :
        LET candidate == IF rule.field = "channel" THEN channel ELSE template_status
        IN  candidate # NoText /\ Lower(candidate) = Lower(rule.value))

\* The priority of the first rule that matches, 0 for none.
ResolveRateRule(card, template_status, channel) ==
    SelectInSeq(RateRules(card), LAMBDA rule :
        LET candidate == IF rule.field = "channel" THEN channel ELSE template_status
        IN  candidate # NoText /\ Lower(candidate) = Lower(rule.value))

\* Delivered x rate; no rule costs nothing, a blank Delivered is zero.
TotalCost(card, template_status, channel, delivered) ==
    LET rule == ResolveRateRule(card, template_status, channel)
    IN  IF rule = 0 \/ delivered.kind = "none" THEN 0
        ELSE delivered.n * RateRules(card)[rule].rate

-----------------------------------------------------------------------------
(* Extraction: cells are [kind, n]; a day cell is a date, a date with a    *)
(* time, blank or unreadable.                                              *)

Blank == [kind |-> "blank", n |-> 0]
None  == [kind |-> "none", n |-> 0]
Cells == {Blank} \cup [kind : {"int", "whole", "fraction", "text"}, n : Int]

\* parse_integer: whole numbers only; malformed values are never coerced.
ParseInteger(cell) ==
    CASE cell.kind = "blank" -> None
      [] cell.kind \in {"int", "whole"} -> [kind |-> "number", n |-> cell.n]
      [] OTHER -> [kind |-> "invalid", n |-> 0]

\* parse_decimal: also fractions.
ParseDecimal(cell) ==
    IF cell.kind = "fraction" THEN [kind |-> "number", n |-> cell.n]
    ELSE ParseInteger(cell)

\* typed_day of the reader sees plain dates only; parse_day also dates with
\* a time.
TypedDay(cell) == IF cell.kind = "date" THEN cell.n ELSE NoDay

\* parse_start_date: what cannot be read is NULL, like a blank.
NoStart    == [kind |-> "none", minute |-> 0, zone |-> 0]
Starts     == [kind : {"local", "zoned"}, minute : 0..1439, zone : Int]
StartCells == Starts \cup [kind : {"blank", "bad"}, minute : {0}, zone : {0}]
ParseStartDate(cell) == IF cell \in Starts THEN cell ELSE NoStart

\* The reason extract_source_fields rejects a row for, or "none".
ExtractReason(row) ==
    CASE row.campaign_id \in {NoText, ""} -> "MISSING_CAMPAIGN_ID"
      [] row.campaign_id \notin {NoText, ""} /\ row.day.kind = "blank" -> "MISSING_DAY"
      [] row.campaign_id \notin {NoText, ""} /\ row.day.kind = "bad"   -> "INVALID_DAY"
      [] OTHER -> IF \/ \E f \in {"sent", "delivered", "conversions"} : ParseInteger(row[f]).kind = "invalid"
                     \/ ParseDecimal(row.revenue).kind = "invalid"
                  THEN "INVALID_NUMERIC" ELSE "none"

-----------------------------------------------------------------------------
(* Configuration *)

\* The first window [from, to) that holds the day, NoId for none.
SelectVersion(windows, day) ==
    LET at == SelectInSeq(windows, LAMBDA w : w[2] <= day /\ day < w[3])
    IN  IF at = 0 THEN NoId ELSE windows[at][1]

Packaged == DOMAIN CampaignRows \cup DOMAIN TemplateRows \cup DOMAIN GroupRows
            \cup {RateWindows[i][1] : i \in DOMAIN RateWindows}

\* persistable_catalog_version_id: a packaged id is stored only for the
\* default client, which owns it; an uploaded one is the client's own.
Persistable(isOwner, id) == IF id \in Packaged /\ ~isOwner THEN NoId ELSE id

PackagedLabel(id) == IF id \in Packaged THEN id ELSE NoId

\* bind_versions_for_day: what a new run stores.  logic and labels are the
\* client's active uploads, NoId for none.
BindVersions(isOwner, day, logic, labels) ==
    LET For(windows) == IF day = NoDay THEN NoId
                        ELSE Persistable(isOwner, SelectVersion(windows, day))
    IN  [campaign |-> IF logic # NoId THEN logic ELSE For(CampaignWindows),
         template |-> For(TemplateWindows),
         rate     |-> For(RateWindows),
         group    |-> IF labels # NoId THEN labels ELSE Persistable(isOwner, GroupVersion)]

\* bind_configuration without an overlay: every packaged axis must cover day.
Covered(day) == \A windows \in {CampaignWindows, TemplateWindows, RateWindows} :
                   SelectVersion(windows, day) # NoId

\* bind_configuration_for_run: the ids of the run, else the packaged version
\* of the row's day.  overlay maps the client's uploads to their rows.
BindForRun(isOwner, ids, overlay, day) ==
    LET Or(id, fallback) == IF id = NoId THEN fallback ELSE id
        template == Or(PackagedLabel(ids.template), SelectVersion(TemplateWindows, day))
        rate     == Or(PackagedLabel(ids.rate), SelectVersion(RateWindows, day))
        Known(id) == IF id \in Packaged \cup DOMAIN overlay THEN id ELSE NoId
        campaign == Or(Known(ids.campaign), SelectVersion(CampaignWindows, day))
        group    == Or(Known(ids.group), GroupVersion)
    IN  [campaignRows |-> IF campaign \in DOMAIN overlay THEN overlay[campaign]
                          ELSE CampaignRows[campaign],
         groupRows    |-> IF group \in DOMAIN overlay THEN overlay[group]
                          ELSE GroupRows[group],
         templateRows |-> TemplateRows[template],
         card         |-> rate,
         ids |-> [campaign |-> Persistable(isOwner, campaign),
                  template |-> Persistable(isOwner, template),
                  rate     |-> Persistable(isOwner, rate),
                  group    |-> Persistable(isOwner, group)]]

-----------------------------------------------------------------------------
(* One row *)

MonthStart(day) == day - (day % DaysPerMonth)
\* The month and the last two digits of its year.
MonthLabel(day) == (day \div DaysPerMonth) % 1200

\* hhh: the hour of the start date, "00" where there is none.
Hhh(start) == start.minute \div 60

\* The column is a timestamptz: a start without an offset is taken to be of the
\* session's time zone, and every start is read back in that zone.
ReadBack(start) ==
    IF start.kind = "zoned" THEN [start EXCEPT !.minute = (@ - start.zone + SessionZone) % 1440]
    ELSE start

VariationIdKey(variation_id) == IF variation_id = NoText THEN "" ELSE variation_id

\* transform_row after the fields were extracted and the day was bound.
FactOf(isOwner, row, bundle) ==
    LET campaign == ResolveCampaign(bundle.campaignRows, row.name)
        template == ResolveTemplate(bundle.templateRows, row.template)
        rule == ResolveRateRule(bundle.card, template.template_status, row.channel)
        delivered == ParseInteger(row.delivered)
    IN  [campaign_id     |-> row.campaign_id,
         variation_id    |-> row.variation,
         variation       |-> VariationIdKey(row.variation),
         day             |-> row.day.n,
         month           |-> MonthStart(row.day.n),
         month_label     |-> MonthLabel(row.day.n),
         start           |-> ParseStartDate(row.start),  \* its offset is not stored
         hhh             |-> Hhh(ParseStartDate(row.start)),
         channel         |-> row.channel,
         sent            |-> ParseInteger(row.sent),
         delivered       |-> delivered,
         conversions     |-> ParseInteger(row.conversions),
         revenue         |-> ParseDecimal(row.revenue),
         label           |-> campaign.label,
         label_status    |-> campaign.status,
         group           |-> ResolveGroup(bundle.groupRows, campaign.label),
         template_status |-> template.template_status,
         cost            |-> TotalCost(bundle.card, template.template_status,
                                       row.channel, delivered),
         rule            |-> IF rule = 0 \/ ~isOwner THEN NoId ELSE <<bundle.card, rule>>,
         card            |-> bundle.card,  \* not a column: the card used
         ids             |-> bundle.ids]

Grain(fact) == <<fact.campaign_id, fact.variation, fact.day>>

-----------------------------------------------------------------------------
(* Reconciliation *)

\* The contract rate, looked up without priorities, 0 for none.
ExpectedRate(card, template_status, channel) ==
    LET field == IF Lower(template_status) = "utility" THEN "template_status" ELSE "channel"
        key == IF field = "channel" THEN channel ELSE template_status
        hits == {i \in DOMAIN RateRules(card) :
                    /\ RateRules(card)[i].field = field
                    /\ key # NoText
                    /\ Lower(RateRules(card)[i].value) = Lower(key)}
    IN  IF hits = {} THEN 0 ELSE RateRules(card)[CHOOSE i \in hits : TRUE].rate

\* reconcile_fact finds no problem in the fact, read back, under the rate card.
Reconciles(fact, card) ==
    LET rate == ExpectedRate(card, fact.template_status, fact.channel) IN
    /\ fact.cost = rate * (IF fact.delivered.kind = "none" THEN 0 ELSE fact.delivered.n)
    /\ rate = 0 => fact.rule = NoId
    /\ rate # 0 /\ fact.ids.rate # NoId => fact.rule # NoId
    /\ fact.month = MonthStart(fact.day) /\ fact.month_label = MonthLabel(fact.day)
    /\ fact.hhh = Hhh(ReadBack(fact.start))
    /\ fact.variation_id \in {NoText, "", fact.variation}
    /\ fact.template_status # NoText
    /\ fact.label_status # "matched" => fact.label = NoText
=============================================================================
