------------------------------ MODULE Periods ------------------------------
(***************************************************************************)
(* Which days and which dimension values a request asks for (filters.py):  *)
(* the period, the comparison period, and the filter values that exist.    *)
(* Absent parameters are None; a refused request (FilterValidationError)   *)
(* resolves to Refused.  A window is [grain, from, to, month], to exclusive.*)
(***************************************************************************)
EXTENDS HistoryReads

CONSTANT Refused   \* the answer to a request that fails validation

Window(grain, from, to, month) == [grain |-> grain, from |-> from, to |-> to, month |-> month]

MonthWindow(m) == Window("month", MonthOf(m), AddCalendarMonth(MonthOf(m)), MonthOf(m))

\* A range inside one month is of grain "month".
RangeWindow(from, last) ==
    IF MonthOf(from) = MonthOf(last)
    THEN Window("month", from, last + 1, MonthOf(from))
    ELSE Window("range", from, last + 1, None)

\* _clip
Clip(d, lo, hi) == IF d < lo THEN lo ELSE IF d > hi THEN hi ELSE d

\* Mutant: an inverted range is not refused.
ClippedRangeInverted(from, to, bounds) ==
    RangeWindow(Clip(from, bounds.min, bounds.max), Clip(to, bounds.min, bounds.max))

\* Both ends clipped to the published days; refused when they are inverted.
ClippedRange(from, to, bounds) ==
    LET start == Clip(from, bounds.min, bounds.max)
        last  == Clip(to, bounds.min, bounds.max)
    IN  IF last < start THEN Refused ELSE RangeWindow(start, last)

\* A range asked for as one is of grain "range", inside one month or not.
AsRange(window) == IF window = Refused THEN Refused ELSE [window EXCEPT !.grain = "range"]

\* A request of two days, said to be one or of nothing else.
AsksForARange(req) ==
    \/ req.period = "range"
    \/ req.period = None /\ req.month = None /\ (req.from # None \/ req.to # None)

\* resolve_period
ResolvePeriod(months, bounds, req) ==
    IF req.period = "all_history" THEN Window("all_history", bounds.min, bounds.max + 1, None)
    ELSE IF AsksForARange(req) THEN
        IF req.from = None \/ req.to = None THEN Refused
        ELSE IF req.period = "range" THEN AsRange(ClippedRange(req.from, req.to, bounds))
        ELSE ClippedRange(req.from, req.to, bounds)
    ELSE IF req.month # None THEN
        IF req.month \in months THEN MonthWindow(req.month) ELSE Refused
    ELSE MonthWindow(Max(months))

\* _latest_and_prior: the published month before a published month.
LatestAndPrior(months, selected) ==
    LET earlier == {m \in months : m < selected}
    IN  IF selected \notin months \/ earlier = {} THEN None ELSE Max(earlier)

\* A comparison with the very same days is refused.
Differs(window, current) ==
    IF window # Refused /\ window.from = current.from /\ window.to = current.to
    THEN Refused ELSE window

\* resolve_comparison: Refused, None or a window.
ResolveComparison(months, bounds, current, req) ==
    CASE req.compare = "none" -> None
      [] req.compare # "none" /\ req.compare_month # None ->
            IF req.compare_month \in months
            THEN Differs(MonthWindow(req.compare_month), current) ELSE Refused
      [] req.compare # "none" /\ req.compare_month = None
         /\ (req.compare_from # None \/ req.compare_to # None) ->
            IF req.compare_from = None \/ req.compare_to = None THEN Refused
            ELSE Differs(AsRange(ClippedRange(req.compare_from, req.compare_to, bounds)), current)
      [] OTHER ->
            LET prior == LatestAndPrior(months, current.month)
            IN  IF current.grain # "month" \/ prior = None THEN None ELSE MonthWindow(prior)

\* drop_unknown: the selected values that occur in the current window.
KeptFilters(rows, window, filters) ==
    [d \in Dimensions |-> filters[d] \cap FilterValues(rows, window, d)]

NoScope == [history |-> FALSE]

\* _resolve_scope of AnalyticsService.
ScopeOf(rows, req, months, window, compare) ==
    IF compare = Refused THEN Refused
    ELSE [history |-> TRUE, months |-> months, window |-> window, compare |-> compare,
          filters |-> KeptFilters(rows, window, req.filters)]

ScopeIn(rows, req, months, bounds, window) ==
    IF window = Refused THEN Refused
    ELSE ScopeOf(rows, req, months, window, ResolveComparison(months, bounds, window, req))

ResolvedScope(rows, req, months, bounds) ==
    ScopeIn(rows, req, months, bounds, ResolvePeriod(months, bounds, req))

ResolveScope(rows, req) ==
    IF rows = {} THEN NoScope
    ELSE ResolvedScope(rows, req, ListPublishedMonthStarts(rows), PublishedDayBounds(rows))
=============================================================================
