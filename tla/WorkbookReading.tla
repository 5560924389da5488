--------------------------- MODULE WorkbookReading ---------------------------
(***************************************************************************)
(* How a file becomes rows: where a Web Engage workbook has its header     *)
(* row and its columns (headers.py, reader.py), which of its rows are      *)
(* staged, and which rows a Logic or Labels file of the configuration      *)
(* catalog holds (workbook.py).  Pure operators over cells.                *)
(*                                                                         *)
(* A sheet is a sequence of rows and a row a sequence of cells; NoCell is  *)
(* an empty cell.  The 57 source headers are the sequence Contract.        *)
(***************************************************************************)
LOCAL INSTANCE Naturals
LOCAL INSTANCE Sequences
LOCAL INSTANCE FiniteSets
LOCAL INSTANCE SequencesExt

CONSTANTS
    NoCell,
    Contract,        \* the source headers, in order
    Approved,        \* headers that may follow them
    PreferredSheet,
    HeaderScanRows,  \* rows of a sheet that are searched for headers
    MaxCol           \* and columns of these rows: 120

Width == Len(Contract)

Refused(reason) == [reason |-> reason]
IsRefused(result) == "reason" \in DOMAIN result

-----------------------------------------------------------------------------
(* The header row *)

DuplicateHeaders(cells) ==
    {h \in ToSet(cells) \ {NoCell} :
        Cardinality({i \in DOMAIN cells : cells[i] = h}) > 1}

Region(cells, start) == SubSeq(cells, start, start + Width - 1)
Found(cells) == {s \in 1..Len(cells) : s + Width - 1 <= Len(cells) /\ Region(cells, s) = Contract}

\* The exact sequence, once; the headers of the contract are distinct.
LocateSourceHeaders(cells) ==
    CASE Len(cells) < Width            -> Refused("INSUFFICIENT_COLUMNS")
      [] Cardinality(Found(cells)) = 1 -> [start |-> CHOOSE s \in Found(cells) : TRUE]
      [] Cardinality(Found(cells)) > 1 -> Refused("AMBIGUOUS_REGION")
      [] Len(cells) >= Width /\ Found(cells) = {} ->
             IF DuplicateHeaders(cells) # {} THEN Refused("DUPLICATE_HEADERS")
             ELSE Refused("HEADER_CONTRACT")

\* Mutant: what follows the region ends at its first empty cell.
RestToGap(cells, start) ==
    LET rest == SubSeq(cells, start + Width, Len(cells))
        gap == SelectInSeq(rest, LAMBDA cell : cell = NoCell)
    IN  IF gap = 0 THEN rest ELSE SubSeq(rest, 1, gap - 1)

\* What follows the region, up to the last cell that is not empty.
Rest(cells, start) ==
    LET rest == SubSeq(cells, start + Width, Len(cells))
    IN  SubSeq(rest, 1, SelectLastInSeq(rest, LAMBDA cell : cell # NoCell))

\* Only approved headers may follow, without a gap and once each.
ClassifyTrailing(cells, start) ==
    LET rest == Rest(cells, start) IN
    CASE ToSet(rest) \cap {NoCell, ""} # {} -> Refused("EMPTY_COLUMN_NAME")
      [] ToSet(rest) \cap {NoCell, ""} = {} ->
             IF DuplicateHeaders(rest) # {} \/ ToSet(rest) \cap ToSet(Contract) # {}
             THEN Refused("DUPLICATE_HEADERS")
             ELSE IF ~ ToSet(rest) \subseteq Approved THEN Refused("UNAPPROVED_SOURCE_COLUMN")
             ELSE [start |-> start, extras |-> rest]

MatchRow(cells) ==
    LET at == LocateSourceHeaders(cells)
    IN  IF IsRefused(at) THEN at ELSE ClassifyTrailing(cells, at.start)

Specific == {"DUPLICATE_HEADERS", "UNAPPROVED_SOURCE_COLUMN", "EMPTY_COLUMN_NAME",
             "AMBIGUOUS_REGION"}

\* _prefer_header_error: the latest refusal that is specific, else the latest.
Preferred(errors) ==
    LET at == SelectLastInSeq(errors, LAMBDA e : e.reason \in Specific)
    IN  CASE errors = <<>>            -> Refused("HEADER_CONTRACT")
          [] errors # <<>> /\ at = 0  -> Last(errors)
          [] OTHER                    -> errors[at]

\* The first row that matches, or the refusal to show.
MatchHeaderRows(rows) ==
    LET matches == [i \in DOMAIN rows |-> MatchRow(rows[i])]
        at == SelectInSeq(matches, LAMBDA m : ~IsRefused(m))
    IN  IF at = 0 THEN Preferred(matches)
        ELSE [row |-> at, start |-> matches[at].start, extras |-> matches[at].extras]

\* The cells of a row that iter_rows yields: MaxCol of them.
Scanned(cells) == [c \in 1..MaxCol |-> IF c \in DOMAIN cells THEN cells[c] ELSE NoCell]

ScanHeaders(sheet) ==
    MatchHeaderRows([r \in {i \in DOMAIN sheet : i <= HeaderScanRows} |-> Scanned(sheet[r])])

-----------------------------------------------------------------------------
(* The workbook *)

\* The preferred sheet whatever it holds, else the one sheet that matches.
ResolveLayout(book) ==
    LET matches == SelectSeq(book.order, LAMBDA name : ~IsRefused(ScanHeaders(book.sheets[name])))
    IN  CASE PreferredSheet \in ToSet(book.order) ->
                 [name |-> PreferredSheet] @@ ScanHeaders(book.sheets[PreferredSheet])
          [] PreferredSheet \notin ToSet(book.order) /\ Len(matches) = 1 ->
                 [name |-> matches[1]] @@ ScanHeaders(book.sheets[matches[1]])
          [] PreferredSheet \notin ToSet(book.order) /\ Len(matches) > 1 ->
                 Refused("AMBIGUOUS_REGION")
          [] OTHER -> Refused("MISSING_SHEET")

\* payload_from_values: the cells below the headers, by header.
Payload(layout, cells) ==
    LET keys == Contract \o layout.extras
    IN  [h \in ToSet(keys) |-> cells[layout.start - 1 + CHOOSE i \in DOMAIN keys : keys[i] = h]]

RowIsEmpty(payload) == \A h \in ToSet(Contract) : payload[h] \in {NoCell, ""}

SourceRow(layout, sheet, number) ==
    [source_row_number |-> number, raw |-> Payload(layout, sheet[number])]

\* The rows below the header row.
SourceRows(book, layout) ==
    LET sheet == book.sheets[layout.name]
    IN  [i \in 1..Len(sheet) - layout.row |-> SourceRow(layout, sheet, layout.row + i)]

\* ingest_workbook: a refused workbook fails the batch, with one rejection;
\* of the others all rows with a source value are staged.
IngestWorkbook(book) ==
    LET layout == ResolveLayout(book)
    IN  IF IsRefused(layout) THEN [status |-> "failed", reason |-> layout.reason, rows |-> <<>>]
        ELSE [status |-> "staged", reason |-> "none",
              rows |-> SelectSeq(SourceRows(book, layout), LAMBDA row : ~RowIsEmpty(row.raw))]

-----------------------------------------------------------------------------
(* Files of the configuration catalog: one sheet, headers in its first row *)

LogicAliases ==
    [campaign_name  |-> <<"campaign_name", "Campaign Name">>,
     filter_logic_1 |-> <<"filter_logic_1", "Filter Logic 1">>]
LabelAliases ==
    [group_name           |-> <<"group_name", "Group Name", "Filter Logic 1_2">>,
     filter_logic_1_value |-> <<"filter_logic_1_value", "Filter Logic 1", "Filter Logic 1 Value">>]

Aliases(kind)  == IF kind = "logic" THEN LogicAliases ELSE LabelAliases
Required(kind) == IF kind = "logic" THEN {"campaign_name"} ELSE DOMAIN LabelAliases

\* The first alias that is there; of columns with one name, the last.
MapHeaders(headers, aliases) ==
    LET Alias(f) == SelectInSeq(aliases[f], LAMBDA name : name \in ToSet(headers))
    IN  [f \in {g \in DOMAIN aliases : Alias(g) # 0} |->
            SelectLastInSeq(headers, LAMBDA h : h = aliases[f][Alias(f)])]

\* The fields of one row, NoCell for a field without a column.
Record(mapping, aliases, cells) ==
    [f \in DOMAIN aliases |->
        IF f \in DOMAIN mapping /\ mapping[f] <= Len(cells) THEN cells[mapping[f]] ELSE NoCell]

RowEmpty(record, required) == \A f \in required : record[f] = NoCell

\* _finalize_rows: a Logic file may name a campaign twice, a Labels file may
\* not give a value to two groups.
FinalizeRows(kind, rows) ==
    IF kind = "labels" /\ \E i, j \in DOMAIN rows :
           i # j /\ rows[i].filter_logic_1_value = rows[j].filter_logic_1_value
    THEN Refused("INVALID_CONTENT") ELSE [rows |-> rows]

\* parse_catalog_workbook: all rows are good, or the file is refused.
ParseCatalogWorkbook(kind, sheet) ==
    LET aliases == Aliases(kind)
        mapping == MapHeaders(sheet[1], aliases)
        records == [i \in 1..Len(sheet) - 1 |-> Record(mapping, aliases, sheet[i + 1])]
        rows == SelectSeq(records, LAMBDA r : ~RowEmpty(r, Required(kind)))
    IN  CASE sheet = <<>> -> Refused("INVALID_SCHEMA")
          [] sheet # <<>> /\ ~ Required(kind) \subseteq DOMAIN mapping -> Refused("INVALID_SCHEMA")
          [] OTHER ->
                 IF \/ rows = <<>>
                    \/ \E i \in DOMAIN rows, f \in Required(kind) : rows[i][f] = NoCell
                 THEN Refused("INVALID_CONTENT")
                 ELSE FinalizeRows(kind, rows)
=============================================================================
