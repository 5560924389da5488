------------------------------ MODULE MCCatalog ------------------------------
(* Days 10 to 13: half months of July (window one) and August (window two); *)
(* day 9 is before the first window.                                        *)
EXTENDS CatalogFiles

MCLower(text) ==
    CASE text \in {"utility", "Utility"} -> "utility"
      [] text \in {"sms", "SMS"} -> "sms"
      [] text \in {"C1", "c1"} -> "c1"
      [] OTHER -> text

MCCampaignRows ==
    ("campaign-v1" :> << [campaign_name |-> "C1", filter_logic_1 |-> "old"] >>)
    @@ ("campaign-v2" :> << [campaign_name |-> "c1", filter_logic_1 |-> "new"],
                            [campaign_name |-> "C1", filter_logic_1 |-> "late"] >>)
MCTemplateRows ==
    ("template-v3" :> << [template_name |-> "T1", template_status |-> "utility"] >>)
    @@ ("template-v4" :> << [template_name |-> "T1", template_status |-> NoText] >>)
MCGroupRows == GroupVersion :> << [filter_logic_1_value |-> "old", group_name |-> "G"] >>

MCCampaignWindows == << <<"campaign-v1", 10, 12>>, <<"campaign-v2", 12, 99>> >>
MCTemplateWindows == << <<"template-v3", 10, 12>>, <<"template-v4", 12, 99>> >>
MCRateWindows     == << <<"rate-v1", 10, 12>>, <<"rate-v2", 12, 99>> >>

\* The files of the catalog, with the headers a publisher may use.
MCFile ==
    [v \in Uploads |->
        CASE v = "logic-1" -> << <<"Campaign Name", "Filter Logic 1">>, <<"C1", "one">> >>
          [] v = "logic-2" -> << <<"Filter Logic 1", "owner", "campaign_name">>,
                                 <<"two", "me", "C2">>, <<"three", "me", NoText>> >>
          [] OTHER -> << <<"Filter Logic 1_2", "Filter Logic 1">>, <<"H", "one">>,
                         <<NoText, NoText>>, <<"I", "two">> >>]
MCUploadedRows ==
    [v \in Uploads |->
        CASE v = "logic-1" -> << [campaign_name |-> "C1", filter_logic_1 |-> "one"] >>
          [] v = "logic-2" -> << [campaign_name |-> "C2", filter_logic_1 |-> "two"] >>
          [] OTHER -> << [filter_logic_1_value |-> "one", group_name |-> "H"],
                         [filter_logic_1_value |-> "two", group_name |-> "I"] >>]
ASSUME UploadedRowsAreParsed ==
    \A v \in Uploads :
        ParseCatalogWorkbook(IF v \in Logic THEN "logic" ELSE "labels", MCFile[v])
            = [rows |-> MCUploadedRows[v]]

Count(n) == [kind |-> "int", n |-> n]
Local(minute) == [kind |-> "local", minute |-> minute, zone |-> 0]
NoDate == [kind |-> "blank", minute |-> 0, zone |-> 0]
Zoned(minute, zone) == [kind |-> "zoned", minute |-> minute, zone |-> zone]
Row(campaign, day, name, template, channel, delivered) ==
    [campaign_id |-> campaign, variation |-> NoText, day |-> day, name |-> name,
     template |-> template, channel |-> channel, sent |-> Count(2), delivered |-> delivered,
     conversions |-> Blank, revenue |-> [kind |-> "fraction", n |-> 1], start |-> Local(600)]
Day(n) == [kind |-> "date", n |-> n]

July     == Row("a", Day(11), "c1", "T1", "SMS", Count(1))
August   == [Row("a", Day(12), "C1", "T1", "WhatsApp", Count(2)) EXCEPT !.start = Zoned(630, 0)]
March    == Row("a", Day(9),  "C1", "T1", "SMS", Count(1))
Stamped  == Row("b", [kind |-> "timed", n |-> 12], "C2", NoText, "sms", Blank)
Excess   == [Row("b", Day(12), "", "T2", "Fax", Count(3)) EXCEPT !.start = Zoned(615, 15)]
Minus    == [Row("b", Day(11), "C2", "T1", NoText, Count(-1)) EXCEPT !.start = NoDate]
\* Five hours and a half ahead of the sessions: read back at four.
Abroad   == [Row("d", Day(12), "C1", "T1", "SMS", Count(1)) EXCEPT !.start = Zoned(600, 330)]
NoKeyRow == Row("", Day(11), "C1", "T1", "SMS", Count(1))
NoDayRow == Row("c", [kind |-> "bad", n |-> 0], "C1", "T1", "SMS", Count(1))
HalfRow  == Row("c", Day(12), "C1", "T1", "SMS", [kind |-> "fraction", n |-> 1])

MCWorkbooks ==
    { <<July, August>>, <<March, August>>, <<Stamped, July>>, <<Minus, Excess>>,
      <<July, July>>, <<NoKeyRow, July>>, <<NoDayRow, HalfRow>>, <<July, Abroad>> }

MCImported == [v \in Uploads |-> CASE v = "logic-1" -> "draft"
                                   [] v = "logic-2" -> "absent"
                                   [] OTHER -> "active"]

\* Sheets of a source file with the contract "A", "B" and one approved header,
\* "X": all header rows up to four cells, below a title, above another header
\* row or alone, and rows of data of which one is blank but for the extra; and
\* header rows with a fifth cell, beyond the columns that are searched.
MCContract == <<"A", "B">>
HeaderRows(n) == [1..n -> {"A", "B", "X", "U", "", NoText}]
DataRow(r, n) == [c \in 1..n |-> << "11", "12", "13", "14", "15", "21", "22", "23", "24", "25" >>[5 * r + c]]
Sparse(n) == [c \in 1..n |-> IF c = n THEN "x" ELSE IF c = 1 THEN "" ELSE NoText]
MCSheet(above, header) ==
    LET n == Len(header) IN
    [i \in DOMAIN above |-> [c \in 1..n |-> above[i][c]]]
        \o << header, DataRow(0, n), Sparse(n), DataRow(1, n) >>
Titles == [1..5 -> {"t"}]
Broken == {<<"A", "B", "U", NoText, NoText>>, <<"B", "A", "X", "", "A">>}
MCTopSheets   == UNION {{MCSheet(<<>>, h) : h \in HeaderRows(n)} : n \in 1..4}
MCWideSheets  == {MCSheet(<<>>, Append(h, last)) :
                     h \in [1..4 -> {"A", "B", "X", NoText}], last \in {"B", "X", "U"}}
MCBelowSheets == {MCSheet(<<above>>, h) : above \in Titles \cup Broken, h \in HeaderRows(3)}
MCFewSheets == {MCSheet(<<>>, h) : h \in {<<"A", "B">>, <<"A", "B", "X">>, <<"B", "A">>}}
MCBooks ==
    {[order |-> <<"Web-Engage Raw">>, sheets |-> "Web-Engage Raw" :> sheet] : sheet \in MCBelowSheets}
    \cup {[order |-> <<"Sheet1">>, sheets |-> "Sheet1" :> sheet] : sheet \in MCTopSheets \cup MCWideSheets}
    \cup {[order |-> <<"Sheet1", name>>, sheets |-> ("Sheet1" :> one) @@ (name :> two)] :
             name \in {"Web-Engage Raw", "Sheet2"}, one \in MCFewSheets, two \in MCFewSheets}

MCSymmetry == Permutations(Publishers)
=============================================================================
