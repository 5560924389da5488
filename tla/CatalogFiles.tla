----------------------------- MODULE CatalogFiles -----------------------------
(***************************************************************************)
(* A workbook that is read and staged (WorkbookReading), beside the runs   *)
(* of Catalog, which take their staged rows from Workbooks.  Reading a     *)
(* file asks nothing of the catalog, so a behaviour does one or the other. *)
(***************************************************************************)
EXTENDS Catalog, WorkbookReading

CONSTANTS
    Books,   \* the workbooks to read: [order, sheets]
    NoFile

VARIABLE file   \* the workbook that was read, and what became of it

FilesInit == Init /\ file = NoFile

Unused ==
    /\ file = NoFile /\ run = NoRun
    /\ \A p \in Publishers : tx[p] = NoTx
    /\ \A v \in Uploads : version[v].status = Imported[v]

ReadFile ==
    /\ Unused
    /\ \E book \in Books : file' = [book |-> book, result |-> IngestWorkbook(book)]
    /\ UNCHANGED vars

FilesNext ==
    \/ file = NoFile /\ Next /\ UNCHANGED file
    \/ ReadFile

FilesSpec == FilesInit /\ [][FilesNext]_<<vars, file>>

-----------------------------------------------------------------------------
(* Properties. *)

\* A row of cells that states where the source columns are, as far as it is
\* searched: the contract once, then approved headers, each once, then nothing.
States(cells, s) ==
    LET Size == IF Len(cells) < MaxCol THEN Len(cells) ELSE MaxCol IN
    /\ s + Width - 1 <= Size
    /\ \A i \in 1..Width : cells[s + i - 1] = Contract[i]
    /\ \A t \in 1..Size : t # s /\ t + Width - 1 <= Size =>
           \E i \in 1..Width : cells[t + i - 1] # Contract[i]
    /\ \E last \in s + Width - 1..Size :
           /\ \A c \in last + 1..Size : cells[c] = NoCell
           /\ \A c \in s + Width..last : cells[c] \in Approved
           /\ \A c, d \in s + Width..last : c # d => cells[c] # cells[d]

Columns(cells) == {s \in 1..Len(cells) : States(cells, s)}
Stating(sheet) == {r \in DOMAIN sheet : r <= HeaderScanRows /\ Columns(sheet[r]) # {}}

\* The sheets a book may be read from, and of a sheet the header row and the
\* first source column.
Readable(book) ==
    LET stating == {name \in ToSet(book.order) : Stating(book.sheets[name]) # {}}
    IN  IF PreferredSheet \in ToSet(book.order) THEN stating \cap {PreferredSheet} ELSE stating
HeaderRow(sheet)   == CHOOSE r \in Stating(sheet) : \A q \in Stating(sheet) : r <= q
FirstColumn(sheet) == CHOOSE s \in Columns(sheet[HeaderRow(sheet)]) : TRUE

\* Whatever stands around the source columns, a workbook is staged exactly if
\* one of its scanned rows states them, and then each column that is named from
\* the first source column on, up to the last one that is searched, is staged
\* under its own name, cell by cell, and no row with a source value is lost
\* (V1_ARCHITECTURE.md, "exact 57-header K:BO contract").
StagedUnderItsHeaders ==
    file # NoFile =>
        /\ file.result.status = "staged" <=> Cardinality(Readable(file.book)) = 1
        /\ file.result.status = "staged" =>
             LET sheet == file.book.sheets[CHOOSE name \in Readable(file.book) : TRUE]
                 top == HeaderRow(sheet)
                 s == FirstColumn(sheet)
                 rows == file.result.rows
                 named == {c \in s..Len(sheet[top]) : c <= MaxCol /\ sheet[top][c] # NoCell}
                 filled == {r \in top + 1..Len(sheet) :
                               \E c \in s..s + Width - 1 : sheet[r][c] \notin {NoCell, ""}}
             IN  /\ {rows[i].source_row_number : i \in DOMAIN rows} = filled
                 /\ \A i \in DOMAIN rows, c \in named :
                      /\ sheet[top][c] \in DOMAIN rows[i].raw
                      /\ rows[i].raw[sheet[top][c]] = sheet[rows[i].source_row_number][c]

\* V1_ARCHITECTURE.md: "Unknown trailing headers fail closed."  Not so beyond
\* the columns that are searched: such a column is dropped without a word.
UnknownTrailingHeadersFail ==
    file # NoFile /\ file.result.status = "staged" =>
        LET sheet == file.book.sheets[CHOOSE name \in Readable(file.book) : TRUE]
            header == sheet[HeaderRow(sheet)]
            known == Approved \cup ToSet(Contract) \cup {NoCell, ""}
        IN  \A c \in FirstColumn(sheet) + Width..Len(header) : header[c] \in known
=============================================================================
