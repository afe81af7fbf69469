------------------------------ MODULE CsvRows -------------------------------
(***************************************************************************)
(* How the text of an import becomes rows and errors (packages/            *)
(* integrations csv/parser.ts).  The import is validated and later read    *)
(* again by the worker with the same operators.                            *)
(*                                                                         *)
(* Characters are those of CsvCells.  A column has a name of one character.*)
(***************************************************************************)
EXTENDS Integers, FiniteSets, CsvCells

CONSTANTS
    Files,           \* the texts, with the table each was written from
    MaxRows, MaxFieldLength,
    GoodDate, OwnCurrency, ForeignCurrency  \* cells

CsvAssumption == \A f \in Files: f.text \in Seq(STRING)

Columns == <<"I", "D", "A", "C", "R">>  \* external_id .. reference; description is like it
RequiredColumns == {1, 2, 3, 4}

\* file: [text, table]; table is <<>> for a text nobody wrote with toCsvRow.
\* scan: what tokenizeCsv has read; result: of parseImportCsv, or Unread.
VARIABLES file, scan, result
vars == <<file, scan, result>>

----------------------------------------------------------------------------
(* tokenizeCsv, a character at a time                                      *)

Begun == [at |-> 1, row |-> <<>>, field |-> <<>>, inQuotes |-> FALSE,
          wasQuoted |-> FALSE, rows |-> <<>>, done |-> FALSE]
Here == file.text[scan.at]
Ahead == IF scan.at < Len(file.text) THEN file.text[scan.at + 1] ELSE "end"
Reading == ~scan.done /\ scan.at <= Len(file.text)
Move(steps, new) == scan' = [new EXCEPT !.at = scan.at + steps] /\ UNCHANGED <<file, result>>
AddToField == [scan EXCEPT !.field = Append(@, Here)]
EndOfRow == [scan EXCEPT !.rows = Append(@, Append(scan.row, scan.field)),
                         !.row = <<>>, !.field = <<>>, !.wasQuoted = FALSE]

(* A mutation: a doubled quote is taken for the end of the field. *)
NeverDoubled == FALSE

DoubledQuote == Here = "\"" /\ Ahead = "\""

EscapedQuote == Reading /\ scan.inQuotes /\ DoubledQuote /\ Move(2, AddToField)
CloseQuote == /\ Reading /\ scan.inQuotes /\ Here = "\"" /\ ~DoubledQuote
              /\ Move(1, [scan EXCEPT !.inQuotes = FALSE])
QuotedCharacter == Reading /\ scan.inQuotes /\ Here # "\"" /\ Move(1, AddToField)

\* A quote inside a field that began without one is a character.
Opens == Here = "\"" /\ scan.field = <<>>
OpenQuote == /\ Reading /\ ~scan.inQuotes /\ Opens
             /\ Move(1, [scan EXCEPT !.inQuotes = TRUE, !.wasQuoted = TRUE])
Comma == /\ Reading /\ ~scan.inQuotes /\ Here = ","
         /\ Move(1, [scan EXCEPT !.row = Append(@, scan.field), !.field = <<>>,
                                 !.wasQuoted = FALSE])
Break == /\ Reading /\ ~scan.inQuotes /\ Here \in {"n", "r"}
         /\ Move(IF Here = "r" /\ Ahead = "n" THEN 2 ELSE 1, EndOfRow)
PlainCharacter == /\ Reading /\ ~scan.inQuotes /\ ~Opens /\ Here \notin {",", "n", "r"}
                  /\ Move(1, AddToField)

\* The last row needs no line break.
LastRow == scan.field # <<>> \/ scan.row # <<>> \/ scan.wasQuoted
EndOfText ==
  /\ ~scan.done /\ scan.at > Len(file.text)
  /\ scan' = [(IF LastRow /\ ~scan.inQuotes THEN EndOfRow ELSE scan) EXCEPT !.done = TRUE]
  /\ UNCHANGED <<file, result>>

Scan == \/ EscapedQuote \/ CloseQuote \/ QuotedCharacter \/ OpenQuote \/ Comma
        \/ Break \/ PlainCharacter \/ EndOfText

----------------------------------------------------------------------------
(* parseImportCsv                                                          *)

IsBlank(row) == Len(row) = 1 /\ Trim(row[1]) = <<>>
NonEmpty(rows) ==
  LET upTo[n \in 0 .. Len(rows)] ==
        IF n = 0 THEN <<>>
        ELSE IF IsBlank(rows[n]) THEN upTo[n - 1] ELSE Append(upTo[n - 1], rows[n])
  IN upTo[Len(rows)]
DataRows == Tail(NonEmpty(scan.rows))
HeaderRow == [i \in DOMAIN Head(NonEmpty(scan.rows)) |-> Trim(Head(NonEmpty(scan.rows))[i])]
HeaderValid == /\ Len(HeaderRow) = Len(Columns)
               /\ \A i \in DOMAIN Columns: \E j \in DOMAIN HeaderRow: HeaderRow[j] = <<Columns[i]>>

\* The value of a column, whatever the order of the header.
Cell(row, i) == Trim(row[CHOOSE j \in DOMAIN HeaderRow: HeaderRow[j] = <<Columns[i]>>])

Fails(code) == [rows |-> <<>>, errors |-> {<<0, code>>}, total |-> 0]
Unread == [rows |-> <<>>, errors |-> {}, total |-> -1]

\* The first check that a row fails, in the order of the code; a row may lack
\* several values at once.
RowError(row) ==
  CASE Len(row) # Len(HeaderRow) -> "WRONG_FIELD_COUNT"
    [] \E i \in RequiredColumns: Cell(row, i) = <<>> -> "MISSING_VALUE"
    [] \E i \in DOMAIN Columns: Len(Cell(row, i)) > MaxFieldLength -> "FIELD_TOO_LONG"
    [] Cell(row, 2) # GoodDate -> "INVALID_DATE"
    [] Cell(row, 4) \notin {OwnCurrency, ForeignCurrency} -> "INVALID_CURRENCY"
    [] Cell(row, 4) = ForeignCurrency -> "CURRENCY_NOT_SUPPORTED"
    [] parseAmountToCents(Cell(row, 3)) = {} -> "INVALID_AMOUNT"
    [] parseAmountToCents(Cell(row, 3)) = {0} -> "ZERO_AMOUNT"
    [] OTHER -> "none"

Kept(row, number) ==
  [number |-> number, id |-> Cell(row, 1), reference |-> Cell(row, 5),
   amount |-> CHOOSE cents \in parseAmountToCents(Cell(row, 3)): TRUE]
FirstSeen(rows, id) == {r \in ToSet(rows): r.id = id}

\* One data row: kept, or an error that names the row; a repeated id names the
\* row that was kept, too.
AddRow(so_far, number) ==
  LET row == DataRows[number]
      error == RowError(row)
      first == FirstSeen(so_far.rows, Cell(row, 1))
  IN IF error # "none" THEN [so_far EXCEPT !.errors = @ \cup {<<number, error>>}]
     ELSE IF first # {}
     THEN [so_far EXCEPT !.errors =
             @ \cup {<<number, "DUPLICATE_EXTERNAL_ID_IN_FILE", r.number>>: r \in first}]
     ELSE [so_far EXCEPT !.rows = Append(@, Kept(row, number))]

DataRead ==
  LET upTo[n \in 0 .. Len(DataRows)] ==
        IF n = 0 THEN [rows |-> <<>>, errors |-> {}, total |-> Len(DataRows)]
        ELSE AddRow(upTo[n - 1], n)
  IN upTo[Len(DataRows)]

Parsed ==
  IF scan.inQuotes THEN Fails("UNTERMINATED_QUOTE")
  ELSE IF NonEmpty(scan.rows) = <<>> THEN Fails("EMPTY_FILE")
  ELSE IF ~HeaderValid THEN Fails("MISSING_HEADER")
  ELSE IF Len(DataRows) > MaxRows THEN Fails("ROW_LIMIT_EXCEEDED")
  ELSE DataRead

Parse == /\ scan.done /\ result = Unread
         /\ result' = Parsed /\ UNCHANGED <<file, scan>>

Valid(r) == r.errors = {} /\ r.rows # <<>>

Init == file \in Files /\ scan = Begun /\ result = Unread
Next == Scan \/ Parse
Spec == Init /\ [][Next]_vars

----------------------------------------------------------------------------
(* Properties                                                              *)

\* What toCsvRow wrote is read back cell by cell, apostrophes apart.
ReadBack ==
  (scan.done /\ file.table # <<>>) =>
    scan.rows = [i \in DOMAIN file.table |->
                   [j \in DOMAIN file.table[i] |-> Guarded(file.table[i][j])]]

FileLevel == \E e \in result.errors: e[1] = 0

\* Of a file whose header is right every row that is not blank is kept or has
\* an error, never both; ids of kept rows differ, a duplicate names a kept row
\* above it with that id, and a valid file is kept whole.
EachRowOnce ==
  (result # Unread /\ ~FileLevel) =>
    LET kept == {r.number: r \in ToSet(result.rows)}
        wrong == {e[1]: e \in result.errors}
    IN /\ kept \cup wrong = 1 .. result.total /\ kept \cap wrong = {}
       /\ Cardinality({r.id: r \in ToSet(result.rows)}) = Len(result.rows)
       /\ \A e \in result.errors: Len(e) = 3 =>
            /\ e[3] < e[1]
            /\ \E r \in ToSet(result.rows): r.number = e[3] /\ r.id = Cell(DataRows[e[1]], 1)
       /\ Valid(result) => Len(result.rows) = result.total

\* A kept row has the amount its cell was written for, and a plain number in
\* range is not refused: the guard against formulas leaves its minus alone.
AmountOf(number) == Cell(Tail(NonEmpty(file.table))[number], 3)
AmountsSurvive ==
  (result # Unread /\ ~FileLevel /\ file.table # <<>>) =>
    /\ \A r \in ToSet(result.rows): parseAmountToCents(AmountOf(r.number)) = {r.amount}
    /\ \A e \in result.errors: (e[2] = "INVALID_AMOUNT" /\ PLAIN_NUMBER(AmountOf(e[1]))) =>
         parseAmountToCents(AmountOf(e[1])) = {}

RowsAccounted == ReadBack /\ EachRowOnce /\ AmountsSurvive
=============================================================================
