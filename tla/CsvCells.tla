------------------------------ MODULE CsvCells ------------------------------
(***************************************************************************)
(* How cells become the text of a CSV row (packages/integrations           *)
(* csv/parser.ts).  A character is a one-letter string: the quote, the     *)
(* comma, "n" and "r" for the line breaks, "=" for "@" and the tab too, and *)
(* those that amounts are made of.                                         *)
(***************************************************************************)
EXTENDS Amounts

\* A cell that starts like a formula and is no number gets an apostrophe.
Formula(cell) == cell # <<>> /\ Head(cell) \in {"=", "+", "-", "r"} /\ ~PLAIN_NUMBER(cell)
Guarded(cell) == IF Formula(cell) THEN <<"'">> \o cell ELSE cell
Doubled(cell) == FlattenSeq([i \in DOMAIN cell |->
                   IF cell[i] = "\"" THEN <<"\"", "\"">> ELSE <<cell[i]>>])
escapeCsvCell(cell) ==
  LET text == Guarded(cell) IN
  IF ToSet(text) \cap {"\"", ",", "n", "r"} = {} THEN text
  ELSE <<"\"">> \o Doubled(text) \o <<"\"">>
toCsvRow(cells) ==
  FoldLeft(LAMBDA text, i: text \o (IF i = 1 THEN <<>> ELSE <<",">>) \o escapeCsvCell(cells[i]),
           <<>>, [i \in DOMAIN cells |-> i])
=============================================================================
