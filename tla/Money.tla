------------------------------- MODULE Money -------------------------------
(***************************************************************************)
(* An amount of money split by weights (allocateProportionally), and one   *)
(* read from a text (parseAmountToCents), of packages/domain               *)
(* money/money.ts.  A behaviour is one call of either.                     *)
(***************************************************************************)
EXTENDS Amounts

CONSTANTS Totals, WeightLists, Texts

\* Cents are whole numbers, and a negative weight is refused.
MoneyAssumption == Totals \subseteq Int /\ WeightLists \subseteq Seq(Nat)

\* total, weights: the arguments of the split, or 0 and the text to read;
\* parts: what each weight gets; leftover: not handed out yet; turn: parts
\* handed a cent; read: what the text is read as.
VARIABLES total, weights, parts, leftover, turn, read, text
vars == <<total, weights, parts, leftover, turn, read, text>>

NotRead == <<>>
Cents(list) == SumFunction(list)

----------------------------------------------------------------------------
(* allocateProportionally                                                  *)

Base(w) == divideRounded(total * w, Cents(weights), "DOWN")
Remainder(i) == abs(total * weights[i] - Base(weights[i]) * Cents(weights))

(* A mutation: the weights are served in the order they came. *)
ServedInOrder(i, j) == i <= j

\* The largest remainder first, of equal ones the first.
ServedBefore(i, j) == \/ Remainder(i) > Remainder(j)
                      \/ Remainder(i) = Remainder(j) /\ i <= j
Served(n) == CHOOSE i \in DOMAIN weights:
               Cardinality({j \in DOMAIN weights: ServedBefore(j, i)}) = n
Step == IF leftover < 0 THEN -1 ELSE 1

Truncate ==
  /\ weights # <<>> /\ parts = <<>>
  /\ parts' = [i \in DOMAIN weights |-> Base(weights[i])]
  /\ leftover' = total - Cents(parts')
  /\ UNCHANGED <<total, weights, turn, read, text>>

HandOut ==
  /\ parts # <<>> /\ leftover # 0
  /\ parts' = [parts EXCEPT ![Served((turn % Len(weights)) + 1)] = @ + Step]
  /\ leftover' = leftover - Step /\ turn' = turn + 1
  /\ UNCHANGED <<total, weights, read, text>>

----------------------------------------------------------------------------
Read ==
  /\ weights = <<>> /\ read = NotRead
  /\ read' = <<parseAmountToCents(text)>>
  /\ UNCHANGED <<total, weights, parts, leftover, turn, text>>

\* A split of weights that are not all 0, or a text.
Init ==
  /\ parts = <<>> /\ leftover = 0 /\ turn = 0 /\ read = NotRead
  /\ \/ total \in Totals /\ weights \in WeightLists /\ Cents(weights) > 0 /\ text = <<>>
     \/ total = 0 /\ weights = <<>> /\ text \in Texts
Next == Truncate \/ HandOut \/ Read
Spec == Init /\ [][Next]_vars

----------------------------------------------------------------------------
(* Properties                                                              *)

\* No cent is lost or made while the rest is handed out.  In the end a part is
\* less than a cent from its exact share, so what weighs nothing gets nothing,
\* and the loop never goes round.
PartsAddUp ==
  parts # <<>> =>
    /\ Cents(parts) + leftover = total
    /\ turn < Len(weights)
    /\ leftover = 0 => \A i \in DOMAIN weights:
         abs(parts[i] * Cents(weights) - total * weights[i]) < Cents(weights)

\* An amount is what its digits say and no other: signs, symbol, blanks and
\* commas apart, the digits written are those of the amount; it is negative
\* for parentheses or for a minus, and not for both.
WrittenDigits == SelectSeq(text, LAMBDA c: c \in ToSet(Digits) \cup {"."})
ReadAsWritten ==
  (read # NotRead) => \A cents \in read[1]:
    /\ withScale(ofUnits(ValueOf(Ungrouped(Whole(WrittenDigits)) \o Fraction(WrittenDigits)),
                         Len(Fraction(WrittenDigits))), 2).units = abs(cents)
    /\ (cents < 0) => ({"(", "-"} \cap ToSet(text)) \in {{"("}, {"-"}}
    /\ (cents > 0) => ({"(", "-"} \cap ToSet(text)) \in {{}, {"(", "-"}}
    /\ parseAmountToCents(formatCents(cents)) = {cents}

MoneyExact == PartsAddUp /\ ReadAsWritten
=============================================================================
