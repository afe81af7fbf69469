------------------------------ MODULE Amounts ------------------------------
(***************************************************************************)
(* Amounts of money as text (parseAmountToCents and formatCents of         *)
(* packages/domain money/money.ts), in a currency of two decimal places.   *)
(* A character is a one-letter string, "n" and "r" the line breaks.        *)
(***************************************************************************)
EXTENDS Decimals, SequencesExt

CONSTANT MAX_SAFE_INTEGER  \* 2^53 - 1 in the code

Digits == <<"0", "1", "2", "3", "4", "5", "6", "7", "8", "9">>
Blank == {" ", "n", "r"}
AreDigits(text) == text # <<>> /\ ToSet(text) \subseteq ToSet(Digits)
ValueOf(digits) == FoldLeft(LAMBDA n, c: 10 * n + SelectInSeq(Digits, LAMBDA d: d = c) - 1, 0, digits)

Trim(text) ==
  LET inked == {i \in DOMAIN text: text[i] \notin Blank}
  IN IF inked = {} THEN <<>> ELSE SubSeq(text, Min(inked), Max(inked))
StartsWith(text, c) == text # <<>> /\ Head(text) = c

\* What stands before the first decimal point, and after it.
Point(text) == SelectInSeq(text, LAMBDA c: c = ".")
Whole(text) == IF Point(text) = 0 THEN text ELSE SubSeq(text, 1, Point(text) - 1)
Fraction(text) == IF Point(text) = 0 THEN <<>> ELSE SubSeq(text, Point(text) + 1, Len(text))

PlainDecimal(text) == AreDigits(Whole(text)) /\ (Point(text) # 0 => AreDigits(Fraction(text)))
PLAIN_NUMBER(text) == PlainDecimal(IF StartsWith(text, "-") THEN Tail(text) ELSE text)

\* Commas before every three digits, counted from the end.
Grouped(whole) ==
  /\ Len(whole) % 4 # 0
  /\ \A i \in DOMAIN whole: IF (Len(whole) - i) % 4 = 3 THEN whole[i] = ","
                            ELSE whole[i] \in ToSet(Digits)
Ungrouped(text) == SelectSeq(text, LAMBDA c: c # ",")
GroupedDecimal(text) == Grouped(Whole(text)) /\ PlainDecimal(Ungrouped(text))

----------------------------------------------------------------------------
(* parseAmountToCents: its steps, then all of them                         *)

InParentheses(text) ==
  /\ StartsWith(text, "(") /\ Len(text) > 1 /\ Last(text) = ")"
  /\ ToSet(text) \cap {"n", "r"} = {}
Inside(text) == IF InParentheses(text) THEN Trim(SubSeq(text, 2, Len(text) - 1)) ELSE text
WithoutSymbol(text) == IF StartsWith(text, "$") THEN Tail(text) ELSE text
WithoutBlanks(text) == SelectSeq(text, LAMBDA c: c \notin Blank)
Signed(text) == StartsWith(text, "-") \/ StartsWith(text, "+")

\* The cents, or nothing for an InvalidMoneyError.
parseAmountToCents(raw) ==
  LET inside == Inside(Trim(raw))
      text == WithoutBlanks(WithoutSymbol(inside))
      amount == IF Signed(text) THEN Tail(text) ELSE text
      negative == InParentheses(Trim(raw)) # StartsWith(text, "-")
      digits == Ungrouped(amount)
      parsed == ofUnits(ValueOf(Whole(digits) \o Fraction(digits)), Len(Fraction(digits)))
      cents == withScale(parsed, 2).units
  IN IF (GroupedDecimal(amount) \/ PlainDecimal(amount)) /\ parsed.scale <= 2
     THEN {IF negative THEN -c ELSE c: c \in {x \in {cents}: x <= MAX_SAFE_INTEGER}}
     ELSE {}

----------------------------------------------------------------------------
(* formatCents: Decimal.toString of two decimal places                     *)

\* As many digits as the number has, and one before the point at least.
Width(n) == CHOOSE k \in 3 .. n + 3: n < pow10(k) /\ (k = 3 \/ n >= pow10(k - 1))
Padded(n) == [i \in 1 .. Width(n) |-> Digits[((n \div pow10(Width(n) - i)) % 10) + 1]]
formatCents(cents) ==
  LET digits == Padded(abs(cents)) IN
  (IF cents < 0 THEN <<"-">> ELSE <<>>)
  \o SubSeq(digits, 1, Len(digits) - 2) \o <<".">> \o SubSeq(digits, Len(digits) - 1, Len(digits))
=============================================================================
