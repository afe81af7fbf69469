------------------------------ MODULE Decimals -----------------------------
(***************************************************************************)
(* Fixed-point arithmetic (packages/domain money/decimal.ts).  A decimal   *)
(* is its unscaled integer and its number of decimal places.  BigInt has   *)
(* no width.                                                               *)
(***************************************************************************)
EXTENDS Integers

pow10(exponent) == 10 ^ exponent
abs(n) == IF n < 0 THEN -n ELSE n
LargerOf(a, b) == IF a > b THEN a ELSE b

ofUnits(units, scale) == [units |-> units, scale |-> scale]
ofInteger(n) == ofUnits(n, 0)

\* Whether the magnitude of a quotient with a remainder is rounded away from 0.
Away(quotient, twiceRemainder, divisor, negative, mode) ==
  CASE mode = "DOWN" -> FALSE
    [] mode = "UP" -> TRUE
    [] mode = "FLOOR" -> negative
    [] mode = "CEILING" -> ~negative
    [] mode = "HALF_UP" -> twiceRemainder >= divisor
    [] mode = "HALF_EVEN" -> \/ twiceRemainder > divisor
                             \/ twiceRemainder = divisor /\ quotient % 2 = 1

divideRounded(n, d, mode) ==
  LET negative == (n < 0) # (d < 0)
      quotient == abs(n) \div abs(d)
      remainder == abs(n) % abs(d)
      magnitude == IF /\ remainder # 0
                      /\ Away(quotient, 2 * remainder, abs(d), negative, mode)
                   THEN quotient + 1 ELSE quotient
  IN IF negative THEN -magnitude ELSE magnitude

\* No caller makes withScale lose a digit.
withScale(x, scale) ==
  ofUnits(IF scale >= x.scale THEN x.units * pow10(scale - x.scale)
          ELSE divideRounded(x.units, pow10(x.scale - scale), "DOWN"), scale)

Aligned(x, y) == LargerOf(x.scale, y.scale)
plus(x, y) == ofUnits(withScale(x, Aligned(x, y)).units + withScale(y, Aligned(x, y)).units,
                      Aligned(x, y))
minus(x, y) == plus(x, ofUnits(-y.units, y.scale))
times(x, y) == ofUnits(x.units * y.units, x.scale + y.scale)
compare(x, y) == LET d == minus(x, y).units IN IF d < 0 THEN -1 ELSE IF d > 0 THEN 1 ELSE 0

dividedBy(x, y, scale, mode) ==
  ofUnits(divideRounded(x.units * pow10(y.scale + scale), y.units * pow10(x.scale), mode), scale)

round(x, scale, mode) ==
  IF scale >= x.scale THEN withScale(x, scale)
  ELSE ofUnits(divideRounded(x.units, pow10(x.scale - scale), mode), scale)
toCents(x, mode) == round(x, 2, mode).units

\* toDecimal of money/money.ts, for a currency of two decimal places.
toDecimal(cents) == ofUnits(cents, 2)
=============================================================================
