--------------------------- MODULE FiguresProofs ---------------------------
(***************************************************************************)
(* Theorems about sums of cents: what the figures of the months promise    *)
(* for any charges, payments and months, and any number of closes at once; *)
(* and, at the end, how an amount is split (Money).                        *)
(*                                                                         *)
(* Every sum of the module is tied to the cents payments have on charges:  *)
(* a row's allocated amount is what the table of allocations adds up to,   *)
(* and a month's ledger is what its rows add up to.  A month that stands   *)
(* has only closed months behind it, where nothing is posted unseen, so a  *)
(* figure that was read once is the figure still.                          *)
(***************************************************************************)
EXTENDS Figures, FiniteSums

CONSTANTS MAX_SAFE_INTEGER, Totals, WeightLists, Texts
VARIABLES total, weights, parts, leftover, turn, read, text
Split == INSTANCE Money

Cents == Payment \X Charge

MoneyTyped ==
  /\ charge \in [Charge -> [there: BOOLEAN, allocated: Nat, credited: Nat]]
  /\ payment \in [Payment -> [status: {"ABSENT", "UNAPPLIED", "PARTIALLY_ALLOCATED", "ALLOCATED", "REVERSED"},
                              allocated: Nat]]
  /\ paid \in [Cents -> Nat]
  /\ ledger \in [Period -> [ar: Int, unapplied: Int]]

CloseTyped ==
  /\ exception \in [Payment -> [status: {"NONE", "OPEN", "RESOLVED"}, blocking: BOOLEAN]]
  /\ status \in [Period -> {"OPEN", "IN_REVIEW", "CLOSED"}]
  /\ DOMAIN snapshot = Period /\ DOMAIN closing = Period
  /\ \A T \in Period:
       /\ DOMAIN snapshot[T] = {"outstanding", "unapplied", "totals", "stands"}
       /\ snapshot[T].stands \in BOOLEAN
       /\ DOMAIN closing[T] = {"locked", "done", "facts", "disturbed"}
       /\ DOMAIN closing[T].facts = ToSet(Steps)
       /\ closing[T].locked \in BOOLEAN /\ closing[T].disturbed \in BOOLEAN
       /\ closing[T].done \in 0 .. Len(Steps)

\* No charge is overpaid, and what is paid on it is what payments have on it.
ChargesFit ==
  \A c \in Charge:
    /\ charge[c].allocated + charge[c].credited <= ChargeAmount[c]
    /\ ~charge[c].there => charge[c].allocated = 0 /\ charge[c].credited = 0
    /\ charge[c].allocated = Total(paid, {x \in Cents: x[2] = c})

\* No payment is overspent, its status says how far it is spent, and one that
\* goes out is not spent at all.
PaymentsFit ==
  \A p \in Payment:
    /\ payment[p].allocated <= PaymentAmount[p]
    /\ IF payment[p].status \in {"ABSENT", "REVERSED"} THEN payment[p].allocated = 0
       ELSE payment[p].status = PaymentStatus(p, payment[p].allocated)
    /\ payment[p].allocated = Total(paid, {x \in Cents: x[1] = p})
    /\ p \in Outgoing => payment[p].allocated = 0

Due == [c \in Charge |-> ChargeAmount[c] - charge[c].credited]
DatedIn(T) == {p \in Payment: PaymentPeriod[p] = T}

\* What the books have of a payment as cash: of one that goes out nothing, until
\* its receipt is reversed.
Booking(p, row) ==
  CASE row.status = "ABSENT"   -> 0
    [] row.status = "REVERSED" -> IF p \in Incoming THEN 0 ELSE -PaymentAmount[p]
    [] OTHER                   -> IF p \in Incoming THEN PaymentAmount[p] - row.allocated ELSE 0
Booked == [p \in Payment |-> Booking(p, payment[p])]

\* An allocation is posted in the month of the payment, all else in its own.
LedgerFits ==
  \A t \in Period:
    /\ ledger[t].ar = Total(Due, Posted(t)) - Total(Spent, DatedIn(t))
    /\ ledger[t].unapplied = Total(Booked, DatedIn(t))

Rows == MoneyTyped /\ ChargesFit /\ PaymentsFit /\ LedgerFits

EarlierClosed(T) == \A t \in 1 .. T - 1: status[t] = "CLOSED"
CashReviewed(T) == \A p \in Unreconciled(T): exception[p].status # "NONE"

\* Behind a month that stands all months are closed, and its figures are those
\* that were signed.
Signed(T) ==
    /\ EarlierClosed(T) /\ status[T] = "CLOSED"
    /\ snapshot[T].totals = periodTotals(T)
    /\ snapshot[T].outstanding = chargeDerivedReceivables(T)
    /\ cumulativeBalances(T) = [receivables |-> snapshot[T].outstanding,
                                unapplied |-> snapshot[T].unapplied]
    /\ countLeasesMissingCharges(T) = 0 /\ CashReviewed(T)
SignedFits == \A T \in Period: snapshot[T].stands => Signed(T)

\* What a close has gathered is so still, unless it was disturbed.
Undisturbed(T) == closing[T].locked /\ closing[T].done >= 1 /\ ~closing[T].disturbed
Current(T) ==
    LET now == closing[T] IN
    /\ EarlierClosed(T)
    /\ now.done >= 2 => now.facts["missing"] = countLeasesMissingCharges(T)
    /\ now.done >= 4 => (now.facts["unreviewed"] = {} => CashReviewed(T))
    /\ now.done >= 6 => now.facts["totals"] = periodTotals(T)
    /\ now.done >= 7 => now.facts["balances"] = cumulativeBalances(T)
    /\ now.done >= 8 => now.facts["derived"] = chargeDerivedReceivables(T)
GatheredFits ==
  \A T \in Period:
    /\ closing[T].locked => status[T] = "IN_REVIEW"
    /\ Undisturbed(T) => Current(T)

IInv == Rows /\ CloseTyped /\ SignedFits /\ GatheredFits

----------------------------------------------------------------------------
(* The rows of a state                                                     *)

(* The amounts of the rows are amounts, none of them below zero. *)
LEMMA Amounts ==
    ASSUME FiguresAssumption, MoneyTyped, ChargesFit, PaymentsFit
    PROVE  /\ \A c \in Charge : /\ Left[c] \in Nat /\ Open[c] = Left[c] /\ Due[c] \in Nat
                                /\ Left[c] = Due[c] - charge[c].allocated
                                /\ charge[c].allocated \in Nat /\ charge[c].credited \in Nat
           /\ \A p \in Payment : Spent[p] \in Nat /\ Cash[p] \in Nat /\ Spent[p] = payment[p].allocated
                                 /\ Cash[p] = PaymentAmount[p] - Spent[p]
<1>1. ASSUME NEW c \in Charge
      PROVE  /\ Left[c] \in Nat /\ Open[c] = Left[c] /\ Due[c] \in Nat
             /\ Left[c] = Due[c] - charge[c].allocated
             /\ charge[c].allocated \in Nat /\ charge[c].credited \in Nat
  <2>1. charge[c].allocated \in Nat /\ charge[c].credited \in Nat /\ ChargeAmount[c] \in Nat
        /\ charge[c].allocated + charge[c].credited <= ChargeAmount[c]
    BY DEF FiguresAssumption, MoneyTyped, ChargesFit
  <2>2. /\ Left[c] = ChargeAmount[c] - charge[c].allocated - charge[c].credited
        /\ Open[c] = IF Left[c] < 0 THEN 0 ELSE Left[c]
        /\ Due[c] = ChargeAmount[c] - charge[c].credited
    BY DEF Left, Open, Due
  <2> QED BY <2>1, <2>2
<1>2. ASSUME NEW p \in Payment
      PROVE  Spent[p] \in Nat /\ Cash[p] \in Nat /\ Spent[p] = payment[p].allocated
             /\ Cash[p] = PaymentAmount[p] - Spent[p]
  <2>1. payment[p].allocated \in Nat /\ PaymentAmount[p] \in Nat /\ payment[p].allocated <= PaymentAmount[p]
    BY DEF FiguresAssumption, MoneyTyped, PaymentsFit
  <2>2. Spent[p] = payment[p].allocated /\ Cash[p] = PaymentAmount[p] - Spent[p]
    BY DEF Spent, Cash
  <2> QED BY <2>1, <2>2
<1> QED BY <1>1, <1>2

Row == [status: {"ABSENT", "UNAPPLIED", "PARTIALLY_ALLOCATED", "ALLOCATED", "REVERSED"}, allocated: Nat]

(* What the books have of a row, case by case. *)
LEMMA BookingIs ==
    ASSUME FiguresAssumption, NEW p \in Payment, NEW row \in Row
    PROVE  /\ Booking(p, row) \in Int
           /\ row.status = "ABSENT" => Booking(p, row) = 0
           /\ row.status = "REVERSED" => Booking(p, row) = IF p \in Incoming THEN 0 ELSE -PaymentAmount[p]
           /\ row.status \notin {"ABSENT", "REVERSED"} =>
                Booking(p, row) = IF p \in Incoming THEN PaymentAmount[p] - row.allocated ELSE 0
<1>1. PaymentAmount[p] \in Nat /\ row.allocated \in Nat
  BY DEF FiguresAssumption, Row
<1>2. CASE row.status = "ABSENT"
  BY <1>2 DEF Booking
<1>3. CASE row.status = "REVERSED"
  BY <1>1, <1>3 DEF Booking
<1>4. CASE row.status \notin {"ABSENT", "REVERSED"}
  BY <1>1, <1>4 DEF Booking
<1> QED BY <1>2, <1>3, <1>4

(* What the books have of the payments of a state. *)
LEMMA BookedIs ==
    ASSUME FiguresAssumption, MoneyTyped, NEW p \in Payment
    PROVE  Booked[p] \in Int /\ Booked[p] = Booking(p, payment[p])
<1>1. payment[p] \in Row /\ Booked[p] = Booking(p, payment[p])
  BY DEF MoneyTyped, Row, Booked
<1> QED BY <1>1, BookingIs

(* Every set a figure is summed over is finite. *)
LEMMA FiniteRows ==
    ASSUME FiguresAssumption
    PROVE  /\ IsFiniteSet(Cents) /\ \A S : S \subseteq Cents => IsFiniteSet(S)
           /\ \A S : S \subseteq Charge => IsFiniteSet(S)
           /\ \A S : S \subseteq Payment => IsFiniteSet(S)
           /\ \A T \in Period : IsFiniteSet(1 .. T) /\ 1 .. T \subseteq Period
<1>1. IsFiniteSet(Charge) /\ IsFiniteSet(Payment) /\ Months \in Nat
  BY DEF FiguresAssumption
<1>2. IsFiniteSet(Cents)
  BY <1>1, FS_Product DEF Cents
<1>3. \A T \in Period : IsFiniteSet(1 .. T) /\ 1 .. T \subseteq Period
  BY <1>1, FS_Interval DEF Period
<1> QED BY <1>1, <1>2, <1>3, FS_Subset

(* The rows of the months through T, in other words. *)
LEMMA Through ==
    ASSUME FiguresAssumption, NEW T \in Period
    PROVE  /\ PostedThrough(T) = {c \in Charge : charge[c].there /\ ChargePeriod[c] <= T}
           /\ UnreconciledThrough(T)
                = {p \in Payment : payment[p].status \in {"UNAPPLIED", "PARTIALLY_ALLOCATED"}
                                   /\ PaymentPeriod[p] <= T}
           /\ \A t \in Period : Posted(t) \subseteq Charge /\ Kept(t) \subseteq Payment
<1>1. /\ Months \in Nat /\ T \in 1 .. Months
      /\ \A c \in Charge : ChargePeriod[c] \in 1 .. Months
      /\ \A p \in Payment : PaymentPeriod[p] \in 1 .. Months
  BY DEF FiguresAssumption, Period
<1>a. ASSUME NEW t \in 1 .. Months PROVE t <= T <=> t \in 1 .. T
  BY <1>1
<1>2. \A c \in Charge : ChargePeriod[c] <= T <=> ChargePeriod[c] \in 1 .. T
  <2> TAKE c \in Charge
  <2>1. ChargePeriod[c] \in 1 .. Months
    BY <1>1
  <2> QED BY <2>1, <1>a
<1>3. \A p \in Payment : PaymentPeriod[p] <= T <=> PaymentPeriod[p] \in 1 .. T
  <2> TAKE p \in Payment
  <2>1. PaymentPeriod[p] \in 1 .. Months
    BY <1>1
  <2> QED BY <2>1, <1>a
<1>4. PostedThrough(T) = {c \in Charge : charge[c].there /\ ChargePeriod[c] \in 1 .. T}
  BY DEF PostedThrough, Posted
<1>5. UnreconciledThrough(T)
        = {p \in Payment : payment[p].status \in {"UNAPPLIED", "PARTIALLY_ALLOCATED"}
                           /\ PaymentPeriod[p] \in 1 .. T}
  BY DEF UnreconciledThrough, Unreconciled, Kept
<1> QED BY <1>2, <1>3, <1>4, <1>5 DEF Posted, Kept

----------------------------------------------------------------------------
(* The figures of one state                                                *)

DatedThrough(T) == {p \in Payment : PaymentPeriod[p] <= T}
Applied == [c \in Charge |-> charge[c].allocated]

(* The terms of all sums are integers. *)
LEMMA FigureTypes ==
    ASSUME FiguresAssumption, Rows, NEW T \in Period
    PROVE  /\ Total(Left, PostedThrough(T)) \in Nat /\ Total(Due, PostedThrough(T)) \in Nat
           /\ Total(Applied, PostedThrough(T)) \in Nat /\ Total(Spent, DatedThrough(T)) \in Nat
<1>1. /\ \A c \in Charge : Left[c] \in Nat /\ Due[c] \in Nat /\ charge[c].allocated \in Nat
      /\ \A p \in Payment : Spent[p] \in Nat /\ Cash[p] \in Nat
  BY Amounts DEF Rows
<1>2. \A c \in Charge : Applied[c] \in Nat
  BY <1>1 DEF Applied
<1>3. PostedThrough(T) \subseteq Charge
  BY Through
<1>4. DatedThrough(T) \subseteq Payment
  BY DEF DatedThrough
<1>5. IsFiniteSet(PostedThrough(T)) /\ IsFiniteSet(DatedThrough(T))
  BY <1>3, <1>4, FiniteRows
<1> QED BY <1>1, <1>2, <1>3, <1>4, <1>5, SumNat DEF Total

(* Amounts of charges by month add up to those of all months through T. *)
LEMMA ChargesByMonth ==
    ASSUME FiguresAssumption, NEW T \in Period, NEW f, NEW g,
           \A c \in Charge : f[c] \in Int,
           \A t \in 1 .. T : g[t] = Total(f, Posted(t))
    PROVE  Total(g, 1 .. T) = Total(f, PostedThrough(T))
<1>1. \A c \in PostedThrough(T) : ChargePeriod[c] \in 1 .. T
  BY DEF PostedThrough, Posted
<1>2. PostedThrough(T) \subseteq Charge
  BY Through
<1>3. \A t \in 1 .. T : Posted(t) = {c \in PostedThrough(T) : ChargePeriod[c] = t}
  BY DEF PostedThrough, Posted
<1>4. Groups(ChargePeriod, g, 1 .. T, f, PostedThrough(T))
  BY <1>1, <1>2, <1>3 DEF Groups, Total
<1>5. IsFiniteSet(PostedThrough(T)) /\ IsFiniteSet(1 .. T)
  BY <1>2, FiniteRows
<1> QED BY <1>4, <1>5, SumByGroup DEF Total

(* Amounts of payments by month, likewise. *)
LEMMA PaymentsByMonth ==
    ASSUME FiguresAssumption, NEW T \in Period, NEW f, NEW g,
           \A p \in Payment : f[p] \in Int,
           \A t \in 1 .. T : g[t] = Total(f, DatedIn(t))
    PROVE  Total(g, 1 .. T) = Total(f, DatedThrough(T))
<1>1. DatedThrough(T) \subseteq Payment /\ IsFiniteSet(DatedThrough(T)) /\ IsFiniteSet(1 .. T)
  BY FiniteRows DEF DatedThrough
<1>2. T \in Nat /\ \A p \in Payment : PaymentPeriod[p] \in Nat \ {0}
  BY DEF FiguresAssumption, Period
<1>3. \A p \in DatedThrough(T) : PaymentPeriod[p] \in 1 .. T
  BY <1>2 DEF DatedThrough
<1>4. \A t \in 1 .. T : DatedIn(t) = {p \in DatedThrough(T) : PaymentPeriod[p] = t}
  BY <1>2 DEF DatedIn, DatedThrough
<1>5. Groups(PaymentPeriod, g, 1 .. T, f, DatedThrough(T))
  BY <1>1, <1>3, <1>4 DEF Groups, Total
<1> QED BY <1>1, <1>5, SumByGroup DEF Total

(* The cumulative balances, from the rows. *)
LEMMA BalancesFromRows ==
    ASSUME FiguresAssumption, Rows, NEW T \in Period
    PROVE  /\ cumulativeBalances(T).receivables = Total(Due, PostedThrough(T)) - Total(Spent, DatedThrough(T))
           /\ cumulativeBalances(T).unapplied = Total(Booked, DatedThrough(T))
<1> DEFINE ar == [t \in Period |-> ledger[t].ar]
           unapplied == [t \in Period |-> ledger[t].unapplied]
           due == [t \in Period |-> Total(Due, Posted(t))]
           spent == [t \in Period |-> Total(Spent, DatedIn(t))]
<1>1. /\ \A c \in Charge : Due[c] \in Nat
      /\ \A p \in Payment : Spent[p] \in Nat /\ Booked[p] \in Int
  BY Amounts, BookedIs DEF Rows
<1>2. IsFiniteSet(1 .. T) /\ 1 .. T \subseteq Period
  BY FiniteRows
<1>3. ASSUME NEW t \in 1 .. T
      PROVE  /\ due[t] \in Int /\ spent[t] \in Int /\ ar[t] = due[t] - spent[t]
             /\ due[t] = Total(Due, Posted(t)) /\ spent[t] = Total(Spent, DatedIn(t))
             /\ unapplied[t] = Total(Booked, DatedIn(t))
  <2>1. t \in Period
    BY <1>2
  <2>2. Posted(t) \subseteq Charge /\ DatedIn(t) \subseteq Payment
    BY DEF Posted, DatedIn
  <2>3. IsFiniteSet(Posted(t)) /\ IsFiniteSet(DatedIn(t))
    BY <2>2, FiniteRows
  <2>4. Total(Due, Posted(t)) \in Nat /\ Total(Spent, DatedIn(t)) \in Nat
    BY <1>1, <2>2, <2>3, SumNat DEF Total
  <2>5. /\ ledger[t].ar = Total(Due, Posted(t)) - Total(Spent, DatedIn(t))
        /\ ledger[t].unapplied = Total(Booked, DatedIn(t))
    BY <2>1 DEF Rows, LedgerFits
  <2> QED BY <2>1, <2>4, <2>5
<1>4. cumulativeBalances(T) = [receivables |-> Total(ar, 1 .. T), unapplied |-> Total(unapplied, 1 .. T)]
  BY DEF cumulativeBalances
<1> HIDE DEF ar, unapplied, due, spent
<1>a. \A t \in 1 .. T : due[t] \in Int /\ spent[t] \in Int /\ ar[t] = due[t] - spent[t]
  BY <1>3
<1>5. Total(ar, 1 .. T) = Total(due, 1 .. T) - Total(spent, 1 .. T)
  <2> DEFINE U == 1 .. T
  <2>1. IsFiniteSet(U) /\ \A t \in U : due[t] \in Int /\ spent[t] \in Int /\ ar[t] = due[t] - spent[t]
    BY <1>2, <1>a
  <2> HIDE DEF U
  <2>2. Total(ar, U) = Total(due, U) - Total(spent, U)
    BY <2>1, SumMinus DEF Total
  <2> QED BY <2>2 DEF U
<1>6. Total(due, 1 .. T) = Total(Due, PostedThrough(T))
  BY <1>1, <1>3, ChargesByMonth
<1>b. /\ \A t \in 1 .. T : spent[t] = Total(Spent, DatedIn(t))
      /\ \A t \in 1 .. T : unapplied[t] = Total(Booked, DatedIn(t))
      /\ \A p \in Payment : Spent[p] \in Int /\ Booked[p] \in Int
  BY <1>1, <1>3
<1>7. Total(spent, 1 .. T) = Total(Spent, DatedThrough(T)) /\ Total(unapplied, 1 .. T) = Total(Booked, DatedThrough(T))
  BY <1>b, PaymentsByMonth
<1> QED BY <1>4, <1>5, <1>6, <1>7

(* What is paid on the charges through T, and what the payments through T    *)
(* paid, are sums over the cents; so the two derivations of the receivables  *)
(* differ by what was paid across the end of the month.                      *)
LEMMA PaidByMonth ==
    ASSUME FiguresAssumption, Rows, NEW T \in Period
    PROVE  /\ Total(Applied, PostedThrough(T)) = Total(paid, {x \in Cents : ChargePeriod[x[2]] <= T})
           /\ Total(Spent, DatedThrough(T)) = Total(paid, {x \in Cents : PaymentPeriod[x[1]] <= T})
<1> DEFINE C == {c \in Charge : ChargePeriod[c] <= T}
           ofC == {x \in Cents : ChargePeriod[x[2]] <= T}
           ofP == {x \in Cents : PaymentPeriod[x[1]] <= T}
           charged == [x \in Cents |-> x[2]]
           payer == [x \in Cents |-> x[1]]
<1>1. /\ \A c \in Charge : /\ charge[c].allocated \in Nat
                           /\ ~charge[c].there => charge[c].allocated = 0
                           /\ charge[c].allocated = Total(paid, {x \in Cents : x[2] = c})
      /\ \A p \in Payment : Spent[p] = Total(paid, {x \in Cents : x[1] = p})
      /\ \A x \in Cents : paid[x] \in Int
  <2>1. \A c \in Charge : charge[c].allocated \in Nat
    BY Amounts DEF Rows
  <2>2. \A p \in Payment : Spent[p] = payment[p].allocated
    BY DEF Spent
  <2>3. \A x \in Cents : paid[x] \in Int
    BY DEF Rows, MoneyTyped
  <2> QED BY <2>1, <2>2, <2>3 DEF Rows, ChargesFit, PaymentsFit
<1>2. \A x \in Cents : x[1] \in Payment /\ x[2] \in Charge
  BY DEF Cents
<1>3. IsFiniteSet(C) /\ IsFiniteSet(ofC) /\ IsFiniteSet(ofP) /\ IsFiniteSet(DatedThrough(T))
  BY FiniteRows DEF DatedThrough
<1>4. Total(Applied, PostedThrough(T)) = Total(Applied, C)
  <2>1. PostedThrough(T) \in SUBSET C /\ \A c \in C \ PostedThrough(T) : ~charge[c].there
    BY Through
  <2>2. \A c \in C : Applied[c] \in Nat /\ (~charge[c].there => Applied[c] = 0)
    BY <1>1 DEF Applied
  <2> HIDE DEF C
  <2> QED BY <1>3, <2>1, <2>2, SumSupport DEF Total
<1>5. Total(Applied, C) = Total(paid, ofC)
  <2>1. ASSUME NEW c \in C
        PROVE  Applied[c] = SumFunctionOnSet(paid, {x \in ofC : charged[x] = c})
    <3>1. {x \in ofC : charged[x] = c} = {x \in Cents : x[2] = c}
      OBVIOUS
    <3> QED BY <1>1, <3>1 DEF Applied, Total
  <2>2. \A x \in ofC : charged[x] \in C /\ paid[x] \in Int
    BY <1>1, <1>2
  <2> HIDE DEF C, ofC, charged
  <2>3. Groups(charged, Applied, C, paid, ofC)
    BY <2>1, <2>2 DEF Groups
  <2> QED BY <1>3, <2>3, SumByGroup DEF Total
<1>6. Total(Spent, DatedThrough(T)) = Total(paid, ofP)
  <2>1. ASSUME NEW p \in DatedThrough(T)
        PROVE  Spent[p] = SumFunctionOnSet(paid, {x \in ofP : payer[x] = p})
    <3>1. {x \in ofP : payer[x] = p} = {x \in Cents : x[1] = p}
      BY DEF DatedThrough
    <3> QED BY <1>1, <3>1 DEF Total, DatedThrough
  <2>2. \A x \in ofP : payer[x] \in DatedThrough(T) /\ paid[x] \in Int
    BY <1>1, <1>2 DEF DatedThrough
  <2> HIDE DEF ofP, payer
  <2>3. Groups(payer, Spent, DatedThrough(T), paid, ofP)
    BY <2>1, <2>2 DEF Groups
  <2> QED BY <1>3, <2>3, SumByGroup DEF Total
<1> QED BY <1>4, <1>5, <1>6

(* The difference the cross-check can find. *)
LEMMA DifferenceIsPaidAcross ==
    ASSUME FiguresAssumption, Rows PROVE CrossCheckExplained
<1> DEFINE ofPayment == [x \in Cents |-> PaymentPeriod[x[1]]]
           ofCharge == [x \in Cents |-> ChargePeriod[x[2]]]
<1>1. SUFFICES ASSUME NEW T \in Period
      PROVE  cumulativeBalances(T).receivables - chargeDerivedReceivables(T)
               = PaidAcross(T, ofCharge, ofPayment) - PaidAcross(T, ofPayment, ofCharge)
  BY DEF CrossCheckExplained, Cents
<1> DEFINE A == {x \in Cents : ofCharge[x] <= T}
           B == {x \in Cents : ofPayment[x] <= T}
           both == {x \in Cents : ofCharge[x] <= T /\ ofPayment[x] <= T}
           onlyA == {x \in Cents : ofCharge[x] <= T /\ ofPayment[x] > T}
           onlyB == {x \in Cents : ofPayment[x] <= T /\ ofCharge[x] > T}
<1>2. Total(Due, PostedThrough(T)) - Total(Applied, PostedThrough(T)) = Total(Left, PostedThrough(T))
  <2>1. \A c \in Charge : /\ Due[c] \in Int /\ Applied[c] \in Int
                          /\ Left[c] = Due[c] - Applied[c]
    BY Amounts DEF Rows, Applied
  <2>2. PostedThrough(T) \subseteq Charge /\ IsFiniteSet(PostedThrough(T))
    BY Through, FiniteRows
  <2>3. \A c \in PostedThrough(T) : Due[c] \in Int /\ Applied[c] \in Int /\ Left[c] = Due[c] - Applied[c]
    BY <2>1, <2>2
  <2> QED BY <2>2, <2>3, SumMinus DEF Total
<1>3. /\ Total(Applied, PostedThrough(T)) = Total(paid, A)
      /\ Total(Spent, DatedThrough(T)) = Total(paid, B)
  <2>1. A = {x \in Cents : ChargePeriod[x[2]] <= T} /\ B = {x \in Cents : PaymentPeriod[x[1]] <= T}
    OBVIOUS
  <2> QED BY <2>1, PaidByMonth
<1>4. \A x \in Cents : ofPayment[x] \in Nat /\ ofCharge[x] \in Nat /\ T \in Nat
  BY DEF FiguresAssumption, Cents, Period
<1>5. /\ A \subseteq Cents /\ B \subseteq Cents /\ onlyA \subseteq Cents /\ onlyB \subseteq Cents
      /\ both \in SUBSET A /\ both \in SUBSET B /\ onlyA = A \ both /\ onlyB = B \ both
  <2> HIDE DEF ofPayment, ofCharge
  <2> QED BY <1>4
<1> HIDE DEF A, B, both, onlyA, onlyB
<1>6. \A x \in Cents : paid[x] \in Nat
  BY DEF Rows, MoneyTyped
<1>7. /\ Total(paid, A) = Total(paid, both) + Total(paid, onlyA)
      /\ Total(paid, B) = Total(paid, both) + Total(paid, onlyB)
  <2>1. IsFiniteSet(A) /\ IsFiniteSet(B)
    BY <1>5, FiniteRows
  <2>2. (\A x \in A : paid[x] \in Nat) /\ (\A x \in B : paid[x] \in Nat)
    BY <1>5, <1>6
  <2> QED BY <1>5, <2>1, <2>2, SumPart DEF Total
<1>8. /\ Total(paid, both) \in Nat /\ Total(paid, onlyA) \in Nat /\ Total(paid, onlyB) \in Nat
  <2>1. both \subseteq Cents
    BY <1>5
  <2>2. IsFiniteSet(both) /\ IsFiniteSet(onlyA) /\ IsFiniteSet(onlyB)
    BY <1>5, <2>1, FiniteRows
  <2> QED BY <1>5, <1>6, <2>1, <2>2, SumNat DEF Total
<1>9. /\ PaidAcross(T, ofCharge, ofPayment) = Total(paid, onlyA)
      /\ PaidAcross(T, ofPayment, ofCharge) = Total(paid, onlyB)
  BY DEF PaidAcross, Cents, onlyA, onlyB
<1>10. cumulativeBalances(T).receivables = Total(Due, PostedThrough(T)) - Total(Spent, DatedThrough(T))
  BY BalancesFromRows
<1>11. chargeDerivedReceivables(T) = Total(Left, PostedThrough(T))
  BY DEF chargeDerivedReceivables
<1>12. /\ Total(Due, PostedThrough(T)) \in Nat /\ Total(Applied, PostedThrough(T)) \in Nat
       /\ Total(Spent, DatedThrough(T)) \in Nat
  BY FigureTypes
<1> HIDE DEF ofCharge, ofPayment
<1> QED BY <1>2, <1>3, <1>7, <1>8, <1>9, <1>10, <1>11, <1>12

(* The figures of the dashboard, the cards and the lists. *)
LEMMA FiguresShown ==
    ASSUME FiguresAssumption, Rows PROVE FiguresAgree
<1>1. /\ \A c \in Charge : Left[c] \in Nat /\ Open[c] = Left[c]
      /\ \A p \in Payment : Spent[p] \in Nat /\ Cash[p] \in Nat /\ Spent[p] <= PaymentAmount[p]
                            /\ PaymentAmount[p] \in Nat
      /\ \A p \in Payment : payment[p].status = "ALLOCATED" => Cash[p] = 0
  <2>1. \A c \in Charge : Left[c] \in Nat /\ Open[c] = Left[c]
    BY Amounts DEF Rows
  <2>2. ASSUME NEW p \in Payment
        PROVE  /\ Spent[p] \in Nat /\ Cash[p] \in Nat /\ Spent[p] <= PaymentAmount[p]
               /\ PaymentAmount[p] \in Nat
               /\ payment[p].status = "ALLOCATED" => Cash[p] = 0
    <3>1. /\ Spent[p] \in Nat /\ Cash[p] \in Nat /\ Spent[p] = payment[p].allocated
          /\ Cash[p] = PaymentAmount[p] - Spent[p]
      BY Amounts DEF Rows
    <3>2. PaymentAmount[p] \in Nat
      BY DEF FiguresAssumption
    <3>3. /\ payment[p].allocated <= PaymentAmount[p]
          /\ payment[p].status = "ALLOCATED" => "ALLOCATED" = PaymentStatus(p, payment[p].allocated)
      BY DEF Rows, PaymentsFit
    <3>4. "ALLOCATED" = PaymentStatus(p, payment[p].allocated) => ~(payment[p].allocated < PaymentAmount[p])
      BY DEF PaymentStatus
    <3> QED BY <3>1, <3>2, <3>3, <3>4
  <2> QED BY <2>1, <2>2
<1>2. ASSUME NEW T \in Period
      PROVE  agingBuckets(T) = Total(Left, PostedThrough(T))
  <2> DEFINE S == PostedThrough(T)
             R == {c \in S : Open[c] > 0}
  <2>1. S \subseteq Charge /\ IsFiniteSet(S)
    BY Through, FiniteRows
  <2> HIDE DEF S
  <2>2. /\ R \in SUBSET S /\ IsFiniteSet(R)
        /\ \A c \in S : Left[c] \in Nat /\ Open[c] = Left[c]
        /\ \A c \in S \ R : Left[c] = 0
    BY <1>1, <2>1, FS_Subset
  <2> HIDE DEF R
  <2>3. Total(Left, R) = Total(Left, S)
    BY <2>1, <2>2, SumSupport DEF Total
  <2>4. \A c \in R : Open[c] = Left[c]
    BY <2>2
  <2>5. Total(Open, R) = Total(Left, R)
    BY <2>2, <2>4, SumSame DEF Total
  <2>6. agingBuckets(T) = Total(Open, R)
    BY DEF agingBuckets, R, S
  <2> QED BY <2>3, <2>5, <2>6 DEF S
<1>3. ASSUME NEW T \in Period
      PROVE  Total(listed, 1 .. T) = Total(Left, PostedThrough(T))
  <2>1. \A t \in 1 .. T : listed[t] = Total(Left, Posted(t))
    BY FiniteRows DEF listed
  <2>2. \A c \in Charge : Left[c] \in Int
    BY <1>1
  <2> QED BY <2>1, <2>2, ChargesByMonth
<1>4. ASSUME NEW T \in Period
      PROVE  unappliedCash(T)
               = cumulativeBalances(T).unapplied + Total(PaymentAmount, TakenBackThrough(T))
  <2> DEFINE S == DatedThrough(T)
             R == UnreconciledThrough(T) \cap Incoming
             B == TakenBackThrough(T)
             had  == [p \in Payment |-> IF p \in R THEN Cash[p] ELSE 0]
             back == [p \in Payment |-> IF p \in B THEN PaymentAmount[p] ELSE 0]
  <2>1. S \subseteq Payment /\ IsFiniteSet(S)
    BY FiniteRows DEF DatedThrough
  <2>2. /\ R = {p \in Incoming : payment[p].status \in {"UNAPPLIED", "PARTIALLY_ALLOCATED"}
                                  /\ PaymentPeriod[p] <= T}
        /\ B = {p \in Payment : p \notin Incoming /\ payment[p].status = "REVERSED" /\ PaymentPeriod[p] <= T}
    BY Through DEF TakenBackThrough, Outgoing, FiguresAssumption
  <2>3. R \in SUBSET S /\ B \in SUBSET S
    BY <2>2 DEF DatedThrough, FiguresAssumption
  <2>4. ASSUME NEW p \in S
        PROVE  /\ had[p] \in Nat /\ back[p] \in Nat /\ Booked[p] = had[p] - back[p]
               /\ p \notin R => had[p] = 0
               /\ p \notin B => back[p] = 0
               /\ p \in R => Cash[p] = had[p]
               /\ p \in B => PaymentAmount[p] = back[p]
    <3>1. /\ p \in Payment /\ Cash[p] \in Nat /\ PaymentAmount[p] \in Nat
          /\ Cash[p] = PaymentAmount[p] - payment[p].allocated
      BY <1>1, <2>1, Amounts DEF Rows
    <3>2. PaymentPeriod[p] <= T /\ payment[p] \in Row
      BY <2>1 DEF DatedThrough, Rows, MoneyTyped, Row
    <3>3. /\ Booked[p] = Booking(p, payment[p])
          /\ payment[p].status = "ABSENT" => Booking(p, payment[p]) = 0
          /\ payment[p].status = "REVERSED" =>
               Booking(p, payment[p]) = IF p \in Incoming THEN 0 ELSE -PaymentAmount[p]
          /\ payment[p].status \notin {"ABSENT", "REVERSED"} =>
               Booking(p, payment[p]) = IF p \in Incoming THEN PaymentAmount[p] - payment[p].allocated ELSE 0
      BY <3>1, <3>2, BookedIs, BookingIs DEF Rows
    <3>4. /\ p \in R <=> p \in Incoming /\ payment[p].status \in {"UNAPPLIED", "PARTIALLY_ALLOCATED"}
          /\ p \in B <=> p \notin Incoming /\ payment[p].status = "REVERSED"
      BY <2>2, <3>1, <3>2
    <3>5. /\ payment[p].status \in {"ABSENT", "UNAPPLIED", "PARTIALLY_ALLOCATED", "ALLOCATED", "REVERSED"}
          /\ payment[p].status = "ALLOCATED" => Cash[p] = 0
      BY <1>1, <3>1, <3>2 DEF Row
    <3>6. /\ had[p] = IF p \in R THEN Cash[p] ELSE 0
          /\ back[p] = IF p \in B THEN PaymentAmount[p] ELSE 0
      BY <3>1
    <3> HIDE DEF R, B, had, back
    <3> QED BY <3>1, <3>3, <3>4, <3>5, <3>6
  <2> HIDE DEF S, R, B, had, back
  <2>5. Total(had, R) = Total(had, S) /\ Total(back, B) = Total(back, S)
    BY <2>1, <2>3, <2>4, SumSupport DEF Total
  <2>6. /\ IsFiniteSet(R) /\ IsFiniteSet(B)
        /\ \A p \in R : Cash[p] = had[p]
        /\ \A p \in B : PaymentAmount[p] = back[p]
    BY <2>1, <2>3, <2>4, FS_Subset
  <2>7. Total(Cash, R) = Total(had, R) /\ Total(PaymentAmount, B) = Total(back, B)
    BY <2>6, SumSame DEF Total
  <2>8. Total(Booked, S) = Total(had, S) - Total(back, S)
    BY <2>1, <2>4, SumMinus DEF Total
  <2>9. Total(had, S) \in Nat /\ Total(back, S) \in Nat
    BY <2>1, <2>4, SumNat DEF Total
  <2>10. cumulativeBalances(T).unapplied = Total(Booked, S)
    BY BalancesFromRows DEF S
  <2>11. Total(Cash, R) = cumulativeBalances(T).unapplied + Total(PaymentAmount, B)
    BY <2>5, <2>7, <2>8, <2>9, <2>10
  <2> QED BY <2>11 DEF unappliedCash, R, B
<1>5. ASSUME NEW T \in Period
      PROVE  blockerCount(T) > 0 <=> openExceptions(T, TRUE) # {}
  <2> DEFINE S == openExceptions(T, TRUE)
  <2>1. IsFiniteSet(S)
    BY FiniteRows DEF openExceptions
  <2> HIDE DEF S
  <2>2. Cardinality(S) \in Nat /\ (Cardinality(S) = 0 <=> S = {})
    BY <2>1, FS_CardinalityType, FS_EmptySet
  <2>3. Cardinality(S) > 0 <=> S # {}
    BY <2>2
  <2> QED BY <2>3 DEF blockerCount, S
<1>6. ASSUME NEW T \in Period
      PROVE  /\ periodTotals(T).received
                  = paymentsReceived(T) + Total(PaymentAmount, Kept(T) \cap Outgoing)
             /\ periodTotals(T).allocated = paymentsAllocated(T)
             /\ paymentsAllocated(T) <= paymentsReceived(T)
  <2> DEFINE S == Kept(T)
             R == Kept(T) \cap Incoming
  <2>1. S \subseteq Payment /\ IsFiniteSet(S) /\ R \in SUBSET S /\ IsFiniteSet(R)
    BY Through, FiniteRows
  <2>2. S \cap Outgoing = S \ R
    BY <2>1 DEF Outgoing
  <2>3. \A p \in S : Spent[p] \in Nat /\ PaymentAmount[p] \in Nat /\ Spent[p] <= PaymentAmount[p]
    BY <1>1, <2>1
  <2>4. \A p \in S \ R : Spent[p] = 0
    <3>1. \A p \in Payment : p \in Outgoing => payment[p].allocated = 0
      BY DEF Rows, PaymentsFit
    <3>2. \A p \in Payment : Spent[p] = payment[p].allocated
      BY DEF Spent
    <3> QED BY <2>1, <2>2, <3>1, <3>2
  <2>a. /\ periodTotals(T).received = Total(PaymentAmount, S) /\ periodTotals(T).allocated = Total(Spent, S)
        /\ paymentsReceived(T) = Total(PaymentAmount, R) /\ paymentsAllocated(T) = Total(Spent, R)
    BY DEF periodTotals, paymentsReceived, paymentsAllocated
  <2> HIDE DEF S, R
  <2>5. Total(PaymentAmount, S) = Total(PaymentAmount, R) + Total(PaymentAmount, S \ R)
    BY <2>1, <2>3, SumPart DEF Total
  <2>6. Total(Spent, R) = Total(Spent, S)
    BY <2>1, <2>3, <2>4, SumSupport DEF Total
  <2>7. Total(Spent, R) <= Total(PaymentAmount, R)
    BY <2>1, <2>3, SumBelow DEF Total
  <2> QED BY <2>2, <2>5, <2>6, <2>7, <2>a DEF S
<1>7. outstandingOfCard = agingBuckets(Months)
  <2>1. Months \in Period
    BY DEF FiguresAssumption, Period
  <2> DEFINE S == PostedThrough(Months)
             R == {c \in Charge : charge[c].there /\ charge[c].credited < ChargeAmount[c]}
  <2>2. S = {c \in Charge : charge[c].there /\ ChargePeriod[c] <= Months}
    BY <2>1, Through
  <2>3. R \in SUBSET S
    BY <2>2 DEF FiguresAssumption, Period
  <2>4. S \subseteq Charge /\ IsFiniteSet(S)
    BY <2>2, FiniteRows
  <2>5. ASSUME NEW c \in S \ R PROVE Left[c] = 0
    <3>1. c \in Charge /\ ~(charge[c].credited < ChargeAmount[c])
      BY <2>2
    <3>2. /\ Left[c] = Due[c] - charge[c].allocated /\ Left[c] \in Nat
          /\ charge[c].allocated \in Nat /\ charge[c].credited \in Nat
      BY <3>1, Amounts DEF Rows
    <3>3. Due[c] = ChargeAmount[c] - charge[c].credited /\ ChargeAmount[c] \in Nat
      BY <3>1 DEF Due, FiguresAssumption
    <3> QED BY <3>1, <3>2, <3>3
  <2>6. \A c \in S : Left[c] \in Nat
    BY <1>1, <2>4
  <2> HIDE DEF S, R
  <2>7. Total(Left, R) = Total(Left, S)
    BY <2>3, <2>4, <2>5, <2>6, SumSupport DEF Total
  <2>8. agingBuckets(Months) = Total(Left, S)
    BY <1>2, <2>1 DEF S
  <2> QED BY <2>7, <2>8 DEF outstandingOfCard, R
<1> QED BY <1>2, <1>3, <1>4, <1>5, <1>6, <1>7 DEF FiguresAgree, chargeDerivedReceivables

----------------------------------------------------------------------------
(* The operations that move money                                          *)

LedgerFitsIn(t) ==
    /\ ledger[t].ar = Total(Due, Posted(t)) - Total(Spent, DatedIn(t))
    /\ ledger[t].unapplied = Total(Booked, DatedIn(t))

(* What is summed for a month, with the types that the sums need. *)
LEMMA MonthSums ==
    ASSUME FiguresAssumption, MoneyTyped, NEW t \in Period
    PROVE  /\ IsFiniteSet(Posted(t)) /\ IsFiniteSet(DatedIn(t))
           /\ Posted(t) \subseteq Charge /\ DatedIn(t) \subseteq Payment
           /\ \A c \in Charge : Due[c] \in Int /\ Due[c] = ChargeAmount[c] - charge[c].credited
           /\ \A p \in Payment : /\ Spent[p] \in Int /\ Spent[p] = payment[p].allocated
                                 /\ Booked[p] \in Int /\ Booked[p] = Booking(p, payment[p])
           /\ Total(Due, Posted(t)) \in Int /\ Total(Spent, DatedIn(t)) \in Int
           /\ Total(Booked, DatedIn(t)) \in Int
<1>1. Posted(t) \subseteq Charge /\ DatedIn(t) \subseteq Payment
  BY DEF Posted, DatedIn
<1>2. IsFiniteSet(Posted(t)) /\ IsFiniteSet(DatedIn(t))
  BY <1>1, FiniteRows
<1>3. ASSUME NEW c \in Charge PROVE Due[c] \in Int /\ Due[c] = ChargeAmount[c] - charge[c].credited
  BY DEF Due, FiguresAssumption, MoneyTyped
<1>4. ASSUME NEW p \in Payment
      PROVE  /\ Spent[p] \in Int /\ Spent[p] = payment[p].allocated
             /\ Booked[p] \in Int /\ Booked[p] = Booking(p, payment[p])
  <2>1. Spent[p] = payment[p].allocated /\ payment[p].allocated \in Nat
    BY DEF Spent, MoneyTyped
  <2> QED BY <2>1, BookedIs
<1>5. (\A c \in Posted(t) : Due[c] \in Int) /\ (\A p \in DatedIn(t) : Spent[p] \in Int)
      /\ (\A p \in DatedIn(t) : Booked[p] \in Int)
  BY <1>1, <1>3, <1>4
<1> QED BY <1>1, <1>2, <1>3, <1>4, <1>5, SumInt DEF Total

(* A month of which nothing changed but what charges have been paid. *)
LEMMA MonthUntouched ==
    ASSUME FiguresAssumption, MoneyTyped, MoneyTyped', NEW t \in Period, LedgerFitsIn(t),
           \A c \in Charge : ChargePeriod[c] = t =>
             charge'[c].there = charge[c].there /\ charge'[c].credited = charge[c].credited,
           \A p \in Payment : PaymentPeriod[p] = t => payment'[p] = payment[p],
           ledger'[t] = ledger[t]
    PROVE  LedgerFitsIn(t)'
<1>1. Posted(t)' = Posted(t) /\ DatedIn(t)' = DatedIn(t)
  BY DEF Posted, DatedIn
<1>2. \A c \in Posted(t) : Due'[c] = Due[c]
  BY DEF Posted, Due
<1>3. \A p \in DatedIn(t) : Spent'[p] = Spent[p] /\ Booked'[p] = Booked[p]
  BY DEF DatedIn, Spent, Booked, Booking
<1>4. IsFiniteSet(Posted(t)) /\ IsFiniteSet(DatedIn(t))
  BY MonthSums
<1>5. Total(Due', Posted(t)) = Total(Due, Posted(t))
  BY <1>2, <1>4, SumSame DEF Total
<1>6. Total(Spent', DatedIn(t)) = Total(Spent, DatedIn(t))
  BY <1>3, <1>4, SumSame DEF Total
<1>8. Total(Booked', DatedIn(t)) = Total(Booked, DatedIn(t))
  BY <1>3, <1>4, SumSame DEF Total
<1>9. /\ Total(Due, Posted(t))' = Total(Due', Posted(t)')
      /\ Total(Spent, DatedIn(t))' = Total(Spent', DatedIn(t)')
      /\ Total(Booked, DatedIn(t))' = Total(Booked', DatedIn(t)')
  BY DEF Total
<1> QED BY <1>1, <1>5, <1>6, <1>8, <1>9 DEF LedgerFitsIn

(* The rows fit month by month. *)
LEMMA RowsFromParts ==
    Rows <=> MoneyTyped /\ ChargesFit /\ PaymentsFit /\ \A t \in Period : LedgerFitsIn(t)
BY DEF Rows, LedgerFits, LedgerFitsIn

(* What the ledger of a month becomes by a posting. *)
LEMMA PostIs ==
    ASSUME MoneyTyped, NEW T \in Period, NEW ar \in Int, NEW unapplied \in Int, Post(T, ar, unapplied)
    PROVE  /\ ledger' \in [Period -> [ar: Int, unapplied: Int]]
           /\ ledger'[T].ar = ledger[T].ar + ar /\ ledger'[T].unapplied = ledger[T].unapplied + unapplied
           /\ \A t \in Period \ {T} : ledger'[t] = ledger[t]
<1>1. ledger \in [Period -> [ar: Int, unapplied: Int]]
  BY DEF MoneyTyped
<1>2. ledger' = [ledger EXCEPT ![T] = [ar |-> ledger[T].ar + ar, unapplied |-> ledger[T].unapplied + unapplied]]
  BY DEF Post
<1>3. ledger[T].ar \in Int /\ ledger[T].unapplied \in Int
  BY <1>1
<1>4. [ar |-> ledger[T].ar + ar, unapplied |-> ledger[T].unapplied + unapplied] \in [ar: Int, unapplied: Int]
  BY <1>3
<1> QED BY <1>1, <1>2, <1>4

(* Charges of a month generated. *)
LEMMA GenerateKeepsRows ==
    ASSUME FiguresAssumption, Rows, NEW T \in Period, Generate(T) PROVE Rows'
<1> DEFINE new == {c \in Charge : ChargePeriod[c] = T /\ ~charge[c].there}
<1>1. /\ charge' = [c \in Charge |-> IF c \in new THEN [charge[c] EXCEPT !.there = TRUE] ELSE charge[c]]
      /\ Post(T, Total(ChargeAmount, new), 0) /\ UNCHANGED <<payment, paid>>
  BY DEF Generate
<1>2. new \subseteq Charge /\ IsFiniteSet(new) /\ \A c \in new : ChargeAmount[c] \in Nat
  BY FiniteRows DEF FiguresAssumption
<1>3. Total(ChargeAmount, new) \in Int
  <2> HIDE DEF new
  <2> QED BY <1>2, SumNat DEF Total
<1>4. MoneyTyped
  BY DEF Rows
<1>5. /\ ledger' \in [Period -> [ar: Int, unapplied: Int]]
      /\ ledger'[T].ar = ledger[T].ar + Total(ChargeAmount, new)
      /\ ledger'[T].unapplied = ledger[T].unapplied + 0
      /\ \A t \in Period \ {T} : ledger'[t] = ledger[t]
  <2> HIDE DEF new
  <2> QED BY <1>1, <1>3, <1>4, PostIs
<1>6. ASSUME NEW c \in Charge
      PROVE  /\ charge'[c] \in [there: BOOLEAN, allocated: Nat, credited: Nat]
             /\ charge'[c].allocated = charge[c].allocated /\ charge'[c].credited = charge[c].credited
             /\ charge'[c].there = (charge[c].there \/ c \in new)
             /\ c \notin new => charge'[c] = charge[c]
  BY <1>1, <1>4 DEF MoneyTyped
<1>7. MoneyTyped'
  <2>1. charge' \in [Charge -> [there: BOOLEAN, allocated: Nat, credited: Nat]]
    BY <1>1, <1>6
  <2> QED BY <1>1, <1>4, <1>5, <2>1 DEF MoneyTyped
<1>8. ChargesFit'
  <2>1. \A c \in Charge : ~charge'[c].there => ~charge[c].there
    BY <1>4, <1>6 DEF MoneyTyped
  <2>2. ChargesFit
    BY DEF Rows
  <2> QED BY <1>1, <1>6, <2>1, <2>2 DEF ChargesFit
<1>9. PaymentsFit'
  BY <1>1 DEF Rows, PaymentsFit
<1>10. ASSUME NEW t \in Period PROVE LedgerFitsIn(t)'
  <2>1. LedgerFitsIn(t)
    BY RowsFromParts
  <2>2. CASE t # T
    <3>1. \A c \in Charge : ChargePeriod[c] = t =>
             charge'[c].there = charge[c].there /\ charge'[c].credited = charge[c].credited
      BY <1>6, <2>2
    <3> HIDE DEF new
    <3> QED BY <1>1, <1>4, <1>5, <1>7, <2>1, <2>2, <3>1, MonthUntouched
  <2>3. CASE t = T
    <3>1. /\ Posted(T)' = Posted(T) \cup new /\ Posted(T) \cap new = {}
          /\ DatedIn(T)' = DatedIn(T)
      BY <1>1, <1>4, <1>6 DEF Posted, DatedIn, MoneyTyped
    <3>2. Due' = Due
      BY <1>6 DEF Due
    <3>3. Spent' = Spent /\ Booked' = Booked
      BY <1>1 DEF Spent, Booked, Booking
    <3>4. \A c \in new : Due[c] = ChargeAmount[c]
      <4>1. \A c \in new : charge[c].credited = 0
        BY DEF Rows, ChargesFit
      <4> QED BY <1>2, <4>1 DEF Due
    <3> HIDE DEF new
    <3>5. /\ IsFiniteSet(Posted(T)) /\ \A c \in Posted(T) \cup new : Due[c] \in Int
          /\ Total(Due, Posted(T)) \in Int /\ Total(Spent, DatedIn(T)) \in Int
          /\ Total(Booked, DatedIn(T)) \in Int
      BY <1>2, <1>4, MonthSums
    <3>6. Total(Due, Posted(T) \cup new) = Total(Due, Posted(T)) + Total(Due, new)
      BY <1>2, <3>1, <3>5, SumUnion DEF Total
    <3>7. Total(Due, new) = Total(ChargeAmount, new)
      BY <1>2, <3>4, SumSame DEF Total
    <3>8. /\ Total(Due, Posted(T))' = Total(Due', Posted(T)')
          /\ Total(Spent, DatedIn(T))' = Total(Spent', DatedIn(T)')
          /\ Total(Booked, DatedIn(T))' = Total(Booked', DatedIn(T)')
      BY DEF Total
    <3>9. /\ ledger[T].ar = Total(Due, Posted(T)) - Total(Spent, DatedIn(T))
          /\ ledger[T].unapplied = Total(Booked, DatedIn(T))
      BY <2>1, <2>3 DEF LedgerFitsIn
    <3>10. /\ ledger'[T].ar = Total(Due', Posted(T)') - Total(Spent', DatedIn(T)')
           /\ ledger'[T].unapplied = Total(Booked', DatedIn(T)')
      BY <1>3, <1>5, <3>1, <3>2, <3>3, <3>5, <3>6, <3>7, <3>9
    <3> QED BY <2>3, <3>8, <3>10 DEF LedgerFitsIn
  <2> QED BY <2>2, <2>3
<1> QED BY <1>7, <1>8, <1>9, <1>10, RowsFromParts DEF Rows, LedgerFits, LedgerFitsIn

(* A payment received. *)
LEMMA ReceiveKeepsRows ==
    ASSUME FiguresAssumption, Rows, NEW p \in Payment, Receive(p) PROVE Rows'
<1> DEFINE T == PaymentPeriod[p]
           came == IF p \in Incoming THEN PaymentAmount[p] ELSE 0
<1>1. /\ payment' = [payment EXCEPT ![p].status = "UNAPPLIED"] /\ payment[p].status = "ABSENT"
      /\ Post(T, 0, came) /\ UNCHANGED <<charge, paid>>
  BY DEF Receive
<1>2. T \in Period /\ PaymentAmount[p] \in Nat /\ came \in Int /\ 0 \in Int /\ MoneyTyped
  BY DEF FiguresAssumption, Rows
<1> HIDE DEF T, came
<1>3. /\ ledger' \in [Period -> [ar: Int, unapplied: Int]]
      /\ ledger'[T].ar = ledger[T].ar + 0 /\ ledger'[T].unapplied = ledger[T].unapplied + came
      /\ \A t \in Period \ {T} : ledger'[t] = ledger[t]
  BY <1>1, <1>2, PostIs
<1>4. payment[p].allocated = 0
  BY <1>1 DEF Rows, PaymentsFit
<1>5. /\ payment' \in [Payment -> [status: {"ABSENT", "UNAPPLIED", "PARTIALLY_ALLOCATED", "ALLOCATED", "REVERSED"},
                                   allocated: Nat]]
      /\ payment'[p].status = "UNAPPLIED" /\ payment'[p].allocated = 0
      /\ \A q \in Payment \ {p} : payment'[q] = payment[q]
  BY <1>1, <1>2, <1>4 DEF MoneyTyped
<1>6. MoneyTyped'
  BY <1>1, <1>2, <1>3, <1>5 DEF MoneyTyped
<1>7. ChargesFit'
  BY <1>1 DEF Rows, ChargesFit
<1>8. PaymentsFit'
  <2>1. PaymentsFit
    BY DEF Rows
  <2>2. ASSUME NEW q \in Payment
        PROVE  /\ payment'[q].allocated <= PaymentAmount[q]
               /\ IF payment'[q].status \in {"ABSENT", "REVERSED"} THEN payment'[q].allocated = 0
                  ELSE payment'[q].status = PaymentStatus(q, payment'[q].allocated)
               /\ payment'[q].allocated = Total(paid, {x \in Cents: x[1] = q})
               /\ q \in Outgoing => payment'[q].allocated = 0
    <3>1. CASE q = p
      <4>1. "UNAPPLIED" = PaymentStatus(p, 0)
        BY DEF PaymentStatus
      <4>2. 0 = Total(paid, {x \in Cents: x[1] = p})
        BY <1>4, <2>1 DEF PaymentsFit
      <4> QED BY <1>2, <1>5, <3>1, <4>1, <4>2
    <3>2. CASE q # p
      BY <1>5, <2>1, <3>2 DEF PaymentsFit
    <3> QED BY <3>1, <3>2
  <2> QED BY <1>1, <2>2 DEF PaymentsFit, PaymentStatus
<1>9. ASSUME NEW t \in Period PROVE LedgerFitsIn(t)'
  <2>1. LedgerFitsIn(t)
    BY RowsFromParts
  <2>2. CASE t # T
    <3>1. \A q \in Payment : PaymentPeriod[q] = t => payment'[q] = payment[q]
      BY <1>5, <2>2 DEF T
    <3> QED BY <1>1, <1>2, <1>3, <1>6, <2>1, <2>2, <3>1, MonthUntouched
  <2>3. CASE t = T
    <3>1. /\ Posted(T)' = Posted(T) /\ DatedIn(T)' = DatedIn(T)
          /\ p \in DatedIn(T)
      BY <1>1 DEF Posted, DatedIn, T
    <3>2. Due' = Due
      BY <1>1 DEF Due
    <3>3. Spent' = Spent
      <4>1. \A q \in Payment : payment'[q].allocated = payment[q].allocated
        BY <1>4, <1>5
      <4> QED BY <4>1 DEF Spent
    <3>4. /\ Booked[p] = 0 /\ Booked'[p] = came /\ came \in Int
          /\ \A q \in Payment \ {p} : Booked'[q] = Booked[q]
      <4>1. \A q \in Payment : Booked'[q] = Booking(q, payment'[q])
        BY DEF Booked, Booking
      <4>2. payment'[p] \in Row /\ payment[p] \in Row
        BY <1>2, <1>5 DEF Row, MoneyTyped
      <4>3. \A q \in Payment : Booked[q] = Booking(q, payment[q])
        BY DEF Booked
      <4>4. Booking(p, payment[p]) = 0
        BY <1>1, <4>2, BookingIs
      <4>5. Booking(p, payment'[p]) = IF p \in Incoming THEN PaymentAmount[p] - payment'[p].allocated ELSE 0
        BY <1>5, <4>2, BookingIs
      <4>6. Booking(p, payment'[p]) = came
        BY <1>2, <1>5, <4>5 DEF came
      <4> QED BY <1>2, <1>5, <4>1, <4>3, <4>4, <4>6
    <3>5. /\ IsFiniteSet(DatedIn(T)) /\ DatedIn(T) \subseteq Payment
          /\ \A q \in Payment : Booked[q] \in Int
          /\ Total(Due, Posted(T)) \in Int /\ Total(Spent, DatedIn(T)) \in Int
          /\ Total(Booked, DatedIn(T)) \in Int
      BY <1>2, MonthSums
    <3>6. Total(Booked', DatedIn(T)) = Total(Booked, DatedIn(T)) - Booked[p] + Booked'[p]
      <4>1. /\ \A q \in DatedIn(T) : Booked[q] \in Int
            /\ \A q \in DatedIn(T) \ {p} : Booked'[q] = Booked[q]
            /\ Booked'[p] \in Int
        BY <3>4, <3>5
      <4> QED BY <3>1, <3>5, <4>1, SumChange DEF Total
    <3>8. /\ Total(Due, Posted(T))' = Total(Due', Posted(T)')
          /\ Total(Spent, DatedIn(T))' = Total(Spent', DatedIn(T)')
          /\ Total(Booked, DatedIn(T))' = Total(Booked', DatedIn(T)')
      BY DEF Total
    <3>9. /\ ledger[T].ar = Total(Due, Posted(T)) - Total(Spent, DatedIn(T))
          /\ ledger[T].unapplied = Total(Booked, DatedIn(T))
      BY <2>1, <2>3 DEF LedgerFitsIn
    <3>10. /\ ledger'[T].ar = Total(Due', Posted(T)') - Total(Spent', DatedIn(T)')
           /\ ledger'[T].unapplied = Total(Booked', DatedIn(T)')
      BY <1>2, <1>3, <3>1, <3>2, <3>3, <3>4, <3>5, <3>6, <3>9
    <3>11. LedgerFitsIn(T)'
      BY <3>8, <3>10 DEF LedgerFitsIn, T
    <3> QED BY <2>3, <3>11
  <2> QED BY <2>2, <2>3
<1> QED BY <1>6, <1>7, <1>8, <1>9, RowsFromParts DEF Rows, LedgerFits, LedgerFitsIn

(* The cents of one charge or one payment, when one entry changed. *)
LEMMA EntryChanged ==
    ASSUME FiguresAssumption, NEW f \in [Cents -> Int], NEW g \in [Cents -> Int], NEW e \in Cents,
           \A x \in Cents \ {e} : g[x] = f[x],
           NEW S, S \subseteq Cents
    PROVE  Total(g, S) = Total(f, S) + (IF e \in S THEN g[e] - f[e] ELSE 0)
<1>1. IsFiniteSet(S)
  BY FiniteRows
<1>2. (\A x \in S : f[x] \in Int /\ g[x] \in Int) /\ f[e] \in Int /\ g[e] \in Int
  OBVIOUS
<1>3. Total(f, S) \in Int
  BY <1>1, <1>2, SumInt DEF Total
<1>4. CASE e \in S
  <2>1. \A x \in S \ {e} : g[x] = f[x]
    OBVIOUS
  <2>2. Total(g, S) = Total(f, S) - f[e] + g[e]
    BY <1>1, <1>2, <1>4, <2>1, SumChange DEF Total
  <2> QED BY <1>2, <1>3, <1>4, <2>2
<1>5. CASE e \notin S
  <2>1. \A x \in S : g[x] = f[x]
    BY <1>5
  <2>2. Total(g, S) = Total(f, S)
    BY <1>1, <2>1, SumSame DEF Total
  <2> QED BY <1>3, <1>5, <2>2
<1> QED BY <1>4, <1>5

(* Cents moved between a payment and a charge that can bear it. *)
LEMMA MoveKeepsRows ==
    ASSUME FiguresAssumption, Rows, NEW p \in Payment, NEW c \in Charge, NEW n \in Int,
           Move(p, c, n), p \in Kept(PaymentPeriod[p]) \cap Incoming, charge[c].there,
           paid[<<p, c>>] + n \in Nat, payment[p].allocated + n \in 0 .. PaymentAmount[p],
           charge[c].allocated + n \in Nat,
           charge[c].allocated + n + charge[c].credited <= ChargeAmount[c]
    PROVE  Rows'
<1> DEFINE T == PaymentPeriod[p]
           e == <<p, c>>
<1>1. /\ charge' = [charge EXCEPT ![c].allocated = @ + n]
      /\ payment' = [payment EXCEPT ![p] = [status |-> PaymentStatus(p, payment[p].allocated + n),
                                            allocated |-> payment[p].allocated + n]]
      /\ paid' = [paid EXCEPT ![e] = @ + n]
      /\ Post(T, -n, -n)
  BY DEF Move, PostingPeriod
<1>2. T \in Period /\ MoneyTyped /\ e \in Cents /\ -n \in Int
  BY DEF FiguresAssumption, Rows, Cents
<1>3. /\ ledger' \in [Period -> [ar: Int, unapplied: Int]]
      /\ ledger'[T].ar = ledger[T].ar + (-n) /\ ledger'[T].unapplied = ledger[T].unapplied + (-n)
      /\ \A t \in Period \ {T} : ledger'[t] = ledger[t]
  <2> HIDE DEF T
  <2> QED BY <1>1, <1>2, PostIs
<1>4. /\ charge' \in [Charge -> [there: BOOLEAN, allocated: Nat, credited: Nat]]
      /\ charge'[c].allocated = charge[c].allocated + n
      /\ charge'[c].there = charge[c].there /\ charge'[c].credited = charge[c].credited
      /\ \A d \in Charge \ {c} : charge'[d] = charge[d]
  BY <1>1, <1>2 DEF MoneyTyped
<1>5. /\ PaymentStatus(p, payment[p].allocated + n) \in {"UNAPPLIED", "PARTIALLY_ALLOCATED", "ALLOCATED"}
      /\ payment[p].status \in {"UNAPPLIED", "PARTIALLY_ALLOCATED", "ALLOCATED"}
  BY <1>2 DEF PaymentStatus, Kept, MoneyTyped
<1>6. payment[p].allocated + n \in Nat /\ payment[p].allocated + n <= PaymentAmount[p]
      /\ PaymentAmount[p] \in Nat
  BY DEF FiguresAssumption
<1>7. /\ payment' \in [Payment -> [status: {"ABSENT", "UNAPPLIED", "PARTIALLY_ALLOCATED", "ALLOCATED", "REVERSED"},
                                   allocated: Nat]]
      /\ payment'[p].status = PaymentStatus(p, payment[p].allocated + n)
      /\ payment'[p].allocated = payment[p].allocated + n
      /\ \A q \in Payment \ {p} : payment'[q] = payment[q]
  BY <1>1, <1>2, <1>5, <1>6 DEF MoneyTyped
<1>8. /\ paid' \in [Cents -> Nat] /\ paid'[e] = paid[e] + n
      /\ \A x \in Cents \ {e} : paid'[x] = paid[x]
  BY <1>1, <1>2 DEF MoneyTyped
<1>9. MoneyTyped'
  BY <1>3, <1>4, <1>7, <1>8 DEF MoneyTyped, Cents
<1>10. ASSUME NEW S, S \subseteq Cents
       PROVE  Total(paid', S) = Total(paid, S) + (IF e \in S THEN n ELSE 0)
  <2>1. paid \in [Cents -> Int] /\ paid' \in [Cents -> Int] /\ paid[e] \in Int
    BY <1>2, <1>8 DEF MoneyTyped
  <2>2. paid'[e] - paid[e] = n
    BY <1>8, <2>1
  <2> HIDE DEF e
  <2>3. Total(paid', S) = Total(paid, S) + (IF e \in S THEN paid'[e] - paid[e] ELSE 0)
    BY <1>2, <1>8, <1>10, <2>1, EntryChanged
  <2> QED BY <2>2, <2>3
<1>11. ChargesFit'
  <2>1. ChargesFit
    BY DEF Rows
  <2>2. ASSUME NEW d \in Charge
        PROVE  /\ charge'[d].allocated + charge'[d].credited <= ChargeAmount[d]
               /\ ~charge'[d].there => charge'[d].allocated = 0 /\ charge'[d].credited = 0
               /\ charge'[d].allocated = Total(paid', {x \in Cents: x[2] = d})
    <3>1. Total(paid', {x \in Cents: x[2] = d})
            = charge[d].allocated + (IF d = c THEN n ELSE 0)
      <4>1. e \in {x \in Cents: x[2] = d} <=> d = c
        BY <1>2
      <4>2. Total(paid', {x \in Cents: x[2] = d})
              = Total(paid, {x \in Cents: x[2] = d}) + (IF d = c THEN n ELSE 0)
        BY <1>10, <4>1
      <4> QED BY <2>1, <4>2 DEF ChargesFit
    <3>2. charge[d].allocated \in Nat /\ charge[d].credited \in Nat
      BY <1>2 DEF MoneyTyped
    <3>3. CASE d = c
      BY <1>4, <3>1, <3>2, <3>3
    <3>4. CASE d # c
      <4>1. charge'[d] = charge[d]
        BY <1>4, <3>4
      <4>2. Total(paid', {x \in Cents: x[2] = d}) = charge[d].allocated
        BY <3>1, <3>2, <3>4
      <4>3. /\ charge[d].allocated + charge[d].credited <= ChargeAmount[d]
            /\ ~charge[d].there => charge[d].allocated = 0 /\ charge[d].credited = 0
        BY <2>1 DEF ChargesFit
      <4> QED BY <4>1, <4>2, <4>3
    <3> QED BY <3>3, <3>4
  <2>3. Cents' = Cents
    BY DEF Cents
  <2>4. \A d \in Charge : Total(paid, {x \in Cents: x[2] = d})' = Total(paid', {x \in Cents: x[2] = d})
    BY <2>3 DEF Total
  <2> QED BY <2>2, <2>4 DEF ChargesFit
<1>12. PaymentsFit'
  <2>1. PaymentsFit
    BY DEF Rows
  <2>2. ASSUME NEW q \in Payment
        PROVE  /\ payment'[q].allocated <= PaymentAmount[q]
               /\ IF payment'[q].status \in {"ABSENT", "REVERSED"} THEN payment'[q].allocated = 0
                  ELSE payment'[q].status = PaymentStatus(q, payment'[q].allocated)
               /\ payment'[q].allocated = Total(paid', {x \in Cents: x[1] = q})
               /\ q \in Outgoing => payment'[q].allocated = 0
    <3>1. Total(paid', {x \in Cents: x[1] = q})
            = payment[q].allocated + (IF q = p THEN n ELSE 0)
      <4>1. e \in {x \in Cents: x[1] = q} <=> q = p
        BY <1>2
      <4>2. Total(paid', {x \in Cents: x[1] = q})
              = Total(paid, {x \in Cents: x[1] = q}) + (IF q = p THEN n ELSE 0)
        BY <1>10, <4>1
      <4> QED BY <2>1, <4>2 DEF PaymentsFit
    <3>2. payment[q].allocated \in Nat
      BY <1>2 DEF MoneyTyped
    <3>3. CASE q = p
      BY <1>5, <1>6, <1>7, <3>1, <3>2, <3>3 DEF Outgoing
    <3>4. CASE q # p
      <4>1. payment'[q] = payment[q]
        BY <1>7, <3>4
      <4>2. Total(paid', {x \in Cents: x[1] = q}) = payment[q].allocated
        BY <3>1, <3>2, <3>4
      <4>3. /\ payment[q].allocated <= PaymentAmount[q]
            /\ IF payment[q].status \in {"ABSENT", "REVERSED"} THEN payment[q].allocated = 0
               ELSE payment[q].status = PaymentStatus(q, payment[q].allocated)
            /\ q \in Outgoing => payment[q].allocated = 0
        BY <2>1 DEF PaymentsFit
      <4> QED BY <4>1, <4>2, <4>3
    <3> QED BY <3>3, <3>4
  <2>4. \A q \in Payment : Total(paid, {x \in Cents: x[1] = q})' = Total(paid', {x \in Cents: x[1] = q})
    BY DEF Total, Cents
  <2> QED BY <2>2, <2>4 DEF PaymentsFit, PaymentStatus
<1>13. ASSUME NEW t \in Period PROVE LedgerFitsIn(t)'
  <2>1. LedgerFitsIn(t)
    BY RowsFromParts
  <2>2. CASE t # T
    <3>1. \A q \in Payment : PaymentPeriod[q] = t => payment'[q] = payment[q]
      BY <1>7, <2>2
    <3>2. \A d \in Charge : charge'[d].there = charge[d].there /\ charge'[d].credited = charge[d].credited
      BY <1>4
    <3> HIDE DEF T
    <3> QED BY <1>2, <1>3, <1>9, <2>1, <2>2, <3>1, <3>2, MonthUntouched
  <2>3. CASE t = T
    <3>1. Posted(T)' = Posted(T) /\ DatedIn(T)' = DatedIn(T)
      <4>1. \A d \in Charge : charge'[d].there = charge[d].there
        BY <1>4
      <4> QED BY <4>1 DEF Posted, DatedIn
    <3>2. Due' = Due
      <4>1. \A d \in Charge : charge'[d].credited = charge[d].credited
        BY <1>4
      <4> QED BY <4>1 DEF Due
    <3>3. /\ \A q \in Payment : Spent'[q] = payment'[q].allocated
          /\ \A q \in Payment : Booked'[q] = Booking(q, payment'[q])
      BY DEF Spent, Booked, Booking
    <3>4. p \in DatedIn(T)
      BY DEF DatedIn
    <3> HIDE DEF T
    <3>5. /\ IsFiniteSet(DatedIn(T)) /\ DatedIn(T) \subseteq Payment
          /\ \A q \in Payment : /\ Spent[q] \in Int /\ Spent[q] = payment[q].allocated
                                /\ Booked[q] \in Int /\ Booked[q] = Booking(q, payment[q])
          /\ Total(Due, Posted(T)) \in Int /\ Total(Spent, DatedIn(T)) \in Int
          /\ Total(Booked, DatedIn(T)) \in Int
      BY <1>2, MonthSums
    <3>6. /\ Spent'[p] = Spent[p] + n /\ Booked'[p] = Booked[p] - n
          /\ Spent'[p] \in Int /\ Booked'[p] \in Int
          /\ \A q \in Payment \ {p} : Spent'[q] = Spent[q] /\ Booked'[q] = Booked[q]
      <4>1. payment[p] \in Row /\ payment'[p] \in Row
        BY <1>2, <1>7 DEF Row, MoneyTyped
      <4>2. /\ Booking(p, payment[p]) = PaymentAmount[p] - payment[p].allocated
            /\ Booking(p, payment'[p]) = PaymentAmount[p] - payment'[p].allocated
        BY <1>5, <1>7, <4>1, BookingIs
      <4>3. payment[p].allocated \in Nat
        BY <4>1 DEF Row
      <4> QED BY <1>6, <1>7, <3>3, <3>5, <4>2, <4>3
    <3>7. Total(Spent', DatedIn(T)) = Total(Spent, DatedIn(T)) - Spent[p] + Spent'[p]
      <4>1. /\ \A q \in DatedIn(T) : Spent[q] \in Int
            /\ \A q \in DatedIn(T) \ {p} : Spent'[q] = Spent[q]
        BY <3>5, <3>6
      <4> QED BY <3>4, <3>5, <3>6, <4>1, SumChange DEF Total
    <3>8. Total(Booked', DatedIn(T)) = Total(Booked, DatedIn(T)) - Booked[p] + Booked'[p]
      <4>1. /\ \A q \in DatedIn(T) : Booked[q] \in Int
            /\ \A q \in DatedIn(T) \ {p} : Booked'[q] = Booked[q]
        BY <3>5, <3>6
      <4> QED BY <3>4, <3>5, <3>6, <4>1, SumChange DEF Total
    <3>9. /\ ledger[T].ar = Total(Due, Posted(T)) - Total(Spent, DatedIn(T))
          /\ ledger[T].unapplied = Total(Booked, DatedIn(T))
      BY <2>1, <2>3 DEF LedgerFitsIn
    <3>10. /\ Total(Due, Posted(T))' = Total(Due', Posted(T)')
           /\ Total(Spent, DatedIn(T))' = Total(Spent', DatedIn(T)')
           /\ Total(Booked, DatedIn(T))' = Total(Booked', DatedIn(T)')
      BY DEF Total, T
    <3>11. /\ ledger'[T].ar = Total(Due', Posted(T)') - Total(Spent', DatedIn(T)')
           /\ ledger'[T].unapplied = Total(Booked', DatedIn(T)')
      BY <1>3, <3>1, <3>2, <3>5, <3>6, <3>7, <3>8, <3>9
    <3>12. LedgerFitsIn(T)'
      BY <3>10, <3>11 DEF LedgerFitsIn, T
    <3> QED BY <2>3, <3>12
  <2> QED BY <2>2, <2>3
<1> QED BY <1>9, <1>11, <1>12, <1>13, RowsFromParts DEF Rows, LedgerFits, LedgerFitsIn

(* What a payment has on a charge is part of what either adds up to. *)
LEMMA EntryIsPart ==
    ASSUME FiguresAssumption, Rows, NEW p \in Payment, NEW c \in Charge
    PROVE  /\ paid[<<p, c>>] \in Nat
           /\ paid[<<p, c>>] <= charge[c].allocated /\ paid[<<p, c>>] <= payment[p].allocated
<1> DEFINE e == <<p, c>>
           ofC == {x \in Cents : x[2] = c}
           ofP == {x \in Cents : x[1] = p}
<1>1. e \in ofC /\ e \in ofP /\ ofC \subseteq Cents /\ ofP \subseteq Cents
  BY DEF Cents
<1>2. charge[c].allocated = Total(paid, ofC) /\ payment[p].allocated = Total(paid, ofP)
  BY DEF Rows, ChargesFit, PaymentsFit
<1>3. \A x \in Cents : paid[x] \in Nat
  BY DEF Rows, MoneyTyped
<1> HIDE DEF e, ofC, ofP
<1>4. IsFiniteSet(ofC) /\ IsFiniteSet(ofP)
  BY <1>1, FiniteRows
<1>5. (\A x \in ofC : paid[x] \in Nat) /\ (\A x \in ofP : paid[x] \in Nat)
  BY <1>1, <1>3
<1>6. paid[e] <= Total(paid, ofC)
  BY <1>1, <1>4, <1>5, SumMember DEF Total
<1>7. paid[e] <= Total(paid, ofP)
  BY <1>1, <1>4, <1>5, SumMember DEF Total
<1> QED BY <1>1, <1>2, <1>3, <1>6, <1>7 DEF e

(* An allocation takes no more than the payment has and the charge owes. *)
LEMMA AllocateKeepsRows ==
    ASSUME FiguresAssumption, Rows, NEW p \in Payment, NEW c \in Charge, Allocate(p, c) PROVE Rows'
<1>1. PICK n \in 1 .. Cash[p] : n <= Open[c] /\ Move(p, c, n)
  BY DEF Allocate
<1>2. p \in Kept(PaymentPeriod[p]) \cap Incoming /\ charge[c].there
  BY DEF Allocate, Posted
<1>3. /\ Cash[p] \in Nat /\ Cash[p] = PaymentAmount[p] - payment[p].allocated
      /\ payment[p].allocated \in Nat /\ PaymentAmount[p] \in Nat
      /\ Open[c] \in Nat /\ Open[c] = ChargeAmount[c] - charge[c].credited - charge[c].allocated
      /\ charge[c].allocated \in Nat /\ charge[c].credited \in Nat /\ ChargeAmount[c] \in Nat
  <2>1. /\ Spent[p] \in Nat /\ Cash[p] \in Nat /\ Spent[p] = payment[p].allocated
        /\ Cash[p] = PaymentAmount[p] - Spent[p]
    BY Amounts DEF Rows
  <2>2. /\ Left[c] \in Nat /\ Open[c] = Left[c] /\ Left[c] = Due[c] - charge[c].allocated
        /\ charge[c].allocated \in Nat /\ charge[c].credited \in Nat
    BY Amounts DEF Rows
  <2>3. Due[c] = ChargeAmount[c] - charge[c].credited /\ ChargeAmount[c] \in Nat /\ PaymentAmount[p] \in Nat
    BY DEF Due, FiguresAssumption
  <2> QED BY <2>1, <2>2, <2>3
<1>4. n \in Int /\ n >= 1 /\ n <= Cash[p]
  BY <1>1, <1>3
<1>5. paid[<<p, c>>] \in Nat
  BY EntryIsPart
<1>6. /\ paid[<<p, c>>] + n \in Nat /\ payment[p].allocated + n \in 0 .. PaymentAmount[p]
      /\ charge[c].allocated + n \in Nat
      /\ charge[c].allocated + n + charge[c].credited <= ChargeAmount[c]
  BY <1>1, <1>3, <1>4, <1>5
<1> QED BY <1>1, <1>2, <1>4, <1>6, MoveKeepsRows

(* A reversal takes back what the payment has on the charge. *)
LEMMA ReverseKeepsRows ==
    ASSUME FiguresAssumption, Rows, NEW p \in Payment, NEW c \in Charge, ReverseAllocation(p, c)
    PROVE  Rows'
<1> DEFINE n == paid[<<p, c>>]
<1>1. n > 0 /\ Move(p, c, -n)
  BY DEF ReverseAllocation
<1>2. n \in Nat /\ n <= charge[c].allocated /\ n <= payment[p].allocated
  BY EntryIsPart
<1> HIDE DEF n
<1>3. /\ charge[c].allocated \in Nat /\ charge[c].credited \in Nat /\ ChargeAmount[c] \in Nat
      /\ payment[p].allocated \in Nat /\ payment[p].allocated <= PaymentAmount[p]
      /\ PaymentAmount[p] \in Nat
      /\ charge[c].allocated + charge[c].credited <= ChargeAmount[c]
  BY DEF Rows, MoneyTyped, ChargesFit, PaymentsFit, FiguresAssumption
<1>a. charge[c].allocated # 0 /\ payment[p].allocated # 0
  BY <1>1, <1>2, <1>3
<1>4. charge[c].there
  <2>1. ~charge[c].there => charge[c].allocated = 0
    BY DEF Rows, ChargesFit
  <2> QED BY <1>a, <2>1 DEF Rows, MoneyTyped
<1>5. p \in Kept(PaymentPeriod[p]) \cap Incoming
  <2>1. payment[p].status \notin {"ABSENT", "REVERSED"} /\ p \notin Outgoing
    BY <1>a DEF Rows, PaymentsFit
  <2> QED BY <2>1 DEF Kept, Outgoing
<1>6. /\ -n \in Int /\ n + (-n) \in Nat /\ payment[p].allocated + (-n) \in 0 .. PaymentAmount[p]
      /\ charge[c].allocated + (-n) \in Nat
      /\ charge[c].allocated + (-n) + charge[c].credited <= ChargeAmount[c]
  BY <1>2, <1>3
<1>7. paid[<<p, c>>] + (-n) \in Nat
  BY <1>6 DEF n
<1> QED BY <1>1, <1>4, <1>5, <1>6, <1>7, MoveKeepsRows

(* A credit takes no more than is left of the charge. *)
LEMMA CreditKeepsRows ==
    ASSUME FiguresAssumption, Rows, NEW c \in Charge, NEW n \in 1 .. ChargeAmount[c], Credit(c, n)
    PROVE  Rows'
<1> DEFINE T == ChargePeriod[c]
<1>1. /\ charge' = [charge EXCEPT ![c].credited = @ + n] /\ charge[c].there /\ n <= Left[c]
      /\ Post(T, -n, 0) /\ UNCHANGED <<payment, paid>>
  BY DEF Credit
<1>2. T \in Period /\ MoneyTyped /\ n \in Nat /\ -n \in Int /\ 0 \in Int
  BY DEF FiguresAssumption, Rows
<1>3. /\ ledger' \in [Period -> [ar: Int, unapplied: Int]]
      /\ ledger'[T].ar = ledger[T].ar + (-n) /\ ledger'[T].unapplied = ledger[T].unapplied + 0
      /\ \A t \in Period \ {T} : ledger'[t] = ledger[t]
  <2> HIDE DEF T
  <2> QED BY <1>1, <1>2, PostIs
<1>4. /\ charge' \in [Charge -> [there: BOOLEAN, allocated: Nat, credited: Nat]]
      /\ charge'[c].allocated = charge[c].allocated /\ charge'[c].there = charge[c].there
      /\ charge'[c].credited = charge[c].credited + n
      /\ \A d \in Charge \ {c} : charge'[d] = charge[d]
  <2>1. charge[c].credited + n \in Nat
    BY <1>2 DEF MoneyTyped
  <2>2. charge' = [charge EXCEPT ![c].credited = charge[c].credited + n]
    BY <1>1
  <2> HIDE DEF T
  <2> QED BY <1>2, <2>1, <2>2 DEF MoneyTyped
<1>5. MoneyTyped'
  BY <1>1, <1>2, <1>3, <1>4 DEF MoneyTyped
<1>6. ChargesFit'
  <2>1. ChargesFit
    BY DEF Rows
  <2>2. ASSUME NEW d \in Charge
        PROVE  /\ charge'[d].allocated + charge'[d].credited <= ChargeAmount[d]
               /\ ~charge'[d].there => charge'[d].allocated = 0 /\ charge'[d].credited = 0
               /\ charge'[d].allocated = charge[d].allocated
    <3>1. CASE d = c
      <4>1. /\ Left[c] = Due[c] - charge[c].allocated
            /\ charge[c].allocated \in Nat /\ charge[c].credited \in Nat
        BY Amounts DEF Rows
      <4>2. Due[c] = ChargeAmount[c] - charge[c].credited /\ ChargeAmount[c] \in Nat
        BY DEF Due, FiguresAssumption
      <4> QED BY <1>1, <1>2, <1>4, <3>1, <4>1, <4>2
    <3>2. CASE d # c
      <4>1. charge'[d] = charge[d]
        BY <1>4, <3>2
      <4> QED BY <2>1, <4>1 DEF ChargesFit
    <3> QED BY <3>1, <3>2
  <2> QED BY <1>1, <2>1, <2>2 DEF ChargesFit
<1>7. PaymentsFit'
  BY <1>1 DEF Rows, PaymentsFit, PaymentStatus
<1>8. ASSUME NEW t \in Period PROVE LedgerFitsIn(t)'
  <2>1. LedgerFitsIn(t)
    BY RowsFromParts
  <2>2. CASE t # T
    <3>1. \A d \in Charge : ChargePeriod[d] = t =>
             charge'[d].there = charge[d].there /\ charge'[d].credited = charge[d].credited
      BY <1>4, <2>2
    <3> HIDE DEF T
    <3> QED BY <1>1, <1>2, <1>3, <1>5, <2>1, <2>2, <3>1, MonthUntouched
  <2>3. CASE t = T
    <3>1. /\ Posted(T)' = Posted(T) /\ DatedIn(T)' = DatedIn(T)
          /\ c \in Posted(T)
      BY <1>1, <1>4 DEF Posted, DatedIn
    <3>2. Spent' = Spent /\ Booked' = Booked
      BY <1>1 DEF Spent, Booked, Booking
    <3>3. \A d \in Charge : Due'[d] = ChargeAmount[d] - charge'[d].credited
      BY DEF Due
    <3>4. T' = T
      OBVIOUS
    <3> HIDE DEF T
    <3>5. /\ IsFiniteSet(Posted(T)) /\ Posted(T) \subseteq Charge
          /\ Total(Due, Posted(T)) \in Int /\ Total(Spent, DatedIn(T)) \in Int
          /\ Total(Booked, DatedIn(T)) \in Int
      BY <1>2, MonthSums
    <3>6. \A d \in Charge : Due[d] \in Int /\ Due[d] = ChargeAmount[d] - charge[d].credited
      BY <1>2, MonthSums
    <3>7. Due'[c] = Due[c] - n /\ Due'[c] \in Int /\ \A d \in Charge \ {c} : Due'[d] = Due[d]
      <4>1. charge[c].credited \in Nat /\ ChargeAmount[c] \in Nat
        BY <1>2 DEF MoneyTyped, FiguresAssumption
      <4> QED BY <1>2, <1>4, <3>3, <3>6, <4>1
    <3>8. Total(Due', Posted(T)) = Total(Due, Posted(T)) - Due[c] + Due'[c]
      <4>1. /\ \A d \in Posted(T) : Due[d] \in Int
            /\ \A d \in Posted(T) \ {c} : Due'[d] = Due[d]
        BY <3>5, <3>6, <3>7
      <4> QED BY <3>1, <3>5, <3>7, <4>1, SumChange DEF Total
    <3>9. /\ ledger[T].ar = Total(Due, Posted(T)) - Total(Spent, DatedIn(T))
          /\ ledger[T].unapplied = Total(Booked, DatedIn(T))
      BY <2>1, <2>3 DEF LedgerFitsIn
    <3>10. /\ Total(Due, Posted(T))' = Total(Due', Posted(T)')
           /\ Total(Spent, DatedIn(T))' = Total(Spent', DatedIn(T)')
           /\ Total(Booked, DatedIn(T))' = Total(Booked', DatedIn(T)')
      BY <3>4 DEF Total, T
    <3>a. Due[c] \in Int
      BY <3>6
    <3>11. /\ ledger'[T].ar = Total(Due', Posted(T)') - Total(Spent', DatedIn(T)')
           /\ ledger'[T].unapplied = Total(Booked', DatedIn(T)')
      BY <1>2, <1>3, <3>1, <3>2, <3>5, <3>7, <3>8, <3>9, <3>a
    <3>12. LedgerFitsIn(T)'
      BY <3>10, <3>11 DEF LedgerFitsIn, T
    <3> QED BY <2>3, <3>12
  <2> QED BY <2>2, <2>3
<1> QED BY <1>5, <1>6, <1>7, <1>8, RowsFromParts DEF Rows, LedgerFits, LedgerFitsIn

(* A payment taken back: nothing of it is left on any charge. *)
LEMMA ProviderReversalKeepsRows ==
    ASSUME FiguresAssumption, Rows, NEW p \in Payment, ProviderReversal(p) PROVE Rows'
<1> DEFINE T == PaymentPeriod[p]
           n == payment[p].allocated
<1>1. /\ charge' = [c \in Charge |-> [charge[c] EXCEPT !.allocated = @ - paid[<<p, c>>]]]
      /\ payment' = [payment EXCEPT ![p] = [status |-> "REVERSED", allocated |-> 0]]
      /\ paid' = [x \in Payment \X Charge |-> IF x[1] = p THEN 0 ELSE paid[x]]
      /\ Post(T, n, n - PaymentAmount[p])
      /\ p \in Kept(T)
  BY DEF ProviderReversal
<1>2. /\ T \in Period /\ MoneyTyped /\ n \in Nat /\ n \in Int /\ PaymentAmount[p] \in Nat
      /\ n - PaymentAmount[p] \in Int
  BY DEF FiguresAssumption, Rows, MoneyTyped
<1>3. /\ ledger' \in [Period -> [ar: Int, unapplied: Int]]
      /\ ledger'[T].ar = ledger[T].ar + n /\ ledger'[T].unapplied = ledger[T].unapplied + (n - PaymentAmount[p])
      /\ \A t \in Period \ {T} : ledger'[t] = ledger[t]
  <2> HIDE DEF T, n
  <2> QED BY <1>1, <1>2, PostIs
<1>4. ASSUME NEW c \in Charge
      PROVE  /\ charge'[c] \in [there: BOOLEAN, allocated: Nat, credited: Nat]
             /\ charge'[c].allocated = charge[c].allocated - paid[<<p, c>>]
             /\ charge'[c].there = charge[c].there /\ charge'[c].credited = charge[c].credited
             /\ paid[<<p, c>>] \in Nat /\ charge[c].allocated \in Nat
             /\ paid[<<p, c>>] <= charge[c].allocated
  <2>1. /\ paid[<<p, c>>] \in Nat /\ paid[<<p, c>>] <= charge[c].allocated
    BY EntryIsPart
  <2>2. charge[c] \in [there: BOOLEAN, allocated: Nat, credited: Nat]
    BY <1>2 DEF MoneyTyped
  <2>3. charge[c].allocated - paid[<<p, c>>] \in Nat
    BY <2>1, <2>2
  <2>4. charge'[c] = [charge[c] EXCEPT !.allocated = charge[c].allocated - paid[<<p, c>>]]
    BY <1>1
  <2> QED BY <2>1, <2>2, <2>3, <2>4
<1>5. /\ payment' \in [Payment -> [status: {"ABSENT", "UNAPPLIED", "PARTIALLY_ALLOCATED", "ALLOCATED", "REVERSED"},
                                   allocated: Nat]]
      /\ payment'[p] = [status |-> "REVERSED", allocated |-> 0]
      /\ \A q \in Payment \ {p} : payment'[q] = payment[q]
  BY <1>1, <1>2 DEF MoneyTyped
<1>6. /\ paid' \in [Cents -> Nat]
      /\ \A x \in Cents : paid'[x] = IF x[1] = p THEN 0 ELSE paid[x]
  BY <1>1, <1>2 DEF MoneyTyped, Cents
<1>7. MoneyTyped'
  <2>1. charge' \in [Charge -> [there: BOOLEAN, allocated: Nat, credited: Nat]]
    BY <1>1, <1>4
  <2> QED BY <1>3, <1>5, <1>6, <2>1 DEF MoneyTyped, Cents
<1>8. ChargesFit'
  <2>1. ChargesFit
    BY DEF Rows
  <2>2. ASSUME NEW c \in Charge
        PROVE  /\ charge'[c].allocated + charge'[c].credited <= ChargeAmount[c]
               /\ ~charge'[c].there => charge'[c].allocated = 0 /\ charge'[c].credited = 0
               /\ charge'[c].allocated = Total(paid', {x \in Cents: x[2] = c})
    <3> DEFINE S == {x \in Cents: x[2] = c}
               e == <<p, c>>
    <3>1. /\ charge[c].allocated + charge[c].credited <= ChargeAmount[c]
          /\ ~charge[c].there => charge[c].allocated = 0 /\ charge[c].credited = 0
          /\ charge[c].allocated = Total(paid, S)
      BY <2>1 DEF ChargesFit
    <3>2. charge[c].credited \in Nat /\ ChargeAmount[c] \in Nat
      BY <1>2 DEF MoneyTyped, FiguresAssumption
    <3>3. /\ e \in S /\ S \subseteq Cents /\ paid'[e] = 0
          /\ \A x \in S \ {e} : paid'[x] = paid[x]
      <4>1. e \in Cents /\ e[1] = p /\ e[2] = c
        BY DEF Cents
      <4>2. \A x \in Cents : x[1] = p /\ x[2] = c => x = e
        BY DEF Cents
      <4> HIDE DEF e
      <4> QED BY <1>6, <4>1, <4>2
    <3>4. \A x \in Cents : paid[x] \in Nat
      BY <1>2 DEF MoneyTyped
    <3> HIDE DEF S, e
    <3>5. IsFiniteSet(S) /\ \A x \in S : paid[x] \in Int
      BY <3>3, <3>4, FiniteRows
    <3>6. Total(paid', S) = Total(paid, S) - paid[e] + paid'[e]
      BY <3>3, <3>5, SumChange DEF Total
    <3>7. paid[e] \in Nat /\ charge'[c].allocated = charge[c].allocated - paid[e]
          /\ paid[e] <= charge[c].allocated /\ charge[c].allocated \in Nat
      BY <1>4 DEF e
    <3>8. charge'[c].allocated = Total(paid', S)
      BY <3>1, <3>3, <3>6, <3>7
    <3>9. charge'[c].allocated + charge'[c].credited <= ChargeAmount[c]
      <4>1. charge'[c].credited = charge[c].credited
        BY <1>4
      <4> QED BY <3>1, <3>2, <3>7, <4>1
    <3>10. ~charge'[c].there => charge'[c].allocated = 0 /\ charge'[c].credited = 0
      <4>1. charge[c].allocated = 0 => charge'[c].allocated = 0
        BY <3>7
      <4> QED BY <1>4, <3>1, <4>1
    <3> QED BY <3>8, <3>9, <3>10 DEF S
  <2>3. \A c \in Charge : Total(paid, {x \in Cents: x[2] = c})' = Total(paid', {x \in Cents: x[2] = c})
    BY DEF Total, Cents
  <2> QED BY <2>2, <2>3 DEF ChargesFit
<1>9. PaymentsFit'
  <2>1. PaymentsFit
    BY DEF Rows
  <2>2. ASSUME NEW q \in Payment
        PROVE  /\ payment'[q].allocated <= PaymentAmount[q]
               /\ IF payment'[q].status \in {"ABSENT", "REVERSED"} THEN payment'[q].allocated = 0
                  ELSE payment'[q].status = PaymentStatus(q, payment'[q].allocated)
               /\ payment'[q].allocated = Total(paid', {x \in Cents: x[1] = q})
               /\ q \in Outgoing => payment'[q].allocated = 0
    <3> DEFINE S == {x \in Cents: x[1] = q}
    <3>1. IsFiniteSet(S)
      BY FiniteRows
    <3>2. CASE q = p
      <4>1. \A x \in S : paid'[x] = 0
        BY <1>6, <3>2
      <4> HIDE DEF S
      <4>2. Total(paid', S) = 0
        BY <3>1, <4>1, SumZero DEF Total
      <4> QED BY <1>2, <1>5, <3>2, <4>2 DEF S
    <3>3. CASE q # p
      <4>1. \A x \in S : paid'[x] = paid[x]
        BY <1>6, <3>3
      <4>2. /\ payment[q].allocated <= PaymentAmount[q]
            /\ IF payment[q].status \in {"ABSENT", "REVERSED"} THEN payment[q].allocated = 0
               ELSE payment[q].status = PaymentStatus(q, payment[q].allocated)
            /\ q \in Outgoing => payment[q].allocated = 0
            /\ payment[q].allocated = Total(paid, S)
        BY <2>1 DEF PaymentsFit
      <4> HIDE DEF S
      <4>3. Total(paid', S) = Total(paid, S)
        BY <3>1, <4>1, SumSame DEF Total
      <4>4. payment'[q] = payment[q]
        BY <1>5, <3>3
      <4> QED BY <4>2, <4>3, <4>4 DEF S
    <3> QED BY <3>2, <3>3
  <2>3. \A q \in Payment : Total(paid, {x \in Cents: x[1] = q})' = Total(paid', {x \in Cents: x[1] = q})
    BY DEF Total, Cents
  <2> QED BY <2>2, <2>3 DEF PaymentsFit, PaymentStatus
<1>10. ASSUME NEW t \in Period PROVE LedgerFitsIn(t)'
  <2>1. LedgerFitsIn(t)
    BY RowsFromParts
  <2>2. CASE t # T
    <3>1. \A q \in Payment : PaymentPeriod[q] = t => payment'[q] = payment[q]
      BY <1>5, <2>2
    <3>2. \A c \in Charge : charge'[c].there = charge[c].there /\ charge'[c].credited = charge[c].credited
      BY <1>4
    <3> HIDE DEF T, n
    <3> QED BY <1>2, <1>3, <1>7, <2>1, <2>2, <3>1, <3>2, MonthUntouched
  <2>3. CASE t = T
    <3>1. /\ Posted(T)' = Posted(T) /\ DatedIn(T)' = DatedIn(T)
          /\ p \in DatedIn(T)
      <4>1. Posted(T)' = Posted(T)
        BY <1>4 DEF Posted
      <4> QED BY <4>1 DEF DatedIn
    <3>2. Due' = Due
      BY <1>4 DEF Due
    <3>3. /\ \A q \in Payment : Spent'[q] = payment'[q].allocated
          /\ \A q \in Payment : Booked'[q] = Booking(q, payment'[q])
      BY DEF Spent, Booked, Booking
    <3>4. /\ IsFiniteSet(DatedIn(T)) /\ DatedIn(T) \subseteq Payment
          /\ \A q \in Payment : /\ Spent[q] \in Int /\ Spent[q] = payment[q].allocated
                                /\ Booked[q] \in Int /\ Booked[q] = Booking(q, payment[q])
          /\ Total(Due, Posted(T)) \in Int /\ Total(Spent, DatedIn(T)) \in Int
          /\ Total(Booked, DatedIn(T)) \in Int
      <4> HIDE DEF T
      <4> QED BY <1>2, MonthSums
    <3>5. /\ Spent'[p] = 0 /\ Spent[p] = n /\ Booked'[p] = Booked[p] + (n - PaymentAmount[p])
          /\ Booked'[p] \in Int
          /\ \A q \in Payment \ {p} : Spent'[q] = Spent[q] /\ Booked'[q] = Booked[q]
      <4>1. payment[p] \in Row /\ payment'[p] \in Row /\ payment[p].status \notin {"ABSENT", "REVERSED"}
        BY <1>1, <1>2, <1>5 DEF Row, MoneyTyped, Kept
      <4>2. /\ Booking(p, payment[p]) = IF p \in Incoming THEN PaymentAmount[p] - n ELSE 0
            /\ Booking(p, payment'[p]) = IF p \in Incoming THEN 0 ELSE -PaymentAmount[p]
        BY <1>5, <4>1, BookingIs
      <4>3. p \notin Incoming => n = 0
        BY DEF Rows, PaymentsFit, Outgoing
      <4>4. Booking(p, payment'[p]) = Booking(p, payment[p]) + (n - PaymentAmount[p])
        BY <1>2, <4>2, <4>3
      <4> QED BY <1>2, <1>5, <3>3, <3>4, <4>4
    <3>6. T' = T
      OBVIOUS
    <3> HIDE DEF T, n
    <3>7. Total(Spent', DatedIn(T)) = Total(Spent, DatedIn(T)) - Spent[p] + Spent'[p]
      <4>1. /\ \A q \in DatedIn(T) : Spent[q] \in Int
            /\ \A q \in DatedIn(T) \ {p} : Spent'[q] = Spent[q]
            /\ Spent'[p] \in Int
        BY <3>4, <3>5
      <4> QED BY <3>1, <3>4, <4>1, SumChange DEF Total
    <3>8. Total(Booked', DatedIn(T)) = Total(Booked, DatedIn(T)) - Booked[p] + Booked'[p]
      <4>1. /\ \A q \in DatedIn(T) : Booked[q] \in Int
            /\ \A q \in DatedIn(T) \ {p} : Booked'[q] = Booked[q]
        BY <3>4, <3>5
      <4> QED BY <3>1, <3>4, <3>5, <4>1, SumChange DEF Total
    <3>10. /\ ledger[T].ar = Total(Due, Posted(T)) - Total(Spent, DatedIn(T))
           /\ ledger[T].unapplied = Total(Booked, DatedIn(T))
      BY <2>1, <2>3 DEF LedgerFitsIn
    <3>11. /\ Total(Due, Posted(T))' = Total(Due', Posted(T)')
           /\ Total(Spent, DatedIn(T))' = Total(Spent', DatedIn(T)')
           /\ Total(Booked, DatedIn(T))' = Total(Booked', DatedIn(T)')
      BY <3>6 DEF Total, T
    <3>12. ledger'[T].ar = Total(Due', Posted(T)') - Total(Spent', DatedIn(T)')
      BY <1>2, <1>3, <3>1, <3>2, <3>4, <3>5, <3>7, <3>10
    <3>13. ledger'[T].unapplied = Total(Booked', DatedIn(T)')
      BY <1>2, <1>3, <3>1, <3>4, <3>5, <3>8, <3>10
    <3>14. LedgerFitsIn(T)'
      BY <3>11, <3>12, <3>13 DEF LedgerFitsIn, T
    <3> QED BY <2>3, <3>14
  <2> QED BY <2>2, <2>3
<1> QED BY <1>7, <1>8, <1>9, <1>10, RowsFromParts DEF Rows, LedgerFits, LedgerFitsIn

(* The rows of the beginning: none. *)
LEMMA InitRows ==
    ASSUME FiguresAssumption, Init PROVE Rows
<1>1. MoneyTyped
  BY DEF Init, MoneyTyped, Cents
<1>2. /\ \A c \in Charge : ~charge[c].there /\ charge[c].allocated = 0 /\ charge[c].credited = 0
      /\ \A p \in Payment : payment[p].status = "ABSENT" /\ payment[p].allocated = 0
      /\ \A x \in Cents : paid[x] = 0
      /\ \A t \in Period : ledger[t].ar = 0 /\ ledger[t].unapplied = 0
  BY DEF Init, Cents
<1>3. ASSUME NEW S, S \subseteq Cents PROVE Total(paid, S) = 0
  <2>1. IsFiniteSet(S) /\ \A x \in S : paid[x] = 0
    BY <1>2, <1>3, FiniteRows
  <2> QED BY <2>1, SumZero DEF Total
<1>4. /\ \A c \in Charge : Total(paid, {x \in Cents: x[2] = c}) = 0
      /\ \A p \in Payment : Total(paid, {x \in Cents: x[1] = p}) = 0
  BY <1>3
<1>5. \A c \in Charge : ChargeAmount[c] \in Nat
  BY DEF FiguresAssumption
<1>6. \A p \in Payment : PaymentAmount[p] \in Nat
  BY DEF FiguresAssumption
<1>7. ChargesFit
  BY <1>2, <1>4, <1>5 DEF ChargesFit
<1>8. PaymentsFit
  BY <1>2, <1>4, <1>6 DEF PaymentsFit
<1>9. ASSUME NEW t \in Period PROVE LedgerFitsIn(t)
  <2>1. Posted(t) = {}
    BY <1>2 DEF Posted
  <2>2. Total(Due, {}) = 0
    BY SumEmpty DEF Total
  <2>3. IsFiniteSet(DatedIn(t)) /\ \A p \in DatedIn(t) : Spent[p] = 0 /\ Booked[p] = 0
    BY <1>1, <1>2, MonthSums DEF Spent, Booked, Booking, DatedIn
  <2>4. Total(Spent, DatedIn(t)) = 0 /\ Total(Booked, DatedIn(t)) = 0
    BY <2>3, SumZero DEF Total
  <2> QED BY <1>2, <2>1, <2>2, <2>4 DEF LedgerFitsIn
<1> QED BY <1>1, <1>7, <1>8, <1>9, RowsFromParts DEF Rows, LedgerFits, LedgerFitsIn

----------------------------------------------------------------------------
(* The figures that were read or signed                                    *)

\* Nothing of a month through T changes.
Still(T) ==
    /\ \A c \in Charge : ChargePeriod[c] <= T => charge'[c] = charge[c]
    /\ \A p \in Payment : PaymentPeriod[p] <= T => payment'[p] = payment[p]
    /\ \A t \in 1 .. T : ledger'[t] = ledger[t]

(* A figure through T is made of rows and postings of months through T. *)
LEMMA StillFigures ==
    ASSUME FiguresAssumption, NEW T \in Period, Still(T)
    PROVE  /\ periodTotals(T)' = periodTotals(T)
           /\ cumulativeBalances(T)' = cumulativeBalances(T)
           /\ chargeDerivedReceivables(T)' = chargeDerivedReceivables(T)
           /\ countLeasesMissingCharges(T)' = countLeasesMissingCharges(T)
           /\ Unreconciled(T)' = Unreconciled(T)
<1>1. T \in Nat /\ T <= T
  BY DEF FiguresAssumption, Period
<1>2. /\ \A c \in Charge : ChargePeriod[c] = T => charge'[c] = charge[c]
      /\ \A p \in Payment : PaymentPeriod[p] = T => payment'[p] = payment[p]
  BY <1>1 DEF Still
<1>3. Posted(T)' = Posted(T) /\ Kept(T)' = Kept(T) /\ Unreconciled(T)' = Unreconciled(T)
  BY <1>2 DEF Posted, Kept, Unreconciled
<1>4. countLeasesMissingCharges(T)' = countLeasesMissingCharges(T)
  <2>1. {c \in Charge : ChargePeriod[c] = T /\ ~charge[c].there}'
          = {c \in Charge : ChargePeriod[c] = T /\ ~charge[c].there}
    BY <1>2
  <2> QED BY <2>1 DEF countLeasesMissingCharges
<1>5. periodTotals(T)' = periodTotals(T)
  <2>1. IsFiniteSet(Kept(T)) /\ \A p \in Kept(T) : Spent'[p] = Spent[p]
    BY <1>2, Through, FiniteRows DEF Kept, Spent
  <2>2. Total(Spent', Kept(T)) = Total(Spent, Kept(T))
    BY <2>1, SumSame DEF Total
  <2>3. periodTotals(T)' = [charges |-> Total(ChargeAmount, Posted(T)'),
                            received |-> Total(PaymentAmount, Kept(T)'),
                            allocated |-> Total(Spent', Kept(T)')]
    BY DEF periodTotals, Total
  <2> QED BY <1>3, <2>2, <2>3 DEF periodTotals
<1>6. chargeDerivedReceivables(T)' = chargeDerivedReceivables(T)
  <2>1. PostedThrough(T) = {c \in Charge : charge[c].there /\ ChargePeriod[c] <= T}
    BY Through
  <2>2. \A t \in 1 .. T : Posted(t)' = Posted(t)
    BY <1>1 DEF Still, Posted
  <2>3. PostedThrough(T)' = PostedThrough(T)
    BY <2>2 DEF PostedThrough
  <2>4. IsFiniteSet(PostedThrough(T)) /\ \A c \in PostedThrough(T) : Left'[c] = Left[c]
    BY <2>1, FiniteRows DEF Still, Left
  <2>5. Total(Left', PostedThrough(T)) = Total(Left, PostedThrough(T))
    BY <2>4, SumSame DEF Total
  <2>6. chargeDerivedReceivables(T)' = Total(Left', PostedThrough(T)')
    BY DEF chargeDerivedReceivables, Total
  <2> QED BY <2>3, <2>5, <2>6 DEF chargeDerivedReceivables
<1>7. cumulativeBalances(T)' = cumulativeBalances(T)
  <2> DEFINE ar == [t \in Period |-> ledger[t].ar]
             unapplied == [t \in Period |-> ledger[t].unapplied]
             S == 1 .. T
  <2>1. IsFiniteSet(S) /\ \A t \in S : ar'[t] = ar[t] /\ unapplied'[t] = unapplied[t]
    BY FiniteRows DEF Still
  <2>2. cumulativeBalances(T) = [receivables |-> Total(ar, S), unapplied |-> Total(unapplied, S)]
    BY DEF cumulativeBalances
  <2>3. cumulativeBalances(T)' = [receivables |-> Total(ar', S), unapplied |-> Total(unapplied', S)]
    BY DEF cumulativeBalances, Total
  <2> HIDE DEF ar, unapplied, S
  <2>4. Total(ar', S) = Total(ar, S) /\ Total(unapplied', S) = Total(unapplied, S)
    BY <2>1, SumSame DEF Total
  <2> QED BY <2>2, <2>3, <2>4
<1> QED BY <1>3, <1>4, <1>5, <1>6, <1>7

\* What changed is of months in S, and an exception, once opened, was opened.
ChangesIn(S) ==
    /\ \A c \in Charge : ChargePeriod[c] \notin S => charge'[c] = charge[c]
    /\ \A p \in Payment : PaymentPeriod[p] \notin S => payment'[p] = payment[p]
    /\ \A t \in Period \ S : ledger'[t] = ledger[t]
    /\ \A p \in Payment : exception[p].status # "NONE" => exception'[p].status # "NONE"

(* A month whose own and earlier months nothing touches keeps its figures. *)
LEMMA QuietMonth ==
    ASSUME FiguresAssumption, NEW T \in Period, NEW S, (1 .. T) \cap S = {}, ChangesIn(S),
           \A t \in Period \ S : status'[t] = status[t]
    PROVE  /\ Still(T)
           /\ EarlierClosed(T) => EarlierClosed(T)'
           /\ status'[T] = status[T]
           /\ CashReviewed(T) => CashReviewed(T)'
<1>1. /\ T \in 1 .. T /\ 1 .. T \subseteq Period /\ \A t \in 1 .. T - 1 : t \in 1 .. T
      /\ T \in Nat
  BY DEF FiguresAssumption, Period
<1>2. \A t \in 1 .. T : t \in Period \ S
  BY <1>1
<1>3. /\ \A c \in Charge : ChargePeriod[c] <= T => ChargePeriod[c] \in 1 .. T
      /\ \A p \in Payment : PaymentPeriod[p] <= T => PaymentPeriod[p] \in 1 .. T
  <2>1. ASSUME NEW t \in Period PROVE t <= T => t \in 1 .. T
    BY <1>1 DEF Period, FiguresAssumption
  <2> QED BY <2>1 DEF FiguresAssumption
<1>4. Still(T)
  BY <1>2, <1>3 DEF ChangesIn, Still
<1>5. EarlierClosed(T) => EarlierClosed(T)'
  BY <1>1, <1>2 DEF EarlierClosed
<1>6. CashReviewed(T) => CashReviewed(T)'
  <2>1. Unreconciled(T)' = Unreconciled(T)
    BY <1>4, StillFigures
  <2>2. Unreconciled(T) \subseteq Payment
    BY DEF Unreconciled, Kept
  <2> QED BY <2>1, <2>2 DEF CashReviewed, ChangesIn
<1> QED BY <1>1, <1>2, <1>4, <1>5, <1>6

(* So what was signed of it stays true. *)
LEMMA SignedStays ==
    ASSUME FiguresAssumption, NEW T \in Period, NEW S, (1 .. T) \cap S = {}, ChangesIn(S),
           \A t \in Period \ S : status'[t] = status[t], Signed(T),
           /\ snapshot'[T].totals = snapshot[T].totals
           /\ snapshot'[T].outstanding = snapshot[T].outstanding
           /\ snapshot'[T].unapplied = snapshot[T].unapplied
    PROVE  Signed(T)'
<1>2. /\ Still(T) /\ EarlierClosed(T)' /\ status'[T] = "CLOSED" /\ CashReviewed(T)'
  BY QuietMonth DEF Signed
<1>3. /\ periodTotals(T)' = periodTotals(T) /\ cumulativeBalances(T)' = cumulativeBalances(T)
      /\ chargeDerivedReceivables(T)' = chargeDerivedReceivables(T)
      /\ countLeasesMissingCharges(T)' = countLeasesMissingCharges(T)
  BY <1>2, StillFigures
<1> QED BY <1>2, <1>3 DEF Signed

(* And so does what was gathered for it. *)
LEMMA CurrentStays ==
    ASSUME FiguresAssumption, NEW T \in Period, NEW S, (1 .. T) \cap S = {}, ChangesIn(S),
           \A t \in Period \ S : status'[t] = status[t], Current(T),
           closing'[T].done = closing[T].done /\ closing'[T].facts = closing[T].facts
    PROVE  Current(T)'
<1>1. Still(T) /\ EarlierClosed(T)' /\ (CashReviewed(T) => CashReviewed(T)')
  BY QuietMonth DEF Current
<1>2. /\ periodTotals(T)' = periodTotals(T) /\ cumulativeBalances(T)' = cumulativeBalances(T)
      /\ chargeDerivedReceivables(T)' = chargeDerivedReceivables(T)
      /\ countLeasesMissingCharges(T)' = countLeasesMissingCharges(T)
  BY <1>1, StillFigures
<1> QED BY <1>1, <1>2 DEF Current

(* No month that is not closed lies behind one that stands or is being signed. *)
LEMMA NotBehind ==
    ASSUME FiguresAssumption, SignedFits, GatheredFits, NEW T \in Period,
           NEW S \in SUBSET Period, \A t \in S : status[t] # "CLOSED"
    PROVE  /\ snapshot[T].stands => (1 .. T) \cap S = {}
           /\ Undisturbed(T) /\ T \notin S => (1 .. T) \cap S = {}
<1>1. \A t \in 1 .. T : t = T \/ t \in 1 .. T - 1
  BY DEF FiguresAssumption, Period
<1>2. ASSUME EarlierClosed(T), T \notin S PROVE (1 .. T) \cap S = {}
  BY <1>1, <1>2 DEF EarlierClosed
<1>3. snapshot[T].stands => EarlierClosed(T) /\ T \notin S
  BY DEF SignedFits, Signed
<1>4. Undisturbed(T) => EarlierClosed(T)
  BY DEF GatheredFits, Current
<1> QED BY <1>2, <1>3, <1>4

(* What happens in months that are neither closed nor being closed. *)
LEMMA OpenMonthsChange ==
    ASSUME FiguresAssumption, SignedFits, GatheredFits, NEW S \in SUBSET Period,
           LocksFree(S), \A t \in S : status[t] # "CLOSED",
           ChangesIn(S), \A t \in Period \ S : status'[t] = status[t],
           UNCHANGED <<closing, snapshot>>
    PROVE  SignedFits' /\ GatheredFits'
<1>1. ASSUME NEW T \in Period, snapshot[T].stands PROVE Signed(T)'
  BY <1>1, NotBehind, SignedStays DEF SignedFits
<1>2. ASSUME NEW T \in Period, closing[T].locked
      PROVE  T \notin S /\ status'[T] = "IN_REVIEW"
  BY <1>2 DEF LocksFree, GatheredFits
<1>3. ASSUME NEW T \in Period, Undisturbed(T) PROVE Current(T)'
  <2>1. T \notin S
    BY <1>2, <1>3 DEF Undisturbed
  <2> QED BY <1>3, <2>1, NotBehind, CurrentStays DEF GatheredFits
<1> QED BY <1>1, <1>2, <1>3 DEF SignedFits, GatheredFits, Undisturbed

(* A month is touched or opened again: what lies after it stands no longer. *)
LEMMA MonthsMoved ==
    ASSUME FiguresAssumption, CloseTyped, SignedFits, GatheredFits, NEW S \in SUBSET Period,
           LocksFree(S), Moved(S), ChangesIn(S), \A t \in Period \ S : status'[t] = status[t]
    PROVE  SignedFits' /\ GatheredFits'
<1> DEFINE later == {t \in Period: \E s \in S: s < t}
<1>1. ASSUME NEW T \in Period
      PROVE  /\ snapshot'[T].stands = (snapshot[T].stands /\ T \notin S \cup later)
             /\ snapshot'[T].totals = snapshot[T].totals
             /\ snapshot'[T].outstanding = snapshot[T].outstanding
             /\ snapshot'[T].unapplied = snapshot[T].unapplied
             /\ closing'[T].locked = closing[T].locked /\ closing'[T].done = closing[T].done
             /\ closing'[T].facts = closing[T].facts
             /\ closing'[T].disturbed = (closing[T].disturbed \/ (closing[T].locked /\ T \in later))
  BY DEF CloseTyped, Moved
<1>2. ASSUME NEW T \in Period, T \notin S, T \notin later PROVE (1 .. T) \cap S = {}
  <2>1. SUFFICES ASSUME NEW t \in 1 .. T, t \in S PROVE FALSE
    OBVIOUS
  <2>2. t < T \/ t = T
    BY DEF FiguresAssumption, Period
  <2> QED BY <1>2, <2>1, <2>2
<1> HIDE DEF later
<1>3. ASSUME NEW T \in Period, snapshot'[T].stands PROVE Signed(T)'
  <2>1. snapshot[T].stands /\ (1 .. T) \cap S = {}
    BY <1>1, <1>2, <1>3
  <2> QED BY <1>1, <2>1, SignedStays DEF SignedFits
<1>4. ASSUME NEW T \in Period, closing'[T].locked PROVE T \notin S /\ status'[T] = "IN_REVIEW"
  BY <1>1, <1>4 DEF LocksFree, GatheredFits
<1>5. ASSUME NEW T \in Period, Undisturbed(T)' PROVE Current(T)'
  <2>1. /\ closing'[T].locked /\ closing'[T].done >= 1 /\ ~closing'[T].disturbed
    BY <1>5 DEF Undisturbed
  <2>2. Undisturbed(T) /\ T \notin later /\ T \notin S
    BY <1>1, <1>4, <2>1 DEF Undisturbed
  <2>3. (1 .. T) \cap S = {}
    BY <1>2, <2>2
  <2> QED BY <1>1, <2>2, <2>3, CurrentStays DEF GatheredFits
<1> QED BY <1>3, <1>4, <1>5 DEF SignedFits, GatheredFits

----------------------------------------------------------------------------
(* The steps                                                               *)

MoneyStands == UNCHANGED <<charge, payment, ledger>>

(* When no money moves, a month changes only in what else is said of it. *)
LEMMA NothingMoved ==
    ASSUME MoneyStands, NEW S,
           \A p \in Payment : exception[p].status # "NONE" => exception'[p].status # "NONE"
    PROVE  ChangesIn(S)
BY DEF MoneyStands, ChangesIn

(* A posting changes the ledger of its month alone. *)
LEMMA PostIn ==
    ASSUME CloseTyped, MoneyTyped, NEW T, NEW ar, NEW unapplied, Post(T, ar, unapplied)
    PROVE  \A t \in Period \ {T} : ledger'[t] = ledger[t]
BY DEF Post, MoneyTyped

ExceptionRows == [Payment -> [status: {"NONE", "OPEN", "RESOLVED"}, blocking: BOOLEAN]]
PostsIn(S) ==
  /\ Postable(S) /\ ChangesIn(S)
  /\ UNCHANGED <<status, closing, snapshot>> /\ exception' \in ExceptionRows

(* Money moves only in months that are neither closed nor being closed. *)
LEMMA PostingsAreInOpenMonths ==
    ASSUME FiguresAssumption, Rows, CloseTyped,
           \/ \E T \in Period : Generate(T)
           \/ \E p \in Payment : Receive(p)
           \/ \E p \in Payment, c \in Charge : Allocate(p, c) \/ ReverseAllocation(p, c)
           \/ \E c \in Charge : \E n \in 1 .. ChargeAmount[c] : Credit(c, n)
    PROVE  \E S \in SUBSET Period : PostsIn(S)
<1>0. /\ exception \in ExceptionRows /\ MoneyTyped
      /\ \A c \in Charge : ChargePeriod[c] \in Period
      /\ \A p \in Payment : PaymentPeriod[p] \in Period
  BY DEF CloseTyped, Rows, FiguresAssumption, ExceptionRows
<1>1. ASSUME NEW T \in Period, Generate(T)
      PROVE  PostsIn({T})
  <2>1. /\ Postable({T}) /\ UNCHANGED <<payment, exception, busy, status, closing, snapshot>>
        /\ \A c \in Charge : ChargePeriod[c] # T => charge'[c] = charge[c]
    BY <1>1 DEF Generate
  <2>2. \A t \in Period \ {T} : ledger'[t] = ledger[t]
    BY <1>0, <1>1, PostIn DEF Generate
  <2> QED BY <1>0, <2>1, <2>2 DEF ChangesIn, PostsIn
<1>2. ASSUME NEW p \in Payment, Receive(p)
      PROVE  PostsIn({PaymentPeriod[p]})
  <2>1. /\ Postable({PaymentPeriod[p]}) /\ UNCHANGED <<charge, busy, status, closing, snapshot>>
        /\ payment' = [payment EXCEPT ![p].status = "UNAPPLIED"]
    BY <1>2 DEF Receive
  <2>2. \A t \in Period \ {PaymentPeriod[p]} : ledger'[t] = ledger[t]
    BY <1>0, <1>2, PostIn DEF Receive
  <2>3. PICK e \in {exception[p]} \cup {x \in [status: {"OPEN"}, blocking: BOOLEAN] : p \in Incoming} :
          exception' = [exception EXCEPT ![p] = e]
    BY <1>2 DEF Receive
  <2>4. /\ e \in [status: {"NONE", "OPEN", "RESOLVED"}, blocking: BOOLEAN]
        /\ exception[p].status # "NONE" => e.status # "NONE"
    BY <1>0, <2>3 DEF ExceptionRows
  <2>5. /\ exception' \in ExceptionRows
        /\ \A q \in Payment : exception[q].status # "NONE" => exception'[q].status # "NONE"
    BY <1>0, <2>3, <2>4 DEF ExceptionRows
  <2>6. \A q \in Payment : PaymentPeriod[q] \notin {PaymentPeriod[p]} => payment'[q] = payment[q]
    BY <1>0, <2>1 DEF MoneyTyped
  <2> QED BY <2>1, <2>2, <2>5, <2>6 DEF ChangesIn, PostsIn
<1>3. ASSUME NEW p \in Payment, NEW c \in Charge, NEW n, Move(p, c, n)
      PROVE  /\ \A d \in Charge : ChargePeriod[d] \notin AllocationPeriods(p, c) => charge'[d] = charge[d]
             /\ \A q \in Payment : PaymentPeriod[q] \notin AllocationPeriods(p, c) => payment'[q] = payment[q]
             /\ \A t \in Period \ AllocationPeriods(p, c) : ledger'[t] = ledger[t]
  <2>1. AllocationPeriods(p, c) = {PaymentPeriod[p], ChargePeriod[c]}
    BY DEF AllocationPeriods, PostingPeriod
  <2>2. \A t \in Period \ {PaymentPeriod[p]} : ledger'[t] = ledger[t]
    BY <1>0, <1>3, PostIn DEF Move, PostingPeriod
  <2>3. \A d \in Charge \ {c} : charge'[d] = charge[d]
    BY <1>0, <1>3 DEF Move, MoneyTyped
  <2>4. \A q \in Payment \ {p} : payment'[q] = payment[q]
    BY <1>0, <1>3 DEF Move, MoneyTyped
  <2> QED BY <2>1, <2>2, <2>3, <2>4
<1>4. ASSUME NEW p \in Payment, NEW c \in Charge, Allocate(p, c)
      PROVE  PostsIn(AllocationPeriods(p, c))
  <2>1. PICK n \in 1 .. Cash[p] :
          /\ Move(p, c, n)
          /\ exception' = [exception EXCEPT ![p].status = IF @ = "OPEN" /\ n = Cash[p] THEN "RESOLVED" ELSE @]
    BY <1>4 DEF Allocate
  <2>2. /\ exception' \in ExceptionRows
        /\ \A q \in Payment : exception[q].status # "NONE" => exception'[q].status # "NONE"
    BY <1>0, <2>1 DEF ExceptionRows
  <2>3. Postable(AllocationPeriods(p, c)) /\ UNCHANGED <<status, closing, snapshot>>
    BY <1>4 DEF Allocate
  <2> QED BY <1>3, <2>1, <2>2, <2>3 DEF ChangesIn, PostsIn
<1>5. ASSUME NEW p \in Payment, NEW c \in Charge, ReverseAllocation(p, c)
      PROVE  PostsIn(AllocationPeriods(p, c))
  <2>1. /\ Move(p, c, -paid[<<p, c>>]) /\ Postable(AllocationPeriods(p, c))
        /\ UNCHANGED <<exception, busy, status, closing, snapshot>>
    BY <1>5 DEF ReverseAllocation
  <2> QED BY <1>0, <1>3, <2>1 DEF ChangesIn, PostsIn
<1>6. ASSUME NEW c \in Charge, NEW n \in 1 .. ChargeAmount[c], Credit(c, n)
      PROVE  PostsIn({ChargePeriod[c]})
  <2>1. /\ Postable({ChargePeriod[c]}) /\ UNCHANGED <<payment, exception, busy, status, closing, snapshot>>
        /\ charge' = [charge EXCEPT ![c].credited = @ + n]
    BY <1>6 DEF Credit
  <2>2. \A t \in Period \ {ChargePeriod[c]} : ledger'[t] = ledger[t]
    BY <1>0, <1>6, PostIn DEF Credit
  <2>3. \A d \in Charge \ {c} : charge'[d] = charge[d]
    BY <1>0, <2>1 DEF MoneyTyped
  <2> QED BY <1>0, <2>1, <2>2, <2>3 DEF ChangesIn, PostsIn
<1>7. \A p \in Payment, c \in Charge : AllocationPeriods(p, c) \in SUBSET Period
  BY <1>0 DEF AllocationPeriods, PostingPeriod
<1>8. CASE \E T \in Period : Generate(T)
  <2>1. PICK T \in Period : PostsIn({T})
    BY <1>1, <1>8
  <2>2. {T} \in SUBSET Period
    OBVIOUS
  <2> QED BY <2>1, <2>2
<1>9. CASE \E p \in Payment : Receive(p)
  <2>1. PICK p \in Payment : PostsIn({PaymentPeriod[p]})
    BY <1>2, <1>9
  <2>2. {PaymentPeriod[p]} \in SUBSET Period
    BY <1>0
  <2> QED BY <2>1, <2>2
<1>10. CASE \E p \in Payment, c \in Charge : Allocate(p, c) \/ ReverseAllocation(p, c)
  <2>1. PICK p \in Payment, c \in Charge : PostsIn(AllocationPeriods(p, c))
    BY <1>4, <1>5, <1>10
  <2> QED BY <2>1, <1>7
<1>11. CASE \E c \in Charge : \E n \in 1 .. ChargeAmount[c] : Credit(c, n)
  <2>1. PICK c \in Charge : PostsIn({ChargePeriod[c]})
    BY <1>6, <1>11
  <2>2. {ChargePeriod[c]} \in SUBSET Period
    BY <1>0
  <2> QED BY <2>1, <2>2
<1> QED BY <1>8, <1>9, <1>10, <1>11

(* A payment taken back touches its month and those of the charges it paid. *)
LEMMA ReversalMoves ==
    ASSUME FiguresAssumption, Rows, CloseTyped, NEW p \in Payment, ProviderReversal(p)
    PROVE  /\ \E S \in SUBSET Period : LocksFree(S) /\ Moved(S) /\ ChangesIn(S)
           /\ status' = status
           /\ exception' \in [Payment -> [status: {"NONE", "OPEN", "RESOLVED"}, blocking: BOOLEAN]]
<1> DEFINE on == {c \in Charge: paid[<<p, c>>] > 0}
           S == {PaymentPeriod[p]} \cup {ChargePeriod[c]: c \in on}
<1>1. /\ LocksFree(S) /\ Moved(S) /\ UNCHANGED <<busy, status>>
      /\ charge' = [c \in Charge |-> [charge[c] EXCEPT !.allocated = @ - paid[<<p, c>>]]]
      /\ payment' = [payment EXCEPT ![p] = [status |-> "REVERSED", allocated |-> 0]]
      /\ exception' = [exception EXCEPT ![p] = [status |-> "OPEN", blocking |-> TRUE]]
      /\ Post(PaymentPeriod[p], payment[p].allocated, payment[p].allocated - PaymentAmount[p])
  BY DEF ProviderReversal
<1>2. S \in SUBSET Period
  BY DEF FiguresAssumption
<1>3. ASSUME NEW c \in Charge, ChargePeriod[c] \notin S PROVE charge'[c] = charge[c]
  <2>1. paid[<<p, c>>] \in Nat /\ ~(paid[<<p, c>>] > 0)
    BY <1>3, EntryIsPart
  <2>2. paid[<<p, c>>] = 0
    BY <2>1
  <2>3. charge[c] \in [there: BOOLEAN, allocated: Nat, credited: Nat]
    BY DEF Rows, MoneyTyped
  <2>4. charge[c].allocated - 0 = charge[c].allocated
    BY <2>3
  <2>5. charge'[c] = [charge[c] EXCEPT !.allocated = charge[c].allocated]
    BY <1>1, <2>2, <2>4
  <2> QED BY <2>3, <2>5
<1>4. \A q \in Payment : PaymentPeriod[q] \notin S => payment'[q] = payment[q]
  BY <1>1 DEF Rows, MoneyTyped
<1>5. \A t \in Period \ S : ledger'[t] = ledger[t]
  <2>1. \A t \in Period \ {PaymentPeriod[p]} : ledger'[t] = ledger[t]
    BY <1>1, PostIn DEF Rows
  <2> QED BY <2>1
<1>6. /\ exception' \in [Payment -> [status: {"NONE", "OPEN", "RESOLVED"}, blocking: BOOLEAN]]
      /\ \A q \in Payment : exception[q].status # "NONE" => exception'[q].status # "NONE"
  BY <1>1 DEF CloseTyped
<1> HIDE DEF S
<1> QED BY <1>1, <1>2, <1>3, <1>4, <1>5, <1>6 DEF ChangesIn

(* What Moved does keeps the shapes of the snapshots and closes. *)
LEMMA MovedTyped ==
    ASSUME CloseTyped, NEW S, Moved(S), status' \in [Period -> {"OPEN", "IN_REVIEW", "CLOSED"}],
           exception' \in [Payment -> [status: {"NONE", "OPEN", "RESOLVED"}, blocking: BOOLEAN]]
    PROVE  CloseTyped'
<1>1. DOMAIN snapshot' = Period /\ DOMAIN closing' = Period
  BY DEF Moved
<1>2. ASSUME NEW T \in Period
      PROVE  /\ DOMAIN snapshot'[T] = {"outstanding", "unapplied", "totals", "stands"}
             /\ snapshot'[T].stands \in BOOLEAN
             /\ DOMAIN closing'[T] = {"locked", "done", "facts", "disturbed"}
             /\ closing'[T].facts = closing[T].facts
             /\ closing'[T].locked = closing[T].locked /\ closing'[T].disturbed \in BOOLEAN
             /\ closing'[T].done = closing[T].done
  BY DEF Moved, CloseTyped
<1> QED BY <1>1, <1>2 DEF CloseTyped

(* The rows are as they were when no step is taken in them. *)
LEMMA RowsStay ==
    ASSUME Rows, UNCHANGED money PROVE Rows'
<1>1. charge' = charge /\ payment' = payment /\ paid' = paid /\ ledger' = ledger
  BY DEF money
<1>2. MoneyTyped'
  BY <1>1 DEF Rows, MoneyTyped
<1>3. ChargesFit'
  BY <1>1 DEF Rows, ChargesFit, Total
<1>4. PaymentsFit'
  BY <1>1 DEF Rows, PaymentsFit, Total, PaymentStatus
<1>5. LedgerFits'
  BY <1>1 DEF Rows, LedgerFits, Total, Due, Spent, Booked, Booking, Posted, DatedIn
<1> QED BY <1>2, <1>3, <1>4, <1>5 DEF Rows

(* Neither a month's figures nor what was said of its cash is anything but rows. *)
LEMMA RowsAlone ==
    ASSUME FiguresAssumption, NEW T \in Period, MoneyStands, UNCHANGED exception
    PROVE  /\ periodTotals(T)' = periodTotals(T)
           /\ cumulativeBalances(T)' = cumulativeBalances(T)
           /\ chargeDerivedReceivables(T)' = chargeDerivedReceivables(T)
           /\ countLeasesMissingCharges(T)' = countLeasesMissingCharges(T)
           /\ CashReviewed(T)' = CashReviewed(T)
<1>1. Still(T)
  BY DEF Still, MoneyStands
<1> QED BY <1>1, StillFigures DEF CashReviewed

(* The queries of a close, by name. *)
LEMMA StepsAre ==
    /\ Len(Steps) = 8
    /\ Steps[1] = "prior" /\ Steps[2] = "missing" /\ Steps[3] = "busy" /\ Steps[4] = "unreviewed"
    /\ Steps[5] = "exceptions" /\ Steps[6] = "totals" /\ Steps[7] = "balances" /\ Steps[8] = "derived"
    /\ \A i \in 1 .. 8 : Steps[i] \in ToSet(Steps)
    /\ {"prior", "missing", "busy", "unreviewed", "exceptions", "totals", "balances", "derived"} = ToSet(Steps)
<1>1. Len(Steps) = 8 /\ DOMAIN Steps = 1 .. 8
  BY DEF Steps
<1>2. /\ Steps[1] = "prior" /\ Steps[2] = "missing" /\ Steps[3] = "busy" /\ Steps[4] = "unreviewed"
      /\ Steps[5] = "exceptions" /\ Steps[6] = "totals" /\ Steps[7] = "balances" /\ Steps[8] = "derived"
  BY DEF Steps
<1>3. ToSet(Steps) = {Steps[i] : i \in 1 .. 8}
  BY <1>1 DEF ToSet
<1>4. 1 .. 8 = {1, 2, 3, 4, 5, 6, 7, 8}
  OBVIOUS
<1> HIDE DEF Steps
<1> QED BY <1>1, <1>2, <1>3, <1>4

(* A step of one close leaves the others, and all that was signed, as they are. *)
LEMMA OneClose ==
    ASSUME FiguresAssumption, CloseTyped, SignedFits, GatheredFits, NEW T \in Period,
           UNCHANGED <<money, exception, status, snapshot>>,
           \A t \in Period \ {T} : closing'[t] = closing[t],
           closing'[T].locked => status[T] = "IN_REVIEW",
           Undisturbed(T)' => Current(T)'
    PROVE  SignedFits' /\ GatheredFits'
<1>1. MoneyStands /\ ChangesIn({})
  BY DEF money, MoneyStands, ChangesIn
<1>2. ASSUME NEW t \in Period, snapshot'[t].stands PROVE Signed(t)'
  BY <1>1, <1>2, SignedStays DEF SignedFits
<1>3. ASSUME NEW t \in Period, t # T, Undisturbed(t)' PROVE Current(t)'
  <2>1. Current(t)
    BY <1>3 DEF GatheredFits, Undisturbed
  <2> QED BY <1>1, <1>3, <2>1, CurrentStays
<1> QED BY <1>2, <1>3 DEF SignedFits, GatheredFits

(* A close is begun: nothing is gathered yet. *)
LEMMA BeginCloseKeeps ==
    ASSUME FiguresAssumption, CloseTyped, SignedFits, GatheredFits, NEW T \in Period, BeginClose(T)
    PROVE  CloseTyped' /\ SignedFits' /\ GatheredFits'
<1>1. /\ closing' = [closing EXCEPT ![T] = [Idle EXCEPT !.locked = TRUE]] /\ status[T] = "IN_REVIEW"
      /\ UNCHANGED <<money, exception, status, snapshot>>
  BY DEF BeginClose
<1>2. /\ Len(Steps) = 8 /\ [Idle EXCEPT !.locked = TRUE].locked = TRUE
      /\ [Idle EXCEPT !.locked = TRUE].done = 0 /\ [Idle EXCEPT !.locked = TRUE].disturbed = FALSE
      /\ DOMAIN [Idle EXCEPT !.locked = TRUE] = {"locked", "done", "facts", "disturbed"}
      /\ DOMAIN [Idle EXCEPT !.locked = TRUE].facts = ToSet(Steps)
  <2> HIDE DEF Steps
  <2> QED BY StepsAre DEF Idle
<1>3. /\ closing'[T] = [Idle EXCEPT !.locked = TRUE] /\ DOMAIN closing' = Period
      /\ \A t \in Period \ {T} : closing'[t] = closing[t]
  BY <1>1 DEF CloseTyped
<1>4. CloseTyped'
  <2>1. [Idle EXCEPT !.locked = TRUE].done \in 0 .. Len(Steps)
    BY <1>2
  <2>2. /\ closing'[T].locked \in BOOLEAN /\ closing'[T].disturbed \in BOOLEAN
        /\ closing'[T].done \in 0 .. Len(Steps)
        /\ DOMAIN closing'[T] = {"locked", "done", "facts", "disturbed"}
        /\ DOMAIN closing'[T].facts = ToSet(Steps)
    BY <1>2, <1>3, <2>1
  <2> QED BY <1>1, <1>3, <2>2 DEF CloseTyped
<1>5. ~Undisturbed(T)'
  BY <1>2, <1>3 DEF Undisturbed
<1> QED BY <1>1, <1>3, <1>4, <1>5, OneClose

(* A query of a close reads what the figure is. *)
LEMMA GatherKeeps ==
    ASSUME FiguresAssumption, CloseTyped, SignedFits, GatheredFits, NEW T \in Period, Gather(T)
    PROVE  CloseTyped' /\ SignedFits' /\ GatheredFits'
<1> DEFINE now == closing[T]
           i == now.done + 1
           step == Steps[i]
           disturbed == IF now.done = 0 THEN \E t \in 1 .. T - 1: status[t] # "CLOSED" ELSE now.disturbed
           then == [now EXCEPT !.done = i, !.facts[step] = Fact(step, T), !.disturbed = disturbed]
<1>1. /\ closing' = [closing EXCEPT ![T] = then] /\ now.locked /\ now.done < Len(Steps)
      /\ UNCHANGED <<money, exception, status, snapshot>>
  BY DEF Gather
<1>2. /\ now.locked \in BOOLEAN /\ now.disturbed \in BOOLEAN /\ now.done \in 0 .. 8 /\ Len(Steps) = 8
      /\ DOMAIN now = {"locked", "done", "facts", "disturbed"} /\ DOMAIN now.facts = ToSet(Steps)
  <2>1. Len(Steps) = 8
    BY StepsAre
  <2> HIDE DEF Steps
  <2> QED BY <2>1 DEF CloseTyped
<1>3. /\ i \in 1 .. 8 /\ step \in ToSet(Steps)
      /\ i = 1 => step = "prior"
      /\ i = 2 => step = "missing"
      /\ i = 3 => step = "busy"
      /\ i = 4 => step = "unreviewed"
      /\ i = 5 => step = "exceptions"
      /\ i = 6 => step = "totals"
      /\ i = 7 => step = "balances"
      /\ i = 8 => step = "derived"
  <2>1. i \in 1 .. 8
    BY <1>1, <1>2
  <2> HIDE DEF i
  <2> QED BY <2>1, StepsAre
<1>4. disturbed \in BOOLEAN
  BY <1>2
<1> DEFINE fact == Fact(step, T)
<1> HIDE DEF disturbed, i, step, fact
<1>5. /\ DOMAIN then = DOMAIN now /\ DOMAIN then.facts = DOMAIN now.facts
      /\ then.locked = now.locked /\ then.done = i /\ then.disturbed = disturbed
      /\ then.facts = [now.facts EXCEPT ![step] = Fact(step, T)]
  BY <1>2
<1>6. /\ then.facts[step] = Fact(step, T)
      /\ \A s \in ToSet(Steps) \ {step} : then.facts[s] = now.facts[s]
  BY <1>2, <1>3, <1>5
<1>7. /\ closing'[T] = then /\ DOMAIN closing' = Period
      /\ \A t \in Period \ {T} : closing'[t] = closing[t]
  BY <1>1 DEF CloseTyped
<1> HIDE DEF then
<1>8. CloseTyped'
  <2>1. then.done \in 0 .. 8
    BY <1>3, <1>5
  <2> HIDE DEF now
  <2> QED BY <1>1, <1>2, <1>4, <1>5, <1>7, <2>1 DEF CloseTyped
<1>9. ASSUME Undisturbed(T)' PROVE Current(T)'
  <2>1. ~disturbed
    BY <1>5, <1>7, <1>9 DEF Undisturbed
  <2>2. now.done # 0 => Current(T)
    <3>1. now.done # 0 => now.done >= 1 /\ ~now.disturbed
      BY <1>2, <2>1 DEF disturbed
    <3> QED BY <1>1, <3>1 DEF GatheredFits, Undisturbed
  <2>3. EarlierClosed(T)'
    <3>1. EarlierClosed(T)
      <4>1. CASE now.done = 0
        BY <2>1, <4>1 DEF disturbed, EarlierClosed
      <4>2. CASE now.done # 0
        BY <2>2, <4>2 DEF Current
      <4> QED BY <4>1, <4>2
    <3> QED BY <1>1, <3>1 DEF EarlierClosed
  <2>4. /\ i >= 2 => then.facts["missing"] = countLeasesMissingCharges(T)
        /\ i >= 4 => (then.facts["unreviewed"] = {} => CashReviewed(T))
        /\ i >= 6 => then.facts["totals"] = periodTotals(T)
        /\ i >= 7 => then.facts["balances"] = cumulativeBalances(T)
        /\ i >= 8 => then.facts["derived"] = chargeDerivedReceivables(T)
    <3>1. /\ {"missing", "unreviewed", "totals", "balances", "derived"} \subseteq ToSet(Steps)
      BY StepsAre
    <3>2. ASSUME i >= 2 PROVE /\ Current(T) /\ now.done = i - 1 /\ now.done \in Int
      BY <1>2, <3>2, <2>2 DEF i
    <3>3. CASE i = 2
      <4>1. then.facts["missing"] = countLeasesMissingCharges(T)
        BY <1>3, <1>6, <3>3 DEF Fact
      <4> QED BY <3>3, <4>1
    <3>4. CASE i = 4
      <4>1. then.facts["missing"] = now.facts["missing"] /\ then.facts["unreviewed"] = unreviewedTransactions(T)
        BY <1>3, <1>6, <3>1, <3>4 DEF Fact
      <4>2. now.facts["missing"] = countLeasesMissingCharges(T)
        BY <3>2, <3>4 DEF Current
      <4>3. unreviewedTransactions(T) = {} => CashReviewed(T)
        <5>1. \A p \in Unreconciled(T) : unreviewedTransactions(T) = {} => exception[p].status = "OPEN"
          BY DEF unreviewedTransactions
        <5> QED BY <5>1 DEF CashReviewed
      <4> QED BY <3>4, <4>1, <4>2, <4>3
    <3>5. CASE i \in {3, 5}
      <4>1. /\ then.facts["missing"] = now.facts["missing"] /\ then.facts["unreviewed"] = now.facts["unreviewed"]
        BY <1>3, <1>6, <3>1, <3>5
      <4> QED BY <3>2, <3>5, <4>1 DEF Current
    <3>6. CASE i = 6
      <4>1. /\ then.facts["missing"] = now.facts["missing"] /\ then.facts["unreviewed"] = now.facts["unreviewed"]
            /\ then.facts["totals"] = periodTotals(T)
        BY <1>3, <1>6, <3>1, <3>6 DEF Fact
      <4> QED BY <3>2, <3>6, <4>1 DEF Current
    <3>7. CASE i = 7
      <4>1. /\ then.facts["missing"] = now.facts["missing"] /\ then.facts["unreviewed"] = now.facts["unreviewed"]
            /\ then.facts["totals"] = now.facts["totals"] /\ then.facts["balances"] = cumulativeBalances(T)
        BY <1>3, <1>6, <3>1, <3>7 DEF Fact
      <4> QED BY <3>2, <3>7, <4>1 DEF Current
    <3>8. CASE i = 8
      <4>1. /\ then.facts["missing"] = now.facts["missing"] /\ then.facts["unreviewed"] = now.facts["unreviewed"]
            /\ then.facts["totals"] = now.facts["totals"] /\ then.facts["balances"] = now.facts["balances"]
            /\ then.facts["derived"] = chargeDerivedReceivables(T)
        BY <1>3, <1>6, <3>1, <3>8 DEF Fact
      <4> QED BY <3>2, <3>8, <4>1 DEF Current
    <3> QED BY <1>3, <3>3, <3>4, <3>5, <3>6, <3>7, <3>8
  <2>5. MoneyStands /\ UNCHANGED exception
    BY <1>1 DEF MoneyStands, money
  <2>6. /\ periodTotals(T)' = periodTotals(T) /\ cumulativeBalances(T)' = cumulativeBalances(T)
        /\ chargeDerivedReceivables(T)' = chargeDerivedReceivables(T)
        /\ countLeasesMissingCharges(T)' = countLeasesMissingCharges(T)
        /\ CashReviewed(T)' = CashReviewed(T)
    BY <2>5, RowsAlone
  <2>7. closing'[T].done = i /\ closing'[T].facts = then.facts
    BY <1>5, <1>7
  <2> QED BY <2>3, <2>4, <2>6, <2>7 DEF Current
<1>10. closing'[T].locked => status[T] = "IN_REVIEW"
  BY <1>1 DEF GatheredFits
<1> QED BY <1>1, <1>7, <1>8, <1>9, <1>10, OneClose

(* A close is refused and forgotten. *)
LEMMA RefuseCloseKeeps ==
    ASSUME FiguresAssumption, CloseTyped, SignedFits, GatheredFits, NEW T \in Period,
           NEW acknowledged, RefuseClose(T, acknowledged)
    PROVE  CloseTyped' /\ SignedFits' /\ GatheredFits'
<1>1. /\ closing' = [closing EXCEPT ![T] = Idle] /\ UNCHANGED <<money, exception, status, snapshot>>
  BY DEF RefuseClose
<1>2. /\ Len(Steps) = 8 /\ ~Idle.locked /\ Idle.done = 0 /\ Idle.disturbed = FALSE /\ Idle.locked = FALSE
      /\ DOMAIN Idle = {"locked", "done", "facts", "disturbed"} /\ DOMAIN Idle.facts = ToSet(Steps)
  <2> HIDE DEF Steps
  <2> QED BY StepsAre DEF Idle
<1>3. /\ closing'[T] = Idle /\ DOMAIN closing' = Period /\ \A t \in Period \ {T} : closing'[t] = closing[t]
  BY <1>1 DEF CloseTyped
<1>4. CloseTyped'
  <2>1. Idle.done \in 0 .. Len(Steps)
    BY <1>2
  <2>2. /\ closing'[T].locked \in BOOLEAN /\ closing'[T].disturbed \in BOOLEAN
        /\ closing'[T].done \in 0 .. Len(Steps)
        /\ DOMAIN closing'[T] = {"locked", "done", "facts", "disturbed"}
        /\ DOMAIN closing'[T].facts = ToSet(Steps)
    BY <1>2, <1>3, <2>1
  <2> QED BY <1>1, <1>3, <2>2 DEF CloseTyped
<1>5. ~Undisturbed(T)' /\ ~closing'[T].locked
  BY <1>2, <1>3 DEF Undisturbed
<1> QED BY <1>1, <1>3, <1>4, <1>5, OneClose

(* A month is signed: what was gathered undisturbed is what it is. *)
LEMMA CloseKeeps ==
    ASSUME FiguresAssumption, CloseTyped, SignedFits, GatheredFits, NEW T \in Period,
           NEW acknowledged, Close(T, acknowledged)
    PROVE  CloseTyped' /\ SignedFits' /\ GatheredFits'
<1> DEFINE now == closing[T]
           signed == [outstanding |-> now.facts["derived"], unapplied |-> now.facts["balances"].unapplied,
                      totals |-> now.facts["totals"], stands |-> ~now.disturbed]
<1>1. /\ now.locked /\ now.done = Len(Steps) /\ ~Blocked(now.facts)
      /\ status' = [status EXCEPT ![T] = "CLOSED"] /\ snapshot' = [snapshot EXCEPT ![T] = signed]
      /\ closing' = [closing EXCEPT ![T] = Idle] /\ UNCHANGED <<money, exception>>
  BY DEF Close, Gathered
<1>2. /\ Len(Steps) = 8 /\ Idle.done = 0 /\ Idle.disturbed = FALSE /\ Idle.locked = FALSE
      /\ DOMAIN Idle = {"locked", "done", "facts", "disturbed"} /\ DOMAIN Idle.facts = ToSet(Steps)
  <2> HIDE DEF Steps
  <2> QED BY StepsAre DEF Idle
<1>3. /\ now.disturbed \in BOOLEAN /\ status[T] = "IN_REVIEW"
  BY <1>1 DEF CloseTyped, GatheredFits
<1>4. /\ DOMAIN signed = {"outstanding", "unapplied", "totals", "stands"}
      /\ signed.stands \in BOOLEAN /\ signed.stands = ~now.disturbed
      /\ signed.totals = now.facts["totals"] /\ signed.outstanding = now.facts["derived"]
      /\ signed.unapplied = now.facts["balances"].unapplied
  BY <1>3
<1> HIDE DEF signed
<1>5. /\ closing'[T] = Idle /\ DOMAIN closing' = Period /\ \A t \in Period \ {T} : closing'[t] = closing[t]
      /\ snapshot'[T] = signed /\ DOMAIN snapshot' = Period
      /\ \A t \in Period \ {T} : snapshot'[t] = snapshot[t]
      /\ status' \in [Period -> {"OPEN", "IN_REVIEW", "CLOSED"}]
      /\ status'[T] = "CLOSED" /\ \A t \in Period \ {T} : status'[t] = status[t]
  BY <1>1 DEF CloseTyped
<1>6. CloseTyped'
  <2>1. Idle.done \in 0 .. Len(Steps)
    BY <1>2
  <2>2. /\ closing'[T].locked \in BOOLEAN /\ closing'[T].disturbed \in BOOLEAN
        /\ closing'[T].done \in 0 .. Len(Steps)
        /\ DOMAIN closing'[T] = {"locked", "done", "facts", "disturbed"}
        /\ DOMAIN closing'[T].facts = ToSet(Steps)
    BY <1>2, <1>5, <2>1
  <2>3. DOMAIN snapshot'[T] = {"outstanding", "unapplied", "totals", "stands"} /\ snapshot'[T].stands \in BOOLEAN
    BY <1>4, <1>5
  <2> QED BY <1>1, <1>5, <2>2, <2>3 DEF CloseTyped
<1>7. MoneyStands /\ UNCHANGED exception /\ ChangesIn({T})
  BY <1>1 DEF money, MoneyStands, ChangesIn
<1>8. ASSUME signed.stands PROVE Signed(T)'
  <2>1. Current(T)
    <3>1. now.done >= 1
      BY <1>1, <1>2
    <3>2. ~now.disturbed
      BY <1>4, <1>8
    <3> QED BY <1>1, <3>1, <3>2 DEF GatheredFits, Undisturbed
  <2>2. /\ now.facts["missing"] = countLeasesMissingCharges(T)
        /\ now.facts["unreviewed"] = {} => CashReviewed(T)
        /\ now.facts["totals"] = periodTotals(T) /\ now.facts["balances"] = cumulativeBalances(T)
        /\ now.facts["derived"] = chargeDerivedReceivables(T) /\ EarlierClosed(T)
    BY <1>1, <1>2, <2>1 DEF Current
  <2>3. /\ ~(now.facts["missing"] > 0) /\ now.facts["unreviewed"] = {}
        /\ now.facts["balances"].receivables = now.facts["derived"]
    BY <1>1 DEF Blocked
  <2>4. countLeasesMissingCharges(T) = 0
    <3>1. IsFiniteSet({c \in Charge: ChargePeriod[c] = T /\ ~charge[c].there})
      BY FiniteRows
    <3>2. countLeasesMissingCharges(T) \in Nat
      BY <3>1, FS_CardinalityType DEF countLeasesMissingCharges
    <3> QED BY <2>2, <2>3, <3>2
  <2>5. cumulativeBalances(T) = [receivables |-> cumulativeBalances(T).receivables,
                                 unapplied |-> cumulativeBalances(T).unapplied]
    BY DEF cumulativeBalances
  <2>6. EarlierClosed(T)'
    <3>1. \A t \in 1 .. T - 1 : t \in Period \ {T}
      BY DEF Period, FiguresAssumption
    <3> QED BY <1>5, <2>2, <3>1 DEF EarlierClosed
  <2>7. /\ periodTotals(T)' = periodTotals(T) /\ cumulativeBalances(T)' = cumulativeBalances(T)
        /\ chargeDerivedReceivables(T)' = chargeDerivedReceivables(T)
        /\ countLeasesMissingCharges(T)' = countLeasesMissingCharges(T)
        /\ CashReviewed(T)' = CashReviewed(T)
    BY <1>7, RowsAlone
  <2>8. cumulativeBalances(T) = [receivables |-> signed.outstanding, unapplied |-> signed.unapplied]
    BY <1>4, <2>2, <2>3, <2>5
  <2> QED BY <1>4, <1>5, <2>2, <2>3, <2>4, <2>6, <2>7, <2>8 DEF Signed
<1>9. /\ {T} \in SUBSET Period /\ \A t \in {T} : status[t] # "CLOSED"
  BY <1>3
<1>10. ASSUME NEW t \in Period, t # T, snapshot'[t].stands PROVE Signed(t)'
  <2>1. snapshot[t].stands /\ Signed(t) /\ (1 .. t) \cap {T} = {}
    BY <1>5, <1>9, <1>10, NotBehind DEF SignedFits
  <2> QED BY <1>5, <1>7, <1>10, <2>1, SignedStays
<1>11. ASSUME NEW t \in Period, Undisturbed(t)' PROVE Current(t)'
  <2>1. t # T
    BY <1>2, <1>5, <1>11 DEF Undisturbed
  <2>2. Undisturbed(t) /\ Current(t) /\ (1 .. t) \cap {T} = {}
    BY <1>5, <1>9, <1>11, <2>1, NotBehind DEF GatheredFits, Undisturbed
  <2> QED BY <1>5, <1>7, <2>1, <2>2, CurrentStays
<1>12. ASSUME NEW t \in Period, closing'[t].locked PROVE status'[t] = "IN_REVIEW"
  BY <1>2, <1>5, <1>12 DEF GatheredFits
<1> QED BY <1>5, <1>6, <1>8, <1>10, <1>11, <1>12 DEF SignedFits, GatheredFits

(* Money moved in open months, and nothing else. *)
LEMMA PostingKeeps ==
    ASSUME FiguresAssumption, CloseTyped, SignedFits, GatheredFits, NEW S \in SUBSET Period, PostsIn(S)
    PROVE  CloseTyped' /\ SignedFits' /\ GatheredFits'
<1>1. /\ LocksFree(S) /\ (\A t \in S : status[t] # "CLOSED") /\ ChangesIn(S)
      /\ status' = status /\ closing' = closing /\ snapshot' = snapshot /\ exception' \in ExceptionRows
  BY DEF PostsIn, Postable
<1>2. SignedFits' /\ GatheredFits'
  BY <1>1, OpenMonthsChange
<1>3. CloseTyped'
  BY <1>1 DEF CloseTyped, ExceptionRows
<1> QED BY <1>2, <1>3

(* An exception is resolved or reopened, or the background is busy or no longer. *)
LEMMA ExceptionStepKeeps ==
    ASSUME FiguresAssumption, CloseTyped, SignedFits, GatheredFits,
           Background \/ \E p \in Payment : Conflict(p) \/ ResolveException(p) \/ ReopenException(p)
    PROVE  UNCHANGED money /\ CloseTyped' /\ SignedFits' /\ GatheredFits'
<1>1. /\ UNCHANGED <<money, status, closing, snapshot>> /\ exception' \in ExceptionRows
      /\ \A q \in Payment : exception[q].status # "NONE" => exception'[q].status # "NONE"
  <2>1. exception \in ExceptionRows
    BY DEF CloseTyped, ExceptionRows
  <2>2. CASE Background
    BY <2>1, <2>2 DEF Background
  <2>3. ASSUME NEW p \in Payment, Conflict(p) \/ ResolveException(p) \/ ReopenException(p)
        PROVE  /\ UNCHANGED <<money, status, closing, snapshot>> /\ exception' \in ExceptionRows
               /\ \A q \in Payment : exception[q].status # "NONE" => exception'[q].status # "NONE"
    <3>1. CASE Conflict(p)
      BY <2>1, <3>1 DEF Conflict, ExceptionRows
    <3>2. CASE ResolveException(p) \/ ReopenException(p)
      BY <2>1, <3>2 DEF ResolveException, ReopenException, ExceptionRows
    <3> QED BY <2>3, <3>1, <3>2
  <2> QED BY <2>2, <2>3
<1>2. PostsIn({})
  BY <1>1, NothingMoved DEF PostsIn, Postable, LocksFree, MoneyStands, money
<1> QED BY <1>1, <1>2, PostingKeeps

(* A month goes into review: nothing is signed on it, and no close is on it. *)
LEMMA StartReviewKeeps ==
    ASSUME FiguresAssumption, CloseTyped, SignedFits, GatheredFits, NEW T \in Period, StartReview(T)
    PROVE  CloseTyped' /\ SignedFits' /\ GatheredFits'
<1>1. /\ LocksFree({T}) /\ status[T] = "OPEN" /\ status' = [status EXCEPT ![T] = "IN_REVIEW"]
      /\ UNCHANGED <<money, exception, closing, snapshot>>
  BY DEF StartReview
<1>2. MoneyStands /\ ChangesIn({T})
  BY <1>1, NothingMoved DEF money, MoneyStands
<1>3. \A t \in Period \ {T} : status'[t] = status[t]
  BY <1>1 DEF CloseTyped
<1>4. SignedFits' /\ GatheredFits'
  BY <1>1, <1>2, <1>3, OpenMonthsChange
<1>5. CloseTyped'
  BY <1>1 DEF CloseTyped
<1> QED BY <1>4, <1>5

(* A month is opened again: it and those after it stand no longer. *)
LEMMA ReopenKeeps ==
    ASSUME FiguresAssumption, CloseTyped, SignedFits, GatheredFits, NEW T \in Period, Reopen(T)
    PROVE  CloseTyped' /\ SignedFits' /\ GatheredFits'
<1>1. /\ LocksFree({T}) /\ status' = [status EXCEPT ![T] = "OPEN"] /\ Moved({T})
      /\ UNCHANGED <<money, exception>>
  BY DEF Reopen
<1>2. MoneyStands /\ ChangesIn({T})
  BY <1>1, NothingMoved DEF money, MoneyStands
<1>3. /\ status' \in [Period -> {"OPEN", "IN_REVIEW", "CLOSED"}]
      /\ \A t \in Period \ {T} : status'[t] = status[t]
  BY <1>1 DEF CloseTyped
<1>4. SignedFits' /\ GatheredFits'
  BY <1>1, <1>2, <1>3, MonthsMoved
<1>5. CloseTyped'
  <2>1. exception' \in [Payment -> [status: {"NONE", "OPEN", "RESOLVED"}, blocking: BOOLEAN]]
    BY <1>1 DEF CloseTyped
  <2> QED BY <1>1, <1>3, <2>1, MovedTyped
<1> QED BY <1>4, <1>5

(* The shapes of the beginning; nothing is signed and no close in progress. *)
LEMMA InitClose ==
    ASSUME Init PROVE CloseTyped /\ SignedFits /\ GatheredFits
<1>1. /\ exception = [p \in Payment |-> [status |-> "NONE", blocking |-> FALSE]]
      /\ status = [t \in Period |-> "OPEN"]
      /\ closing = [t \in Period |-> Idle] /\ snapshot = [t \in Period |-> NoSnapshot]
  BY DEF Init
<1>2. /\ Len(Steps) = 8 /\ Idle.done = 0 /\ Idle.disturbed = FALSE /\ Idle.locked = FALSE
      /\ DOMAIN Idle = {"locked", "done", "facts", "disturbed"} /\ DOMAIN Idle.facts = ToSet(Steps)
  <2> HIDE DEF Steps
  <2> QED BY StepsAre DEF Idle
<1>3. /\ DOMAIN NoSnapshot = {"outstanding", "unapplied", "totals", "stands"} /\ NoSnapshot.stands = FALSE
  BY DEF NoSnapshot
<1>4. Idle.done \in 0 .. Len(Steps)
  BY <1>2
<1>5. CloseTyped
  BY <1>1, <1>2, <1>3, <1>4 DEF CloseTyped
<1>6. SignedFits
  BY <1>1, <1>3 DEF SignedFits
<1>7. GatheredFits
  BY <1>1, <1>2 DEF GatheredFits, Undisturbed
<1> QED BY <1>5, <1>6, <1>7

(* What the closes look at stays as it is when nothing happens. *)
LEMMA Stutter ==
    ASSUME FiguresAssumption, IInv, UNCHANGED vars PROVE IInv'
<1>1. UNCHANGED <<money, exception, status, closing, snapshot>>
  BY DEF vars, money
<1>2. PostsIn({})
  BY <1>1, NothingMoved DEF PostsIn, Postable, LocksFree, MoneyStands, money, ExceptionRows, IInv, CloseTyped
<1>3. CloseTyped' /\ SignedFits' /\ GatheredFits'
  BY <1>2, PostingKeeps DEF IInv
<1> QED BY <1>1, <1>3, RowsStay DEF IInv

(* Every step keeps the rows in step with each other, and what was signed true. *)
LEMMA StepKeeps ==
    ASSUME FiguresAssumption, IInv, Next PROVE IInv'
<1>0. Rows /\ CloseTyped /\ SignedFits /\ GatheredFits
  BY DEF IInv
<1>1. CASE \/ \E T \in Period : Generate(T)
           \/ \E p \in Payment : Receive(p)
           \/ \E p \in Payment, c \in Charge : Allocate(p, c) \/ ReverseAllocation(p, c)
           \/ \E c \in Charge : \E n \in 1 .. ChargeAmount[c] : Credit(c, n)
  <2>1. Rows'
    BY <1>0, <1>1, GenerateKeepsRows, ReceiveKeepsRows, AllocateKeepsRows, ReverseKeepsRows, CreditKeepsRows
  <2>2. PICK S \in SUBSET Period : PostsIn(S)
    BY <1>0, <1>1, PostingsAreInOpenMonths
  <2> QED BY <1>0, <2>1, <2>2, PostingKeeps DEF IInv
<1>2. ASSUME NEW p \in Payment, ProviderReversal(p) PROVE IInv'
  <2>1. Rows'
    BY <1>0, <1>2, ProviderReversalKeepsRows
  <2>2. /\ \E S \in SUBSET Period : LocksFree(S) /\ Moved(S) /\ ChangesIn(S)
        /\ status' = status
        /\ exception' \in [Payment -> [status: {"NONE", "OPEN", "RESOLVED"}, blocking: BOOLEAN]]
    BY <1>0, <1>2, ReversalMoves
  <2>3. PICK S \in SUBSET Period : LocksFree(S) /\ Moved(S) /\ ChangesIn(S)
    BY <2>2
  <2>4. SignedFits' /\ GatheredFits'
    BY <1>0, <2>2, <2>3, MonthsMoved
  <2>5. CloseTyped'
    <3>1. status' \in [Period -> {"OPEN", "IN_REVIEW", "CLOSED"}]
      BY <1>0, <2>2 DEF CloseTyped
    <3> QED BY <1>0, <2>2, <2>3, <3>1, MovedTyped
  <2> QED BY <2>1, <2>4, <2>5 DEF IInv
<1>3. CASE Background \/ \E p \in Payment : Conflict(p) \/ ResolveException(p) \/ ReopenException(p)
  BY <1>0, <1>3, ExceptionStepKeeps, RowsStay DEF IInv
<1>4. ASSUME NEW T \in Period, StartReview(T) \/ Reopen(T) \/ BeginClose(T) \/ Gather(T) PROVE IInv'
  <2>1. UNCHANGED money
    BY <1>4 DEF StartReview, Reopen, BeginClose, Gather
  <2>2. CloseTyped' /\ SignedFits' /\ GatheredFits'
    BY <1>0, <1>4, StartReviewKeeps, ReopenKeeps, BeginCloseKeeps, GatherKeeps
  <2> QED BY <1>0, <2>1, <2>2, RowsStay DEF IInv
<1>5. ASSUME NEW T \in Period, NEW acknowledged \in SUBSET AcknowledgementCode,
             Close(T, acknowledged) \/ RefuseClose(T, acknowledged)
      PROVE  IInv'
  <2>1. UNCHANGED money
    BY <1>5 DEF Close, RefuseClose
  <2>2. CloseTyped' /\ SignedFits' /\ GatheredFits'
    BY <1>0, <1>5, CloseKeeps, RefuseCloseKeeps
  <2> QED BY <1>0, <2>1, <2>2, RowsStay DEF IInv
<1> QED BY <1>1, <1>2, <1>3, <1>4, <1>5 DEF Next

(* While a snapshot stands its figures are those of the rows: the cash, the     *)
(* charges and the ledger, read by closes of any number of months at once while *)
(* money is posted in the others (close.service.ts).  The ledger and the        *)
(* charges differ by what was paid across the end of a month and by nothing     *)
(* else (close/readiness.ts, checkLedgerCrossCheck), and the dashboard, the     *)
(* cards and the lists show the checklist's figures, but for payments that go   *)
(* out, which the dashboard leaves out (dashboard.service.ts): what is received *)
(* differs by those that are kept, and unapplied cash by those taken back.      *)
THEOREM FiguresStand == FiguresAssumption => (Spec => []ReadyMeansReconciled)
<1> SUFFICES ASSUME FiguresAssumption PROVE Spec => []ReadyMeansReconciled
  OBVIOUS
<1>1. Init => IInv
  BY InitRows, InitClose DEF IInv
<1>2. IInv /\ [Next]_vars => IInv'
  BY StepKeeps, Stutter
<1>3. IInv => ReadyMeansReconciled
  <2>1. IInv => ClosedMonthsStand
    BY DEF IInv, SignedFits, Signed, ClosedMonthsStand, CashReviewed
  <2> QED BY <2>1, DifferenceIsPaidAcross, FiguresShown DEF IInv, ReadyMeansReconciled
<1> QED BY <1>1, <1>2, <1>3, PTL DEF Spec

----------------------------------------------------------------------------
(***************************************************************************)
(* Money: the parts of a split.  The parts are the quotients, truncated;   *)
(* what is short are as many cents as the remainders make whole weights,   *)
(* fewer than there are parts with a remainder, and they go to the parts   *)
(* of the largest ones.                                                    *)
(***************************************************************************)

(* Money counts and adds as this module does. *)
LEMMA SameMoney ==
  /\ \A X: Split!Cardinality(X) = Cardinality(X)
  /\ \A f: Split!Cents(f) = SumFunctionOnSet(f, DOMAIN f)
<1>1. ASSUME NEW X PROVE Split!Cardinality(X) = Cardinality(X)
  BY DEF Split!Cardinality, Cardinality
<1>2. ASSUME NEW f PROVE Split!Cents(f) = SumFunctionOnSet(f, DOMAIN f)
  BY DEF Split!Cents, Split!SumFunction, Split!SumFunctionOnSet, Split!FoldFunctionOnSet, Split!MapThenFoldSet,
         SumFunctionOnSet, FoldFunctionOnSet, MapThenFoldSet
<1> QED BY <1>1, <1>2

(* A split: an amount by weights of which one is not 0. *)
IsSplit(t, ws) == t \in Int /\ ws \in Seq(Nat) /\ Split!Cents(ws) > 0

(* The amount without its sign, and what a part of it is with the sign. *)
Size(t) == IF t < 0 THEN -t ELSE t
WithSign(t, n) == IF t < 0 THEN -n ELSE n

(* What a weight gets at first, and what is left of its share. *)
Quotient(t, ws, i) == (Size(t) * ws[i]) \div Split!Cents(ws)
Rest(t, ws, i) == (Size(t) * ws[i]) % Split!Cents(ws)
Quotients(t, ws) == [i \in DOMAIN ws |-> Quotient(t, ws, i)]
Rests(t, ws) == [i \in DOMAIN ws |-> Rest(t, ws, i)]

(* The cents that are short at first, and whose turn they are. *)
Short(t, ws) == Size(t) - Split!Cents(Quotients(t, ws))
Ahead(t, ws, j, i) == \/ Rest(t, ws, j) > Rest(t, ws, i)
                      \/ Rest(t, ws, j) = Rest(t, ws, i) /\ j <= i
Before(t, ws, i) == {j \in DOMAIN ws: Ahead(t, ws, j, i)}
Rank(t, ws, i) == Cardinality(Before(t, ws, i))

(* What a part is once so many cents are handed out. *)
PartAt(t, ws, n, i) ==
  WithSign(t, Quotient(t, ws, i) + (IF Rank(t, ws, i) <= n THEN 1 ELSE 0))

(* A split is of finitely many natural weights. *)
LEMMA SplitFits ==
  ASSUME NEW t, NEW ws, IsSplit(t, ws)
  PROVE  /\ Size(t) \in Nat
         /\ Split!Cents(ws) \in Nat \ {0} /\ Split!Cents(ws) = SumFunctionOnSet(ws, DOMAIN ws)
         /\ IsFiniteSet(DOMAIN ws) /\ DOMAIN ws = 1 .. Len(ws) /\ Len(ws) \in Nat
         /\ Cardinality(DOMAIN ws) = Len(ws)
         /\ \A i \in DOMAIN ws: ws[i] \in Nat
<1>1. t \in Int /\ ws \in Seq(Nat) /\ Split!Cents(ws) > 0
  BY DEF IsSplit
<1>2. /\ DOMAIN ws = 1 .. Len(ws) /\ Len(ws) \in Nat
      /\ \A i \in DOMAIN ws: ws[i] \in Nat
  <2>1. ws \in Seq(Nat)
    BY <1>1
  <2>2. DOMAIN ws = 1 .. Len(ws) /\ Len(ws) \in Nat
    BY <2>1
  <2>3. \A i \in 1 .. Len(ws): ws[i] \in Nat
    BY <2>1
  <2> QED BY <2>2, <2>3
<1>3. IsFiniteSet(DOMAIN ws) /\ Cardinality(DOMAIN ws) = Len(ws)
  <2>1. Len(ws) \in Int /\ Len(ws) >= 0
    BY <1>2
  <2>2. 1 \in Int /\ (1 > Len(ws) => Len(ws) = 0) /\ Len(ws) - 1 + 1 = Len(ws)
    BY <2>1
  <2>3. IsFiniteSet(1 .. Len(ws)) /\ Cardinality(1 .. Len(ws)) = IF 1 > Len(ws) THEN 0 ELSE Len(ws) - 1 + 1
    BY <2>1, <2>2, FS_Interval
  <2> QED BY <1>2, <2>2, <2>3
<1>4. Split!Cents(ws) = SumFunctionOnSet(ws, DOMAIN ws)
  BY SameMoney
<1>5. SumFunctionOnSet(ws, DOMAIN ws) \in Nat
  BY <1>2, <1>3, SumNat
<1> QED BY <1>1, <1>2, <1>3, <1>4, <1>5 DEF Size

(* A split has a weight. *)
LEMMA SplitNotEmpty == ASSUME NEW t, NEW ws, IsSplit(t, ws) PROVE DOMAIN ws # {}
<1>1. SUFFICES ASSUME DOMAIN ws = {} PROVE FALSE
  OBVIOUS
<1>2. Split!Cents(ws) = 0
  BY <1>1, SameMoney, SumEmpty
<1> QED BY <1>2, SplitFits

(* A share is its quotient of whole weights and a rest below one. *)
LEMMA ShareParts ==
  ASSUME NEW t, NEW ws, IsSplit(t, ws), NEW i \in DOMAIN ws
  PROVE  /\ Size(t) * ws[i] \in Nat
         /\ Quotient(t, ws, i) \in Nat
         /\ Rest(t, ws, i) \in Nat
         /\ Rest(t, ws, i) < Split!Cents(ws)
         /\ Size(t) * ws[i] = Split!Cents(ws) * Quotient(t, ws, i) + Rest(t, ws, i)
<1>1. Size(t) \in Nat /\ Split!Cents(ws) \in Nat \ {0} /\ ws[i] \in Nat
  BY SplitFits
<1>2. Size(t) * ws[i] \in Nat
  BY <1>1
<1> QED BY <1>1, <1>2, DivisionFacts DEF Quotient, Rest

(* The code's base of a part is its quotient with the sign of the amount,  *)
(* and its remainder is the rest.                                          *)
LEMMA BaseIs ==
  ASSUME IsSplit(total, weights), NEW i \in DOMAIN weights
  PROVE  /\ Split!Base(weights[i]) = WithSign(total, Quotient(total, weights, i))
         /\ Split!Remainder(i) = Rest(total, weights, i)
<1> DEFINE w == weights[i]
           W == Split!Cents(weights)
           p == total * w
           s == Size(total) * w
           q == Quotient(total, weights, i)
           r == Rest(total, weights, i)
<1>1. /\ total \in Int /\ w \in Nat /\ W \in Nat \ {0} /\ Size(total) \in Nat
      /\ s \in Nat /\ q \in Nat /\ r \in Nat /\ r < W /\ s = W * q + r
  BY SplitFits, ShareParts DEF IsSplit
<1>2. p \in Int /\ p = WithSign(total, s)
  <2>1. (-total) * w = -(total * w)
    BY <1>1
  <2> QED BY <1>1, <2>1 DEF WithSign, Size
<1>3. q = s \div W /\ r = s % W
  BY DEF Quotient, Rest
<1> HIDE DEF w, W, p, s, q, r
<1>4. Split!abs(p) = s /\ Split!abs(W) = W /\ ~ (W < 0)
  BY <1>1, <1>2 DEF Split!abs, WithSign
<1>5. Split!divideRounded(p, W, "DOWN") = IF p < 0 THEN -q ELSE q
  <2>1. ((p < 0) # (W < 0)) = (p < 0)
    BY <1>4
  <2>2. \A neg: Split!Away(q, 2 * r, W, neg, "DOWN") = FALSE
    BY DEF Split!Away
  <2> QED BY <1>3, <1>4, <2>1, <2>2 DEF Split!divideRounded
<1>6. (IF p < 0 THEN -q ELSE q) = WithSign(total, q)
  <2>1. CASE s = 0
    <3>1. q = 0
      <4>1. W * q = 0
        BY <1>1, <2>1
      <4> QED BY <1>1, <4>1
    <3> QED BY <3>1 DEF WithSign
  <2>2. CASE s # 0
    BY <1>1, <1>2, <2>2 DEF WithSign
  <2> QED BY <2>1, <2>2
<1>7. Split!Base(w) = WithSign(total, q)
  BY <1>5, <1>6 DEF Split!Base, p, W
<1>8. Split!Remainder(i) = Split!abs(p - WithSign(total, q) * W)
  BY <1>7 DEF Split!Remainder, p, w, W
<1>9. p - WithSign(total, q) * W = WithSign(total, r)
  <2>1. q * W = W * q /\ (-q) * W = -(W * q) /\ W * q \in Nat
    BY <1>1
  <2> QED BY <1>1, <1>2, <2>1 DEF WithSign
<1>10. Split!abs(WithSign(total, r)) = r
  BY <1>1 DEF Split!abs, WithSign
<1> QED BY <1>7, <1>8, <1>9, <1>10 DEF w, q, r

(* What is short is a whole number of weights in the rests.                *)
LEMMA RestsAddUp ==
  ASSUME NEW t, NEW ws, IsSplit(t, ws)
  PROVE  /\ Split!Cents(Quotients(t, ws)) \in Nat
         /\ Split!Cents(Quotients(t, ws)) = SumFunctionOnSet(Quotients(t, ws), DOMAIN ws)
         /\ Short(t, ws) \in Int
         /\ Split!Cents(ws) * Short(t, ws) = SumFunctionOnSet(Rests(t, ws), DOMAIN ws)
<1> DEFINE D == DOMAIN ws
           W == Split!Cents(ws)
           a == Size(t)
           share == [i \in D |-> a * ws[i]]
           whole == [i \in D |-> W * Quotient(t, ws, i)]
           quo == Quotients(t, ws)
           rest == Rests(t, ws)
<1>1. /\ a \in Nat /\ W \in Nat \ {0} /\ IsFiniteSet(D) /\ W = SumFunctionOnSet(ws, D)
      /\ \A i \in D: ws[i] \in Nat
  BY SplitFits
<1>2. \A i \in D: /\ share[i] \in Int /\ share[i] = a * ws[i]
                  /\ quo[i] \in Nat /\ whole[i] = W * quo[i] /\ whole[i] \in Int
                  /\ rest[i] \in Nat /\ rest[i] = share[i] - whole[i]
  <2>1. SUFFICES ASSUME NEW i \in D
                 PROVE /\ share[i] \in Int /\ share[i] = a * ws[i]
                       /\ quo[i] \in Nat /\ whole[i] = W * quo[i] /\ whole[i] \in Int
                       /\ rest[i] \in Nat /\ rest[i] = share[i] - whole[i]
    OBVIOUS
  <2>2. /\ share[i] = a * ws[i] /\ whole[i] = W * Quotient(t, ws, i)
        /\ quo[i] = Quotient(t, ws, i) /\ rest[i] = Rest(t, ws, i)
    BY DEF Quotients, Rests
  <2>3. /\ a * ws[i] \in Nat /\ Quotient(t, ws, i) \in Nat /\ Rest(t, ws, i) \in Nat
        /\ a * ws[i] = W * Quotient(t, ws, i) + Rest(t, ws, i)
    BY ShareParts
  <2>4. W * Quotient(t, ws, i) \in Int
    BY <1>1, <2>3
  <2> HIDE DEF share, whole, quo, rest, W, a
  <2> QED BY <2>2, <2>3, <2>4
<1>3. DOMAIN quo = D
  BY DEF Quotients
<1>4. Split!Cents(quo) = SumFunctionOnSet(quo, D)
  BY <1>3, SameMoney
<1> HIDE DEF D, W, a, share, whole, quo, rest
<1>5. SumFunctionOnSet(quo, D) \in Nat
  BY <1>1, <1>2, SumNat
<1>6. SumFunctionOnSet(share, D) = a * W
  <2>1. a \in Int /\ \A i \in D: ws[i] \in Int /\ share[i] = a * ws[i]
    BY <1>1, <1>2
  <2>2. SumFunctionOnSet(share, D) = a * SumFunctionOnSet(ws, D)
    BY <1>1, <2>1, SumTimes
  <2> QED BY <1>1, <2>2
<1>7. SumFunctionOnSet(whole, D) = W * SumFunctionOnSet(quo, D)
  <2>1. W \in Int /\ \A i \in D: quo[i] \in Int /\ whole[i] = W * quo[i]
    BY <1>1, <1>2
  <2> QED BY <1>1, <2>1, SumTimes
<1>8. SumFunctionOnSet(rest, D) = SumFunctionOnSet(share, D) - SumFunctionOnSet(whole, D)
  BY <1>1, <1>2, SumMinus
<1>9. Short(t, ws) = a - SumFunctionOnSet(quo, D)
  BY <1>4 DEF Short, a, quo
<1>10. W * (a - SumFunctionOnSet(quo, D)) = a * W - W * SumFunctionOnSet(quo, D)
  BY <1>1, <1>5
<1>11. /\ Short(t, ws) \in Int
       /\ W * Short(t, ws) = SumFunctionOnSet(rest, D)
  BY <1>1, <1>5, <1>6, <1>7, <1>8, <1>9, <1>10
<1> QED BY <1>4, <1>5, <1>11 DEF D, W, quo, rest

(* The parts with a rest. *)
WithRest(t, ws) == {i \in DOMAIN ws: Rest(t, ws, i) > 0}

(* Fewer cents are short than there are parts with a rest, or none.        *)
LEMMA FewAreShort ==
  ASSUME NEW t, NEW ws, IsSplit(t, ws)
  PROVE  /\ Short(t, ws) \in Nat
         /\ IsFiniteSet(WithRest(t, ws)) /\ Cardinality(WithRest(t, ws)) \in Nat
         /\ Cardinality(WithRest(t, ws)) <= Len(ws)
         /\ Short(t, ws) = 0 \/ Short(t, ws) < Cardinality(WithRest(t, ws))
<1> DEFINE D == DOMAIN ws
           W == Split!Cents(ws)
           P == WithRest(t, ws)
           n == Cardinality(P)
           rest == Rests(t, ws)
           one == [i \in D |-> 1]
           bound == [i \in D |-> IF i \in P THEN W - 1 ELSE 0]
           most == [i \in D |-> (W - 1) * one[i]]
           short == Short(t, ws)
<1>1. /\ W \in Nat \ {0} /\ IsFiniteSet(D) /\ Cardinality(D) = Len(ws)
  BY SplitFits
<1>2. \A i \in D: /\ rest[i] \in Nat /\ rest[i] <= bound[i] /\ bound[i] \in Nat
                  /\ (i \in P => bound[i] = most[i]) /\ (i \notin P => bound[i] = 0)
  <2>1. SUFFICES ASSUME NEW i \in D
                 PROVE /\ rest[i] \in Nat /\ rest[i] <= bound[i] /\ bound[i] \in Nat
                       /\ (i \in P => bound[i] = most[i]) /\ (i \notin P => bound[i] = 0)
    OBVIOUS
  <2>2. /\ bound[i] = IF i \in P THEN W - 1 ELSE 0
        /\ most[i] = (W - 1) * 1 /\ rest[i] = Rest(t, ws, i)
        /\ i \in P <=> Rest(t, ws, i) > 0
    BY DEF Rests, WithRest
  <2>3. Rest(t, ws, i) \in Nat /\ Rest(t, ws, i) < W
    BY ShareParts
  <2> HIDE DEF bound, most, rest, W, P
  <2> QED BY <1>1, <2>2, <2>3
<1>3. P \in SUBSET D
  BY DEF WithRest
<1>4. \A i \in P: one[i] = 1 /\ one[i] \in Int /\ most[i] = (W - 1) * one[i]
  BY <1>3
<1>5. W * short = SumFunctionOnSet(rest, D) /\ short \in Int
  BY RestsAddUp
<1> HIDE DEF D, W, P, rest, one, bound, most, short
<1>6. IsFiniteSet(P) /\ n \in Nat /\ n <= Len(ws)
  <2>1. IsFiniteSet(P) /\ Cardinality(P) <= Cardinality(D)
    BY <1>1, <1>3, FS_Subset
  <2> QED BY <1>1, <2>1, FS_CardinalityType
<1>7. SumFunctionOnSet(rest, D) <= SumFunctionOnSet(bound, D)
  BY <1>1, <1>2, SumBelow
<1>8. SumFunctionOnSet(bound, P) = SumFunctionOnSet(bound, D)
  BY <1>1, <1>2, <1>3, SumSupport
<1>9. SumFunctionOnSet(bound, P) = SumFunctionOnSet(most, P)
  <2>1. \A i \in P: bound[i] = most[i]
    BY <1>2, <1>3
  <2> QED BY <1>6, <2>1, SumSame
<1>10. SumFunctionOnSet(most, P) = (W - 1) * n
  <2>1. W - 1 \in Int
    BY <1>1
  <2>2. SumFunctionOnSet(most, P) = (W - 1) * SumFunctionOnSet(one, P)
    BY <1>4, <1>6, <2>1, SumTimes
  <2>3. SumFunctionOnSet(one, P) = n
    BY <1>4, <1>6, SumOnes
  <2> QED BY <2>2, <2>3
<1>11. SumFunctionOnSet(rest, D) \in Nat
  BY <1>1, <1>2, SumNat
<1>12. W * short <= (W - 1) * n /\ W * short >= 0
  BY <1>5, <1>7, <1>8, <1>9, <1>10, <1>11
<1> HIDE DEF n
<1>13. short \in Nat
  <2>1. CASE short < 0
    <3>1. W * short < W * 0
      BY <1>1, <1>5, <2>1
    <3>2. W * 0 = 0 /\ W * short \in Int
      BY <1>1, <1>5
    <3> QED BY <1>12, <3>1, <3>2
  <2> QED BY <1>5, <2>1
<1>14. short = 0 \/ short < n
  <2>1. SUFFICES ASSUME short >= n, short > 0 PROVE FALSE
    BY <1>6, <1>13
  <2>2. (W - 1) * n <= (W - 1) * short
    BY <1>1, <1>6, <1>13, <2>1
  <2>3. (W - 1) * short = W * short - short
    BY <1>1, <1>13
  <2>4. W * short \in Int /\ (W - 1) * n \in Int
    BY <1>1, <1>6, <1>13
  <2> QED BY <1>12, <1>13, <2>1, <2>2, <2>3, <2>4
<1> QED BY <1>6, <1>13, <1>14 DEF P, n, short

(* Fewer cents are short than there are weights, or none. *)
LEMMA FewerThanWeights ==
  ASSUME NEW t, NEW ws, IsSplit(t, ws)
  PROVE  /\ Short(t, ws) \in Nat
         /\ Short(t, ws) = 0 \/ Short(t, ws) < Len(ws)
<1>1. Len(ws) \in Nat
  BY SplitFits
<1> QED BY <1>1, FewAreShort

(* Whose turn it is: every part has a turn of its own, and every turn a    *)
(* part.                                                                   *)
LEMMA RanksFit ==
  ASSUME NEW t, NEW ws, IsSplit(t, ws)
  PROVE  /\ \A i \in DOMAIN ws: Rank(t, ws, i) \in 1 .. Len(ws)
         /\ \A i, j \in DOMAIN ws: Rank(t, ws, i) = Rank(t, ws, j) => i = j
         /\ \A n \in 1 .. Len(ws): \E i \in DOMAIN ws: Rank(t, ws, i) = n
<1> DEFINE D == DOMAIN ws
           rank == [i \in D |-> Rank(t, ws, i)]
<1>1. IsFiniteSet(D) /\ D = 1 .. Len(ws) /\ Len(ws) \in Nat /\ Cardinality(D) = Len(ws)
  BY SplitFits
<1>2. \A i \in D: Rest(t, ws, i) \in Nat
  BY ShareParts
<1>3. \A i \in D: /\ Before(t, ws, i) \in SUBSET D /\ i \in Before(t, ws, i)
                  /\ IsFiniteSet(Before(t, ws, i)) /\ Rank(t, ws, i) \in 1 .. Len(ws)
  <2>1. SUFFICES ASSUME NEW i \in D
                 PROVE /\ Before(t, ws, i) \in SUBSET D /\ i \in Before(t, ws, i)
                       /\ IsFiniteSet(Before(t, ws, i)) /\ Rank(t, ws, i) \in 1 .. Len(ws)
    OBVIOUS
  <2>2. Before(t, ws, i) \in SUBSET D
    BY DEF Before
  <2>3. i \in Before(t, ws, i)
    BY <1>1, <1>2 DEF Before, Ahead
  <2>4. IsFiniteSet(Before(t, ws, i)) /\ Cardinality(Before(t, ws, i)) <= Len(ws)
    BY <1>1, <2>2, FS_Subset
  <2>5. Cardinality(Before(t, ws, i)) \in Nat
    BY <2>4, FS_CardinalityType
  <2>6. Cardinality(Before(t, ws, i)) # 0
    BY <2>3, <2>4, FS_EmptySet
  <2> QED BY <1>1, <2>2, <2>3, <2>4, <2>5, <2>6 DEF Rank
<1>4. ASSUME NEW i \in D, NEW j \in D, i # j, Ahead(t, ws, i, j)
      PROVE  Rank(t, ws, i) # Rank(t, ws, j)
  <2>1. ~ Ahead(t, ws, j, i)
    BY <1>1, <1>2, <1>4 DEF Ahead
  <2>2. \A k \in D: Ahead(t, ws, k, i) => Ahead(t, ws, k, j)
    BY <1>1, <1>2, <1>4 DEF Ahead
  <2>3. /\ Before(t, ws, i) \in SUBSET Before(t, ws, j)
        /\ j \in Before(t, ws, j) /\ j \notin Before(t, ws, i)
    BY <1>3, <2>1, <2>2 DEF Before
  <2>4. Cardinality(Before(t, ws, j)) # Cardinality(Before(t, ws, i))
    BY <1>3, <2>3, FS_Subset
  <2> QED BY <2>4 DEF Rank
<1>5. \A i, j \in D: Rank(t, ws, i) = Rank(t, ws, j) => i = j
  <2>1. SUFFICES ASSUME NEW i \in D, NEW j \in D, i # j
                 PROVE Rank(t, ws, i) # Rank(t, ws, j)
    OBVIOUS
  <2>2. Ahead(t, ws, i, j) \/ Ahead(t, ws, j, i)
    BY <1>1, <1>2 DEF Ahead
  <2>3. CASE Ahead(t, ws, i, j)
    BY <1>4, <2>1, <2>3
  <2>4. CASE Ahead(t, ws, j, i)
    BY <1>4, <2>1, <2>4
  <2> QED BY <2>2, <2>3, <2>4
<1>6. rank \in Injection(D, 1 .. Len(ws))
  <2>1. rank \in [D -> 1 .. Len(ws)]
    BY <1>3
  <2>2. \A i, j \in D: rank[i] = rank[j] => i = j
    BY <1>5
  <2> QED BY <2>1, <2>2 DEF Injection, IsInjective
<1>7. rank \in Surjection(D, 1 .. Len(ws))
  BY <1>1, <1>6, FS_Injection
<1>8. \A n \in 1 .. Len(ws): \E i \in D: Rank(t, ws, i) = n
  <2>1. \A n \in 1 .. Len(ws): \E i \in D: rank[i] = n
    BY <1>7 DEF Surjection
  <2> QED BY <2>1
<1> QED BY <1>3, <1>5, <1>8

(* Only a part with a rest gets one of the cents that are short.           *)
LEMMA ServedHaveRest ==
  ASSUME NEW t, NEW ws, IsSplit(t, ws), NEW i \in DOMAIN ws, Rank(t, ws, i) <= Short(t, ws)
  PROVE  Rest(t, ws, i) > 0
<1> DEFINE P == WithRest(t, ws)
<1>1. SUFFICES ASSUME Rest(t, ws, i) = 0 PROVE FALSE
  BY ShareParts
<1>2. /\ IsFiniteSet(DOMAIN ws) /\ \A j \in DOMAIN ws: Rest(t, ws, j) \in Nat
      /\ DOMAIN ws = 1 .. Len(ws) /\ Len(ws) \in Nat
  BY SplitFits, ShareParts
<1>3. P \cup {i} \in SUBSET Before(t, ws, i) /\ i \notin P
  <2>1. \A j \in P: Ahead(t, ws, j, i)
    BY <1>1, <1>2 DEF Ahead, WithRest
  <2>2. Ahead(t, ws, i, i)
    BY <1>2 DEF Ahead
  <2>3. P \in SUBSET DOMAIN ws /\ i \notin P
    BY <1>1 DEF WithRest
  <2> HIDE DEF P
  <2> QED BY <2>1, <2>2, <2>3 DEF Before
<1>4. IsFiniteSet(Before(t, ws, i))
  BY <1>2, FS_Subset DEF Before
<1>5. IsFiniteSet(P) /\ Cardinality(P) \in Nat /\ Short(t, ws) \in Nat
      /\ (Short(t, ws) = 0 \/ Short(t, ws) < Cardinality(P))
  BY FewAreShort
<1>6. Cardinality(P \cup {i}) = Cardinality(P) + 1
  BY <1>3, <1>5, FS_AddElement
<1>7. Cardinality(P \cup {i}) <= Cardinality(Before(t, ws, i))
  BY <1>3, <1>4, FS_Subset
<1>8. Cardinality(Before(t, ws, i)) \in Nat
  BY <1>4, FS_CardinalityType
<1> QED BY <1>5, <1>6, <1>7, <1>8 DEF Rank

(* What a split under way keeps: the cents handed out are those of the     *)
(* first turns, the rest of what was short is left over.                   *)
MoneyInv ==
  /\ weights # <<>> => IsSplit(total, weights)
  /\ parts = <<>> => leftover = 0 /\ turn = 0
  /\ parts # <<>> =>
       /\ weights # <<>>
       /\ turn \in Nat /\ turn <= Short(total, weights)
       /\ leftover = WithSign(total, Short(total, weights) - turn)
       /\ parts = [i \in DOMAIN weights |-> PartAt(total, weights, turn, i)]
       /\ Split!Cents(parts) + leftover = total

(* A part is a number of cents. *)
LEMMA PartsAreCents ==
  ASSUME NEW t, NEW ws, IsSplit(t, ws), NEW n \in Nat, NEW i \in DOMAIN ws
  PROVE  PartAt(t, ws, n, i) \in Int
<1>1. Quotient(t, ws, i) \in Nat
  BY ShareParts
<1> QED BY <1>1 DEF PartAt, WithSign

(* Truncating leaves the cents that are short, with the amount's sign. *)
LEMMA TruncateKeeps == MoneyInv /\ Split!Truncate => MoneyInv'
<1>1. SUFFICES ASSUME MoneyInv, Split!Truncate PROVE MoneyInv'
  OBVIOUS
<1> DEFINE D == DOMAIN weights
           quo == Quotients(total, weights)
           short == Short(total, weights)
<1>2. /\ IsSplit(total, weights) /\ weights # <<>> /\ turn = 0
      /\ parts' = [i \in D |-> Split!Base(weights[i])]
      /\ leftover' = total - Split!Cents(parts')
      /\ UNCHANGED <<total, weights, turn>>
  BY <1>1 DEF MoneyInv, Split!Truncate
<1>3. IsFiniteSet(D) /\ total \in Int /\ short \in Nat
  BY <1>2, SplitFits, FewAreShort DEF IsSplit
<1>4. \A i \in D: /\ quo[i] \in Nat /\ Quotient(total, weights, i) = quo[i]
                  /\ Rank(total, weights, i) \in 1 .. Len(weights)
                  /\ parts'[i] = WithSign(total, quo[i])
  BY <1>2, ShareParts, RanksFit, BaseIs DEF Quotients
<1>5. \A i \in D: PartAt(total, weights, 0, i) = WithSign(total, quo[i])
  BY <1>4 DEF PartAt
<1>6. parts' = [i \in D |-> PartAt(total, weights, 0, i)]
  <2>1. \A i \in D: Split!Base(weights[i]) = PartAt(total, weights, 0, i)
    BY <1>2, <1>4, <1>5
  <2> QED BY <1>2, <2>1
<1>7. DOMAIN parts' = D
  BY <1>2
<1> DEFINE sum == SumFunctionOnSet(quo, D)
<1>8. /\ sum \in Nat /\ short = Size(total) - sum
  <2>1. sum \in Nat /\ Split!Cents(quo) = sum
    BY <1>2, RestsAddUp
  <2> QED BY <2>1 DEF Short
<1>9. Split!Cents(parts') = WithSign(total, sum)
  <2>1. Split!Cents(parts') = SumFunctionOnSet(parts', D)
    BY <1>7, SameMoney
  <2> HIDE DEF D, quo
  <2>2. CASE total < 0
    <3>1. \A i \in D: quo[i] \in Int /\ parts'[i] = (-1) * quo[i]
      BY <1>4, <2>2 DEF WithSign
    <3>2. -1 \in Int
      OBVIOUS
    <3>3. SumFunctionOnSet(parts', D) = (-1) * sum
      BY <1>3, <3>1, <3>2, SumTimes
    <3> QED BY <1>8, <2>1, <2>2, <3>3 DEF WithSign
  <2>3. CASE ~ (total < 0)
    <3>1. \A i \in D: parts'[i] = quo[i]
      BY <1>4, <2>3 DEF WithSign
    <3>2. SumFunctionOnSet(parts', D) = sum
      BY <1>3, <3>1, SumSame
    <3> QED BY <2>1, <2>3, <3>2 DEF WithSign
  <2> QED BY <2>2, <2>3
<1> HIDE DEF sum, short
<1>10. leftover' = WithSign(total, short - 0) /\ Split!Cents(parts') + leftover' = total
  BY <1>2, <1>3, <1>8, <1>9 DEF WithSign, Size
<1> HIDE DEF D, quo
<1>11. parts' # <<>>
  <2>1. D # {}
    BY <1>2, SplitNotEmpty DEF D
  <2> QED BY <1>7, <2>1
<1> QED BY <1>2, <1>3, <1>6, <1>10, <1>11 DEF MoneyInv, D, short

(* The part served is the one whose turn it is. *)
LEMMA ServedIs ==
  ASSUME IsSplit(total, weights), NEW n \in 1 .. Len(weights)
  PROVE  /\ Split!Served(n) \in DOMAIN weights
         /\ Rank(total, weights, Split!Served(n)) = n
<1>1. \A i \in DOMAIN weights:
        {j \in DOMAIN weights: Split!ServedBefore(j, i)} = Before(total, weights, i)
  BY BaseIs DEF Split!ServedBefore, Before, Ahead
<1>2. \A i \in DOMAIN weights:
        Split!Cardinality({j \in DOMAIN weights: Split!ServedBefore(j, i)}) = Rank(total, weights, i)
  BY <1>1, SameMoney DEF Rank
<1>3. \E i \in DOMAIN weights: Rank(total, weights, i) = n
  BY RanksFit
<1> QED BY <1>2, <1>3 DEF Split!Served

(* A cent handed out goes to the part whose turn it is. *)
LEMMA HandOutKeeps == MoneyInv /\ Split!HandOut => MoneyInv'
<1>1. SUFFICES ASSUME MoneyInv, Split!HandOut PROVE MoneyInv'
  OBVIOUS
<1> DEFINE D == DOMAIN weights
           short == Short(total, weights)
           part(n) == [i \in D |-> PartAt(total, weights, n, i)]
           k == Split!Served((turn % Len(weights)) + 1)
<1>2. /\ IsSplit(total, weights) /\ weights # <<>> /\ parts # <<>>
      /\ turn \in Nat /\ turn <= short /\ leftover = WithSign(total, short - turn)
      /\ parts = part(turn) /\ Split!Cents(parts) + leftover = total
      /\ leftover # 0 /\ parts' = [parts EXCEPT ![k] = @ + Split!Step]
      /\ leftover' = leftover - Split!Step /\ turn' = turn + 1
      /\ UNCHANGED <<total, weights>>
  BY <1>1 DEF MoneyInv, Split!HandOut
<1>3. /\ IsFiniteSet(D) /\ total \in Int /\ short \in Nat /\ Len(weights) \in Nat
      /\ short = 0 \/ short < Len(weights)
  <2>1. IsFiniteSet(D) /\ total \in Int /\ Len(weights) \in Nat
    BY <1>2, SplitFits DEF IsSplit
  <2> QED BY <1>2, <2>1, FewerThanWeights
<1> HIDE DEF short
<1>4. turn < short /\ turn < Len(weights) /\ Split!Step = WithSign(total, 1) /\ Split!Step \in Int
  BY <1>2, <1>3 DEF WithSign, Split!Step
<1>5. turn % Len(weights) = turn /\ turn + 1 \in 1 .. Len(weights)
  <2>1. \A m, d \in Nat: m < d => m % d = m
    BY SMT
  <2> QED BY <1>2, <1>3, <1>4, <2>1
<1>6. k \in D /\ Rank(total, weights, k) = turn + 1
  <2>1. k = Split!Served(turn + 1)
    BY <1>5
  <2> QED BY <1>2, <1>5, <2>1, ServedIs
<1> HIDE DEF k
<1>7. \A i \in D: /\ Quotient(total, weights, i) \in Nat
                  /\ Rank(total, weights, i) \in Nat
                  /\ i # k => Rank(total, weights, i) # turn + 1
  BY <1>2, <1>6, ShareParts, RanksFit
<1>8. /\ part(turn + 1)[k] = part(turn)[k] + Split!Step
      /\ \A i \in D: i # k => part(turn + 1)[i] = part(turn)[i]
      /\ \A i \in D: part(turn)[i] \in Int
  <2>1. PartAt(total, weights, turn + 1, k) = PartAt(total, weights, turn, k) + Split!Step
    BY <1>2, <1>3, <1>4, <1>6, <1>7 DEF PartAt, WithSign
  <2>2. \A i \in D: i # k => PartAt(total, weights, turn + 1, i) = PartAt(total, weights, turn, i)
    BY <1>2, <1>7 DEF PartAt
  <2>3. \A i \in D: PartAt(total, weights, turn, i) \in Int
    BY <1>2, PartsAreCents
  <2> HIDE DEF D
  <2> QED BY <1>6, <2>1, <2>2, <2>3
<1>9. parts' = part(turn + 1)
  <2>1. parts' = [i \in D |-> IF i = k THEN parts[k] + Split!Step ELSE parts[i]]
    BY <1>2, <1>6
  <2>2. \A i \in D: (IF i = k THEN parts[k] + Split!Step ELSE parts[i])
                       = PartAt(total, weights, turn + 1, i)
    BY <1>2, <1>6, <1>8
  <2> HIDE DEF D
  <2> QED BY <2>1, <2>2
<1>10. Split!Cents(parts') = Split!Cents(parts) + Split!Step
  <2>1. DOMAIN parts' = D /\ DOMAIN parts = D
    BY <1>2, <1>9
  <2>2. /\ Split!Cents(parts') = SumFunctionOnSet(parts', D)
        /\ Split!Cents(parts) = SumFunctionOnSet(parts, D)
    BY <2>1, SameMoney
  <2>3. /\ \A i \in D: parts[i] \in Int
        /\ parts'[k] = parts[k] + Split!Step /\ parts'[k] \in Int
        /\ \A i \in D \ {k}: parts'[i] = parts[i]
    BY <1>2, <1>4, <1>6, <1>8, <1>9
  <2>4. SumFunctionOnSet(parts', D) = SumFunctionOnSet(parts, D) - parts[k] + parts'[k]
    BY <1>3, <1>6, <2>3, SumChange
  <2>5. SumFunctionOnSet(parts, D) \in Int
    BY <1>3, <2>3, SumInt
  <2> HIDE DEF D
  <2> QED BY <1>4, <1>6, <2>2, <2>3, <2>4, <2>5
<1>11. Split!Cents(parts) \in Int
  <2>1. DOMAIN parts = D /\ \A i \in D: parts[i] \in Int
    BY <1>2, <1>8
  <2> QED BY <1>3, <2>1, SumInt, SameMoney
<1>12. /\ leftover' = WithSign(total, short - (turn + 1))
       /\ Split!Cents(parts') + leftover' = total
       /\ turn + 1 \in Nat /\ turn + 1 <= short
  BY <1>2, <1>3, <1>4, <1>10, <1>11 DEF WithSign
<1>13. parts' # <<>>
  BY <1>6, <1>9
<1> QED BY <1>2, <1>9, <1>12, <1>13 DEF MoneyInv, short

(* A split adds up at every step, and ends with every part less than a     *)
(* cent from its share.                                                    *)
LEMMA PartsFollow == MoneyInv => Split!PartsAddUp
<1>1. SUFFICES ASSUME MoneyInv, parts # <<>>
               PROVE /\ Split!Cents(parts) + leftover = total
                     /\ turn < Len(weights)
                     /\ leftover = 0 => \A i \in DOMAIN weights:
                          Split!abs(parts[i] * Split!Cents(weights) - total * weights[i]) < Split!Cents(weights)
  BY DEF Split!PartsAddUp
<1> DEFINE short == Short(total, weights)
           W == Split!Cents(weights)
<1>2. /\ IsSplit(total, weights)
      /\ turn \in Nat /\ turn <= short /\ leftover = WithSign(total, short - turn)
      /\ \A i \in DOMAIN weights: parts[i] = PartAt(total, weights, turn, i)
      /\ Split!Cents(parts) + leftover = total
  BY <1>1 DEF MoneyInv
<1>3. /\ total \in Int /\ short \in Nat /\ Len(weights) \in Nat /\ Len(weights) > 0
      /\ short = 0 \/ short < Len(weights)
      /\ W \in Nat \ {0}
  <2>1. Len(weights) # 0
    BY <1>2, SplitNotEmpty, SplitFits
  <2>2. total \in Int /\ Len(weights) \in Nat /\ W \in Nat \ {0}
    BY <1>2, SplitFits DEF IsSplit
  <2> HIDE DEF W
  <2> QED BY <1>2, <2>1, <2>2, FewerThanWeights
<1>4. turn < Len(weights)
  <2> HIDE DEF short
  <2> QED BY <1>2, <1>3
<1>5. ASSUME leftover = 0, NEW i \in DOMAIN weights
      PROVE  Split!abs(parts[i] * W - total * weights[i]) < W
  <2> DEFINE q == Quotient(total, weights, i)
             r == Rest(total, weights, i)
             s == Size(total) * weights[i]
             b == IF Rank(total, weights, i) <= turn THEN 1 ELSE 0
  <2>1. /\ q \in Nat /\ r \in Nat /\ r < W /\ s = W * q + r /\ weights[i] \in Nat /\ s \in Nat
    BY <1>2, ShareParts, SplitFits
  <2>2. turn = short
    <3> HIDE DEF short
    <3> QED BY <1>2, <1>3, <1>5 DEF WithSign
  <2>3. b = 1 => r > 0
    BY <1>2, <2>2, ServedHaveRest
  <2>4. parts[i] = WithSign(total, q + b)
    BY <1>2 DEF PartAt
  <2>5. total * weights[i] = WithSign(total, s)
    <3>1. (-total) * weights[i] = -(total * weights[i])
      BY <1>3, <2>1
    <3> QED BY <1>3, <2>1, <3>1 DEF WithSign, Size
  <2>6. b \in {0, 1}
    OBVIOUS
  <2> HIDE DEF q, r, s, b, W
  <2>7. (q + b) * W = W * q + (IF b = 1 THEN W ELSE 0) /\ W * q \in Nat
    <3>1. (q + 0) * W = W * q /\ (q + 1) * W = W * q + W /\ W * q \in Nat
      BY <1>3, <2>1
    <3> QED BY <2>6, <3>1
  <2>8. parts[i] * W = WithSign(total, (q + b) * W)
    <3>1. (-(q + b)) * W = -((q + b) * W)
      BY <1>3, <2>1, <2>6
    <3> QED BY <2>4, <3>1 DEF WithSign
  <2>9. parts[i] * W - total * weights[i] = WithSign(total, (IF b = 1 THEN W ELSE 0) - r)
    <3> DEFINE x == (q + b) * W
               y == total * weights[i]
               z == parts[i] * W
               c == W * q
    <3>1. /\ x = c + (IF b = 1 THEN W ELSE 0) /\ c \in Nat /\ z = WithSign(total, x)
          /\ y = WithSign(total, s) /\ s = c + r /\ r \in Nat /\ W \in Nat
      BY <1>3, <2>1, <2>5, <2>7, <2>8
    <3> HIDE DEF x, y, z, c
    <3>2. z - y = WithSign(total, (IF b = 1 THEN W ELSE 0) - r)
      BY <2>6, <3>1 DEF WithSign
    <3> QED BY <3>2 DEF y, z
  <2> QED BY <1>3, <2>1, <2>3, <2>6, <2>9 DEF WithSign, Split!abs
<1> QED BY <1>2, <1>4, <1>5

(* Every step keeps the invariant. *)
LEMMA NextMoneyInv == MoneyInv /\ [Split!Next]_Split!vars => MoneyInv'
<1>1. SUFFICES ASSUME MoneyInv, [Split!Next]_Split!vars PROVE MoneyInv'
  OBVIOUS
<1>2. CASE Split!Truncate
  BY <1>1, <1>2, TruncateKeeps
<1>3. CASE Split!HandOut
  BY <1>1, <1>3, HandOutKeeps
<1>4. CASE Split!Read
  BY <1>1, <1>4 DEF MoneyInv, Split!Read
<1>5. CASE UNCHANGED Split!vars
  BY <1>1, <1>5 DEF MoneyInv, Split!vars
<1> QED BY <1>1, <1>2, <1>3, <1>4, <1>5 DEF Split!Next

(* A call starts with nothing handed out. *)
LEMMA InitMoneyInv == Split!MoneyAssumption /\ Split!Init => MoneyInv
BY DEF Split!MoneyAssumption, Split!Init, MoneyInv, IsSplit

(* No cent is lost or made by a split, whatever the amount and its weights *)
(* are: the parts and what is left over are the amount at every step, the  *)
(* loop never goes round, and a part ends less than a cent from its exact  *)
(* share (allocateProportionally).                                         *)
THEOREM SplitsAddUp == Split!MoneyAssumption => (Split!Spec => []Split!PartsAddUp)
<1>1. Split!MoneyAssumption /\ Split!Init => MoneyInv
  BY InitMoneyInv
<1>2. MoneyInv /\ [Split!Next]_Split!vars => MoneyInv'
  BY NextMoneyInv
<1>3. MoneyInv => Split!PartsAddUp
  BY PartsFollow
<1> QED BY <1>1, <1>2, <1>3, PTL DEF Split!Spec
=============================================================================
