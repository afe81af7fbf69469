------------------------------ MODULE Figures -------------------------------
(***************************************************************************)
(* The figures of a property's months: those the close checklist gathers   *)
(* one query after the other and signs off in a snapshot (close.service.ts *)
(* and domain close/readiness.ts), and those the dashboard, the property   *)
(* cards and the lists show of the same rows (dashboard.service.ts).       *)
(*                                                                         *)
(* The operations that move money are those of Reconciliation, whole, each *)
(* with the periods it locks; a credit and a reversal have their default   *)
(* dates (the runs CreditDatedElsewhere and ClosedPeriodReversal are about *)
(* the others).  Periods are numbers, amounts are cents.                   *)
(***************************************************************************)
EXTENDS Integers, FiniteSetsExt, SequencesExt

CONSTANTS
    Charge, Payment,
    ChargePeriod, ChargeAmount, PaymentPeriod, PaymentAmount,  \* their columns
    Incoming,       \* the payments whose direction is CREDIT
    Months,         \* the periods are 1 .. Months
    MaxWrites,      \* bound
    MaxClosing      \* bound: closes in progress

Period == 1 .. Months

\* charge, payment: rows; paid: cents of a payment on a charge; ledger: net of
\* two accounts by posting period; exception: that of a payment; busy: an
\* import is not terminal or an event not dispatched; status: of the periods;
\* closing: of each period the close being decided, which holds its lock, has
\* done so many of its queries, and is disturbed when an earlier month was not
\* closed meanwhile; snapshot: the last one of each period.
VARIABLES charge, payment, paid, ledger, exception, busy, status, closing, snapshot, writes
vars == <<charge, payment, paid, ledger, exception, busy, status, closing, snapshot, writes>>
money == <<charge, payment, paid, ledger>>

FiguresAssumption ==
  /\ IsFiniteSet(Charge) /\ IsFiniteSet(Payment) /\ Months \in Nat \ {0} /\ MaxWrites \in Nat /\ MaxClosing \in Nat
  /\ ChargePeriod \in [Charge -> Period] /\ ChargeAmount \in [Charge -> Nat]
  /\ PaymentPeriod \in [Payment -> Period] /\ PaymentAmount \in [Payment -> Nat]
  /\ Incoming \subseteq Payment

Outgoing == Payment \ Incoming
Total(f, S) == SumFunctionOnSet(f, S)

----------------------------------------------------------------------------
(* Rows                                                                    *)

Posted(T) == {c \in Charge: charge[c].there /\ ChargePeriod[c] = T}
PostedThrough(T) == UNION {Posted(t): t \in 1 .. T}
Left == [c \in Charge |-> ChargeAmount[c] - charge[c].allocated - charge[c].credited]
Open == [c \in Charge |-> IF Left[c] < 0 THEN 0 ELSE Left[c]]
Kept(T) == {p \in Payment: payment[p].status \notin {"ABSENT", "REVERSED"} /\ PaymentPeriod[p] = T}
Spent == [p \in Payment |-> payment[p].allocated]
Cash == [p \in Payment |-> PaymentAmount[p] - Spent[p]]
Unreconciled(T) == {p \in Kept(T): payment[p].status \in {"UNAPPLIED", "PARTIALLY_ALLOCATED"}}
UnreconciledThrough(T) == UNION {Unreconciled(t): t \in 1 .. T}

PaymentStatus(p, n) ==
  IF n = 0 THEN "UNAPPLIED" ELSE IF n < PaymentAmount[p] THEN "PARTIALLY_ALLOCATED" ELSE "ALLOCATED"

----------------------------------------------------------------------------
(* The facts of the checklist                                              *)

\* Of the first period of a property there is no preceding one.
priorPeriodStatus(T) == IF T = 1 THEN "NONE" ELSE status[T - 1]
countLeasesMissingCharges(T) == Cardinality({c \in Charge: ChargePeriod[c] = T /\ ~charge[c].there})
\* No exception of the payment is open: it has none, or all are resolved.  Here
\* and in the totals a payment counts whatever its direction.
unreviewedTransactions(T) == {p \in Unreconciled(T): exception[p].status # "OPEN"}
openExceptions(T, blocking) ==
  {p \in Payment: PaymentPeriod[p] = T /\ exception[p].status = "OPEN" /\ exception[p].blocking = blocking}
periodTotals(T) ==
  [charges   |-> Total(ChargeAmount, Posted(T)),
   received  |-> Total(PaymentAmount, Kept(T)),
   allocated |-> Total(Spent, Kept(T))]
cumulativeBalances(T) ==
  [receivables |-> Total([t \in Period |-> ledger[t].ar], 1 .. T),
   unapplied   |-> Total([t \in Period |-> ledger[t].unapplied], 1 .. T)]
chargeDerivedReceivables(T) == Total(Left, PostedThrough(T))

Fact(step, T) ==
  CASE step = "prior"      -> priorPeriodStatus(T)
    [] step = "missing"    -> countLeasesMissingCharges(T)
    [] step = "busy"       -> busy
    [] step = "unreviewed" -> unreviewedTransactions(T)
    [] step = "exceptions" -> [b \in BOOLEAN |-> openExceptions(T, b)]
    [] step = "totals"     -> periodTotals(T)
    [] step = "balances"   -> cumulativeBalances(T)
    [] step = "derived"    -> chargeDerivedReceivables(T)
\* The order of the queries on the connection of the transaction.
Steps == <<"prior", "missing", "busy", "unreviewed", "exceptions", "totals", "balances", "derived">>

\* evaluateCloseReadiness
Blocked(f) ==
  \/ f["prior"] \notin {"NONE", "CLOSED"}
  \/ f["missing"] > 0 \/ f["busy"]
  \/ f["unreviewed"] # {} \/ f["exceptions"][TRUE] # {}
  \/ f["balances"].receivables # f["derived"]
Acknowledgements(f) ==
  (IF f["derived"] # 0 THEN {"OUTSTANDING_RECEIVABLES"} ELSE {})
  \cup (IF f["balances"].unapplied # 0 THEN {"UNAPPLIED_CASH_REMAINS"} ELSE {})
  \cup (IF f["exceptions"][FALSE] # {} THEN {"NON_BLOCKING_EXCEPTIONS"} ELSE {})
AcknowledgementCode == {"OUTSTANDING_RECEIVABLES", "UNAPPLIED_CASH_REMAINS", "NON_BLOCKING_EXCEPTIONS"}

----------------------------------------------------------------------------
(* The dashboard, the property cards, the lists behind them                *)

agingBuckets(T) == Total(Open, {c \in PostedThrough(T): Open[c] > 0})
\* Unlike the checklist, of incoming payments only.
paymentsReceived(T) == Total(PaymentAmount, Kept(T) \cap Incoming)
paymentsAllocated(T) == Total(Spent, Kept(T) \cap Incoming)
unappliedCash(T) == Total(Cash, UnreconciledThrough(T) \cap Incoming)
blockerCount(T) == Cardinality(openExceptions(T, TRUE))
\* propertyStats and leaseBalance: all periods, but not what was voided.
outstandingOfCard ==
  Total(Left, {c \in Charge: charge[c].there /\ charge[c].credited < ChargeAmount[c]})
\* The totals over the list of receivables, of one period.
listed == [T \in Period |-> Total(Left, Posted(T))]

----------------------------------------------------------------------------
Idle == [locked |-> FALSE, done |-> 0, facts |-> [s \in ToSet(Steps) |-> 0], disturbed |-> FALSE]
NoSnapshot == [outstanding |-> 0, unapplied |-> 0, totals |-> [charges |-> 0, received |-> 0, allocated |-> 0], stands |-> FALSE]

Init ==
  /\ charge = [c \in Charge |-> [there |-> FALSE, allocated |-> 0, credited |-> 0]]
  /\ payment = [p \in Payment |-> [status |-> "ABSENT", allocated |-> 0]]
  /\ paid = [x \in Payment \X Charge |-> 0]
  /\ ledger = [t \in Period |-> [ar |-> 0, unapplied |-> 0]]
  /\ exception = [p \in Payment |-> [status |-> "NONE", blocking |-> FALSE]]
  /\ busy = FALSE /\ status = [t \in Period |-> "OPEN"]
  /\ closing = [t \in Period |-> Idle] /\ snapshot = [t \in Period |-> NoSnapshot] /\ writes = 0

\* The closes in progress hold the locks of their periods.
LocksFree(S) == \A t \in S: ~closing[t].locked
Postable(S) == LocksFree(S) /\ \A t \in S: status[t] # "CLOSED"
\* The months after one of S: what was signed of them stands no longer, and what
\* is being signed is disturbed.
Moved(S) ==
  LET later == {t \in Period: \E s \in S: s < t} IN
  /\ snapshot' = [t \in Period |-> [snapshot[t] EXCEPT !.stands = @ /\ t \notin S \cup later]]
  /\ closing' = [t \in Period |-> [closing[t] EXCEPT !.disturbed = @ \/ (closing[t].locked /\ t \in later)]]
Writes == writes < MaxWrites /\ writes' = writes + 1
Post(t, ar, unapplied) ==
  ledger' = [ledger EXCEPT ![t] = [ar |-> @.ar + ar, unapplied |-> @.unapplied + unapplied]]

\* generate: every charge of the period that is missing.
Generate(T) ==
  LET new == {c \in Charge: ChargePeriod[c] = T /\ ~charge[c].there} IN
  /\ Writes /\ Postable({T}) /\ new # {}
  /\ charge' = [c \in Charge |-> IF c \in new THEN [charge[c] EXCEPT !.there = TRUE] ELSE charge[c]]
  /\ Post(T, Total(ChargeAmount, new), 0)
  /\ UNCHANGED <<payment, paid, exception, busy, status, closing, snapshot>>

\* Ingestion: money that comes in is posted, and has an exception when no match
\* is confident; money that goes out is kept as a row and nothing else.
Receive(p) ==
  /\ Writes /\ Postable({PaymentPeriod[p]}) /\ payment[p].status = "ABSENT"
  /\ payment' = [payment EXCEPT ![p].status = "UNAPPLIED"]
  /\ \E e \in {exception[p]} \cup {x \in [status: {"OPEN"}, blocking: BOOLEAN]: p \in Incoming}:
       exception' = [exception EXCEPT ![p] = e]
  /\ Post(PaymentPeriod[p], 0, IF p \in Incoming THEN PaymentAmount[p] ELSE 0)
  /\ UNCHANGED <<charge, paid, busy, status, closing, snapshot>>

\* The payment arrives again with other values: the row stays, and no period is
\* locked.
Conflict(p) ==
  /\ Writes /\ payment[p].status # "ABSENT"
  /\ exception' = [exception EXCEPT ![p] = [status |-> "OPEN", blocking |-> TRUE]]
  /\ UNCHANGED <<money, busy, status, closing, snapshot>>

(* A mutation: an allocation is posted in the month of the charge. *)
PostingInChargePeriod(p, c) == ChargePeriod[c]
\* Receipt and settlement are in one period.
PostingPeriod(p, c) == PaymentPeriod[p]
AllocationPeriods(p, c) == {PostingPeriod(p, c), ChargePeriod[c]}

\* Moves n cents of p onto c, or back when n < 0.
Move(p, c, n) ==
  /\ charge' = [charge EXCEPT ![c].allocated = @ + n]
  /\ payment' = [payment EXCEPT ![p] = [status |-> PaymentStatus(p, @.allocated + n),
                                        allocated |-> @.allocated + n]]
  /\ paid' = [paid EXCEPT ![<<p, c>>] = @ + n]
  /\ Post(PostingPeriod(p, c), -n, -n)

\* An approval resolves the exception of a payment that is spent.
Allocate(p, c) ==
  /\ Writes /\ Postable(AllocationPeriods(p, c))
  /\ p \in Kept(PaymentPeriod[p]) \cap Incoming /\ c \in Posted(ChargePeriod[c])
  /\ \E n \in 1 .. Cash[p]:
       /\ n <= Open[c] /\ Move(p, c, n)
       /\ exception' = [exception EXCEPT ![p].status = IF @ = "OPEN" /\ n = Cash[p] THEN "RESOLVED" ELSE @]
  /\ UNCHANGED <<busy, status, closing, snapshot>>

ReverseAllocation(p, c) ==
  /\ Writes /\ Postable(AllocationPeriods(p, c)) /\ paid[<<p, c>>] > 0
  /\ Move(p, c, -paid[<<p, c>>])
  /\ UNCHANGED <<exception, busy, status, closing, snapshot>>

\* Dated in the period of the charge.
Credit(c, n) ==
  /\ Writes /\ Postable({ChargePeriod[c]}) /\ charge[c].there /\ n <= Left[c]
  /\ charge' = [charge EXCEPT ![c].credited = @ + n]
  /\ Post(ChargePeriod[c], -n, 0)
  /\ UNCHANGED <<payment, paid, exception, busy, status, closing, snapshot>>

\* The provider takes the payment back: every allocation is unwound in the
\* period of the receipt.  The locks are taken and no status is looked at, so
\* the snapshot of a closed period it touches no longer stands.  Nor is the
\* direction: the receipt of an outgoing payment is reversed, which was never
\* posted.
ProviderReversal(p) ==
  LET on == {c \in Charge: paid[<<p, c>>] > 0}
      touched == {PaymentPeriod[p]} \cup {ChargePeriod[c]: c \in on} IN
  /\ Writes /\ LocksFree(touched) /\ p \in Kept(PaymentPeriod[p])
  /\ charge' = [c \in Charge |-> [charge[c] EXCEPT !.allocated = @ - paid[<<p, c>>]]]
  /\ payment' = [payment EXCEPT ![p] = [status |-> "REVERSED", allocated |-> 0]]
  /\ paid' = [x \in Payment \X Charge |-> IF x[1] = p THEN 0 ELSE paid[x]]
  /\ LET n == payment[p].allocated IN Post(PaymentPeriod[p], n, n - PaymentAmount[p])
  /\ exception' = [exception EXCEPT ![p] = [status |-> "OPEN", blocking |-> TRUE]]
  /\ Moved(touched) /\ UNCHANGED <<busy, status>>

\* A controller resolves an exception, whatever cash is left, or reopens it.
ResolveException(p) ==
  /\ Writes /\ exception[p].status = "OPEN"
  /\ exception' = [exception EXCEPT ![p].status = "RESOLVED"]
  /\ UNCHANGED <<money, busy, status, closing, snapshot>>
ReopenException(p) ==
  /\ Writes /\ exception[p].status = "RESOLVED"
  /\ exception' = [exception EXCEPT ![p].status = "OPEN"]
  /\ UNCHANGED <<money, busy, status, closing, snapshot>>

\* An import begins or ends, an event is written or dispatched.
Background ==
  /\ Writes /\ busy' = ~busy
  /\ UNCHANGED <<money, exception, status, closing, snapshot>>

StartReview(T) ==
  /\ LocksFree({T}) /\ status[T] = "OPEN"
  /\ status' = [status EXCEPT ![T] = "IN_REVIEW"]
  /\ UNCHANGED <<money, exception, busy, closing, snapshot, writes>>

\* Later periods may be closed, and some may be closing: their snapshots are of
\* an earlier time.
Reopen(T) ==
  /\ Writes /\ LocksFree({T}) /\ status[T] = "CLOSED"
  /\ status' = [status EXCEPT ![T] = "OPEN"]
  /\ Moved({T}) /\ UNCHANGED <<money, exception, busy>>

BeginClose(T) ==
  /\ Cardinality({t \in Period: closing[t].locked}) < MaxClosing
  /\ LocksFree({T}) /\ status[T] = "IN_REVIEW"
  /\ closing' = [closing EXCEPT ![T] = [Idle EXCEPT !.locked = TRUE]]
  /\ UNCHANGED <<money, exception, busy, status, snapshot, writes>>

\* Only the preceding month is looked at: an earlier one may be open again.
Gather(T) ==
  LET now == closing[T] step == Steps[now.done + 1] IN
  /\ now.locked /\ now.done < Len(Steps)
  /\ closing' = [closing EXCEPT ![T] =
       [now EXCEPT !.done = @ + 1, !.facts[step] = Fact(step, T),
                   !.disturbed = IF now.done = 0 THEN \E t \in 1 .. T - 1: status[t] # "CLOSED" ELSE @]]
  /\ UNCHANGED <<money, exception, busy, status, snapshot, writes>>

Gathered(T) == closing[T].locked /\ closing[T].done = Len(Steps)

Close(T, acknowledged) ==
  LET facts == closing[T].facts IN
  /\ Gathered(T) /\ ~Blocked(facts) /\ Acknowledgements(facts) \subseteq acknowledged
  /\ status' = [status EXCEPT ![T] = "CLOSED"]
  /\ snapshot' = [snapshot EXCEPT ![T] =
       [outstanding |-> facts["derived"], unapplied |-> facts["balances"].unapplied,
        totals |-> facts["totals"], stands |-> ~closing[T].disturbed]]
  /\ closing' = [closing EXCEPT ![T] = Idle] /\ UNCHANGED <<money, exception, busy, writes>>

RefuseClose(T, acknowledged) ==
  LET facts == closing[T].facts IN
  /\ Gathered(T) /\ (Blocked(facts) \/ ~(Acknowledgements(facts) \subseteq acknowledged))
  /\ closing' = [closing EXCEPT ![T] = Idle]
  /\ UNCHANGED <<money, exception, busy, status, snapshot, writes>>

Next ==
  \/ \E T \in Period: Generate(T) \/ StartReview(T) \/ Reopen(T) \/ BeginClose(T) \/ Gather(T)
  \/ \E p \in Payment: Receive(p) \/ Conflict(p) \/ ProviderReversal(p)
                        \/ ResolveException(p) \/ ReopenException(p)
  \/ \E p \in Payment, c \in Charge: Allocate(p, c) \/ ReverseAllocation(p, c)
  \/ \E c \in Charge: \E n \in 1 .. ChargeAmount[c]: Credit(c, n)
  \/ Background
  \/ \E T \in Period, acknowledged \in SUBSET AcknowledgementCode:
       Close(T, acknowledged) \/ RefuseClose(T, acknowledged)

Spec == Init /\ [][Next]_vars

----------------------------------------------------------------------------
(* Properties                                                              *)

\* While a snapshot stands, the figures of its month are still those that were
\* signed, the two derivations of the receivables agree, every lease is billed,
\* and cash that is left has had an exception.
ClosedMonthsStand ==
  \A T \in Period: snapshot[T].stands =>
    /\ status[T] = "CLOSED"
    /\ snapshot[T].totals = periodTotals(T)
    /\ snapshot[T].outstanding = chargeDerivedReceivables(T)
    /\ cumulativeBalances(T) = [receivables |-> snapshot[T].outstanding,
                                unapplied |-> snapshot[T].unapplied]
    /\ countLeasesMissingCharges(T) = 0
    /\ \A p \in Unreconciled(T): exception[p].status # "NONE"

\* What the cross-check can find: the cents that payments of one side of the end
\* of a month paid of charges of the other side, and nothing else.
PaidAcross(T, early, late) ==
  Total(paid, {x \in Payment \X Charge: early[x] <= T /\ late[x] > T})
CrossCheckExplained ==
  LET ofPayment == [x \in Payment \X Charge |-> PaymentPeriod[x[1]]]
      ofCharge  == [x \in Payment \X Charge |-> ChargePeriod[x[2]]] IN
  \A T \in Period:
    cumulativeBalances(T).receivables - chargeDerivedReceivables(T)
      = PaidAcross(T, ofCharge, ofPayment) - PaidAcross(T, ofPayment, ofCharge)

\* The dashboard, the cards and the lists show the checklist's figures, though
\* each selects its rows its own way, but for payments that go out: the checklist
\* alone counts them as received, and only the ledger shows the receipt that was
\* reversed and never posted.
TakenBackThrough(T) == {p \in Outgoing: payment[p].status = "REVERSED" /\ PaymentPeriod[p] <= T}
FiguresAgree ==
  /\ \A T \in Period:
       LET derived == chargeDerivedReceivables(T) totals == periodTotals(T) IN
       /\ agingBuckets(T) = derived /\ Total(listed, 1 .. T) = derived
       /\ totals.received = paymentsReceived(T) + Total(PaymentAmount, Kept(T) \cap Outgoing)
       /\ totals.allocated = paymentsAllocated(T) /\ paymentsAllocated(T) <= paymentsReceived(T)
       /\ unappliedCash(T)
            = cumulativeBalances(T).unapplied + Total(PaymentAmount, TakenBackThrough(T))
       /\ blockerCount(T) > 0 <=> openExceptions(T, TRUE) # {}
  /\ outstandingOfCard = agingBuckets(Months)

ReadyMeansReconciled == ClosedMonthsStand /\ CrossCheckExplained /\ FiguresAgree
=============================================================================
