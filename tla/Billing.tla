------------------------------ MODULE Billing -------------------------------
(***************************************************************************)
(* What a lease is billed, month by month (packages/domain                 *)
(* charges/generation.ts and proration.ts, preview and generate of         *)
(* charges.service.ts).  An accountant looks at a preview, then confirms   *)
(* it; the lease may be amended in between, and others generate too.       *)
(*                                                                         *)
(* One lease is enough: leases are billed one by one, and keys contain     *)
(* the lease.  generate holds the lock of its period (PeriodLocks), and is *)
(* one step.  Nothing in the repository amends a lease: Amend and EndLease *)
(* are of the world around it.                                             *)
(***************************************************************************)
EXTENDS Calendar, Decimals, FiniteSets, FiniteSetsExt, SequencesExt

CONSTANTS
    Session,
    Schedule,        \* the schedules of the lease
    Period,          \* the periods billed
    Leases,          \* the leases to begin with
    Version,         \* the versions an amendment may add, without their number
    EndDates,        \* the days a lease may be ended on
    OpenEnded,       \* OPEN_ENDED_DATE
    INTERMEDIATE_SCALE,
    MaxAmendments    \* bound

\* lease: active, start, end, versions: a set of schedule versions
\*        [schedule, number, from, to, amount, prorate, once, dueDay];
\* charges: the rows, with the amendments before them;
\* shown: the preview of a session; generated: of each period, the amendments
\*        before it was generated last.
VARIABLES lease, charges, shown, generated, amendments
vars == <<lease, charges, shown, generated, amendments>>

EffectiveRange(v) == makeRange(v.from, v.to)
TermRange(l) == makeRange(l.start, l.end)

\* makeRange refuses a range that ends before it starts, dueDateFor a day that
\* is in no month; a unique index holds the schedule and the number.
VersionRow ==
  {v \in [schedule: Schedule, number: Nat, from: Int, to: Int, amount: Int,
          prorate: BOOLEAN, once: BOOLEAN, dueDay: 1 .. 31]: v.from <= v.to}
LeaseFits(l) ==
  /\ l \in [active: BOOLEAN, start: Int, end: Int, versions: SUBSET VersionRow] /\ l.start <= l.end
  /\ IsFiniteSet(l.versions)
  /\ \A v, w \in l.versions: (v.schedule = w.schedule /\ v.number = w.number) => v = w

\* The powers of ten are those the scale needs: the provers know none.
BillingAssumption ==
  /\ Period \subseteq Nat \ {0} /\ Version \subseteq VersionRow /\ EndDates \subseteq Int
  /\ MaxAmendments \in Nat /\ \A l \in Leases: LeaseFits(l)
  /\ INTERMEDIATE_SCALE \in Nat /\ INTERMEDIATE_SCALE > 2 /\ pow10(2) = 100
  /\ LET finer == pow10(INTERMEDIATE_SCALE - 2) IN
       finer \in Nat /\ finer % 2 = 0 /\ finer > 31 /\ pow10(INTERMEDIATE_SCALE) = 100 * finer

----------------------------------------------------------------------------
(* previewCharges                                                          *)

Precedes(v, w) == \/ v.from < w.from
                  \/ v.from = w.from /\ v.number < w.number
Following(l, v) == {w \in l.versions: w.schedule = v.schedule /\ Precedes(v, w)}
NextVersion(l, v) == CHOOSE w \in Following(l, v): \A x \in Following(l, v) \ {w}: Precedes(w, x)

(* A mutation: the earlier version keeps the day the later one starts on. *)
TruncatedEndTooLate(next) == next.from

TruncatedEnd(next) == next.from - 1

\* detectOverlaps: a version ends before the next one starts, or is gone.
Truncated(l, v) ==
  LET next == NextVersion(l, v) IN
  IF Following(l, v) = {} THEN {v}
  ELSE IF ~Intersects(EffectiveRange(v), EffectiveRange(next)) THEN {v}
  ELSE IF v.from > TruncatedEnd(next) THEN {}
  ELSE {[v EXCEPT !.to = TruncatedEnd(next)]}
Usable(l) == UNION {Truncated(l, v): v \in l.versions}

\* The days of a period that a version bills: at most one range.
oneTimeSegment(v, billable) ==
  {s \in {makeRange(v.from, v.from)}: rangeContains(billable, v.from)}
Segments(l, v, p) ==
  LET billable == intersectRanges(periodRange(p), TermRange(l)) IN
  IF v.once THEN oneTimeSegment(v, billable)
  ELSE {s \in {intersectRanges(billable, EffectiveRange(v))}: s.start <= s.end}

\* ProrationDetail: the inputs that are kept with the charge.
Calculation(v, p, s) ==
  [method |-> IF v.once \/ ~v.prorate THEN "NONE" ELSE "ACTUAL_DAYS_IN_MONTH",
   isFullPeriod |-> ~v.once /\ rangeLengthDays(s) = periodDayCount(p),
   occupiedDays |-> rangeLengthDays(s), daysInPeriod |-> periodDayCount(p),
   scheduledAmount |-> v.amount]

\* Multiplied first, divided to the intermediate scale, rounded to cents last.
Prorated(amount, days, divisor) ==
  toCents(dividedBy(times(toDecimal(amount), ofInteger(days)), ofInteger(divisor),
                    INTERMEDIATE_SCALE, "HALF_EVEN"), "HALF_UP")
prorateMonthlyAmount(v, p, s) ==
  IF v.once \/ ~v.prorate \/ rangeLengthDays(s) = periodDayCount(p) THEN v.amount
  ELSE Prorated(v.amount, rangeLengthDays(s), periodDayCount(p))

\* The amount, computed again from what was kept.
recomputeFromDetail(detail) ==
  IF detail.isFullPeriod \/ detail.method = "NONE" THEN detail.scheduledAmount
  ELSE Prorated(detail.scheduledAmount, detail.occupiedDays, detail.daysInPeriod)

DueDate(v, p, s) == IF v.once THEN s.start ELSE ClampedDay(p, v.dueDay)

\* The generation key holds no amount and no version.
KeyOf(c) == <<c.schedule, c.period, c.start, c.end>>

Charge(l, v, p, s) ==
  [schedule |-> v.schedule, period |-> p, start |-> s.start, end |-> s.end,
   amount |-> prorateMonthlyAmount(v, p, s), due |-> DueDate(v, p, s),
   calculation |-> Calculation(v, p, s), books |-> amendments]

Billed(l, p) ==
  IF ~l.active \/ ~Intersects(periodRange(p), TermRange(l)) THEN {}
  ELSE UNION {{Charge(l, v, p, s): s \in Segments(l, v, p)}:
                v \in {u \in Usable(l): u.amount # 0}}

previewCharges(l, p) == {c \in Billed(l, p): \A d \in charges: KeyOf(d) # KeyOf(c)}

----------------------------------------------------------------------------
Nothing == [period |-> 0, keys |-> {}]

Init ==
  /\ lease \in Leases /\ charges = {} /\ amendments = 0
  /\ shown = [s \in Session |-> Nothing]
  /\ generated = [p \in Period |-> -1]

Preview(s, p) ==
  /\ shown' = [shown EXCEPT ![s] =
       [period |-> p, keys |-> {KeyOf(c): c \in previewCharges(lease, p)}]]
  /\ UNCHANGED <<lease, charges, generated, amendments>>

\* assertPreviewUnchanged compares the keys, and nothing else.
Unchanged(s) ==
  {KeyOf(c): c \in previewCharges(lease, shown[s].period)} = shown[s].keys

\* A rent whose share comes to nothing, or to less, has no journal entry, and
\* the generation is rolled back with all the other leases' charges.
Postable(s) == \A c \in previewCharges(lease, shown[s].period): c.amount > 0

Generate(s) ==
  /\ shown[s] # Nothing /\ Unchanged(s) /\ Postable(s)
  /\ charges' = charges \cup previewCharges(lease, shown[s].period)
  /\ generated' = [generated EXCEPT ![shown[s].period] = amendments]
  /\ shown' = [shown EXCEPT ![s] = Nothing]
  /\ UNCHANGED <<lease, amendments>>

\* STALE_RECORD or UNBALANCED_ENTRY: the accountant has to look again.
Refuse(s) ==
  /\ shown[s] # Nothing /\ (~Unchanged(s) \/ ~Postable(s))
  /\ shown' = [shown EXCEPT ![s] = Nothing]
  /\ UNCHANGED <<lease, charges, generated, amendments>>

\* External: a new version of a schedule, numbered on.
Amend(v) ==
  /\ amendments < MaxAmendments
  /\ LET number == 1 + Max({0} \cup {w.number: w \in lease.versions})
     IN lease' = [lease EXCEPT !.versions = @ \cup {[v EXCEPT !.number = number]}]
  /\ amendments' = amendments + 1
  /\ UNCHANGED <<charges, shown, generated>>

\* External: the lease gets its last day.
EndLease(day) ==
  /\ amendments < MaxAmendments /\ lease.start <= day /\ day < lease.end
  /\ lease' = [lease EXCEPT !.end = day]
  /\ amendments' = amendments + 1
  /\ UNCHANGED <<charges, shown, generated>>

Next == \/ \E s \in Session: \/ \E p \in Period: Preview(s, p)
                             \/ Generate(s) \/ Refuse(s)
        \/ \E v \in Version: Amend(v)
        \/ \E d \in EndDates: EndLease(d)

Spec == Init /\ [][Next]_vars

----------------------------------------------------------------------------
(* Properties                                                              *)

\* The version in force on a day is the one that started last: the versions
\* are taken as they are stored, whatever detectOverlaps makes of them.
InForce(day) ==
  {v \in lease.versions:
     /\ rangeContains(EffectiveRange(v), day)
     /\ \A w \in Following(lease, v): w.from > day}

Bills(c, day) == c.start <= day /\ day <= c.end

\* Nobody is billed twice for a day of a schedule while the lease stays as it
\* is, however many sessions preview and generate: two charges that share a
\* day were generated before and after an amendment.
NoDayTwice ==
  \A c, d \in charges:
    (c # d /\ c.schedule = d.schedule /\ c.start <= d.end /\ d.start <= c.end)
    => c.books # d.books

\* A period generated since the last amendment bills every day of the term on
\* which a version with an amount is in force.
NoDayForgotten ==
  \A p \in Period: (generated[p] = amendments /\ lease.active) =>
    \A day \in periodStart(p) .. periodEnd(p): rangeContains(TermRange(lease), day) =>
      \A v \in InForce(day): (v.amount # 0 /\ (v.once => v.from = day)) =>
        \E c \in charges: c.schedule = v.schedule /\ c.period = p /\ Bills(c, day)

\* A month of a schedule billed in pieces at one rent costs that rent, give or
\* take half a cent a piece.
PiecesAddUp ==
  \A p \in Period, schedule \in Schedule, rent \in {v.amount: v \in lease.versions}:
    LET pieces == {c \in charges: c.period = p /\ c.schedule = schedule}
        total == SumFunctionOnSet([c \in pieces |-> c.amount], pieces)
    IN (/\ generated[p] = amendments /\ lease.active
        /\ \A c \in pieces: c.books = amendments
        /\ \A day \in periodStart(p) .. periodEnd(p):
             /\ rangeContains(TermRange(lease), day)
             /\ \E v \in InForce(day):
                  v.schedule = schedule /\ ~v.once /\ v.amount = rent /\ v.prorate)
       => 2 * abs(total - rent) <= Cardinality(pieces)

\* An amount follows from the detail kept with it, and is the exact share of
\* the rent rounded once, whatever the two roundings on the way do.
HalfUp(n, divisor) ==
  LET cents == (2 * abs(n) + divisor) \div (2 * divisor) IN IF n < 0 THEN -cents ELSE cents
RoundedOnce ==
  \A c \in charges: LET d == c.calculation IN
    /\ c.amount = recomputeFromDetail(d)
    /\ c.amount = IF d.method = "NONE" THEN d.scheduledAmount
                  ELSE HalfUp(d.scheduledAmount * d.occupiedDays, d.daysInPeriod)

\* Charges fall due in their period.
DueInPeriod == \A c \in charges: rangeContains(periodRange(c.period), c.due)

MonthBilledOnce == RoundedOnce /\ NoDayTwice /\ NoDayForgotten /\ PiecesAddUp /\ DueInPeriod
=============================================================================
