--------------------------- MODULE Reconciliation ---------------------------
(***************************************************************************)
(* The money of one rental property: charges, payments, the allocations    *)
(* that settle charges with payments, credits, and the journal entries     *)
(* each of them posts (allocations.service.ts, charges.service.ts,         *)
(* transactions.service.ts, the ingestion worker, and the planning         *)
(* functions of packages/domain).                                          *)
(*                                                                         *)
(* A user operation is three steps: what it reads before it holds its      *)
(* period locks (Load...: the page the approver saw, and the rows the      *)
(* handler looks up to learn which periods to lock), the moment it has     *)
(* its locks and reads again (Enter), and its commit, where its writes     *)
(* become visible.  The order in which locks are taken, and whether a      *)
(* period accepts postings, are the subject of PeriodLocks: here all the   *)
(* locks of an operation are granted at once and periods are open.         *)
(* Amounts are small numbers of cents.  Audit rows, exceptions,            *)
(* suggestions and outbox rows written by the same transactions are left   *)
(* to other modules.                                                       *)
(***************************************************************************)
EXTENDS Integers, SequencesExt

CONSTANTS
    Session,          \* database sessions
    Charge, Payment,  \* the rows that may come to exist
    ChargePeriod, ChargeAmount,    \* fixed columns of a charge
    PaymentPeriod, PaymentAmount,  \* fixed columns of a payment
    Period,           \* the accounting periods of the property
    Operations,       \* the user operations that occur
    MaxAllocations,   \* bound: rows of the allocation table
    MaxCredits        \* bound: rows of the credit adjustment table

OperationKind == {"approve", "reverse", "credit", "datedCredit", "providerReversal"}

ASSUME ColumnAssumption ==
    /\ IsFiniteSet(Charge)
    /\ ChargePeriod \in [Charge -> Period] /\ ChargeAmount \in [Charge -> Nat \ {0}]
    /\ PaymentPeriod \in [Payment -> Period] /\ PaymentAmount \in [Payment -> Nat \ {0}]
ASSUME OperationAssumption == Operations \subseteq OperationKind
ASSUME RowAssumption == MaxAllocations \in Nat /\ MaxCredits \in Nat

VARIABLES
    charge,      \* the charge rows: allocated, credited, open, status, version
    payment,     \* the bank transaction rows: allocated, status, version
    allocation,  \* the allocation rows, in the order they were created
    credit,      \* the credit adjustment rows
    journal,     \* the journal entries, each named by its posting event
    pc,          \* phase of each session's transaction
    op,          \* what it is asked to do and what it read without locks
    locks,       \* the period locks it asks for or holds
    fresh        \* the rows it read again under its locks

tables == <<charge, payment, allocation, credit, journal>>
session == <<pc, op, locks, fresh>>
vars == <<tables, session>>

Put(f, x, e) == [f EXCEPT ![x] = e]

----------------------------------------------------------------------------
(* The journal.  An entry moves its amount from one account to another;    *)
(* the unique posting event id makes writing it twice the same as once.    *)

(* chargePosted, chargeCredited, paymentReceived, paymentAllocated,        *)
(* allocationReversed, paymentReversed: the account each entry debits and  *)
(* the one it credits.                                                     *)
Debited  == [charge |-> "AR",     credit |-> "INCOME", receipt |-> "CASH",
             allocated |-> "UNAPPLIED", unwound |-> "AR", returned |-> "UNAPPLIED"]
Credited == [charge |-> "INCOME", credit |-> "AR",     receipt |-> "UNAPPLIED",
             allocated |-> "AR", unwound |-> "UNAPPLIED", returned |-> "CASH"]

Entry(event, id, amount) == [event |-> event, id |-> id, amount |-> amount]

(* Debits less credits of an account. *)
LedgerBalance(account) ==
    LET amount == [e \in journal |-> e.amount] IN
    SumFunctionOnSet(amount, {e \in journal : Debited[e.event] = account})
    - SumFunctionOnSet(amount, {e \in journal : Credited[e.event] = account})

----------------------------------------------------------------------------
(* The planning functions. *)

NoCharge == [status |-> "ABSENT", allocated |-> 0, credited |-> 0, open |-> 0, version |-> 0]
NoPayment == [status |-> "ABSENT", allocated |-> 0, version |-> 0]

Floor(n) == IF n < 0 THEN 0 ELSE n

(* A mutation: a charge credited in full keeps a status of no code. *)
ChargeStatusMisspelt(c, allocated, credited) ==
    CASE credited >= ChargeAmount[c] -> "VOID"
      [] credited < ChargeAmount[c] /\ allocated + credited >= ChargeAmount[c] -> "SETTLED"
      [] OTHER -> "POSTED"

nextChargeStatus(c, allocated, credited) ==
    CASE credited >= ChargeAmount[c] -> "VOIDED"
      [] credited < ChargeAmount[c] /\ allocated + credited >= ChargeAmount[c] -> "SETTLED"
      [] OTHER -> "POSTED"

nextTransactionStatus(m, now, allocated) ==
    CASE now = "REVERSED" -> "REVERSED"
      [] now # "REVERSED" /\ allocated = 0 -> "UNAPPLIED"
      [] now # "REVERSED" /\ allocated >= PaymentAmount[m] -> "ALLOCATED"
      [] OTHER -> "PARTIALLY_ALLOCATED"

NewCharge(c) ==
    [status |-> "POSTED", allocated |-> 0, credited |-> 0, open |-> ChargeAmount[c],
     version |-> 1]

(* The update of a charge by a change of its allocated total: the rest of  *)
(* what it writes is computed from the row `was`, read earlier; the        *)
(* credited total is not among the columns written.                        *)
Reallocated(c, was, allocated, updates) ==
    [status |-> nextChargeStatus(c, allocated, was.credited),
     allocated |-> Floor(allocated),
     credited |-> charge[c].credited,
     open |-> ChargeAmount[c] - Floor(allocated) - was.credited,
     version |-> charge[c].version + updates]

(* The update by a credit: the allocated total is not written. *)
Recredited(c, was, credited) ==
    [status |-> nextChargeStatus(c, was.allocated, credited),
     allocated |-> charge[c].allocated,
     credited |-> credited,
     open |-> ChargeAmount[c] - was.allocated - credited,
     version |-> charge[c].version + 1]

PaymentRow(m, now, allocated, version) ==
    [status |-> nextTransactionStatus(m, now, allocated),
     allocated |-> allocated,
     version |-> version]

Total(lines) == SumFunction(lines)

(* A mutation: each line is compared with what the payment has left. *)
PlanPerLine(m, row, lines, rows) ==
    /\ row.status # "REVERSED"
    /\ \A c \in DOMAIN lines :
          /\ rows[c].status # "VOIDED"
          /\ lines[c] <= ChargeAmount[c] - rows[c].allocated - rows[c].credited
          /\ lines[c] <= PaymentAmount[m] - row.allocated

(* planAllocation, on the rows read under the locks. *)
planAllocation(m, row, lines, rows) ==
    /\ row.status # "REVERSED"
    /\ \A c \in DOMAIN lines :
          /\ rows[c].status # "VOIDED"
          /\ lines[c] <= ChargeAmount[c] - rows[c].allocated - rows[c].credited
    /\ Total(lines) <= PaymentAmount[m] - row.allocated

(* planReversal: totals never drop below zero. *)
planReversal(amount, row, rows, c) ==
    row.allocated >= amount /\ rows[c].allocated >= amount

----------------------------------------------------------------------------
Cents == UNION {1..ChargeAmount[c] : c \in Charge}

(* Amounts for some charges, none above what the charge billed: a request  *)
(* for more is refused by planAllocation.                                  *)
Lines ==
    UNION {{f \in [S -> Cents] : \A c \in S : f[c] <= ChargeAmount[c]} :
              S \in SUBSET Charge \ {{}}}

Idle == [kind |-> "idle"]
NothingRead == [payment |-> NoPayment, charges |-> <<>>]

Init ==
    /\ charge = [c \in Charge |-> NoCharge]
    /\ payment = [m \in Payment |-> NoPayment]
    /\ allocation = <<>>
    /\ credit = <<>>
    /\ journal = {}
    /\ pc = [t \in Session |-> "idle"]
    /\ op = [t \in Session |-> Idle]
    /\ locks = [t \in Session |-> {}]
    /\ fresh = [t \in Session |-> NothingRead]

LocksFree(S, t) ==
    \A u \in Session \ {t} : pc[u] = "holding" => locks[u] \cap S = {}

Finish(t) ==
    /\ pc' = Put(pc, t, "idle")
    /\ op' = Put(op, t, Idle)
    /\ locks' = Put(locks, t, {})
    /\ fresh' = Put(fresh, t, NothingRead)

Rollback(t) ==
    /\ pc[t] # "idle"
    /\ Finish(t)
    /\ UNCHANGED tables

Load(t, request, periods) ==
    /\ pc[t] = "idle"
    /\ request.kind \in Operations
    /\ pc' = Put(pc, t, "waiting")
    /\ op' = Put(op, t, request)
    /\ locks' = Put(locks, t, periods)
    /\ UNCHANGED <<tables, fresh>>

Granted(t, kinds) ==
    /\ pc[t] = "waiting"
    /\ op[t].kind \in kinds
    /\ LocksFree(locks[t], t)

(* The rows read under the locks are kept when the plan accepts them. *)
Keep(t, accepted, row, rows) ==
    /\ IF accepted
       THEN /\ pc' = Put(pc, t, "holding")
            /\ fresh' = Put(fresh, t, [payment |-> row, charges |-> rows])
            /\ UNCHANGED <<op, locks>>
       ELSE Finish(t)
    /\ UNCHANGED tables

----------------------------------------------------------------------------
(* Rows are born. *)

(* generate: the charges of a period that do not exist yet, each with its  *)
(* entry; the period lock makes the whole transaction one step, for its    *)
(* rows are new to every other.                                            *)
Generate(p) ==
    LET new == {c \in Charge : ChargePeriod[c] = p /\ charge[c].status = "ABSENT"} IN
    /\ new # {}
    /\ \A t \in Session : pc[t] = "holding" => p \notin locks[t]
    /\ charge' = [c \in Charge |-> IF c \in new THEN NewCharge(c) ELSE charge[c]]
    /\ journal' = journal \cup {Entry("charge", c, ChargeAmount[c]) : c \in new}
    /\ UNCHANGED <<payment, allocation, credit, session>>

(* ingest: a payment in, with its receipt. *)
Ingest(m) ==
    /\ payment[m].status = "ABSENT"
    /\ \A t \in Session : pc[t] = "holding" => PaymentPeriod[m] \notin locks[t]
    /\ payment' = Put(payment, m, PaymentRow(m, "UNAPPLIED", 0, 1))
    /\ journal' = journal \cup {Entry("receipt", m, PaymentAmount[m])}
    /\ UNCHANGED <<charge, allocation, credit, session>>

----------------------------------------------------------------------------
(* approve. *)

LoadApproval(t) ==
    \E m \in Payment, f \in Lines :
        /\ payment[m].status # "ABSENT"
        /\ \A c \in DOMAIN f : charge[c].status # "ABSENT"
        /\ Load(t,
                [kind |-> "approve", payment |-> m, lines |-> f,
                 seenPayment |-> payment[m].version,
                 seenCharges |-> [c \in DOMAIN f |-> charge[c].version]],
                {PaymentPeriod[m]} \cup {ChargePeriod[c] : c \in DOMAIN f})

(* A mutation: only the payment's version is compared. *)
PaymentUnchanged(t) == payment[op[t].payment].version = op[t].seenPayment

(* What the approver saw is what the transaction finds. *)
VersionsUnchanged(t) ==
    /\ payment[op[t].payment].version = op[t].seenPayment
    /\ \A c \in DOMAIN op[t].lines : charge[c].version = op[t].seenCharges[c]

EnterApproval(t) ==
    /\ Granted(t, {"approve"})
    /\ LET row == payment[op[t].payment]
           rows == [c \in DOMAIN op[t].lines |-> charge[c]]
       IN  Keep(t,
                VersionsUnchanged(t) /\ planAllocation(op[t].payment, row, op[t].lines, rows),
                row, rows)

(* The compare-and-swap of the charges and of the payment. *)
SwapSucceeds(t) ==
    /\ payment[op[t].payment].version = fresh[t].payment.version
    /\ \A c \in DOMAIN op[t].lines : charge[c].version = fresh[t].charges[c].version

(* One ACTIVE row per charge, in the order of the charges' ids. *)
NewAllocations(m, lines) ==
    LET order == SetToSeq(DOMAIN lines) IN
    [i \in DOMAIN order |-> [payment |-> m, charge |-> order[i],
                             amount |-> lines[order[i]], status |-> "ACTIVE"]]

ApproveRows(t) ==
    LET m == op[t].payment
        f == op[t].lines
        was == fresh[t]
        rows == NewAllocations(m, f)
    IN
    /\ allocation' = allocation \o rows
    /\ charge' = [c \in Charge |->
          IF c \in DOMAIN f
          THEN Reallocated(c, was.charges[c], was.charges[c].allocated + f[c], 1)
          ELSE charge[c]]
    /\ payment' = Put(payment, m,
          PaymentRow(m, was.payment.status, was.payment.allocated + Total(f),
                     payment[m].version + 1))
    /\ journal' = journal \cup
          {Entry("allocated", Len(allocation) + i, rows[i].amount) : i \in DOMAIN rows}
    /\ UNCHANGED credit

CommitApproval(t) ==
    /\ pc[t] = "holding" /\ op[t].kind = "approve"
    /\ Len(allocation) + Cardinality(DOMAIN op[t].lines) <= MaxAllocations
    /\ IF SwapSucceeds(t)
       THEN ApproveRows(t)
       ELSE UNCHANGED tables
    /\ Finish(t)

----------------------------------------------------------------------------
(* reverse. *)

(* A mutation: the charge's own period is not locked. *)
ReversalLocksPayment(i) == {PaymentPeriod[allocation[i].payment]}

(* A mutation: the period of the allocation is not locked. *)
ReversalLocksCharge(i) == {ChargePeriod[allocation[i].charge]}

(* The allocation's period is its payment's; the posting period is that    *)
(* one, or the one the caller's posting date falls in.                     *)
ReversalLocks(i) ==
    {PaymentPeriod[allocation[i].payment], ChargePeriod[allocation[i].charge]}

LoadReversal(t) ==
    \E i \in DOMAIN allocation, posting \in Period :
        /\ allocation[i].status = "ACTIVE"
        /\ Load(t, [kind |-> "reverse", allocation |-> i], {posting} \cup ReversalLocks(i))

EnterReversal(t) ==
    /\ Granted(t, {"reverse"})
    /\ LET a == allocation[op[t].allocation]
           row == payment[a.payment]
           rows == [c \in {a.charge} |-> charge[c]]
       IN  Keep(t, planReversal(a.amount, row, rows, a.charge), row, rows)

Unwind(S) ==
    [i \in DOMAIN allocation |->
        IF i \in S THEN [allocation[i] EXCEPT !.status = "REVERSED"] ELSE allocation[i]]

(* A mutation: the entry takes the posting event id of the allocation. *)
UnwoundUnderOldId(S) == {Entry("allocated", i, allocation[i].amount) : i \in S}

Unwound(S) == {Entry("unwound", i, allocation[i].amount) : i \in S}

ReverseRows(t) ==
    LET i == op[t].allocation
        a == allocation[i]
        was == fresh[t]
    IN
    /\ allocation' = Unwind({i})
    /\ charge' = Put(charge, a.charge,
          Reallocated(a.charge, was.charges[a.charge],
                      was.charges[a.charge].allocated - a.amount, 1))
    /\ payment' = Put(payment, a.payment,
          PaymentRow(a.payment, was.payment.status, was.payment.allocated - a.amount,
                     payment[a.payment].version + 1))
    /\ journal' = journal \cup Unwound({i})
    /\ UNCHANGED credit

(* The allocation must still be ACTIVE; charge and payment are written     *)
(* whatever their version.                                                 *)
CommitReversal(t) ==
    /\ pc[t] = "holding" /\ op[t].kind = "reverse"
    /\ IF allocation[op[t].allocation].status = "ACTIVE"
       THEN ReverseRows(t)
       ELSE UNCHANGED tables
    /\ Finish(t)

----------------------------------------------------------------------------
(* createCredit. *)

(* The posting date is in the charge's period unless the caller gives one. *)
LoadCredit(t) ==
    \E c \in Charge, n \in Cents, posting \in Period :
        /\ charge[c].status # "ABSENT"
        /\ \E kind \in {"credit", "datedCredit"} :
              /\ kind = "credit" => posting = ChargePeriod[c]
              /\ Load(t, [kind |-> kind, charge |-> c, amount |-> n], {posting})

(* A mutation: what is already allocated is not subtracted. *)
CreditableUnallocated(row, c) == ChargeAmount[c] - row.credited

Creditable(row, c) == ChargeAmount[c] - row.credited - row.allocated

EnterCredit(t) ==
    /\ Granted(t, {"credit", "datedCredit"})
    /\ Keep(t, op[t].amount <= Creditable(charge[op[t].charge], op[t].charge),
            NoPayment, [c \in {op[t].charge} |-> charge[c]])

CommitCredit(t) ==
    LET c == op[t].charge
        n == op[t].amount
        was == fresh[t].charges[c]
    IN
    /\ pc[t] = "holding" /\ op[t].kind \in {"credit", "datedCredit"}
    /\ Len(credit) < MaxCredits
    /\ credit' = Append(credit, [charge |-> c, amount |-> n])
    /\ charge' = Put(charge, c, Recredited(c, was, was.credited + n))
    /\ journal' = journal \cup {Entry("credit", Len(credit) + 1, n)}
    /\ UNCHANGED <<payment, allocation>>
    /\ Finish(t)

----------------------------------------------------------------------------
(* applyProviderReversal. *)

ActiveOf(m) ==
    {i \in DOMAIN allocation : allocation[i].payment = m /\ allocation[i].status = "ACTIVE"}

ChargesOf(S) == {allocation[i].charge : i \in S}

(* The allocations and their charges are read here, before the locks. *)
LoadProviderReversal(t) ==
    \E m \in Payment :
        /\ payment[m].status \notin {"ABSENT", "REVERSED"}
        /\ Load(t,
                [kind |-> "providerReversal", payment |-> m, rows |-> ActiveOf(m),
                 charges |-> [c \in ChargesOf(ActiveOf(m)) |-> charge[c]]],
                {PaymentPeriod[m]} \cup {ChargePeriod[c] : c \in ChargesOf(ActiveOf(m))})

EnterProviderReversal(t) ==
    Granted(t, {"providerReversal"}) /\ Keep(t, TRUE, NoPayment, <<>>)

StillActive(t) == {i \in op[t].rows : allocation[i].status = "ACTIVE"}

ReceiptReturned(m) == {Entry("returned", m, PaymentAmount[m])}

(* Every unwound allocation updates its charge from the row read before    *)
(* the locks: the last of those to one charge decides its totals.          *)
CommitProviderReversal(t) ==
    LET m == op[t].payment
        S == StillActive(t)
        to(c) == {i \in S : allocation[i].charge = c}
    IN
    /\ pc[t] = "holding" /\ op[t].kind = "providerReversal"
    /\ allocation' = Unwind(S)
    /\ \E last \in [ChargesOf(S) -> S] :
          /\ \A c \in ChargesOf(S) : last[c] \in to(c)
          /\ charge' = [c \in Charge |->
                IF c \in ChargesOf(S)
                THEN LET stale == op[t].charges[c] IN
                     Reallocated(c, stale, stale.allocated - allocation[last[c]].amount,
                                 Cardinality(to(c)))
                ELSE charge[c]]
    /\ payment' = Put(payment, m, PaymentRow(m, "REVERSED", 0, payment[m].version + 1))
    /\ journal' = journal \cup Unwound(S) \cup ReceiptReturned(m)
    /\ UNCHANGED credit
    /\ Finish(t)

----------------------------------------------------------------------------
Next ==
    \/ \E p \in Period : Generate(p)
    \/ \E m \in Payment : Ingest(m)
    \/ \E t \in Session :
          \/ LoadApproval(t) \/ EnterApproval(t) \/ CommitApproval(t)
          \/ LoadReversal(t) \/ EnterReversal(t) \/ CommitReversal(t)
          \/ LoadCredit(t) \/ EnterCredit(t) \/ CommitCredit(t)
          \/ LoadProviderReversal(t) \/ EnterProviderReversal(t) \/ CommitProviderReversal(t)
          \/ Rollback(t)

Spec == Init /\ [][Next]_vars

----------------------------------------------------------------------------
(* Properties. *)

ChargeFields == [status : {"ABSENT", "POSTED", "SETTLED", "VOIDED"},
                 allocated : Nat, credited : Nat, open : Int, version : Nat]
PaymentFields == [status : {"ABSENT", "UNAPPLIED", "PARTIALLY_ALLOCATED", "ALLOCATED", "REVERSED"},
                  allocated : Nat, version : Nat]

(* Every row has the columns and the codes the schema gives it, and no     *)
(* total is negative.                                                      *)
TypeOK ==
    /\ charge \in [Charge -> ChargeFields]
    /\ payment \in [Payment -> PaymentFields]
    /\ \A i \in DOMAIN allocation :
          allocation[i] \in [payment : Payment, charge : Charge, amount : Nat \ {0},
                             status : {"ACTIVE", "REVERSED"}]
    /\ \A i \in DOMAIN credit : credit[i] \in [charge : Charge, amount : Nat \ {0}]
    /\ \A e \in journal : e.event \in DOMAIN Debited /\ e.amount \in Nat \ {0}
    /\ pc \in [Session -> {"idle", "waiting", "holding"}]
    /\ locks \in [Session -> SUBSET Period]

AmountOf(S) == SumFunctionOnSet([i \in DOMAIN allocation |-> allocation[i].amount], S)

ActiveOn(c) ==
    {i \in DOMAIN allocation : allocation[i].charge = c /\ allocation[i].status = "ACTIVE"}

CreditsOn(c) ==
    SumFunctionOnSet([i \in DOMAIN credit |-> credit[i].amount],
                     {i \in DOMAIN credit : credit[i].charge = c})

(* financial-model.md of every charge: the maintained open balance is what *)
(* its ACTIVE allocations and its credits leave of it, kept in step by     *)
(* every write path.                                                       *)
OpenIsOwed ==
    \A c \in Charge : charge[c].status # "ABSENT" =>
        charge[c].open = ChargeAmount[c] - AmountOf(ActiveOn(c)) - CreditsOn(c)

(* The columns of a charge agree with one another and the open balance is  *)
(* never negative, although a reversal and a credit each write some of     *)
(* them from what they read, without comparing versions.                   *)
RowsInStep ==
    \A c \in Charge : charge[c].status # "ABSENT" =>
        /\ charge[c].open = ChargeAmount[c] - charge[c].allocated - charge[c].credited
        /\ charge[c].open >= 0
        /\ charge[c].status = nextChargeStatus(c, charge[c].allocated, charge[c].credited)

(* Every payment that is not REVERSED, whoever reversed or approved        *)
(* meanwhile: its allocated total is that of its ACTIVE allocations, never *)
(* more than was received, and its status follows from it                  *)
(* (planAllocation, nextTransactionStatus).                                *)
PaymentsInStep ==
    \A m \in Payment :
        payment[m].status \notin {"ABSENT", "REVERSED"} =>
            /\ payment[m].allocated = AmountOf(ActiveOf(m))
            /\ payment[m].allocated <= PaymentAmount[m]
            /\ payment[m].status = nextTransactionStatus(m, "UNAPPLIED", payment[m].allocated)

(* approve: what is committed is what the approver saw.  When allocations  *)
(* are added, the payment and the charges are still the rows of the page   *)
(* the approval was sent from.                                             *)
ApprovedAsSeen ==
    [][Len(allocation') > Len(allocation) =>
          \E t \in Session :
              /\ op[t].kind = "approve" /\ pc[t] = "holding" /\ pc'[t] = "idle"
              /\ payment[op[t].payment].version = op[t].seenPayment
              /\ \A c \in DOMAIN op[t].lines : charge[c].version = op[t].seenCharges[c]]_vars

(* The subledger says what the rows say, whatever raced: receivables are   *)
(* the charges less credits and ACTIVE allocations, cash is the payments   *)
(* not REVERSED, unapplied cash what of it no allocation draws on.         *)
LedgerFollowsRows ==
    LET kept == {m \in Payment : payment[m].status \notin {"ABSENT", "REVERSED"}}
        posted == {c \in Charge : charge[c].status # "ABSENT"}
        active == AmountOf({i \in DOMAIN allocation : allocation[i].status = "ACTIVE"})
        received == SumFunctionOnSet(PaymentAmount, kept)
        billed == SumFunctionOnSet([c \in Charge |-> ChargeAmount[c] - CreditsOn(c)], posted)
    IN
    /\ LedgerBalance("CASH") = received
    /\ LedgerBalance("UNAPPLIED") = active - received
    /\ LedgerBalance("AR") = billed - active

(* A payment the provider has taken back stays REVERSED with nothing       *)
(* allocated: no approval or reversal that was under way revives it.       *)
ReversalIsFinal ==
    [][\A m \in Payment :
          payment[m].status = "REVERSED"
              => payment'[m].status = "REVERSED" /\ payment'[m].allocated = 0]_vars

(* integration-contract.md: allocations are unwound first, then the        *)
(* receipt, so that unapplied cash, a credit balance, is never negative.   *)
UnappliedNeverNegative == LedgerBalance("UNAPPLIED") <= 0
=============================================================================
