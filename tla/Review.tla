------------------------------- MODULE Review -------------------------------
(***************************************************************************)
(* The review of one payment: the proposals of the matching engine, the    *)
(* pages accountants act on, their requests, and the exceptions that tell  *)
(* what is wrong with the payment (suggestions.service.ts,                 *)
(* exceptions.service.ts, the mutations of allocations.service.ts and      *)
(* charges.service.ts as seen from there, and the workbench of the web     *)
(* client).                                                                *)
(*                                                                         *)
(* A request says what its sender's page showed, and reaches the server    *)
(* late, twice, or never.  Approvals, reversals and credits of the payment *)
(* hold period locks that exclude each other; proposals and exceptions are *)
(* also written without any lock, by workers and by persons.               *)
(***************************************************************************)
EXTENDS Idempotency, Exceptions, FiniteSetsExt, SequencesExt

CONSTANTS
    Charge, ChargeAmount, PaymentAmount,  \* the rows, and their amounts in cents
    Session,         \* database sessions
    MaxRequests,     \* bound: requests sent; each mutation has a key of its own
    MaxRegenerations \* bound: runs of the suggestion engine

ASSUME ReviewAssumption ==
  /\ MaxRequests \in Nat /\ MaxExceptions \in Nat /\ Key = 1 .. MaxRequests
  /\ IsFiniteSet(Charge) /\ ChargeAmount \in [Charge -> Nat] /\ PaymentAmount \in Nat

VARIABLES
    pay, charge,   \* the payment row and the charge rows
    allocs,        \* the allocation rows, in order
    reversals,     \* [allocation -> reversal rows that name it]
    credits,       \* the requests the credit rows were made for
    suggestion,    \* [fingerprint -> row]
    request,       \* the requests sent so far
    session,       \* what each database session is doing
    regenerations, purged

moneyVars == <<pay, charge, allocs, reversals, credits>>
boundVars == <<regenerations, purged>>
vars == <<moneyVars, suggestion, exception, key, request, session, boundVars>>

Unapplied == PaymentAmount - pay.allocated
Open(c) == ChargeAmount[c] - charge[c].allocated - charge[c].credited

\* The engine proposes to settle a charge as far as the payment goes.  What
\* it chooses among charges is the subject of Matching.
Fingerprint == {f \in Charge \X (1 .. PaymentAmount): f[2] <= ChargeAmount[f[1]]}
Drafts(p, rows) ==
  IF p.reversed THEN {}
  ELSE {f \in Fingerprint:
          f[2] = Min({PaymentAmount - p.allocated,
                      ChargeAmount[f[1]] - rows[f[1]].allocated - rows[f[1]].credited})}

NoSuggestion == [status |-> "none", payment |-> 0, charge |-> 0]

(* A mutation: only the payment is compared. *)
IsStalePayment(f) == suggestion[f].payment # pay.version

\* isSuggestionStale, against the rows as they are.
IsStale(f) == \/ suggestion[f].payment # pay.version
              \/ suggestion[f].charge # charge[f[1]].version

\* What stands to be clicked on the workbench.
Offered(f) == suggestion[f].status = "PROPOSED" /\ ~IsStale(f)

\* Replacing the proposals by those of rows p and c: what is not reproduced is
\* superseded, what is reproduced is PROPOSED, whatever it was.
Stored(p, rows) ==
  [f \in Fingerprint |->
     IF f \in Drafts(p, rows)
     THEN [status |-> "PROPOSED", payment |-> p.version, charge |-> rows[f[1]].version]
     ELSE IF suggestion[f].status = "PROPOSED"
     THEN [suggestion[f] EXCEPT !.status = "SUPERSEDED"] ELSE suggestion[f]]

Idle == [at |-> "idle"]
At(s, phase) == session[s].at = phase
Go(s, state) == session' = [session EXCEPT ![s] = state]
\* A session that holds the period locks of the payment and its charges.
Locked(s) == session[s].at \in {"entered", "reversing"}
Free == \A s \in Session: ~Locked(s)

Init ==
  /\ KeyInit /\ ExceptionInit
  /\ pay = [allocated |-> 0, reversed |-> FALSE, version |-> 0]
  /\ charge = [c \in Charge |-> [allocated |-> 0, credited |-> 0, version |-> 0]]
  /\ allocs = <<>> /\ reversals = <<>> /\ credits = <<>>
  /\ suggestion = [f \in Fingerprint |->
       IF f \in Drafts(pay, charge) THEN [NoSuggestion EXCEPT !.status = "PROPOSED"]
       ELSE NoSuggestion]
  /\ request = <<>>
  /\ session = [s \in Session |-> Idle]
  /\ regenerations = 0 /\ purged = {}

----------------------------------------------------------------------------
(* Requests                                                                *)

Send(r) == /\ Len(request) < MaxRequests
           /\ request' = Append(request, r)
           /\ UNCHANGED <<moneyVars, suggestion, exception, key, session, boundVars>>

\* onApprove: the versions are those the page shows.
SendApprove == \E f \in Fingerprint:
  /\ Offered(f)
  /\ Send([op |-> "approve", what |-> f, seen |-> pay.version,
           shown |-> charge[f[1]].version])

SendReverse == \E a \in DOMAIN allocs:
  /\ allocs[a].active
  /\ Send([op |-> "reverse", what |-> a, seen |-> 0, shown |-> 0])

SendCredit == \E c \in Charge:
  /\ Open(c) > 0
  /\ Send([op |-> "credit", what |-> c, seen |-> 0, shown |-> 0])

\* The panel is there for an exception that is not resolved.
SendResolve == \E x \in Unresolved, r \in Resolution:
  Send([op |-> "resolve", what |-> x, seen |-> exception[x].version,
        shown |-> exception[x].category, as |-> r])

SendAssign == \E x \in Unresolved:
  Send([op |-> "assign", what |-> x, seen |-> exception[x].version, shown |-> 0])

SendReopen == \E x \in ExceptionId:
  /\ exception[x].status = "RESOLVED"
  /\ Send([op |-> "reopen", what |-> x, seen |-> exception[x].version, shown |-> 0])

\* Request i comes, perhaps again, and an idle session takes it.
Arrives(i, op, s) == i \in DOMAIN request /\ request[i].op = op /\ At(s, "idle")

----------------------------------------------------------------------------
(* Mutations with a key: approve, reverse, credit                          *)

\* The claim, and what is read before the locks: for an approval, that the
\* proposal is still PROPOSED, and its lines.
Begin(s) == \E i \in DOMAIN request:
  /\ \E op \in {"approve", "reverse", "credit"}: Arrives(i, op, s)
  /\ request[i].op = "approve" => suggestion[request[i].what].status = "PROPOSED"
  /\ Claim(i)
  /\ Go(s, [at |-> "claimed", i |-> i])
  /\ UNCHANGED <<moneyVars, suggestion, exception, request, boundVars>>

\* The checks under the locks, and for an approval the open exception of the
\* payment, which is looked for last.
Enter(s, op, found) ==
  /\ At(s, "claimed") /\ request[session[s].i].op = op /\ Free
  /\ Go(s, [at |-> "entered", i |-> session[s].i, found |-> found])
  /\ UNCHANGED <<moneyVars, suggestion, exception, key, request, boundVars>>

EnterApprove(s) == \E found \in 0 .. MaxExceptions:
  /\ Enter(s, "approve", found)
  /\ LET r == request[session[s].i] IN
       /\ pay.version = r.seen /\ charge[r.what[1]].version = r.shown
       /\ ~pay.reversed
       /\ r.what[2] <= Min({Unapplied, Open(r.what[1])})
  /\ FoundOpen(found)

\* planReversal: no total falls below zero.
EnterReverse(s) ==
  /\ Enter(s, "reverse", 0)
  /\ LET a == allocs[request[session[s].i].what] IN
       /\ a.active
       /\ a.cents <= Min({pay.allocated, charge[a.charge].allocated})

EnterCredit(s) == Enter(s, "credit", 0) /\ Open(request[session[s].i].what) > 0

Commit(s, op) == /\ At(s, "entered") /\ request[session[s].i].op = op
                 /\ Complete(session[s].i) /\ Go(s, Idle)
                 /\ UNCHANGED <<request, boundVars>>

\* Evidence, counted without a lock.  Credits count when their charge was ever
\* allocated from this payment.
Evidence == [ALLOCATED |-> Len(allocs),
             REVERSED |-> SumFunction(reversals),
             CREDIT_ISSUED |-> Cardinality({i \in DOMAIN credits:
               \E a \in DOMAIN allocs: allocs[a].charge = request[credits[i]].what})]
Since(x) == [r \in FinancialResolutions |-> Evidence[r] - exception[x].since[r]]

Allocate(row, n) == [row EXCEPT !.allocated = @ + n, !.version = @ + 1]

\* The proposal is taken, the others are not actionable any more.
Taken(f) == [g \in Fingerprint |->
               IF g = f THEN [suggestion[g] EXCEPT !.status = "APPROVED"]
               ELSE IF suggestion[g].status = "PROPOSED"
               THEN [suggestion[g] EXCEPT !.status = "SUPERSEDED"] ELSE suggestion[g]]

CommitApprove(s) ==
  /\ Commit(s, "approve")
  /\ LET i == session[s].i
         c == request[i].what[1]
         n == request[i].what[2]
     IN /\ allocs' = Append(allocs, [charge |-> c, cents |-> n, active |-> TRUE, by |-> i])
        /\ reversals' = Append(reversals, 0)
        /\ charge' = [charge EXCEPT ![c] = Allocate(@, n)]
        /\ pay' = Allocate(pay, n)
        /\ suggestion' = Taken(request[i].what)
        \* The stamps of both rows come from two clocks: the allocation may
        \* count as evidence for the exception it opens.
        /\ \E e \in {Evidence, [Evidence EXCEPT !.ALLOCATED = @ + 1]}:
             ReconcileAfterAllocation(session[s].found, Unapplied - n, e)
  /\ UNCHANGED credits

\* a loses its amount from its charge and the payment.
CommitReverse(s) ==
  /\ Commit(s, "reverse")
  /\ LET a == request[session[s].i].what IN
       /\ allocs' = [allocs EXCEPT ![a].active = FALSE]
       /\ reversals' = [reversals EXCEPT ![a] = @ + 1]
       /\ charge' = [charge EXCEPT ![allocs[a].charge] = Allocate(@, -allocs[a].cents)]
       /\ pay' = Allocate(pay, -allocs[a].cents)
  /\ UNCHANGED <<credits, suggestion, exception>>

CommitCredit(s) ==
  /\ Commit(s, "credit")
  /\ LET c == request[session[s].i].what IN
       charge' = [charge EXCEPT ![c].credited = @ + 1, ![c].version = @ + 1]
  /\ credits' = Append(credits, session[s].i)
  /\ UNCHANGED <<pay, allocs, reversals, suggestion, exception>>

\* A check that fails, a crash, or a lost connection: the transaction rolls back.
Abort(s) ==
  /\ session[s].at # "idle" /\ Go(s, Idle)
  /\ IF session[s].at = "claimed" \/ (At(s, "entered"))
     THEN RollBack(session[s].i) ELSE UNCHANGED key
  /\ UNCHANGED <<moneyVars, suggestion, exception, request, boundVars>>

\* A request that is older than a day may still be repeated by its client.
PurgeKey == \E k \in Key: /\ Purge(k) /\ purged = {} /\ purged' = {k}
                          /\ UNCHANGED <<moneyVars, suggestion, exception, request,
                                         session, regenerations>>

----------------------------------------------------------------------------
(* What the provider sends                                                 *)

\* applyProviderReversal reads the payment and its allocations, then locks.
LookReversal(s) ==
  /\ At(s, "idle") /\ ~pay.reversed /\ \A t \in Session: ~At(t, "looked") /\ ~At(t, "reversing")
  /\ Go(s, [at |-> "looked", unwound |-> {a \in DOMAIN allocs: allocs[a].active},
            rows |-> charge])
  /\ UNCHANGED <<moneyVars, suggestion, exception, key, request, boundVars>>

EnterReversal(s) == \E found \in 0 .. MaxExceptions:
  /\ At(s, "looked") /\ Free /\ FoundOpen(found)
  /\ Go(s, [at |-> "reversing", unwound |-> session[s].unwound, rows |-> session[s].rows,
            found |-> found])
  /\ UNCHANGED <<moneyVars, suggestion, exception, key, request, boundVars>>

\* A charge is written from the row that was read before the locks.
CommitReversal(s) ==
  /\ At(s, "reversing") /\ Go(s, Idle)
  /\ LET gone == {a \in session[s].unwound: allocs[a].active}
         rowBefore(c) == session[s].rows[c].allocated
         cents(c) == SumFunctionOnSet([a \in DOMAIN allocs |-> allocs[a].cents],
                                      {a \in gone: allocs[a].charge = c})
     IN /\ allocs' = [a \in DOMAIN allocs |->
                        [allocs[a] EXCEPT !.active = @ /\ a \notin gone]]
        /\ reversals' = [a \in DOMAIN allocs |-> reversals[a] + (IF a \in gone THEN 1 ELSE 0)]
        /\ charge' = [c \in Charge |->
             IF \E a \in gone: allocs[a].charge = c
             THEN [charge[c] EXCEPT !.allocated = Max({0, rowBefore(c) - cents(c)}),
                                    !.version = @ + 1]
             ELSE charge[c]]
  /\ pay' = [allocated |-> 0, reversed |-> TRUE, version |-> pay.version + 1]
  /\ OpenOrUpdate(session[s].found, "REVERSED_PAYMENT", Evidence)
  /\ UNCHANGED <<credits, suggestion, key, request, boundVars>>

\* The same external id with other values: ingest's conflict, without a lock.
FindConflict(s) == \E found \in 0 .. MaxExceptions:
  /\ At(s, "idle") /\ FoundOpen(found)
  /\ \A x \in ExceptionId: exception[x].category # "INTEGRATION_CONFLICT"
  /\ Go(s, [at |-> "conflict", found |-> found])
  /\ UNCHANGED <<moneyVars, suggestion, exception, key, request, boundVars>>

WriteConflict(s) ==
  /\ At(s, "conflict") /\ Go(s, Idle)
  /\ OpenOrUpdate(session[s].found, "INTEGRATION_CONFLICT", Evidence)
  /\ UNCHANGED <<moneyVars, suggestion, key, request, boundVars>>

----------------------------------------------------------------------------
(* Proposals again: a worker after an event, or a person                   *)

ReadPayment(s) ==
  /\ At(s, "idle") /\ regenerations < MaxRegenerations
  /\ regenerations' = regenerations + 1
  /\ Go(s, [at |-> "payment", pay |-> pay])
  /\ UNCHANGED <<moneyVars, suggestion, exception, key, request, purged>>

ReadCharges(s) ==
  /\ At(s, "payment")
  /\ Go(s, [at |-> "charges", pay |-> session[s].pay, rows |-> charge])
  /\ UNCHANGED <<moneyVars, suggestion, exception, key, request, boundVars>>

Store(s) ==
  /\ At(s, "charges") /\ Go(s, Idle)
  /\ suggestion' = Stored(session[s].pay, session[s].rows)
  /\ UNCHANGED <<moneyVars, exception, key, request, boundVars>>

----------------------------------------------------------------------------
(* Persons and exceptions                                                  *)

\* resolve loads the row, then counts the evidence, then writes.
LoadResolve(s) == \E i \in DOMAIN request, isController \in BOOLEAN:
  /\ Arrives(i, "resolve", s)
  /\ request[i].what \in Unresolved
  /\ ResolutionValid(request[i].as, Since(request[i].what),
                     IF pay.reversed THEN 0 ELSE Unapplied, isController)
  /\ Go(s, [at |-> "loaded", i |-> i])
  /\ UNCHANGED <<moneyVars, suggestion, exception, key, request, boundVars>>

CommitResolve(s) ==
  /\ At(s, "loaded") /\ Go(s, Idle)
  /\ LET i == session[s].i
         r == request[i]
     IN ResolveAt(r.what, r.seen, r.as, i,
                  pay.reversed \/ \E t \in Session: At(t, "reversing"))
  /\ UNCHANGED <<moneyVars, suggestion, key, request, boundVars>>

\* Assign and reopen write what follows from the row they load; the version
\* makes that one step.
Assign(s) == \E i \in DOMAIN request:
  /\ Arrives(i, "assign", s) /\ exception[request[i].what].status \in {"OPEN", "ASSIGNED"}
  /\ AssignAt(request[i].what, request[i].seen, "ASSIGNED")
  /\ UNCHANGED <<moneyVars, suggestion, key, request, session, boundVars>>

Reopen(s) == \E i \in DOMAIN request:
  /\ Arrives(i, "reopen", s) /\ exception[request[i].what].status = "RESOLVED"
  /\ ReopenAt(request[i].what, request[i].seen)
  /\ UNCHANGED <<moneyVars, suggestion, key, request, session, boundVars>>

----------------------------------------------------------------------------
Mutate(s) == \/ Begin(s) \/ EnterApprove(s) \/ EnterReverse(s) \/ EnterCredit(s)
             \/ CommitApprove(s) \/ CommitReverse(s) \/ CommitCredit(s) \/ Abort(s)

Serve(s) == \/ Mutate(s)
            \/ LookReversal(s) \/ EnterReversal(s) \/ CommitReversal(s)
            \/ FindConflict(s) \/ WriteConflict(s)
            \/ ReadPayment(s) \/ ReadCharges(s) \/ Store(s)
            \/ LoadResolve(s) \/ CommitResolve(s) \/ Assign(s) \/ Reopen(s)

Next == \/ SendApprove \/ SendReverse \/ SendCredit
        \/ SendResolve \/ SendAssign \/ SendReopen
        \/ PurgeKey
        \/ \E s \in Session: Serve(s)

Spec == Init /\ [][Next]_vars

----------------------------------------------------------------------------
(* Properties                                                              *)

\* A mutation is applied once, however often its request is repeated, in
\* parallel or a day later: an approval makes its allocation once, no two
\* approvals use what was seen of the same version of the payment, an
\* allocation is reversed once by accountants and provider together, and a
\* credit is given once as long as its record is kept.
EachRequestOnce ==
  /\ \A a, b \in DOMAIN allocs: a # b =>
       request[allocs[a].by].seen # request[allocs[b].by].seen
  /\ \A a \in DOMAIN reversals: reversals[a] <= 1
  /\ \A i, j \in DOMAIN credits: i # j /\ credits[i] = credits[j] => credits[i] \in purged

\* A proposal that a page offers can be approved: it takes no more than is left
\* of the payment and of the charge, although it was computed from rows that
\* were read one after the other, without a lock, at some earlier time.
FreshProposalsFit ==
  \A f \in Fingerprint: Offered(f) => ~pay.reversed /\ f[2] <= Min({Unapplied, Open(f[1])})

\* "A reversal always leaves an exception ... and it blocks the close until
\* they do" (transactions.service.ts:232): a reversed payment has an unresolved
\* blocking exception, unless a person resolved one after the reversal had
\* looked for it.
ReversalIsAnswered ==
  pay.reversed => \/ Blocking # {}
                  \/ \E x \in ExceptionId: exception[x].knew

\* Who resolves an exception resolves what the page showed: nobody has
\* recategorized it in between (the expectedVersion of exceptions.service.ts).
ResolvedAsSeen ==
  [][\A x \in ExceptionId:
       /\ exception[x].status # "RESOLVED" /\ exception'[x].status = "RESOLVED"
       /\ exception'[x].resolvedBy # 0
       => request[exception'[x].resolvedBy].shown = exception[x].category]_vars
=============================================================================
