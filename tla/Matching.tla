------------------------------ MODULE Matching ------------------------------
(***************************************************************************)
(* The matching engine (packages/domain matching/engine.ts) over the rows  *)
(* generateFor gives it, and what becomes of a payment that is proposed,   *)
(* approved in part, and proposed again.                                   *)
(*                                                                         *)
(* A reference, a word of a memo and a word of a name are model values.    *)
(* Charges are numbered in the order of their due dates, ties by id, which *)
(* is the order of every list of the engine.  Scores are in tenths.        *)
(***************************************************************************)
EXTENDS Integers, FiniteSets, Sequences, FiniteSetsExt, SequencesExt

CONSTANTS
    DueDate, PeriodOf,           \* of the charges: days, periods
    Tenant, ReferencesOf,        \* [Tenant -> the references of it and its leases]
    NameTokens,                  \* [Tenant -> the words of its name]
    PostedDate,                  \* the day of the payment
    Books,                       \* the initial books, see Init
    CombinationSize,             \* MAX_COMBINATION_SIZE
    SearchLimit,                 \* COMBINATION_SEARCH_LIMIT
    CandidateLimit               \* CANDIDATE_CHARGE_LIMIT

\* book: tenant, open: of each charge; left: of the payment; closed: periods;
\*       reference, memoReferences, memoTokens: the payment's text;
\*       twin: another payment has the same amount, date and reference.
\* category: of the exception opened by the ingestion.
\* fresh: the proposals were made for the book as it is.
VARIABLES book, proposals, fresh, category
vars == <<book, proposals, fresh, category>>

Charge == DOMAIN DueDate
SumOpen(b, cs) == SumFunctionOnSet(b.open, cs)

\* A book that rows can be; a payment that is matched is of money received.
BookFits(b) ==
  /\ DOMAIN b = {"tenant", "open", "left", "closed", "twin", "reference", "memoReferences", "memoTokens"}
  /\ b.tenant \in [Charge -> Tenant] /\ b.open \in [Charge -> Nat] /\ b.left \in Nat
MatchingAssumption ==
  /\ DueDate \in Seq(Nat) /\ {CombinationSize, SearchLimit, CandidateLimit} \subseteq Nat
  /\ \A b \in Books: BookFits(b) /\ b.left > 0

\* The query takes the oldest charges of the property, settled ones included,
\* and drops those with no balance only afterwards.
Candidates(b) == {c \in Charge: c <= CandidateLimit}
Payable(b) == {c \in Candidates(b): b.open[c] > 0 /\ PeriodOf[c] \notin b.closed}

----------------------------------------------------------------------------
(* References                                                              *)

Claims(r) == {t \in Tenant: r \in ReferencesOf[t]}
\* A reference two tenants claim is in the index, for nobody.
Indexed(r) == Cardinality(Claims(r)) = 1
Claimant(r) == CHOOSE t \in Tenant: r \in ReferencesOf[t]

NoHit == [tenant |-> "none", points |-> 0]
resolveReference(b) ==
  LET known == SelectSeq(b.memoReferences, Indexed)
  IN IF Indexed(b.reference) THEN [tenant |-> Claimant(b.reference), points |-> 400]
     ELSE IF known # <<>> THEN [tenant |-> Claimant(Head(known)), points |-> 280]
     ELSE NoHit

\* Tenths of WEIGHT_DESCRIPTION_MAX times the Jaccard similarity, rounded.
Similarity(left, right) ==
  IF left = {} \/ right = {} THEN 0
  ELSE LET both == Cardinality(left \cap right)
           all == Cardinality(left \cup right)
       IN (200 * both + all) \div (2 * all)

\* resolveByDescription keeps the best three; no instance has more tenants.
Resembling(b) == {t \in Tenant: Similarity(NameTokens[t], b.memoTokens) > 0}

----------------------------------------------------------------------------
(* Subsets and fills                                                       *)

(* A mutation: the first subset found stays. *)
FirstOf(best, found) == IF best = {} THEN found ELSE best

Fewer(best, found) == IF best = {} \/ Cardinality(found) < Cardinality(best) THEN found ELSE best

\* The charges that are looked at, oldest first: the pool.
FirstFew(cs) == {c \in cs: Cardinality({d \in cs: d < c}) < SearchLimit}

\* current: the charges being tried; best: the fewest so far, {} for none.
SearchState == [current: SUBSET Charge, remaining: Nat, best: SUBSET Charge]

\* search, entered with the loop that goes through the charges from its start.
Entered(s, loop) ==
  LET size == Cardinality(s.current) IN
  IF s.remaining = 0 /\ s.current # {} THEN Fewer(s.best, s.current)
  ELSE IF size >= CombinationSize \/ (s.best # {} /\ size + 1 >= Cardinality(s.best)) THEN s.best
  ELSE loop[s]

With(s, c, cents) == [s EXCEPT !.current = @ \cup {c}, !.remaining = @ - cents]

\* loop[i]: from charge i on.  What is payable has something open.
findExactSubset(b, cs) ==
  LET pool == FirstFew(cs)
      loop[i \in 1 .. Len(DueDate) + 1] ==
        [s \in SearchState |->
           IF i > Len(DueDate) THEN s.best
           ELSE IF i \notin pool \/ b.open[i] > s.remaining THEN loop[i + 1][s]
           ELSE loop[i + 1][[s EXCEPT !.best = Entered(With(s, i, b.open[i]), loop[i + 1])]]]
  IN Entered([current |-> {}, remaining |-> b.left, best |-> {}], loop[1])

\* Oldest first, as far as the payment goes: [charge -> cents].
Fill(b, cs) ==
  LET before(c) == SumOpen(b, {d \in cs: d < c})
  IN [c \in {d \in cs: before(d) < b.left} |-> Min({b.open[c], b.left - before(c)})]

InFull(b, cs) == [c \in cs |-> b.open[c]]
Allocated(lines) == SumFunction(lines)

----------------------------------------------------------------------------
(* Proposals                                                               *)

\* The horizon is 45 days and the weight 15 points.
DateScore(lines) ==
  LET due == DueDate[Min(DOMAIN lines)]
      distance == IF due > PostedDate THEN due - PostedDate ELSE PostedDate - due
  IN IF distance >= 45 THEN 0 ELSE (4515 - 100 * distance) \div 30

Draft(strategy, lines, reference, points) ==
  [strategy |-> strategy, lines |-> lines, reference |-> reference,
   score |-> reference + points + DateScore(lines)]

Exact(b, cs) == {c \in cs: b.open[c] = b.left}

DraftsForTenant(b, hit) ==
  LET cs == {c \in Payable(b): b.tenant[c] = hit.tenant}
      exact == Exact(b, cs)
      subset == findExactSubset(b, cs)
      total == SumOpen(b, cs)
  IN IF cs = {} THEN {}
     ELSE {Draft("EXACT_REFERENCE_AND_AMOUNT", InFull(b, {c}), hit.points, 300):
             c \in {d \in exact: Cardinality({e \in exact: e < d}) < 2}}
     \cup {Draft("COMBINED_CHARGES", InFull(b, s), hit.points, 240):
             s \in {t \in {subset}: exact = {} /\ Cardinality(t) > 1}}
     \cup {Draft("REFERENCE_PARTIAL_AMOUNT", Fill(b, s), hit.points, 120):
             s \in {t \in {cs}: exact = {} /\ b.left < total}}
     \cup {Draft("OVERPAYMENT_WITH_REMAINDER", InFull(b, s), hit.points, 100):
             s \in {t \in {cs}: b.left > total}}

DraftsWithoutReference(b) ==
  LET exact == Exact(b, Payable(b))
      owedBy(t) == {c \in Payable(b): b.tenant[c] = t}
  IN {Draft("EXACT_AMOUNT_SINGLE_CHARGE", InFull(b, s), 0, 360):
        s \in {t \in {exact}: Cardinality(t) = 1}}
     \cup {Draft("DESCRIPTION_HEURISTIC", Fill(b, owedBy(t)), 0,
                 Similarity(NameTokens[t], b.memoTokens)):
             t \in {u \in Resembling(b): owedBy(u) # {}}}

\* The list is at most five long and these are at most four: the order is that
\* of the page.
generateSuggestions(b) ==
  IF b.left = 0 THEN {}
  ELSE IF resolveReference(b) # NoHit THEN DraftsForTenant(b, resolveReference(b))
  ELSE DraftsWithoutReference(b)

Tied(ps) == \E p, q \in ps: p # q /\ p.score = q.score /\ \A r \in ps: r.score <= p.score

\* A payment with one proposal that a reference backs and that uses all of it.
Confident(b, ps) ==
  /\ Cardinality(ps) = 1
  /\ \A p \in ps: p.reference > 0 /\ Allocated(p.lines) = b.left

\* classifyTransaction on what the ingestion knows: no tenant's balance.
Classified(b, ps) ==
  IF Confident(b, ps) THEN "none"
  ELSE IF b.twin THEN "SUSPECTED_DUPLICATE"
  ELSE IF Tied(ps) \/ Cardinality(ps) > 1 THEN "AMBIGUOUS_MATCH"
  ELSE "MISSING_REFERENCE"

----------------------------------------------------------------------------
(* A payment and its proposals over time                                   *)

Init == book \in Books /\ proposals = {} /\ fresh = FALSE /\ category = "new"

\* The transaction that stores the payment.
Ingest ==
  /\ category = "new"
  /\ proposals' = generateSuggestions(book)
  /\ category' = Classified(book, proposals')
  /\ fresh' = TRUE
  /\ UNCHANGED book

\* An approver takes a proposal: it and the others are gone, and the balances
\* they were made for.
Approve(p) ==
  /\ book' = [book EXCEPT !.left = @ - Allocated(p.lines),
                          !.open = [c \in Charge |->
                             IF c \in DOMAIN p.lines THEN @[c] - p.lines[c] ELSE @[c]]]
  /\ proposals' = {} /\ fresh' = FALSE /\ UNCHANGED category

\* The worker of MATCH_SUGGESTIONS, while a rest is left.
Regenerate ==
  /\ category # "new" /\ ~fresh /\ book.left > 0
  /\ proposals' = generateSuggestions(book) /\ fresh' = TRUE
  /\ UNCHANGED <<book, category>>

Next == Ingest \/ Regenerate \/ \E p \in proposals: Approve(p)
Spec == Init /\ [][Next]_vars

----------------------------------------------------------------------------
(* Properties                                                              *)

Owed(t) == {c \in Payable(book): book.tenant[c] = t}
ExactSubsets(t) == {s \in SUBSET FirstFew(Owed(t)): s # {} /\ SumOpen(book, s) = book.left}

\* Every proposal can be approved as it stands: it takes what is open of
\* charges of one tenant in open periods, and no more than is left.
Approvable(p) ==
  /\ DOMAIN p.lines # {} /\ \E t \in Tenant: DOMAIN p.lines \subseteq Owed(t)
  /\ \A c \in DOMAIN p.lines: p.lines[c] \in 1 .. book.open[c]
  /\ Allocated(p.lines) <= book.left

\* Fewer charges first, then earlier due dates.
NoLater(s, t) == s = t \/ \E c \in s \ t: \A d \in Charge: d < c => (d \in s <=> d \in t)
Preferred(s, t) == \/ Cardinality(s) < Cardinality(t)
                   \/ Cardinality(s) = Cardinality(t) /\ NoLater(s, t)

\* A proposal keeps the promise of its strategy; a combination is the one that
\* findExactSubset prefers among all that come to the payment.
KeepsPromise(p) ==
  /\ p.strategy \in {"EXACT_REFERENCE_AND_AMOUNT", "EXACT_AMOUNT_SINGLE_CHARGE",
                     "COMBINED_CHARGES"}
     => Allocated(p.lines) = book.left /\ p.lines = InFull(book, DOMAIN p.lines)
  /\ p.strategy = "COMBINED_CHARGES"
     => \A t \in Tenant: \A s \in ExactSubsets(t):
          DOMAIN p.lines \subseteq Owed(t) => Preferred(DOMAIN p.lines, s)
  /\ p.strategy \in {"REFERENCE_PARTIAL_AMOUNT", "DESCRIPTION_HEURISTIC"}
     => \A c \in DOMAIN p.lines, d \in Payable(book):
          (d < c /\ book.tenant[c] = book.tenant[d])
          => d \in DOMAIN p.lines /\ p.lines[d] = book.open[d]

\* A known reference speaks for its tenant alone.  What finishes the payment
\* with the charges searched is found, and something is found to pay at all,
\* unless the payment is the sum of more charges than a combination may have.
ReferenceHonoured ==
  LET hit == resolveReference(book) IN
  hit # NoHit =>
    /\ \A p \in proposals: DOMAIN p.lines \subseteq Owed(hit.tenant)
    /\ (\E s \in ExactSubsets(hit.tenant): Cardinality(s) <= CombinationSize)
       => \E p \in proposals: Allocated(p.lines) = book.left
    /\ proposals # {} \/ SumOpen(book, Owed(hit.tenant)) \in {0, book.left}

\* Whatever was approved before: proposals fit the books as they are, say what
\* their strategy says, of all exact combinations the shortest is found, and a
\* payment ingested without an exception has one proposal that finishes it.
ProposalsSound ==
  /\ \A p \in proposals: Approvable(p) /\ KeepsPromise(p)
  /\ fresh => ReferenceHonoured
  /\ category = "none" => Cardinality(proposals) = 1 \/ book.left = 0
=============================================================================
