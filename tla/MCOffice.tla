------------------------------ MODULE MCOffice ------------------------------
(***************************************************************************)
(* Instances for TLC of the modules that share no state with the others:   *)
(* a behaviour is one of Matching, Billing, CsvRows, Access, Assistant,    *)
(* Listing, Money, Figures, ImportPage or ClosePage, as part says; the     *)
(* variables of the rest are parked.  The bounds of each instance are in   *)
(* its WITH.                                                               *)
(***************************************************************************)
EXTENDS Integers, FiniteSets, SequencesExt

CONSTANT Parts  \* those of the run

VARIABLES
    part,
    book, proposals, fresh, category,
    lease, charges, shown, generated, amendments,
    file, scan, result,
    member, session, cookie, page, request, did, refused, sent, changes,
    run, called, rows, pending, retrieved, answer, audited, late,
    list, first, table, history, slot, loading, walk, touched,
    total, weights, parts, leftover, turn, read, text,
    charge, payment, paid, ledger, exception, busy, status, closing, snapshot, writes,
    batch, stored, importId, detail, validatedHash, validating, wanted, uploads, seen, queued,
    period, month, readiness, record, asking, acknowledged, made, confirming, pressed, settled,
    presses, closes, choices

matchingVars == <<book, proposals, fresh, category>>
billingVars == <<lease, charges, shown, generated, amendments>>
fileVars == <<file, scan, result>>
accessVars == <<member, session, cookie, page, request, did, refused, sent, changes>>
assistantVars == <<run, called, rows, pending, retrieved, answer, audited, late>>
listingVars == <<list, first, table, history, slot, loading, walk, touched>>
moneyVars == <<total, weights, parts, leftover, turn, read, text>>
figuresVars == <<charge, payment, paid, ledger, exception, busy, status, closing, snapshot, writes>>
importPageVars == <<batch, stored, importId, detail, validatedHash, validating, wanted, uploads, seen, queued>>
closePageVars == <<period, month, readiness, record, asking, acknowledged, made, confirming, pressed,
                   settled, presses, closes, choices>>
vars == <<part, matchingVars, billingVars, fileVars, accessVars, assistantVars,
          listingVars, moneyVars, figuresVars, importPageVars, closePageVars>>

----------------------------------------------------------------------------
(* Six charges of two tenants who share a reference; the bounds are the    *)
(* code's, scaled to six charges: the largest combination, the length of   *)
(* the search for it, and the charges that are candidates at all.          *)

Tenants == {"t1", "t2"}
Wordings ==
  {[reference |-> "r1", memo |-> <<>>, tokens |-> {}],
   [reference |-> "shared", memo |-> <<"shared", "r2">>, tokens |-> {"smith"}],
   [reference |-> "none", memo |-> <<>>, tokens |-> {"smith", "anna", "rent"}]}
Books ==
  {[tenant |-> t, open |-> o, left |-> n, closed |-> x, twin |-> FALSE,
    reference |-> w.reference, memoReferences |-> w.memo, memoTokens |-> w.tokens]:
     t \in {<<"t1", "t1", "t1", "t1", u, u>>: u \in Tenants}
          \cup {<<"t2", "t1", "t1", "t2", "t1", "t1">>},
     o \in {<<a, b, c, 2, d, 1>>: a \in {0, 1}, b \in {1, 2}, c \in {0, 1}, d \in {0, 3}},
     n \in {1, 2, 4, 5, 7, 8}, x \in {{}, {1}}, w \in Wordings}

M == INSTANCE Matching WITH
  DueDate <- <<10, 10, 20, 30, 50, 60>>, PeriodOf <- <<1, 1, 1, 1, 2, 2>>,
  Tenant <- Tenants,
  ReferencesOf <- [t \in Tenants |-> {"shared", IF t = "t1" THEN "r1" ELSE "r2"}],
  NameTokens <- [t \in Tenants |-> {"smith", IF t = "t1" THEN "anna" ELSE "bob"}],
  PostedDate <- 15, Books <- Books, CombinationSize <- 3, SearchLimit <- 4, CandidateLimit <- 5
ASSUME BooksFit == M!MatchingAssumption

----------------------------------------------------------------------------
(* February of a leap year and March; leases that begin and end within a   *)
(* month, with versions that overlap, follow each other or begin at once.  *)

Cal == INSTANCE Calendar
February == Cal!formatPeriodKey(2024, 2)
Day(d) == Cal!periodStart(February) + d - 1
Forever == Day(100)
Rent(n, from, to, amount) ==
  [schedule |-> "rent", number |-> n, from |-> from, to |-> to,
   amount |-> amount, prorate |-> TRUE, once |-> FALSE, dueDay |-> 31]
Fee(n, on) ==
  [schedule |-> "fee", number |-> n, from |-> on, to |-> Forever,
   amount |-> 7, prorate |-> FALSE, once |-> TRUE, dueDay |-> 1]
Lease(active, start, end, versions) ==
  [active |-> active, start |-> start, end |-> end, versions |-> versions]

B == INSTANCE Billing WITH
  Session <- {"s1", "s2"}, Schedule <- {"rent", "fee"}, Period <- {February, Cal!addPeriods(February, 1)},
  Leases <-
    {Lease(TRUE, t[1], t[2], vs):
       t \in {<<Day(1), Forever>>, <<Day(3), Day(40)>>},
       vs \in {{Rent(1, Day(-9), Day(20), 101), Rent(2, Day(10), Day(15), 101), Fee(1, Day(15))},
               {Rent(1, Day(1), Forever, 101), Rent(2, Day(15), Forever, 101)},
               {Rent(1, Day(1), Forever, 101), Rent(2, Day(1), Forever, 88), Fee(1, Day(35))}}}
    \cup {Lease(FALSE, Day(1), Forever, {Rent(1, Day(1), Forever, 101)}),
          Lease(TRUE, Day(1), Forever, {Rent(1, Day(1), Day(14), -101), Rent(2, Day(15), Day(40), -101)})},
  Version <- {Rent(0, Day(12), Forever, 88), Rent(0, Day(1), Forever, 0), Rent(0, Day(10), Day(33), 101)},
  EndDates <- {Day(14), Day(31)}, OpenEnded <- Forever, INTERMEDIATE_SCALE <- 5, MaxAmendments <- 1
ASSUME LeasesFit == B!BillingAssumption

----------------------------------------------------------------------------
(* Files written from tables, with every error a row can have, and texts   *)
(* nobody wrote.                                                           *)

Cells == INSTANCE CsvCells WITH MAX_SAFE_INTEGER <- 99999
Q == "\""
Header == << <<"I">>, <<"D">>, <<"A">>, <<"C">>, <<"R">> >>
TurnedHeader == << <<"R">>, <<"C">>, <<"A">>, <<" ", "D">>, <<"I">> >>
Line(id, date, amount, currency, reference) == <<id, date, amount, currency, reference>>
Plain == Line(<<"a">>, <<"d">>, <<"1">>, <<"u">>, <<>>)
GoodLines == {Line(i, <<"d">>, <<"1">>, <<"u">>, r):
                i \in {<<"a">>, <<"=", Q, "b">>}, r \in {<<>>, <<Q, ",">>, <<"r", "n">>}}
AmountCells == {Cells!formatCents(n): n \in {-205, 7, 99999}}
               \cup {<<"(", "1", ")">>, <<"$", "1", ",", "0", "0", "0">>, <<"1", "e", "5">>,
                    <<"-", "0">>, <<"+", "3">>, <<"1", ".", "0", "0", "1">>, <<"-", "1", ",", "0">>}
BadLines ==
  {[Plain EXCEPT ![2] = <<"x">>], [Plain EXCEPT ![3] = <<"0">>], [Plain EXCEPT ![3] = <<"x">>],
   [Plain EXCEPT ![4] = <<"e">>], [Plain EXCEPT ![4] = <<"x">>], [Plain EXCEPT ![1] = <<" ">>],
   [Plain EXCEPT ![5] = <<"x", "x", "x", "x">>], << <<"a">>, <<"d">> >>, << <<" ">> >>}
Tables ==
  {<<Header>> \o t: t \in {<<>>} \cup {<<b>>: b \in BadLines}
                       \cup {<<g, l>>: g \in GoodLines, l \in GoodLines \cup BadLines}}
  \cup {<< << <<Q>> >> >>}
  \cup {<<TurnedHeader, b, Plain>>: b \in BadLines}
  \cup {<<Header, [Plain EXCEPT ![3] = n]>>: n \in AmountCells}
  \cup {<<Header, b, g, g>>: b \in BadLines, g \in {l \in GoodLines: l[5] = <<>>}}
  \cup {<<Header, Plain, b, b, Plain>>: b \in {<< <<" ">> >>, [Plain EXCEPT ![2] = <<"x">>]}}
Written(lines, break) == FoldLeft(LAMBDA s, line: s \o Cells!toCsvRow(line) \o break, <<>>, lines)
Raw == {<<>>, <<" ", "n">>, <<Q>>, <<"I", ",", Q, "D", "n">>, <<"I", ",", "I", "n">>,
        <<"a", Q, ",", Q, Q>>}

F == INSTANCE CsvRows WITH
  Files <- {[text |-> Written(t, s), table |-> t]: t \in Tables, s \in {<<"n">>, <<"r", "n">>}}
           \cup {[text |-> x, table |-> <<>>]: x \in Raw},
  MaxRows <- 3, MaxFieldLength <- 3, GoodDate <- <<"d">>, OwnCurrency <- <<"u">>,
  ForeignCurrency <- <<"e">>, MAX_SAFE_INTEGER <- 99999
ASSUME FilesFit == F!CsvAssumption

----------------------------------------------------------------------------
(* Amounts split by up to three weights; every text of up to four of the   *)
(* characters amounts are made of, and some longer ones.                   *)

N == INSTANCE Money WITH
  MAX_SAFE_INTEGER <- 99999, Totals <- {-7, -2, 0, 1, 5, 8},
  WeightLists <- UNION {[1 .. n -> 0 .. 3]: n \in 1 .. 3},
  Texts <- UNION {[1 .. n -> {"(", ")", "$", " ", "-", "+", "0", "5", ".", ","}]: n \in 0 .. 4}
           \cup AmountCells
           \cup {<<"(", "$", "1", ",", "2", "3", "4", ".", "5", ")">>,
                 <<"1", "0", "0", "0", ".", "0", "1">>}
ASSUME AmountsFit == N!MoneyAssumption

----------------------------------------------------------------------------
(* One property of the organization and one of another, one session, one   *)
(* change of the membership.                                               *)

A == INSTANCE Access WITH
  OwnProperty <- {"p"}, ForeignProperty <- {"x"},
  Clicked <- {[action |-> "charge:generate", resolution |-> "none"],
              [action |-> "period:close", resolution |-> "none"],
              [action |-> "exception:resolve", resolution |-> "WRITTEN_OFF"]},
  MaxSessions <- 1, MaxChanges <- 1, MaxRequests <- 2

----------------------------------------------------------------------------
(* A payment of the exception's property and one of another; the limit of  *)
(* candidate charges hides the last.  Turns of one call, or of two.        *)

Call(tool, p) == [tool |-> tool, payment |-> p]
OneCall ==
  {Call(t, p): t \in {"get_transaction", "list_allocations", "get_match_evidence"}, p \in {"t", "u", "x"}}
  \cup {Call(t, "x"): t \in {"get_exception", "list_candidate_charges",
                             "get_tenant_payment_history", "no_such_tool"}}

S == INSTANCE Assistant WITH
  Payment <- {"t", "u"}, Allocation <- {"a1", "a2"}, ChargesByDue <- <<"c1", "c2", "c3">>,
  PropertyOf <- [p \in {"t", "u"} |-> IF p = "t" THEN "p" ELSE "q"],
  AllocationOf <- [a \in {"a1", "a2"} |-> IF a = "a1" THEN "t" ELSE "u"],
  Open <- {"c2", "c3"}, ChargeLimit <- 2, Invented <- "x",
  MaxToolCalls <- 3, MaxCitations <- 3, MaxNotes <- 2, Scopes <- {{"p"}, {"p", "q"}},
  Turns <- {<<c>>: c \in OneCall} \cup {<<c, Call("get_exception", "x")>>: c \in OneCall}
ASSUME AssistantFits == S!AssistantAssumption

----------------------------------------------------------------------------
(* Three rows, pages of one and of two, keys of one millisecond; a list of *)
(* each kind.                                                              *)

L == INSTANCE Listing WITH
  Row <- 1 .. 3, Key <- {2, 3}, Grain <- 2, Filter <- {"a", "b"},
  DEFAULT_PAGE_SIZE <- 1, MAX_PAGE_SIZE <- 2, First <- {0, 3},
  Lists <- {"exceptions", "receivables", "listProperties", "importRows"},
  MaxTouched <- 1, MaxVisits <- 3
ASSUME ListingFits == L!ListingAssumption

----------------------------------------------------------------------------
(* Three months and two charges; the payment that comes in is of the month *)
(* between them and can pay both, and the other one goes out.              *)

G == INSTANCE Figures WITH
  Charge <- {"c1", "c2"}, Payment <- {"in", "out"}, Incoming <- {"in"},
  ChargePeriod <- [c \in {"c1", "c2"} |-> IF c = "c1" THEN 1 ELSE 3],
  ChargeAmount <- [c \in {"c1", "c2"} |-> IF c = "c1" THEN 2 ELSE 1],
  PaymentPeriod <- [p \in {"in", "out"} |-> IF p = "in" THEN 2 ELSE 1],
  PaymentAmount <- [p \in {"in", "out"} |-> IF p = "in" THEN 2 ELSE 1],
  Months <- 3, MaxWrites <- 4, MaxClosing <- 1
ASSUME FiguresFit == G!FiguresAssumption

----------------------------------------------------------------------------
(* Two imports of two files, both without errors.                          *)

I == INSTANCE ImportPage WITH
  Import <- {1, 2}, Bytes <- {"a", "b"}, Valid <- {"a", "b"}, MaxUploads <- 2

----------------------------------------------------------------------------
(* A month in review and one still open, enough versions to close, reopen, *)
(* review and close the first again; one acknowledgement, with its reason. *)

Row(s, v) == [status |-> s, version |-> v, facts |-> {"UNAPPLIED_CASH_REMAINS"}]
C == INSTANCE ClosePage WITH
  Month <- {1, 2}, Code <- {"UNAPPLIED_CASH_REMAINS"}, NeedsReason <- {"UNAPPLIED_CASH_REMAINS"},
  Rows <- {<<Row("IN_REVIEW", 1), Row("OPEN", 0)>>},
  MaxVersions <- 5, MaxTicks <- 1, MaxPresses <- 2, MaxChoices <- 1
ASSUME PeriodsFit == C!ClosePageAssumption

----------------------------------------------------------------------------
ParkMatching == book = 0 /\ proposals = 0 /\ fresh = 0 /\ category = 0
ParkBilling == lease = 0 /\ charges = 0 /\ shown = 0 /\ generated = 0 /\ amendments = 0
ParkFile == file = 0 /\ scan = 0 /\ result = 0
ParkAccess == member = 0 /\ session = 0 /\ cookie = 0 /\ page = 0 /\ request = 0 /\ did = 0 /\ refused = 0 /\ sent = 0 /\ changes = 0
ParkAssistant == run = 0 /\ called = 0 /\ rows = 0 /\ pending = 0 /\ retrieved = 0 /\ answer = 0 /\ audited = 0 /\ late = 0
ParkListing == list = 0 /\ first = 0 /\ table = 0 /\ history = 0 /\ slot = 0 /\ loading = 0 /\ walk = 0 /\ touched = 0
ParkMoney == total = 0 /\ weights = 0 /\ parts = 0 /\ leftover = 0 /\ turn = 0 /\ read = 0 /\ text = 0
ParkFigures == charge = 0 /\ payment = 0 /\ paid = 0 /\ ledger = 0 /\ exception = 0 /\ busy = 0 /\ status = 0 /\ closing = 0 /\ snapshot = 0 /\ writes = 0
ParkImportPage == batch = 0 /\ stored = 0 /\ importId = 0 /\ detail = 0 /\ validatedHash = 0 /\ validating = 0 /\ wanted = 0 /\ uploads = 0 /\ seen = 0 /\ queued = 0
ParkClosePage == period = 0 /\ month = 0 /\ readiness = 0 /\ record = 0 /\ asking = 0 /\ acknowledged = 0 /\ made = 0 /\ confirming = 0 /\ pressed = 0 /\ settled = 0 /\ presses = 0 /\ closes = 0 /\ choices = 0

Choose ==
  /\ IF part = "matching" THEN M!Init ELSE ParkMatching
  /\ IF part = "billing" THEN B!Init ELSE ParkBilling
  /\ IF part = "file" THEN F!Init ELSE ParkFile
  /\ IF part = "access" THEN A!Init ELSE ParkAccess
  /\ IF part = "assistant" THEN S!Init ELSE ParkAssistant
  /\ IF part = "listing" THEN L!Init ELSE ParkListing
  /\ IF part = "money" THEN N!Init ELSE ParkMoney
  /\ IF part = "figures" THEN G!Init ELSE ParkFigures
  /\ IF part = "import page" THEN I!Init ELSE ParkImportPage
  /\ IF part = "close page" THEN C!Init ELSE ParkClosePage

Next ==
  /\ UNCHANGED part
  /\ IF part = "matching" THEN M!Next ELSE UNCHANGED matchingVars
  /\ IF part = "billing" THEN B!Next ELSE UNCHANGED billingVars
  /\ IF part = "file" THEN F!Next ELSE UNCHANGED fileVars
  /\ IF part = "access" THEN A!Next ELSE UNCHANGED accessVars
  /\ IF part = "assistant" THEN S!Next ELSE UNCHANGED assistantVars
  /\ IF part = "listing" THEN L!Next ELSE UNCHANGED listingVars
  /\ IF part = "money" THEN N!Next ELSE UNCHANGED moneyVars
  /\ IF part = "figures" THEN G!Next ELSE UNCHANGED figuresVars
  /\ IF part = "import page" THEN I!Next ELSE UNCHANGED importPageVars
  /\ IF part = "close page" THEN C!Next ELSE UNCHANGED closePageVars

Init == part \in Parts /\ Choose
Spec == Init /\ [][Next]_vars

----------------------------------------------------------------------------
(* The properties, each of its module.                                     *)

\* What the matching proposes fits the book it was made for.
ProposalsSound == part = "matching" => M!ProposalsSound

\* No day of a lease is billed twice, and none is left out, by one generation.
MonthBilledOnce == part = "billing" => B!MonthBilledOnce

\* Every row of an import is kept or has its error; what is written is read back.
RowsAccounted == part = "file" => F!RowsAccounted

\* Whoever acts was allowed to when the request arrived.
ActsWithinAccess == part = "access" => A!ActsWithinAccess

\* An answer cites what its caller may see and a tool returned.
AnswersAreGrounded == part = "assistant" => S!AnswersAreGrounded

\* Who walks a list to its end has seen what was there all along, once.
WalkSeesAll == part = "listing" => L!WalkSeesAll

\* Split, no cent is lost, and an amount is read as it is written.
MoneyExact == part = "money" => N!MoneyExact

\* A closed month stands as signed, and all figures of it agree.
ReadyMeansReconciled == part = "figures" => G!ReadyMeansReconciled

\* What is queued reached the page first, and an acceptance is spent by one close.
PagesActOnWhatTheyShow ==
  /\ part = "import page" => I!QueuedBytesWereSeen
  /\ part = "close page" => C!TicksSpentOnce
=============================================================================
