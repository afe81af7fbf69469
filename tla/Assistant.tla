----------------------------- MODULE Assistant ------------------------------
(***************************************************************************)
(* A run of the assistant on one exception (api assistant/): the tool loop *)
(* with its budgets, what each tool shows, the grounding of the answer,    *)
(* and the rows and audit events of the run.  The language model may ask   *)
(* for anything and cite anything; the mock provider follows its plan.     *)
(*                                                                         *)
(* A record is [id, of]: of is its property, "all" when it has none.  Text *)
(* is left out, but for what the mock provider reads in it.                *)
(***************************************************************************)
EXTENDS Naturals, FiniteSets, Sequences

CONSTANTS
    Payment, Allocation,   \* ids
    ChargesByDue,          \* the charges of the property, oldest first
    PropertyOf,            \* [payment -> property]
    AllocationOf,          \* [allocation -> payment it draws on]
    Open,                  \* the charges with an open balance
    ChargeLimit,           \* what list_candidate_charges takes
    Invented,              \* an id that no record has
    MaxToolCalls, MaxCitations, MaxNotes,  \* budget, list limits of the schema
    Scopes,                \* the properties the caller may see, by case
    Turns                  \* the calls a model asks for in one turn

Here == "p"                \* the property of the exception
Case == "exception"
TenantId == "tenant"
Record == Payment \cup Allocation \cup Open \cup {Case, TenantId}

\* Ids are of one record each; the exception has a payment of its property;
\* the limits leave room for one citation and one note.
AssistantAssumption ==
  /\ IsFiniteSet(Payment) /\ IsFiniteSet(Allocation) /\ IsFiniteSet(Open)
  /\ Payment \cap Allocation = {} /\ (Payment \cup Allocation) \cap Open = {}
  /\ {Case, TenantId} \cap (Payment \cup Allocation \cup Open) = {}
  /\ AllocationOf \in [Allocation -> Payment]
  /\ \E p \in Payment: PropertyOf[p] = Here
  /\ MaxToolCalls \in Nat /\ MaxCitations \in Nat \ {0} /\ MaxNotes \in Nat \ {0}

\* run: [status, phase, scope, provider, linked]; called: the tools the mock
\* has tried; rows: how each call went; pending: calls of the turn;
\* retrieved: ids returned by tools; answer; audited: denials and completions.
VARIABLES run, called, rows, pending, retrieved, answer, audited, late
vars == <<run, called, rows, pending, retrieved, answer, audited, late>>
callVars == <<called, rows, pending, retrieved>>

----------------------------------------------------------------------------
(* Tools                                                                   *)

Tools == {"get_exception", "get_transaction", "list_candidate_charges",
          "get_tenant_payment_history", "list_allocations", "get_match_evidence"}
NeedsPayment == {"get_transaction", "list_allocations", "get_match_evidence"}

Visible(p) == PropertyOf[p] \in run.scope

\* Who pays for the tenant: the payments behind allocations to its charges.
HistoryOf == {AllocationOf[a]: a \in Allocation}
(* A mutation: the history of a tenant shows every property's payments. *)
WholeHistory == HistoryOf

VisibleHistory == {p \in HistoryOf: Visible(p)}

\* The query takes the oldest charges, and settled ones are dropped after it.
CandidateCharges ==
  {ChargesByDue[i]: i \in {j \in DOMAIN ChargesByDue: j <= ChargeLimit}} \cap Open

\* What a tool refuses: an unknown name (as arguments that do not parse), an
\* unknown payment, or another property's.
Denied(c) ==
  \/ c.tool \notin Tools
  \/ c.tool \in NeedsPayment /\ (c.payment \notin Payment \/ ~Visible(c.payment))
  \/ c.tool \in {"get_exception", "list_candidate_charges"} /\ Here \notin run.scope

\* A tool may fail for any other reason too; it is recorded as a denial.
Outcome(c, broken) ==
  IF broken /\ c.tool \in Tools THEN "failed" ELSE IF Denied(c) THEN "denied" ELSE "allowed"

getException == {Case, TenantId} \cup (IF run.linked THEN {CHOOSE p \in Payment: PropertyOf[p] = Here} ELSE {})
listAllocations(p) == {p} \cup {a \in Allocation: AllocationOf[a] = p}

Returned(c) ==
  CASE c.tool = "get_exception" -> getException
    [] c.tool = "list_candidate_charges" -> CandidateCharges
    [] c.tool = "get_tenant_payment_history" -> {TenantId} \cup VisibleHistory
    [] c.tool = "list_allocations" -> listAllocations(c.payment)
    [] OTHER -> {c.payment}

----------------------------------------------------------------------------
(* The answer                                                              *)

\* enforceGrounding: what no tool returned is dropped, and a note says so, if
\* the list of notes has room.  An answer without citations gets what was
\* retrieved.
Grounded(cited) == cited \cap retrieved
NotesWith(cited, notes) ==
  IF cited \subseteq retrieved \/ notes = MaxNotes THEN notes ELSE notes + 1
Attached(cited) ==
  IF Grounded(cited) = {}
  THEN {s \in SUBSET retrieved:
          Cardinality(s) = IF Cardinality(retrieved) < MaxCitations
                           THEN Cardinality(retrieved) ELSE MaxCitations}
  ELSE {Grounded(cited)}

NoAnswer == [cited |-> {}, dropped |-> 0, notes |-> 0]

----------------------------------------------------------------------------
(* A run                                                                   *)

Init ==
  /\ run \in [status: {"RUNNING"}, phase: {"turn"}, scope: Scopes,
              provider: {"mock", "model"}, linked: BOOLEAN]
  /\ called = {} /\ rows = <<>> /\ pending = <<>> /\ retrieved = {}
  /\ answer = NoAnswer /\ audited = [denials |-> 0, completed |-> FALSE] /\ late = FALSE

\* The update of the catch block: the run ends, and may have succeeded before.
End(status) ==
  /\ run' = [run EXCEPT !.status = status, !.phase = "ended"]
  /\ pending' = <<>>
  /\ UNCHANGED <<called, rows, retrieved, answer, audited, late>>

\* The deadline is looked at between turns only.
TimePasses == ~late /\ run.phase # "ended" /\ late' = TRUE
              /\ UNCHANGED <<run, callVars, answer, audited>>

AtTurn == run.phase = "turn" /\ pending = <<>>

OutOfTime == AtTurn /\ late /\ End("BUDGET_EXCEEDED")

\* The provider cannot be reached, neither asks nor answers, or its result is
\* not written.
ProviderFails == AtTurn /\ ~late /\ run.provider = "model" /\ End("FAILED")

Ask(calls) ==
  /\ AtTurn /\ ~late /\ pending' = calls
  /\ UNCHANGED <<run, called, rows, retrieved, answer, audited, late>>

\* The mock's plan: a step needs the payment that an earlier result named.
Plan == <<"get_exception", "get_transaction", "get_match_evidence", "list_candidate_charges">>
KnownPayments == retrieved \cap Payment
PlanSteps == {i \in DOMAIN Plan:
                Plan[i] \notin called /\ (Plan[i] \in NeedsPayment => KnownPayments # {})}
NextStep == CHOOSE i \in PlanSteps: \A j \in PlanSteps: i <= j
MockAsks == /\ run.provider = "mock" /\ PlanSteps # {}
            /\ \E p \in KnownPayments \cup (IF KnownPayments = {} THEN {Invented} ELSE {}):
                 Ask(<<[tool |-> Plan[NextStep], payment |-> p]>>)

\* The model asks for anything.
ModelAsks == /\ run.provider = "model"
             /\ \E calls \in Turns: Ask(calls)

\* executeOne: the row of the call; when it was not allowed, the event of the
\* denial is a commit of its own.
ExecuteOne(broken) ==
  /\ run.phase = "turn" /\ pending # <<>> /\ Len(rows) < MaxToolCalls
  /\ LET c == Head(pending) IN
       /\ called' = IF run.provider = "mock" THEN called \cup {c.tool} ELSE called
       /\ rows' = Append(rows, Outcome(c, broken))
       /\ IF Outcome(c, broken) = "allowed"
          THEN retrieved' = retrieved \cup Returned(c) /\ UNCHANGED run
          ELSE run' = [run EXCEPT !.phase = "denying"] /\ UNCHANGED retrieved
  /\ pending' = Tail(pending)
  /\ UNCHANGED <<answer, audited, late>>

RecordDenial ==
  /\ run.phase = "denying"
  /\ run' = [run EXCEPT !.phase = "turn"]
  /\ audited' = [audited EXCEPT !.denials = @ + 1]
  /\ UNCHANGED <<callVars, answer, late>>

OverBudget ==
  run.phase = "turn" /\ pending # <<>> /\ Len(rows) >= MaxToolCalls /\ End("BUDGET_EXCEEDED")

\* The row of a call, the event of a denial or the result of the mock is not
\* written: the catch block ends the run.
WriteFails ==
  /\ \/ run.phase = "turn" /\ pending # <<>> /\ Len(rows) < MaxToolCalls
     \/ run.phase = "denying"
     \/ AtTurn /\ ~late /\ run.provider = "mock" /\ PlanSteps = {}
  /\ End("FAILED")

\* submit_analysis, parsed: the run has succeeded, and its completion is not
\* audited yet.
Submit(cited, notes) ==
  /\ AtTurn /\ ~late
  /\ \E kept \in Attached(cited):
       answer' = [cited |-> kept, dropped |-> Cardinality(cited \ retrieved),
                  notes |-> NotesWith(cited, notes)]
  /\ run' = [run EXCEPT !.status = "SUCCEEDED", !.phase = "completing"]
  /\ UNCHANGED <<callVars, audited, late>>

MockAnswers == run.provider = "mock" /\ PlanSteps = {} /\ Submit({}, 0)
ModelAnswers ==
  /\ run.provider = "model"
  /\ \E cited \in SUBSET (Payment \cup Open \cup {Invented}), notes \in {0, MaxNotes}:
       Cardinality(cited) <= MaxCitations /\ Submit(cited, notes)

\* recordCompletion, inside the same try.
Complete ==
  /\ run.phase = "completing"
  /\ run' = [run EXCEPT !.phase = "ended"]
  /\ audited' = [audited EXCEPT !.completed = TRUE]
  /\ UNCHANGED <<callVars, answer, late>>
CompletionFails == run.phase = "completing" /\ End("FAILED")

\* The process dies, or the catch block cannot write: nobody ends the run.
Crash == /\ run.phase # "ended"
         /\ run' = [run EXCEPT !.phase = "ended"]
         /\ pending' = <<>> /\ UNCHANGED <<called, rows, retrieved, answer, audited, late>>

Next == \/ TimePasses \/ OutOfTime \/ ProviderFails \/ MockAsks \/ ModelAsks
        \/ \E broken \in BOOLEAN: ExecuteOne(broken)
        \/ RecordDenial \/ OverBudget \/ WriteFails \/ MockAnswers \/ ModelAnswers
        \/ Complete \/ CompletionFails \/ Crash

----------------------------------------------------------------------------
(* Properties                                                              *)

\* An answer cites nothing the caller may not see and nothing that does not
\* exist, whatever the model asked for and claimed.
CitesWhatIsSeen ==
  \A r \in answer.cited:
    /\ r \in Record
    /\ r \in Payment => Visible(r)
    /\ r \in Allocation => Visible(AllocationOf[r])
    /\ r \in Open => Here \in run.scope

\* When something was found the answer cites something, and a citation taken
\* out leaves a note, unless the model had filled the list.
GapsAreTold ==
  run.status = "SUCCEEDED" =>
    /\ retrieved # {} => answer.cited # {}
    /\ answer.dropped > 0 => answer.notes > 0

\* The calls that were not allowed.
Refusals == Cardinality({i \in DOMAIN rows: rows[i] # "allowed"})

\* The budget bounds the calls, and a run is over it only when it was late or
\* had used every call.  Each refused call has its event, but the last of a run
\* that is about to write it, or that broke off just there; never the call of a
\* run that succeeded or stopped at its budget.
CallsAccounted ==
  /\ Len(rows) <= MaxToolCalls
  /\ run.status = "BUDGET_EXCEEDED" => late \/ Len(rows) = MaxToolCalls
  /\ Refusals # audited.denials =>
       /\ Refusals = audited.denials + 1 /\ rows[Len(rows)] # "allowed"
       /\ run.phase \in {"denying", "ended"} /\ run.status \in {"RUNNING", "FAILED"}

\* The mock provider is never denied and never over its number of calls.
MockBehaves ==
  (run.provider = "mock" /\ Here \in run.scope) =>
    /\ \A i \in DOMAIN rows: rows[i] # "denied"
    /\ run.status = "BUDGET_EXCEEDED" => late \/ MaxToolCalls < Len(Plan)

AnswersAreGrounded == CitesWhatIsSeen /\ GapsAreTold /\ CallsAccounted /\ MockBehaves
=============================================================================
