----------------------------- MODULE Exceptions -----------------------------
(***************************************************************************)
(* The exceptions of one payment (exceptions.service.ts, and rules.ts of   *)
(* packages/domain): what a person has to look at before the month closes. *)
(* Workers and approvals look for the open exception of the payment and    *)
(* then write to the row they found, by its id alone; persons write to the *)
(* version their page showed.                                              *)
(***************************************************************************)
EXTENDS Integers, FiniteSets

CONSTANT MaxExceptions  \* bound: rows of the exception table

Category == {"AMBIGUOUS_MATCH", "OVERPAYMENT", "INTEGRATION_CONFLICT", "REVERSED_PAYMENT"}

\* Categories the close checklist stops at.
isBlockingCategory(c) == c \in {"AMBIGUOUS_MATCH", "INTEGRATION_CONFLICT", "REVERSED_PAYMENT"}

FinancialResolutions == {"ALLOCATED", "REVERSED", "CREDIT_ISSUED"}
Resolution == FinancialResolutions \cup {"WRITTEN_OFF", "NO_ACTION_REQUIRED"}

VARIABLE exception  \* [id -> row]; resolvedBy and knew are of the last resolution

ExceptionId == 1 .. MaxExceptions
NoEvidence == [ALLOCATED |-> 0, REVERSED |-> 0, CREDIT_ISSUED |-> 0]
NoException == [status |-> "none", category |-> "OVERPAYMENT", version |-> 0,
                since |-> NoEvidence, resolution |-> "none", resolvedBy |-> 0, knew |-> FALSE]

Unresolved == {x \in ExceptionId: exception[x].status \in {"OPEN", "ASSIGNED"}}
Blocking == {x \in Unresolved: isBlockingCategory(exception[x].category)}

\* Opened(c, e): a new row for category c; evidence counts from e on.
Opened(c, e) == [NoException EXCEPT !.status = "OPEN", !.category = c, !.since = e]

ExceptionInit == exception \in
  {[x \in ExceptionId |-> IF x = 1 THEN first ELSE NoException]:
     first \in {NoException, Opened("AMBIGUOUS_MATCH", NoEvidence)}}

(* A mutation: the newest exception of the payment, whatever its status. *)
FoundAny(x) == LET all == {i \in ExceptionId: exception[i].status # "none"} IN
  IF all = {} THEN x = 0 ELSE x \in all

\* What findFirst may return: any unresolved exception, or none.
FoundOpen(x) == IF Unresolved = {} THEN x = 0 ELSE x \in Unresolved

(* A mutation: the version stands for what people edit, not for what workers do. *)
RecategorizedQuietly(row, c) == [row EXCEPT !.category = c]

Recategorized(row, c) == [row EXCEPT !.category = c, !.version = @ + 1]

\* The second half of openOrUpdate: x is what was found, perhaps a while ago.
OpenOrUpdate(x, c, e) ==
  IF x # 0
  THEN exception' = [exception EXCEPT ![x] = Recategorized(@, c)]
  ELSE LET free == {i \in ExceptionId: exception[i].status = "none"} IN
       /\ free # {}
       /\ exception' = [exception EXCEPT
            ![CHOOSE i \in free: \A j \in free: i <= j] = Opened(c, e)]

Resolved(row, r, by, knew) ==
  [row EXCEPT !.status = "RESOLVED", !.resolution = r, !.version = @ + 1,
              !.resolvedBy = by, !.knew = knew]

\* reconcileAfterAllocation, with remaining cents left on the payment.
ReconcileAfterAllocation(x, remaining, e) ==
  CASE remaining > 0         -> OpenOrUpdate(x, "OVERPAYMENT", e)
    [] remaining = 0 /\ x # 0 -> exception' = [exception EXCEPT
                                   ![x] = Resolved(@, "ALLOCATED", 0, FALSE)]
    [] OTHER                 -> UNCHANGED exception

\* assertResolutionValid: evidence is what was counted since the row was
\* opened, open the cents of the payment that are not reconciled.
ResolutionValid(r, evidence, open, isController) ==
  /\ r = "WRITTEN_OFF" => isController
  /\ r \in FinancialResolutions => evidence[r] > 0
  /\ r = "NO_ACTION_REQUIRED" => open = 0

\* The rows updateMany finds: nothing changed since the page was loaded.
AtVersion(x, v) == exception[x].version = v

ResolveAt(x, v, r, by, knew) ==
  AtVersion(x, v) /\ exception' = [exception EXCEPT ![x] = Resolved(@, r, by, knew)]

\* status is the one the handler computed from the row it loaded.
AssignAt(x, v, status) ==
  AtVersion(x, v) /\ exception' = [exception EXCEPT ![x].status = status, ![x].version = @ + 1]

ReopenAt(x, v) ==
  /\ AtVersion(x, v)
  /\ exception' = [exception EXCEPT ![x].status = "OPEN", ![x].resolution = "none",
                                    ![x].version = @ + 1]
=============================================================================
