---------------------------- MODULE PeriodLocks ----------------------------
(***************************************************************************)
(* The period-lock protocol of packages/database/src/locks.ts and the      *)
(* database transactions that use it: the postings (charge generation,     *)
(* credits, ingestion, import batches, approvals and reversals of          *)
(* allocations, reversals reported by the provider) and the three period   *)
(* transitions (start of review, close, reopen).                           *)
(*                                                                         *)
(* One property is modelled; its accounting periods are numbered in the    *)
(* order the lock keys sort in.  A database transaction is cut where       *)
(* others can interleave: it begins, takes its locks one by one, reads     *)
(* what it decides on, and commits.  Its writes become visible at the      *)
(* commit, which also frees its locks; a rollback only frees the locks.    *)
(* The journal is reduced to how many entries each period holds: `posted`  *)
(* those of the paths that check the period's status, `unwound` those of   *)
(* the provider reversal, which does not.                                  *)
(***************************************************************************)
EXTENDS Naturals, FiniteSets

CONSTANTS
    Tx,           \* database sessions, each runs one transaction at a time
    NoTx,         \* the holder of a free lock
    LastPeriod,   \* periods are 1..LastPeriod
    MaxPostings,  \* bound: entries of either kind per period
    MaxVersion    \* bound: version of a period row

ASSUME PeriodAssumption == LastPeriod \in Nat \ {0}
ASSUME BoundAssumption == MaxPostings \in Nat /\ MaxVersion \in Nat \ {0}
ASSUME NoTxAssumption == NoTx \notin Tx

VARIABLES
    status,    \* accounting_periods.status; "ABSENT" while there is no row
    version,   \* accounting_periods.version
    posted,    \* entries per period written by the checked paths
    unwound,   \* entries per period written by provider reversals
    snapshot,  \* what the latest close of the period found in `posted`
    holder,    \* who holds the advisory lock of each period
    pc,        \* phase of each session's transaction
    req,       \* what it was asked to do
    todo,      \* locks it has still to take
    want,      \* the lock it asks for now
    found      \* what it read under its locks

db == <<status, version, posted, unwound, snapshot>>
session == <<pc, req, todo, want, found>>
vars == <<db, holder, session>>

Period == 1..LastPeriod
Status == {"ABSENT", "OPEN", "IN_REVIEW", "CLOSED"}

(***************************************************************************)
(* posting: lockPeriodForPosting on one period (charge generation,         *)
(*   credit, ingestion of a provider payment), or lockPeriodsInOrder on    *)
(*   the posting period and the others touched (approval and reversal of   *)
(*   an allocation); every locked period is then checked;                  *)
(* importBatch: the rows of one batch, each taking the lock of its own     *)
(*   period when its turn comes, a row of a closed period being skipped;   *)
(* providerReversal: lockPeriodsInOrder and no check.                      *)
(***************************************************************************)
Posting == {"posting", "importBatch", "providerReversal"}
Transition == {"startReview", "close", "reopen"}
Kind == Posting \cup Transition

Request == [kind : Kind, target : Period, need : SUBSET Period, expected : Nat]

(* The rows, the locks and what each session remembers have their types.   *)
TypeOK ==
    /\ status \in [Period -> Status]
    /\ version \in [Period -> Nat]
    /\ posted \in [Period -> Nat]
    /\ unwound \in [Period -> Nat]
    /\ snapshot \in [Period -> Nat]
    /\ holder \in [Period -> Tx \cup {NoTx}]
    /\ pc \in [Tx -> {"idle", "locking", "deciding", "committing"}]
    /\ req \in [Tx -> Request]
    /\ todo \in [Tx -> SUBSET Period]
    /\ want \in [Tx -> Period]
    /\ found \in [Tx -> [accepted : SUBSET Period, version : Nat, posted : Nat]]

NothingAsked == [kind |-> "posting", target |-> 1, need |-> {1}, expected |-> 0]
NothingFound == [accepted |-> {}, version |-> 0, posted |-> 0]

Init ==
    /\ status = [p \in Period |-> "ABSENT"]
    /\ version = [p \in Period |-> 1]
    /\ posted = [p \in Period |-> 0]
    /\ unwound = [p \in Period |-> 0]
    /\ snapshot = [p \in Period |-> 0]
    /\ holder = [p \in Period |-> NoTx]
    /\ pc = [t \in Tx |-> "idle"]
    /\ req = [t \in Tx |-> NothingAsked]
    /\ todo = [t \in Tx |-> {}]
    /\ want = [t \in Tx |-> 1]
    /\ found = [t \in Tx |-> NothingFound]

----------------------------------------------------------------------------
(* Taking the locks. *)

Least(p, S) == p \in S /\ \A q \in S : p <= q

(* A mutation: the locks are taken in the order the caller lists them. *)
NextLockUnsorted(kind, p, S) == p \in S

(* The next lock of a transaction that has those of S still to take: in    *)
(* sorted order, except that an import batch follows its file.             *)
NextLock(kind, p, S) ==
    IF kind = "importBatch" THEN p \in S ELSE Least(p, S)

(* The periods a request locks, and how stale a version it may carry. *)
WellFormed(r) ==
    /\ r.target \in r.need
    /\ r.kind \in Transition => r.need = {r.target}
    /\ IF r.kind \in {"close", "reopen"}
       THEN r.expected \in 1..version[r.target]
       ELSE r.expected = 0
    /\ r.kind = "importBatch" => Least(r.target, r.need)

Begin(t) ==
    /\ pc[t] = "idle"
    /\ \E k \in Kind, p \in Period, S \in SUBSET Period, e \in 0..MaxVersion :
          LET r == [kind |-> k, target |-> p, need |-> S, expected |-> e] IN
          /\ WellFormed(r)
          /\ req' = [req EXCEPT ![t] = r]
          /\ todo' = [todo EXCEPT ![t] = S]
          /\ \E q \in Period : NextLock(k, q, S) /\ want' = [want EXCEPT ![t] = q]
    /\ pc' = [pc EXCEPT ![t] = "locking"]
    /\ UNCHANGED <<db, holder, found>>

(* A mutation: pg_try_advisory_xact_lock with its answer ignored. *)
LockIsIgnored(p) == holder[p] = holder[p]

(* pg_advisory_xact_lock blocks until the lock is free. *)
LockIsFree(p) == holder[p] = NoTx

Acquire(t) ==
    LET left == todo[t] \ {want[t]} IN
    /\ pc[t] = "locking"
    /\ LockIsFree(want[t])
    /\ holder' = [holder EXCEPT ![want[t]] = t]
    /\ todo' = [todo EXCEPT ![t] = left]
    /\ IF left = {}
       THEN /\ pc' = [pc EXCEPT ![t] = "deciding"]
            /\ UNCHANGED want
       ELSE /\ \E q \in Period :
                  /\ NextLock(req[t].kind, q, left)
                  /\ want' = [want EXCEPT ![t] = q]
            /\ UNCHANGED pc
    /\ UNCHANGED <<db, req, found>>

(* A mutation: the locks of a session outlive its transaction. *)
FinishKeepsLocks(t) ==
    /\ pc' = [pc EXCEPT ![t] = "idle"]
    /\ req' = [req EXCEPT ![t] = NothingAsked]
    /\ todo' = [todo EXCEPT ![t] = {}]
    /\ want' = [want EXCEPT ![t] = 1]
    /\ found' = [found EXCEPT ![t] = NothingFound]
    /\ UNCHANGED holder

(* Commit and rollback both end the transaction and free its locks. *)
Finish(t) ==
    /\ pc' = [pc EXCEPT ![t] = "idle"]
    /\ holder' = [p \in Period |-> IF holder[p] = t THEN NoTx ELSE holder[p]]
    /\ req' = [req EXCEPT ![t] = NothingAsked]
    /\ todo' = [todo EXCEPT ![t] = {}]
    /\ want' = [want EXCEPT ![t] = 1]
    /\ found' = [found EXCEPT ![t] = NothingFound]

----------------------------------------------------------------------------
(* Reading and deciding under the locks. *)

(* lockPeriod creates a missing row as OPEN. *)
StatusUnderLock(p) == IF status[p] = "ABSENT" THEN "OPEN" ELSE status[p]

(* A mutation: the status is looked up and not compared. *)
acceptsAnything(s) == s \in Status

periodAcceptsPostings(s) == s \in {"OPEN", "IN_REVIEW"}

(* The periods the transaction will write entries into. *)
Accepted(r) ==
    IF r.kind = "importBatch"
    THEN {p \in r.need : periodAcceptsPostings(StatusUnderLock(p))}
    ELSE {r.target}

MayPost(r) ==
    /\ r.kind = "posting"
         => \A p \in r.need : periodAcceptsPostings(StatusUnderLock(p))
    /\ \A p \in r.need : posted[p] < MaxPostings /\ unwound[p] < MaxPostings

DecidePosting(t) ==
    /\ pc[t] = "deciding"
    /\ req[t].kind \in Posting
    /\ IF MayPost(req[t])
       THEN /\ pc' = [pc EXCEPT ![t] = "committing"]
            /\ found' = [found EXCEPT ![t] =
                            [NothingFound EXCEPT !.accepted = Accepted(req[t])]]
            /\ UNCHANGED <<holder, req, todo, want>>
       ELSE Finish(t)
    /\ UNCHANGED db

(* priorPeriodStatus: null for the property's first period, else the row   *)
(* of the month before, OPEN when it has none; read without its lock.      *)
PriorClosed(p) ==
    (\E q \in Period : q < p /\ status[q] # "ABSENT")
        => p - 1 \in Period /\ status[p - 1] = "CLOSED"

(* A mutation: the version the controller saw is not compared. *)
MayMoveUnseen(r) ==
    LET now == StatusUnderLock(r.target) IN
    /\ version[r.target] < MaxVersion
    /\ r.kind = "startReview" => now = "OPEN"
    /\ r.kind = "close" => now = "IN_REVIEW" /\ PriorClosed(r.target)
    /\ r.kind = "reopen" => now \in {"IN_REVIEW", "CLOSED"}

(* assertPeriodTransition, and for a close the blockers of the checklist   *)
(* that concern periods; any other blocker is a Rollback.                  *)
MayMove(r) ==
    LET now == StatusUnderLock(r.target) IN
    /\ version[r.target] < MaxVersion
    /\ r.kind = "startReview" => now = "OPEN"
    /\ r.kind = "close" => /\ version[r.target] = r.expected
                           /\ now = "IN_REVIEW"
                           /\ PriorClosed(r.target)
    /\ r.kind = "reopen" => /\ version[r.target] = r.expected
                            /\ now \in {"IN_REVIEW", "CLOSED"}

DecideTransition(t) ==
    LET p == req[t].target IN
    /\ pc[t] = "deciding"
    /\ req[t].kind \in Transition
    /\ IF MayMove(req[t])
       THEN /\ pc' = [pc EXCEPT ![t] = "committing"]
            /\ found' = [found EXCEPT ![t] =
                   [accepted |-> {}, version |-> version[p], posted |-> posted[p]]]
            /\ UNCHANGED <<holder, req, todo, want>>
       ELSE Finish(t)
    /\ UNCHANGED db

----------------------------------------------------------------------------
(* Committing. *)

(* Every period that was locked has a row once the transaction commits. *)
RowsCreated(S) ==
    [p \in Period |-> IF p \in S THEN StatusUnderLock(p) ELSE status[p]]

Count(counter, S) ==
    [p \in Period |-> IF p \in S THEN counter[p] + 1 ELSE counter[p]]

CommitPosting(t) ==
    LET r == req[t] IN
    /\ pc[t] = "committing"
    /\ r.kind \in Posting
    /\ status' = RowsCreated(r.need)
    /\ IF r.kind = "providerReversal"
       THEN unwound' = Count(unwound, found[t].accepted) /\ UNCHANGED posted
       ELSE posted' = Count(posted, found[t].accepted) /\ UNCHANGED unwound
    /\ Finish(t)
    /\ UNCHANGED <<version, snapshot>>

(* A mutation: a review is started with a status no code knows. *)
NewStatusMisspelt(kind) ==
    CASE kind = "startReview" -> "REVIEW"
      [] kind = "close" -> "CLOSED"
      [] kind = "reopen" -> "OPEN"

NewStatus(kind) ==
    CASE kind = "startReview" -> "IN_REVIEW"
      [] kind = "close" -> "CLOSED"
      [] kind = "reopen" -> "OPEN"

(* The update compares the version read under the lock; when it does not   *)
(* match the transaction is rolled back as STALE_RECORD.                   *)
CommitTransition(t) ==
    LET r == req[t]
        p == req[t].target
    IN
    /\ pc[t] = "committing"
    /\ r.kind \in Transition
    /\ IF version[p] = found[t].version
       THEN /\ status' = [status EXCEPT ![p] = NewStatus(r.kind)]
            /\ version' = [version EXCEPT ![p] = @ + 1]
            /\ snapshot' = IF r.kind = "close"
                           THEN [snapshot EXCEPT ![p] = found[t].posted]
                           ELSE snapshot
       ELSE UNCHANGED <<status, version, snapshot>>
    /\ Finish(t)
    /\ UNCHANGED <<posted, unwound>>

(* A crash of the process, a lost connection, a timeout of the             *)
(* transaction, or any refusal whose condition is not modelled.            *)
Rollback(t) ==
    /\ pc[t] # "idle"
    /\ Finish(t)
    /\ UNCHANGED db

----------------------------------------------------------------------------
(* Waiting. *)

WaitsFor(t, u) == pc[t] = "locking" /\ holder[want[t]] = u

(* Some sessions wait for one another in a circle through t. *)
InWaitCycle(t) ==
    \E S \in SUBSET Tx :
        /\ t \in S
        /\ \A u \in S : \E v \in S : WaitsFor(u, v)
        /\ \A v \in S : \E u \in S : WaitsFor(u, v)

(* PostgreSQL's deadlock detector (40P01) rolls one of them back. *)
DeadlockVictim(t) == InWaitCycle(t) /\ Rollback(t)

Next ==
    \E t \in Tx :
        \/ Begin(t)
        \/ Acquire(t)
        \/ DecidePosting(t)
        \/ DecideTransition(t)
        \/ CommitPosting(t)
        \/ CommitTransition(t)
        \/ Rollback(t)

(***************************************************************************)
(* A transaction runs to its end without waiting for anything but its      *)
(* locks (weak fairness); PostgreSQL serves the waiters of a lock in       *)
(* turn (strong fairness); the deadlock detector acts on a circle.         *)
(***************************************************************************)
Fairness ==
    /\ \A t \in Tx :
          /\ SF_vars(Acquire(t))
          /\ WF_vars(DecidePosting(t))
          /\ WF_vars(DecideTransition(t))
          /\ WF_vars(CommitPosting(t))
          /\ WF_vars(CommitTransition(t))
    /\ WF_vars(\E t \in Tx : DeadlockVictim(t))

Spec == Init /\ [][Next]_vars
FairSpec == Spec /\ Fairness

----------------------------------------------------------------------------
(* Properties. *)

Checked == Posting \ {"providerReversal"}

(* No path that checks the period's status ever commits an entry into a    *)
(* period that is CLOSED at the commit, however a close interleaves with   *)
(* it: lockPeriodForPosting, assertPeriodsAcceptPostings, import rows.     *)
NoPostingIntoClosed ==
    [][\A p \in Period : posted'[p] # posted[p] => status[p] # "CLOSED"]_vars

(* What close() counted before it wrote the snapshot is what the period    *)
(* holds for as long as it stays CLOSED: nothing checked slipped in        *)
(* between gatherFacts and the commit, or later.                           *)
SnapshotExact ==
    \A p \in Period : status[p] = "CLOSED" => snapshot[p] = posted[p]

(* The compare-and-swap of startReview, close and reopen never fails: the  *)
(* version read under the period lock is still the row's version when the  *)
(* transition commits.                                                     *)
LockedVersionIsCurrent ==
    \A t \in Tx :
        pc[t] = "committing" /\ req[t].kind \in Transition
            => found[t].version = version[req[t].target]

(* A period becomes CLOSED only from IN_REVIEW, by a controller whose      *)
(* checklist was loaded after the last transition of that period, and      *)
(* a CLOSED period is left only by a reopening that had seen that close.   *)
TransitionsSeeTheLastOne ==
    [][\A p \in Period :
          /\ status'[p] = "CLOSED" /\ status[p] # "CLOSED" => status[p] = "IN_REVIEW"
          /\ (status'[p] = "CLOSED") # (status[p] = "CLOSED")
                => \E t \in Tx : /\ pc[t] = "committing" /\ pc'[t] = "idle"
                                 /\ req[t].target = p
                                 /\ req[t].expected = version[p]]_vars

(* lockPeriodsInOrder: a session that waits for a lock of another waiting  *)
(* session asks for an earlier lock than that one does, so no circle of    *)
(* waiting sessions can close.  Import batches, whose rows take locks in   *)
(* file order, are excepted.                                               *)
WaitsClimb ==
    \A t, u \in Tx :
        /\ WaitsFor(t, u)
        /\ pc[u] = "locking"
        /\ req[u].kind # "importBatch"
        => want[t] < want[u]

(* Every transaction that begins is over eventually: no session waits for  *)
(* a lock for ever, whatever crashes and deadlocks happen around it.       *)
EveryTransactionEnds == \A t \in Tx : pc[t] = "locking" ~> pc[t] = "idle"

(* ADR 0002 and integration-contract.md of every entry, those of provider  *)
(* reversals included: nothing is posted into a CLOSED period.             *)
ClosedPeriodIsSealed ==
    [][\A p \in Period :
          (posted'[p] # posted[p] \/ unwound'[p] # unwound[p])
              => status[p] # "CLOSED"]_vars

(* locks.ts of every transaction, import batches included: two sessions    *)
(* never end up each holding the lock the other one asks for.              *)
NoDeadlock == \A t \in Tx : ~InWaitCycle(t)
=============================================================================
