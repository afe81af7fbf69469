--------------------------- MODULE DeliveryProofs ---------------------------
(***************************************************************************)
(* What holds of the asynchronous half for any number of workers, events,  *)
(* rows and items, whatever crashes or stalls.                             *)
(*                                                                         *)
(* The outbox and its queues have an invariant of their own, to which the  *)
(* other components contribute steps on jobs (JobsGoOn) and new rows       *)
(* (Appends).  The feed's invariant follows a run from fetch to cursor.    *)
(***************************************************************************)
EXTENDS Delivery, FiniteSums

RowStatus == {"absent", "PENDING", "FAILED", "DISPATCHED", "DEAD_LETTER"}
JobState  == {"absent", "waiting", "active", "completed", "failed", "removed"}
OutboxRow == [status: RowStatus, attempts: Nat, kind: Kinds]
PassRow   == [open: BOOLEAN, todo: SUBSET Events, ok: SUBSET Events, bad: SUBSET Events]
JobRow    == [state: JobState, owner: Workers \cup {NoWorker}, attempts: Nat, stalls: Nat]

OutboxShapes ==
  /\ outbox \in [Events -> OutboxRow]
  /\ pass \in [Workers -> PassRow]
  /\ jobs \in [Events -> JobRow]

Appeared(e) == outbox[e].status # "absent"
Published(e) == jobs[e].state # "absent"

(* A dispatcher holds rows that exist, and has published those it is about *)
(* to mark.                                                                *)
ClaimsStand ==
  \A w \in Workers, e \in Events:
    /\ e \in pass[w].todo \cup pass[w].ok \cup pass[w].bad => Appeared(e)
    /\ e \in pass[w].ok /\ HasQueue(e) => Published(e)

(* No job without its row. *)
JobsHaveRows == \A e \in Events: Published(e) => Appeared(e)

OutboxInv ==
  /\ OutboxShapes
  /\ ClaimsStand
  /\ JobsHaveRows
  /\ DispatchedWasPublished

----------------------------------------------------------------------------
(* The steps of others: jobs that exist are taken, ended or forgotten.     *)
JobsGoOn ==
  /\ jobs' \in [Events -> JobRow]
  /\ \A e \in Events: (jobs'[e].state = "absent") <=> (jobs[e].state = "absent")

(* A row is new, or it stays as it was. *)
Appends ==
  /\ outbox' \in [Events -> OutboxRow]
  /\ \A e \in Events: Appeared(e) => outbox'[e] = outbox[e]
  /\ \A e \in Events: ~Appeared(e) => outbox'[e].status \in {"absent", "PENDING"}

LEMMA AppendedRow ==
  ASSUME OutboxShapes, NEW e \in Events, NEW kind \in Kinds, IsNext(e),
         outbox' = Appended(e, kind)
  PROVE  Appends
<1>1. [status |-> "PENDING", attempts |-> 0, kind |-> kind] \in OutboxRow
  BY DEF OutboxRow, RowStatus
<1> QED
  BY <1>1 DEF OutboxShapes, IsNext, Appended, Appends, Appeared

LEMMA JobsStay == ASSUME OutboxShapes, jobs' = jobs PROVE JobsGoOn
BY DEF OutboxShapes, JobsGoOn

LEMMA RowsStay == ASSUME OutboxShapes, outbox' = outbox PROVE Appends
BY DEF OutboxShapes, Appends, OutboxRow, RowStatus, Appeared

LEMMA JobTaken ==
  ASSUME OutboxShapes, NEW w \in Workers, NEW e \in Events, jobs[e].state = "waiting",
         jobs' = Taken(w, e)
  PROVE  JobsGoOn
<1> DEFINE row == [jobs[e] EXCEPT !.state = "active", !.owner = w]
<1>1. jobs \in [Events -> JobRow] /\ jobs[e] \in JobRow
  BY DEF OutboxShapes
<1>2. row \in JobRow /\ row.state = "active"
  BY <1>1 DEF JobRow, JobState
<1>3. jobs' = [jobs EXCEPT ![e] = row]
  BY <1>1 DEF Taken
<1> HIDE DEF row
<1> QED
  BY <1>1, <1>2, <1>3 DEF JobsGoOn

LEMMA JobEnds ==
  ASSUME OutboxShapes, NEW w \in Workers, NEW e,
         jobs' \in {Succeeded(w, e), Threw(w, e)}
  PROVE  JobsGoOn
<1>1. CASE jobs' = jobs
  BY <1>1, JobsStay
<1>2. CASE e \notin Events
  BY <1>1, <1>2 DEF Succeeded, Threw, OutboxShapes
<1>3. CASE e \in Events /\ Owns(w, e)
  BY <1>3 DEF OutboxShapes, JobsGoOn, Succeeded, Threw, Owns, JobRow, JobState
<1> QED
  BY <1>1, <1>2, <1>3 DEF Succeeded, Threw

(* Such steps, and a dispatcher that drops what it holds, keep the          *)
(* invariant of the outbox.                                                 *)
LEMMA StepOfOthers ==
  ASSUME OutboxInv, JobsGoOn, Appends,
         pass' \in [Workers -> PassRow],
         \A w \in Workers: pass'[w] \in {pass[w], NoPass}
  PROVE  OutboxInv'
<1>1. OutboxShapes'
  BY DEF JobsGoOn, Appends, OutboxShapes
<1>2. \A e \in Events: /\ Published(e)' <=> Published(e)
                       /\ Appeared(e) => Appeared(e)' /\ outbox'[e].kind = outbox[e].kind
                       /\ outbox'[e].status = "DISPATCHED" => outbox[e].status = "DISPATCHED"
                       /\ outbox'[e].status # "absent" /\ outbox[e].status # "absent" => outbox'[e] = outbox[e]
  BY DEF JobsGoOn, Appends, Published, Appeared
<1>3. ClaimsStand'
  BY <1>2 DEF OutboxInv, ClaimsStand, HasQueue, NoPass, Appeared
<1>4. JobsHaveRows'
  BY <1>2 DEF OutboxInv, JobsHaveRows
<1>5. DispatchedWasPublished'
  BY <1>2 DEF OutboxInv, DispatchedWasPublished, HasQueue, Published, Appeared
<1> QED
  BY <1>1, <1>3, <1>4, <1>5 DEF OutboxInv

----------------------------------------------------------------------------
(* The dispatcher and the queue.                                           *)
LEMMA JobAdded ==
  ASSUME OutboxShapes, NEW e \in Events
  PROVE  /\ Added(e) \in [Events -> JobRow]
         /\ Added(e)[e].state # "absent"
         /\ \A f \in Events \ {e}: Added(e)[f] = jobs[f]
<1>1. [NoJob EXCEPT !.state = "waiting"] \in JobRow
  BY DEF NoJob, JobRow, JobState
<1> QED
  BY <1>1 DEF OutboxShapes, Added, NoJob

LEMMA ClaimKeeps ==
  ASSUME OutboxInv, NEW w \in Workers, Claim(w)
  PROVE  OutboxInv'
<1>1. PICK later \in SUBSET Events:
        pass' = [pass EXCEPT ![w] = [NoPass EXCEPT !.open = TRUE, !.todo = Oldest(Due(later))]]
  BY DEF Claim
<1>2. \A e \in Oldest(Due(later)): e \in Events /\ Appeared(e)
  BY DEF Oldest, Due, Appeared
<1>3. [NoPass EXCEPT !.open = TRUE, !.todo = Oldest(Due(later))] \in PassRow
  BY <1>2 DEF NoPass, PassRow
<1>4. OutboxShapes'
  BY <1>1, <1>3 DEF OutboxInv, OutboxShapes, Claim
<1>5. ClaimsStand'
  BY <1>1, <1>2 DEF OutboxInv, OutboxShapes, ClaimsStand, Claim, NoPass, Appeared, Published, HasQueue
<1> QED
  BY <1>4, <1>5 DEF OutboxInv, Claim, JobsHaveRows, DispatchedWasPublished, Published, Appeared, HasQueue

LEMMA PublishKeeps ==
  ASSUME OutboxInv, NEW w \in Workers, Publish(w) \/ PublishFails(w)
  PROVE  OutboxInv'
<1>1. PICK e \in Events:
        /\ e \in pass[w].todo
        /\ outbox' = outbox
        /\ jobs' \in {jobs, Added(e)}
        /\ \/ /\ pass' = [pass EXCEPT ![w].todo = @ \ {e}, ![w].ok = @ \cup {e}]
              /\ HasQueue(e) => jobs' = Added(e)
           \/ pass' = [pass EXCEPT ![w].todo = @ \ {e}, ![w].bad = @ \cup {e}]
  BY DEF Publish, PublishFails, First
<1>2. /\ jobs' \in [Events -> JobRow]
      /\ \A f \in Events: Published(f) => jobs'[f].state # "absent"
      /\ \A f \in Events \ {e}: jobs'[f] = jobs[f]
      /\ jobs' = Added(e) => jobs'[e].state # "absent"
  BY <1>1, JobAdded DEF OutboxInv, OutboxShapes, Published
<1>3. Appeared(e)
  BY <1>1 DEF OutboxInv, ClaimsStand
<1>4. pass' \in [Workers -> PassRow]
  BY <1>1 DEF OutboxInv, OutboxShapes, PassRow
<1>5. OutboxShapes'
  BY <1>1, <1>2, <1>4 DEF OutboxInv, OutboxShapes
<1>6. ClaimsStand'
  <2> SUFFICES ASSUME NEW v \in Workers, NEW f \in Events
               PROVE  /\ f \in pass'[v].todo \cup pass'[v].ok \cup pass'[v].bad => Appeared(f)'
                      /\ f \in pass'[v].ok /\ HasQueue(f)' => Published(f)'
    BY DEF ClaimsStand
  <2>1. /\ Appeared(f)' <=> Appeared(f)
        /\ HasQueue(f)' <=> HasQueue(f)
        /\ Published(f) => Published(f)'
    BY <1>1, <1>2 DEF Appeared, HasQueue, Published
  <2>2. CASE v = w
    <3>1. /\ pass'[v].todo \cup pass'[v].ok \cup pass'[v].bad
               \subseteq pass[v].todo \cup pass[v].ok \cup pass[v].bad \cup {e}
          /\ f \in pass'[v].ok => f \in pass[v].ok \/ (f = e /\ (HasQueue(e) => jobs' = Added(e)))
      BY <1>1, <2>2 DEF OutboxInv, OutboxShapes, PassRow
    <3> QED
      BY <1>2, <1>3, <2>1, <3>1 DEF OutboxInv, ClaimsStand, Published
  <2>3. CASE v # w
    <3>1. pass'[v] = pass[v]
      BY <1>1, <2>3 DEF OutboxInv, OutboxShapes
    <3> QED
      BY <2>1, <3>1 DEF OutboxInv, ClaimsStand
  <2> QED
    BY <2>2, <2>3
<1>7. JobsHaveRows' /\ DispatchedWasPublished'
  BY <1>1, <1>2, <1>3
  DEF OutboxInv, JobsHaveRows, DispatchedWasPublished, Published, Appeared, HasQueue
<1> QED
  BY <1>5, <1>6, <1>7 DEF OutboxInv

LEMMA FailedRow ==
  ASSUME NEW row \in OutboxRow
  PROVE  /\ Failed(row) \in OutboxRow
         /\ Failed(row).kind = row.kind
         /\ Failed(row).status \in {"FAILED", "DEAD_LETTER"}
<1> DEFINE status == IF row.attempts + 1 >= MaxAttempts THEN "DEAD_LETTER" ELSE "FAILED"
<1>1. status \in {"DEAD_LETTER", "FAILED"} /\ row.attempts + 1 \in Nat
  BY DEF OutboxRow
<1> HIDE DEF status
<1>2. PICK s \in RowStatus, n \in Nat, k \in Kinds: row = [status |-> s, attempts |-> n, kind |-> k]
  BY DEF OutboxRow
<1>3. Failed(row) = [row EXCEPT !.attempts = @ + 1, !.status = status]
  BY DEF Failed, status
<1>4. Failed(row) = [status |-> status, attempts |-> n + 1, kind |-> k]
  BY <1>2, <1>3
<1> QED
  BY <1>1, <1>2, <1>4 DEF OutboxRow, RowStatus

LEMMA CommitKeeps ==
  ASSUME OutboxInv, NEW w \in Workers, CommitPass(w)
  PROVE  OutboxInv'
<1>1. /\ outbox' = Marked(w) /\ jobs' = jobs
      /\ pass' = [pass EXCEPT ![w] = NoPass]
  BY DEF CommitPass
<1>2. NoPass \in PassRow
  BY DEF NoPass, PassRow
<1>3. ASSUME NEW e \in Events
      PROVE  /\ outbox'[e] \in OutboxRow
             /\ outbox'[e].kind = outbox[e].kind
             /\ Appeared(e) => outbox'[e].status # "absent"
             /\ outbox'[e].status = "DISPATCHED" => e \in pass[w].ok \/ outbox[e].status = "DISPATCHED"
  <2>1. outbox[e] \in OutboxRow
    BY DEF OutboxInv, OutboxShapes
  <2>2. outbox'[e] = IF e \in pass[w].ok THEN [outbox[e] EXCEPT !.status = "DISPATCHED"]
                     ELSE IF e \in pass[w].bad THEN Failed(outbox[e]) ELSE outbox[e]
    BY <1>1 DEF Marked
  <2>3. /\ Failed(outbox[e]) \in OutboxRow
        /\ Failed(outbox[e]).kind = outbox[e].kind
        /\ Failed(outbox[e]).status \in {"FAILED", "DEAD_LETTER"}
    BY <2>1, FailedRow
  <2>4. /\ [outbox[e] EXCEPT !.status = "DISPATCHED"] \in OutboxRow
        /\ [outbox[e] EXCEPT !.status = "DISPATCHED"].kind = outbox[e].kind
        /\ [outbox[e] EXCEPT !.status = "DISPATCHED"].status = "DISPATCHED"
    BY <2>1 DEF OutboxRow, RowStatus
  <2> QED
    BY <2>1, <2>2, <2>3, <2>4 DEF Appeared
<1>4. outbox' \in [Events -> OutboxRow]
  BY <1>1, <1>3 DEF Marked
<1>5. OutboxShapes'
  BY <1>1, <1>2, <1>4 DEF OutboxInv, OutboxShapes
<1>6. ClaimsStand'
  BY <1>1, <1>3 DEF OutboxInv, OutboxShapes, ClaimsStand, NoPass, Appeared, Published, HasQueue
<1>7. JobsHaveRows' /\ DispatchedWasPublished'
  BY <1>1, <1>3 DEF OutboxInv, JobsHaveRows, ClaimsStand, DispatchedWasPublished, Published, Appeared, HasQueue
<1> QED
  BY <1>5, <1>6, <1>7 DEF OutboxInv

LEMMA QueueKeeps ==
  ASSUME OutboxInv, QueueNext
  PROVE  OutboxInv'
<1>0. NoPass \in PassRow /\ Dispatchers \subseteq Workers
  BY OutboxAssumption DEF NoPass, PassRow
<1>1. ASSUME NEW w \in Dispatchers, Dispatch(w)
      PROVE  OutboxInv'
  <2>1. CASE AbortPass(w)
    BY <1>0, <2>1, JobsStay, RowsStay, StepOfOthers DEF AbortPass, OutboxInv, OutboxShapes
  <2> QED
    BY <1>0, <1>1, <2>1, ClaimKeeps, PublishKeeps, CommitKeeps DEF Dispatch
<1>2. ASSUME NEW e \in Events, Stall(e) \/ Forget(e)
      PROVE  OutboxInv'
  <2>1. JobsGoOn
    BY <1>2 DEF Stall, Forget, OutboxInv, OutboxShapes, JobsGoOn, JobRow, JobState
  <2> QED
    BY <1>2, <2>1, RowsStay, StepOfOthers DEF Stall, Forget, OutboxInv, OutboxShapes
<1> QED
  BY <1>1, <1>2 DEF QueueNext

----------------------------------------------------------------------------
(* The steps of the API, of the import processor and of the feed, seen from *)
(* the outbox.                                                             *)
LEMMA ImportSeenByOutbox ==
  ASSUME OutboxShapes, ImportNext
  PROVE  JobsGoOn /\ Appends /\ pass' = pass
<1>1. CASE Upload \/ \E c \in Clients: \/ CreateUpload(c) \/ BeginValidate(c) \/ MarkValidating(c)
                                       \/ ReadObject(c) \/ FinishValidate(c) \/ CheckStored(c) \/ Cancel(c) \/ ApiFails(c)
                                       \/ \E v \in Versions: BeginConfirm(c, v)
  <2>1. UNCHANGED outboxVars
    BY <1>1 DEF Upload, CreateUpload, BeginValidate, MarkValidating, ReadObject, FinishValidate, CheckStored,
                Cancel, ApiFails, BeginConfirm
  <2> QED
    BY <2>1, JobsStay, RowsStay DEF outboxVars
<1>2. ASSUME NEW c \in Clients, CommitConfirm(c) \/ Retry(c)
      PROVE  JobsGoOn /\ Appends /\ pass' = pass
  <2>1. CASE outbox' = outbox
    BY <1>2, <2>1, JobsStay, RowsStay DEF CommitConfirm, Retry
  <2>2. CASE outbox' # outbox
    <3>1. PICK e \in Events: IsNext(e) /\ outbox' = Appended(e, "import")
      BY <1>2, <2>2 DEF CommitConfirm, Retry
    <3> QED
      BY <1>2, <3>1, JobsStay, AppendedRow DEF CommitConfirm, Retry, Kinds
  <2> QED
    BY <2>1, <2>2
<1>3. ASSUME NEW w \in Workers, TakeImport(w)
      PROVE  JobsGoOn /\ Appends /\ pass' = pass
  <2>1. PICK e \in Events: /\ jobs[e].state = "waiting"
                           /\ jobs' \in {Taken(w, e), [jobs EXCEPT ![e].state = "completed"]}
    BY <1>3 DEF TakeImport, Waiting
  <2>2. jobs' = [jobs EXCEPT ![e].state = "completed"] => JobsGoOn
    BY <2>1 DEF OutboxShapes, JobsGoOn, JobRow, JobState
  <2> QED
    BY <1>3, <2>1, <2>2, JobTaken, RowsStay DEF TakeImport
<1>4. ASSUME NEW w \in Workers,
             MarkProcessing(w) \/ BeginSlice(w) \/ CommitSlice(w) \/ Complete(w)
      PROVE  JobsGoOn /\ Appends /\ pass' = pass
  BY <1>4, JobsStay, RowsStay DEF MarkProcessing, BeginSlice, CommitSlice, Complete, outboxVars
<1>5. ASSUME NEW w \in Workers, FinishImport(w) \/ FailBatch(w)
      PROVE  JobsGoOn /\ Appends /\ pass' = pass
  BY <1>5, JobEnds, RowsStay DEF FinishImport, FailBatch
<1> QED
  BY <1>1, <1>2, <1>3, <1>4, <1>5 DEF ImportNext, ApiNext, RunImport

LEMMA FeedSeenByOutbox ==
  ASSUME OutboxShapes, FeedNext
  PROVE  JobsGoOn /\ Appends /\ pass' = pass
<1>1. CASE RequestSync
  <2>1. PICK e \in Events: IsNext(e) /\ outbox' = Appended(e, "sync")
    BY <1>1 DEF RequestSync
  <2> QED
    BY <1>1, <2>1, JobsStay, AppendedRow DEF RequestSync, Kinds
<1>2. ASSUME NEW w \in Workers, TakeSync(w)
      PROVE  JobsGoOn /\ Appends /\ pass' = pass
  BY <1>2, JobTaken, RowsStay DEF TakeSync, Waiting
<1>3. ASSUME NEW w \in Workers, FetchPage(w) \/ LookUp(w) \/ ApplyItem(w) \/ SaveCursor(w) \/ ReportSync(w)
      PROVE  JobsGoOn /\ Appends /\ pass' = pass
  BY <1>3, JobsStay, RowsStay DEF FetchPage, LookUp, ApplyItem, SaveCursor, ReportSync, outboxVars
<1>4. ASSUME NEW w \in Workers, FinishSync(w) \/ RejectSync(w) \/ ThrowSync(w)
      PROVE  JobsGoOn /\ Appends /\ pass' = pass
  BY <1>4, JobEnds, RowsStay DEF FinishSync, RejectSync, ThrowSync
<1>5. ASSUME NEW i \in Items, StoreHook(i) \/ ProcessHook(i)
      PROVE  JobsGoOn /\ Appends /\ pass' = pass
  BY <1>5, JobsStay, RowsStay DEF StoreHook, ProcessHook, outboxVars
<1> QED
  BY <1>1, <1>2, <1>3, <1>4, <1>5 DEF FeedNext, RunSync

LEMMA NextKeepsOutbox ==
  ASSUME OutboxInv, [Next]_vars
  PROVE  OutboxInv'
<1>0. NoPass \in PassRow /\ OutboxShapes
  BY DEF NoPass, PassRow, OutboxInv
<1>1. CASE QueueNext
  BY <1>1, QueueKeeps
<1>2. CASE ImportNext \/ FeedNext
  BY <1>0, <1>2, ImportSeenByOutbox, FeedSeenByOutbox, StepOfOthers DEF OutboxShapes
<1>3. ASSUME NEW w \in Workers, Crash(w)
      PROVE  OutboxInv'
  <2>1. /\ pass' \in [Workers -> PassRow]
        /\ \A v \in Workers: pass'[v] \in {pass[v], NoPass}
    BY <1>0, <1>3 DEF Crash, OutboxShapes
  <2> QED
    BY <1>0, <1>3, <2>1, JobsStay, RowsStay, StepOfOthers DEF Crash
<1>4. CASE UNCHANGED vars
  BY <1>0, <1>4, JobsStay, RowsStay, StepOfOthers DEF vars, outboxVars, OutboxShapes
<1> QED
  BY <1>1, <1>2, <1>3, <1>4 DEF Next

LEMMA InitOutbox == ASSUME OutboxInit PROVE OutboxInv
BY DEF OutboxInit, OutboxInv, OutboxShapes, ClaimsStand, JobsHaveRows, DispatchedWasPublished,
       OutboxRow, PassRow, JobRow, RowStatus, JobState, Kinds, NoPass, NoJob, Appeared, Published

THEOREM OutboxHolds == Spec => []OutboxInv
<1>1. Init => OutboxInv
  BY InitOutbox DEF Init
<1>2. OutboxInv /\ [Next]_vars => OutboxInv'
  BY NextKeepsOutbox
<1> QED
  BY <1>1, <1>2, PTL DEF Spec

(* However many dispatchers poll, whatever pass is rolled back and whatever *)
(* process dies: an event marked DISPATCHED has reached its queue           *)
(* (outbox.dispatcher.ts publishes before it marks).                       *)
THEOREM DispatchedReachedItsQueue == Spec => []DispatchedWasPublished
<1>1. OutboxInv => DispatchedWasPublished
  BY DEF OutboxInv
<1> QED
  BY <1>1, OutboxHolds, PTL

----------------------------------------------------------------------------
(* One payment for an external id                                          *)
PaymentsInv == payments \in [Versions \X Rows -> Nat] /\ PaidOnce

LEMMA SlicePaysOnce ==
  ASSUME PaymentsInv, NEW w \in Workers, CommitSlice(w)
  PROVE  PaymentsInv'
<1>1. PICK refused \in SUBSET Rows:
        /\ ~Collides(w, refused)
        /\ payments' = [p \in DOMAIN payments |->
             IF \E r \in Fresh(w, refused): p = PaymentOf(w, r)
               THEN payments[p] + 1 ELSE payments[p]]
  BY DEF CommitSlice, Slice
<1>2. ASSUME NEW p \in Versions \X Rows, NEW r \in Fresh(w, refused), p = PaymentOf(w, r)
      PROVE  payments[p] = 0
  <2>1. r \in Slice(w) \ (importRun[w].seen \cup refused)
    BY DEF Fresh, Outcome
  <2>2. ~Exists(w, r)
    BY <1>1, <2>1 DEF Collides
  <2> QED
    BY <1>2, <2>2 DEF Exists, PaymentsInv
<1>3. ASSUME NEW p \in Versions \X Rows
      PROVE  payments'[p] \in Nat /\ payments'[p] <= 1
  BY <1>1, <1>2 DEF PaymentsInv, PaidOnce
<1> QED
  BY <1>1, <1>3 DEF PaymentsInv, PaidOnce

LEMMA NextPaysOnce ==
  ASSUME PaymentsInv, [Next]_vars
  PROVE  PaymentsInv'
<1>1. ASSUME NEW w \in Workers, CommitSlice(w)
      PROVE  PaymentsInv'
  BY <1>1, SlicePaysOnce
<1>2. CASE ImportNext /\ ~\E w \in Workers: CommitSlice(w)
  <2>1. payments' = payments
    BY <1>2 DEF ImportNext, ApiNext, RunImport, Upload, CreateUpload, BeginValidate, MarkValidating,
                ReadObject, FinishValidate, BeginConfirm, CheckStored, CommitConfirm, Cancel, Retry, ApiFails,
                TakeImport, MarkProcessing, BeginSlice, Complete, FinishImport, FailBatch
  <2> QED
    BY <2>1 DEF PaymentsInv, PaidOnce
<1>3. CASE \/ QueueNext \/ UNCHANGED vars
           \/ FeedNext /\ UNCHANGED importVars
           \/ \E w \in Workers: Crash(w)
  <2>1. payments' = payments
    BY <1>3 DEF QueueNext, Crash, importVars, vars
  <2> QED
    BY <2>1 DEF PaymentsInv, PaidOnce
<1> QED
  BY <1>1, <1>2, <1>3 DEF Next

(* However many processes ingest the same rows at once, and however often a *)
(* row is replayed, its external id is one payment                         *)
(* (transaction-ingest.service.ts and the unique index behind it).         *)
THEOREM RowsPaidOnce == Spec => []PaidOnce
<1>1. Init => PaymentsInv
  BY DEF Init, ImportInit, PaymentsInv, PaidOnce
<1>2. PaymentsInv /\ [Next]_vars => PaymentsInv'
  BY NextPaysOnce
<1>3. PaymentsInv => PaidOnce
  BY DEF PaymentsInv
<1> QED
  BY <1>1, <1>2, <1>3, PTL DEF Spec

----------------------------------------------------------------------------
(* The feed                                                                *)
CursorRow == [offset: 0..LastItem, deferred: SUBSET Items]
SyncRow   == [step: {"idle", "fetch", "page", "item", "done", "told"}, event: Events \cup {0},
              cursor: CursorRow, pages: Nat, left: SUBSET Nat, found: BOOLEAN]

FeedShapes ==
  /\ cursor \in CursorRow
  /\ paid \in [Items -> Nat] /\ reversed \subseteq Items
  /\ syncRun \in [Workers -> SyncRow]

(* What is before c and not held back there has left its mark. *)
Behind(c) == \A i \in Items \ Unheld: i <= c.offset /\ i \notin c.deferred => Applied(i)

(* What the page of c delivers is still to be applied, or has been. *)
PageCovered(c, left) ==
  /\ left \subseteq Page(c)
  /\ \A i \in (c.deferred \cup OnTime(c)) \ Unheld: 2 * i \in left \/ Applied(i)

(* What a page turns to next, as Turn; it is one of the page. *)
FirstOf(left) == CHOOSE d \in left: \A x \in left: d <= x

(* What was found when it was looked up is still there. *)
StillFound(i) == IF IsPayment(i) THEN paid[i] > 0 ELSE Received(Target[i])

Everything == \A i \in Items \ Unheld: Applied(i)

RunStands(r) ==
  /\ r.step \in {"fetch", "page", "item"} => Behind(r.cursor)
  /\ r.step \in {"page", "item"} => PageCovered(r.cursor, r.left)
  /\ r.step = "item" => FirstOf(r.left) \in r.left /\ (r.found => StillFound(ItemOf(FirstOf(r.left))))
  /\ r.step \in {"done", "told"} /\ r.pages < MaxPages => Everything

FeedInv ==
  /\ FeedShapes
  /\ FeedPaysOnce
  /\ Behind(cursor)
  /\ \A w \in Workers: RunStands(syncRun[w])
  /\ ReportedSyncDelivered

(* Marks are left and never taken away. *)
MarksStay ==
  /\ paid' \in [Items -> Nat] /\ \A i \in Items: paid[i] <= paid'[i]
  /\ reversed \subseteq reversed' /\ conflicts \subseteq conflicts'

LEMMA AppliedStays ==
  ASSUME FeedShapes, MarksStay
  PROVE  /\ \A i \in Items: Applied(i) => Applied(i)'
         /\ \A c \in CursorRow: Behind(c) => Behind(c)'
         /\ \A r \in SyncRow: RunStands(r) => RunStands(r)'
         /\ Everything => Everything'
<1>1. \A i \in Items: Applied(i) => Applied(i)'
  BY DEF FeedShapes, MarksStay, Applied, IsPayment
<1>2. ASSUME NEW c \in CursorRow
      PROVE  Behind(c) => Behind(c)'
  BY <1>1 DEF Behind
<1>3. ASSUME NEW r \in SyncRow
      PROVE  RunStands(r) => RunStands(r)'
  <2>1. r.cursor \in CursorRow
    BY DEF SyncRow
  <2>2. r.cursor.deferred \cup OnTime(r.cursor) \subseteq Items
    BY <2>1 DEF CursorRow, OnTime, InSlice
  <2>3. PageCovered(r.cursor, r.left) => PageCovered(r.cursor, r.left)'
    BY <1>1, <2>2 DEF PageCovered
  <2>4. ASSUME PageCovered(r.cursor, r.left), FirstOf(r.left) \in r.left, StillFound(ItemOf(FirstOf(r.left)))
        PROVE  StillFound(ItemOf(FirstOf(r.left)))'
    <3>1. ItemOf(FirstOf(r.left)) \in Items
      <4>1. FirstOf(r.left) \in Page(r.cursor)
        BY <2>4 DEF PageCovered
      <4> QED
        BY <2>1, <2>2, <4>1 DEF Page, ItemOf, Items
    <3> HIDE DEF FirstOf
    <3> QED
      BY <2>4, <3>1 DEF StillFound, FeedShapes, MarksStay, Received, IsPayment
  <2>5. Behind(r.cursor) => Behind(r.cursor)'
    BY <1>2, <2>1
  <2>6. Everything => Everything'
    BY <1>1 DEF Everything
  <2> HIDE DEF FirstOf
  <2> QED
    BY <2>3, <2>4, <2>5, <2>6 DEF RunStands
<1>4. Everything => Everything'
  BY <1>1 DEF Everything
<1> QED
  BY <1>1, <1>2, <1>3, <1>4

(* A step that leaves marks, moves at most one run, takes the cursor only   *)
(* where marks are and reports only what is delivered.                     *)
LEMMA RunMoves ==
  ASSUME FeedInv, MarksStay, FeedPaysOnce', reversed' \subseteq Items,
         cursor' \in CursorRow, Behind(cursor)',
         syncRun' \in [Workers -> SyncRow],
         NEW w, w \in Workers => RunStands(syncRun[w])',
         \A v \in Workers \ {w}: syncRun'[v] = syncRun[v],
         \A report \in reports': report \in reports \/ report.pages >= MaxPages \/ Everything,
         \A report \in reports': report \notin reports => report.pages \in Nat
  PROVE  FeedInv'
<1>1. FeedShapes'
  BY DEF FeedShapes, MarksStay
<1>2. ASSUME NEW v \in Workers
      PROVE  RunStands(syncRun[v])'
  <2>1. CASE v = w
    BY <2>1
  <2>2. CASE v # w
    <3>1. syncRun[v] \in SyncRow /\ RunStands(syncRun[v]) /\ syncRun'[v] = syncRun[v]
      BY <2>2 DEF FeedInv, FeedShapes
    <3>2. \A r \in SyncRow: RunStands(r) => RunStands(r)'
      BY AppliedStays DEF FeedInv
    <3> QED
      BY <3>1, <3>2
  <2> QED
    BY <2>1, <2>2
<1>3. ReportedSyncDelivered'
  <2>1. Everything => Everything'
    BY AppliedStays DEF FeedInv
  <2>2. ASSUME NEW report \in reports', report.pages < MaxPages
        PROVE  Everything
    <3>1. CASE report \in reports
      BY <2>2, <3>1 DEF FeedInv, ReportedSyncDelivered, Everything
    <3>2. CASE report \notin reports
      <4>1. report.pages \in Nat /\ MaxPages \in Nat
        BY <3>2, FeedAssumption
      <4>2. ~ (report.pages >= MaxPages)
        BY <2>2, <4>1
      <4> QED
        BY <3>2, <4>2
    <3> QED
      BY <3>1, <3>2
  <2> QED
    BY <2>1, <2>2 DEF ReportedSyncDelivered, Everything
<1> QED
  BY <1>1, <1>2, <1>3 DEF FeedInv

LEMMA FeedStays ==
  ASSUME FeedInv,
         UNCHANGED <<cursor, paid, reversed, conflicts>>,
         syncRun' \in [Workers -> SyncRow],
         NEW w, w \in Workers => RunStands(syncRun[w])',
         \A v \in Workers \ {w}: syncRun'[v] = syncRun[v],
         \A report \in reports': report \in reports \/ report.pages >= MaxPages \/ Everything,
         \A report \in reports': report \notin reports => report.pages \in Nat
  PROVE  FeedInv'
<1>1. MarksStay /\ FeedPaysOnce' /\ reversed' \subseteq Items
  BY DEF FeedInv, FeedShapes, MarksStay, FeedPaysOnce
<1>2. cursor' \in CursorRow /\ Behind(cursor)'
  BY DEF FeedInv, FeedShapes, Behind, Applied
<1> QED
  BY <1>1, <1>2, RunMoves

LEMMA Beginnings ==
  /\ Start \in CursorRow /\ Behind(Start)
  /\ NoSync \in SyncRow /\ RunStands(NoSync)
BY FeedAssumption DEF Start, NoSync, CursorRow, SyncRow, Behind, RunStands, Items

(* A delivery of a page is the delivery of an item. *)
LEMMA Deliveries ==
  ASSUME NEW c \in CursorRow
  PROVE  /\ Page(c) \subseteq Nat
         /\ \A d \in Page(c): ItemOf(d) \in Items /\ d \in {2 * ItemOf(d), 2 * ItemOf(d) + 1}
<1>1. \A i \in Items: ItemOf(2 * i) = i /\ ItemOf(2 * i + 1) = i
  BY DEF ItemOf, Items
<1>2. c.deferred \cup OnTime(c) \subseteq Items
  BY DEF CursorRow, OnTime, InSlice
<1>3. ASSUME NEW d \in Page(c)
      PROVE  \E i \in Items: d \in {2 * i, 2 * i + 1}
  BY <1>2 DEF Page
<1> QED
  BY <1>1, <1>3 DEF Items

(* What is left of a page has a first. *)
LEMMA FirstIsLeft ==
  ASSUME NEW c \in CursorRow, NEW left, PageCovered(c, left), left # {}
  PROVE  FirstOf(left) \in left /\ ItemOf(FirstOf(left)) \in Items
<1>1. left \subseteq Nat
  BY Deliveries DEF PageCovered
<1>2. \E d \in left: \A x \in left: d <= x
  BY <1>1, LeastNat
<1>3. FirstOf(left) \in left
  BY <1>2 DEF FirstOf
<1> HIDE DEF FirstOf
<1> QED
  BY <1>3, Deliveries DEF PageCovered

(* The cursor of the next page stands behind a page that is applied. *)
LEMMA NextStandsBehind ==
  ASSUME NEW c \in CursorRow, Behind(c), PageCovered(c, {})
  PROVE  /\ NextCursor(c) \in CursorRow /\ Behind(NextCursor(c))
         /\ ~HasMore(c) => Everything
<1>1. /\ c.offset \in 0..LastItem /\ LastItem \in Nat /\ PageSize \in Nat \ {0}
      /\ InSlice(c) \subseteq Items
  BY FeedAssumption DEF CursorRow, InSlice
<1>2. /\ NextCursor(c).offset = IF c.offset + PageSize < LastItem THEN c.offset + PageSize ELSE LastItem
      /\ NextCursor(c).deferred = InSlice(c) \cap Late
  BY DEF NextCursor
<1>3. NextCursor(c) \in CursorRow
  BY <1>1 DEF NextCursor, CursorRow
<1>4. ASSUME NEW i \in Items \ Unheld, i <= NextCursor(c).offset, i \notin NextCursor(c).deferred
      PROVE  Applied(i)
  <2>1. CASE i <= c.offset /\ i \notin c.deferred
    BY <2>1 DEF Behind
  <2>2. CASE i \in c.deferred
    BY <2>2 DEF PageCovered
  <2>3. CASE i > c.offset
    <3>1. i \in OnTime(c)
      BY <1>1, <1>2, <1>4, <2>3 DEF OnTime, InSlice, Items
    <3> QED
      BY <3>1 DEF PageCovered
  <2> QED
    BY <1>1, <2>1, <2>2, <2>3 DEF Items
<1>5. ASSUME ~HasMore(c), NEW i \in Items \ Unheld
      PROVE  Applied(i)
  <2>1. NextCursor(c).deferred = {} /\ NextCursor(c).offset = LastItem
    BY <1>1, <1>2, <1>5 DEF HasMore
  <2> QED
    BY <1>1, <1>4, <2>1 DEF Items
<1> QED
  BY <1>3, <1>4, <1>5 DEF Behind, Everything

(* The updates of a run, field by field. *)
LEMMA PageIn ==
  ASSUME NEW r \in SyncRow, NEW l \in SUBSET Nat
  PROVE  LET page == [r EXCEPT !.step = "page", !.pages = @ + 1, !.left = l]
         IN  page \in SyncRow /\ page.step = "page" /\ page.left = l /\ page.cursor = r.cursor
<1>1. /\ r.pages \in Nat /\ r.pages + 1 \in Nat
      /\ r = [step |-> r.step, event |-> r.event, cursor |-> r.cursor,
              pages |-> r.pages, left |-> r.left, found |-> r.found]
  BY DEF SyncRow
<1> QED
  BY <1>1 DEF SyncRow

LEMMA PassedOver ==
  ASSUME NEW r \in SyncRow, NEW l \in SUBSET Nat
  PROVE  LET less == [r EXCEPT !.left = l]
         IN  less \in SyncRow /\ less.step = r.step /\ less.left = l /\ less.cursor = r.cursor
BY DEF SyncRow

LEMMA ItemOut ==
  ASSUME NEW r \in SyncRow, NEW l \in SUBSET Nat
  PROVE  LET next == [r EXCEPT !.step = "page", !.found = FALSE, !.left = l]
         IN  next \in SyncRow /\ next.step = "page" /\ next.left = l /\ next.cursor = r.cursor
BY DEF SyncRow

LEMMA FetchKeeps ==
  ASSUME FeedInv, NEW w \in Workers, FetchPage(w)
  PROVE  FeedInv'
<1> DEFINE c == syncRun[w].cursor
<1>0. /\ syncRun \in [Workers -> SyncRow] /\ syncRun[w] \in SyncRow
      /\ RunStands(syncRun[w]) /\ syncRun[w].step = "fetch"
  BY DEF FeedInv, FeedShapes, FetchPage, Syncing
<1>1. UNCHANGED <<cursor, paid, reversed, conflicts, reports>>
  BY DEF FetchPage
<1>2. \A i \in Items: Applied(i) => Applied(i)'
  BY <1>1 DEF Applied
<1>3. c \in CursorRow /\ Page(c) \in SUBSET Nat /\ Behind(c)
  BY <1>0, Deliveries DEF SyncRow, RunStands
<1>4. /\ syncRun'[w] = [syncRun[w] EXCEPT !.step = "page", !.pages = @ + 1, !.left = Page(c)]
      /\ \A v \in Workers \ {w}: syncRun'[v] = syncRun[v]
      /\ syncRun' = [v \in Workers |-> syncRun'[v]]
  BY <1>0 DEF FetchPage
<1>5. /\ syncRun'[w] \in SyncRow /\ syncRun'[w].step = "page"
      /\ syncRun'[w].left = Page(c) /\ syncRun'[w].cursor = c
  <2>1. LET page == [syncRun[w] EXCEPT !.step = "page", !.pages = @ + 1, !.left = Page(c)]
        IN  page \in SyncRow /\ page.step = "page" /\ page.left = Page(c) /\ page.cursor = syncRun[w].cursor
    <3>1. Page(c) \in SUBSET Nat /\ syncRun[w] \in SyncRow
      BY <1>0, <1>3
    <3> HIDE DEF c
    <3> QED
      BY <3>1, PageIn
  <2> QED
    BY <1>4, <2>1
<1>6. PageCovered(c, Page(c)) /\ c.deferred \cup OnTime(c) \subseteq Items
  BY <1>3 DEF PageCovered, Page, CursorRow, OnTime, InSlice
<1> HIDE DEF c
<1>7. RunStands(syncRun[w])'
  BY <1>2, <1>3, <1>5, <1>6 DEF RunStands, Behind, PageCovered
<1>8. syncRun' \in [Workers -> SyncRow]
  BY <1>0, <1>4, <1>5
<1> QED
  BY <1>1, <1>4, <1>7, <1>8, FeedStays

LEMMA TakeKeeps ==
  ASSUME FeedInv, NEW w \in Workers, TakeSync(w)
  PROVE  FeedInv'
<1>0. /\ syncRun \in [Workers -> SyncRow] /\ cursor \in CursorRow /\ Behind(cursor)
  BY DEF FeedInv, FeedShapes
<1>1. UNCHANGED <<cursor, paid, reversed, conflicts, reports>>
  BY DEF TakeSync
<1>2. \A i \in Items: Applied(i) => Applied(i)'
  BY <1>1 DEF Applied
<1>3. PICK e \in Events:
        syncRun' = [syncRun EXCEPT ![w] = [NoSync EXCEPT !.step = "fetch", !.event = e, !.cursor = cursor]]
  BY DEF TakeSync
<1> DEFINE r == [NoSync EXCEPT !.step = "fetch", !.event = e, !.cursor = cursor]
<1>4. r \in SyncRow /\ r.step = "fetch" /\ r.cursor = cursor
  BY <1>0, Beginnings DEF SyncRow, NoSync
<1> HIDE DEF r
<1>5. /\ syncRun' \in [Workers -> SyncRow] /\ syncRun'[w] = r
      /\ \A v \in Workers \ {w}: syncRun'[v] = syncRun[v]
  BY <1>0, <1>3, <1>4 DEF r
<1>6. RunStands(syncRun[w])'
  BY <1>0, <1>1, <1>2, <1>4, <1>5 DEF RunStands, Behind
<1> QED
  BY <1>1, <1>5, <1>6, FeedStays

LEMMA LookUpKeeps ==
  ASSUME FeedInv, NEW w \in Workers, LookUp(w)
  PROVE  FeedInv'
<1>a. syncRun \in [Workers -> SyncRow] /\ syncRun[w] \in SyncRow
  BY DEF FeedInv, FeedShapes
<1>b. PICK c \in CursorRow, l \in SUBSET Nat: c = syncRun[w].cursor /\ l = syncRun[w].left
  BY <1>a DEF SyncRow
<1> DEFINE d == FirstOf(l)
<1>0. /\ syncRun \in [Workers -> SyncRow] /\ syncRun[w] \in SyncRow
      /\ RunStands(syncRun[w]) /\ syncRun[w].step = "page" /\ l # {}
  BY <1>a, <1>b DEF FeedInv, FeedShapes, LookUp, Syncing
<1>1. UNCHANGED <<cursor, paid, reversed, conflicts, reports>>
  BY DEF LookUp
<1>2. \A i \in Items: Applied(i) => Applied(i)'
  BY <1>1 DEF Applied
<1>3. c \in CursorRow /\ Behind(c) /\ PageCovered(c, l) /\ l \subseteq Nat
  BY <1>0, <1>b DEF SyncRow, RunStands
<1>4. d \in l /\ ItemOf(d) \in Items /\ Turn(w) = d /\ Current(w) = ItemOf(d)
  BY <1>0, <1>b, <1>3, FirstIsLeft DEF Turn, Current, FirstOf
<1> HIDE DEF d
<1>5. Behind(c)'
  BY <1>2, <1>3 DEF Behind
<1>6. CASE Current(w) \in Unheld
  <2>1. /\ syncRun'[w] = [syncRun[w] EXCEPT !.left = l \ {d}]
        /\ \A v \in Workers \ {w}: syncRun'[v] = syncRun[v]
        /\ syncRun' = [v \in Workers |-> syncRun'[v]]
    BY <1>0, <1>b, <1>4, <1>6 DEF LookUp
  <2>2. /\ syncRun'[w] \in SyncRow /\ syncRun'[w].step = "page"
        /\ syncRun'[w].left = l \ {d} /\ syncRun'[w].cursor = c
    <3>1. l \ {d} \in SUBSET Nat
      BY <1>3
    <3>2. LET less == [syncRun[w] EXCEPT !.left = l \ {d}]
          IN  less \in SyncRow /\ less.step = syncRun[w].step /\ less.left = l \ {d} /\ less.cursor = c
      BY <1>0, <1>b, <3>1, PassedOver
    <3> QED
      BY <1>0, <2>1, <3>2
  <2>3. PageCovered(c, l \ {d})'
    <3>1. ASSUME NEW i \in (c.deferred \cup OnTime(c)) \ Unheld
          PROVE  2 * i \in l \ {d} \/ Applied(i)'
      <4>1. i \in Items /\ (2 * i \in l \/ Applied(i))
        BY <1>3 DEF PageCovered, CursorRow, OnTime, InSlice
      <4>2. d = 2 * i => ItemOf(d) = i
        BY <4>1 DEF ItemOf, Items
      <4> QED
        BY <1>2, <1>4, <1>6, <4>1, <4>2
    <3> QED
      BY <1>3, <3>1 DEF PageCovered
  <2>4. RunStands(syncRun[w])'
    BY <1>5, <2>2, <2>3 DEF RunStands
  <2>5. syncRun' \in [Workers -> SyncRow]
    BY <1>0, <2>1, <2>2
  <2> QED
    BY <1>1, <2>1, <2>4, <2>5, FeedStays
<1>7. CASE Current(w) \notin Unheld
  <2>0. StillFound(ItemOf(d)) \in BOOLEAN
    <3>1. paid[ItemOf(d)] \in Nat
      BY <1>4 DEF FeedInv, FeedShapes
    <3> QED
      <4>1. CASE IsPayment(ItemOf(d))
        <5>1. (paid[ItemOf(d)] > 0) \in BOOLEAN
          BY <3>1
        <5> QED
          BY <4>1, <5>1 DEF StillFound
      <4>2. CASE ~IsPayment(ItemOf(d))
        <5>1. Received(Target[ItemOf(d)]) \in BOOLEAN
          BY DEF Received
        <5> QED
          BY <4>2, <5>1 DEF StillFound
      <4> QED
        BY <4>1, <4>2
  <2>1. PICK b \in BOOLEAN: b = StillFound(ItemOf(d))
    BY <2>0
  <2>2. /\ syncRun'[w] = [syncRun[w] EXCEPT !.step = "item", !.found = b]
        /\ \A v \in Workers \ {w}: syncRun'[v] = syncRun[v]
        /\ syncRun' = [v \in Workers |-> syncRun'[v]]
    BY <1>0, <1>4, <1>7, <2>1 DEF LookUp, StillFound
  <2>3. StillFound(ItemOf(d))' = StillFound(ItemOf(d))
    BY <1>1 DEF StillFound, Received
  <2>4. /\ syncRun'[w] \in SyncRow /\ syncRun'[w].step = "item" /\ syncRun'[w].found = b
        /\ syncRun'[w].left = l /\ syncRun'[w].cursor = c
    <3>1. LET item == [syncRun[w] EXCEPT !.step = "item", !.found = b]
          IN  /\ item \in SyncRow /\ item.step = "item" /\ item.found = b
              /\ item.left = syncRun[w].left /\ item.cursor = syncRun[w].cursor
      BY <1>0, <2>1 DEF SyncRow
    <3> QED
      BY <1>b, <2>2, <3>1
  <2>5. PageCovered(c, l)'
    <3>1. c.deferred \cup OnTime(c) \subseteq Items
      BY <1>3 DEF CursorRow, OnTime, InSlice
    <3> QED
      BY <1>2, <1>3, <3>1 DEF PageCovered
  <2>6. RunStands(syncRun[w])'
    <3>1. b => StillFound(ItemOf(d))'
      BY <2>1, <2>3
    <3>2. d = FirstOf(l)
      BY DEF d
    <3> HIDE DEF FirstOf
    <3> QED
      BY <1>4, <1>5, <2>4, <2>5, <3>1, <3>2 DEF RunStands
  <2>7. syncRun' \in [Workers -> SyncRow]
    BY <1>0, <2>2, <2>4
  <2> QED
    BY <1>1, <2>2, <2>6, <2>7, FeedStays
<1> QED
  BY <1>6, <1>7

LEMMA EndKeeps ==
  ASSUME FeedInv, NEW w \in Workers, FinishSync(w) \/ RejectSync(w) \/ ThrowSync(w)
  PROVE  FeedInv'
<1>0. syncRun \in [Workers -> SyncRow] /\ UNCHANGED <<cursor, paid, reversed, conflicts, reports>>
  BY DEF FeedInv, FeedShapes, FinishSync, RejectSync, ThrowSync
<1>1. /\ syncRun' \in [Workers -> SyncRow] /\ syncRun'[w] = NoSync
      /\ \A v \in Workers \ {w}: syncRun'[v] = syncRun[v]
  BY <1>0, Beginnings DEF FinishSync, RejectSync, ThrowSync, LetGo
<1>2. RunStands(syncRun[w])'
  BY <1>1 DEF RunStands, NoSync
<1> QED
  BY <1>0, <1>1, <1>2, FeedStays

LEMMA ReportKeeps ==
  ASSUME FeedInv, NEW w \in Workers, ReportSync(w)
  PROVE  FeedInv'
<1>0. /\ syncRun \in [Workers -> SyncRow] /\ syncRun[w] \in SyncRow
      /\ RunStands(syncRun[w]) /\ syncRun[w].step = "done"
      /\ UNCHANGED <<cursor, paid, reversed, conflicts>>
  BY DEF FeedInv, FeedShapes, ReportSync, Syncing
<1>1. /\ syncRun'[w] = [syncRun[w] EXCEPT !.step = "told"]
      /\ \A v \in Workers \ {w}: syncRun'[v] = syncRun[v]
      /\ syncRun' = [v \in Workers |-> syncRun'[v]]
  BY <1>0 DEF ReportSync
<1>2. syncRun'[w] \in SyncRow /\ syncRun'[w].step = "told" /\ syncRun'[w].pages = syncRun[w].pages
  <2>1. LET told == [syncRun[w] EXCEPT !.step = "told"]
        IN  told \in SyncRow /\ told.step = "told" /\ told.pages = syncRun[w].pages
    BY <1>0 DEF SyncRow
  <2> QED
    BY <1>1, <2>1
<1>3. syncRun[w].pages \in Nat /\ MaxPages \in Nat /\ (syncRun[w].pages < MaxPages => Everything)
  BY <1>0, FeedAssumption DEF SyncRow, RunStands
<1>4. Everything => Everything'
  BY <1>0 DEF Everything, Applied
<1>5. RunStands(syncRun[w])'
  BY <1>2, <1>3, <1>4 DEF RunStands
<1>6. reports' = reports \cup {[event |-> syncRun[w].event, pages |-> syncRun[w].pages]}
  BY DEF ReportSync
<1>7. \A report \in reports': report \in reports \/ report.pages >= MaxPages \/ Everything
  BY <1>3, <1>6
<1>8. \A report \in reports': report \notin reports => report.pages \in Nat
  BY <1>3, <1>6
<1>9. syncRun' \in [Workers -> SyncRow]
  BY <1>0, <1>1, <1>2
<1> QED
  BY <1>0, <1>1, <1>5, <1>7, <1>8, <1>9, FeedStays

(* An item that was looked up leaves its mark, and pays once although the   *)
(* answer may be old.                                                      *)
LEMMA ItemLeavesItsMark ==
  ASSUME FeedInv, NEW i \in Items, NEW found \in BOOLEAN, found => StillFound(i),
         IF IsPayment(i) THEN ApplyPayment(i, found) ELSE ApplyReversal(i, found)
  PROVE  MarksStay /\ FeedPaysOnce' /\ reversed' \subseteq Items /\ Applied(i)'
<1>1. /\ paid \in [Items -> Nat] /\ reversed \subseteq Items
      /\ \A j \in Items: paid[j] <= 1 /\ (j \in reversed => paid[j] = 1)
  BY DEF FeedInv, FeedShapes, FeedPaysOnce
<1>2. CASE IsPayment(i)
  <2>1. found => paid[i] > 0
    BY <1>2 DEF StillFound
  <2>2. CASE paid' = paid
    BY <1>1, <1>2, <2>1, <2>2 DEF ApplyPayment, MarksStay, FeedPaysOnce, Applied, IsPayment
  <2>3. CASE paid' # paid
    <3>1. paid[i] = 0 /\ paid' = [paid EXCEPT ![i] = @ + 1] /\ UNCHANGED <<conflicts, reversed>>
      BY <1>2, <2>3 DEF ApplyPayment, Fits
    <3>2. /\ paid' \in [Items -> Nat] /\ paid'[i] = 1
          /\ \A j \in Items \ {i}: paid'[j] = paid[j]
      BY <1>1, <3>1
    <3> QED
      BY <1>1, <1>2, <3>1, <3>2 DEF MarksStay, FeedPaysOnce, Applied, IsPayment
  <2> QED
    BY <2>2, <2>3
<1>3. CASE ~IsPayment(i)
  <2>1. found => Target[i] \in Items /\ paid[Target[i]] = 1
    BY <1>1, <1>3 DEF Received, StillFound
  <2> QED
    BY <1>1, <1>3, <2>1 DEF ApplyReversal, MarksStay, FeedPaysOnce, Applied, IsPayment
<1> QED
  BY <1>2, <1>3

LEMMA ApplyKeeps ==
  ASSUME FeedInv, NEW w \in Workers, ApplyItem(w)
  PROVE  FeedInv'
<1>a. syncRun[w] \in SyncRow
  BY DEF FeedInv, FeedShapes
<1>b. PICK c \in CursorRow, l \in SUBSET Nat: c = syncRun[w].cursor /\ l = syncRun[w].left
  BY <1>a DEF SyncRow
<1> DEFINE d == FirstOf(l)
<1>0. /\ syncRun \in [Workers -> SyncRow] /\ syncRun[w] \in SyncRow /\ cursor \in CursorRow
      /\ RunStands(syncRun[w]) /\ Behind(cursor) /\ FeedShapes /\ syncRun[w].step = "item"
  BY DEF FeedInv, FeedShapes, ApplyItem, Syncing
<1>1. UNCHANGED <<cursor, reports>>
  BY DEF ApplyItem
<1>2. /\ c \in CursorRow /\ Behind(c) /\ PageCovered(c, l) /\ l \subseteq Nat /\ d \in l
      /\ syncRun[w].found \in BOOLEAN /\ (syncRun[w].found => StillFound(ItemOf(d)))
  <2> HIDE DEF FirstOf
  <2> QED
    BY <1>0, <1>b DEF SyncRow, RunStands
<1>3. ItemOf(d) \in Items /\ d \in {2 * ItemOf(d), 2 * ItemOf(d) + 1}
  <2> HIDE DEF d
  <2> QED
    BY <1>2, Deliveries DEF PageCovered
<1>4. Turn(w) = d /\ Current(w) = ItemOf(d)
  BY <1>b DEF Turn, Current, FirstOf
<1> HIDE DEF d
<1>5. MarksStay /\ FeedPaysOnce' /\ reversed' \subseteq Items /\ Applied(ItemOf(d))'
  <2>1. IF IsPayment(ItemOf(d)) THEN ApplyPayment(ItemOf(d), syncRun[w].found)
                                ELSE ApplyReversal(ItemOf(d), syncRun[w].found)
    BY <1>4 DEF ApplyItem
  <2> QED
    <3> DEFINE i == ItemOf(d)
    <3>1. i \in Items /\ syncRun[w].found \in BOOLEAN /\ (syncRun[w].found => StillFound(i))
      BY <1>2, <1>3 DEF d
    <3>2. IF IsPayment(i) THEN ApplyPayment(i, syncRun[w].found) ELSE ApplyReversal(i, syncRun[w].found)
      BY <2>1
    <3> HIDE DEF i
    <3>3. MarksStay /\ FeedPaysOnce' /\ reversed' \subseteq Items /\ Applied(i)'
      BY <3>1, <3>2, ItemLeavesItsMark
    <3> QED
      BY <3>3 DEF i
<1>6. \A i \in Items: Applied(i) => Applied(i)'
  BY <1>0, <1>5, AppliedStays
<1>7. /\ syncRun'[w] = [syncRun[w] EXCEPT !.step = "page", !.found = FALSE, !.left = l \ {d}]
      /\ \A v \in Workers \ {w}: syncRun'[v] = syncRun[v]
      /\ syncRun' = [v \in Workers |-> syncRun'[v]]
  BY <1>0, <1>b, <1>4 DEF ApplyItem
<1>8. /\ syncRun'[w] \in SyncRow /\ syncRun'[w].step = "page"
      /\ syncRun'[w].left = l \ {d} /\ syncRun'[w].cursor = c
  <2>1. l \ {d} \in SUBSET Nat
    BY <1>2
  <2>2. LET next == [syncRun[w] EXCEPT !.step = "page", !.found = FALSE, !.left = l \ {d}]
        IN  next \in SyncRow /\ next.step = "page" /\ next.left = l \ {d} /\ next.cursor = syncRun[w].cursor
    BY <1>0, <2>1, ItemOut
  <2> QED
    BY <1>b, <1>7, <2>2
<1>9. PageCovered(c, l \ {d})'
  <2>1. ASSUME NEW i \in (c.deferred \cup OnTime(c)) \ Unheld
        PROVE  2 * i \in l \ {d} \/ Applied(i)'
    <3>1. i \in Items /\ (2 * i \in l \/ Applied(i))
      BY <1>2 DEF PageCovered, CursorRow, OnTime, InSlice
    <3>2. d = 2 * i => ItemOf(d) = i
      BY <3>1 DEF ItemOf, Items
    <3> QED
      BY <1>5, <1>6, <3>1, <3>2
  <2> QED
    BY <1>2, <2>1 DEF PageCovered
<1>10. RunStands(syncRun[w])'
  <2>1. Behind(c)'
    BY <1>2, <1>6 DEF Behind
  <2> QED
    BY <1>8, <1>9, <2>1 DEF RunStands
<1>11. cursor' \in CursorRow /\ Behind(cursor)' /\ syncRun' \in [Workers -> SyncRow]
  BY <1>0, <1>1, <1>6, <1>7, <1>8 DEF Behind
<1> QED
  BY <1>1, <1>5, <1>7, <1>10, <1>11, RunMoves

LEMMA SaveKeeps ==
  ASSUME FeedInv, NEW w \in Workers, SaveCursor(w)
  PROVE  FeedInv'
<1> DEFINE c == syncRun[w].cursor
           next == IF HasMore(c) THEN NextCursor(c) ELSE Start
           step == IF HasMore(c) /\ syncRun[w].pages < MaxPages THEN "fetch" ELSE "done"
<1>0. /\ syncRun \in [Workers -> SyncRow] /\ syncRun[w] \in SyncRow
      /\ RunStands(syncRun[w]) /\ FeedShapes /\ syncRun[w].pages \in Nat
  BY DEF FeedInv, FeedShapes, SyncRow
<1>1. /\ syncRun[w].step = "page" /\ syncRun[w].left = {}
      /\ cursor' = next
      /\ UNCHANGED <<paid, reversed, conflicts, reports>>
      /\ syncRun' = [syncRun EXCEPT ![w].cursor = next, ![w].step = step]
  BY DEF SaveCursor, Syncing
<1>2. c \in CursorRow /\ Behind(c) /\ PageCovered(c, {})
  BY <1>0, <1>1 DEF SyncRow, RunStands
<1>3. /\ next \in CursorRow /\ Behind(next)
      /\ step = "done" /\ syncRun[w].pages < MaxPages => Everything
      /\ step \in {"fetch", "done"}
  BY <1>2, NextStandsBehind, Beginnings
<1> HIDE DEF next, step, c
<1>4. /\ syncRun'[w] = [syncRun[w] EXCEPT !.cursor = next, !.step = step]
      /\ \A v \in Workers \ {w}: syncRun'[v] = syncRun[v]
      /\ syncRun' = [v \in Workers |-> syncRun'[v]]
  BY <1>0, <1>1
<1>5. /\ syncRun'[w] \in SyncRow /\ syncRun'[w].step = step /\ syncRun'[w].cursor = next
      /\ syncRun'[w].pages = syncRun[w].pages
  <2>1. LET saved == [syncRun[w] EXCEPT !.cursor = next, !.step = step]
        IN  saved \in SyncRow /\ saved.step = step /\ saved.cursor = next /\ saved.pages = syncRun[w].pages
    <3>1. syncRun[w] \in SyncRow /\ next \in CursorRow /\ step \in {"fetch", "done"}
      BY <1>0, <1>3
    <3> QED
      BY <3>1 DEF SyncRow
  <2> QED
    BY <1>4, <2>1
<1>6. syncRun' \in [Workers -> SyncRow]
  BY <1>0, <1>4, <1>5
<1>7. MarksStay /\ FeedPaysOnce' /\ reversed' \subseteq Items
  BY <1>0, <1>1 DEF FeedInv, FeedShapes, MarksStay, FeedPaysOnce
<1>8. (\A i \in Items: Applied(i) => Applied(i)') /\ (Everything => Everything')
  BY <1>0, <1>7, AppliedStays
<1>9. cursor' \in CursorRow /\ Behind(cursor)'
  BY <1>1, <1>3, <1>8 DEF Behind
<1>10. RunStands(syncRun[w])'
  BY <1>3, <1>5, <1>8 DEF RunStands, Behind
<1> QED
  BY <1>1, <1>4, <1>6, <1>7, <1>9, <1>10, RunMoves

LEMMA HooksKeep ==
  ASSUME FeedInv, NEW i \in Items, StoreHook(i) \/ ProcessHook(i)
  PROVE  FeedInv'
<1>0. /\ syncRun \in [Workers -> SyncRow] /\ cursor \in CursorRow /\ Behind(cursor)
      /\ \A w \in Workers: RunStands(syncRun[w])
      /\ paid \in [Items -> Nat] /\ reversed \subseteq Items
      /\ FeedShapes /\ FeedPaysOnce
  BY DEF FeedInv, FeedShapes
<1>1. /\ UNCHANGED <<cursor, paid, conflicts, reports, syncRun>>
      /\ reversed' \in {reversed, reversed \cup {Target[i]}}
      /\ reversed' # reversed => Received(Target[i])
  BY DEF StoreHook, ProcessHook
<1>2. Received(Target[i]) => Target[i] \in Items /\ paid[Target[i]] = 1
  BY <1>0 DEF Received, FeedPaysOnce
<1>3. MarksStay /\ FeedPaysOnce' /\ reversed' \subseteq Items
  BY <1>0, <1>1, <1>2 DEF MarksStay, FeedPaysOnce
<1>4. /\ \A c \in CursorRow: Behind(c) => Behind(c)'
      /\ \A r \in SyncRow: RunStands(r) => RunStands(r)'
      /\ Everything => Everything'
  BY <1>0, <1>3, AppliedStays
<1>5. cursor' \in CursorRow /\ Behind(cursor)'
  <2>1. Behind(cursor)' <=> \A j \in Items \ Unheld: j <= cursor.offset /\ j \notin cursor.deferred => Applied(j)'
    BY <1>1 DEF Behind
  <2>2. \A j \in Items: Applied(j) => Applied(j)'
    BY <1>0, <1>3, AppliedStays
  <2> QED
    BY <1>0, <1>1, <2>1, <2>2 DEF Behind
<1>6. \A w \in Workers: syncRun'[w] \in SyncRow /\ syncRun'[w] = syncRun[w] /\ RunStands(syncRun[w])'
  BY <1>0, <1>1, <1>4
<1>7. ReportedSyncDelivered'
  BY <1>1, <1>4 DEF FeedInv, ReportedSyncDelivered, Everything
<1> QED
  BY <1>0, <1>1, <1>3, <1>5, <1>6, <1>7 DEF FeedInv, FeedShapes, MarksStay

LEMMA NextKeepsFeed ==
  ASSUME FeedInv, [Next]_vars
  PROVE  FeedInv'
<1>0. syncRun \in [Workers -> SyncRow]
  BY DEF FeedInv, FeedShapes
<1>1. CASE UNCHANGED <<cursor, paid, reversed, conflicts, reports, syncRun>>
  <2>1. \A i: Applied(i)' <=> Applied(i)
    BY <1>1 DEF Applied
  <2>2. FeedShapes' /\ FeedPaysOnce' /\ Behind(cursor)' /\ ReportedSyncDelivered'
    BY <1>1, <2>1 DEF FeedInv, FeedShapes, FeedPaysOnce, Behind, ReportedSyncDelivered
  <2>3. MarksStay
    BY <1>1 DEF FeedInv, FeedShapes, MarksStay
  <2>4. ASSUME NEW w \in Workers
        PROVE  RunStands(syncRun[w])'
    <3>1. \A r \in SyncRow: RunStands(r) => RunStands(r)'
      BY <2>3, AppliedStays DEF FeedInv
    <3>2. syncRun[w] \in SyncRow /\ RunStands(syncRun[w]) /\ syncRun'[w] = syncRun[w]
      BY <1>0, <1>1 DEF FeedInv
    <3> QED
      BY <3>1, <3>2
  <2> QED
    BY <2>2, <2>4 DEF FeedInv
<1>2. ASSUME NEW w \in Workers, Crash(w)
      PROVE  FeedInv'
  <2>1. /\ UNCHANGED <<cursor, paid, reversed, conflicts, reports>>
        /\ syncRun' \in [Workers -> SyncRow] /\ syncRun'[w] = NoSync
        /\ \A v \in Workers \ {w}: syncRun'[v] = syncRun[v]
    BY <1>0, <1>2, Beginnings DEF Crash
  <2>2. RunStands(syncRun[w])'
    BY <2>1 DEF RunStands, NoSync
  <2> QED
    BY <2>1, <2>2, FeedStays
<1>3. CASE FeedNext
  <2>1. CASE RequestSync
    BY <1>1, <2>1 DEF RequestSync, feedVars
  <2> QED
    BY <1>3, <2>1, TakeKeeps, FetchKeeps, LookUpKeeps, ApplyKeeps, SaveKeeps, ReportKeeps, EndKeeps, HooksKeep
    DEF FeedNext, RunSync
<1>4. CASE UNCHANGED feedVars
  BY <1>1, <1>4 DEF feedVars
<1> QED
  BY <1>2, <1>3, <1>4 DEF Next, QueueNext, vars

LEMMA InitFeed == ASSUME FeedInit PROVE FeedInv
<1>1. FeedShapes /\ FeedPaysOnce /\ ReportedSyncDelivered
  BY Beginnings DEF FeedInit, FeedShapes, FeedPaysOnce, ReportedSyncDelivered
<1>2. cursor = Start /\ \A w \in Workers: syncRun[w] = NoSync
  BY DEF FeedInit
<1> QED
  BY <1>1, <1>2, Beginnings DEF FeedInv

THEOREM FeedHolds == Spec => []FeedInv
<1>1. Init => FeedInv
  BY InitFeed DEF Init
<1>2. FeedInv /\ [Next]_vars => FeedInv'
  BY NextKeepsFeed
<1> QED
  BY <1>1, <1>2, PTL DEF Spec

(* A payment is received once through pages, repeats and any number of      *)
(* processes, although each looks it up, of itself or as the target of a    *)
(* reversal, in a step before the one that writes; and only received        *)
(* payments are reversed (transaction-ingest.service.ts and its index).     *)
THEOREM FeedPaidOnce == Spec => []FeedPaysOnce
<1>1. FeedInv => FeedPaysOnce
  BY DEF FeedInv
<1> QED
  BY <1>1, FeedHolds, PTL

(* For any stream, page size, set of late items and ceiling of pages: the    *)
(* cursor stands behind durable work (provider-sync.processor.ts), although *)
(* syncs of several processes overlap and write it in any order.  Items on   *)
(* accounts that are not held are excepted: they leave only a log line.     *)
THEOREM CursorStandsBehindWork == Spec => []CursorBehindWork
<1>1. FeedInv => CursorBehindWork
  BY DEF FeedInv, Behind, CursorBehindWork
<1> QED
  BY <1>1, FeedHolds, PTL

(* A sync that is reported, short of its ceiling of pages, has delivered the *)
(* whole stream on accounts that are held, for any stream and any            *)
(* interleaving of syncs, crashes, refusals and redeliveries                 *)
(* (provider-sync.processor.ts with the cursor of simulator.ts).             *)
THEOREM ReportedSyncDelivers == Spec => []ReportedSyncDelivered
<1>1. FeedInv => ReportedSyncDelivered
  BY DEF FeedInv
<1> QED
  BY <1>1, FeedHolds, PTL

----------------------------------------------------------------------------
(* The import and its runs                                                 *)
BatchStatus == {"none", "DRAFT", "VALIDATING", "READY", "VALIDATION_FAILED", "CANCELLED",
                "QUEUED", "PROCESSING", "COMPLETED", "FAILED"}
Hashes    == Versions \cup {0}
BatchRow  == [status: BatchStatus, hash: Hashes, checkpoint: Nat, created: Nat]
ClientRow == [step: {"idle", "validating", "reading", "read", "confirming", "stored"}, hash: Hashes]
RunRow    == [step: {"idle", "loaded", "changed", "rows", "slice", "done"}, event: Nat,
              hash: Hashes, next: Nat, seen: SUBSET Rows]
RecordRow == [version: Hashes, outcome: {"none", "CREATED", "DUPLICATE", "CONFLICT", "SKIPPED"}]

ImportShapes ==
  /\ batch \in BatchRow /\ file \in Hashes
  /\ records \in [Rows -> RecordRow]
  /\ client \in [Clients -> ClientRow]
  /\ importRun \in [Workers -> RunRow]
  /\ confirmed \subseteq Hashes /\ overtaken \in BOOLEAN

LEMMA SlicesAreRows ==
  ASSUME ImportShapes, NEW w \in Workers, NEW refused
  PROVE  /\ Slice(w) \subseteq Rows /\ Fresh(w, refused) \subseteq Slice(w)
         /\ IsFiniteSet(Fresh(w, refused)) /\ Cardinality(Fresh(w, refused)) \in Nat
         /\ LastOf(w) \in 0..LastRow
<1>1. Slice(w) \subseteq Rows /\ Fresh(w, refused) \subseteq Slice(w)
  BY DEF Slice, Fresh
<1>2. IsFiniteSet(Rows)
  BY ImportAssumption, FS_Interval DEF Rows
<1>3. IsFiniteSet(Fresh(w, refused)) /\ Cardinality(Fresh(w, refused)) \in Nat
  BY <1>1, <1>2, FS_Subset, FS_CardinalityType
<1>4. importRun[w].next \in Nat /\ SliceSize \in Nat \ {0} /\ LastRow \in Nat
  BY ImportAssumption DEF ImportShapes, RunRow
<1> QED
  BY <1>1, <1>3, <1>4 DEF LastOf

LEMMA InitImport == ASSUME ImportInit PROVE ImportShapes
<1>1. /\ batch \in BatchRow /\ file \in Hashes
      /\ NoRecord \in RecordRow /\ Idle \in ClientRow /\ NoRun \in RunRow
  BY DEF ImportInit, BatchRow, BatchStatus, Hashes, NoRecord, RecordRow, Idle, ClientRow, NoRun, RunRow
<1> QED
  BY <1>1 DEF ImportInit, ImportShapes

(* The updates of the batch row, field by field. *)
LEMMA BatchEdits ==
  ASSUME NEW b \in BatchRow, NEW s \in BatchStatus, NEW h \in Hashes, NEW k \in Nat, NEW n \in Nat
  PROVE  /\ [b EXCEPT !.status = s] \in BatchRow
         /\ [b EXCEPT !.hash = h, !.status = s] \in BatchRow
         /\ [b EXCEPT !.status = s, !.checkpoint = k, !.created = n] \in BatchRow
         /\ [b EXCEPT !.checkpoint = k, !.created = n] \in BatchRow
BY DEF BatchRow

LEMMA ApiShapes ==
  ASSUME ImportShapes, ApiNext
  PROVE  ImportShapes'
<1>0. /\ batch \in BatchRow /\ file \in Hashes /\ client \in [Clients -> ClientRow]
      /\ \A s \in BatchStatus: [batch EXCEPT !.status = s] \in BatchRow
      /\ \A c \in Clients: client[c].hash \in Hashes
      /\ 0 \in Hashes /\ Versions \subseteq Hashes
  BY DEF ImportShapes, BatchRow, ClientRow, Hashes
<1>1. UNCHANGED <<records, importRun>>
  BY DEF ApiNext, Upload, CreateUpload, BeginValidate, MarkValidating, ReadObject, FinishValidate, BeginConfirm,
         CheckStored, CommitConfirm, Cancel, Retry, ApiFails
<1>2. CASE Upload
  BY <1>0, <1>1, <1>2 DEF Upload, ImportShapes, history
<1>3. ~Upload => file' = file
  BY DEF ApiNext, CreateUpload, BeginValidate, MarkValidating, ReadObject, FinishValidate, BeginConfirm,
         CheckStored, CommitConfirm, Cancel, Retry, ApiFails
<1>4. ASSUME NEW c \in Clients,
             \/ CreateUpload(c) \/ BeginValidate(c) \/ MarkValidating(c) \/ ReadObject(c) \/ FinishValidate(c)
             \/ \E v \in Versions: BeginConfirm(c, v)
             \/ CheckStored(c) \/ CommitConfirm(c) \/ Cancel(c) \/ Retry(c) \/ ApiFails(c)
      PROVE  client' \in [Clients -> ClientRow] /\ batch' \in BatchRow
  <2>1. client' = client \/ \E s, h: /\ Goto(c, s, h) /\ h \in Hashes
                                     /\ s \in {"idle", "validating", "reading", "read", "confirming", "stored"}
    BY <1>0, <1>4 DEF CreateUpload, BeginValidate, MarkValidating, ReadObject, FinishValidate, BeginConfirm,
                      CheckStored, CommitConfirm, Cancel, Retry, ApiFails
  <2>2. client' \in [Clients -> ClientRow]
    BY <1>0, <2>1 DEF Goto, ClientRow
  <2>3. \/ batch' = batch \/ \E s \in BatchStatus: SetStatus(s)
        \/ FinishValidate(c) \/ batch' = Queued
    BY <1>4 DEF CreateUpload, BeginValidate, MarkValidating, ReadObject, BeginConfirm,
                CheckStored, CommitConfirm, Cancel, Retry, ApiFails, BatchStatus
  <2>4. FinishValidate(c) => batch' \in BatchRow
    <3>1. \A s \in {"READY", "VALIDATION_FAILED"}: [batch EXCEPT !.hash = client[c].hash, !.status = s] \in BatchRow
      BY <1>0, BatchEdits DEF BatchStatus
    <3>2. CASE client[c].hash = 0
      BY <1>0, <3>2 DEF FinishValidate, BatchStatus
    <3>3. CASE client[c].hash # 0 /\ client[c].hash \in Valid
      BY <3>1, <3>3 DEF FinishValidate
    <3>4. CASE client[c].hash # 0 /\ client[c].hash \notin Valid
      BY <3>1, <3>4 DEF FinishValidate
    <3> QED
      BY <3>2, <3>3, <3>4
  <2>5. Queued \in BatchRow
    BY <1>0, BatchEdits DEF Queued, BatchStatus
  <2> QED
    BY <1>0, <2>2, <2>3, <2>4, <2>5 DEF SetStatus
<1>5. confirmed' \subseteq Hashes /\ overtaken' \in BOOLEAN
  <2>1. confirmed \subseteq Hashes /\ overtaken \in BOOLEAN
    BY DEF ImportShapes
  <2> QED
    BY <1>0, <2>1 DEF ApiNext, Upload, CreateUpload, BeginValidate, MarkValidating, ReadObject, FinishValidate,
      BeginConfirm, CheckStored, CommitConfirm, Cancel, Retry, ApiFails, WritesLate, history
<1> QED
  BY <1>0, <1>1, <1>2, <1>3, <1>4, <1>5 DEF ApiNext, ImportShapes

(* The updates of a run. *)
LEMMA RunEdits ==
  ASSUME NEW r \in RunRow, NEW h \in Hashes, NEW n \in Nat, NEW rows \in SUBSET Rows,
         NEW s \in {"rows", "changed", "slice", "done"}
  PROVE  /\ [r EXCEPT !.step = s] \in RunRow
         /\ [r EXCEPT !.hash = h, !.step = s] \in RunRow
         /\ [r EXCEPT !.step = s, !.seen = rows] \in RunRow
         /\ [r EXCEPT !.step = s, !.next = n, !.seen = rows] \in RunRow
BY DEF RunRow

(* What a step of process w does to its run, one line for each action. *)
LEMMA RunAfter ==
  ASSUME ImportShapes, NEW w \in Workers
  PROVE  /\ TakeImport(w) => \/ importRun' = importRun
                             \/ \E e \in Events: /\ Waiting(e, "import")
                                                 /\ batch.status \in {"QUEUED", "PROCESSING"}
                                                 /\ importRun'[w] = [step |-> "loaded", event |-> e, hash |-> batch.hash,
                                                      next |-> batch.checkpoint + 1, seen |-> {}]
         /\ MarkProcessing(w) => importRun'[w] = [importRun[w] EXCEPT !.hash = file,
                                   !.step = IF file = importRun[w].hash THEN "rows" ELSE "changed"]
         /\ BeginSlice(w) => importRun'[w] = [importRun[w] EXCEPT !.step = "slice",
                               !.seen = {r \in Slice(w): Exists(w, r)}]
         /\ CommitSlice(w) => importRun'[w] = [importRun[w] EXCEPT !.step = "rows",
                                !.next = LastOf(w) + 1, !.seen = {}]
         /\ Complete(w) => importRun'[w] = [importRun[w] EXCEPT !.step = "done"]
         /\ FinishImport(w) \/ FailBatch(w) \/ Crash(w) => importRun'[w] = NoRun
         /\ RunImport(w) \/ Crash(w) => /\ \A v \in Workers \ {w}: importRun'[v] = importRun[v]
                                        /\ importRun' = [v \in Workers |-> importRun'[v]]
<1>0. importRun \in [Workers -> RunRow]
  BY DEF ImportShapes
<1>1. RunImport(w) \/ Crash(w) => /\ \A v \in Workers \ {w}: importRun'[v] = importRun[v]
                                  /\ importRun' = [v \in Workers |-> importRun'[v]]
  BY <1>0 DEF RunImport, TakeImport, MarkProcessing, BeginSlice, CommitSlice, Complete, FinishImport,
              FailBatch, Crash, Step
<1>2. TakeImport(w) => \/ importRun' = importRun
                       \/ \E e \in Events: /\ Waiting(e, "import")
                                           /\ batch.status \in {"QUEUED", "PROCESSING"}
                                           /\ importRun'[w] = [step |-> "loaded", event |-> e, hash |-> batch.hash,
                                                next |-> batch.checkpoint + 1, seen |-> {}]
  BY <1>0 DEF TakeImport
<1>3. MarkProcessing(w) => importRun'[w] = [importRun[w] EXCEPT !.hash = file,
                             !.step = IF file = importRun[w].hash THEN "rows" ELSE "changed"]
  BY <1>0 DEF MarkProcessing
<1>4. BeginSlice(w) => importRun'[w] = [importRun[w] EXCEPT !.step = "slice",
                         !.seen = {r \in Slice(w): Exists(w, r)}]
  BY <1>0 DEF BeginSlice
<1>5. CommitSlice(w) => importRun'[w] = [importRun[w] EXCEPT !.step = "rows",
                          !.next = LastOf(w) + 1, !.seen = {}]
  BY <1>0 DEF CommitSlice
<1>6. Complete(w) => importRun'[w] = [importRun[w] EXCEPT !.step = "done"]
  BY <1>0 DEF Complete, Step
<1>7. FinishImport(w) \/ FailBatch(w) \/ Crash(w) => importRun'[w] = NoRun
  BY <1>0 DEF FinishImport, FailBatch, Crash
<1> QED
  BY <1>1, <1>2, <1>3, <1>4, <1>5, <1>6, <1>7

LEMMA RunFields ==
  ASSUME ImportShapes, NEW w \in Workers
  PROVE  /\ MarkProcessing(w) =>
              /\ importRun'[w].step = IF file = importRun[w].hash THEN "rows" ELSE "changed"
              /\ importRun'[w].event = importRun[w].event /\ importRun'[w].hash = file
              /\ importRun'[w].next = importRun[w].next /\ importRun'[w].seen = importRun[w].seen
         /\ BeginSlice(w) =>
              /\ importRun'[w].step = "slice" /\ importRun'[w].seen = {r \in Slice(w): Exists(w, r)}
              /\ importRun'[w].event = importRun[w].event /\ importRun'[w].hash = importRun[w].hash
              /\ importRun'[w].next = importRun[w].next
         /\ CommitSlice(w) =>
              /\ importRun'[w].step = "rows" /\ importRun'[w].next = LastOf(w) + 1
              /\ importRun'[w].event = importRun[w].event /\ importRun'[w].hash = importRun[w].hash
         /\ Complete(w) =>
              /\ importRun'[w].step = "done"
              /\ importRun'[w].event = importRun[w].event /\ importRun'[w].hash = importRun[w].hash
              /\ importRun'[w].next = importRun[w].next
<1>0. importRun[w] \in RunRow
  BY DEF ImportShapes
<1>1. ASSUME MarkProcessing(w)
      PROVE  /\ importRun'[w].step = IF file = importRun[w].hash THEN "rows" ELSE "changed"
             /\ importRun'[w].event = importRun[w].event /\ importRun'[w].hash = file
             /\ importRun'[w].next = importRun[w].next /\ importRun'[w].seen = importRun[w].seen
  <2> DEFINE step == IF file = importRun[w].hash THEN "rows" ELSE "changed"
  <2>1. importRun'[w] = [importRun[w] EXCEPT !.hash = file, !.step = step]
    BY <1>1, RunAfter
  <2> HIDE DEF step
  <2>2. /\ importRun'[w].step = step
        /\ importRun'[w].event = importRun[w].event /\ importRun'[w].hash = file
        /\ importRun'[w].next = importRun[w].next /\ importRun'[w].seen = importRun[w].seen
    BY <1>0, <2>1 DEF RunRow
  <2> QED
    BY <2>2 DEF step
<1>2. ASSUME BeginSlice(w)
      PROVE  /\ importRun'[w].step = "slice" /\ importRun'[w].seen = {r \in Slice(w): Exists(w, r)}
             /\ importRun'[w].event = importRun[w].event /\ importRun'[w].hash = importRun[w].hash
             /\ importRun'[w].next = importRun[w].next
  <2> DEFINE found == {r \in Slice(w): Exists(w, r)}
  <2>1. importRun'[w] = [importRun[w] EXCEPT !.step = "slice", !.seen = found]
    BY <1>2, RunAfter
  <2> HIDE DEF found
  <2>2. /\ importRun'[w].step = "slice" /\ importRun'[w].seen = found
        /\ importRun'[w].event = importRun[w].event /\ importRun'[w].hash = importRun[w].hash
        /\ importRun'[w].next = importRun[w].next
    BY <1>0, <2>1 DEF RunRow
  <2> QED
    BY <2>2 DEF found
<1>3. ASSUME CommitSlice(w)
      PROVE  /\ importRun'[w].step = "rows" /\ importRun'[w].next = LastOf(w) + 1
             /\ importRun'[w].event = importRun[w].event /\ importRun'[w].hash = importRun[w].hash
  <2>1. importRun'[w] = [importRun[w] EXCEPT !.step = "rows", !.next = LastOf(w) + 1, !.seen = {}]
    BY <1>3, RunAfter
  <2> QED
    BY <1>0, <2>1 DEF RunRow
<1>4. ASSUME Complete(w)
      PROVE  /\ importRun'[w].step = "done"
             /\ importRun'[w].event = importRun[w].event /\ importRun'[w].hash = importRun[w].hash
             /\ importRun'[w].next = importRun[w].next
  <2>1. importRun'[w] = [importRun[w] EXCEPT !.step = "done"]
    BY <1>4, RunAfter
  <2> QED
    BY <1>0, <2>1 DEF RunRow
<1> QED
  BY <1>1, <1>2, <1>3, <1>4

LEMMA WorkerShapes ==
  ASSUME ImportShapes, NEW w \in Workers, RunImport(w)
  PROVE  ImportShapes'
<1>0. /\ batch \in BatchRow /\ file \in Hashes /\ importRun[w] \in RunRow
      /\ importRun \in [Workers -> RunRow] /\ records \in [Rows -> RecordRow]
      /\ NoRun \in RunRow
  BY DEF ImportShapes, NoRun, RunRow, Hashes
<1>1. UNCHANGED <<file, client, confirmed, overtaken>>
  BY DEF history, RunImport, TakeImport, MarkProcessing, BeginSlice, CommitSlice, Complete, FinishImport, FailBatch
<1>2. importRun'[w] \in RunRow
  <2>1. CASE TakeImport(w)
    <3>1. ASSUME NEW e \in Events
          PROVE  [step |-> "loaded", event |-> e, hash |-> batch.hash,
                  next |-> batch.checkpoint + 1, seen |-> {}] \in RunRow
      BY <1>0, OutboxAssumption DEF RunRow, BatchRow, Events
    <3>2. \/ importRun' = importRun
          \/ \E e \in Events: importRun'[w] = [step |-> "loaded", event |-> e, hash |-> batch.hash,
                                               next |-> batch.checkpoint + 1, seen |-> {}]
      BY <2>1, RunAfter
    <3> QED
      BY <1>0, <3>1, <3>2
  <2>2. CASE MarkProcessing(w)
    <3>1. [importRun[w] EXCEPT !.hash = file, !.step = "rows"] \in RunRow
      BY <1>0, RunEdits
    <3>2. [importRun[w] EXCEPT !.hash = file, !.step = "changed"] \in RunRow
      BY <1>0, RunEdits
    <3> QED
      BY <2>2, <3>1, <3>2, RunAfter
  <2>3. CASE BeginSlice(w)
    <3>1. {r \in Slice(w): Exists(w, r)} \in SUBSET Rows
      BY SlicesAreRows
    <3>2. [importRun[w] EXCEPT !.step = "slice", !.seen = {r \in Slice(w): Exists(w, r)}] \in RunRow
      BY <1>0, <3>1, RunEdits
    <3> QED
      BY <2>3, <3>2, RunAfter
  <2>4. CASE CommitSlice(w)
    <3>1. LastOf(w) + 1 \in Nat
      BY SlicesAreRows
    <3>2. [importRun[w] EXCEPT !.step = "rows", !.next = LastOf(w) + 1, !.seen = {}] \in RunRow
      BY <1>0, <3>1, RunEdits
    <3> QED
      BY <2>4, <3>2, RunAfter
  <2>5. CASE Complete(w)
    <3>1. [importRun[w] EXCEPT !.step = "done"] \in RunRow
      BY <1>0, RunEdits
    <3> QED
      BY <2>5, <3>1, RunAfter
  <2>6. CASE FinishImport(w) \/ FailBatch(w)
    BY <1>0, <2>6, RunAfter
  <2> QED
    BY <2>1, <2>2, <2>3, <2>4, <2>5, <2>6 DEF RunImport
<1>3. importRun' \in [Workers -> RunRow]
  <2>1. /\ \A v \in Workers \ {w}: importRun'[v] = importRun[v]
        /\ importRun' = [v \in Workers |-> importRun'[v]]
    BY RunAfter
  <2> QED
    BY <1>0, <1>2, <2>1
<1>4. CASE CommitSlice(w)
  <2>1. PICK refused:
          /\ records' = [r \in Rows |->
               IF r \in Slice(w)
                 THEN [version |-> importRun[w].hash, outcome |-> Outcome(w, refused, r)]
                 ELSE records[r]]
          /\ batch' = [batch EXCEPT !.checkpoint = LastOf(w), !.created = @ + Cardinality(Fresh(w, refused))]
    BY <1>4 DEF CommitSlice
  <2>2. records' \in [Rows -> RecordRow]
    <3>1. \A r \in Rows: [version |-> importRun[w].hash, outcome |-> Outcome(w, refused, r)] \in RecordRow
      BY <1>0 DEF RunRow, RecordRow, Outcome
    <3> QED
      BY <1>0, <2>1, <3>1
  <2>3. batch' \in BatchRow
    <3>1. LastOf(w) \in Nat /\ batch.created + Cardinality(Fresh(w, refused)) \in Nat
      BY <1>0, SlicesAreRows DEF BatchRow
    <3>2. [batch EXCEPT !.checkpoint = LastOf(w), !.created = batch.created + Cardinality(Fresh(w, refused))]
            \in BatchRow
      BY <1>0, <3>1, BatchEdits DEF BatchStatus
    <3> QED
      BY <2>1, <3>2
  <2> QED
    BY <1>1, <1>3, <2>2, <2>3 DEF ImportShapes
<1>5. CASE ~CommitSlice(w)
  <2>1. records' = records
    BY <1>5 DEF RunImport, TakeImport, MarkProcessing, BeginSlice, Complete, FinishImport, FailBatch
  <2>2. batch' = batch \/ \E s \in BatchStatus: batch' = [batch EXCEPT !.status = s]
    BY <1>5 DEF RunImport, TakeImport, MarkProcessing, BeginSlice, Complete, FinishImport, FailBatch,
                SetStatus, BatchStatus
  <2>3. batch' \in BatchRow
    BY <1>0, <2>2 DEF BatchRow
  <2> QED
    BY <1>0, <1>1, <1>3, <2>1, <2>3 DEF ImportShapes
<1> QED
  BY <1>4, <1>5

LEMMA NextKeepsShapes ==
  ASSUME ImportShapes, [Next]_vars
  PROVE  ImportShapes'
<1>1. CASE ImportNext
  BY <1>1, ApiShapes, WorkerShapes DEF ImportNext
<1>2. ASSUME NEW w \in Workers, Crash(w)
      PROVE  ImportShapes'
  <2>1. UNCHANGED <<batch, file, records, client, confirmed, overtaken>> /\ importRun' = [importRun EXCEPT ![w] = NoRun]
    BY <1>2 DEF Crash, history
  <2>2. NoRun \in RunRow
    BY DEF NoRun, RunRow, Hashes
  <2> QED
    BY <2>1, <2>2 DEF ImportShapes
<1>3. CASE UNCHANGED importVars
  BY <1>3 DEF importVars, history, ImportShapes
<1> QED
  BY <1>1, <1>2, <1>3 DEF Next, QueueNext, vars

THEOREM ImportShapesHold == Spec => []ImportShapes
<1>1. Init => ImportShapes
  BY InitImport DEF Init
<1> QED
  BY <1>1, NextKeepsShapes, PTL DEF Spec

----------------------------------------------------------------------------
(***************************************************************************)
(* What an import promises for any number of rows, slices, workers,        *)
(* requests and crashes, as long as no request writes what no longer fits  *)
(* the import (overtaken): validate and confirm write the row without      *)
(* comparing all that they had seen, and one that does so late can bring a *)
(* cancelled or queued import back, or have other bytes imported.          *)
(*                                                                         *)
(* An import is untouched until it is queued, and from then on its hash,   *)
(* which was confirmed, does not change; the runs, however many overlap,   *)
(* only add records and payments of that file.                             *)
(***************************************************************************)

Started == batch.status \in {"QUEUED", "PROCESSING", "COMPLETED", "FAILED"}

Recorded(r) == records[r].version = batch.hash /\ records[r].outcome # "none"
Paid(r) == payments[<<batch.hash, r>>] > 0
AsBefore(v, r) == payments[<<v, r>>] = IF r \in Known THEN 1 ELSE 0

Untouched ==
  /\ \A w \in Workers: importRun[w].step = "idle"
  /\ \A r \in Rows: records[r] = NoRecord
  /\ \A v \in Versions, r \in Rows: AsBefore(v, r)
  /\ batch.checkpoint = 0 /\ batch.created = 0
  /\ batch.status = "READY" => batch.hash \in Versions

RecordStands(r) ==
  \/ records[r] = NoRecord
  \/ Recorded(r) /\ (records[r].outcome \in {"CREATED", "DUPLICATE"} => Paid(r))

(* What a run has behind it is recorded; what it found, is paid. *)
RunFollows(w) ==
  importRun[w].step \notin {"idle", "changed"} =>
    /\ importRun[w].hash = batch.hash /\ importRun[w].next > 0
    /\ \A r \in Rows: r < importRun[w].next => Recorded(r)
    /\ importRun[w].step = "slice" => \A r \in importRun[w].seen: Paid(r)
    /\ importRun[w].step = "done" => \A r \in Rows: Recorded(r)

Underway ==
  /\ batch.hash \in Versions /\ batch.hash \in confirmed
  /\ \A v \in Versions \ {batch.hash}, r \in Rows: AsBefore(v, r)
  /\ \A r \in Known: Paid(r)
  /\ \A r \in Rows: RecordStands(r)
  /\ \A r \in Rows: r <= batch.checkpoint => Recorded(r)
  /\ batch.status = "COMPLETED" => \A r \in Rows: Recorded(r)
  /\ batch.created = Cardinality(Made(batch.hash))
  /\ \A w \in Workers: RunFollows(w)

Stands == (~Started => Untouched) /\ (Started => Underway)

ImportInv ==
  /\ ImportShapes /\ PaymentsInv
  /\ ~overtaken => Stands

----------------------------------------------------------------------------
LEMMA InitImportInv == ASSUME ImportInit PROVE ImportInv
<1>1. PaymentsInv
  BY DEF ImportInit, PaymentsInv, PaidOnce
<1>2. batch = [status |-> "none", hash |-> 0, checkpoint |-> 0, created |-> 0]
  BY DEF ImportInit
<1>3. ~Started /\ Untouched
  BY <1>2 DEF ImportInit, Started, Untouched, AsBefore, NoRun
<1> QED
  BY <1>1, <1>3, InitImport DEF ImportInv, Stands

(* A step that leaves rows, payments and runs where they are, and the file  *)
(* that was confirmed.                                                     *)
LEMMA RowsUntouched ==
  ASSUME UNCHANGED <<payments, records, importRun>>, batch'.hash = batch.hash,
         confirmed \subseteq confirmed',
         batch'.checkpoint = batch.checkpoint, batch'.created = batch.created,
         batch'.status = "COMPLETED" => batch.status = "COMPLETED",
         Underway
  PROVE  Underway'
BY DEF Underway, AsBefore, Paid, Recorded, RecordStands, RunFollows, Made

LEMMA NoRowsYet ==
  ASSUME UNCHANGED <<payments, records, importRun>>, batch'.created = batch.created,
         batch'.checkpoint = batch.checkpoint,
         batch'.status = "READY" => batch'.hash \in Versions,
         Untouched
  PROVE  Untouched'
BY DEF Untouched, AsBefore

(* An import that is queued for the first time. *)
LEMMA QueuedUntouched ==
  ASSUME Untouched, UNCHANGED <<payments, records, importRun>>,
         batch'.hash = batch.hash, batch.hash \in Versions, batch.hash \in confirmed',
         batch'.checkpoint = 0, batch'.created = 0, batch'.status = "QUEUED"
  PROVE  Underway'
<1>1. Made(batch.hash)' = {}
  BY DEF Made, Untouched, AsBefore
<1>2. Cardinality({}) = 0
  BY FS_EmptySet
<1>3. \A r \in Rows: (r <= batch'.checkpoint) = FALSE
  BY DEF Rows
<1>4. (\A r \in Known: Paid(r))'
  <2>1. Known \subseteq Rows
    BY ImportAssumption
  <2>2. \A r \in Known: payments[<<batch.hash, r>>] = 1
    BY <2>1 DEF Untouched, AsBefore
  <2> QED
    BY <2>2 DEF Paid
<1>5. (\A w \in Workers: RunFollows(w))'
  BY DEF Untouched, RunFollows
<1> QED
  BY <1>1, <1>2, <1>3, <1>4, <1>5 DEF Underway, Untouched, AsBefore, RecordStands

LEMMA OvertakenStays ==
  ASSUME ImportShapes, [Next]_vars, overtaken
  PROVE  overtaken'
<1>1. CASE ApiNext
  BY <1>1 DEF ApiNext, Upload, CreateUpload, BeginValidate, MarkValidating, ReadObject, FinishValidate,
              BeginConfirm, CheckStored, CommitConfirm, Cancel, Retry, ApiFails, WritesLate, history
<1>2. ASSUME NEW w \in Workers, RunImport(w) \/ Crash(w)
      PROVE  overtaken'
  BY <1>2 DEF RunImport, TakeImport, MarkProcessing, BeginSlice, CommitSlice, Complete, FinishImport,
              FailBatch, Crash, history
<1>3. CASE UNCHANGED importVars
  BY <1>3 DEF importVars, history
<1> QED
  BY <1>1, <1>2, <1>3 DEF Next, QueueNext, ImportNext, vars

LEMMA ApiKeeps ==
  ASSUME ImportInv, ApiNext, ~overtaken, ~overtaken'
  PROVE  Stands'
<1>0. batch \in BatchRow /\ file \in Hashes /\ client \in [Clients -> ClientRow] /\ Stands
  BY DEF ImportInv, ImportShapes
<1>1. UNCHANGED <<payments, records, importRun>> /\ confirmed \subseteq confirmed'
  BY DEF ApiNext, Upload, CreateUpload, BeginValidate, MarkValidating, ReadObject, FinishValidate, BeginConfirm,
         CheckStored, CommitConfirm, Cancel, Retry, ApiFails, WritesLate, history
<1>2. CASE batch' = batch
  <2>1. Started' <=> Started
    BY <1>2 DEF Started
  <2> QED
    BY <1>0, <1>1, <1>2, <2>1, RowsUntouched, NoRowsYet DEF Stands, Untouched
<1>3. ASSUME NEW c \in Clients, batch' # batch,
             \/ CreateUpload(c) \/ MarkValidating(c) \/ FinishValidate(c)
             \/ CheckStored(c) \/ Cancel(c)
      PROVE  Stands'
  <2>1. ~Started
    BY <1>3
    DEF Started, CreateUpload, MarkValidating, FinishValidate, WritesLate, Editable,
        CheckStored, Cancel, CANCELLABLE
  <2>2. \E s \in {"DRAFT", "VALIDATING", "READY", "VALIDATION_FAILED", "CANCELLED"}:
          \/ batch' = [batch EXCEPT !.status = s] /\ s # "READY"
          \/ batch' = [batch EXCEPT !.hash = client[c].hash, !.status = s]
             /\ (s = "READY" => client[c].hash \in Valid)
    BY <1>3 DEF CreateUpload, MarkValidating, FinishValidate, CheckStored, Cancel, SetStatus
  <2>3. /\ batch'.created = batch.created /\ batch'.checkpoint = batch.checkpoint
        /\ batch'.status = "READY" => batch'.hash \in Versions
        /\ ~Started'
    <3>1. Valid \subseteq Versions
      BY ImportAssumption
    <3> QED
      BY <1>0, <2>1, <2>2, <3>1 DEF BatchRow, Started
  <2>4. Untouched'
    BY <1>0, <1>1, <2>1, <2>3, NoRowsYet DEF Stands
  <2> QED
    BY <2>3, <2>4 DEF Stands
<1>4. ASSUME NEW c \in Clients, batch' # batch, CommitConfirm(c)
      PROVE  Stands'
  <2>1. /\ batch.status = "READY" /\ batch' = Queued
        /\ batch.hash \in confirmed'
    BY <1>4 DEF CommitConfirm
  <2>2. ~Started /\ Untouched
    BY <1>0, <2>1 DEF Started, Stands
  <2>3. /\ batch'.hash = batch.hash /\ batch.hash \in Versions
        /\ batch'.checkpoint = 0 /\ batch'.created = 0 /\ batch'.status = "QUEUED"
    BY <1>0, <2>1, <2>2 DEF Queued, BatchRow, Untouched
  <2>4. Started'
    BY <2>3 DEF Started
  <2> QED
    BY <1>0, <1>1, <2>1, <2>2, <2>3, <2>4, QueuedUntouched DEF Stands
<1>5. ASSUME NEW c \in Clients, Retry(c)
      PROVE  Stands'
  <2>1. batch.status = "FAILED" /\ batch' = [batch EXCEPT !.status = "QUEUED"]
    BY <1>5 DEF Retry, SetStatus
  <2>2. /\ batch'.hash = batch.hash /\ batch'.checkpoint = batch.checkpoint
        /\ batch'.created = batch.created /\ batch'.status = "QUEUED"
    BY <1>0, <2>1 DEF BatchRow
  <2>3. Started /\ Started'
    BY <2>1, <2>2 DEF Started
  <2> QED
    BY <1>0, <1>1, <2>2, <2>3, RowsUntouched DEF Stands
<1>6. Upload \/ (\E c \in Clients: BeginValidate(c) \/ ReadObject(c) \/ ApiFails(c)
                                   \/ \E v \in Versions: BeginConfirm(c, v)) => batch' = batch
  BY DEF Upload, BeginValidate, ReadObject, ApiFails, BeginConfirm
<1> QED
  BY <1>2, <1>3, <1>4, <1>5, <1>6 DEF ApiNext

----------------------------------------------------------------------------
(* The processor                                                           *)

(* Records and payments are added, and run w moves. *)
LEMMA RunsFollow ==
  ASSUME Underway, ImportShapes, ImportShapes', NEW w \in Workers,
         batch'.hash = batch.hash,
         \A r \in Rows: (Recorded(r) => Recorded(r)') /\ (Paid(r) => Paid(r)'),
         \A v \in Workers \ {w}: importRun'[v] = importRun[v],
         RunFollows(w)'
  PROVE  (\A v \in Workers: RunFollows(v))'
<1> SUFFICES ASSUME NEW v \in Workers
             PROVE  RunFollows(v)'
  OBVIOUS
<1>1. CASE v = w
  BY <1>1
<1>2. CASE v # w
  <2>1. importRun'[v] = importRun[v] /\ RunFollows(v) /\ importRun[v].seen \subseteq Rows
    BY <1>2 DEF Underway, ImportShapes, RunRow
  <2> QED
    BY <2>1 DEF RunFollows
<1> QED
  BY <1>1, <1>2

(* Whatever a run does, the import was queued before. *)
LEMMA RunsAreStarted ==
  ASSUME ImportInv, ~overtaken, NEW w \in Workers, RunImport(w),
         importRun[w].step # "idle" \/ importRun' # importRun
  PROVE  Started /\ Underway
<1>1. CASE importRun[w].step # "idle"
  BY <1>1 DEF ImportInv, Stands, Untouched
<1>2. CASE importRun' # importRun /\ TakeImport(w)
  BY <1>2 DEF ImportInv, Stands, TakeImport, Started
<1> QED
  BY <1>1, <1>2 DEF RunImport, MarkProcessing, BeginSlice, CommitSlice, Complete, FinishImport, FailBatch, On

(* Steps of a run that write no row. *)
LEMMA RunSteps ==
  ASSUME ImportInv, NEW w \in Workers, RunImport(w), ~CommitSlice(w), Started, Underway
  PROVE  /\ UNCHANGED <<payments, records>>
         /\ batch'.hash = batch.hash /\ batch'.checkpoint = batch.checkpoint
         /\ batch'.created = batch.created
         /\ Started' /\ (batch'.status = "COMPLETED" => batch.status = "COMPLETED" \/ Complete(w))
         /\ RunFollows(w)'
<1>0. batch \in BatchRow /\ ImportShapes /\ RunFollows(w) /\ LastRow \in Nat \ {0} /\ SliceSize \in Nat \ {0}
  BY ImportAssumption DEF ImportInv, ImportShapes, Underway
<1>1. UNCHANGED <<payments, records>>
  BY DEF RunImport, TakeImport, MarkProcessing, BeginSlice, Complete, FinishImport, FailBatch
<1>2. \/ batch' = batch
      \/ batch' = [batch EXCEPT !.status = "PROCESSING"]
      \/ batch' = [batch EXCEPT !.status = "COMPLETED"] /\ Complete(w)
      \/ batch' = [batch EXCEPT !.status = "FAILED"]
  BY DEF RunImport, TakeImport, MarkProcessing, BeginSlice, Complete, FinishImport, FailBatch, SetStatus
<1>3. /\ batch'.hash = batch.hash /\ batch'.checkpoint = batch.checkpoint /\ batch'.created = batch.created
      /\ Started' /\ (batch'.status = "COMPLETED" => batch.status = "COMPLETED" \/ Complete(w))
  BY <1>0, <1>2 DEF BatchRow, Started
<1>4. \A r \in Rows: (Recorded(r)' <=> Recorded(r)) /\ (Paid(r)' <=> Paid(r))
  BY <1>1, <1>3 DEF Recorded, Paid
<1>5. ASSUME TakeImport(w)
      PROVE  RunFollows(w)'
  <2>1. CASE importRun' = importRun
    <3>1. importRun[w].step = "idle"
      BY <1>5 DEF TakeImport, On
    <3> QED
      BY <2>1, <3>1 DEF RunFollows
  <2>2. ASSUME NEW e \in Events,
               importRun'[w] = [step |-> "loaded", event |-> e, hash |-> batch.hash,
                                next |-> batch.checkpoint + 1, seen |-> {}]
        PROVE  RunFollows(w)'
    <3>1. /\ importRun'[w].step = "loaded" /\ importRun'[w].hash = batch.hash
          /\ importRun'[w].next = batch.checkpoint + 1 /\ batch.checkpoint \in Nat
      BY <1>0, <2>2 DEF BatchRow
    <3>2. \A r \in Rows: r < batch.checkpoint + 1 => Recorded(r)
      BY <3>1 DEF Underway, Rows
    <3> QED
      BY <1>3, <1>4, <3>1, <3>2 DEF RunFollows
  <2>3. \/ importRun' = importRun
        \/ \E e \in Events:
              importRun'[w] = [step |-> "loaded", event |-> e, hash |-> batch.hash,
                               next |-> batch.checkpoint + 1, seen |-> {}]
    <3>1. importRun \in [Workers -> RunRow]
      BY <1>0 DEF ImportShapes
    <3> QED
      BY <1>5, <3>1 DEF TakeImport
  <2> QED
    BY <2>1, <2>2, <2>3
<1>6. ASSUME MarkProcessing(w)
      PROVE  RunFollows(w)'
  <2>1. /\ importRun'[w].step = IF file = importRun[w].hash THEN "rows" ELSE "changed"
        /\ importRun'[w].hash = file /\ importRun'[w].next = importRun[w].next
    BY <1>0, <1>6, RunFields
  <2>2. importRun[w].step = "loaded"
    BY <1>6 DEF MarkProcessing, On
  <2> QED
    BY <1>0, <1>3, <1>4, <2>1, <2>2 DEF RunFollows
<1>7. ASSUME BeginSlice(w)
      PROVE  RunFollows(w)'
  <2>1. /\ importRun'[w].step = "slice" /\ importRun'[w].seen = {r \in Slice(w): Exists(w, r)}
        /\ importRun'[w].hash = importRun[w].hash /\ importRun'[w].next = importRun[w].next
    BY <1>0, <1>7, RunFields
  <2>2. importRun[w].step = "rows"
    BY <1>7 DEF BeginSlice, On
  <2>3. \A r \in importRun'[w].seen: r \in Rows /\ Paid(r)
    BY <1>0, <2>1, <2>2 DEF RunFollows, Exists, PaymentOf, Paid, Slice
  <2> QED
    BY <1>0, <1>3, <1>4, <2>1, <2>2, <2>3 DEF RunFollows
<1>8. ASSUME Complete(w)
      PROVE  RunFollows(w)'
  <2>1. /\ importRun'[w].step = "done"
        /\ importRun'[w].hash = importRun[w].hash /\ importRun'[w].next = importRun[w].next
    BY <1>0, <1>8, RunFields
  <2>2. importRun[w].step = "rows" /\ Slice(w) = {}
    BY <1>8 DEF Complete, On
  <2>3. importRun[w].next \in Nat \ {0}
    BY <1>0, <2>2 DEF RunFollows, ImportShapes, RunRow
  <2>4. importRun[w].next > LastRow
    <3>1. importRun[w].next \notin Rows
      BY <1>0, <2>2, <2>3 DEF Slice
    <3> QED
      BY <1>0, <2>3, <3>1 DEF Rows
  <2>5. \A r \in Rows: Recorded(r)
    BY <1>0, <2>2, <2>3, <2>4 DEF RunFollows, Rows
  <2> QED
    BY <1>0, <1>3, <1>4, <2>1, <2>2, <2>5 DEF RunFollows
<1>9. ASSUME FinishImport(w) \/ FailBatch(w)
      PROVE  RunFollows(w)'
  <2>1. importRun'[w] = NoRun
    BY <1>0, <1>9, RunAfter
  <2> QED
    BY <2>1 DEF RunFollows, NoRun
<1> QED
  BY <1>1, <1>3, <1>5, <1>6, <1>7, <1>8, <1>9 DEF RunImport

(* The payments that a slice creates, and only those, are new. *)
LEMMA FreshIsNew ==
  ASSUME ImportInv, Underway, NEW w \in Workers, CommitSlice(w), NEW refused,
         ~Collides(w, refused),
         payments' = [p \in DOMAIN payments |->
            IF \E r \in Fresh(w, refused): p = PaymentOf(w, r)
              THEN payments[p] + 1 ELSE payments[p]]
  PROVE  /\ importRun[w].hash = batch.hash
         /\ \A r \in Fresh(w, refused): payments[<<batch.hash, r>>] = 0 /\ r \in Rows
         /\ \A v \in Versions, r \in Rows:
              payments'[<<v, r>>] = IF v = batch.hash /\ r \in Fresh(w, refused)
                                      THEN payments[<<v, r>>] + 1 ELSE payments[<<v, r>>]
<1>0. payments \in [Versions \X Rows -> Nat] /\ ImportShapes /\ batch.hash \in Versions
  BY DEF ImportInv, PaymentsInv, Underway
<1>1. importRun[w].hash = batch.hash
  BY DEF Underway, RunFollows, CommitSlice, On
<1>2. ASSUME NEW r \in Fresh(w, refused)
      PROVE  payments[<<batch.hash, r>>] = 0 /\ r \in Rows
  <2>1. r \in Slice(w) \ (importRun[w].seen \cup refused) /\ r \in Rows
    BY DEF Fresh, Outcome, Slice
  <2>2. ~Exists(w, r)
    BY <2>1 DEF Collides
  <2> QED
    BY <1>0, <1>1, <2>1, <2>2 DEF Exists, PaymentOf
<1>3. ASSUME NEW v \in Versions, NEW r \in Rows
      PROVE  payments'[<<v, r>>] = IF v = batch.hash /\ r \in Fresh(w, refused)
                                     THEN payments[<<v, r>>] + 1 ELSE payments[<<v, r>>]
  <2>1. (\E x \in Fresh(w, refused): <<v, r>> = PaymentOf(w, x)) <=> v = batch.hash /\ r \in Fresh(w, refused)
    BY <1>1 DEF PaymentOf
  <2>2. <<v, r>> \in DOMAIN payments
    BY <1>0
  <2> QED
    BY <2>1, <2>2
<1> QED
  BY <1>1, <1>2, <1>3

LEMMA MadeGrows ==
  ASSUME ImportInv, Underway, NEW w \in Workers, NEW refused,
         batch'.hash = batch.hash,
         \A r \in Fresh(w, refused): payments[<<batch.hash, r>>] = 0 /\ r \in Rows,
         \A v \in Versions, r \in Rows:
           payments'[<<v, r>>] = IF v = batch.hash /\ r \in Fresh(w, refused)
                                   THEN payments[<<v, r>>] + 1 ELSE payments[<<v, r>>]
  PROVE  /\ \A v \in Versions \ {batch.hash}: Made(v)' = Made(v) /\ Made(v) = {}
         /\ Made(batch.hash)' = Made(batch.hash) \cup Fresh(w, refused)
         /\ Made(batch.hash) \cap Fresh(w, refused) = {}
         /\ Cardinality(Made(batch.hash)') = Cardinality(Made(batch.hash)) + Cardinality(Fresh(w, refused))
<1>0. /\ payments \in [Versions \X Rows -> Nat] /\ ImportShapes /\ batch.hash \in Versions
      /\ \A r \in Known: Paid(r)
  BY DEF ImportInv, PaymentsInv, Underway
<1>1. ASSUME NEW v \in Versions \ {batch.hash}
      PROVE  Made(v)' = Made(v) /\ Made(v) = {}
  <2>1. \A r \in Rows: payments'[<<v, r>>] = payments[<<v, r>>] /\ AsBefore(v, r)
    BY DEF Underway
  <2> QED
    BY <2>1 DEF Made, AsBefore
<1>2. ASSUME NEW r \in Fresh(w, refused)
      PROVE  r \in Rows \ Known
  <2>1. r \in Rows /\ payments[<<batch.hash, r>>] = 0
    OBVIOUS
  <2>2. ~Paid(r)
    BY <2>1 DEF Paid
  <2> QED
    BY <1>0, <2>1, <2>2
<1>3. Made(batch.hash)' = Made(batch.hash) \cup Fresh(w, refused)
  <2>1. Made(batch.hash)' = {r \in Rows \ Known: payments'[<<batch.hash, r>>] > 0}
    BY DEF Made
  <2>2. \A r \in Rows: payments'[<<batch.hash, r>>] > 0
                         <=> (r \in Fresh(w, refused) \/ payments[<<batch.hash, r>>] > 0)
    BY <1>0
  <2> QED
    BY <1>2, <2>1, <2>2 DEF Made
<1>4. Made(batch.hash) \cap Fresh(w, refused) = {}
  BY DEF Made
<1>5. IsFiniteSet(Made(batch.hash)) /\ IsFiniteSet(Fresh(w, refused))
  <2>1. IsFiniteSet(Rows)
    BY ImportAssumption, FS_Interval DEF Rows
  <2>2. Made(batch.hash) \in SUBSET Rows
    BY DEF Made
  <2> QED
    BY <1>0, <2>1, <2>2, FS_Subset, SlicesAreRows
<1>6. Cardinality(Made(batch.hash) \cup Fresh(w, refused))
        = Cardinality(Made(batch.hash)) + Cardinality(Fresh(w, refused))
  <2>1. /\ Cardinality(Made(batch.hash)) \in Nat /\ Cardinality(Fresh(w, refused)) \in Nat
        /\ Cardinality({}) = 0
    BY <1>5, FS_CardinalityType, FS_EmptySet
  <2>2. Cardinality(Made(batch.hash) \cup Fresh(w, refused))
          = Cardinality(Made(batch.hash)) + Cardinality(Fresh(w, refused))
              - Cardinality(Made(batch.hash) \cap Fresh(w, refused))
    BY <1>5, FS_Union
  <2>3. Cardinality(Made(batch.hash) \cap Fresh(w, refused)) = 0
    BY <1>4, <2>1
  <2> QED
    BY <2>1, <2>2, <2>3
<1> QED
  BY <1>1, <1>3, <1>4, <1>6

LEMMA CommitKeepsImport ==
  ASSUME ImportInv, ~overtaken, NEW w \in Workers, CommitSlice(w)
  PROVE  Stands'
<1>1. RunImport(w) /\ importRun[w].step = "slice"
  BY DEF RunImport, CommitSlice, On
<1>2. Started /\ Underway
  BY <1>1, RunsAreStarted
<1>3. PICK refused:
        /\ ~Collides(w, refused)
        /\ payments' = [p \in DOMAIN payments |->
             IF \E r \in Fresh(w, refused): p = PaymentOf(w, r)
               THEN payments[p] + 1 ELSE payments[p]]
        /\ records' = [r \in Rows |->
             IF r \in Slice(w)
               THEN [version |-> importRun[w].hash, outcome |-> Outcome(w, refused, r)]
               ELSE records[r]]
        /\ batch' = [batch EXCEPT !.checkpoint = LastOf(w), !.created = @ + Cardinality(Fresh(w, refused))]
  BY DEF CommitSlice
<1>4. /\ ImportShapes /\ ImportShapes' /\ PaymentsInv' /\ batch \in BatchRow
      /\ payments \in [Versions \X Rows -> Nat]
      /\ importRun[w].next \in Nat /\ LastOf(w) \in 0..LastRow
      /\ Slice(w) \subseteq Rows /\ RunFollows(w)
      /\ LastRow \in Nat \ {0} /\ SliceSize \in Nat \ {0} /\ batch.hash \in Versions
      /\ confirmed' = confirmed /\ batch.hash \in confirmed
  <2>1. importRun[w] \in RunRow /\ ImportShapes /\ batch \in BatchRow /\ confirmed' = confirmed
    BY DEF ImportInv, ImportShapes, CommitSlice, history
  <2>2. PaymentsInv' /\ payments \in [Versions \X Rows -> Nat]
    BY SlicePaysOnce DEF ImportInv, PaymentsInv
  <2> QED
    BY <1>1, <1>2, <2>1, <2>2, SlicesAreRows, WorkerShapes, ImportAssumption DEF RunRow, Underway
<1>5. /\ batch'.hash = batch.hash /\ batch'.status = batch.status
      /\ batch'.checkpoint = LastOf(w)
      /\ batch'.created = batch.created + Cardinality(Fresh(w, refused))
  BY <1>3, <1>4 DEF BatchRow
<1>6. /\ importRun[w].hash = batch.hash
      /\ \A r \in Fresh(w, refused): payments[<<batch.hash, r>>] = 0 /\ r \in Rows
      /\ \A v \in Versions, r \in Rows:
           payments'[<<v, r>>] = IF v = batch.hash /\ r \in Fresh(w, refused)
                                   THEN payments[<<v, r>>] + 1 ELSE payments[<<v, r>>]
  BY <1>2, <1>3, FreshIsNew
<1>7. \A r \in Rows: (Paid(r) => Paid(r)') /\ (r \in Fresh(w, refused) => Paid(r)')
  BY <1>4, <1>5, <1>6 DEF Paid
<1>8. \A r \in Rows: (r \in Slice(w) \/ Recorded(r)) => Recorded(r)'
  <2>1. \A r \in Slice(w): Recorded(r)'
    BY <1>3, <1>4, <1>5, <1>6 DEF Recorded, Outcome
  <2>2. \A r \in Rows \ Slice(w): Recorded(r) => Recorded(r)'
    BY <1>3, <1>4, <1>5 DEF Recorded
  <2> QED
    BY <2>1, <2>2
<1>9. (\A r \in Rows: RecordStands(r))'
  <2> SUFFICES ASSUME NEW r \in Rows
               PROVE  RecordStands(r)'
    OBVIOUS
  <2>1. CASE r \in Slice(w)
    <3>1. records'[r].outcome = Outcome(w, refused, r)
      BY <1>3, <2>1
    <3>2. CASE records'[r].outcome = "CREATED"
      BY <1>7, <1>8, <2>1, <3>1, <3>2 DEF RecordStands, Fresh
    <3>3. CASE records'[r].outcome = "DUPLICATE"
      <4>1. r \in importRun[w].seen
        BY <3>1, <3>3 DEF Outcome
      <4>2. Paid(r)
        BY <1>1, <1>4, <4>1 DEF RunFollows
      <4> QED
        BY <1>7, <1>8, <2>1, <4>2 DEF RecordStands
    <3> QED
      BY <1>8, <2>1, <3>2, <3>3 DEF RecordStands
  <2>2. CASE r \notin Slice(w)
    <3>1. records'[r] = records[r] /\ RecordStands(r)
      BY <1>2, <1>3, <2>2 DEF Underway
    <3> QED
      BY <1>7, <1>8, <3>1 DEF RecordStands
  <2> QED
    BY <2>1, <2>2
<1>10. \A r \in Rows: r <= LastOf(w) => Recorded(r)'
  <2> SUFFICES ASSUME NEW r \in Rows, r <= LastOf(w), r \notin Slice(w)
               PROVE  Recorded(r)
    BY <1>8
  <2>1. r < importRun[w].next
    BY <1>4 DEF Slice, LastOf, Rows
  <2> QED
    BY <1>1, <1>4, <2>1 DEF RunFollows
<1>11. RunFollows(w)'
  <2>1. /\ importRun'[w].step = "rows" /\ importRun'[w].next = LastOf(w) + 1
        /\ importRun'[w].hash = importRun[w].hash
    BY <1>4, RunFields
  <2>2. \A r \in Rows: r < LastOf(w) + 1 => Recorded(r)'
    BY <1>4, <1>10 DEF Rows
  <2> QED
    BY <1>4, <1>5, <1>6, <2>1, <2>2 DEF RunFollows
<1>12. /\ batch'.created = Cardinality(Made(batch.hash)')
       /\ \A v \in Versions \ {batch.hash}, r \in Rows: AsBefore(v, r)'
  <2>1. Cardinality(Made(batch.hash)') = Cardinality(Made(batch.hash)) + Cardinality(Fresh(w, refused))
    BY <1>2, <1>5, <1>6, MadeGrows
  <2>2. ASSUME NEW v \in Versions \ {batch.hash}, NEW r \in Rows
        PROVE  AsBefore(v, r)'
    <3>1. AsBefore(v, r)
      BY <1>2 DEF Underway
    <3>2. payments'[<<v, r>>] = payments[<<v, r>>]
      BY <1>6
    <3> QED
      BY <3>1, <3>2 DEF AsBefore
  <2>3. batch.created = Cardinality(Made(batch.hash))
    BY <1>2 DEF Underway
  <2> QED
    BY <1>5, <2>1, <2>2, <2>3
<1>13. Underway'
  <2>1. (\A v \in Workers: RunFollows(v))'
    <3>1. \A v \in Workers \ {w}: importRun'[v] = importRun[v]
      BY <1>1, <1>4, RunAfter
    <3> QED
      BY <1>2, <1>4, <1>5, <1>7, <1>8, <1>11, <3>1, RunsFollow
  <2>2. (\A r \in Known: Paid(r))'
    BY <1>2, <1>7, ImportAssumption DEF Underway
  <2>3. (batch.status = "COMPLETED" => \A r \in Rows: Recorded(r))'
    BY <1>2, <1>5, <1>8 DEF Underway
  <2> QED
    BY <1>4, <1>5, <1>9, <1>10, <1>12, <2>1, <2>2, <2>3 DEF Underway
<1> QED
  BY <1>2, <1>4, <1>5, <1>13 DEF Stands, Started

LEMMA RunKeepsImport ==
  ASSUME ImportInv, ~overtaken, NEW w \in Workers, RunImport(w)
  PROVE  Stands'
<1>0. confirmed' = confirmed /\ Stands
  BY DEF ImportInv, RunImport, TakeImport, MarkProcessing, BeginSlice, CommitSlice, Complete, FinishImport,
         FailBatch, history
<1>1. CASE CommitSlice(w)
  BY <1>1, CommitKeepsImport
<1>2. CASE ~CommitSlice(w) /\ importRun[w].step = "idle" /\ importRun' = importRun
  <2>1. TakeImport(w)
    BY <1>2 DEF RunImport, MarkProcessing, BeginSlice, Complete, FinishImport, FailBatch, On
  <2>2. UNCHANGED <<batch, file, payments, records, importRun>>
    BY <1>2, <2>1 DEF TakeImport
  <2>3. Started' <=> Started
    BY <2>2 DEF Started
  <2> QED
    BY <1>0, <2>2, <2>3, RowsUntouched, NoRowsYet DEF Stands, Untouched
<1>3. CASE ~CommitSlice(w) /\ (importRun[w].step # "idle" \/ importRun' # importRun)
  <2>1. Started /\ Underway /\ ImportShapes /\ ImportShapes'
    BY <1>3, RunsAreStarted, WorkerShapes DEF ImportInv
  <2>2. /\ UNCHANGED <<payments, records>>
        /\ batch'.hash = batch.hash /\ batch'.checkpoint = batch.checkpoint
        /\ batch'.created = batch.created
        /\ Started' /\ (batch'.status = "COMPLETED" => batch.status = "COMPLETED" \/ Complete(w))
        /\ RunFollows(w)'
    BY <1>3, <2>1, RunSteps
  <2>5. \A r \in Rows: (Recorded(r)' <=> Recorded(r)) /\ (Paid(r)' <=> Paid(r))
                       /\ (RecordStands(r)' <=> RecordStands(r))
    BY <2>2 DEF Recorded, Paid, RecordStands
  <2>6. (\A v \in Workers: RunFollows(v))'
    <3>1. \A v \in Workers \ {w}: importRun'[v] = importRun[v]
      BY <2>1, RunAfter
    <3> QED
      BY <2>1, <2>2, <2>5, <3>1, RunsFollow
  <2>7. batch'.status = "COMPLETED" => \A r \in Rows: Recorded(r)
    <3>1. ASSUME Complete(w)
          PROVE  \A r \in Rows: Recorded(r)
      <4>1. importRun'[w].step = "done"
        BY <2>1, <3>1, RunFields
      <4> QED
        BY <2>2, <2>5, <4>1 DEF RunFollows
    <3> QED
      BY <2>1, <2>2, <3>1 DEF Underway
  <2>8. /\ Made(batch.hash)' = Made(batch.hash)
        /\ \A v \in Versions, r \in Rows: AsBefore(v, r)' <=> AsBefore(v, r)
    BY <2>2 DEF Made, AsBefore
  <2>9. Underway'
    <3>1. \A r \in Known: Paid(r)'
      BY <2>1, <2>2 DEF Underway, Paid
    <3> QED
      BY <1>0, <2>1, <2>2, <2>5, <2>6, <2>7, <2>8, <3>1 DEF Underway
  <2> QED
    BY <2>2, <2>9 DEF Stands
<1> QED
  BY <1>1, <1>2, <1>3

LEMMA CrashKeepsImport ==
  ASSUME ImportInv, ~overtaken, NEW w \in Workers, Crash(w)
  PROVE  Stands'
<1>1. UNCHANGED <<batch, file, records, payments, confirmed>>
  BY DEF Crash, history
<1>2. ImportShapes /\ ImportShapes' /\ Stands
  BY NextKeepsShapes DEF ImportInv, Next
<1>3. importRun'[w] = NoRun /\ \A v \in Workers \ {w}: importRun'[v] = importRun[v]
  BY <1>2, RunAfter
<1>4. RunFollows(w)' /\ importRun'[w].step = "idle"
  BY <1>3 DEF RunFollows, NoRun
<1>5. Untouched => Untouched'
  BY <1>1, <1>3, <1>4 DEF Untouched, AsBefore
<1>6. Underway => Underway'
  <2> SUFFICES ASSUME Underway
               PROVE  Underway'
    OBVIOUS
  <2>1. \A r \in Rows: (Recorded(r) => Recorded(r)') /\ (Paid(r) => Paid(r)')
                       /\ (RecordStands(r) => RecordStands(r)')
    BY <1>1 DEF Recorded, Paid, RecordStands
  <2>2. (\A v \in Workers: RunFollows(v))'
    BY <1>1, <1>2, <1>3, <1>4, <2>1, RunsFollow
  <2>3. /\ Made(batch.hash)' = Made(batch.hash)
        /\ \A v \in Versions, r \in Rows: AsBefore(v, r)' <=> AsBefore(v, r)
        /\ \A r \in Known: Paid(r)' <=> Paid(r)
    BY <1>1 DEF Made, AsBefore, Paid
  <2> QED
    BY <1>1, <2>1, <2>2, <2>3 DEF Underway
<1>7. Started' <=> Started
  BY <1>1 DEF Started
<1> QED
  BY <1>2, <1>5, <1>6, <1>7 DEF Stands

LEMMA NextKeepsImport ==
  ASSUME ImportInv, [Next]_vars
  PROVE  ImportInv'
<1>1. ImportShapes' /\ PaymentsInv'
  BY NextKeepsShapes, NextPaysOnce DEF ImportInv
<1>2. ASSUME ~overtaken'
      PROVE  Stands'
  <2>1. ~overtaken /\ Stands
    BY <1>2, OvertakenStays DEF ImportInv
  <2>2. CASE ImportNext
    BY <1>2, <2>1, <2>2, ApiKeeps, RunKeepsImport DEF ImportNext
  <2>3. CASE UNCHANGED importVars
    <3>1. UNCHANGED <<batch, payments, records, importRun, confirmed>>
      BY <2>3 DEF importVars, history
    <3>2. Started' <=> Started
      BY <3>1 DEF Started
    <3> QED
      BY <2>1, <3>1, <3>2, RowsUntouched, NoRowsYet DEF Stands, Untouched
  <2>4. CASE \E w \in Workers: Crash(w)
    BY <2>1, <2>4, CrashKeepsImport
  <2> QED
    BY <2>2, <2>3, <2>4 DEF Next, QueueNext, vars
<1> QED
  BY <1>1, <1>2 DEF ImportInv

THEOREM ImportHolds == Spec => []ImportInv
<1>1. Init => ImportInv
  BY InitImportInv DEF Init
<1>2. ImportInv /\ [Next]_vars => ImportInv'
  BY NextKeepsImport
<1> QED
  BY <1>1, <1>2, PTL DEF Spec

----------------------------------------------------------------------------
(* What follows                                                            *)

(* A run that starts over at the checkpoint skips no row: every row up to it *)
(* has its record of the confirmed file (import.processor.ts), unless a     *)
(* request had overtaken the import.                                       *)
THEOREM CheckpointDurable == Spec => []CheckpointIsDurable
<1>1. ImportInv => CheckpointIsDurable
  <2> SUFFICES ASSUME ImportInv, ~overtaken, NEW r \in Rows, r <= batch.checkpoint
               PROVE  records[r].version = batch.hash /\ records[r].outcome # "none"
    BY DEF CheckpointIsDurable
  <2>1. Started
    BY DEF ImportInv, Stands, Untouched, Rows
  <2> QED
    BY <2>1 DEF ImportInv, Stands, Underway, Recorded
<1> QED
  BY <1>1, ImportHolds, PTL

(* COMPLETED means that no row was lost and that every row that claims a    *)
(* payment has exactly one (import.processor.ts), unless a request had      *)
(* overtaken the import.                                                   *)
THEOREM CompletedIsWhole == Spec => []CompletedLosesNothing
<1>1. ImportInv => CompletedLosesNothing
  <2> SUFFICES ASSUME ImportInv, ~overtaken, batch.status = "COMPLETED", NEW r \in Rows
               PROVE  /\ records[r].version = batch.hash /\ records[r].outcome # "none"
                      /\ records[r].outcome \in {"CREATED", "DUPLICATE"} => payments[<<batch.hash, r>>] = 1
    BY DEF CompletedLosesNothing
  <2>1. Underway
    BY DEF ImportInv, Stands, Started
  <2>2. Recorded(r) /\ RecordStands(r) /\ batch.hash \in Versions
    BY <2>1 DEF Underway
  <2>3. Paid(r) => payments[<<batch.hash, r>>] = 1
    <3>1. <<batch.hash, r>> \in Versions \X Rows
      BY <2>2
    <3>2. payments[<<batch.hash, r>>] \in Nat /\ payments[<<batch.hash, r>>] <= 1
      BY <3>1 DEF ImportInv, PaymentsInv, PaidOnce
    <3> QED
      BY <3>2 DEF Paid
  <2> QED
    BY <2>2, <2>3 DEF Recorded, RecordStands, NoRecord
<1> QED
  BY <1>1, ImportHolds, PTL

(* Money comes in only from bytes whose hash was quoted to confirm them, by *)
(* any number of requests at once; except that a validate between confirm's *)
(* checks and its update (imports.service.ts:356) overtakes it.             *)
THEOREM ConfirmedBytesOnly == Spec => []OnlyConfirmedBytes
<1>1. ImportInv => OnlyConfirmedBytes
  <2> SUFFICES ASSUME ImportInv, ~overtaken, NEW v \in Versions, NEW r \in Made(v)
               PROVE  v \in confirmed /\ Started
    BY DEF OnlyConfirmedBytes, Started
  <2>1. ~AsBefore(v, r) /\ r \in Rows
    BY DEF Made, AsBefore
  <2> QED
    BY <2>1 DEF ImportInv, Stands, Untouched, Underway
<1> QED
  BY <1>1, ImportHolds, PTL

(* The number of created payments the accountant is told is their number,   *)
(* unless a request had overtaken the import.                              *)
THEOREM CreatedExactly == Spec => []CreatedIsExact
<1>1. ImportInv => CreatedIsExact
  <2> SUFFICES ASSUME ImportInv, ~overtaken
               PROVE  batch.created = Cardinality(UNION {{<<v, r>>: r \in Made(v)}: v \in Versions})
    BY DEF CreatedIsExact
  <2> DEFINE made == UNION {{<<v, r>>: r \in Made(v)}: v \in Versions}
  <2>1. CASE ~Started
    <3>1. \A v \in Versions: Made(v) = {}
      BY <2>1 DEF ImportInv, Stands, Untouched, Made, AsBefore
    <3>2. made = {}
      BY <3>1
    <3> QED
      BY <2>1, <3>2, FS_EmptySet DEF ImportInv, Stands, Untouched
  <2>2. CASE Started
    <3> DEFINE mine == {<<batch.hash, r>>: r \in Made(batch.hash)}
               f == [r \in Made(batch.hash) |-> <<batch.hash, r>>]
    <3>1. batch.hash \in Versions /\ \A v \in Versions \ {batch.hash}: Made(v) = {}
      BY <2>2 DEF ImportInv, Stands, Underway, Made, AsBefore
    <3>2. made = mine
      BY <3>1
    <3>3. f \in Bijection(Made(batch.hash), mine)
      <4>1. f \in [Made(batch.hash) -> mine]
        OBVIOUS
      <4>2. \A a, b \in Made(batch.hash): f[a] = f[b] => a = b
        OBVIOUS
      <4>3. \A p \in mine: \E r \in Made(batch.hash): f[r] = p
        OBVIOUS
      <4> HIDE DEF mine, f
      <4> QED
        BY <4>1, <4>2, <4>3 DEF Bijection, Injection, Surjection, IsInjective
    <3>4. IsFiniteSet(Made(batch.hash))
      <4>1. IsFiniteSet(Rows)
        BY ImportAssumption, FS_Interval DEF Rows
      <4>2. Made(batch.hash) \in SUBSET Rows
        BY DEF Made
      <4> QED
        BY <4>1, <4>2, FS_Subset
    <3>5. Cardinality(mine) = Cardinality(Made(batch.hash))
      <4> HIDE DEF mine, f
      <4>1. ExistsBijection(Made(batch.hash), mine)
        BY <3>3 DEF ExistsBijection
      <4> QED
        BY <3>4, <4>1, FS_Bijection
    <3> QED
      BY <2>2, <3>2, <3>5 DEF ImportInv, Stands, Underway
  <2> QED
    BY <2>1, <2>2
<1> QED
  BY <1>1, ImportHolds, PTL

(* Nothing happens to a cancelled import (imports.service.ts, cancel), save *)
(* that a validate or confirm that had looked before may write after it    *)
(* (imports.service.ts:177, 232, 303).                                     *)
THEOREM CancelledStays == Spec => CancelledIsFinal
<1>1. ImportInv /\ [Next]_vars =>
        [batch.status = "CANCELLED" => overtaken' \/ UNCHANGED <<batch, payments, records>>]_vars
  <2> SUFFICES ASSUME ImportInv, Next, batch.status = "CANCELLED", ~overtaken'
               PROVE  UNCHANGED <<batch, payments, records>>
    OBVIOUS
  <2>0. ~Started /\ Untouched
    <3>1. ~overtaken
      BY OvertakenStays DEF ImportInv
    <3> QED
      BY <3>1 DEF ImportInv, Stands, Started
  <2>1. CASE ApiNext
    BY <2>1
    DEF ApiNext, Upload, CreateUpload, BeginValidate, MarkValidating, ReadObject, FinishValidate, BeginConfirm,
        CheckStored, CommitConfirm, Cancel, Retry, ApiFails, CANCELLABLE, WritesLate, Editable
  <2>2. ASSUME NEW w \in Workers, RunImport(w)
        PROVE  UNCHANGED <<batch, payments, records>>
    <3>1. importRun[w].step = "idle"
      BY <2>0 DEF Untouched
    <3> QED
      BY <2>2, <3>1 DEF RunImport, TakeImport, MarkProcessing, BeginSlice, CommitSlice, Complete,
                        FinishImport, FailBatch, On
  <2>3. QueueNext \/ UNCHANGED importVars \/ (\E w \in Workers: Crash(w)) => UNCHANGED <<batch, payments, records>>
    BY DEF QueueNext, importVars, Crash
  <2> QED
    BY <2>1, <2>2, <2>3 DEF Next, ImportNext
<1> QED
  BY <1>1, ImportHolds, PTL DEF Spec, CancelledIsFinal

----------------------------------------------------------------------------
(***************************************************************************)
(* The contract.  It needs less than the above and holds of overtaken      *)
(* imports too: what the checkpoint or a run has behind it is settled, in  *)
(* some version of the file.                                               *)
(***************************************************************************)
Settled   == {r \in Rows: records[r].outcome # "none"}
PaidSoFar == UNION {Made(v): v \in Versions}
Whole     == batch.status = "COMPLETED"

SettledBehind ==
  /\ \A r \in Rows: r <= batch.checkpoint => r \in Settled
  /\ \A w \in Workers: importRun[w].step # "idle" =>
       importRun[w].next > 0 /\ \A r \in Rows: r < importRun[w].next => r \in Settled

LEMMA SlicesAreSettled ==
  ASSUME ImportShapes, NEW w \in Workers, CommitSlice(w)
  PROVE  Settled' = Settled \cup Slice(w) /\ Slice(w) \subseteq Rows
<1>1. Slice(w) \subseteq Rows
  BY SlicesAreRows
<1>2. PICK refused:
        records' = [r \in Rows |->
             IF r \in Slice(w)
               THEN [version |-> importRun[w].hash, outcome |-> Outcome(w, refused, r)]
               ELSE records[r]]
  BY DEF CommitSlice
<1>3. \A r \in Slice(w): records'[r].outcome # "none"
  BY <1>1, <1>2 DEF Outcome
<1>4. \A r \in Rows \ Slice(w): records'[r] = records[r]
  BY <1>2
<1> QED
  BY <1>1, <1>3, <1>4 DEF Settled

LEMMA RunKeepsSettled ==
  ASSUME ImportShapes, SettledBehind, NEW w \in Workers, RunImport(w) \/ Crash(w)
  PROVE  SettledBehind'
<1>0. /\ batch \in BatchRow /\ importRun[w] \in RunRow
      /\ LastRow \in Nat \ {0} /\ SliceSize \in Nat \ {0}
      /\ \A v \in Workers \ {w}: importRun'[v] = importRun[v]
  BY RunAfter, ImportAssumption DEF ImportShapes
<1>1. CASE CommitSlice(w)
  <2>1. Settled' = Settled \cup Slice(w) /\ Slice(w) \subseteq Rows
    BY <1>1, SlicesAreSettled
  <2>2. importRun[w].step = "slice" /\ batch'.checkpoint = LastOf(w) /\ importRun'[w].next = LastOf(w) + 1
    <3>1. batch'.checkpoint = LastOf(w)
      BY <1>0, <1>1 DEF CommitSlice, BatchRow
    <3> QED
      BY <1>1, <3>1, RunFields DEF CommitSlice, On
  <2>3. importRun[w].next \in Nat \ {0} /\ LastOf(w) \in 0..LastRow
    BY <1>0, <2>2, SlicesAreRows DEF RunRow, SettledBehind
  <2>4. \A r \in Rows: r <= LastOf(w) => r \in Settled \cup Slice(w)
    <3> SUFFICES ASSUME NEW r \in Rows, r <= LastOf(w), r \notin Slice(w)
                 PROVE  r \in Settled
      OBVIOUS
    <3>1. r < importRun[w].next
      BY <1>0, <2>3 DEF Slice, LastOf, Rows
    <3> QED
      BY <2>2, <3>1 DEF SettledBehind
  <2>5. \A r \in Rows: r < LastOf(w) + 1 => r <= LastOf(w)
    BY <2>3 DEF Rows
  <2>6. LastOf(w) + 1 > 0
    BY <2>3
  <2> HIDE DEF Settled
  <2> QED
    BY <1>0, <2>1, <2>2, <2>4, <2>5, <2>6 DEF SettledBehind
<1>2. CASE ~CommitSlice(w)
  <2>1. records' = records /\ batch'.checkpoint = batch.checkpoint
    BY <1>0, <1>2 DEF RunImport, TakeImport, MarkProcessing, BeginSlice, Complete, FinishImport, FailBatch,
                      Crash, SetStatus, BatchRow
  <2>2. \/ importRun'[w].step = "idle"
        \/ importRun[w].step # "idle" /\ importRun'[w].next = importRun[w].next
        \/ importRun'[w].next = batch.checkpoint + 1
    <3>1. CASE TakeImport(w)
      <4>1. importRun[w].step = "idle"
        BY <3>1 DEF TakeImport, On
      <4>2. \/ importRun' = importRun
            \/ \E e \in Events: importRun'[w] = [step |-> "loaded", event |-> e, hash |-> batch.hash,
                                                 next |-> batch.checkpoint + 1, seen |-> {}]
        BY <3>1, RunAfter
      <4>3. ASSUME NEW e, importRun'[w] = [step |-> "loaded", event |-> e, hash |-> batch.hash,
                                           next |-> batch.checkpoint + 1, seen |-> {}]
            PROVE  importRun'[w].next = batch.checkpoint + 1
        BY <4>3
      <4> QED
        BY <4>1, <4>2, <4>3
    <3>2. CASE MarkProcessing(w) \/ BeginSlice(w) \/ Complete(w)
      BY <3>2, RunFields DEF MarkProcessing, BeginSlice, Complete, On
    <3>3. CASE FinishImport(w) \/ FailBatch(w) \/ Crash(w)
      <4>1. importRun'[w] = NoRun
        BY <3>3, RunAfter
      <4> QED
        BY <4>1 DEF NoRun
    <3> QED
      BY <1>2, <3>1, <3>2, <3>3 DEF RunImport
  <2>3. Settled' = Settled
    BY <2>1 DEF Settled
  <2>4. batch.checkpoint \in Nat /\ \A r \in Rows: r < batch.checkpoint + 1 => r <= batch.checkpoint
    BY <1>0 DEF BatchRow, Rows
  <2>5. batch.checkpoint + 1 > 0
    BY <2>4
  <2> HIDE DEF Settled
  <2> QED
    BY <1>0, <2>1, <2>2, <2>3, <2>4, <2>5 DEF SettledBehind
<1> QED
  BY <1>1, <1>2

LEMMA NextKeepsSettled ==
  ASSUME ImportShapes, SettledBehind, [Next]_vars
  PROVE  SettledBehind'
<1>1. CASE ApiNext
  <2>1. UNCHANGED <<records, importRun>>
    BY <1>1 DEF ApiNext, Upload, CreateUpload, BeginValidate, MarkValidating, ReadObject, FinishValidate,
                BeginConfirm, CheckStored, CommitConfirm, Cancel, Retry, ApiFails
  <2>2. batch'.checkpoint \in {0, batch.checkpoint}
    <3>1. batch \in BatchRow
      BY DEF ImportShapes
    <3> QED
      BY <1>1, <3>1 DEF ApiNext, Upload, CreateUpload, BeginValidate, MarkValidating, ReadObject, FinishValidate,
                BeginConfirm, CheckStored, CommitConfirm, Cancel, Retry, ApiFails, SetStatus, Queued, BatchRow
  <2>3. \A r \in Rows: ~(r <= 0)
    BY DEF Rows
  <2>4. Settled' = Settled
    BY <2>1 DEF Settled
  <2> HIDE DEF Settled
  <2> QED
    BY <2>1, <2>2, <2>3, <2>4 DEF SettledBehind
<1>2. CASE UNCHANGED importVars
  BY <1>2 DEF importVars, SettledBehind, Settled
<1> QED
  BY <1>1, <1>2, RunKeepsSettled DEF Next, QueueNext, ImportNext, vars

LEMMA InitSettled == ASSUME ImportInit PROVE SettledBehind
<1>1. \A r \in Rows: ~(r <= 0)
  BY DEF Rows
<1> QED
  BY <1>1 DEF ImportInit, SettledBehind, NoRun

LEMMA InitIsContract == ASSUME Init PROVE Contract!Init
<1>1. \A v \in Versions: Made(v) = {}
  BY DEF Init, ImportInit, Made
<1>2. Settled = {} /\ PaidSoFar = {} /\ ~Whole
  BY <1>1 DEF Init, ImportInit, NoRecord, Settled, PaidSoFar, Whole
<1> QED
  BY <1>2 DEF Contract!Init, Settled, PaidSoFar, Whole

(* A committed slice settles its rows, and receives only for those.        *)
LEMMA CommitSettles ==
  ASSUME ImportShapes, PaymentsInv, NEW w \in Workers, CommitSlice(w)
  PROVE  Contract!Settle
<1>1. Settled' = Settled \cup Slice(w) /\ Slice(w) \subseteq Rows
  BY SlicesAreSettled
<1>2. PICK refused:
        /\ payments' = [p \in DOMAIN payments |->
             IF \E r \in Fresh(w, refused): p = PaymentOf(w, r)
               THEN payments[p] + 1 ELSE payments[p]]
        /\ batch' = [batch EXCEPT !.checkpoint = LastOf(w), !.created = @ + Cardinality(Fresh(w, refused))]
  BY DEF CommitSlice
<1>3. payments \in [Versions \X Rows -> Nat] /\ batch \in BatchRow /\ Fresh(w, refused) \subseteq Slice(w)
  BY DEF PaymentsInv, ImportShapes, Fresh
<1>4. ASSUME NEW v \in Versions, NEW r \in Rows
      PROVE  /\ payments[<<v, r>>] > 0 => payments'[<<v, r>>] > 0
             /\ payments'[<<v, r>>] > 0 => payments[<<v, r>>] > 0 \/ r \in Slice(w)
  <2>1. <<v, r>> \in DOMAIN payments /\ payments[<<v, r>>] \in Nat
    BY <1>3
  <2>2. CASE \E x \in Fresh(w, refused): <<v, r>> = PaymentOf(w, x)
    <3>1. r \in Slice(w)
      BY <1>3, <2>2 DEF PaymentOf
    <3>2. payments'[<<v, r>>] = payments[<<v, r>>] + 1
      BY <1>2, <2>1, <2>2
    <3> QED
      BY <2>1, <3>1, <3>2
  <2>3. CASE ~\E x \in Fresh(w, refused): <<v, r>> = PaymentOf(w, x)
    BY <1>2, <2>1, <2>3
  <2> QED
    BY <2>2, <2>3
<1>5. PaidSoFar \subseteq PaidSoFar' /\ PaidSoFar' \subseteq PaidSoFar \cup Slice(w)
  <2>1. /\ \A v, r: r \in Made(v) <=> r \in Rows \ Known /\ payments[<<v, r>>] > 0
        /\ \A v, r: r \in Made(v)' <=> r \in Rows \ Known /\ payments'[<<v, r>>] > 0
    BY DEF Made
  <2>2. /\ \A r: r \in PaidSoFar <=> \E v \in Versions: r \in Made(v)
        /\ \A r: r \in PaidSoFar' <=> \E v \in Versions: r \in Made(v)'
    BY DEF PaidSoFar
  <2> HIDE DEF PaidSoFar
  <2> QED
    BY <1>4, <2>1, <2>2
<1>6. Whole' = Whole
  <2>1. batch'.status = batch.status
    BY <1>2, <1>3 DEF BatchRow
  <2> QED
    BY <2>1 DEF Whole
<1> HIDE DEF Settled, PaidSoFar, Whole
<1>7. PaidSoFar' \ PaidSoFar \in SUBSET (Slice(w) \ PaidSoFar) /\ PaidSoFar' = PaidSoFar \cup (PaidSoFar' \ PaidSoFar)
  BY <1>5
<1>8. /\ \E rows \in SUBSET Rows:
            /\ Settled' = Settled \cup rows
            /\ \E new \in SUBSET (rows \ PaidSoFar): PaidSoFar' = PaidSoFar \cup new
      /\ Whole' = Whole
  BY <1>1, <1>6, <1>7
<1> QED
  BY <1>8 DEF Contract!Settle, Settled, PaidSoFar, Whole

(* COMPLETED is written only behind the last row.                          *)
LEMMA CompleteSettles ==
  ASSUME ImportShapes, SettledBehind, NEW w \in Workers, Complete(w)
  PROVE  Settled = Rows
<1>1. /\ importRun[w].step = "rows" /\ Slice(w) = {} /\ importRun[w] \in RunRow
      /\ LastRow \in Nat \ {0} /\ SliceSize \in Nat \ {0}
  BY ImportAssumption DEF Complete, On, ImportShapes
<1>2. importRun[w].next \in Nat \ {0}
  BY <1>1 DEF SettledBehind, RunRow
<1>3. importRun[w].next > LastRow
  <2>1. importRun[w].next \notin Rows
    BY <1>1, <1>2 DEF Slice
  <2> QED
    BY <1>1, <1>2, <2>1 DEF Rows
<1>4. \A r \in Rows: r < importRun[w].next
  BY <1>1, <1>2, <1>3 DEF Rows
<1>5. \A r \in Rows: r \in Settled
  BY <1>1, <1>4 DEF SettledBehind
<1> QED
  BY <1>5 DEF Settled

LEMMA StepIsContract ==
  ASSUME ImportShapes, PaymentsInv, SettledBehind, [Next]_vars
  PROVE  [Contract!Next]_<<Settled, PaidSoFar, Whole>>
<1>0. batch \in BatchRow
  BY DEF ImportShapes
<1>1. ASSUME NEW w \in Workers, CommitSlice(w)
      PROVE  Contract!Next
  BY <1>1, CommitSettles DEF Contract!Next
<1>2. CASE ~\E w \in Workers: CommitSlice(w)
  <2>1. UNCHANGED <<payments, records>>
    BY <1>2
    DEF Next, QueueNext, ImportNext, ApiNext, RunImport, Upload, CreateUpload, BeginValidate, MarkValidating,
        ReadObject, FinishValidate, BeginConfirm, CheckStored, CommitConfirm, Cancel, Retry, ApiFails, TakeImport,
        MarkProcessing, BeginSlice, Complete, FinishImport, FailBatch, Crash, vars, importVars
  <2>2. Settled' = Settled /\ PaidSoFar' = PaidSoFar
    BY <2>1 DEF Settled, PaidSoFar, Made
  <2>3. Whole' /\ ~Whole => \E w \in Workers: Complete(w)
    BY <1>0, <1>2
    DEF Whole, Next, QueueNext, ImportNext, ApiNext, RunImport, Upload, CreateUpload, BeginValidate,
        MarkValidating, ReadObject, FinishValidate, BeginConfirm, CheckStored, CommitConfirm, Cancel, Retry,
        ApiFails, TakeImport, MarkProcessing, BeginSlice, FinishImport, FailBatch, Crash, vars, importVars,
        SetStatus, Queued, BatchRow
  <2>4. CASE Whole' /\ ~Whole
    <3>1. Settled = Rows
      BY <2>3, <2>4, CompleteSettles
    <3>2. Contract!Finish
      BY <2>2, <2>4, <3>1 DEF Contract!Finish, Settled, PaidSoFar, Whole
    <3> QED
      BY <3>2 DEF Contract!Next
  <2>5. CASE ~Whole'
    <3>1. Contract!Reopen
      BY <2>2, <2>5 DEF Contract!Reopen, Settled, PaidSoFar, Whole
    <3> QED
      BY <3>1 DEF Contract!Next
  <2>6. CASE Whole' /\ Whole
    BY <2>2, <2>6 DEF Whole
  <2> QED
    BY <2>4, <2>5, <2>6
<1> QED
  BY <1>1, <1>2

(* The import implements its contract: rows are settled for good, received  *)
(* once, and COMPLETED is said only when all are settled, whatever crashes, *)
(* however many runs overlap and whatever requests write late.             *)
THEOREM ImportImplementsContract == Spec => ImplementsContract
<1>1. Init => ImportShapes /\ PaymentsInv /\ SettledBehind /\ Contract!Init
  <2>1. ImportInit => PaymentsInv
    BY DEF ImportInit, PaymentsInv, PaidOnce
  <2> QED
    BY <2>1, InitImport, InitIsContract, InitSettled DEF Init
<1>2. ImportShapes /\ PaymentsInv /\ SettledBehind /\ [Next]_vars
        => (ImportShapes /\ PaymentsInv /\ SettledBehind)'
  BY NextKeepsShapes, NextPaysOnce, NextKeepsSettled
<1>3. ImportShapes /\ PaymentsInv /\ SettledBehind /\ [Next]_vars
        => [Contract!Next]_<<Settled, PaidSoFar, Whole>>
  BY StepIsContract
<1> QED
  BY <1>1, <1>2, <1>3, PTL
  DEF Spec, ImplementsContract, Contract!Spec, Settled, PaidSoFar, Whole
=============================================================================
