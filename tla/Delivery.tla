------------------------------ MODULE Delivery ------------------------------
(***************************************************************************)
(* The asynchronous half of the system in one piece: requests of the API   *)
(* and the provider append events, dispatchers publish them, processes     *)
(* take the jobs of both queues, and any process may die at any moment     *)
(* with its dispatch pass and its jobs.                                    *)
(***************************************************************************)
EXTENDS ImportBatch, ProviderFeed

vars == <<outboxVars, importVars, feedVars>>

Init == OutboxInit /\ ImportInit /\ FeedInit

\* kill -9, or the grace period of the shutdown runs out.  The process comes
\* back with nothing in hand.
Crash(w) ==
  /\ pass[w].open \/ importRun[w] # NoRun \/ syncRun[w] # NoSync
  /\ pass' = [pass EXCEPT ![w] = NoPass]
  /\ importRun' = [importRun EXCEPT ![w] = NoRun]
  /\ syncRun' = [syncRun EXCEPT ![w] = NoSync]
  /\ UNCHANGED <<outbox, jobs, batch, file, payments, records, client, history,
                 connected, cursor, paid, reversed, conflicts, hooks, reports>>

\* Whoever has the job still runs it; a job without one has been orphaned.
Running(w, e) == JobOf(w) = e \/ (syncRun[w].step # "idle" /\ syncRun[w].event = e)
Orphaned(e) == jobs[e].state = "active" /\ ~\E w \in Workers: Running(w, e)

QueueNext == /\ \/ \E w \in Dispatchers: Dispatch(w)
                \/ \E e \in Events: Stall(e) \/ Forget(e)
             /\ UNCHANGED <<importVars, feedVars>>

Next == \/ QueueNext
        \/ ImportNext /\ UNCHANGED feedVars
        \/ FeedNext /\ UNCHANGED importVars
        \/ \E w \in Workers: Crash(w)

Spec == Init /\ [][Next]_vars

\* The timer of a process polls again and again, so a dispatcher that is
\* interrupted now and then gets a pass through: strong fairness.  A handler
\* that has begun goes on, a lock that is not renewed expires.
Fairness ==
  /\ \A w \in Dispatchers:
       /\ WF_vars(Claim(w) /\ UNCHANGED <<importVars, feedVars>>)
       /\ SF_vars(Publish(w) /\ UNCHANGED <<importVars, feedVars>>)
       /\ SF_vars(CommitPass(w) /\ UNCHANGED <<importVars, feedVars>>)
  /\ \A w \in Workers:
       /\ WF_vars(RunImport(w) /\ UNCHANGED feedVars)
       /\ WF_vars((RunSync(w) \/ ThrowSync(w)) /\ UNCHANGED importVars)
  /\ \A e \in Events: WF_vars(Orphaned(e) /\ Stall(e) /\ UNCHANGED <<importVars, feedVars>>)

FairSpec == Spec /\ Fairness

-----------------------------------------------------------------------------
(* Imports                                                                 *)

\* The rows that the import itself turned into payments.
Made(v) == {r \in Rows \ Known: payments[<<v, r>>] > 0}

\* An external id is one payment, however many runs of the processor meet
\* between looking a payment up and inserting it, and although a row is
\* replayed: transaction-ingest.service.ts and its unique index.
PaidOnce == \A p \in Versions \X Rows: payments[p] <= 1

\* A run that starts over at the checkpoint skips nothing: every row up to it
\* has its record, of the confirmed file.  Runs that overlap move the
\* checkpoint backwards and forwards; import.processor.ts commits it with the
\* rows.  Here and below, "overtaken" is the exception: a validate or confirm
\* wrote on what it had seen before the import was queued, cancelled or
\* validated anew, and the row's hash and status are then anyone's.
CheckpointIsDurable ==
  ~overtaken => \A r \in Rows: r <= batch.checkpoint =>
    records[r].version = batch.hash /\ records[r].outcome # "none"

\* COMPLETED means that no row was lost: each has its record, and those that
\* claim a payment have one.
CompletedLosesNothing ==
  batch.status = "COMPLETED" /\ ~overtaken =>
    \A r \in Rows: /\ records[r].version = batch.hash
                   /\ records[r].outcome # "none"
                   /\ records[r].outcome \in {"CREATED", "DUPLICATE"} =>
                        payments[<<batch.hash, r>>] = 1

\* What the accountant is told was created is what was created, although
\* replays overwrite the records of rows and count them as duplicates.
CreatedIsExact ==
  ~overtaken =>
    batch.created = Cardinality(UNION {{<<v, r>>: r \in Made(v)}: v \in Versions})

\* Money comes in only from bytes whose hash an accountant quoted to confirm
\* them, although the object can be replaced and validated again at any moment
\* by others (imports.service.ts, decision 2).  The exception is real: the
\* update of confirm does not compare the hash (imports.service.ts:356), so a
\* validate that comes between its checks and it has other bytes imported.
OnlyConfirmedBytes ==
  ~overtaken => \A v \in Versions: Made(v) # {} =>
    v \in confirmed /\ batch.status \in {"QUEUED", "PROCESSING", "COMPLETED", "FAILED"}

\* The worker owns an import that is queued: nothing happens to a cancelled
\* one, and a late job for it does nothing (import.processor.ts:67).  Only a
\* request that had looked before the cancellation brings it back, by writing
\* late (imports.service.ts:177, 232, 303).
CancelledIsFinal ==
  [][batch.status = "CANCELLED" => overtaken' \/ UNCHANGED <<batch, payments, records>>]_vars

\* Implementation of the contract: a row is settled when its record stands, and
\* received when some payment of the confirmed file was made for it.
Contract == INSTANCE ImportContract WITH
  settled  <- {r \in Rows: records[r].outcome # "none"},
  received <- UNION {Made(v): v \in Versions},
  complete <- batch.status = "COMPLETED"
ImplementsContract == Contract!Spec

\* The last word on event e was the queue's or an operator's.
GivenUp == \E e \in Events: /\ outbox[e].kind = "import"
                            /\ outbox[e].status = "DEAD_LETTER" \/ jobs[e].state = "failed"

\* A queued import is completed or failed, where retry finds it, unless its
\* job was given up or a late request took it back: crashes of dispatchers and
\* workers do not strand it.
QueuedImportsSettle ==
  (batch.status = "QUEUED") ~> (batch.status \in {"COMPLETED", "FAILED"} \/ GivenUp \/ overtaken)

-----------------------------------------------------------------------------
(* The feed                                                                *)

\* Item i left its mark: a payment, an exception for a person, or the reversal
\* of its target.
Applied(i) == \/ i \in conflicts
              \/ IF IsPayment(i) THEN paid[i] > 0 ELSE Target[i] \in reversed

\* The cursor stands behind durable work: what is before it, save what the
\* provider still holds back, has left its mark (provider-sync.processor.ts:6).
\* The exception is an item on an account that is not held, of which a line in
\* the log is all that stays (provider-sync.processor.ts:176).
CursorBehindWork ==
  \A i \in Items \ Unheld: i <= cursor.offset /\ i \notin cursor.deferred => Applied(i)

\* A sync that is reported as completed, short of its ceiling of pages, has
\* delivered the whole stream on accounts that are held, late and repeated items
\* included, wherever an earlier run had stopped.  A run that was refused by the
\* provider is not reported (provider-sync.processor.ts:124, 156), although its
\* job ends like one that went through.
ReportedSyncDelivered ==
  \A report \in reports: report.pages < MaxPages => \A i \in Items \ Unheld: Applied(i)

\* A payment is received once through pages, repeats and runs that overlap
\* between looking it up and inserting it, and only payments that were received
\* are reversed, by a page or by a webhook
\* (transaction-ingest.service.ts:237).
FeedPaysOnce == \A i \in Items: paid[i] <= 1 /\ (i \in reversed => paid[i] = 1)
=============================================================================
