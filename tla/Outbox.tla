------------------------------- MODULE Outbox -------------------------------
(***************************************************************************)
(* The transactional outbox, its dispatcher and the queues behind it.      *)
(*                                                                         *)
(* A business transaction appends an event with its own writes.  A worker  *)
(* process polls the due rows, claims a batch with FOR UPDATE SKIP LOCKED, *)
(* publishes each event to its queue and marks what it published when its  *)
(* transaction commits.  A queue is BullMQ as the worker uses it: a job is *)
(* named after its event, is retried a bounded number of times and is      *)
(* delivered again when the lock of the process that runs it expires.      *)
(*                                                                         *)
(* The processors are not here: ImportBatch and ProviderFeed take jobs and *)
(* finish them with the operators below.                                   *)
(***************************************************************************)
EXTENDS Naturals, FiniteSets

CONSTANTS LastEvent,    \* events are numbered in the order of createdAt
          Workers,      \* worker processes, with one consumer per queue
          Dispatchers,  \* those whose dispatcher polls
          ClaimSize,    \* outbox.batchSize
          MaxAttempts,  \* outbox.maxAttempts
          JobAttempts,  \* DEFAULT_JOB_OPTIONS.attempts
          MaxStalls,    \* maxStalledCount
          NoWorker

ASSUME OutboxAssumption ==
  /\ LastEvent \in Nat /\ ClaimSize \in Nat \ {0}
  /\ MaxAttempts \in Nat \ {0} /\ JobAttempts \in Nat \ {0} /\ MaxStalls \in Nat
  /\ Dispatchers \subseteq Workers /\ NoWorker \notin Workers

VARIABLES outbox,   \* outbox[e]: the row of event e
          pass,     \* pass[w]: the dispatch pass of process w, a transaction
          jobs      \* jobs[e]: the job named after event e

outboxVars == <<outbox, pass, jobs>>

Events == 1..LastEvent

\* What an event asks for.  "note" stands for the types nothing subscribes to.
Kinds == {"import", "sync", "note"}

\* A row is PENDING, FAILED, DISPATCHED or DEAD_LETTER; a job waiting, active,
\* completed, failed or removed.

NoPass == [open |-> FALSE, todo |-> {}, ok |-> {}, bad |-> {}]
NoJob  == [state |-> "absent", owner |-> NoWorker, attempts |-> 0, stalls |-> 0]

OutboxInit ==
  /\ outbox = [e \in Events |-> [status |-> "absent", attempts |-> 0, kind |-> "note"]]
  /\ pass = [w \in Workers |-> NoPass]
  /\ jobs = [e \in Events |-> NoJob]

-----------------------------------------------------------------------------
(* Appending, with the transaction that makes the change                   *)

\* e is the next row: rows are numbered as they are created.
IsNext(e) == /\ outbox[e].status = "absent"
             /\ \A f \in Events: f < e => outbox[f].status # "absent"

Appended(e, kind) ==
  [outbox EXCEPT ![e] = [status |-> "PENDING", attempts |-> 0, kind |-> kind]]

-----------------------------------------------------------------------------
(* The dispatcher                                                          *)

LockedRows == UNION {pass[w].todo \cup pass[w].ok \cup pass[w].bad: w \in Workers}

(* A mutation: an event that failed once is not claimed again. *)
DueOnce(later) == {e \in Events \ LockedRows: outbox[e].status = "PENDING"}

\* The rows the claim returns when the FAILED rows of "later" still wait for
\* their next attempt: due, not locked, the oldest ClaimSize of them.
Due(later) ==
  {e \in Events \ LockedRows: /\ outbox[e].status \in {"PENDING", "FAILED"}
                              /\ e \notin later}
Oldest(rows) == {e \in rows: Cardinality({f \in rows: f < e}) < ClaimSize}

\* tick() with claimOutboxBatch.  One pass at a time per process.
Claim(w) ==
  /\ ~pass[w].open
  /\ \E later \in SUBSET {e \in Events: outbox[e].status = "FAILED"}:
       /\ Due(later) # {}
       /\ pass' = [pass EXCEPT ![w] = [NoPass EXCEPT !.open = TRUE, !.todo = Oldest(Due(later))]]
  /\ UNCHANGED <<outbox, jobs>>

\* Queue.add: a job whose id the queue still holds is not added again.
Added(e) ==
  IF jobs[e].state \in {"absent", "removed"}
    THEN [jobs EXCEPT ![e] = [NoJob EXCEPT !.state = "waiting"]]
    ELSE jobs

HasQueue(e) == outbox[e].kind # "note"

First(todo, e) == e \in todo /\ \A f \in todo: e <= f

\* publish() of the oldest event left in the batch.
Publish(w) ==
  \E e \in Events:
    /\ First(pass[w].todo, e)
    /\ pass' = [pass EXCEPT ![w].todo = @ \ {e}, ![w].ok = @ \cup {e}]
    /\ jobs' = IF HasQueue(e) THEN Added(e) ELSE jobs
    /\ UNCHANGED outbox

(* A mutation: the error of the queue is swallowed. *)
PublishFailsSilently(w) ==
  \E e \in Events:
    /\ First(pass[w].todo, e) /\ HasQueue(e)
    /\ pass' = [pass EXCEPT ![w].todo = @ \ {e}, ![w].ok = @ \cup {e}]
    /\ UNCHANGED <<outbox, jobs>>

\* publish() throws: before the queue took the job, or after.
PublishFails(w) ==
  \E e \in Events:
    /\ First(pass[w].todo, e) /\ HasQueue(e)
    /\ pass' = [pass EXCEPT ![w].todo = @ \ {e}, ![w].bad = @ \cup {e}]
    /\ jobs' \in {jobs, Added(e)}
    /\ UNCHANGED outbox

\* markOutboxFailed
Failed(row) ==
  [row EXCEPT !.attempts = @ + 1,
              !.status = IF row.attempts + 1 >= MaxAttempts THEN "DEAD_LETTER" ELSE "FAILED"]

\* What the pass of w commits: markOutboxDispatched and markOutboxFailed.
Marked(w) ==
  [e \in Events |-> IF e \in pass[w].ok THEN [outbox[e] EXCEPT !.status = "DISPATCHED"]
                    ELSE IF e \in pass[w].bad THEN Failed(outbox[e])
                    ELSE outbox[e]]

CommitPass(w) ==
  /\ pass[w].open /\ pass[w].todo = {}
  /\ outbox' = Marked(w)
  /\ pass' = [pass EXCEPT ![w] = NoPass]
  /\ UNCHANGED jobs

\* The transaction times out or fails: the rows are unlocked as they were and
\* the jobs already added stay.
AbortPass(w) ==
  /\ pass[w].open
  /\ pass' = [pass EXCEPT ![w] = NoPass]
  /\ UNCHANGED <<outbox, jobs>>

Dispatch(w) == Claim(w) \/ Publish(w) \/ PublishFails(w) \/ CommitPass(w) \/ AbortPass(w)

-----------------------------------------------------------------------------
(* The queue                                                               *)

Waiting(e, kind) == jobs[e].state = "waiting" /\ outbox[e].kind = kind
Taken(w, e) == [jobs EXCEPT ![e].state = "active", ![e].owner = w]
Owns(w, e) == jobs[e].state = "active" /\ jobs[e].owner = w

\* The processor returns or throws.  A process that lost its lock on the job
\* no longer decides what becomes of it.
Succeeded(w, e) ==
  IF Owns(w, e) THEN [jobs EXCEPT ![e].state = "completed", ![e].owner = NoWorker] ELSE jobs

Threw(w, e) ==
  IF ~Owns(w, e) THEN jobs
  ELSE [jobs EXCEPT ![e].attempts = @ + 1, ![e].owner = NoWorker,
                    ![e].state = IF jobs[e].attempts + 1 < JobAttempts THEN "waiting" ELSE "failed"]

\* The lock of an active job expires: delivered again, or given up after
\* maxStalledCount times.
Stall(e) ==
  /\ jobs[e].state = "active"
  /\ jobs' = IF jobs[e].stalls < MaxStalls
               THEN [jobs EXCEPT ![e].state = "waiting", ![e].owner = NoWorker, ![e].stalls = @ + 1]
               ELSE [jobs EXCEPT ![e].state = "failed", ![e].owner = NoWorker]
  /\ UNCHANGED <<outbox, pass>>

\* removeOnComplete: after this the same id can be added again.
Forget(e) ==
  /\ jobs[e].state = "completed"
  /\ jobs' = [jobs EXCEPT ![e].state = "removed"]
  /\ UNCHANGED <<outbox, pass>>

-----------------------------------------------------------------------------
(* Properties                                                              *)

\* An event marked DISPATCHED, if some queue subscribes to it, has reached that
\* queue: outbox.dispatcher.ts publishes before it marks, whatever crashes or
\* rolls back in between.
DispatchedWasPublished ==
  \A e \in Events: outbox[e].status = "DISPATCHED" /\ HasQueue(e) => jobs[e].state # "absent"

\* The queue, or an operator looking at dead letters, has the last word on e.
Ended(e) ==
  \/ outbox[e].status = "DEAD_LETTER"
  \/ outbox[e].status = "DISPATCHED" /\ ~HasQueue(e)
  \/ jobs[e].state \in {"completed", "failed", "removed"}

\* Every event that a committed transaction appended is handled or given up
\* visibly: at-least-once delivery through crashes of dispatcher and consumer.
EveryEventEnds ==
  \A e \in Events: (outbox[e].status = "PENDING") ~> Ended(e)
=============================================================================
