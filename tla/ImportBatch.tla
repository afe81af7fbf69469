---------------------------- MODULE ImportBatch -----------------------------
(***************************************************************************)
(* The life of one CSV import: the calls of the API that move it to QUEUED *)
(* (apps/api/src/ingestion/imports.service.ts) and the processor that      *)
(* turns its rows into payments                                            *)
(* (apps/worker/src/processors/import.processor.ts).                       *)
(*                                                                         *)
(* The file is a version number: 0 before the first upload.  Its rows are  *)
(* 1..LastRow.  A row becomes a payment, is a duplicate of one, or is      *)
(* refused (closed period, currency).  Each step below is what the code    *)
(* does between two awaits that other requests and workers can see.        *)
(*                                                                         *)
(* validate and confirm look at the import and write later, most of it     *)
(* without comparing, so that requests can overtake one another.           *)
(* "confirmed" and "overtaken" are no columns: they record, for the        *)
(* properties, what was confirmed and whether that has happened.           *)
(***************************************************************************)
EXTENDS Outbox

CONSTANTS Clients,    \* requests of the API that can be under way at once
          Versions,   \* contents the stored file can have
          Valid,      \* the versions the parser accepts
          LastRow,
          SliceSize,  \* imports.batchSize
          Known,      \* rows whose payment was ingested from another file
          Debits,     \* rows that are money out
          Closing     \* rows whose period may be closed by the time they are read

Rows == 1..LastRow

ASSUME ImportAssumption ==
  /\ Versions \subseteq Nat \ {0} /\ Valid \subseteq Versions
  /\ LastRow \in Nat \ {0} /\ SliceSize \in Nat \ {0}
  /\ Known \subseteq Rows /\ Debits \subseteq Rows /\ Closing \subseteq Rows

VARIABLES batch,      \* the ImportBatch row
          file,       \* the version in object storage
          payments,   \* payments[<<v, r>>]: payments with the external id of row r of v
          records,    \* records[r]: the ImportRow with number r
          client,     \* client[c]: the API request c has under way
          importRun,  \* importRun[w]: the job that process w is running
          confirmed,  \* history: hashes quoted by confirmations that queued the import
          overtaken   \* history: a request wrote what no longer fitted the import

history == <<confirmed, overtaken>>

importVars == <<batch, file, payments, records, client, importRun, history>>

(* A mutation: an import can be cancelled while it waits for the worker. *)
CANCELLABLEQueued == {"DRAFT", "VALIDATING", "READY", "VALIDATION_FAILED", "QUEUED"}

\* The rest belongs to the worker, or has money behind it.
CANCELLABLE == {"DRAFT", "VALIDATING", "READY", "VALIDATION_FAILED"}

NoRecord == [version |-> 0, outcome |-> "none"]
\* Otherwise the outcome is CREATED, DUPLICATE, CONFLICT or SKIPPED.

Idle    == [step |-> "idle", hash |-> 0]
NoRun   == [step |-> "idle", event |-> 0, hash |-> 0, next |-> 0, seen |-> {}]
\* The steps are idle, loaded, changed, rows, slice and done.

ImportInit ==
  /\ batch = [status |-> "none", hash |-> 0, checkpoint |-> 0, created |-> 0]
  /\ file = 0
  /\ payments = [p \in Versions \X Rows |-> IF p[2] \in Known THEN 1 ELSE 0]
  /\ records = [r \in Rows |-> NoRecord]
  /\ client = [c \in Clients |-> Idle]
  /\ importRun = [w \in Workers |-> NoRun]
  /\ confirmed = {} /\ overtaken = FALSE

-----------------------------------------------------------------------------
(* The API                                                                 *)

SetStatus(s) == batch' = [batch EXCEPT !.status = s]
At(c, s) == client[c].step = s
Goto(c, s, h) == client' = [client EXCEPT ![c] = [step |-> s, hash |-> h]]

CreateUpload(c) ==
  /\ At(c, "idle") /\ batch.status = "none"
  /\ SetStatus("DRAFT")
  /\ UNCHANGED <<file, payments, records, client, importRun, history, outboxVars>>

\* The signed upload URL lets its holder put new contents at any time.
Upload ==
  /\ batch.status # "none"
  /\ \E v \in Versions: v > file /\ file' = v
  /\ UNCHANGED <<batch, payments, records, client, importRun, history, outboxVars>>

\* The states in which the import is the API's to write: before it is queued,
\* and not once it is cancelled.
Editable == {"DRAFT", "VALIDATING", "READY", "VALIDATION_FAILED"}
WritesLate == /\ overtaken' = (overtaken \/ batch.status \notin Editable)
              /\ UNCHANGED confirmed

\* validate: it looks at the status once, reads the object, and writes before
\* and after without looking again.
BeginValidate(c) ==
  /\ At(c, "idle") /\ batch.status \in {"DRAFT", "VALIDATION_FAILED", "READY"}
  /\ Goto(c, "validating", 0)
  /\ UNCHANGED <<batch, file, payments, records, importRun, history, outboxVars>>

MarkValidating(c) ==
  /\ At(c, "validating")
  /\ SetStatus("VALIDATING") /\ WritesLate
  /\ Goto(c, "reading", 0)
  /\ UNCHANGED <<file, payments, records, importRun, outboxVars>>

\* 0: there is no object, or the storage fails.
ReadObject(c) ==
  /\ At(c, "reading")
  /\ \E h \in {0, file}: Goto(c, "read", h)
  /\ UNCHANGED <<batch, file, payments, records, importRun, history, outboxVars>>

FinishValidate(c) ==
  /\ At(c, "read")
  /\ LET h == client[c].hash IN
       batch' = IF h = 0
                  THEN [batch EXCEPT !.status = "VALIDATION_FAILED"]
                  ELSE [batch EXCEPT !.hash = h,
                          !.status = IF h \in Valid THEN "READY" ELSE "VALIDATION_FAILED"]
  /\ WritesLate
  /\ Goto(c, "idle", 0)
  /\ UNCHANGED <<file, payments, records, importRun, outboxVars>>

\* confirm: the hash the accountant quotes against the row, then the row
\* against the object, then the status again in the transaction that queues.
BeginConfirm(c, quoted) ==
  /\ At(c, "idle") /\ batch.status = "READY" /\ batch.hash = quoted
  /\ Goto(c, "confirming", quoted)
  /\ UNCHANGED <<batch, file, payments, records, importRun, history, outboxVars>>

CheckStored(c) ==
  /\ At(c, "confirming")
  /\ IF file = client[c].hash
       THEN Goto(c, "stored", file) /\ UNCHANGED <<batch, history>>
       ELSE Goto(c, "idle", 0) /\ SetStatus("VALIDATION_FAILED") /\ WritesLate
  /\ UNCHANGED <<file, payments, records, importRun, outboxVars>>

Queued == [batch EXCEPT !.status = "QUEUED", !.checkpoint = 0, !.created = 0]

\* The identical file, completed before, is a conflict: the request ends.  The
\* update compares the status and not the hash, which a validate may have
\* replaced since.
CommitConfirm(c) ==
  /\ At(c, "stored")
  /\ Goto(c, "idle", 0)
  /\ \/ UNCHANGED <<batch, outbox, history>>
     \/ /\ batch.status = "READY"
        /\ batch' = Queued
        /\ confirmed' = confirmed \cup {client[c].hash}
        /\ overtaken' = (overtaken \/ batch.hash # client[c].hash)
        /\ \E e \in Events: IsNext(e) /\ outbox' = Appended(e, "import")
  /\ UNCHANGED <<file, payments, records, importRun, pass, jobs>>

Cancel(c) ==
  /\ At(c, "idle") /\ batch.status \in CANCELLABLE
  /\ SetStatus("CANCELLED")
  /\ UNCHANGED <<file, payments, records, client, importRun, history, outboxVars>>

(* A mutation: a retry resets the counters. *)
RetryFromZero(c) ==
  /\ At(c, "idle") /\ batch.status = "FAILED"
  /\ batch' = [batch EXCEPT !.status = "QUEUED", !.created = 0]
  /\ \E e \in Events: IsNext(e) /\ outbox' = Appended(e, "import")
  /\ UNCHANGED <<file, payments, records, client, importRun, history, pass, jobs>>

\* Counters and checkpoint stay: the worker resumes.
Retry(c) ==
  /\ At(c, "idle") /\ batch.status = "FAILED"
  /\ SetStatus("QUEUED")
  /\ \E e \in Events: IsNext(e) /\ outbox' = Appended(e, "import")
  /\ UNCHANGED <<file, payments, records, client, importRun, history, pass, jobs>>

\* The API process dies, or a call it awaits throws.
ApiFails(c) ==
  /\ ~At(c, "idle")
  /\ Goto(c, "idle", 0)
  /\ UNCHANGED <<batch, file, payments, records, importRun, history, outboxVars>>

-----------------------------------------------------------------------------
(* The processor                                                           *)

On(w, s) == importRun[w].step = s
Step(w, s) == importRun' = [importRun EXCEPT ![w].step = s]
JobOf(w) == importRun[w].event

(* A mutation: an import under way is left to the process that began it. *)
TakeOnlyQueued(w) ==
  /\ On(w, "idle")
  /\ \E e \in Events:
       /\ Waiting(e, "import")
       /\ IF batch.status = "QUEUED"
            THEN /\ jobs' = Taken(w, e)
                 /\ importRun' = [importRun EXCEPT ![w] =
                      [step |-> "loaded", event |-> e, hash |-> batch.hash,
                       next |-> batch.checkpoint + 1, seen |-> {}]]
            ELSE /\ jobs' = [jobs EXCEPT ![e].state = "completed"]
                 /\ UNCHANGED importRun
  /\ UNCHANGED <<batch, file, payments, records, client, history, outbox, pass>>

\* process() up to its first write: a job of an import that is not queued or
\* under way ends here, without an error.
TakeImport(w) ==
  /\ On(w, "idle")
  /\ \E e \in Events:
       /\ Waiting(e, "import")
       /\ IF batch.status \in {"QUEUED", "PROCESSING"}
            THEN /\ jobs' = Taken(w, e)
                 /\ importRun' = [importRun EXCEPT ![w] =
                      [step |-> "loaded", event |-> e, hash |-> batch.hash,
                       next |-> batch.checkpoint + 1, seen |-> {}]]
            ELSE /\ jobs' = [jobs EXCEPT ![e].state = "completed"]
                 /\ UNCHANGED importRun
  /\ UNCHANGED <<batch, file, payments, records, client, history, outbox, pass>>

(* A mutation: the bytes are not compared with the confirmed hash. *)
MarkProcessingUnchecked(w) ==
  /\ On(w, "loaded")
  /\ SetStatus("PROCESSING")
  /\ importRun' = [importRun EXCEPT ![w].hash = file, ![w].step = "rows"]
  /\ UNCHANGED <<file, payments, records, client, history, outboxVars>>

\* PROCESSING is written whatever the status is by now.  The bytes that are
\* read, "hash" from here on, must be those that were confirmed.
MarkProcessing(w) ==
  /\ On(w, "loaded")
  /\ SetStatus("PROCESSING")
  /\ importRun' = [importRun EXCEPT ![w].hash = file,
                      ![w].step = IF file = importRun[w].hash THEN "rows" ELSE "changed"]
  /\ UNCHANGED <<file, payments, records, client, history, outboxVars>>

Slice(w) == {r \in Rows: importRun[w].next <= r /\ r < importRun[w].next + SliceSize}
PaymentOf(w, r) == <<importRun[w].hash, r>>
Exists(w, r) == payments[PaymentOf(w, r)] > 0

(* A mutation: the slice is taken to be one row longer than it is. *)
LastOfAndOne(w) == IF importRun[w].next + SliceSize <= LastRow
                     THEN importRun[w].next + SliceSize ELSE LastRow

\* The last row of the slice.
LastOf(w) == IF importRun[w].next + SliceSize - 1 <= LastRow
               THEN importRun[w].next + SliceSize - 1 ELSE LastRow

(* A mutation: the checkpoint is written before the rows. *)
BeginSliceAhead(w) ==
  /\ On(w, "rows") /\ Slice(w) # {}
  /\ batch' = [batch EXCEPT !.checkpoint = LastOf(w)]
  /\ importRun' = [importRun EXCEPT ![w].step = "slice",
                                    ![w].seen = {r \in Slice(w): Exists(w, r)}]
  /\ UNCHANGED <<file, payments, records, client, history, outboxVars>>

\* ingest() of the rows of a slice looks each payment up before it waits for
\* its period's lock and inserts.
BeginSlice(w) ==
  /\ On(w, "rows") /\ Slice(w) # {}
  /\ importRun' = [importRun EXCEPT ![w].step = "slice",
                                    ![w].seen = {r \in Slice(w): Exists(w, r)}]
  /\ UNCHANGED <<batch, file, payments, records, client, history, outboxVars>>

(* A mutation: no unique index on the external id. *)
CollidesNever(w, refused) == FALSE

\* A payment that another worker inserted since: the unique index refuses it,
\* and with it the transaction.
Collides(w, refused) == \E r \in Slice(w) \ (importRun[w].seen \cup refused): Exists(w, r)

\* A stored debit has its absolute value, so the same debit again looks like
\* another amount.
Outcome(w, refused, r) ==
  IF r \in refused THEN "SKIPPED"
  ELSE IF r \notin importRun[w].seen THEN "CREATED"
  ELSE IF r \in Debits THEN "CONFLICT" ELSE "DUPLICATE"

Fresh(w, refused) == {r \in Slice(w): Outcome(w, refused, r) = "CREATED"}

\* Payments, records, counters and checkpoint commit together.
CommitSlice(w) ==
  /\ On(w, "slice")
  /\ \E refused \in SUBSET ((Slice(w) \cap Closing) \ importRun[w].seen):
       /\ ~Collides(w, refused)
       /\ payments' = [p \in DOMAIN payments |->
            IF \E r \in Fresh(w, refused): p = PaymentOf(w, r)
              THEN payments[p] + 1 ELSE payments[p]]
       /\ records' = [r \in Rows |->
            IF r \in Slice(w)
              THEN [version |-> importRun[w].hash, outcome |-> Outcome(w, refused, r)]
              ELSE records[r]]
       /\ batch' = [batch EXCEPT
            !.checkpoint = LastOf(w),
            !.created    = @ + Cardinality(Fresh(w, refused))]
  /\ importRun' = [importRun EXCEPT ![w].step = "rows", ![w].next = LastOf(w) + 1, ![w].seen = {}]
  /\ UNCHANGED <<file, client, history, outboxVars>>

(* A mutation: the loop over the rows ends before the last slice. *)
CompleteEarly(w) ==
  /\ On(w, "rows")
  /\ SetStatus("COMPLETED")
  /\ Step(w, "done")
  /\ UNCHANGED <<file, payments, records, client, history, outboxVars>>

Complete(w) ==
  /\ On(w, "rows") /\ Slice(w) = {}
  /\ SetStatus("COMPLETED")
  /\ Step(w, "done")
  /\ UNCHANGED <<file, payments, records, client, history, outboxVars>>

\* Anything thrown inside the try: other bytes than confirmed, storage, the
\* database, a collision, the audit row that is written after COMPLETED.
\* failBatch swallows an error of its own; then the job has failed.
FailBatch(w) ==
  /\ importRun[w].step \in {"changed", "rows", "slice", "done"}
  /\ batch' \in {batch, [batch EXCEPT !.status = "FAILED"]}
  /\ jobs' = Threw(w, JobOf(w))
  /\ importRun' = [importRun EXCEPT ![w] = NoRun]
  /\ UNCHANGED <<file, payments, records, client, history, outbox, pass>>

FinishImport(w) ==
  /\ On(w, "done")
  /\ jobs' = Succeeded(w, JobOf(w))
  /\ importRun' = [importRun EXCEPT ![w] = NoRun]
  /\ UNCHANGED <<batch, file, payments, records, client, history, outbox, pass>>

-----------------------------------------------------------------------------
ApiNext == \/ Upload
           \/ \E c \in Clients:
                \/ CreateUpload(c) \/ BeginValidate(c) \/ MarkValidating(c) \/ ReadObject(c) \/ FinishValidate(c)
                \/ \E v \in Versions: BeginConfirm(c, v)
                \/ CheckStored(c) \/ CommitConfirm(c) \/ Cancel(c) \/ Retry(c) \/ ApiFails(c)

RunImport(w) == \/ TakeImport(w) \/ MarkProcessing(w) \/ BeginSlice(w) \/ CommitSlice(w)
                \/ Complete(w) \/ FinishImport(w) \/ FailBatch(w)

ImportNext == ApiNext \/ \E w \in Workers: RunImport(w)
=============================================================================
