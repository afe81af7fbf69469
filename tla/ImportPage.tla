----------------------------- MODULE ImportPage -----------------------------
(***************************************************************************)
(* The page of imports (apps/web ImportCenter.tsx) and what its requests   *)
(* do (ingestion.resolver.ts and imports.service.ts, in one step each:     *)
(* ImportBatch has their steps, for one import, and the worker's).         *)
(*                                                                         *)
(* Here are several imports of one bank account, possibly of the same      *)
(* bytes, and a page that keeps one validated hash for all of them.        *)
(***************************************************************************)
EXTENDS Integers, FiniteSets

CONSTANTS
    Import,
    Bytes, Valid,    \* contents of files, and those without errors
    MaxUploads       \* bound

NoHash == "none"

\* batch: the rows [status, fileHash]; stored: the objects; importId: selected,
\* or 0; detail: what the page last got of each import; validatedHash;
\* validating: the validation whose answer is awaited; wanted: the confirmation
\* under way, looked when its checks are behind it, anew when somebody has
\* validated since; uploads so far; seen: the hashes that reached the page;
\* queued: the hash each import was queued with.
VARIABLES batch, stored, importId, detail, validatedHash, validating, wanted,
          uploads, seen, queued
serverVars == <<batch, stored, queued>>
pageVars == <<importId, detail, validatedHash, seen>>
vars == <<serverVars, pageVars, validating, wanted, uploads>>

NoBatch == [status |-> "none", fileHash |-> NoHash]
NotValidating == [import |-> 0, fileHash |-> NoHash]
NotWanted == [import |-> 0, fileHash |-> NoHash, looked |-> FALSE, anew |-> FALSE]
NotQueued == [fileHash |-> NoHash, anew |-> FALSE]
Status(i, s) == batch' = [batch EXCEPT ![i].status = s]

----------------------------------------------------------------------------
(* Uploads: the row, then the object, which may fail and which the signed  *)
(* URL allows again                                                        *)

createUpload(i) ==
  /\ batch[i] = NoBatch /\ uploads < MaxUploads
  /\ uploads' = uploads + 1 /\ Status(i, "DRAFT")
  /\ UNCHANGED <<stored, queued, pageVars, validating, wanted>>
Put(i, b) ==
  /\ batch[i] # NoBatch /\ stored[i] = NoHash
  /\ stored' = [stored EXCEPT ![i] = b]
  /\ importId' = i
  /\ UNCHANGED <<batch, queued, detail, validatedHash, seen, validating, wanted, uploads>>

\* External: whoever has the URL puts other bytes.
PutAgain(i, b) ==
  /\ stored[i] \notin {NoHash, b} /\ uploads < MaxUploads
  /\ uploads' = uploads + 1 /\ stored' = [stored EXCEPT ![i] = b]
  /\ UNCHANGED <<batch, queued, pageVars, validating, wanted>>

----------------------------------------------------------------------------
(* validate                                                                *)

Validatable(i) == batch[i].status \in {"DRAFT", "VALIDATION_FAILED", "READY"}
Validated(i) ==
  IF stored[i] = NoHash THEN [batch EXCEPT ![i].status = "VALIDATION_FAILED"]
  ELSE [batch EXCEPT ![i] = [fileHash |-> stored[i],
          status |-> IF stored[i] \in Valid THEN "READY" ELSE "VALIDATION_FAILED"]]

\* Nothing holds a confirmation back that has looked.
Overtakes(i) == wanted' = IF wanted.import = i /\ wanted.looked THEN [wanted EXCEPT !.anew = TRUE] ELSE wanted

PressValidate ==
  /\ importId # 0 /\ detail[importId].status \in {"DRAFT", "VALIDATION_FAILED", "READY"}
  /\ validating = NotValidating /\ Validatable(importId)
  /\ batch' = Validated(importId)
  /\ validating' = [import |-> importId, fileHash |-> stored[importId]]
  /\ Overtakes(importId)
  /\ UNCHANGED <<stored, queued, pageVars, uploads>>

\* The answer comes after the refetch it waits for, whatever is selected by now.
ValidationAnswered ==
  /\ validating # NotValidating
  /\ detail' = [detail EXCEPT ![validating.import] = batch[validating.import]]
  /\ validatedHash' = IF validating.fileHash # NoHash THEN validating.fileHash ELSE validatedHash
  /\ seen' = seen \cup {validating.fileHash, batch[validating.import].fileHash}
  /\ validating' = NotValidating
  /\ UNCHANGED <<serverVars, importId, wanted, uploads>>
ValidationLost ==
  /\ validating # NotValidating /\ validating' = NotValidating
  /\ UNCHANGED <<serverVars, pageVars, wanted, uploads>>

\* External: somebody else validates.
OtherValidates(i) ==
  /\ Validatable(i) /\ batch' = Validated(i) /\ Overtakes(i)
  /\ UNCHANGED <<stored, queued, pageVars, validating, uploads>>

----------------------------------------------------------------------------
(* confirm                                                                 *)

Offered == IF validatedHash # NoHash THEN validatedHash ELSE detail[importId].fileHash
PressConfirm ==
  /\ importId # 0 /\ detail[importId].status = "READY" /\ Offered # NoHash
  /\ wanted = NotWanted
  /\ wanted' = [NotWanted EXCEPT !.import = importId, !.fileHash = Offered]
  /\ UNCHANGED <<serverVars, pageVars, validating, uploads>>

(* A mutation: a validated import is confirmed whatever was shown. *)
Ready(w) == batch[w.import].status = "READY"

Hashed(w) == batch[w.import].status = "READY" /\ batch[w.import].fileHash = w.fileHash
Unchanged(w) == stored[w.import] = batch[w.import].fileHash
Repeated(w) == \E i \in Import \ {w.import}:
                 batch[i].fileHash = batch[w.import].fileHash /\ batch[i].status = "COMPLETED"
Allowed(w) == Hashed(w) /\ Unchanged(w) /\ ~Repeated(w)

Look ==
  /\ wanted # NotWanted /\ ~wanted.looked /\ Allowed(wanted)
  /\ wanted' = [wanted EXCEPT !.looked = TRUE]
  /\ UNCHANGED <<serverVars, pageVars, validating, uploads>>

\* The update compares the status alone.
Confirm ==
  /\ wanted.looked /\ batch[wanted.import].status = "READY"
  /\ Status(wanted.import, "QUEUED")
  /\ queued' = [queued EXCEPT ![wanted.import] = [fileHash |-> batch[wanted.import].fileHash, anew |-> wanted.anew]]
  /\ wanted' = NotWanted
  /\ UNCHANGED <<stored, pageVars, validating, uploads>>

\* Refused: bytes that changed cost the import its validation.
RefuseConfirm ==
  /\ wanted # NotWanted
  /\ IF wanted.looked THEN batch[wanted.import].status # "READY" ELSE ~Allowed(wanted)
  /\ IF ~wanted.looked /\ Hashed(wanted) /\ ~Unchanged(wanted)
       THEN Status(wanted.import, "VALIDATION_FAILED") ELSE UNCHANGED batch
  /\ wanted' = NotWanted
  /\ UNCHANGED <<stored, queued, pageVars, validating, uploads>>
ConfirmLost ==
  /\ wanted # NotWanted /\ wanted' = NotWanted
  /\ UNCHANGED <<serverVars, pageVars, validating, uploads>>

----------------------------------------------------------------------------
Select(i) ==
  /\ batch[i] # NoBatch /\ i # importId /\ importId' = i
  /\ UNCHANGED <<serverVars, detail, validatedHash, seen, validating, wanted, uploads>>

\* The poll of the selected import.
Poll ==
  /\ importId # 0 /\ detail[importId] # batch[importId]
  /\ detail' = [detail EXCEPT ![importId] = batch[importId]]
  /\ seen' = seen \cup {batch[importId].fileHash}
  /\ UNCHANGED <<serverVars, importId, validatedHash, validating, wanted, uploads>>

\* Leaving the page, or loading it anew, forgets the validated hash.
Reload ==
  /\ validatedHash # NoHash /\ validatedHash' = NoHash
  /\ validating' = NotValidating
  /\ UNCHANGED <<serverVars, importId, detail, seen, wanted, uploads>>

PressCancel ==
  /\ importId # 0 /\ detail[importId].status \in {"DRAFT", "VALIDATING", "READY", "VALIDATION_FAILED"}
  /\ Validatable(importId) /\ Status(importId, "CANCELLED")
  /\ UNCHANGED <<stored, queued, pageVars, validating, wanted, uploads>>
PressRetry ==
  /\ importId # 0 /\ detail[importId].status = "FAILED" /\ batch[importId].status = "FAILED"
  /\ Status(importId, "QUEUED")
  /\ UNCHANGED <<stored, queued, pageVars, validating, wanted, uploads>>

\* External: the worker.
WorkerEnds(i, s) ==
  /\ batch[i].status = "QUEUED" /\ s \in {"COMPLETED", "FAILED"}
  /\ (s = "COMPLETED" => stored[i] = batch[i].fileHash) /\ Status(i, s)
  /\ UNCHANGED <<stored, queued, pageVars, validating, wanted, uploads>>

Init ==
  /\ batch = [i \in Import |-> NoBatch]
  /\ stored = [i \in Import |-> NoHash] /\ queued = [i \in Import |-> NotQueued]
  /\ importId = 0 /\ detail = [i \in Import |-> NoBatch]
  /\ validatedHash = NoHash /\ seen = {} /\ uploads = 0
  /\ validating = NotValidating /\ wanted = NotWanted
Next ==
  \/ \E i \in Import: \/ createUpload(i) \/ OtherValidates(i) \/ Select(i)
                      \/ \E b \in Bytes: Put(i, b) \/ PutAgain(i, b)
                      \/ \E s \in {"COMPLETED", "FAILED"}: WorkerEnds(i, s)
  \/ PressValidate \/ ValidationAnswered \/ ValidationLost
  \/ PressConfirm \/ Look \/ Confirm \/ RefuseConfirm \/ ConfirmLost
  \/ Poll \/ Reload \/ PressCancel \/ PressRetry

----------------------------------------------------------------------------
(* Properties                                                              *)

\* "Rather than importing bytes nobody reviewed": what is queued are bytes
\* without errors whose hash had reached this page, though perhaps for another
\* import of the same bytes, whatever others upload and validate meanwhile,
\* unless they validate the import between the checks of its confirmation and
\* the update.
QueuedBytesWereSeen ==
  \A i \in Import: queued[i].fileHash \in (Valid \cap seen) \cup {NoHash} \/ queued[i].anew
=============================================================================
