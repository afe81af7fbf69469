---------------------------- MODULE Idempotency ----------------------------
(***************************************************************************)
(* Idempotency records (packages/database/src/audit.ts).  A mutation       *)
(* inserts the record of its key in its own transaction, so the record     *)
(* appears when the mutation commits, and a second insert of the key waits *)
(* for the first transaction and fails if that one commits.                *)
(***************************************************************************)
CONSTANT Key

VARIABLE key  \* no record; inserted and not committed; COMPLETED

KeyInit == key = [k \in Key |-> "free"]

(* A mutation: an answer that is stored does not stop the work. *)
ClaimAgain(k) == key[k] # "inserted" /\ key' = [key EXCEPT ![k] = "inserted"]

\* PROCEED.  A key that is COMPLETED replays its answer and changes nothing.
Claim(k) == key[k] = "free" /\ key' = [key EXCEPT ![k] = "inserted"]

Complete(k) == key' = [key EXCEPT ![k] = "COMPLETED"]

RollBack(k) == key' = [key EXCEPT ![k] = "free"]

\* The sweep of the maintenance job, a day later.
Purge(k) == key[k] = "COMPLETED" /\ key' = [key EXCEPT ![k] = "free"]
=============================================================================
