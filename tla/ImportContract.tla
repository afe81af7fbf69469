--------------------------- MODULE ImportContract ---------------------------
(***************************************************************************)
(* What an import promises, whatever crashes and however often its job is  *)
(* delivered: rows are settled, each for good; money is received once for  *)
(* each row; and the import says that it is complete only when every row   *)
(* is settled.  It may take that back, as a late failure does.             *)
(***************************************************************************)
CONSTANT Rows

VARIABLES settled,   \* rows with a recorded outcome
          received,  \* rows for which a payment was created
          complete

Init == settled = {} /\ received = {} /\ complete = FALSE

\* One committed batch.  Payments are created only for rows it settles.
Settle == /\ \E rows \in SUBSET Rows:
               /\ settled' = settled \cup rows
               /\ \E new \in SUBSET (rows \ received): received' = received \cup new
          /\ UNCHANGED complete

Finish == settled = Rows /\ complete' = TRUE /\ UNCHANGED <<settled, received>>
Reopen == complete' = FALSE /\ UNCHANGED <<settled, received>>

Next == Settle \/ Finish \/ Reopen
Spec == Init /\ [][Next]_<<settled, received, complete>>
=============================================================================
