------------------------------ MODULE MCReview ------------------------------
(***************************************************************************)
(* Instance for TLC.  A behaviour has a few happenings besides the         *)
(* requests: reversals, conflicts, new proposals, purges and lost          *)
(* connections.                                                            *)
(***************************************************************************)
EXTENDS Review

CONSTANT MaxEvents  \* bound: requests and happenings of one behaviour

VARIABLE happenings

MCChargeAmount == [c \in Charge |-> 2]
MCSymmetry == Permutations(Session) \cup Permutations(Charge)

\* A request that is refused before it wrote anything is no happening.
Happening == \/ PurgeKey
             \/ \E s \in Session: \/ LookReversal(s) \/ FindConflict(s) \/ ReadPayment(s)
                                  \/ Abort(s) /\ ~At(s, "claimed")

MCInit == Init /\ happenings = 0
MCNext == /\ Next
          /\ happenings' = happenings + (IF Happening THEN 1 ELSE 0)
          /\ Len(request') + happenings' <= MaxEvents
MCSpec == MCInit /\ [][MCNext]_<<vars, happenings>>
=============================================================================
