--------------------------- MODULE MCPeriodLocks ---------------------------
(* The period-lock protocol on a few sessions of one property. *)
EXTENDS PeriodLocks, TLC

(* Sessions are interchangeable: no action names one. *)
Sessions == Permutations(Tx)
=============================================================================
