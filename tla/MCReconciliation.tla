-------------------------- MODULE MCReconciliation --------------------------
(* Charge 1 of two cents in month 1 and charge 2 of one cent in month 2;   *)
(* payment 1 of two cents in month 1 and payment 2 of one cent in month 2. *)
EXTENDS Reconciliation

MCChargePeriod == [c \in Charge |-> IF c = 1 THEN 1 ELSE 2]
MCChargeAmount == [c \in Charge |-> IF c = 1 THEN 2 ELSE 1]
MCPaymentPeriod == [m \in Payment |-> IF m = 1 THEN 1 ELSE 2]
MCPaymentAmount == [m \in Payment |-> IF m = 1 THEN 2 ELSE 1]
Sessions == Permutations(Session)
=============================================================================
