\* Two sessions, two charges: approvals, reversals and credits by users.
SPECIFICATION Spec
CONSTANTS
    Session = {s1, s2}
    Charge = {1, 2}
    Payment = {1, 2}
    Period = {1, 2}
    ChargePeriod <- MCChargePeriod
    ChargeAmount <- MCChargeAmount
    PaymentPeriod <- MCPaymentPeriod
    PaymentAmount <- MCPaymentAmount
    Operations = {"approve", "reverse", "credit"}
    MaxAllocations = 2
    MaxCredits = 1
SYMMETRY Sessions
INVARIANTS OpenIsOwed RowsInStep PaymentsInStep
PROPERTY ApprovedAsSeen
