\* Two sessions, one charge: every operation, those of the provider included.
SPECIFICATION Spec
CONSTANTS
    Session = {s1, s2}
    Charge = {1}
    Payment = {1, 2}
    Period = {1, 2}
    ChargePeriod <- MCChargePeriod
    ChargeAmount <- MCChargeAmount
    PaymentPeriod <- MCPaymentPeriod
    PaymentAmount <- MCPaymentAmount
    Operations = {"approve", "reverse", "credit", "datedCredit", "providerReversal"}
    MaxAllocations = 2
    MaxCredits = 1
SYMMETRY Sessions
INVARIANTS TypeOK LedgerFollowsRows
PROPERTY ReversalIsFinal
