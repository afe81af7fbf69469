\* Two sessions: a credit dated in another month races an approval of its charge.
SPECIFICATION Spec
CONSTANTS
    Session = {s1, s2}
    Charge = {1}
    Payment = {1}
    Period = {1, 2}
    ChargePeriod <- MCChargePeriod
    ChargeAmount <- MCChargeAmount
    PaymentPeriod <- MCPaymentPeriod
    PaymentAmount <- MCPaymentAmount
    Operations = {"approve", "datedCredit"}
    MaxAllocations = 1
    MaxCredits = 1
SYMMETRY Sessions

INVARIANT RowsInStep
