\* A provider reversal that read the allocations before an approval committed.
SPECIFICATION Spec
CONSTANTS
    Session = {s1, s2}
    Charge = {1}
    Payment = {1, 2}
    Period = {1, 2}
    ChargePeriod <- MCChargePeriod
    ChargeAmount <- MCChargeAmount
    PaymentPeriod <- MCPaymentPeriod
    PaymentAmount <- MCPaymentAmount
    Operations = {"approve", "providerReversal"}
    MaxAllocations = 2
    MaxCredits = 0
SYMMETRY Sessions
INVARIANT UnappliedNeverNegative
