\* One session: a payment allocated twice to one charge, then reversed by the provider.
SPECIFICATION Spec
CONSTANTS
    Session = {s1}
    Charge = {1}
    Payment = {1, 2}
    Period = {1, 2}
    ChargePeriod <- MCChargePeriod
    ChargeAmount <- MCChargeAmount
    PaymentPeriod <- MCPaymentPeriod
    PaymentAmount <- MCPaymentAmount
    Operations = {"approve", "providerReversal"}
    MaxAllocations = 2
    MaxCredits = 0

INVARIANT OpenIsOwed
