CONSTANTS
  Key = {1, 2, 3}
  MaxRequests = 3
  MaxExceptions = 2
  Charge = {c1, c2}
  ChargeAmount <- MCChargeAmount
  PaymentAmount = 3
  Session = {s1, s2}
  MaxRegenerations = 1
  MaxEvents = 4
SYMMETRY MCSymmetry
SPECIFICATION MCSpec
INVARIANTS EachRequestOnce FreshProposalsFit ReversalIsAnswered
PROPERTIES ResolvedAsSeen
CHECK_DEADLOCK FALSE
