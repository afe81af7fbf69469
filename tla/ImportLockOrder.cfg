\* An import batch in file order against a transaction in sorted order.
SPECIFICATION Spec
CONSTANTS
    Tx = {t1, t2}
    NoTx = NoTx
    LastPeriod = 2
    MaxPostings = 1
    MaxVersion = 1
INVARIANTS
    NoDeadlock
