\* A provider reversal against a close: what the documents say of every posting.
SPECIFICATION Spec
CONSTANTS
    Tx = {t1, t2}
    NoTx = NoTx
    LastPeriod = 1
    MaxPostings = 1
    MaxVersion = 3
PROPERTIES
    ClosedPeriodIsSealed
