\* Two sessions that trade locks for ever; crashes and deadlocks included.
SPECIFICATION FairSpec
CONSTANTS
    Tx = {t1, t2}
    NoTx = NoTx
    LastPeriod = 2
    MaxPostings = 1
    MaxVersion = 2
PROPERTIES
    EveryTransactionEnds
