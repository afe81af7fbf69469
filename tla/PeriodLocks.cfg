\* Two sessions, two periods, every kind of transaction.
SPECIFICATION Spec
CONSTANTS
    Tx = {t1, t2}
    NoTx = NoTx
    LastPeriod = 2
    MaxPostings = 1
    MaxVersion = 4
SYMMETRY Sessions
INVARIANTS
    TypeOK
    SnapshotExact
    LockedVersionIsCurrent
    WaitsClimb
PROPERTIES
    NoPostingIntoClosed
    TransitionsSeeTheLastOne
