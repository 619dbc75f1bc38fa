\* Three workers, one lost lock session, one lost commit acknowledgement.
SPECIFICATION Spec
CONSTANTS
    w1 = w1
    w2 = w2
    w3 = w3
    Workers = {w1, w2, w3}
    Nobody = Nobody
    MaxAttempts = 3
    MaxSessionLosses = 1
    MaxAckLosses = 1
SYMMETRY WorkerSymmetry
INVARIANTS
    TypeOK
    SingleOwner
    NoFetchAfterSuccess
    ReportedSuccessIsDurable
PROPERTIES
    AttemptsNeverDecrease
    ImplementsJobSlot
\* A slot's attempts are finite: after the last one nothing happens any more.
CHECK_DEADLOCK FALSE
