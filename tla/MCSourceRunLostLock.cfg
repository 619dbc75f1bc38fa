\* A worker goes on after its lock session is gone; every commit is acknowledged.
SPECIFICATION Spec
CONSTANTS
    w1 = w1
    w2 = w2
    w3 = w3
    Workers = {w1, w2, w3}
    Nobody = Nobody
    MaxAttempts = 3
    MaxSessionLosses = 1
    MaxAckLosses = 0
SYMMETRY WorkerSymmetry
PROPERTY CompletedSlotStaysClosed
CHECK_DEADLOCK FALSE
