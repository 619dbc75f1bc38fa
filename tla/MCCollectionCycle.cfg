\* Two workers, two sources, two slots, one retry, two faults.
SPECIFICATION Spec
CONSTANTS
    w1 = w1
    w2 = w2
    Workers = {w1, w2}
    Nobody = Nobody
    Sources <- TwoSources
    LastSlot = 2
    MaxRetries = 1
    MaxFaults = 2
SYMMETRY WorkerSymmetry
INVARIANTS
    TypeOK
    SucceededCycleIsComplete
    BackfillFollowsCollection
PROPERTIES
    RankingNeverLoses
