\* Two workers, one source, two slots, one retry, one fault.
SPECIFICATION FairSpec
CONSTANTS
    w1 = w1
    w2 = w2
    Workers = {w1, w2}
    Nobody = Nobody
    Sources <- OneSource
    LastSlot = 2
    MaxRetries = 1
    MaxFaults = 1
PROPERTIES
    CycleEnds
    EventuallyRanked
