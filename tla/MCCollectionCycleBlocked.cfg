\* One worker whose source raises an error that no except clause names.
SPECIFICATION Spec
CONSTANTS
    w1 = w1
    Workers = {w1}
    Nobody = Nobody
    Sources <- TwoSources
    LastSlot = 1
    MaxRetries = 1
    MaxFaults = 1
INVARIANT NoSourceIsBlocked
