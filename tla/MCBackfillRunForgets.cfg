\* One worker and no fault but a page error followed by a failed reservation or a
\* crash.
SPECIFICATION Spec
CONSTANTS
    w1 = w1
    Workers = {w1}
    Nobody = Nobody
    Sources <- MCSources
    WindowEnd <- MCWindowEnd
    EligibleSets <- AllEligible
    Budget = 2
    MaxAttempts = 2
    MaxFaults = 0
INVARIANT FailureIsRecorded
\* A slot's attempts are finite: after the last one nothing happens any more.
CHECK_DEADLOCK FALSE
