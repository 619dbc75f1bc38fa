\* Two workers, page and database errors, crashes, and one lost
\* acknowledgement or lock session.
SPECIFICATION FairSpec
CONSTANTS
    w1 = w1
    w2 = w2
    Workers = {w1, w2}
    Nobody = Nobody
    Sources <- MCSources
    WindowEnd <- MCWindowEnd
    EligibleSets <- AllEligible
    Budget = 2
    MaxAttempts = 2
    MaxFaults = 1
INVARIANTS
    TypeOK
    BudgetRespected
    NoSkippedPage
    RoundRobin
    AllowanceSpent
    ReplayAgrees
PROPERTIES
    CursorNeverGoesBack
    ImplementsJobSlot
    LockIsReleased
\* A slot's attempts are finite: after the last one nothing happens any more.
CHECK_DEADLOCK FALSE
