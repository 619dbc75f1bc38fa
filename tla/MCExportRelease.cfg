\* Three runs, one release to keep, leases stale after one tick.
SPECIFICATION Spec
CONSTANTS
    Runs <- RunSet
    RELEASE_KEEP_COUNT = 1
    StaleAge = 0
    MaxClock = 1
    None = None
INVARIANTS
    TypeOK
    FinishedRunIsWhole
PROPERTIES
    OnlySpareReleasesGo
\* The runs end.
CHECK_DEADLOCK FALSE
