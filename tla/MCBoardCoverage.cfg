\* Pages of two posts; seven arrivals, two mishaps (a failure, a
\* deletion, a single page).
SPECIFICATION FairSpec
CONSTANTS
    FirstBoards <- Boards
    Pinned <- Notices
    Cutoff = 4
    PageSize = 2
    MinPages = 2
    Overlap = 1
    MaxPages = 3
    Share = 2
    Batches <- SevenInTwo
    LastPost = 14
    Deletable <- DeletablePosts
    MaxMishaps = 2
INVARIANTS
    TypeOK
    NoHole
PROPERTIES
    ScanClosesTheGap
    WindowGetsStored
