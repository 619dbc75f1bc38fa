\* Three posts arrive, and one of them is deleted when a scan has passed its page.
SPECIFICATION Spec
CONSTANTS
    FirstBoards <- LongBoard
    Pinned <- Notices
    Cutoff = 4
    PageSize = 2
    MinPages = 2
    Overlap = 1
    MaxPages = 3
    Share = 2
    Batches <- Three
    LastPost = 10
    Deletable <- DeletablePosts
    MaxMishaps = 1
PROPERTY NoFalseBoundary
