\* Two collectors for seven reads, two reviewers, the ranking.
SPECIFICATION FairSpec
CONSTANTS
    Posts <- PostSet
    Titles <- TitleSet
    Overlong <- TooLong
    Kind <- KindOf
    History <- Versions
    Interval = 6
    SlotMinute = 10
    Collectors = {c1, c2}
    Reviewers = {v1, v2}
    Nobody = nobody
    Reads <- ReadList
    Matches <- RulesOf
    Threshold = 70
    Slots <- SlotSet
    Ranked <- RankedSlots
    Window = 129600
    TopN = 1
INVARIANTS
    TypeOK
    PostConverges
    SnapshotConverges
    PublishedOnItsDay
    TitlesAreScanned
    NoWriterDeadlock
    WorkIsQueued
PROPERTIES
    ReviewIsFinal
    UnreleasedPostLeavesRanking
