\* Four archives, three configurations, five posts.
SPECIFICATION FairSpec
CONSTANTS
    Archives <- ArchiveList
    Configs <- ConfigList
    Articles <- ArticleList
    Units <- UnitSet
    Terms <- TermSet
    NoText = NoText
    MaxInt64 = 99
INVARIANTS
    TypeOK
PROPERTIES
    CachedPostsSurvive
    SettlesOnConfiguration
\* When nothing is left to download, to edit or to refresh, every call returns at once.
CHECK_DEADLOCK FALSE
