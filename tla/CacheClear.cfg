CONSTANTS
    Key = {k1, k2}
    NoKey = NoKey
    NoMeta = NoMeta
    PageSize = {1}
    MaxSize = 2
    Fill = 1
    Visitor = {v1}
    Cleaner = Cleaner
    Clearer = {c1}
    PageReuse = FALSE
    Restarts = 1
SPECIFICATION FairSpec
INVARIANTS
    TypeOK
    NeverOvercounts
PROPERTIES
    PagesStayCounted
    CleanerKeepsUp
