CONSTANTS
    Key = {k1, k2, k3}
    NoKey = NoKey
    NoMeta = NoMeta
    PageSize = {1, 2}
    MaxSize = 3
    Fill = 0
    Visitor = {v1}
    Cleaner = Cleaner
    Clearer = {}
    PageReuse = TRUE
    Restarts = 0
SPECIFICATION Spec
INVARIANTS
    RecordedWithinMaximum
