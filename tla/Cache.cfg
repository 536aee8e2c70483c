CONSTANTS
    Key = {k1, k2, k3}
    NoKey = NoKey
    NoMeta = NoMeta
    PageSize = {2}
    MaxSize = 3
    Fill = 0
    Visitor = {v1, v2}
    Cleaner = Cleaner
    Clearer = {}
    PageReuse = FALSE
    Restarts = 0
SPECIFICATION Spec
SYMMETRY SymBoth
INVARIANTS
    NeverUndercounts
    RoomInv
    OvershootBounded
