CONSTANTS
    Second = 1
    NoArg = NoArg
    Infinity = 99
    Request = {r1, r2, r3}
    Url = {u1, u2}
    Question <- Questions
    Offer <- Offers
    Inode = {f1, f2}
    Chunks = 2
    NoUrl = NoUrl
    NoMeta = NoMeta
    NoFile = NoFile
    NoRequest = NoRequest
    MaxAnswers = 2
    MaxTime = 2
SPECIFICATION Spec
SYMMETRY SymProxy
INVARIANTS
    IInv
PROPERTIES
    ServesOnlyWhatItMay
CHECK_DEADLOCK FALSE
