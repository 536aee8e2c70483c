CONSTANTS
    b1 = b1
    b2 = b2
    b3 = b3
    b4 = b4
    u1 = u1
    u2 = u2
    Backend = {b1, b2, b3, b4}
    Url = {u1, u2}
    NoUrl = NoUrl
    Boot <- MCBoot
    BootUrl <- MCBootUrl
    BootLimit <- MCBootLimit
    BootCap = 4
    CanFail = {}
    Nobody = Nobody
    Chooser = {c1, c2}
    Reader = {}
SPECIFICATION Spec
INVARIANTS
    IInv
    RoundRobinFair
    NoFalseRefusal
