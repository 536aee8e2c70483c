CONSTANTS
    b1 = b1
    b2 = b2
    b3 = b3
    u1 = u1
    u2 = u2
    u3 = u3
    u1x = u1x
    bad = bad
    Nobody = Nobody
    NoUrl = NoUrl
    HC = HC
    BootUrl <- MCBootUrl
    BootLimit <- Limit1
    Parsed <- MCParsed
    Backend = {b1, b2, b3}
    Url = {u1, u2, u3, u1x, bad}
    Boot <- Boot2
    BootCap = 2
    CanFail = {}
    Chooser = {r1, r2}
    Reader = {HC, a1}
    WithBody = {r1}
    Faulty = {b1}
    CanLeave = {r1, r2}
    Admin = {a1}
    AdminOp = {"add", "remove", "list"}
    AdminUrl = {u1, bad}
    MaxReqs = {0, 1}
    Int32Mod = 4
SPECIFICATION Spec
CHECK_DEADLOCK FALSE
INVARIANTS
    TypeOK
    SlotAccounting
    IInv
PROPERTIES
    AdmitsWithinLimits
