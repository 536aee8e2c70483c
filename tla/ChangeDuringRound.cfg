CONSTANTS
    b1 = b1
    b2 = b2
    b3 = b3
    u1 = u1
    u2 = u2
    u3 = u3
    u1x = u1x
    bad = bad
    Nobody = Nobody
    NoUrl = NoUrl
    HC = HC
    BootUrl <- MCBootUrl
    BootLimit <- Limit1
    Parsed <- MCParsed
    Backend = {b1, b2}
    Url = {u1, u2, u3, u1x, bad}
    Boot <- Boot1
    BootCap = 1
    CanFail = {}
    Chooser = {r1}
    Reader = {HC, a1}
    WithBody = {}
    Faulty = {}
    CanLeave = {}
    Admin = {a1}
    AdminOp = {"add", "remove"}
    AdminUrl = {u1, u2}
    MaxReqs = {1}
    Int32Mod = 4
SPECIFICATION FairSpec
CHECK_DEADLOCK FALSE
PROPERTIES
    RoundsGoOn
