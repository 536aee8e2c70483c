CONSTANTS
    Name = {admin, n1}
    Admin = admin
    DefaultWord = dw
    Random = {r1, r2}
    Chosen = {w1}
    NoUser = NoUser
    Caller = {c1, c2}
    Crashes = 1
SPECIFICATION Spec
INVARIANTS
    FirstStartAddsAdmin
