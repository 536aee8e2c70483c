CONSTANTS
    Name = {admin, n1}
    Admin = admin
    DefaultWord = dw
    Random = {r1, r2}
    Chosen = {w1}
    NoUser = NoUser
    Caller = {c1, c2}
    Crashes = 2
SPECIFICATION Spec
INVARIANTS
    IInv
    StartNeverRefused
    WelcomeIsTrue
PROPERTIES
    StaysWithinReach
    DeletionSticks
