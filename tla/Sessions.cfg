SPECIFICATION Spec
CONSTANTS
    User = {u1}
    Admin = {a1}
    Call = {c1, c2, c3}
    NoToken = noToken
    RefreshLife = 2
    MaxTime = 2
    MaxRestarts = 1
INVARIANTS
    TypeOK
    LoneClientKeepsSession
    NoOrphanSession
    SupersededStaysDead
PROPERTIES
    ReplacedTokenRefused
CHECK_DEADLOCK FALSE
