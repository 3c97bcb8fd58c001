SPECIFICATION Spec
CONSTANTS
    Nft = {n1}
    Price = {p1}
    NoPrice = noPrice
    Request = {r1}
    View = {}
    MaxFailures = 0
    MaxRestarts = 0
    MaxDate = 0
INVARIANTS
    CreationAccounting
CHECK_DEADLOCK FALSE
