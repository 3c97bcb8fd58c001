SPECIFICATION SearchSpec
CONSTANTS
    Nft = {n1}
    Price = {p1}
    NoPrice = noPrice
    Request = {r1}
    View = {}
    MaxFailures = 0
    MaxRestarts = 0
    MaxDate = 0
    Reindexer = {x1}
    BatchSize = 1
    MaxFaults = 0
INVARIANTS
    CreatedNftIndexed
CHECK_DEADLOCK FALSE
