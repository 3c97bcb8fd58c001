SPECIFICATION SearchSpec
CONSTANTS
    Nft = {n1, n2}
    Price = {p1}
    NoPrice = noPrice
    Request = {r1}
    View = {}
    MaxFailures = 0
    MaxRestarts = 0
    MaxDate = 2
    Reindexer = {x1}
    BatchSize = 1
    MaxFaults = 0
CONSTRAINT DatesDiffer
INVARIANTS
    ReindexIteratesOverAll
CHECK_DEADLOCK FALSE
