SPECIFICATION SearchSpec
CONSTANTS
    Nft = {n1}
    Price = {p1, p2}
    NoPrice = noPrice
    Request = {r1, r2}
    View = {}
    MaxFailures = 0
    MaxRestarts = 1
    MaxDate = 0
    Reindexer = {x1, x2}
    BatchSize = 1
    MaxFaults = 1
INVARIANTS
    IndexShowsCommittedPrices
    ReindexComplete
    IndexAgreesWhenQuiet
SYMMETRY Symmetries
CHECK_DEADLOCK FALSE
