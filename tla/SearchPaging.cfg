SPECIFICATION FairSearchSpec
CONSTANTS
    Nft = {n1, n2}
    Price = {}
    NoPrice = noPrice
    Request = {}
    View = {v1}
    MaxFailures = 0
    MaxRestarts = 0
    MaxDate = 2
    Reindexer = {x1}
    BatchSize = 1
    MaxFaults = 0
INVARIANTS
    SearchTypeOK
    ReindexComplete
PROPERTIES
    ReindexEnds
CHECK_DEADLOCK FALSE
