SPECIFICATION FairSpec
CONSTANTS
    Nft = {n1}
    Price = {p1, p2}
    NoPrice = noPrice
    Request = {r1, r2}
    View = {v1}
    MaxFailures = 1
    MaxRestarts = 1
    MaxDate = 0
INVARIANTS
    TypeOK
    PriceHistoryAccounting
    HistoryEndsAtPrice
    ThumbnailInBucket
    ViewsCountedOnce
PROPERTIES
    PriceReachesHistory
    ImageReachesThumbnail
CHECK_DEADLOCK FALSE
