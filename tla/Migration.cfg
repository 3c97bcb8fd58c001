SPECIFICATION FairSpec
CONSTANTS
    User = {u1, u2}
    Actor = {}
    Nobody = nobody
    Nft = {n1}
    Wallet = {}
    MailList = {}
    NoList = noList
    Call = {}
    NoDeed = noDeed
    MaxClock = 1
    MaxFaults = 0
    MaxExits = 1
PROPERTIES
    MigrationKeepsBookmarks
CHECK_DEADLOCK FALSE
