SPECIFICATION FairSpec
CONSTANTS
    User = {u1, u2}
    Actor = {u1}
    Nobody = nobody
    Nft = {n1}
    Wallet = {w1, w2}
    MailList = {m1}
    NoList = noList
    Call = {c1, c2}
    NoDeed = noDeed
    MaxClock = 1
    MaxFaults = 1
    MaxExits = 1
INVARIANTS
    TypeOK
    WalletOnce
    VerifiedByTweet
    InviteesWereMailed
PROPERTIES
    CommunityPromise
    VerdictReachesUser
CHECK_DEADLOCK FALSE
