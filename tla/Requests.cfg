SPECIFICATION Spec
SYMMETRY Symmetries
CONSTANTS
    u1 = u1
    u2 = u2
    u3 = u3
    n1 = n1
    n2 = n2
    n3 = n3
    n4 = n4
    k1 = k1
    k2 = k2
    k3 = k3
    t1 = t1
    t2 = t2
    g1 = g1
    g2 = g2
    admin = admin
    User = {u1, u2, u3}
    Nft = {n1, n2, n3, n4}
    Collection = {k1, k2, k3}
    Tag = {t1, t2}
    Licence = {t1}
    Gram = {g1, g2}
    Call = {c1, c2, c3}
    NoRequest = noRequest
    None = none
    Case <- Cases
    DefaultLimit = 2
    MaxLimit = 3
    BuyersKept = 1
    ProfilesPerPage = 1
    NftsPerPage = 1
    CollectionsPerPage = 1
    HitsPerPage = 4
    MaxFaults = 1
INVARIANTS
    TypeOK
    GuardedRunsAuthenticated
    PublicFieldsAnswered
    ForeignDocsWithheld
    LoaderShowsOneVersion
    CollectionsSound
    PagesAreSlices
    FeedSkipsNothing
    SearchAnswersExactly
    FeedPrefersFitting
CHECK_DEADLOCK FALSE
