SPECIFICATION Spec
CONSTANTS
    Call = {c1, c2, c3}
    Registered = {r1}
    Email = {e1, e2}
    Nickname = {nick1}
    Password = {p1}
    Absent = absent
    Offered = {"signup", "google", "resend", "forgot", "verify", "reset", "update"}
    MaxFields = 1
    MaxFaults = 1
INVARIANTS
    TypeOK
    EmailsDistinct
    SpentCodeTookEffect
    VerifiedByOwnCode
    DoneMeansMailed
    GoogleReturns
SYMMETRY Symmetries
CHECK_DEADLOCK FALSE
