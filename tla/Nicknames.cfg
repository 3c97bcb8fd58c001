SPECIFICATION Spec
CONSTANTS
    Call = {c1, c2}
    Registered = {}
    Email = {e1, e2}
    Nickname = {nick1}
    Password = {p1}
    Absent = absent
    Offered = {"signup"}
    MaxFields = 1
    MaxFaults = 0
INVARIANTS
    NicknamesDistinct
CHECK_DEADLOCK FALSE
