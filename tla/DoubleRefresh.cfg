\* Two refreshes of one token overlap.
SPECIFICATION Spec
CONSTANTS
    None = None
    Requests = {r1, r2}
    UserIds = {u1}
    SessionIds = {s1, s2, s3}
    Strings <- MCStrings
    Usernames = {"a"}
    Emails = {}
    Normalize <- MCNormalize
    Passwords = {p}
    RefreshTtl = 1
    MaxTime = 0
    ClockSetBack = FALSE
    Backend = "memory"
    Calls = {"register", "refresh"}
SYMMETRY Symmetry
INVARIANTS
    SingleUse
CHECK_DEADLOCK TRUE
