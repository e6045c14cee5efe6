\* A login overlaps a change_password.
SPECIFICATION Spec
CONSTANTS
    None = None
    Requests = {r1, r2}
    UserIds = {u1}
    SessionIds = {s1, s2}
    Strings <- MCStrings
    Usernames = {"a"}
    Emails = {}
    Normalize <- MCNormalize
    Passwords = {p, q}
    RefreshTtl = 1
    MaxTime = 0
    ClockSetBack = FALSE
    Backend = "memory"
    Calls = {"register", "login", "logout", "change_password"}
SYMMETRY Symmetry
INVARIANTS
    ForcedRelogin
CHECK_DEADLOCK TRUE
