\* Tokens signed on one clock and verified on another, while roles are
\* granted and the account is deleted.
SPECIFICATION TokenSpec
CONSTANTS
    None = None
    Requests = {r1, r2}
    UserIds = {u1}
    SessionIds = {s1, s2}
    Strings <- MCStrings
    Usernames = {"a"}
    Emails = {}
    Normalize <- MCNormalize
    Passwords = {p}
    RefreshTtl = 1
    MaxTime = 4
    ClockSetBack = FALSE
    Backend = "memory"
    Calls = {"register", "login", "delete_me"}
    AccessTtl = 1
    Leeway = 1
    Skew = 1
    Roles = {admin}
SYMMETRY Symmetry
INVARIANTS
    DeletedRunsOut
    RolesCurrent
    AccessWithinSession
CHECK_DEADLOCK TRUE
