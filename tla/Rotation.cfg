\* Refresh rotation against login and logout: one account, two requests.
SPECIFICATION Spec
CONSTANTS
    None = None
    Requests = {r1, r2}
    UserIds = {u1}
    SessionIds = {s1, s2, s3}
    Strings <- MCStrings
    Usernames = {"a"}
    Emails = {}
    Normalize <- MCNormalize
    Passwords = {p}
    RefreshTtl = 1
    MaxTime = 1
    ClockSetBack = FALSE
    Backend = "postgres"
    Calls = {"register", "login", "refresh", "logout"}
SYMMETRY Symmetry
INVARIANTS
    SuccessorImpliesSpent
    OneSuccessorPerRequest
    LogoutSticks
PROPERTIES
    ImplementsSessions
CHECK_DEADLOCK TRUE
