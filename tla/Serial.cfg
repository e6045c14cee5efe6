\* One request at a time, any of which may fail between two steps, and a clock
\* that may be set back: what the handlers promise when nothing overlaps.
SPECIFICATION Spec
CONSTANTS
    None = None
    Requests = {r1}
    UserIds = {u1}
    SessionIds = {s1, s2, s3}
    Strings <- MCStrings
    Usernames = {"a"}
    Emails = {}
    Normalize <- MCNormalize
    Passwords = {p, q}
    RefreshTtl = 1
    MaxTime = 1
    ClockSetBack = TRUE
    Backend = "postgres"
    Calls = {"register", "login", "refresh", "logout", "logout_all",
             "update_me", "delete_me", "change_password"}
SYMMETRY SessionSymmetry
INVARIANTS
    TypeOK
    SingleUse
    DeleteClosesAll
    ForcedRelogin
PROPERTIES
    ReplacesVerified
CHECK_DEADLOCK TRUE
