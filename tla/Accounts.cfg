\* The in-memory repositories: two accounts that register, rename, refresh and
\* delete, under names that differ from what normalize makes of them.
SPECIFICATION Spec
CONSTANTS
    None = None
    Requests = {r1, r2}
    UserIds = {u1, u2}
    SessionIds = {s1, s2, s3}
    Strings <- MCStrings
    Usernames = {" A", "b"}
    Emails = {"a@b"}
    Normalize <- MCNormalize
    Passwords = {p}
    RefreshTtl = 1
    MaxTime = 0
    ClockSetBack = FALSE
    Backend = "memory"
    Calls = {"register", "refresh", "update_me", "delete_me"}
SYMMETRY AccountSymmetry
INVARIANTS
    UniqueIdentifiers
    LoginFindsAccount
    NoSessionForDeleted
CHECK_DEADLOCK TRUE
