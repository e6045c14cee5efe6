\* change_password, logout_all and delete_me against login and refresh: what
\* outlives the forced re-login of an account, its deletion, and any revoke_all.
SPECIFICATION Spec
CONSTANTS
    None = None
    Requests = {r1, r2}
    UserIds = {u1}
    SessionIds = {s1, s2}
    Strings <- MCStrings
    Usernames = {"a"}
    Emails = {}
    Normalize <- MCNormalize
    Passwords = {p, q}
    RefreshTtl = 1
    MaxTime = 0
    ClockSetBack = FALSE
    Backend = "postgres"
    Calls = {"register", "login", "refresh", "logout_all",
             "change_password", "delete_me"}
SYMMETRY PasswordSymmetry
INVARIANTS
    OnlyOverlapSurvives
    OnlyOverlapOutlives
    NoSessionForDeleted
PROPERTIES
    RevokeAllSweeps
CHECK_DEADLOCK TRUE
