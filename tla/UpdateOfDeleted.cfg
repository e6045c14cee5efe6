\* update of a soft-deleted account under a taken name.
SPECIFICATION Spec
CONSTANTS
    None = None
    UserIds = {u1, u2}
    SessionIds = {s1, s2}
    RoleIds = {g1, g2}
    Usernames = {"a", "a@b"}
    Emails = {"a@b"}
    Hashes = {h1, h2}
    RoleNames = {"admin"}
    Expiry = 1
    Times = {0, 1}
    MaxIds = 3
SYMMETRY Symmetry
INVARIANTS
    UpdateParity
CHECK_DEADLOCK TRUE
