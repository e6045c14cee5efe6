\* Three overlapping calls on one account and a pool of two connections.
SPECIFICATION FairSpec
CONSTANTS
    None = None
    Calls = {1, 2, 3}
    Accounts = {u1}
    Identities <- MCIdentities
    a = a
    b = b
    e = e
    RoleNames = {admin}
    Ops = {"create", "update", "soft_delete", "upsert"}
    PoolSize = 2
INVARIANTS
    TypeOK
    NoHalfAccount
PROPERTIES
    ImplementsStore
    EveryCallReturns
CHECK_DEADLOCK FALSE
