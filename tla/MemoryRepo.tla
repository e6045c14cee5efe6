----------------------------- MODULE MemoryRepo -----------------------------
(***************************************************************************)
(* InMemoryUserRepo and InMemorySessionRepo (src/repo/memory.rs).  Every   *)
(* method holds its store's mutex from its first to its last access, so    *)
(* each is one atomic function of the table.                               *)
(***************************************************************************)
EXTENDS Repo

-----------------------------------------------------------------------------
(* Users *)

\* The scan both writers make: an alive row other than me holds the name
\* or the (given) e-mail.  create passes None: it excludes no row.
MemTaken(t, me, username, email) ==
    \E u \in DOMAIN t :
        /\ u # me
        /\ Alive(t[u])
        /\ t[u].username = username \/ (email # None /\ t[u].email = email)

MemCreate(t, id, username, email, hash) ==
    IF MemTaken(t, None, username, email)
    THEN Reply(t, "Conflict")
    ELSE Reply([t EXCEPT ![id] = UserRow(username, email, hash)], "Ok")

MemFindByIdentifierAny(t, identifier) ==                    \* mutant
    {u \in DOMAIN t : t[u].username = identifier \/ t[u].email = identifier}

\* The rows the search may return: HashMap iteration order is arbitrary.
MemFindByIdentifier(t, identifier) ==
    {u \in DOMAIN t : /\ Alive(t[u])
                      /\ t[u].username = identifier \/ t[u].email = identifier}

MemFindById(t, id) == Alive(t[id])

MemFindByIdsAny(t, ids) == ids                              \* mutant

\* One answer for each place of ids that names an alive user, in that order:
\* a repeated id is answered as often.
MemFindByIds(t, ids) == [i \in {j \in DOMAIN ids : Alive(t[ids[j]])} |-> ids[i]]

MemUpdateUnchecked(t, id, username, email) ==               \* mutant
    IF ~Alive(t[id]) THEN Reply(t, "NotFound")
    ELSE Reply([t EXCEPT ![id].username = username, ![id].email = email], "Ok")

\* The conflict scan comes before the existence check.
MemUpdate(t, id, username, email) ==
    IF MemTaken(t, id, username, email) THEN Reply(t, "Conflict")
    ELSE IF ~Alive(t[id]) THEN Reply(t, "NotFound")
    ELSE Reply([t EXCEPT ![id].username = username, ![id].email = email], "Ok")

MemSoftDelete(t, id) ==
    IF Alive(t[id]) THEN Reply([t EXCEPT ![id].status = "deleted"], "Ok")
                    ELSE Reply(t, "NotFound")

MemUpdatePassword(t, id, hash) ==
    IF Alive(t[id]) THEN Reply([t EXCEPT ![id].password_hash = hash], "Ok")
                    ELSE Reply(t, "NotFound")

MemPasswordHash(t, id) == IF Alive(t[id]) THEN t[id].password_hash ELSE None

-----------------------------------------------------------------------------
(* Sessions *)

MemSessionCreate(t, id, user, token_hash, expires_at) ==
    Reply([t EXCEPT ![id] = SessionRow(user, token_hash, expires_at)], "Ok")

MemFindActive(t, token_hash, now) ==
    {s \in DOMAIN t : /\ Stored(t[s])
                      /\ t[s].token_hash = token_hash
                      /\ ~t[s].revoked
                      /\ t[s].expires_at > now}

MemRevoke(t, id) ==
    IF Stored(t[id]) THEN [t EXCEPT ![id].revoked = TRUE] ELSE t

MemRevokeAllExceptNone(t, user, except) ==                  \* mutant
    [s \in DOMAIN t |-> IF t[s].user = user
                        THEN [t[s] EXCEPT !.revoked = TRUE]
                        ELSE t[s]]

MemRevokeAll(t, user, except) ==
    [s \in DOMAIN t |-> IF t[s].user = user /\ s # except
                        THEN [t[s] EXCEPT !.revoked = TRUE]
                        ELSE t[s]]

-----------------------------------------------------------------------------
(* Roles: a table of names and a set of grants <<user, role>>              *)

\* The ids upsert may answer: the one that has the name, else a fresh one.
MemUpsert(roles, id, name) ==
    IF \E g \in DOMAIN roles : roles[g] = name
    THEN {Reply(roles, g) : g \in {h \in DOMAIN roles : roles[h] = name}}
    ELSE {Reply([roles EXCEPT ![id] = name], id)}

MemGrant(grants, user, role) == Reply(grants \cup {<<user, role>>}, "Ok")

MemRolesForUser(roles, grants, user) ==
    {roles[g] : g \in {h \in DOMAIN roles : <<user, h>> \in grants}} \ {NoRole}
=============================================================================
