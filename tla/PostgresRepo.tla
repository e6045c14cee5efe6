---------------------------- MODULE PostgresRepo ----------------------------
(***************************************************************************)
(* PgUserRepo and PgSessionRepo (src/repo/postgres.rs) over the schema of  *)
(* migrations/0001, at the granularity of one committed statement or       *)
(* transaction.  A write builds the table the statement would leave and    *)
(* the unique indexes accept or refuse it; a WHERE clause that matches no  *)
(* row leaves the table alone.                                             *)
(***************************************************************************)
EXTENDS Repo

-----------------------------------------------------------------------------
(* The partial unique indexes on users *)

UsernameAliveUidx(t) ==
    \A u, v \in DOMAIN t :
        Alive(t[u]) /\ Alive(t[v]) /\ t[u].username = t[v].username => u = v

EmailAliveUidx(t) ==
    \A u, v \in DOMAIN t :
        /\ Alive(t[u]) /\ Alive(t[v])
        /\ t[u].email # None
        /\ t[u].email = t[v].email
        => u = v

\* map_unique: a write the indexes refuse is a Conflict and changes nothing.
PgGuarded(t, written) ==
    IF UsernameAliveUidx(written) /\ EmailAliveUidx(written)
    THEN Reply(written, "Ok")
    ELSE Reply(t, "Conflict")

-----------------------------------------------------------------------------
(* Users *)

\* INSERT users; INSERT user_password; COMMIT, seen at its commit.
PgCreate(t, id, username, email, hash) ==
    PgGuarded(t, [t EXCEPT ![id] = UserRow(username, email, hash)])

PgFindByIdentifierAny(t, identifier) ==                     \* mutant
    {u \in DOMAIN t : /\ t[u].password_hash # None
                      /\ t[u].username = identifier \/ t[u].email = identifier}

\* INNER JOIN user_password: a row without a credential is not found.
PgFindByIdentifier(t, identifier) ==
    {u \in DOMAIN t : /\ t[u].password_hash # None
                      /\ t[u].username = identifier \/ t[u].email = identifier
                      /\ Alive(t[u])}

PgFindById(t, id) == Alive(t[id])

\* WHERE id IN (...): each row once, in no particular order.
PgFindByIds(t, ids) == {u \in DOMAIN t : /\ \E i \in DOMAIN ids : ids[i] = u
                                         /\ Alive(t[u])}

\* WHERE id = $ AND deleted_at IS NULL: no row, no index check.
PgUpdate(t, id, username, email) ==
    IF Alive(t[id])
    THEN PgGuarded(t, [t EXCEPT ![id].username = username, ![id].email = email])
    ELSE Reply(t, "NotFound")

PgSoftDeleteAgain(t, id) ==                                 \* mutant
    Reply([t EXCEPT ![id].status = "deleted"], "Ok")

PgSoftDelete(t, id) ==
    IF Alive(t[id]) THEN Reply([t EXCEPT ![id].status = "deleted"], "Ok")
                    ELSE Reply(t, "NotFound")

\* WHERE user_id = $ only: neither deleted_at nor the row count is looked at.
PgUpdatePassword(t, id, hash) ==
    IF t[id].password_hash = None
    THEN Reply(t, "Ok")
    ELSE Reply([t EXCEPT ![id].password_hash = hash], "Ok")

PgPasswordHash(t, id) == IF Alive(t[id]) THEN t[id].password_hash ELSE None

-----------------------------------------------------------------------------
(* Sessions *)

\* sessions_token_hash_uidx refuses a second row with the same hash; the
\* error is not mapped to Conflict.
PgSessionCreate(t, id, user, token_hash, expires_at) ==
    IF \E s \in DOMAIN t : Stored(t[s]) /\ t[s].token_hash = token_hash
    THEN Reply(t, "Internal")
    ELSE Reply([t EXCEPT ![id] = SessionRow(user, token_hash, expires_at)], "Ok")

PgFindAny(t, token_hash, now) ==                            \* mutant
    {s \in DOMAIN t : /\ t[s].token_hash = token_hash
                      /\ Stored(t[s])
                      /\ t[s].expires_at > now}

PgFindActive(t, token_hash, now) ==
    {s \in DOMAIN t : /\ t[s].token_hash = token_hash
                      /\ Stored(t[s])
                      /\ ~t[s].revoked
                      /\ t[s].expires_at > now}

PgRevokeAgain(t, id) ==                                     \* mutant
    IF Stored(t[id]) /\ t[id].revoked
    THEN [t EXCEPT ![id].revoked = TRUE]
    ELSE t

PgRevoke(t, id) ==
    IF Stored(t[id]) /\ ~t[id].revoked
    THEN [t EXCEPT ![id].revoked = TRUE]
    ELSE t

\* id <> NULL holds of no row.
PgRevokeAllRowsNull(t, user, except) ==                     \* mutant
    {s \in DOMAIN t : /\ t[s].user = user /\ ~t[s].revoked
                      /\ except # None /\ s # except}

\* UPDATE ... WHERE user_id = $ AND revoked_at IS NULL touches many rows.
\* Under READ COMMITTED it selects them from the snapshot taken when it
\* starts and they change, for everyone else, when it commits.
PgRevokeAllRows(t, user, except) ==
    {s \in DOMAIN t : t[s].user = user /\ ~t[s].revoked /\ s # except}

PgRevokeRows(t, rows) ==
    [s \in DOMAIN t |-> IF s \in rows THEN [t[s] EXCEPT !.revoked = TRUE]
                                      ELSE t[s]]

-----------------------------------------------------------------------------
(* Roles                                                                   *)

\* SELECT, then INSERT when it found no row (here with no other upsert
\* between the two); roles_name_alive_uidx guards the insert.
PgUpsert(roles, id, name) ==
    LET selected == {g \in DOMAIN roles : roles[g] = name}
    IN  IF selected # {} THEN {Reply(roles, g) : g \in selected}
                         ELSE {Reply([roles EXCEPT ![id] = name], id)}

\* INSERT ... ON CONFLICT DO NOTHING; the foreign keys want both rows.
PgGrant(users, roles, grants, user, role) ==
    IF users[user] = NoUser \/ roles[role] = NoRole
    THEN Reply(grants, "Internal")
    ELSE Reply(grants \cup {<<user, role>>}, "Ok")

\* user_roles JOIN roles
PgRolesForUser(roles, grants, user) ==
    {roles[pair[2]] : pair \in {p \in grants : p[1] = user}}
=============================================================================
