----------------------------- MODULE RepoParity -----------------------------
(***************************************************************************)
(* The repository contract (src/repo/mod.rs): the in-memory and the        *)
(* Postgres repositories in lockstep.  Every action makes one call of the  *)
(* ports on both and records what each answers; reads, which change        *)
(* nothing, are compared in every state.                                   *)
(*                                                                         *)
(* Calls come one at a time and refer to ids that earlier calls returned   *)
(* (a user may be soft-deleted by then), as tests/idm_repo_conformance.rs  *)
(* makes them and as a request whose account is deleted meanwhile does.    *)
(* Both sides draw the same ids.                                           *)
(***************************************************************************)
EXTENDS MemoryRepo, PostgresRepo

CONSTANTS UserIds, SessionIds, RoleIds, Usernames, Emails, Hashes, RoleNames,
          Expiry,           \* expires_at of every session
          Times,            \* instants find_active is asked about
          MaxIds            \* bound: ids one find_by_ids asks for

ASSUME NoneAssumption ==
    /\ None \notin UserIds /\ None \notin SessionIds
    /\ None \notin Hashes /\ None \notin RoleNames

VARIABLES memUsers, memSessions, memRoles, memGrants,
          pgUsers, pgSessions, pgRoles, pgGrants,
          answer            \* the last call and both answers

userTables == <<memUsers, pgUsers>>
sessionTables == <<memSessions, pgSessions>>
roleTables == <<memRoles, memGrants, pgRoles, pgGrants>>
vars == <<userTables, sessionTables, roleTables, answer>>

\* ids both sides have handed out
KnownUsers == {u \in UserIds : memUsers[u] # NoUser}
KnownSessions == {s \in SessionIds : Stored(memSessions[s])}
KnownRoles == {g \in RoleIds : memRoles[g] # NoRole}

-----------------------------------------------------------------------------

\* One write of the user port on both sides.
UserCall(op, id, mem, pg) ==
    /\ memUsers' = mem.tab
    /\ pgUsers' = pg.tab
    /\ answer' = [op |-> op, id |-> id, mem |-> mem.ret, pg |-> pg.ret]
    /\ UNCHANGED <<sessionTables, roleTables>>

Create ==
    \E u \in UserIds \ KnownUsers, name \in Usernames,
       email \in Emails \cup {None}, hash \in Hashes :
        UserCall("create", u, MemCreate(memUsers, u, name, email, hash),
                              PgCreate(pgUsers, u, name, email, hash))

Update ==
    \E u \in KnownUsers, name \in Usernames, email \in Emails \cup {None} :
        UserCall("update", u, MemUpdate(memUsers, u, name, email),
                              PgUpdate(pgUsers, u, name, email))

SoftDelete ==
    \E u \in KnownUsers :
        UserCall("soft_delete", u, MemSoftDelete(memUsers, u),
                                   PgSoftDelete(pgUsers, u))

UpdatePassword ==
    \E u \in KnownUsers, hash \in Hashes :
        UserCall("update_password", u, MemUpdatePassword(memUsers, u, hash),
                                       PgUpdatePassword(pgUsers, u, hash))

SessionCall(op, id, mem, pg) ==
    /\ memSessions' = mem.tab
    /\ pgSessions' = pg.tab
    /\ answer' = [op |-> op, id |-> id, mem |-> mem.ret, pg |-> pg.ret]
    /\ UNCHANGED <<userTables, roleTables>>

\* The hash of a fresh random token: s stands for both.
CreateSession ==
    \E s \in SessionIds \ KnownSessions, u \in KnownUsers :
        SessionCall("create_session", s,
                    MemSessionCreate(memSessions, s, u, s, Expiry),
                    PgSessionCreate(pgSessions, s, u, s, Expiry))

Revoke ==
    \E s \in KnownSessions :
        SessionCall("revoke", s, Reply(MemRevoke(memSessions, s), "Ok"),
                                 Reply(PgRevoke(pgSessions, s), "Ok"))

RevokeAll ==
    \E u \in KnownUsers, except \in KnownSessions \cup {None} :
        SessionCall("revoke_all", u,
            Reply(MemRevokeAll(memSessions, u, except), "Ok"),
            Reply(PgRevokeRows(pgSessions, PgRevokeAllRows(pgSessions, u, except)),
                  "Ok"))

\* Both sides draw the same id when they insert.
Upsert ==
    \E name \in RoleNames :
      \E id \in RoleIds \ KnownRoles :
        \E mem \in MemUpsert(memRoles, id, name), pg \in PgUpsert(pgRoles, id, name) :
           /\ memRoles' = mem.tab
           /\ pgRoles' = pg.tab
           /\ answer' = [op |-> "upsert", id |-> id, mem |-> mem.ret, pg |-> pg.ret]
           /\ UNCHANGED <<userTables, sessionTables, memGrants, pgGrants>>

Grant ==
    \E u \in KnownUsers, g \in KnownRoles :
        LET mem == MemGrant(memGrants, u, g)
            pg == PgGrant(pgUsers, pgRoles, pgGrants, u, g)
        IN  /\ memGrants' = mem.tab
            /\ pgGrants' = pg.tab
            /\ answer' = [op |-> "grant", id |-> u, mem |-> mem.ret, pg |-> pg.ret]
            /\ UNCHANGED <<userTables, sessionTables, memRoles, pgRoles>>

Init ==
    /\ memUsers = [u \in UserIds |-> NoUser] /\ pgUsers = memUsers
    /\ memSessions = [s \in SessionIds |-> NoSession] /\ pgSessions = memSessions
    /\ memRoles = [g \in RoleIds |-> NoRole] /\ pgRoles = memRoles
    /\ memGrants = {} /\ pgGrants = {}
    /\ answer = [op |-> "none", id |-> None, mem |-> "Ok", pg |-> "Ok"]

Next ==
    \/ Create \/ Update \/ SoftDelete \/ UpdatePassword
    \/ CreateSession \/ Revoke \/ RevokeAll
    \/ Upsert \/ Grant

Spec == Init /\ [][Next]_vars

-----------------------------------------------------------------------------
(* Properties                                                              *)

Same(op) == answer.op = op => answer.mem = answer.pg

\* No call is answered differently by the two repositories, but two on a
\* soft-deleted account: update with a name another account has taken, and
\* update_password.
AnswersAgree ==
    \/ answer.mem = answer.pg
    \/ /\ answer.op = "update" /\ ~Alive(pgUsers[answer.id])
       /\ answer.mem = "Conflict" /\ answer.pg = "NotFound"
    \/ /\ answer.op = "update_password" /\ ~Alive(pgUsers[answer.id])
       /\ answer.mem = "NotFound" /\ answer.pg = "Ok"

\* After any sequence of calls, every read of one row answers the same on
\* both sides: what the sides wrote differently, no such read can tell.
ReadsAgree ==
    /\ \A x \in Usernames \cup Emails :
         MemFindByIdentifier(memUsers, x) = PgFindByIdentifier(pgUsers, x)
    /\ \A u \in UserIds :
         /\ MemFindById(memUsers, u) = PgFindById(pgUsers, u)
         /\ Alive(memUsers[u]) => memUsers[u] = pgUsers[u]
         /\ MemPasswordHash(memUsers, u) = PgPasswordHash(pgUsers, u)
         /\ MemRolesForUser(memRoles, memGrants, u) =
              PgRolesForUser(pgRoles, pgGrants, u)
    /\ \A s \in SessionIds, t \in Times :
         MemFindActive(memSessions, s, t) = PgFindActive(pgSessions, s, t)

Lists == UNION {[1..n -> UserIds] : n \in 0..MaxIds}

Distinct(list) == \A i, j \in DOMAIN list : list[i] = list[j] => i = j

\* find_by_ids on a list of ids: a list in memory; in Postgres rows, each of
\* them once, in any order
SameUsers(ids) ==
    LET mem == MemFindByIds(memUsers, ids)
    IN  {mem[i] : i \in DOMAIN mem} = PgFindByIds(pgUsers, ids)
SameLength(ids) == Distinct(MemFindByIds(memUsers, ids))

\* the list asks for a user alive on both sides twice
AsksTwice(ids) ==
    \E i, j \in DOMAIN ids : i # j /\ ids[i] = ids[j] /\ Alive(pgUsers[ids[i]])

\* After any sequence of calls find_by_ids answers the same on both sides,
\* whatever ids are asked for and in which order, but that a user asked for
\* twice is answered twice in memory and once in Postgres.
ListsAgree == \A ids \in Lists : SameUsers(ids) /\ (SameLength(ids) \/ AsksTwice(ids))

\* update answers the same on both sides.
UpdateParity == Same("update")

\* update_password answers the same on both sides.
UpdatePasswordParity == Same("update_password")

\* find_by_ids answers the same on both sides, a repeated id as often.
ListsParity == \A ids \in Lists : SameUsers(ids) /\ SameLength(ids)
=============================================================================
