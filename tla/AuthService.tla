---------------------------- MODULE AuthService ----------------------------
(***************************************************************************)
(* AuthService (src/service.rs): every request that writes, running        *)
(* concurrently over one user store and one session store.                 *)
(*                                                                         *)
(* A request is a slot r \in Requests.  A Call... action starts a handler  *)
(* in an idle slot; each later action is one repository call or one        *)
(* awaited computation of that handler, atomic in itself, so that          *)
(* everything the code may interleave between two awaits interleaves here. *)
(* Which step follows which is the table Handler.  Answering, with Ok or   *)
(* with an error, idles the slot; Drop is the request ending at an await   *)
(* (an error from the port, or its future dropped).                        *)
(***************************************************************************)
EXTENDS MemoryRepo, PostgresRepo

CONSTANTS
    Requests,           \* slots: the number of requests in flight at once
    UserIds,            \* ids Uuid::now_v7 may draw for users
    SessionIds,         \* and for sessions; names a session's refresh token too
    Strings,            \* identifiers, raw and normalized
    Usernames,          \* raw usernames callers send
    Emails,             \* raw e-mails callers send
    Normalize,          \* trim + to_lowercase, as a function on Strings
    Passwords,          \* plain passwords
    RefreshTtl,         \* refresh_ttl_secs
    MaxTime,            \* bound of the model: the clock stops there
    ClockSetBack,       \* the system clock may be set back
    Backend,            \* which repositories are plugged in
    Calls               \* the handlers callers use

CallNames == {"register", "login", "refresh", "logout", "logout_all",
              "update_me", "delete_me", "change_password"}

\* A PHC string is self-describing: it holds what verify compares with.
Phc(plain) == [phc |-> plain]
Hashes == {Phc(p) : p \in Passwords}

PlainHash(plain) == plain                                   \* mutant
HashPassword(plain) == Phc(plain)
VerifyPassword(plain, phc) == phc = Phc(plain)

\* SHA-256 of a refresh token, taken as injective.
HashRefresh(token) == [sha256 |-> token]

ASSUME BackendAssumption == Backend \in {"memory", "postgres"}
ASSUME CallsAssumption == Calls \subseteq CallNames
ASSUME TimeAssumption ==
    RefreshTtl \in Nat /\ MaxTime \in Nat /\ ClockSetBack \in BOOLEAN
ASSUME StringsAssumption ==
    /\ Usernames \subseteq Strings /\ Emails \subseteq Strings
    /\ Normalize \in [Strings -> Strings]
    /\ \A x \in Strings : Normalize[Normalize[x]] = Normalize[x]
ASSUME NoneAssumption ==
    /\ None \notin Requests /\ None \notin UserIds /\ None \notin SessionIds
    /\ None \notin Strings /\ None \notin Passwords /\ None \notin Hashes
    /\ \A s \in SessionIds : HashRefresh(s) # None

VARIABLES
    users,              \* the user store
    sessions,           \* the session store
    now,                \* Clock::now
    held,               \* refresh tokens some client was answered with
    req,                \* the local state of each request
    (* history, read by no action's guard *)
    lineage,            \* what each session was issued from
    settled,            \* no change_password of the user is unfinished
    closed              \* tokens whose logout answered Ok

stores == <<users, sessions>>
history == <<lineage, settled, closed>>
vars == <<users, sessions, now, held, req, lineage, settled, closed>>

-----------------------------------------------------------------------------
(* The handlers: the step each step is followed by.                        *)

\* Mutants of the tables: a handler that forgets or swaps a step.
RefreshKeepsOld == [Begin |-> "FindActive", FindActive |-> "FindById",
                    FindById |-> "Issue"]
RefreshAnyOwner == [Begin |-> "FindActive", FindActive |-> "Revoke",
                    Revoke |-> "Issue"]
DeleteMeFirst == [Begin |-> "PasswordHash", PasswordHash |-> "Verify",
                  Verify |-> "SoftDelete", SoftDelete |-> "RevokeAll",
                  RevokeAll |-> "Return"]
ChangePasswordLast == [Begin |-> "PasswordHash", PasswordHash |-> "Verify",
                       Verify |-> "RevokeAll", RevokeAll |-> "UpdatePassword",
                       UpdatePassword |-> "Return"]
ChangePasswordOnly == [Begin |-> "PasswordHash", PasswordHash |-> "Verify",
                       Verify |-> "UpdatePassword", UpdatePassword |-> "Return"]
ChangePasswordUnverified ==
    [Begin |-> "PasswordHash", PasswordHash |-> "UpdatePassword",
     UpdatePassword |-> "RevokeAll", RevokeAll |-> "Return"]

Register == [Begin |-> "Create", Create |-> "Issue"]
Login == [Begin |-> "FindByIdentifier", FindByIdentifier |-> "Verify",
          Verify |-> "Issue"]
Refresh == [Begin |-> "FindActive", FindActive |-> "Revoke",
            Revoke |-> "FindById", FindById |-> "Issue"]
Logout == [Begin |-> "FindActive", FindActive |-> "Revoke", Revoke |-> "Return"]
LogoutAll == [Begin |-> "RevokeAll", RevokeAll |-> "Return"]
UpdateMe == [Begin |-> "Update", Update |-> "Return"]
DeleteMe == [Begin |-> "PasswordHash", PasswordHash |-> "Verify",
             Verify |-> "RevokeAll", RevokeAll |-> "SoftDelete",
             SoftDelete |-> "Return"]
ChangePassword == [Begin |-> "PasswordHash", PasswordHash |-> "Verify",
                   Verify |-> "UpdatePassword", UpdatePassword |-> "RevokeAll",
                   RevokeAll |-> "Return"]

Handler == [register |-> Register, login |-> Login, refresh |-> Refresh,
            logout |-> Logout, logout_all |-> LogoutAll,
            update_me |-> UpdateMe, delete_me |-> DeleteMe,
            change_password |-> ChangePassword]

\* the tail register, login and refresh share
IssueSession == [Issue |-> "CreateSession", CreateSession |-> "Sign",
                 Sign |-> "Return"]

After(op, step) == IF step \in DOMAIN IssueSession THEN IssueSession[step]
                                                   ELSE Handler[op][step]

Steps == {"Idle", "Create", "FindByIdentifier", "Verify", "FindActive",
          "Revoke", "FindById", "RevokeAll", "RevokeAllCommit", "Update",
          "PasswordHash", "UpdatePassword", "SoftDelete", "Issue",
          "CreateSession", "Sign"}

-----------------------------------------------------------------------------
(* The local state of a request                                            *)

Idle == [op |-> None, pc |-> "Idle",
         name |-> None, email |-> None,    \* normalized input
         password |-> None,                \* plain input to verify
         next |-> None,                    \* hash to be stored
         token |-> None,                   \* refresh token presented
         user |-> None, hash |-> None,     \* user and credential read
         session |-> None, at |-> 0,       \* session worked on, instant read
         rows |-> {},                      \* rows an UPDATE has selected
         (* history *)
         gone |-> {},                      \* accounts deleted before the call
         late |-> FALSE,                   \* overlapped a revoke_all of user
         closing |-> FALSE]                \* read user while it was Closing

At(r, step) == req[r].pc = step

\* a request goes on with local state l from the given step, or answers Ok
\* after it
Moved(step, l) ==
    IF After(l.op, step) = "Return" THEN Idle
                                    ELSE [l EXCEPT !.pc = After(l.op, step)]
Continue(r, step, l) == req' = [req EXCEPT ![r] = Moved(step, l)]
Answer(r) == req' = [req EXCEPT ![r] = Idle]

\* the step is the last of r's change_password
Completes(r, step) ==
    req[r].op = "change_password" /\ After(req[r].op, step) = "Return"

Deleted == {u \in UserIds : users[u].status = "deleted"}

\* an UPDATE that revokes u's sessions has selected its rows, not committed
RevokeAllOpen(u) ==
    \E q \in Requests : At(q, "RevokeAllCommit") /\ req[q].user = u

\* a delete_me of u has revoked its sessions, not deleted it yet
Closing(u) == \E q \in Requests : At(q, "SoftDelete") /\ req[q].user = u

-----------------------------------------------------------------------------
(* Calls                                                                   *)

\* Model bounds: a call that will store a row is made only while an id is
\* left for it beside those of the calls in flight, so that none of them
\* waits for one.
SpareSession ==
    Cardinality({s \in SessionIds : ~Stored(sessions[s])}) >
      Cardinality({q \in Requests : req[q].op \in {"register", "login", "refresh"}})
SpareUser ==
    Cardinality({u \in UserIds : users[u] = NoUser}) >
      Cardinality({q \in Requests : At(q, "Create")})

Begin(r, op, input) ==
    /\ op \in Calls
    /\ At(r, "Idle")
    /\ req' = [req EXCEPT ![r] = [input EXCEPT !.op = op,
                                               !.pc = Handler[op]["Begin"],
                                               !.gone = Deleted]]
    /\ UNCHANGED <<users, sessions, now, held, lineage, settled, closed>>

Normalized(email) == IF email = None THEN None ELSE Normalize[email]

CallRegister(r) ==
    /\ SpareSession /\ SpareUser
    /\ \E name \in Usernames, email \in Emails \cup {None}, p \in Passwords :
         Begin(r, "register", [Idle EXCEPT !.name = Normalize[name],
                                           !.email = Normalized(email),
                                           !.hash = HashPassword(p)])

CallLogin(r) ==
    /\ SpareSession
    /\ \E identifier \in Usernames \cup Emails, p \in Passwords :
         Begin(r, "login", [Idle EXCEPT !.name = Normalize[identifier],
                                        !.password = p])

\* A client presents a token it was answered with, or one nobody issued.
CallRefresh(r) ==
    \E token \in held \cup {None} :
        /\ token = None \/ SpareSession
        /\ Begin(r, "refresh", [Idle EXCEPT !.token = token, !.at = now])

CallLogout(r) ==
    \E token \in held \cup {None} :
        Begin(r, "logout", [Idle EXCEPT !.token = token, !.at = now])

\* user_id comes from an access token, which is answered together with a
\* refresh token and outlives its session and its account.
Authenticated == {sessions[s].user : s \in held}

CallLogoutAll(r) ==
    \E u \in Authenticated : Begin(r, "logout_all", [Idle EXCEPT !.user = u])

CallUpdateMeRaw(r) ==                                       \* mutant
    \E u \in Authenticated, name \in Usernames, email \in Emails \cup {None} :
        Begin(r, "update_me", [Idle EXCEPT !.user = u, !.name = name,
                                           !.email = Normalized(email)])
CallUpdateMe(r) ==
    \E u \in Authenticated, name \in Usernames, email \in Emails \cup {None} :
        Begin(r, "update_me", [Idle EXCEPT !.user = u,
                                           !.name = Normalize[name],
                                           !.email = Normalized(email)])

CallDeleteMe(r) ==
    \E u \in Authenticated, p \in Passwords :
        Begin(r, "delete_me", [Idle EXCEPT !.user = u, !.password = p])

\* The new password is hashed after the old one is verified; the hash is
\* local to the request, so it is computed here.
CallChangePassword(r) ==
    \E u \in Authenticated, p, new \in Passwords :
        Begin(r, "change_password", [Idle EXCEPT !.user = u, !.password = p,
                                                 !.next = HashPassword(new)])

-----------------------------------------------------------------------------
(* The repositories plugged in                                             *)

Memory == Backend = "memory"

RepoCreate(id, name, email, hash) ==
    IF Memory THEN MemCreate(users, id, name, email, hash)
              ELSE PgCreate(users, id, name, email, hash)
RepoFindByIdentifier(name) ==
    IF Memory THEN MemFindByIdentifier(users, name)
              ELSE PgFindByIdentifier(users, name)
RepoFindById(id) ==
    IF Memory THEN MemFindById(users, id) ELSE PgFindById(users, id)
RepoUpdate(id, name, email) ==
    IF Memory THEN MemUpdate(users, id, name, email)
              ELSE PgUpdate(users, id, name, email)
RepoSoftDelete(id) ==
    IF Memory THEN MemSoftDelete(users, id) ELSE PgSoftDelete(users, id)
RepoUpdatePassword(id, hash) ==
    IF Memory THEN MemUpdatePassword(users, id, hash)
              ELSE PgUpdatePassword(users, id, hash)
RepoPasswordHash(id) ==
    IF Memory THEN MemPasswordHash(users, id) ELSE PgPasswordHash(users, id)
RepoSessionCreate(id, user, token_hash, expires_at) ==
    IF Memory THEN MemSessionCreate(sessions, id, user, token_hash, expires_at)
              ELSE PgSessionCreate(sessions, id, user, token_hash, expires_at)
RepoFindActive(token_hash, at) ==
    IF Memory THEN MemFindActive(sessions, token_hash, at)
              ELSE PgFindActive(sessions, token_hash, at)
RepoRevoke(id) ==
    IF Memory THEN MemRevoke(sessions, id) ELSE PgRevoke(sessions, id)

-----------------------------------------------------------------------------
(* Steps that touch the user store                                         *)

Create(r) ==
    /\ At(r, "Create")
    /\ \E id \in UserIds :
         LET l == req[r]
             reply == RepoCreate(id, l.name, l.email, l.hash)
         IN  /\ users[id] = NoUser
             /\ users' = reply.tab
             /\ \/ /\ reply.ret = "Ok"
                   /\ Continue(r, "Create", [l EXCEPT !.user = id])
                \/ reply.ret # "Ok" /\ Answer(r)
    /\ UNCHANGED <<sessions, now, held, history>>

FindByIdentifier(r) ==
    /\ At(r, "FindByIdentifier")
    /\ LET found == RepoFindByIdentifier(req[r].name)
       IN  \/ found = {} /\ Answer(r)
           \/ \E u \in found :
                Continue(r, "FindByIdentifier",
                         [req[r] EXCEPT !.user = u,
                                        !.hash = users[u].password_hash,
                                        !.late = RevokeAllOpen(u),
                                        !.closing = Closing(u)])
    /\ UNCHANGED <<stores, now, held, history>>

PasswordHash(r) ==
    /\ At(r, "PasswordHash")
    /\ LET hash == RepoPasswordHash(req[r].user)
       IN  \/ hash = None /\ Answer(r)
           \/ /\ hash # None
              /\ Continue(r, "PasswordHash", [req[r] EXCEPT !.hash = hash])
    /\ UNCHANGED <<stores, now, held, history>>

Verify(r) ==
    /\ At(r, "Verify")
    /\ \/ /\ VerifyPassword(req[r].password, req[r].hash)
          /\ Continue(r, "Verify", req[r])
       \/ ~VerifyPassword(req[r].password, req[r].hash) /\ Answer(r)
    /\ UNCHANGED <<stores, now, held, history>>

FindById(r) ==
    /\ At(r, "FindById")
    /\ \/ RepoFindById(req[r].user) /\ Continue(r, "FindById", req[r])
       \/ ~RepoFindById(req[r].user) /\ Answer(r)
    /\ UNCHANGED <<stores, now, held, history>>

\* The roles read that follows only shapes the answer.
Update(r) ==
    /\ At(r, "Update")
    /\ LET reply == RepoUpdate(req[r].user, req[r].name, req[r].email)
       IN  users' = reply.tab
    /\ Answer(r)
    /\ UNCHANGED <<sessions, now, held, history>>

UpdatePassword(r) ==
    /\ At(r, "UpdatePassword")
    /\ LET u == req[r].user
           reply == RepoUpdatePassword(u, req[r].next)
       IN  /\ users' = reply.tab
           /\ \/ /\ reply.ret = "Ok"
                 /\ Continue(r, "UpdatePassword", req[r])
                 /\ settled' = [settled EXCEPT
                                  ![u] = Completes(r, "UpdatePassword")]
              \/ reply.ret # "Ok" /\ Answer(r) /\ UNCHANGED settled
    /\ UNCHANGED <<sessions, now, held, lineage, closed>>

SoftDelete(r) ==
    /\ At(r, "SoftDelete")
    /\ LET reply == RepoSoftDelete(req[r].user)
       IN  /\ users' = reply.tab
           /\ \/ reply.ret = "Ok" /\ Continue(r, "SoftDelete", req[r])
              \/ reply.ret # "Ok" /\ Answer(r)
    /\ UNCHANGED <<sessions, now, held, history>>

-----------------------------------------------------------------------------
(* Steps that touch the session store                                      *)

ClosedBy(l) == IF l.op = "logout" THEN closed \cup ({l.token} \ {None})
                                  ELSE closed

\* the session itself, or its reading, overlaps a revoke_all
OpenedLate(s) == lineage[s].late \/ RevokeAllOpen(sessions[s].user)

\* A token whose session is not found: refresh answers Unauthorized, logout
\* answers Ok.
FindActive(r) ==
    /\ At(r, "FindActive")
    /\ LET l == req[r]
           found == RepoFindActive(HashRefresh(l.token), l.at)
       IN  \/ /\ found = {}
              /\ Answer(r)
              /\ closed' = ClosedBy(l)
           \/ /\ \E s \in found :
                   Continue(r, "FindActive",
                     [l EXCEPT !.session = s,
                               !.user = sessions[s].user,
                               !.hash = lineage[s].cred,
                               !.late = OpenedLate(s),
                               !.closing = lineage[s].closing])
              /\ UNCHANGED closed
    /\ UNCHANGED <<stores, now, held, lineage, settled>>

Revoke(r) ==
    /\ At(r, "Revoke")
    /\ sessions' = RepoRevoke(req[r].session)
    /\ Continue(r, "Revoke", req[r])
    /\ closed' = ClosedBy(req[r])
    /\ UNCHANGED <<users, now, held, lineage, settled>>

\* requests that hold u when its sessions are revoked
Overlapped(u) == {q \in Requests : req[q].user = u}

MarkLate(r, u, l) ==
    req' = [q \in Requests |->
              IF q = r THEN l
              ELSE IF q \in Overlapped(u) THEN [req[q] EXCEPT !.late = TRUE]
              ELSE req[q]]

RevokeAll(r) ==
    /\ At(r, "RevokeAll")
    /\ LET l == req[r]
       IN  \/ /\ Memory
              /\ sessions' = MemRevokeAll(sessions, l.user, None)
              /\ MarkLate(r, l.user, Moved("RevokeAll", l))
              /\ settled' = [settled EXCEPT
                               ![l.user] = @ \/ Completes(r, "RevokeAll")]
           \/ /\ ~Memory
              /\ MarkLate(r, l.user,
                          [l EXCEPT !.pc = "RevokeAllCommit",
                                    !.rows = PgRevokeAllRows(sessions, l.user, None)])
              /\ UNCHANGED <<sessions, settled>>
    /\ UNCHANGED <<users, now, held, lineage, closed>>

RevokeAllCommit(r) ==
    /\ At(r, "RevokeAllCommit")
    /\ LET l == req[r]
       IN  /\ sessions' = PgRevokeRows(sessions, l.rows)
           /\ MarkLate(r, l.user, Moved("RevokeAll", [l EXCEPT !.rows = {}]))
           /\ settled' = [settled EXCEPT
                            ![l.user] = @ \/ Completes(r, "RevokeAll")]
    /\ UNCHANGED <<users, now, held, lineage, closed>>

-----------------------------------------------------------------------------
(* issue_session                                                           *)

\* Reads the clock; the roles read only shapes the claims.
Issue(r) ==
    /\ At(r, "Issue")
    /\ Continue(r, "Issue", [req[r] EXCEPT !.at = now])
    /\ UNCHANGED <<stores, now, held, history>>

\* generate_refresh draws 32 random bytes: a token no session has yet, which
\* the unique index of either store accepts.
CreateSession(r) ==
    /\ At(r, "CreateSession")
    /\ \E s \in SessionIds :
         LET l == req[r]
             reply == RepoSessionCreate(s, l.user, HashRefresh(s), l.at + RefreshTtl)
         IN  /\ ~Stored(sessions[s])
             /\ reply.ret = "Ok"
             /\ sessions' = reply.tab
             /\ Continue(r, "CreateSession", [l EXCEPT !.session = s])
             /\ lineage' = [lineage EXCEPT
                              ![s] = [from |-> l.session, by |-> r,
                                      cred |-> l.hash, late |-> l.late,
                                      closing |-> l.closing]]
    /\ UNCHANGED <<users, now, held, settled, closed>>

Sign(r) ==
    /\ At(r, "Sign")
    /\ held' = held \cup {req[r].session}
    /\ Continue(r, "Sign", req[r])
    /\ UNCHANGED <<stores, now, history>>

-----------------------------------------------------------------------------
(* The environment                                                         *)

\* Steps before which a request has awaited a hashing task, or computed an
\* expiry that may leave the calendar (a panic), or whose port may fail
\* whatever the repositories are.
CanFail == {"Create", "Verify", "UpdatePassword", "CreateSession", "Sign"}

\* A port's error ends the request with Internal; a dropped future ends it
\* with no answer.  Every Postgres call can do both.
Drop(r) ==
    /\ ~At(r, "Idle")
    /\ Memory => req[r].pc \in CanFail
    /\ Answer(r)
    /\ UNCHANGED <<stores, now, held, history>>

Tick ==
    /\ now < MaxTime
    /\ now' = now + 1
    /\ UNCHANGED <<stores, held, req, history>>

\* SystemClock is the wall clock, which is not monotonic.
SetBack ==
    /\ ClockSetBack
    /\ now > 0
    /\ now' = now - 1
    /\ UNCHANGED <<stores, held, req, history>>

-----------------------------------------------------------------------------

NoLineage == [from |-> None, by |-> None, cred |-> None, late |-> FALSE,
              closing |-> FALSE]

Init ==
    /\ users = [u \in UserIds |-> NoUser]
    /\ sessions = [s \in SessionIds |-> NoSession]
    /\ now = 0
    /\ held = {}
    /\ req = [r \in Requests |-> Idle]
    /\ lineage = [s \in SessionIds |-> NoLineage]
    /\ settled = [u \in UserIds |-> TRUE]
    /\ closed = {}

Call(r) ==
    \/ CallRegister(r) \/ CallLogin(r) \/ CallRefresh(r) \/ CallLogout(r)
    \/ CallLogoutAll(r) \/ CallUpdateMe(r) \/ CallDeleteMe(r)
    \/ CallChangePassword(r)

UserStep(r) ==
    \/ Create(r) \/ FindByIdentifier(r) \/ PasswordHash(r) \/ Verify(r)
    \/ FindById(r) \/ Update(r) \/ UpdatePassword(r) \/ SoftDelete(r)

SessionStep(r) ==
    \/ FindActive(r) \/ Revoke(r) \/ RevokeAll(r) \/ RevokeAllCommit(r)
    \/ Issue(r) \/ CreateSession(r) \/ Sign(r)

Next ==
    \/ \E r \in Requests : Call(r) \/ UserStep(r) \/ SessionStep(r) \/ Drop(r)
    \/ Tick \/ SetBack

Spec == Init /\ [][Next]_vars

-----------------------------------------------------------------------------
(* Properties                                                              *)

Opt(S) == S \cup {None}

UserRows == [status: {"absent", "alive", "deleted"}, username: Opt(Strings),
             email: Opt(Strings), password_hash: Opt(Hashes)]
SessionRows == [user: Opt(UserIds),
                token_hash: Opt({HashRefresh(s) : s \in SessionIds}),
                expires_at: Nat, revoked: BOOLEAN]
LocalStates == [op: Opt(CallNames), pc: Steps, name: Opt(Strings),
                email: Opt(Strings), password: Opt(Passwords),
                next: Opt(Hashes), token: Opt(SessionIds), user: Opt(UserIds),
                hash: Opt(Hashes), session: Opt(SessionIds), at: Nat,
                rows: SUBSET SessionIds, gone: SUBSET UserIds, late: BOOLEAN,
                closing: BOOLEAN]
Lineages == [from: Opt(SessionIds), by: Opt(Requests), cred: Opt(Hashes),
             late: BOOLEAN, closing: BOOLEAN]

\* Every variable has its type.
TypeOK ==
    /\ users \in [UserIds -> UserRows]
    /\ sessions \in [SessionIds -> SessionRows]
    /\ now \in Nat
    /\ held \in SUBSET SessionIds
    /\ req \in [Requests -> LocalStates]
    /\ lineage \in [SessionIds -> Lineages]
    /\ settled \in [UserIds -> BOOLEAN]
    /\ closed \in SUBSET SessionIds

Live(s) == /\ Stored(sessions[s])
           /\ ~sessions[s].revoked
           /\ now < sessions[s].expires_at

\* s was issued by a refresh of token t
Succeeds(s, t) == Stored(sessions[s]) /\ lineage[s].from = t /\ t # None

\* Alive accounts differ in username and in e-mail even up to case and
\* surrounding blanks, through any interleaving of register, update_me and
\* delete_me: normalize feeds the uniqueness checks on every path.
UniqueIdentifiers ==
    \A u, v \in UserIds :
        Alive(users[u]) /\ Alive(users[v]) /\ u # v =>
          /\ Normalize[users[u].username] # Normalize[users[v].username]
          /\ users[u].email # None /\ users[v].email # None =>
               Normalize[users[u].email] # Normalize[users[v].email]

\* Login finds an alive account under its username and under its e-mail, once
\* login has normalized them: also if register failed after it committed the
\* account, and after any renaming. (Not that it finds no other: a username
\* may be another account's e-mail.)
LoginFindsAccount ==
    \A u \in UserIds :
        Alive(users[u]) =>
          \A name \in {users[u].username, users[u].email} \ {None} :
            u \in RepoFindByIdentifier(Normalize[name])

\* A session issued by refresh exists only once the session it replaces is
\* revoked, and belongs to the same account: a refresh that fails at any
\* point may lose the client's session, never leave it with two.
SuccessorImpliesSpent ==
    \A s, t \in SessionIds :
        Succeeds(s, t) => /\ Stored(sessions[t]) /\ sessions[t].revoked
                          /\ sessions[s].user = sessions[t].user

\* However refreshes of one token overlap, each slot turns it into at most
\* one session: a token has no more successors than the server has requests
\* in flight at once.
OneSuccessorPerRequest ==
    \A s1, s2, t \in SessionIds :
        /\ Succeeds(s1, t) /\ Succeeds(s2, t)
        /\ lineage[s1].by = lineage[s2].by
        => s1 = s2

\* A refresh token is single-use: it has at most one successor.
SingleUse ==
    \A s1, s2, t \in SessionIds : Succeeds(s1, t) /\ Succeeds(s2, t) => s1 = s2

\* A request called after an account was deleted never stores a session for
\* it, not even from a session of the account that survived the deletion.
NoSessionForDeleted ==
    \A r \in Requests : req[r].pc \in {"CreateSession", "Sign"} =>
                           req[r].user \notin req[r].gone

\* Once delete_me has deleted the account, none of its sessions is live.
DeleteClosesAll ==
    \A s \in SessionIds :
        Live(s) => users[sessions[s].user].status # "deleted"

\* Once change_password has answered Ok, every live session of the account
\* goes back to a login (or registration) with the password it set.
ForcedRelogin ==
    \A s \in SessionIds :
        Live(s) /\ settled[sessions[s].user] =>
          lineage[s].cred = users[sessions[s].user].password_hash

\* A session with an older password survives a completed change_password only
\* if it descends from a request that was in flight during a revoke_all of
\* the account: what revoke_all can see, it ends, and no login that starts
\* once the hash is replaced slips in before it.
OnlyOverlapSurvives ==
    \A s \in SessionIds :
        Live(s) /\ settled[sessions[s].user] =>
          \/ lineage[s].cred = users[sessions[s].user].password_hash
          \/ lineage[s].late

\* A live session of a deleted account descends from a request that was in
\* flight during a revoke_all of the account, or that read the account between
\* the revoke_all and the soft_delete of a delete_me: nothing else, whatever
\* overlaps delete_me or becomes of it, outlives the account.
OnlyOverlapOutlives ==
    \A s \in SessionIds :
        Live(s) /\ users[sessions[s].user].status = "deleted" =>
          lineage[s].late \/ lineage[s].closing

\* the step with which r's revoke_all takes effect
RevokesAll(r) == RevokeAllCommit(r) \/ (Memory /\ RevokeAll(r))

\* Whichever handler revokes all sessions of an account (logout_all, delete_me,
\* change_password), the unrevoked ones it leaves go back to a request in
\* flight during a revoke_all of the account: those that refreshes make of
\* sessions it revokes do not slip by otherwise.
RevokeAllSweeps ==
    [][\A r \in Requests : RevokesAll(r) =>
         \A s \in SessionIds :
            /\ Stored(sessions'[s]) /\ ~sessions'[s].revoked
            /\ sessions'[s].user = req[r].user
            => lineage[s].late]_vars

\* A token whose logout answered Ok is never live again, whether logout
\* revoked it or found it already inactive.
LogoutSticks == \A s \in closed : ~Live(s)

\* change_password replaces a hash only if the old password it was given
\* still verifies against that hash.
ReplacesVerified ==
    [][\A u \in UserIds :
         Alive(users[u]) /\ users'[u].password_hash # users[u].password_hash =>
           \E r \in Requests :
              /\ At(r, "UpdatePassword")
              /\ req[r].user = u
              /\ VerifyPassword(req[r].password, users[u].password_hash)]_vars

\* what Sessions sees of a session
SessionState(s) == IF ~Stored(sessions[s]) THEN "unissued"
                   ELSE IF Live(s) THEN "live" ELSE "over"

Session == INSTANCE Sessions
             WITH state <- [s \in SessionIds |-> SessionState(s)],
                  owner <- [s \in SessionIds |-> sessions[s].user],
                  from <- [s \in SessionIds |-> lineage[s].from]

\* However requests overlap and fail, sessions live the life Sessions gives
\* them: nothing revives one or moves it to another account, and refresh
\* issues the successor of no session that still opens anything.
ImplementsSessions == Session!Spec
=============================================================================
