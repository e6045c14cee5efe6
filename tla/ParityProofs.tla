---------------------------- MODULE ParityProofs ----------------------------
(***************************************************************************)
(* The two sets of repositories answer alike, for any sequence of calls.   *)
(***************************************************************************)
EXTENDS RepoParity, TLAPS

-----------------------------------------------------------------------------
(* The inductive invariant                                                 *)

Opt(S) == S \cup {None}

UserRows == [status: {"absent", "alive", "deleted"}, username: Opt(Usernames),
             email: Opt(Emails), password_hash: Opt(Hashes)]
SessionRows == [user: Opt(UserIds), token_hash: Opt(SessionIds),
                expires_at: {0, Expiry}, revoked: BOOLEAN]

TablesType ==
    /\ memUsers \in [UserIds -> UserRows] /\ pgUsers \in [UserIds -> UserRows]
    /\ memSessions \in [SessionIds -> SessionRows]
    /\ memRoles \in [RoleIds -> Opt(RoleNames)]
    /\ memGrants \subseteq UserIds \X RoleIds

\* A row of either side; they differ in the credential of deleted users only.
Twins(m, p) ==
    /\ m.status = p.status /\ m.username = p.username /\ m.email = p.email
    /\ m.status = "absent" => m = NoUser /\ p = NoUser
    /\ m.status # "absent" => m.password_hash # None /\ p.password_hash # None
    /\ m.status = "alive" => m.password_hash = p.password_hash

UsersAlike ==
    /\ \A u \in UserIds : Twins(memUsers[u], pgUsers[u])
    /\ UsernameAliveUidx(pgUsers) /\ EmailAliveUidx(pgUsers)

\* The session tables are one, and a token belongs to the session it names.
SessionsAlike ==
    /\ pgSessions = memSessions
    /\ \A s \in SessionIds :
         Stored(memSessions[s]) => memSessions[s].token_hash = s

\* So are the role tables; a name belongs to one role, and roles granted
\* exist.
RolesAlike ==
    /\ pgRoles = memRoles /\ pgGrants = memGrants
    /\ \A g, h \in RoleIds :
         memRoles[g] # NoRole /\ memRoles[g] = memRoles[h] => g = h
    /\ \A p \in memGrants : memRoles[p[2]] # NoRole

ParityInv == TablesType /\ UsersAlike /\ SessionsAlike /\ RolesAlike

LEMMA ParityInit == Init => ParityInv /\ AnswersAgree
<1> SUFFICES ASSUME Init PROVE ParityInv /\ AnswersAgree
  OBVIOUS
<1>1. TablesType
  BY DEF Init, TablesType, NoUser, NoSession, NoRole, UserRows, SessionRows, Opt
<1>2. UsersAlike
  BY DEF Init, UsersAlike, Twins, NoUser, UsernameAliveUidx, EmailAliveUidx, Alive
<1>3. SessionsAlike /\ RolesAlike
  BY DEF Init, SessionsAlike, RolesAlike, NoSession, Stored, NoRole
<1> QED  BY <1>1, <1>2, <1>3 DEF ParityInv, Init, AnswersAgree

-----------------------------------------------------------------------------
(* Users                                                                   *)

\* The in-memory scan finds what the unique indexes would refuse.
LEMMA ScanIsIndex ==
  ASSUME TablesType, UsersAlike, NEW id \in UserIds, NEW row \in UserRows,
         Alive(row)
  PROVE  LET w == [pgUsers EXCEPT ![id] = row]
         IN  UsernameAliveUidx(w) /\ EmailAliveUidx(w) <=>
               ~MemTaken(memUsers, id, row.username, row.email)
<1> DEFINE w == [pgUsers EXCEPT ![id] = row]
<1>1. /\ DOMAIN w = UserIds /\ DOMAIN memUsers = UserIds /\ DOMAIN pgUsers = UserIds
      /\ w[id] = row /\ \A u \in UserIds : u # id => w[u] = pgUsers[u]
  BY DEF TablesType
<1>2. \A u \in UserIds : /\ Alive(memUsers[u]) <=> Alive(pgUsers[u])
                         /\ memUsers[u].username = pgUsers[u].username
                         /\ memUsers[u].email = pgUsers[u].email
  BY DEF UsersAlike, Twins, Alive
<1>3. MemTaken(memUsers, id, row.username, row.email) <=>
        \E u \in UserIds :
          /\ u # id /\ Alive(pgUsers[u])
          /\ \/ pgUsers[u].username = row.username
             \/ row.email # None /\ pgUsers[u].email = row.email
  BY <1>1, <1>2 DEF MemTaken
<1> HIDE DEF w
<1>4. ASSUME ~MemTaken(memUsers, id, row.username, row.email)
      PROVE  UsernameAliveUidx(w) /\ EmailAliveUidx(w)
  BY <1>1, <1>3, <1>4 DEF UsersAlike, UsernameAliveUidx, EmailAliveUidx
<1>5. ASSUME UsernameAliveUidx(w), EmailAliveUidx(w)
      PROVE  ~MemTaken(memUsers, id, row.username, row.email)
  BY <1>1, <1>3, <1>5 DEF UsernameAliveUidx, EmailAliveUidx
<1> QED  BY <1>4, <1>5 DEF w

\* A row written alike on both sides, and accepted, leaves the tables alike.
LEMMA RowWritten ==
  ASSUME TablesType, UsersAlike, NEW id \in UserIds,
         NEW m \in UserRows, NEW p \in UserRows, Twins(m, p),
         memUsers' = [memUsers EXCEPT ![id] = m],
         pgUsers' = [pgUsers EXCEPT ![id] = p],
         Alive(p) => UsernameAliveUidx(pgUsers') /\ EmailAliveUidx(pgUsers')
  PROVE  /\ UsersAlike'
         /\ memUsers' \in [UserIds -> UserRows] /\ pgUsers' \in [UserIds -> UserRows]
<1>1. memUsers' \in [UserIds -> UserRows] /\ pgUsers' \in [UserIds -> UserRows]
  BY DEF TablesType
<1>2. \A u \in UserIds : Twins(memUsers'[u], pgUsers'[u])
  BY DEF UsersAlike, TablesType
<1>3. UsernameAliveUidx(pgUsers') /\ EmailAliveUidx(pgUsers')
  <2>1. CASE ~Alive(p)
    BY <1>1, <2>1 DEF UsersAlike, UsernameAliveUidx, EmailAliveUidx, TablesType
  <2> QED  BY <2>1
<1> QED  BY <1>1, <1>2, <1>3 DEF UsersAlike, Twins

\* A call of the user port that writes such a row, or none, and is answered
\* alike or in one of the two ways AnswersAgree names.
LEMMA UserCallParity ==
  ASSUME ParityInv, NEW op, NEW id, NEW mem, NEW pg, UserCall(op, id, mem, pg),
         UsersAlike',
         memUsers' \in [UserIds -> UserRows], pgUsers' \in [UserIds -> UserRows]
  PROVE  ParityInv'
BY DEF ParityInv, TablesType, SessionsAlike, RolesAlike, UserCall,
       sessionTables, roleTables

\* Nothing written on either side.
LEMMA NothingWritten ==
  ASSUME TablesType, UsersAlike, UNCHANGED <<memUsers, pgUsers>>
  PROVE  /\ UsersAlike'
         /\ memUsers' \in [UserIds -> UserRows] /\ pgUsers' \in [UserIds -> UserRows]
BY DEF TablesType, UsersAlike, Twins

\* ids handed out have rows on both sides, alive on both or deleted on both.
LEMMA KnownRows ==
  ASSUME TablesType, UsersAlike, NEW u \in UserIds
  PROVE  /\ memUsers[u] \in UserRows /\ pgUsers[u] \in UserRows
         /\ Twins(memUsers[u], pgUsers[u])
         /\ Alive(memUsers[u]) <=> Alive(pgUsers[u])
         /\ u \in KnownUsers <=> memUsers[u].status # "absent"
         /\ u \in KnownUsers <=> pgUsers[u] # NoUser
BY DEF TablesType, UsersAlike, Twins, Alive, KnownUsers, UserRows, NoUser

LEMMA CreateParity ==
  ASSUME ParityInv, Create
  PROVE  ParityInv' /\ AnswersAgree'
<1>0. TablesType /\ UsersAlike
  BY DEF ParityInv
<1>1. PICK u \in UserIds \ KnownUsers, name \in Usernames,
           email \in Emails \cup {None}, hash \in Hashes :
        UserCall("create", u, MemCreate(memUsers, u, name, email, hash),
                              PgCreate(pgUsers, u, name, email, hash))
  BY DEF Create
<1> DEFINE row == UserRow(name, email, hash)
           taken == MemTaken(memUsers, u, name, email)
<1>2. row \in UserRows /\ Twins(row, row) /\ Alive(row)
  BY NoneAssumption DEF UserRow, UserRows, Opt, Twins, Alive
<1>3. row.username = name /\ row.email = email
  BY DEF UserRow
<1>4. MemTaken(memUsers, None, name, email) <=> taken
  <2>1. ~Alive(memUsers[u]) /\ DOMAIN memUsers = UserIds
    BY <1>0, KnownRows DEF Alive, TablesType
  <2> QED  BY <2>1, NoneAssumption DEF MemTaken
<1> DEFINE w == [pgUsers EXCEPT ![u] = row]
<1>5. UsernameAliveUidx(w) /\ EmailAliveUidx(w) <=> ~taken
  BY <1>0, <1>2, <1>3, ScanIsIndex
<1>6. /\ MemCreate(memUsers, u, name, email, hash) =
           IF taken THEN Reply(memUsers, "Conflict")
                    ELSE Reply([memUsers EXCEPT ![u] = row], "Ok")
      /\ PgCreate(pgUsers, u, name, email, hash) =
           IF taken THEN Reply(pgUsers, "Conflict") ELSE Reply(w, "Ok")
  BY <1>4, <1>5 DEF MemCreate, PgCreate, PgGuarded
<1> HIDE DEF row, taken
<1>7. /\ UsersAlike'
      /\ memUsers' \in [UserIds -> UserRows] /\ pgUsers' \in [UserIds -> UserRows]
  <2>1. CASE taken
    BY <1>0, <1>1, <1>6, <2>1, NothingWritten DEF UserCall, Reply
  <2>2. CASE ~taken
    <3>1. memUsers' = [memUsers EXCEPT ![u] = row] /\ pgUsers' = w
      BY <1>1, <1>6, <2>2 DEF UserCall, Reply
    <3> QED  BY <1>0, <1>2, <1>5, <2>2, <3>1, RowWritten
  <2> QED  BY <2>1, <2>2
<1>8. answer'.mem = answer'.pg
  BY <1>1, <1>6 DEF UserCall, Reply
<1> QED  BY <1>1, <1>7, <1>8, UserCallParity DEF AnswersAgree

LEMMA UpdateParityStep ==
  ASSUME ParityInv, Update
  PROVE  ParityInv' /\ AnswersAgree'
<1>0. TablesType /\ UsersAlike
  BY DEF ParityInv
<1>1. PICK u \in KnownUsers, name \in Usernames, email \in Emails \cup {None} :
        UserCall("update", u, MemUpdate(memUsers, u, name, email),
                              PgUpdate(pgUsers, u, name, email))
  BY DEF Update
<1>2. u \in UserIds
  BY DEF KnownUsers
<1> DEFINE taken == MemTaken(memUsers, u, name, email)
           m == [memUsers[u] EXCEPT !.username = name, !.email = email]
           p == [pgUsers[u] EXCEPT !.username = name, !.email = email]
           w == [pgUsers EXCEPT ![u] = p]
<1>3. Twins(memUsers[u], pgUsers[u]) /\ memUsers[u].status # "absent"
  BY <1>0, <1>2, KnownRows
<1>4. /\ m \in UserRows /\ p \in UserRows /\ Twins(m, p)
      /\ p.username = name /\ p.email = email
      /\ Alive(p) <=> Alive(pgUsers[u])
  <2>1. memUsers[u] \in UserRows /\ pgUsers[u] \in UserRows
    BY <1>0, <1>2, KnownRows
  <2> QED  BY <1>3, <2>1 DEF UserRows, Opt, Twins, Alive
<1>5. /\ [memUsers EXCEPT ![u].username = name, ![u].email = email] =
           [memUsers EXCEPT ![u] = m]
      /\ [pgUsers EXCEPT ![u].username = name, ![u].email = email] = w
  BY <1>0, <1>2 DEF TablesType
<1>6. Alive(memUsers[u]) <=> Alive(pgUsers[u])
  BY <1>0, <1>2, KnownRows
<1> HIDE DEF m, p
<1>7. Alive(p) => (UsernameAliveUidx(w) /\ EmailAliveUidx(w) <=> ~taken)
  BY <1>0, <1>2, <1>4, ScanIsIndex
<1>8. CASE Alive(pgUsers[u]) /\ ~taken
  <2>1. /\ memUsers' = [memUsers EXCEPT ![u] = m] /\ pgUsers' = w
        /\ answer'.mem = "Ok" /\ answer'.pg = "Ok"
    BY <1>1, <1>4, <1>5, <1>6, <1>7, <1>8
    DEF UserCall, MemUpdate, PgUpdate, PgGuarded, Reply
  <2>2. /\ UsersAlike'
        /\ memUsers' \in [UserIds -> UserRows] /\ pgUsers' \in [UserIds -> UserRows]
    BY <1>0, <1>2, <1>4, <1>7, <1>8, <2>1, RowWritten
  <2> QED  BY <1>1, <2>1, <2>2, UserCallParity DEF AnswersAgree
<1>9. CASE ~(Alive(pgUsers[u]) /\ ~taken)
  <2>1. /\ memUsers' = memUsers /\ pgUsers' = pgUsers
        /\ answer'.op = "update" /\ answer'.id = u
        /\ \/ answer'.mem = answer'.pg
           \/ /\ ~Alive(pgUsers[u])
              /\ answer'.mem = "Conflict" /\ answer'.pg = "NotFound"
    BY <1>1, <1>4, <1>5, <1>6, <1>7, <1>9
    DEF UserCall, MemUpdate, PgUpdate, PgGuarded, Reply
  <2>2. /\ UsersAlike'
        /\ memUsers' \in [UserIds -> UserRows] /\ pgUsers' \in [UserIds -> UserRows]
    BY <1>0, <2>1, NothingWritten
  <2> QED  BY <1>1, <2>1, <2>2, UserCallParity DEF AnswersAgree
<1> QED  BY <1>8, <1>9

LEMMA SoftDeleteParity ==
  ASSUME ParityInv, SoftDelete
  PROVE  ParityInv' /\ AnswersAgree'
<1>0. TablesType /\ UsersAlike
  BY DEF ParityInv
<1>1. PICK u \in KnownUsers :
        UserCall("soft_delete", u, MemSoftDelete(memUsers, u), PgSoftDelete(pgUsers, u))
  BY DEF SoftDelete
<1>2. u \in UserIds
  BY DEF KnownUsers
<1> DEFINE m == [memUsers[u] EXCEPT !.status = "deleted"]
           p == [pgUsers[u] EXCEPT !.status = "deleted"]
<1>3. /\ memUsers[u] \in UserRows /\ pgUsers[u] \in UserRows
      /\ Twins(memUsers[u], pgUsers[u]) /\ memUsers[u].status # "absent"
      /\ Alive(memUsers[u]) <=> Alive(pgUsers[u])
  BY <1>0, <1>2, KnownRows
<1>4. m \in UserRows /\ p \in UserRows /\ Twins(m, p) /\ ~Alive(p)
  BY <1>3 DEF UserRows, Twins, Alive
<1>5. /\ [memUsers EXCEPT ![u].status = "deleted"] = [memUsers EXCEPT ![u] = m]
      /\ [pgUsers EXCEPT ![u].status = "deleted"] = [pgUsers EXCEPT ![u] = p]
  BY <1>0, <1>2 DEF TablesType
<1> HIDE DEF m, p
<1>6. /\ answer'.mem = answer'.pg
      /\ \/ UNCHANGED <<memUsers, pgUsers>>
         \/ /\ memUsers' = [memUsers EXCEPT ![u] = m]
            /\ pgUsers' = [pgUsers EXCEPT ![u] = p]
  BY <1>1, <1>3, <1>5 DEF UserCall, MemSoftDelete, PgSoftDelete, Reply
<1>7. /\ UsersAlike'
      /\ memUsers' \in [UserIds -> UserRows] /\ pgUsers' \in [UserIds -> UserRows]
  <2>1. CASE UNCHANGED <<memUsers, pgUsers>>
    BY <1>0, <2>1, NothingWritten
  <2>2. CASE /\ memUsers' = [memUsers EXCEPT ![u] = m]
             /\ pgUsers' = [pgUsers EXCEPT ![u] = p]
    BY <1>0, <1>2, <1>4, <2>2, RowWritten
  <2> QED  BY <1>6, <2>1, <2>2
<1> QED  BY <1>1, <1>6, <1>7, UserCallParity DEF AnswersAgree

\* A deleted user's credential changes on the Postgres side alone.
LEMMA UpdatePasswordParityStep ==
  ASSUME ParityInv, UpdatePassword
  PROVE  ParityInv' /\ AnswersAgree'
<1>0. TablesType /\ UsersAlike
  BY DEF ParityInv
<1>1. PICK u \in KnownUsers, hash \in Hashes :
        UserCall("update_password", u, MemUpdatePassword(memUsers, u, hash),
                                       PgUpdatePassword(pgUsers, u, hash))
  BY DEF UpdatePassword
<1>2. u \in UserIds
  BY DEF KnownUsers
<1> DEFINE m == IF Alive(memUsers[u]) THEN [memUsers[u] EXCEPT !.password_hash = hash]
                                      ELSE memUsers[u]
           p == [pgUsers[u] EXCEPT !.password_hash = hash]
<1>3. /\ memUsers[u] \in UserRows /\ pgUsers[u] \in UserRows
      /\ Twins(memUsers[u], pgUsers[u]) /\ memUsers[u].status # "absent"
      /\ Alive(memUsers[u]) <=> Alive(pgUsers[u])
  BY <1>0, <1>2, KnownRows
<1>4. /\ m \in UserRows /\ p \in UserRows /\ Twins(m, p)
      /\ Alive(p) <=> Alive(pgUsers[u])
      /\ p.username = pgUsers[u].username /\ p.email = pgUsers[u].email
  BY <1>3, NoneAssumption DEF UserRows, Twins, Alive, Opt
<1>5. /\ memUsers' = [memUsers EXCEPT ![u] = m]
      /\ pgUsers' = [pgUsers EXCEPT ![u] = p]
      /\ answer'.op = "update_password" /\ answer'.id = u /\ answer'.pg = "Ok"
      /\ answer'.mem = IF Alive(memUsers[u]) THEN "Ok" ELSE "NotFound"
  BY <1>0, <1>1, <1>2, <1>3 DEF UserCall, MemUpdatePassword, PgUpdatePassword, Reply,
                                TablesType, Twins
<1> HIDE DEF m, p
<1>6. UsernameAliveUidx(pgUsers') /\ EmailAliveUidx(pgUsers')
  <2>1. \A v \in UserIds : /\ Alive(pgUsers'[v]) <=> Alive(pgUsers[v])
                           /\ pgUsers'[v].username = pgUsers[v].username
                           /\ pgUsers'[v].email = pgUsers[v].email
    BY <1>0, <1>2, <1>4, <1>5 DEF TablesType
  <2>2. DOMAIN pgUsers = UserIds /\ DOMAIN pgUsers' = UserIds
    BY <1>0, <1>5 DEF TablesType
  <2> QED  BY <1>0, <2>1, <2>2 DEF UsersAlike, UsernameAliveUidx, EmailAliveUidx
<1>7. /\ UsersAlike'
      /\ memUsers' \in [UserIds -> UserRows] /\ pgUsers' \in [UserIds -> UserRows]
  BY <1>0, <1>2, <1>4, <1>5, <1>6, RowWritten
<1>8. AnswersAgree'
  <2>1. ~Alive(memUsers[u]) => ~Alive(pgUsers'[u])
    BY <1>0, <1>2, <1>3, <1>4, <1>5 DEF TablesType
  <2> QED  BY <1>5, <2>1 DEF AnswersAgree
<1> QED  BY <1>1, <1>7, <1>8, UserCallParity

-----------------------------------------------------------------------------
(* Sessions                                                                *)

\* A row changes alike on both sides or not at all: what Postgres's WHERE
\* clause leaves out is what writing again would not change.
LEMMA SessionsParity ==
  ASSUME ParityInv, CreateSession \/ Revoke \/ RevokeAll
  PROVE  ParityInv' /\ AnswersAgree'
<1>0. /\ memSessions \in [SessionIds -> SessionRows] /\ pgSessions = memSessions
      /\ \A s \in SessionIds : Stored(memSessions[s]) => memSessions[s].token_hash = s
  BY DEF ParityInv, TablesType, SessionsAlike
<1>1. UNCHANGED <<userTables, roleTables>>
  BY DEF CreateSession, Revoke, RevokeAll, SessionCall
<1>2. SUFFICES /\ pgSessions' = memSessions'
               /\ memSessions' \in [SessionIds -> SessionRows]
               /\ \A s \in SessionIds :
                    Stored(memSessions'[s]) => memSessions'[s].token_hash = s
               /\ answer'.mem = answer'.pg
  BY <1>1 DEF ParityInv, TablesType, UsersAlike, SessionsAlike, RolesAlike,
              userTables, roleTables, AnswersAgree
<1>3. CASE CreateSession
  <2>1. PICK s \in SessionIds \ KnownSessions, u \in KnownUsers :
          SessionCall("create_session", s,
                      MemSessionCreate(memSessions, s, u, s, Expiry),
                      PgSessionCreate(pgSessions, s, u, s, Expiry))
    BY <1>3 DEF CreateSession
  <2>2. \A t \in SessionIds : ~(Stored(pgSessions[t]) /\ pgSessions[t].token_hash = s)
    BY <1>0, <2>1 DEF KnownSessions
  <2>3. /\ memSessions' = [memSessions EXCEPT ![s] = SessionRow(u, s, Expiry)]
        /\ pgSessions' = [pgSessions EXCEPT ![s] = SessionRow(u, s, Expiry)]
        /\ answer'.mem = "Ok" /\ answer'.pg = "Ok"
    BY <1>0, <2>1, <2>2 DEF SessionCall, MemSessionCreate, PgSessionCreate, Reply
  <2>4. SessionRow(u, s, Expiry) \in SessionRows /\ SessionRow(u, s, Expiry).token_hash = s
    BY <2>1 DEF SessionRow, SessionRows, Opt, KnownUsers
  <2> QED  BY <1>0, <2>3, <2>4
<1>4. CASE Revoke
  <2>1. PICK s \in KnownSessions :
          SessionCall("revoke", s, Reply(MemRevoke(memSessions, s), "Ok"),
                                   Reply(PgRevoke(pgSessions, s), "Ok"))
    BY <1>4 DEF Revoke
  <2>2. s \in SessionIds /\ Stored(memSessions[s])
    BY <2>1 DEF KnownSessions
  <2>3. /\ memSessions' = [memSessions EXCEPT ![s].revoked = TRUE]
        /\ pgSessions' = PgRevoke(pgSessions, s)
        /\ answer'.mem = "Ok" /\ answer'.pg = "Ok"
    BY <2>1, <2>2 DEF SessionCall, MemRevoke, Reply
  <2>4. memSessions[s] \in SessionRows
    BY <1>0, <2>2
  <2>5. memSessions[s].revoked => [memSessions[s] EXCEPT !.revoked = TRUE] = memSessions[s]
    BY <2>4 DEF SessionRows
  <2>6. pgSessions' = [pgSessions EXCEPT ![s].revoked = TRUE]
    BY <1>0, <2>2, <2>3, <2>5 DEF PgRevoke
  <2>7. [memSessions[s] EXCEPT !.revoked = TRUE] \in SessionRows
    BY <2>4 DEF SessionRows
  <2> QED  BY <1>0, <2>2, <2>3, <2>6, <2>7 DEF Stored, SessionRows
<1>5. CASE RevokeAll
  <2>1. PICK u \in KnownUsers, except \in KnownSessions \cup {None} :
          SessionCall("revoke_all", u,
            Reply(MemRevokeAll(memSessions, u, except), "Ok"),
            Reply(PgRevokeRows(pgSessions, PgRevokeAllRows(pgSessions, u, except)),
                  "Ok"))
    BY <1>5 DEF RevokeAll
  <2>2. /\ memSessions' = MemRevokeAll(memSessions, u, except)
        /\ pgSessions' = PgRevokeRows(memSessions, PgRevokeAllRows(memSessions, u, except))
        /\ answer'.mem = "Ok" /\ answer'.pg = "Ok"
    BY <1>0, <2>1 DEF SessionCall, Reply
  <2>3. ASSUME NEW s \in SessionIds
        PROVE  /\ memSessions'[s] \in SessionRows
               /\ pgSessions'[s] = memSessions'[s]
               /\ Stored(memSessions'[s]) => memSessions'[s].token_hash = s
    <3>1. memSessions[s] \in SessionRows
      BY <1>0
    <3>2. memSessions[s].revoked => [memSessions[s] EXCEPT !.revoked = TRUE] = memSessions[s]
      BY <3>1 DEF SessionRows
    <3>3. memSessions'[s] = IF memSessions[s].user = u /\ s # except
                            THEN [memSessions[s] EXCEPT !.revoked = TRUE]
                            ELSE memSessions[s]
      BY <1>0, <2>2 DEF MemRevokeAll
    <3>4. pgSessions'[s] = memSessions'[s]
      BY <1>0, <2>2, <3>2, <3>3 DEF PgRevokeRows, PgRevokeAllRows
    <3> QED  BY <1>0, <3>1, <3>3, <3>4 DEF SessionRows, Stored
  <2>4. /\ memSessions' = [s \in SessionIds |-> memSessions'[s]]
        /\ pgSessions' = [s \in SessionIds |-> pgSessions'[s]]
    BY <1>0, <2>2 DEF MemRevokeAll, PgRevokeRows
  <2> QED  BY <2>2, <2>3, <2>4
<1> QED  BY <1>3, <1>4, <1>5

-----------------------------------------------------------------------------
(* Roles                                                                   *)

LEMMA RolesParity ==
  ASSUME ParityInv, Upsert \/ Grant
  PROVE  ParityInv' /\ AnswersAgree'
<1>0. /\ TablesType /\ UsersAlike /\ RolesAlike
      /\ memRoles \in [RoleIds -> Opt(RoleNames)] /\ memGrants \subseteq UserIds \X RoleIds
  BY DEF ParityInv, TablesType
<1>1. UNCHANGED <<userTables, sessionTables>>
  BY DEF Upsert, Grant
<1>2. SUFFICES /\ memRoles' \in [RoleIds -> Opt(RoleNames)]
               /\ memGrants' \subseteq UserIds \X RoleIds
               /\ RolesAlike'
               /\ answer'.mem = answer'.pg
  BY <1>1 DEF ParityInv, TablesType, UsersAlike, SessionsAlike, userTables,
              sessionTables, AnswersAgree
<1>3. CASE Upsert
  <2>1. PICK name \in RoleNames, id \in RoleIds \ KnownRoles :
          \E mem \in MemUpsert(memRoles, id, name), pg \in PgUpsert(pgRoles, id, name) :
             /\ memRoles' = mem.tab /\ pgRoles' = pg.tab
             /\ answer' = [op |-> "upsert", id |-> id, mem |-> mem.ret, pg |-> pg.ret]
             /\ UNCHANGED <<memGrants, pgGrants>>
    BY <1>3 DEF Upsert
  <2>2. pgRoles = memRoles /\ DOMAIN memRoles = RoleIds /\ name # NoRole
    BY <1>0, NoneAssumption DEF RolesAlike, NoRole
  <2>3. CASE \E g \in RoleIds : memRoles[g] = name
    <3>1. PICK g \in RoleIds : memRoles[g] = name
      BY <2>3
    <3>2. \A h \in RoleIds : memRoles[h] = name => h = g
      BY <1>0, <2>2, <3>1 DEF RolesAlike
    <3>3. /\ MemUpsert(memRoles, id, name) = {Reply(memRoles, g)}
          /\ PgUpsert(pgRoles, id, name) = {Reply(memRoles, g)}
      BY <2>2, <3>1, <3>2 DEF MemUpsert, PgUpsert
    <3>4. /\ memRoles' = memRoles /\ pgRoles' = memRoles
          /\ answer'.mem = g /\ answer'.pg = g
          /\ UNCHANGED <<memGrants, pgGrants>>
      BY <2>1, <3>3 DEF Reply
    <3> QED  BY <1>0, <3>4 DEF RolesAlike
  <2>4. CASE ~\E g \in RoleIds : memRoles[g] = name
    <3>1. /\ MemUpsert(memRoles, id, name) = {Reply([memRoles EXCEPT ![id] = name], id)}
          /\ PgUpsert(pgRoles, id, name) = {Reply([memRoles EXCEPT ![id] = name], id)}
      BY <2>2, <2>4 DEF MemUpsert, PgUpsert
    <3>2. /\ memRoles' = [memRoles EXCEPT ![id] = name] /\ pgRoles' = memRoles'
          /\ answer'.mem = id /\ answer'.pg = id
          /\ UNCHANGED <<memGrants, pgGrants>>
      BY <2>1, <3>1 DEF Reply
    <3>3. memRoles' \in [RoleIds -> Opt(RoleNames)]
      BY <1>0, <3>2 DEF Opt
    <3>4. \A g \in RoleIds : memRoles'[g] = IF g = id THEN name ELSE memRoles[g]
      BY <1>0, <2>1, <3>2
    <3>5. \A p \in memGrants : p[2] \in RoleIds
      BY <1>0
    <3> QED
      BY <1>0, <2>2, <2>4, <3>2, <3>3, <3>4, <3>5 DEF RolesAlike
  <2> QED  BY <2>3, <2>4
<1>4. CASE Grant
  <2>1. PICK u \in KnownUsers, g \in KnownRoles :
          LET mem == MemGrant(memGrants, u, g)
              pg == PgGrant(pgUsers, pgRoles, pgGrants, u, g)
          IN  /\ memGrants' = mem.tab /\ pgGrants' = pg.tab
              /\ answer' = [op |-> "grant", id |-> u, mem |-> mem.ret, pg |-> pg.ret]
              /\ UNCHANGED <<memRoles, pgRoles>>
    BY <1>4 DEF Grant
  <2>2. /\ u \in UserIds /\ g \in RoleIds /\ memRoles[g] # NoRole
        /\ pgUsers[u] # NoUser /\ pgRoles = memRoles /\ pgGrants = memGrants
    BY <1>0, <2>1, KnownRows DEF KnownUsers, KnownRoles, RolesAlike
  <2>3. /\ memGrants' = memGrants \cup {<<u, g>>} /\ pgGrants' = memGrants'
        /\ answer'.mem = "Ok" /\ answer'.pg = "Ok" /\ UNCHANGED <<memRoles, pgRoles>>
    BY <2>1, <2>2 DEF MemGrant, PgGrant, Reply
  <2> QED  BY <1>0, <2>2, <2>3 DEF RolesAlike
<1> QED  BY <1>3, <1>4

-----------------------------------------------------------------------------

LEMMA ParityStep == ParityInv /\ AnswersAgree /\ [Next]_vars => ParityInv' /\ AnswersAgree'
<1> SUFFICES ASSUME ParityInv, AnswersAgree, [Next]_vars
             PROVE  ParityInv' /\ AnswersAgree'
  OBVIOUS
<1>1. CASE UNCHANGED vars
  BY <1>1 DEF vars, userTables, sessionTables, roleTables, ParityInv, TablesType,
              UsersAlike, SessionsAlike, RolesAlike, AnswersAgree
<1> QED
  BY <1>1, CreateParity, UpdateParityStep, SoftDeleteParity, UpdatePasswordParityStep,
     SessionsParity, RolesParity DEF Next

\* Whatever calls are made on them, the two sets of repositories answer each
\* alike, but update and update_password of a soft-deleted account.
THEOREM AnswersAlike == Spec => []AnswersAgree
BY ParityInit, ParityStep, PTL DEF Spec

\* In every state they reach, every read of one row answers alike: the
\* credential that update_password leaves on a deleted row of one side only is
\* never read.
THEOREM ReadsAlike == Spec => []ReadsAgree
<1>1. ASSUME ParityInv PROVE ReadsAgree
  <2>0. TablesType /\ UsersAlike /\ SessionsAlike /\ RolesAlike
    BY <1>1 DEF ParityInv
  <2>1. DOMAIN memUsers = UserIds /\ DOMAIN pgUsers = UserIds
    BY <2>0 DEF TablesType
  <2>2. \A x : MemFindByIdentifier(memUsers, x) = PgFindByIdentifier(pgUsers, x)
    <3>1. \A u \in UserIds :
            /\ Alive(memUsers[u]) <=> Alive(pgUsers[u])
            /\ Alive(pgUsers[u]) => pgUsers[u].password_hash # None
            /\ memUsers[u].username = pgUsers[u].username
            /\ memUsers[u].email = pgUsers[u].email
      BY <2>0 DEF UsersAlike, Twins, Alive
    <3> QED  BY <2>1, <3>1 DEF MemFindByIdentifier, PgFindByIdentifier
  <2>3. ASSUME NEW u \in UserIds
        PROVE  /\ MemFindById(memUsers, u) = PgFindById(pgUsers, u)
               /\ Alive(memUsers[u]) => memUsers[u] = pgUsers[u]
               /\ MemPasswordHash(memUsers, u) = PgPasswordHash(pgUsers, u)
    <3>1. /\ memUsers[u] \in UserRows /\ pgUsers[u] \in UserRows
          /\ Twins(memUsers[u], pgUsers[u])
      BY <2>0, KnownRows
    <3>2. Alive(memUsers[u]) => memUsers[u] = pgUsers[u]
      <4>1. \A m \in UserRows :
              m = [status |-> m.status, username |-> m.username, email |-> m.email,
                   password_hash |-> m.password_hash]
        BY DEF UserRows
      <4>2. Alive(memUsers[u]) =>
              /\ memUsers[u].status = pgUsers[u].status
              /\ memUsers[u].username = pgUsers[u].username
              /\ memUsers[u].email = pgUsers[u].email
              /\ memUsers[u].password_hash = pgUsers[u].password_hash
        BY <3>1 DEF Twins, Alive
      <4> QED  BY <3>1, <4>1, <4>2
    <3>3. memUsers[u].status = pgUsers[u].status
      BY <3>1 DEF Twins
    <3>4. MemFindById(memUsers, u) = PgFindById(pgUsers, u)
      BY <3>3 DEF MemFindById, PgFindById, Alive
    <3>5. MemPasswordHash(memUsers, u) = PgPasswordHash(pgUsers, u)
      BY <3>2, <3>3 DEF MemPasswordHash, PgPasswordHash, Alive
    <3> QED  BY <3>2, <3>4, <3>5
  <2>4. ASSUME NEW u \in UserIds
        PROVE  MemRolesForUser(memRoles, memGrants, u) =
                 PgRolesForUser(pgRoles, pgGrants, u)
    <3>1. /\ pgRoles = memRoles /\ pgGrants = memGrants
          /\ memGrants \subseteq UserIds \X RoleIds /\ DOMAIN memRoles = RoleIds
          /\ \A p \in memGrants : memRoles[p[2]] # NoRole
      BY <2>0 DEF TablesType, RolesAlike
    <3>2. ASSUME NEW x \in MemRolesForUser(memRoles, memGrants, u)
          PROVE  x \in PgRolesForUser(memRoles, memGrants, u)
      <4>1. PICK g \in RoleIds : <<u, g>> \in memGrants /\ x = memRoles[g]
        BY <3>1 DEF MemRolesForUser
      <4>2. <<u, g>>[1] = u /\ <<u, g>>[2] = g
        OBVIOUS
      <4> QED  BY <4>1, <4>2 DEF PgRolesForUser
    <3>3. PgRolesForUser(memRoles, memGrants, u) \subseteq
            MemRolesForUser(memRoles, memGrants, u)
      BY <3>1 DEF MemRolesForUser, PgRolesForUser
    <3> QED  BY <3>1, <3>2, <3>3
  <2>5. \A s, t : MemFindActive(memSessions, s, t) = PgFindActive(pgSessions, s, t)
    BY <2>0 DEF SessionsAlike, MemFindActive, PgFindActive
  <2> QED  BY <2>2, <2>3, <2>4, <2>5 DEF ReadsAgree
<1> QED  BY <1>1, ParityInit, ParityStep, PTL DEF Spec

\* The memory's answer, place by place: each place that names an alive user.
LEMMA MemAnswers ==
  ASSUME NEW t, NEW ids
  PROVE  LET mem == MemFindByIds(t, ids)
         IN  /\ DOMAIN mem = {i \in DOMAIN ids : Alive(t[ids[i]])}
             /\ \A i \in DOMAIN mem : mem[i] = ids[i]
BY DEF MemFindByIds

\* find_by_ids (repo/memory.rs, repo/postgres.rs): whatever the list of ids,
\* both repositories name the same users, and answer a list of one length
\* unless a user that both hold alive is asked for twice.
THEOREM ListsAlike == Spec => []ListsAgree
<1>1. ParityInv => ListsAgree
  <2> SUFFICES ASSUME ParityInv, NEW ids \in Lists
               PROVE  SameUsers(ids) /\ (SameLength(ids) \/ AsksTwice(ids))
    BY DEF ListsAgree
  <2> DEFINE mem == MemFindByIds(memUsers, ids)
  <2>1. \A i \in DOMAIN ids : ids[i] \in UserIds
    BY DEF Lists
  <2>2. /\ DOMAIN pgUsers = UserIds
        /\ \A u \in UserIds : Alive(memUsers[u]) <=> Alive(pgUsers[u])
    BY KnownRows DEF ParityInv, TablesType
  <2>3. /\ DOMAIN mem = {i \in DOMAIN ids : Alive(memUsers[ids[i]])}
        /\ \A i \in DOMAIN mem : mem[i] = ids[i]
    BY MemAnswers
  <2> HIDE DEF mem
  <2>4. {mem[i] : i \in DOMAIN mem} = PgFindByIds(pgUsers, ids)
    BY <2>1, <2>2, <2>3 DEF PgFindByIds
  <2>5. Distinct(mem) \/ AsksTwice(ids)
    BY <2>1, <2>2, <2>3 DEF Distinct, AsksTwice
  <2> QED  BY <2>4, <2>5 DEF mem, SameUsers, SameLength
<1> QED  BY <1>1, ParityInit, ParityStep, PTL DEF Spec
=============================================================================
