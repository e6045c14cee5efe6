-------------------------- MODULE CredentialProofs --------------------------
(***************************************************************************)
(* What a change of password or the deletion of an account closes: for any *)
(* overlap, the exact extent of change_password's forced re-login; without *)
(* one, the promises of the comments.                                      *)
(***************************************************************************)
EXTENDS AuthServiceProofs

-----------------------------------------------------------------------------
(* The inductive invariant                                                 *)

Exists(u) == users[u].status # "absent"

\* the request may still store a session, for this account
Opens(l) == l.op \in {"register", "login", "refresh"} /\ l.user # None

Unrevoked(s) == Stored(sessions[s]) /\ ~sessions[s].revoked

\* A credential read for u is still u's once u is settled, or was read by
\* somebody a revoke_all of u has marked.
Fresh(u, cred, late) == settled[u] => cred = users[u].password_hash \/ late

\* Sessions and requests speak of accounts that exist, so an account that
\* register creates starts with neither.
AccountsExist ==
    /\ \A s \in SessionIds : Stored(sessions[s]) => Exists(sessions[s].user)
    /\ \A q \in Requests : req[q].user # None => Exists(req[q].user)

CredentialsFresh ==
    /\ \A s \in SessionIds :
         Unrevoked(s) => Fresh(sessions[s].user, lineage[s].cred, lineage[s].late)
    /\ \A q \in Requests :
         Opens(req[q]) => Fresh(req[q].user, req[q].hash, req[q].late)

\* While the UPDATE of a revoke_all is between its snapshot and its commit,
\* whoever opens a session for the account is marked, and the sessions it
\* will leave are the marked ones.
RevokesCover ==
    \A q \in Requests : At(q, "RevokeAllCommit") =>
      /\ \A p \in Requests :
           Opens(req[p]) /\ req[p].user = req[q].user => req[p].late
      /\ \A s \in SessionIds :
           Unrevoked(s) /\ sessions[s].user = req[q].user =>
             s \in req[q].rows \/ lineage[s].late

CredInv == AccountsExist /\ CredentialsFresh /\ RevokesCover

LEMMA CredInit == Init => CredInv
<1> SUFFICES ASSUME Init PROVE CredInv
  OBVIOUS
<1>1. \A s \in SessionIds : ~Stored(sessions[s])
  BY DEF Init, Stored, NoSession
<1>2. \A q \in Requests : req[q].user = None /\ req[q].pc = "Idle"
  BY DEF Init, Idle
<1> QED
  BY <1>1, <1>2 DEF CredInv, AccountsExist, CredentialsFresh, RevokesCover,
                    Unrevoked, Opens, At

-----------------------------------------------------------------------------
(* Steps of one request that store no session                              *)

\* Accounts stay, and an account that ends the step settled was settled
\* before it and has the password it had.
Steady ==
    \A u \in UserIds : Exists(u) =>
      /\ users'[u].status # "absent"
      /\ settled'[u] => settled[u] /\ users'[u].password_hash = users[u].password_hash

\* What a request with local state m needs for the invariant to hold next.
FitsNext(m) ==
    /\ m.user # None => m.user \in UserIds /\ users'[m.user].status # "absent"
    /\ Opens(m) =>
         /\ settled'[m.user] => m.hash = users'[m.user].password_hash \/ m.late
         /\ RevokeAllOpen(m.user) => m.late

LEMMA IdleFits == FitsNext(Idle)
BY DEF FitsNext, Idle, Opens

LEMMA OneFits ==
  ASSUME TypeInv, CredInv, Steady, OnlyRevokes(sessions'), lineage' = lineage,
         NEW r \in Requests, NEW m, req' = [req EXCEPT ![r] = m],
         m.pc # "RevokeAllCommit", FitsNext(m)
  PROVE  CredInv'
<1>1. \A q \in Requests : q # r => req'[q] = req[q]
  BY DEF TypeInv, TypeOK
<1>2. req'[r] = m
  BY DEF TypeInv, TypeOK
<1>3. ASSUME NEW s \in SessionIds
      PROVE  /\ sessions'[s].user = sessions[s].user
             /\ Stored(sessions'[s]) <=> Stored(sessions[s])
             /\ Unrevoked(s)' => Unrevoked(s)
             /\ Stored(sessions[s]) => sessions[s].user \in UserIds
  BY DEF OnlyRevokes, Unrevoked, Stored, TypeInv, TypeOK, SessionRows, Opt
<1>4. ASSUME NEW q \in Requests, req[q].user # None PROVE req[q].user \in UserIds
  BY <1>4 DEF TypeInv, TypeOK, LocalStates, Opt
<1>5. AccountsExist'
  <2>1. \A s \in SessionIds : Stored(sessions'[s]) => Exists(sessions[s].user)'
    BY <1>3 DEF CredInv, AccountsExist, Steady, Exists
  <2>2. \A q \in Requests : req'[q].user # None => Exists(req[q].user)'
    BY <1>1, <1>2, <1>4 DEF CredInv, AccountsExist, Steady, Exists, FitsNext
  <2> QED  BY <1>3, <2>1, <2>2 DEF AccountsExist, Exists
<1>6. CredentialsFresh'
  <2>1. ASSUME NEW s \in SessionIds, Unrevoked(s)'
        PROVE  Fresh(sessions[s].user, lineage[s].cred, lineage[s].late)'
    <3>1. /\ Unrevoked(s) /\ sessions[s].user \in UserIds /\ Exists(sessions[s].user)
          /\ Fresh(sessions[s].user, lineage[s].cred, lineage[s].late)
      BY <1>3, <2>1 DEF Unrevoked, CredInv, AccountsExist, CredentialsFresh
    <3> QED  BY <1>3, <3>1 DEF Fresh, Steady
  <2>2. ASSUME NEW q \in Requests, Opens(req'[q])
        PROVE  Fresh(req[q].user, req[q].hash, req[q].late)'
    <3>1. CASE q = r
      BY <1>2, <2>2, <3>1 DEF FitsNext, Fresh
    <3>2. CASE q # r
      <4>1. /\ Opens(req[q]) /\ req[q].user \in UserIds /\ Exists(req[q].user)
            /\ Fresh(req[q].user, req[q].hash, req[q].late) /\ req'[q] = req[q]
        BY <1>1, <1>4, <2>2, <3>2 DEF Opens, CredInv, AccountsExist, CredentialsFresh
      <4> QED  BY <4>1 DEF Fresh, Steady
    <3> QED  BY <3>1, <3>2
  <2> QED  BY <2>1, <2>2 DEF CredentialsFresh, Opens
<1>7. RevokesCover'
  <2> SUFFICES ASSUME NEW q \in Requests, At(q, "RevokeAllCommit")'
               PROVE  /\ \A p \in Requests :
                           Opens(req'[p]) /\ req'[p].user = req'[q].user => req'[p].late
                      /\ \A s \in SessionIds :
                           Unrevoked(s)' /\ sessions'[s].user = req'[q].user =>
                             s \in req'[q].rows \/ lineage'[s].late
    BY DEF RevokesCover, Opens
  <2>1. req'[q] = req[q] /\ At(q, "RevokeAllCommit")
    BY <1>1, <1>2 DEF At
  <2>2. ASSUME NEW p \in Requests, Opens(req'[p]), req'[p].user = req'[q].user
        PROVE  req'[p].late
    <3>1. CASE p = r
      BY <1>2, <2>1, <2>2, <3>1 DEF FitsNext, RevokeAllOpen
    <3>2. CASE p # r
      BY <1>1, <2>1, <2>2, <3>2 DEF CredInv, RevokesCover
    <3> QED  BY <3>1, <3>2
  <2>3. ASSUME NEW s \in SessionIds, Unrevoked(s)', sessions'[s].user = req'[q].user
        PROVE  s \in req'[q].rows \/ lineage'[s].late
    BY <1>3, <2>1, <2>3 DEF CredInv, RevokesCover
  <2> QED  BY <2>2, <2>3
<1> QED  BY <1>5, <1>6, <1>7 DEF CredInv

\* A handler that goes on, or answers.
LEMMA GoesFit ==
  ASSUME TypeInv, CredInv, Steady, OnlyRevokes(sessions'), lineage' = lineage,
         NEW r \in Requests, NEW step \in DOMAIN StageOps \ {"RevokeAllCommit"},
         req[r].pc = step, NEW m \in LocalStates, m.op = req[r].op, FitsNext(m),
         Answer(r) \/ Continue(r, step, m)
  PROVE  CredInv'
<1>1. CASE Answer(r)
  BY <1>1, OneFits, IdleFits DEF Answer, Idle
<1>2. CASE Continue(r, step, m)
  <2> DEFINE l == Moved(step, m)
  <2>1. m.op \in StageOps[step]
    BY DEF TypeInv, LocalsOK, InStage, StageOps
  <2>2. After(m.op, step) # "RevokeAllCommit"
    BY <2>1 DEF StageOps, After, IssueSession, Handler, Register, Login, Refresh,
           Logout, LogoutAll, UpdateMe, DeleteMe, ChangePassword
  <2>3. l.pc # "RevokeAllCommit" /\ FitsNext(l)
    <3>1. CASE l = Idle
      BY <3>1, IdleFits DEF Idle
    <3>2. CASE l = [m EXCEPT !.pc = After(m.op, step)]
      <4>1. /\ l.op = m.op /\ l.user = m.user /\ l.hash = m.hash
            /\ l.late = m.late /\ l.pc = After(m.op, step)
        BY <3>2 DEF LocalStates
      <4> HIDE DEF l
      <4> QED  BY <2>2, <4>1 DEF FitsNext, Opens
    <3> QED  BY <3>1, <3>2 DEF Moved
  <2>4. req' = [req EXCEPT ![r] = l]
    BY <1>2 DEF Continue
  <2> HIDE DEF l
  <2> QED  BY <2>3, <2>4, OneFits
<1> QED  BY <1>1, <1>2

\* A request that goes on with the account and credential it had.
LEMMA SameFits ==
  ASSUME TypeInv, CredInv, Steady, NEW r \in Requests, NEW m,
         m.op = req[r].op, m.user = req[r].user, m.late = req[r].late,
         m.hash = req[r].hash \/ m.op \notin {"register", "login", "refresh"}
  PROVE  FitsNext(m)
<1> DEFINE l == req[r]
<1>1. m.user # None =>
        m.user \in UserIds /\ Exists(m.user) /\ users'[m.user].status # "absent"
  BY DEF TypeInv, TypeOK, LocalStates, Opt, CredInv, AccountsExist, Steady
<1>2. ASSUME Opens(m)
      PROVE  /\ settled'[m.user] => m.hash = users'[m.user].password_hash \/ m.late
             /\ RevokeAllOpen(m.user) => m.late
  <2>1. Opens(l) /\ m.hash = l.hash /\ Fresh(l.user, l.hash, l.late)
    BY <1>2 DEF Opens, CredInv, CredentialsFresh
  <2>2. RevokeAllOpen(l.user) => l.late
    BY <2>1 DEF CredInv, RevokesCover, RevokeAllOpen
  <2>3. m.user # None
    BY <1>2 DEF Opens
  <2> QED  BY <1>1, <2>1, <2>2, <2>3 DEF Fresh, Steady
<1> QED  BY <1>1, <1>2 DEF FitsNext

\* What the repositories' writes leave of the accounts that exist.
KeepsCredentials(t) ==
    \A u \in UserIds : Exists(u) =>
      t[u].status # "absent" /\ t[u].password_hash = users[u].password_hash

LEMMA CredentialsKept ==
  ASSUME users \in [UserIds -> UserRows], NEW id, NEW name, NEW email, NEW hash
  PROVE  /\ KeepsCredentials(users)
         /\ users[id] = NoUser =>
              KeepsCredentials(RepoCreate(id, name, email, hash).tab)
         /\ KeepsCredentials(RepoUpdate(id, name, email).tab)
         /\ KeepsCredentials(RepoSoftDelete(id).tab)
<1>1. KeepsCredentials(users)
  BY DEF KeepsCredentials, Exists
<1>2. users[id] = NoUser => KeepsCredentials(RepoCreate(id, name, email, hash).tab)
  <2>1. users[id] = NoUser =>
          KeepsCredentials([users EXCEPT ![id] = UserRow(name, email, hash)])
    BY DEF KeepsCredentials, NoUser, Exists
  <2> QED  BY <1>1, <2>1 DEF RepoCreate, MemCreate, PgCreate, PgGuarded, Reply
<1>3. KeepsCredentials(RepoUpdate(id, name, email).tab)
  <2>1. KeepsCredentials([users EXCEPT ![id].username = name, ![id].email = email])
    BY DEF KeepsCredentials, UserRows, Exists
  <2> QED  BY <1>1, <2>1 DEF RepoUpdate, MemUpdate, PgUpdate, PgGuarded, Reply
<1>4. KeepsCredentials(RepoSoftDelete(id).tab)
  <2>1. KeepsCredentials([users EXCEPT ![id].status = "deleted"])
    BY DEF KeepsCredentials, UserRows, Exists
  <2> QED  BY <1>1, <2>1 DEF RepoSoftDelete, MemSoftDelete, PgSoftDelete, Reply
<1> QED  BY <1>1, <1>2, <1>3, <1>4

LEMMA KeptSteady ==
  ASSUME KeepsCredentials(users'), UNCHANGED settled
  PROVE  Steady
BY DEF KeepsCredentials, Steady

-----------------------------------------------------------------------------
(* The steps                                                               *)

LEMMA CallCred ==
  ASSUME TypeInv, CredInv, NEW r \in Requests, Call(r)
  PROVE  CredInv'
<1>op. PICK op \in CallNames :
         \E input : Begin(r, op, input) /\ FreshInput(op, input)
  BY CallBegins
<1>1. PICK input : Begin(r, op, input) /\ FreshInput(op, input)
  BY <1>op
<1> DEFINE l == [input EXCEPT !.op = op, !.pc = Handler[op]["Begin"],
                              !.gone = Deleted]
<1>2. req' = [req EXCEPT ![r] = l] /\ UNCHANGED <<users, sessions, lineage, settled>>
  BY <1>1 DEF Begin
<1>3. l.op = op /\ l.pc = Handler[op]["Begin"] /\ l.user = input.user
  BY <1>1 DEF FreshInput, LocalStates
<1>4. l.pc # "RevokeAllCommit"
  BY <1>3 DEF Handler, CallNames, Register, Login, Refresh, Logout, LogoutAll,
              UpdateMe, DeleteMe, ChangePassword
<1>5. Steady /\ OnlyRevokes(sessions')
  BY <1>2 DEF Steady, OnlyRevokes, Exists, TypeInv, TypeOK
<1> HIDE DEF l
<1>6. ASSUME NEW u \in Authenticated PROVE u \in UserIds /\ Exists(u)
  <2>1. PICK s \in held : u = sessions[s].user
    BY DEF Authenticated
  <2>2. s \in SessionIds /\ Stored(sessions[s])
    BY DEF TypeInv, TypeOK, HeldStored
  <2> QED
    BY <2>1, <2>2 DEF CredInv, AccountsExist, TypeInv, TypeOK, SessionRows, Stored, Opt
<1>7. FitsNext(l)
  BY <1>1, <1>2, <1>3, <1>6 DEF FitsNext, FreshInput, Opens, Exists
<1> QED  BY <1>2, <1>4, <1>5, <1>7, OneFits

LEMMA UserStepCred ==
  ASSUME TypeInv, CredInv, NEW r \in Requests, UserStep(r)
  PROVE  CredInv'
<1> DEFINE l == req[r]
<1>0. /\ l \in LocalStates /\ users \in [UserIds -> UserRows]
      /\ l.pc \notin {"Idle", "Create", "FindByIdentifier", "FindActive"} =>
           l.user \in UserIds
      /\ settled \in [UserIds -> BOOLEAN]
  BY DEF TypeInv, TypeOK, LocalsOK, KnowsUser
<1>1. OnlyRevokes(sessions') /\ lineage' = lineage
  <2>1. OnlyRevokes(sessions)
    BY DEF OnlyRevokes, TypeInv, TypeOK
  <2> QED  BY <2>1, StepGoesOn
<1>b1. CASE Create(r)
  <2>1. PICK id \in UserIds :
          LET reply == RepoCreate(id, l.name, l.email, l.hash)
          IN  /\ users[id] = NoUser
              /\ users' = reply.tab
              /\ \/ reply.ret = "Ok" /\ Continue(r, "Create", [l EXCEPT !.user = id])
                 \/ Answer(r)
    BY <1>b1 DEF Create
  <2>2. l.pc = "Create" /\ settled' = settled
    BY <1>b1 DEF Create, At, history
  <2>3. Steady
    BY <1>0, <2>1, <2>2, CredentialsKept, KeptSteady
  <2>4. CASE Answer(r)
    BY <1>1, <2>3, <2>4, OneFits, IdleFits DEF Answer, Idle
  <2>5. CASE /\ RepoCreate(id, l.name, l.email, l.hash).ret = "Ok"
             /\ Continue(r, "Create", [l EXCEPT !.user = id])
    <3> DEFINE m == [l EXCEPT !.user = id]
    <3>1. m \in LocalStates /\ m.op = l.op /\ m.user = id /\ m.hash = l.hash
      BY <1>0 DEF LocalStates, Opt
    <3>2. users' = [users EXCEPT ![id] = UserRow(l.name, l.email, l.hash)]
      BY <2>1, <2>5 DEF RepoCreate, MemCreate, PgCreate, PgGuarded, Reply
    <3>3. users'[id].status # "absent" /\ users'[id].password_hash = l.hash
      BY <1>0, <3>2 DEF UserRow
    \* nobody revokes the sessions of an account that did not exist
    <3>4. ~RevokeAllOpen(id)
      <4>1. ~Exists(id)
        BY <2>1 DEF Exists, NoUser
      <4> QED
        BY <4>1, NoneAssumption DEF RevokeAllOpen, CredInv, AccountsExist
    <3>5. Continue(r, "Create", m)
      BY <2>5
    <3> HIDE DEF m
    <3>6. FitsNext(m)
      BY <3>1, <3>3, <3>4 DEF FitsNext
    <3> QED  BY <1>1, <2>2, <2>3, <3>1, <3>5, <3>6, GoesFit DEF StageOps
  <2> QED  BY <2>1, <2>4, <2>5
<1>b2. CASE FindByIdentifier(r)
  <2>1. /\ l.pc = "FindByIdentifier" /\ UNCHANGED <<users, settled>>
        /\ \/ Answer(r)
           \/ \E u \in RepoFindByIdentifier(l.name) :
                Continue(r, "FindByIdentifier",
                         Looked(l, u, users[u].password_hash, RevokeAllOpen(u)))
    BY <1>b2 DEF FindByIdentifier, Looked, At, stores, history
  <2>2. Steady
    BY <1>0, <2>1, CredentialsKept, KeptSteady
  <2>3. CASE Answer(r)
    BY <1>1, <2>2, <2>3, OneFits, IdleFits DEF Answer, Idle
  <2>4. ASSUME NEW u \in RepoFindByIdentifier(l.name),
               Continue(r, "FindByIdentifier",
                        Looked(l, u, users[u].password_hash, RevokeAllOpen(u)))
        PROVE  CredInv'
    <3> DEFINE m == Looked(l, u, users[u].password_hash, RevokeAllOpen(u))
    <3>1. u \in UserIds /\ users[u].status # "absent"
      BY <1>0 DEF RepoFindByIdentifier, MemFindByIdentifier, PgFindByIdentifier, Alive
    <3>2. users[u].password_hash \in Opt(Hashes) /\ RevokeAllOpen(u) \in BOOLEAN
      BY <1>0, <3>1 DEF UserRows, RevokeAllOpen
    <3>3. m \in LocalStates /\ m.op = l.op /\ m.user = u
      BY <1>0, <3>1, <3>2, LookupType
    <3>4. m.hash = users[u].password_hash /\ m.late = RevokeAllOpen(u)
      BY <1>0 DEF Looked, LocalStates
    <3>5. Continue(r, "FindByIdentifier", m)
      BY <2>4
    <3> HIDE DEF m
    <3>6. FitsNext(m)
      BY <2>1, <3>1, <3>3, <3>4 DEF FitsNext
    <3> QED  BY <1>1, <2>1, <2>2, <3>3, <3>5, <3>6, GoesFit DEF StageOps
  <2> QED  BY <2>1, <2>3, <2>4
<1>b3. CASE PasswordHash(r)
  <2> DEFINE m == [l EXCEPT !.hash = RepoPasswordHash(l.user)]
  <2>1. l.pc = "PasswordHash" /\ l.user \in UserIds /\ UNCHANGED <<users, settled>>
    BY <1>0, <1>b3 DEF PasswordHash, At, stores, history
  <2>2. RepoPasswordHash(l.user) \in Opt(Hashes)
    BY <1>0, <2>1 DEF RepoPasswordHash, MemPasswordHash, PgPasswordHash, UserRows, Opt
  <2>3. m \in LocalStates /\ m.op = l.op /\ m.user = l.user /\ m.late = l.late
    BY <1>0, <2>2 DEF LocalStates
  <2>4. Answer(r) \/ Continue(r, "PasswordHash", m)
    BY <1>b3 DEF PasswordHash
  <2>5. l.op \in StageOps["PasswordHash"]
    BY <2>1 DEF TypeInv, LocalsOK, InStage
  <2>6. Steady
    BY <1>0, <2>1, CredentialsKept, KeptSteady
  <2> HIDE DEF m
  <2>7. FitsNext(m)
    BY <2>3, <2>5, <2>6, SameFits DEF StageOps
  <2> QED  BY <1>1, <2>1, <2>3, <2>4, <2>6, <2>7, GoesFit DEF StageOps
<1>b4. CASE Verify(r) \/ FindById(r) \/ Update(r) \/ UpdatePassword(r) \/ SoftDelete(r)
  <2>1. PICK step \in {"Verify", "FindById", "Update", "UpdatePassword", "SoftDelete"} :
          l.pc = step /\ (Answer(r) \/ Continue(r, step, l))
    BY <1>b4 DEF Verify, FindById, Update, UpdatePassword, SoftDelete, At
  <2>2. Steady
    <3>1. CASE Verify(r) \/ FindById(r) \/ Update(r) \/ SoftDelete(r)
      BY <1>0, <3>1, CredentialsKept, KeptSteady
      DEF Verify, FindById, Update, SoftDelete, stores, history
    \* a new hash unsettles the account
    <3>2. CASE UpdatePassword(r)
      <4>1. l.pc = "UpdatePassword" /\ l.op = "change_password" /\ l.user \in UserIds
        BY <1>0, <3>2 DEF UpdatePassword, At, TypeInv, LocalsOK, InStage, StageOps
      <4>2. ~Completes(r, "UpdatePassword")
        BY <4>1 DEF Completes, After, IssueSession, Handler, ChangePassword
      <4>3. /\ users' = RepoUpdatePassword(l.user, l.next).tab
            /\ \/ settled' = [settled EXCEPT ![l.user] = FALSE]
               \/ /\ RepoUpdatePassword(l.user, l.next).ret # "Ok"
                  /\ settled' = settled
        BY <3>2, <4>2 DEF UpdatePassword
      <4>4. \A u \in UserIds :
              /\ users'[u].status = users[u].status
              /\ u # l.user => users'[u] = users[u]
        BY <1>0, <4>1, <4>3 DEF RepoUpdatePassword, MemUpdatePassword,
                                PgUpdatePassword, Reply, UserRows
      <4>5. RepoUpdatePassword(l.user, l.next).ret # "Ok" => users' = users
        BY <4>3 DEF RepoUpdatePassword, MemUpdatePassword, PgUpdatePassword, Reply
      <4> QED  BY <1>0, <4>1, <4>3, <4>4, <4>5 DEF Steady, Exists
    <3> QED  BY <1>b4, <3>1, <3>2
  <2>3. FitsNext(l)
    BY <2>2, SameFits
  <2> QED  BY <1>0, <1>1, <2>1, <2>2, <2>3, GoesFit DEF StageOps
<1> QED  BY <1>b1, <1>b2, <1>b3, <1>b4 DEF UserStep

\* Steps that write no password.
LEMMA Unwritten ==
  ASSUME TypeInv, UNCHANGED <<users, settled>>
  PROVE  Steady
BY DEF Steady, Exists

\* A session is found with the credential its lineage goes back to, and
\* marked if a revoke_all may miss what is made of it.
LEMMA FindActiveCred ==
  ASSUME TypeInv, CredInv, NEW r \in Requests, FindActive(r)
  PROVE  CredInv'
<1> DEFINE l == req[r]
           found == RepoFindActive(HashRefresh(l.token), l.at)
<1>1. /\ UNCHANGED <<users, sessions, lineage, settled>> /\ l.pc = "FindActive"
      /\ \/ Answer(r)
         \/ \E s \in found :
              Continue(r, "FindActive",
                Opened(l, s, sessions[s].user, lineage[s].cred, OpenedLate(s)))
  BY DEF FindActive, stores, At, Opened
<1>2. Steady /\ OnlyRevokes(sessions') /\ l \in LocalStates
  BY <1>1, Unwritten DEF OnlyRevokes, TypeInv, TypeOK
<1>3. CASE Answer(r)
  BY <1>1, <1>2, <1>3, OneFits, IdleFits DEF Answer, Idle
<1>4. ASSUME NEW s \in found,
             Continue(r, "FindActive",
               Opened(l, s, sessions[s].user, lineage[s].cred, OpenedLate(s)))
      PROVE  CredInv'
  <2> DEFINE m == Opened(l, s, sessions[s].user, lineage[s].cred, OpenedLate(s))
  <2>1. /\ s \in SessionIds /\ sessions[s] \in SessionRows
        /\ lineage[s] \in Lineages /\ Unrevoked(s)
    BY DEF RepoFindActive, MemFindActive, PgFindActive, TypeInv, TypeOK, Unrevoked
  <2>2. /\ sessions[s].user \in UserIds /\ lineage[s].cred \in Opt(Hashes)
        /\ OpenedLate(s) \in BOOLEAN
    BY <2>1 DEF SessionRows, Lineages, OpenedLate, RevokeAllOpen, Stored, Opt, Unrevoked
  <2>3. m \in LocalStates /\ m.op = l.op /\ m.user = sessions[s].user
    BY <1>2, <2>1, <2>2, OpenedType
  <2>4. m.hash = lineage[s].cred /\ m.late = OpenedLate(s)
    BY <1>2 DEF Opened, LocalStates
  <2>5. /\ Exists(sessions[s].user)
        /\ Fresh(sessions[s].user, lineage[s].cred, lineage[s].late)
    BY <2>1 DEF CredInv, AccountsExist, CredentialsFresh, Unrevoked
  <2>6. Continue(r, "FindActive", m)
    BY <1>4
  <2> HIDE DEF m
  <2>7. FitsNext(m)
    BY <1>1, <2>2, <2>3, <2>4, <2>5 DEF FitsNext, Fresh, Exists, OpenedLate
  <2> QED  BY <1>1, <1>2, <2>3, <2>6, <2>7, GoesFit DEF StageOps
<1> QED  BY <1>1, <1>3, <1>4

LEMMA OtherSessionCred ==
  ASSUME TypeInv, CredInv, NEW r \in Requests,
         Revoke(r) \/ Issue(r) \/ Sign(r) \/ Drop(r)
  PROVE  CredInv'
<1> DEFINE l == req[r]
<1>0. l \in LocalStates /\ now \in Nat
  BY DEF TypeInv, TypeOK
<1>1. /\ UNCHANGED <<users, lineage, settled>>
      /\ OnlyRevokes(sessions')
  <2>1. OnlyRevokes(sessions) /\ sessions \in [SessionIds -> SessionRows]
    BY DEF OnlyRevokes, TypeInv, TypeOK
  <2> QED  BY <2>1, RevokesOnly DEF Revoke, Issue, Sign, Drop, stores, history
<1>2. Steady
  BY <1>1, Unwritten
<1>3. CASE Drop(r)
  BY <1>1, <1>2, <1>3, OneFits, IdleFits DEF Drop, Answer, Idle
<1>4. CASE Revoke(r) \/ Sign(r)
  <2>1. PICK step \in {"Revoke", "Sign"} : l.pc = step /\ Continue(r, step, l)
    BY <1>4 DEF Revoke, Sign, At
  <2>2. FitsNext(l)
    BY <1>2, SameFits
  <2> QED  BY <1>0, <1>1, <1>2, <2>1, <2>2, GoesFit DEF StageOps
<1>5. CASE Issue(r)
  <2> DEFINE m == [l EXCEPT !.at = now]
  <2>1. /\ m \in LocalStates /\ m.op = l.op /\ m.user = l.user
        /\ m.hash = l.hash /\ m.late = l.late
    BY <1>0 DEF LocalStates
  <2>2. l.pc = "Issue" /\ Continue(r, "Issue", m)
    BY <1>5 DEF Issue, At
  <2> HIDE DEF m
  <2>3. FitsNext(m)
    BY <1>2, <2>1, SameFits
  <2> QED  BY <1>1, <1>2, <2>1, <2>2, <2>3, GoesFit DEF StageOps
<1> QED  BY <1>3, <1>4, <1>5

\* The session stored is as fresh as the request that stores it.
LEMMA CreateSessionCred ==
  ASSUME TypeInv, CredInv, NEW r \in Requests, CreateSession(r)
  PROVE  CredInv'
<1> DEFINE l == req[r]
<1>0. /\ l \in LocalStates /\ l.pc = "CreateSession" /\ l.user \in UserIds
      /\ l.op \in {"register", "login", "refresh"}
  BY DEF CreateSession, At, TypeInv, TypeOK, LocalsOK, KnowsUser, InStage, StageOps
<1>1. PICK s \in SessionIds :
        LET reply == RepoSessionCreate(s, l.user, HashRefresh(s), l.at + RefreshTtl)
        IN  /\ ~Stored(sessions[s])
            /\ reply.ret = "Ok"
            /\ sessions' = reply.tab
            /\ Continue(r, "CreateSession", [l EXCEPT !.session = s])
            /\ lineage' = [lineage EXCEPT
                             ![s] = [from |-> l.session, by |-> r,
                                     cred |-> l.hash, late |-> l.late,
                                     closing |-> l.closing]]
  BY DEF CreateSession
<1>2. UNCHANGED <<users, settled>>
  BY DEF CreateSession
<1>3. sessions' = [sessions EXCEPT ![s] =
                     SessionRow(l.user, HashRefresh(s), l.at + RefreshTtl)]
  BY <1>1 DEF RepoSessionCreate, MemSessionCreate, PgSessionCreate, Reply
<1>4. /\ sessions'[s].user = l.user
      /\ lineage'[s].cred = l.hash /\ lineage'[s].late = l.late
      /\ \A x \in SessionIds : x # s =>
           sessions'[x] = sessions[x] /\ lineage'[x] = lineage[x]
  BY <1>1, <1>3 DEF SessionRow, TypeInv, TypeOK
<1> DEFINE m == [l EXCEPT !.session = s, !.pc = "Sign"]
<1>5. req' = [req EXCEPT ![r] = m]
  BY <1>0, <1>1 DEF Continue, Moved, After, IssueSession
<1>6. m.op = l.op /\ m.user = l.user /\ m.hash = l.hash /\ m.late = l.late /\ m.pc = "Sign"
  BY <1>0 DEF LocalStates
<1> HIDE DEF m
<1>7. \A q \in Requests :
        /\ req'[q].user = req[q].user /\ req'[q].op = req[q].op
        /\ req'[q].hash = req[q].hash /\ req'[q].late = req[q].late
        /\ req'[q].pc = "RevokeAllCommit" =>
             req[q].pc = "RevokeAllCommit" /\ req'[q].rows = req[q].rows
  BY <1>5, <1>6 DEF TypeInv, TypeOK
<1>8. Opens(l) /\ Exists(l.user) /\ Fresh(l.user, l.hash, l.late)
  BY <1>0, NoneAssumption DEF Opens, CredInv, AccountsExist, CredentialsFresh
<1>9. AccountsExist'
  BY <1>2, <1>4, <1>7, <1>8 DEF CredInv, AccountsExist, Exists
<1>10. CredentialsFresh'
  BY <1>2, <1>4, <1>7, <1>8 DEF CredInv, CredentialsFresh, Fresh, Unrevoked, Opens
<1>11. RevokesCover'
  BY <1>4, <1>7, <1>8 DEF CredInv, RevokesCover, Unrevoked, Opens, At
<1> QED  BY <1>9, <1>10, <1>11 DEF CredInv

-----------------------------------------------------------------------------
(* revoke_all                                                              *)

\* The other requests of the account are marked, and nothing else happens to
\* them.
LEMMA Marked ==
  ASSUME TypeInv, NEW r \in Requests, NEW u, NEW m, MarkLate(r, u, m)
  PROVE  /\ req'[r] = m
         /\ \A q \in Requests : q # r =>
              /\ req'[q].op = req[q].op /\ req'[q].user = req[q].user
              /\ req'[q].hash = req[q].hash /\ req'[q].pc = req[q].pc
              /\ req'[q].rows = req[q].rows /\ req'[q].closing = req[q].closing
              /\ req[q].late => req'[q].late
              /\ req[q].user = u => req'[q].late
BY DEF MarkLate, Overlapped, TypeInv, TypeOK, LocalStates

\* Where revoke_all takes effect, the sessions of the account it leaves
\* unrevoked are marked.
LEMMA SweepLeaves ==
  ASSUME TypeInv, CredInv, NEW r \in Requests, RevokesAll(r)
  PROVE  /\ OnlyRevokes(sessions')
         /\ \A s \in SessionIds :
              Unrevoked(s)' =>
                Unrevoked(s) /\ (sessions[s].user = req[r].user => lineage[s].late)
<1> DEFINE l == req[r]
<1>0. /\ l \in LocalStates /\ l.user \in UserIds
      /\ sessions \in [SessionIds -> SessionRows]
  BY DEF RevokesAll, RevokeAll, RevokeAllCommit, At, TypeInv, TypeOK, LocalsOK, KnowsUser
<1>1. OnlyRevokes(sessions')
  BY <1>0, RevokesOnly DEF RevokesAll, RevokeAll, RevokeAllCommit
<1>2. \A s \in SessionIds : Unrevoked(s)' => Unrevoked(s)
  BY <1>1 DEF OnlyRevokes, Unrevoked, Stored
<1>3. ASSUME NEW s \in SessionIds, Unrevoked(s)', sessions[s].user = l.user
      PROVE  lineage[s].late
  <2>1. CASE RevokeAllCommit(r)
    <3>1. s \notin l.rows
      BY <1>0, <1>3, <2>1 DEF RevokeAllCommit, PgRevokeRows, Unrevoked, SessionRows
    <3> QED
      BY <1>2, <1>3, <2>1, <3>1 DEF RevokeAllCommit, CredInv, RevokesCover
  <2>2. CASE RevokeAll(r) /\ Memory
    <3>1. sessions' = MemRevokeAll(sessions, l.user, None)
      BY <2>2 DEF RevokeAll
    <3>2. s # None /\ sessions[s].user = l.user /\ DOMAIN sessions = SessionIds
      BY <1>0, <1>3, NoneAssumption
    <3>3. sessions'[s] = [sessions[s] EXCEPT !.revoked = TRUE]
      BY <3>1, <3>2 DEF MemRevokeAll
    <3>4. sessions'[s].revoked
      BY <1>0, <3>3 DEF SessionRows
    <3> QED  BY <1>3, <3>4 DEF Unrevoked
  <2> QED  BY <2>1, <2>2 DEF RevokesAll
<1> QED  BY <1>1, <1>2, <1>3

LEMMA RevokeAllCred ==
  ASSUME TypeInv, CredInv, NEW r \in Requests, RevokeAll(r) \/ RevokeAllCommit(r)
  PROVE  CredInv'
<1> DEFINE l == req[r]
<1>0. /\ l \in LocalStates /\ l.user \in UserIds /\ l.op \in StageOps["RevokeAll"]
      /\ sessions \in [SessionIds -> SessionRows] /\ settled \in [UserIds -> BOOLEAN]
  BY DEF RevokeAll, RevokeAllCommit, At, TypeInv, TypeOK, LocalsOK, KnowsUser,
         InStage, StageOps
<1>1. UNCHANGED <<users, lineage>>
  BY DEF RevokeAll, RevokeAllCommit
\* While it waits for its commit the request has the rows it found.
<1>2. CASE RevokeAll(r) /\ ~Memory
  <2> DEFINE m == [l EXCEPT !.pc = "RevokeAllCommit",
                            !.rows = PgRevokeAllRows(sessions, l.user, None)]
  <2>1. MarkLate(r, l.user, m) /\ UNCHANGED <<sessions, settled>>
    BY <1>2 DEF RevokeAll
  <2>2. /\ m.op = l.op /\ m.user = l.user
        /\ m.rows = PgRevokeAllRows(sessions, l.user, None)
    BY <1>0 DEF LocalStates
  <2> HIDE DEF m
  <2>3. /\ req'[r] = m
        /\ \A q \in Requests : q # r =>
              /\ req'[q].op = req[q].op /\ req'[q].user = req[q].user
              /\ req'[q].hash = req[q].hash /\ req'[q].pc = req[q].pc
              /\ req'[q].rows = req[q].rows
              /\ req[q].late => req'[q].late
              /\ req[q].user = l.user => req'[q].late
    BY <2>1, Marked
  <2>4. ~Opens(m)
    BY <1>0, <2>2 DEF Opens, StageOps
  <2>5. AccountsExist'
    BY <1>1, <2>1, <2>2, <2>3 DEF CredInv, AccountsExist, Exists
  <2>6. CredentialsFresh'
    BY <1>1, <2>1, <2>3, <2>4 DEF CredInv, CredentialsFresh, Fresh, Unrevoked, Opens
  <2>7. ASSUME NEW s \in SessionIds, Unrevoked(s), sessions[s].user = l.user
        PROVE  s \in m.rows
    BY <1>0, <2>2, <2>7, NoneAssumption DEF PgRevokeAllRows, Unrevoked
  <2>8. ASSUME NEW q \in Requests, req'[q].pc = "RevokeAllCommit"
        PROVE  /\ \A p \in Requests :
                    Opens(req'[p]) /\ req'[p].user = req'[q].user => req'[p].late
               /\ \A s \in SessionIds :
                    Unrevoked(s) /\ sessions[s].user = req'[q].user =>
                      s \in req'[q].rows \/ lineage[s].late
    <3>1. CASE q = r
      BY <2>2, <2>3, <2>4, <2>7, <3>1 DEF Opens
    <3>2. CASE q # r
      BY <2>2, <2>3, <2>4, <2>8, <3>2 DEF CredInv, RevokesCover, Opens, At
    <3> QED  BY <3>1, <3>2
  <2>9. RevokesCover'
    BY <1>1, <2>1, <2>8 DEF RevokesCover, Unrevoked, Opens, At
  <2> QED  BY <2>5, <2>6, <2>9 DEF CredInv
\* Where it returns every session of the account is revoked or marked.
<1>3. CASE RevokeAllCommit(r) \/ (RevokeAll(r) /\ Memory)
  <2>1. PICK k \in LocalStates :
          k.op = l.op /\ k.user = l.user /\ MarkLate(r, l.user, Moved("RevokeAll", k))
    <3>1. CASE RevokeAllCommit(r)
      <4>1. [l EXCEPT !.rows = {}] \in LocalStates
        BY <1>0 DEF LocalStates
      <4> QED  BY <1>0, <3>1, <4>1 DEF RevokeAllCommit, LocalStates
    <3>2. CASE RevokeAll(r) /\ Memory
      BY <1>0, <3>2 DEF RevokeAll
    <3> QED  BY <1>3, <3>1, <3>2
  <2> DEFINE m == Moved("RevokeAll", k)
  <2>2. /\ m.user \in {l.user, None} /\ ~Opens(m)
        /\ m.pc # "RevokeAllCommit"
    <3>1. CASE m = Idle
      BY <3>1 DEF Idle, Opens
    <3>2. CASE m = [k EXCEPT !.pc = After(k.op, "RevokeAll")]
      <4>1. m.user = k.user /\ m.op = k.op /\ m.pc = After(k.op, "RevokeAll")
        BY <3>2 DEF LocalStates
      <4>2. After(k.op, "RevokeAll") # "RevokeAllCommit"
        BY <1>0, <2>1 DEF StageOps, After, IssueSession, Handler, LogoutAll,
                          DeleteMe, ChangePassword
      <4> HIDE DEF m
      <4> QED  BY <1>0, <2>1, <4>1, <4>2 DEF Opens, StageOps
    <3> QED  BY <3>1, <3>2 DEF Moved
  <2>3. MarkLate(r, l.user, m)
    BY <2>1
  <2> HIDE DEF m
  <2>4. /\ req'[r] = m
        /\ \A q \in Requests : q # r =>
              /\ req'[q].op = req[q].op /\ req'[q].user = req[q].user
              /\ req'[q].hash = req[q].hash /\ req'[q].pc = req[q].pc
              /\ req'[q].rows = req[q].rows
              /\ req[q].late => req'[q].late
              /\ req[q].user = l.user => req'[q].late
    BY <2>3, Marked
  <2>5. /\ OnlyRevokes(sessions')
        /\ \A s \in SessionIds :
             Unrevoked(s)' => Unrevoked(s) /\ (sessions[s].user = l.user => lineage[s].late)
    BY <1>3, SweepLeaves DEF RevokesAll
  <2>6. \A s \in SessionIds : /\ sessions'[s].user = sessions[s].user
                              /\ Stored(sessions'[s]) <=> Stored(sessions[s])
    BY <2>5 DEF OnlyRevokes, Stored
  <2>7. \A u \in UserIds : u # l.user => settled'[u] = settled[u]
    BY <1>0, <1>3 DEF RevokeAll, RevokeAllCommit
  <2>8. AccountsExist'
    BY <1>1, <2>2, <2>4, <2>6 DEF CredInv, AccountsExist, Exists
  <2>9. CredentialsFresh'
    <3>1. ASSUME NEW s \in SessionIds, Unrevoked(s)'
          PROVE  Fresh(sessions[s].user, lineage[s].cred, lineage[s].late)'
      <4>1. sessions[s].user \in UserIds
        BY <1>0, <2>5, <3>1 DEF Unrevoked, Stored, SessionRows, Opt
      <4> QED
        BY <1>1, <2>5, <2>6, <2>7, <3>1, <4>1 DEF CredInv, CredentialsFresh, Fresh
    <3>2. ASSUME NEW q \in Requests, Opens(req'[q])
          PROVE  Fresh(req[q].user, req[q].hash, req[q].late)'
      <4>1. q # r /\ Opens(req[q]) /\ req[q].user \in UserIds
        BY <2>2, <2>4, <3>2 DEF Opens, TypeInv, TypeOK, LocalStates, Opt
      <4> QED
        BY <1>1, <2>4, <2>7, <4>1 DEF CredInv, CredentialsFresh, Fresh
    <3> QED  BY <3>1, <3>2 DEF CredentialsFresh, Opens
  <2>10. RevokesCover'
    <3> SUFFICES ASSUME NEW q \in Requests, req'[q].pc = "RevokeAllCommit"
                 PROVE  /\ \A p \in Requests :
                             Opens(req'[p]) /\ req'[p].user = req'[q].user => req'[p].late
                        /\ \A s \in SessionIds :
                             Unrevoked(s)' /\ sessions'[s].user = req'[q].user =>
                               s \in req'[q].rows \/ lineage'[s].late
      BY DEF RevokesCover, Opens, At
    <3> QED
      BY <1>1, <2>2, <2>4, <2>5, <2>6 DEF CredInv, RevokesCover, Opens, At
  <2> QED  BY <2>8, <2>9, <2>10 DEF CredInv
<1> QED  BY <1>2, <1>3

-----------------------------------------------------------------------------

LEMMA CredStep == TypeInv /\ CredInv /\ [Next]_vars => CredInv'
<1> SUFFICES ASSUME TypeInv, CredInv, [Next]_vars PROVE CredInv'
  OBVIOUS
<1>1. CASE Tick \/ SetBack \/ UNCHANGED vars
  BY <1>1 DEF Tick, SetBack, vars, stores, history, CredInv, AccountsExist,
              CredentialsFresh, RevokesCover, Exists, Fresh, Unrevoked, Opens, At
<1>2. ASSUME NEW r \in Requests, SessionStep(r) PROVE CredInv'
  BY <1>2, FindActiveCred, OtherSessionCred, CreateSessionCred, RevokeAllCred
  DEF SessionStep
<1> QED
  BY <1>1, <1>2, CallCred, UserStepCred, OtherSessionCred DEF Next

\* However many requests overlap change_password and wherever they or it
\* fail, a live session of a settled account goes back to the account's
\* password, or to a request that was in flight during a revoke_all: nothing
\* that starts once the hash is replaced, or ends before the sessions are
\* revoked, slips through.
THEOREM OverlapAloneSurvives == Spec => []OnlyOverlapSurvives
<1>1. CredInv => OnlyOverlapSurvives
  BY DEF CredInv, CredentialsFresh, OnlyOverlapSurvives, Live, Unrevoked, Fresh
<1> QED
  BY <1>1, InitType, TypeInvStep, CredInit, CredStep, PTL DEF Spec

\* revoke_all (logout_all, delete_me, change_password): whatever overlaps the
\* step with which it takes effect, the sessions of the account that stay
\* unrevoked go back to a request in flight during a revoke_all.
THEOREM SweepIsComplete == Spec => RevokeAllSweeps
<1> DEFINE Sweeps ==
             \A r \in Requests : RevokesAll(r) =>
               \A s \in SessionIds :
                 /\ Stored(sessions'[s]) /\ ~sessions'[s].revoked
                 /\ sessions'[s].user = req[r].user
                 => lineage[s].late
<1>1. TypeInv /\ CredInv => [Sweeps]_vars
  BY SweepLeaves DEF OnlyRevokes, Unrevoked
<1> QED
  BY <1>1, InitType, TypeInvStep, CredInit, CredStep, PTL DEF RevokeAllSweeps, Spec

-----------------------------------------------------------------------------
(* What outlives a deleted account                                         *)

\* The history of a request or a session excuses it from a deletion.
Excused(h) == h.late \/ h.closing

\* delete_me has revoked the sessions of the account, for this deletion or an
\* earlier one.
Over(u) == users[u].status = "deleted" \/ Closing(u)

\* From there on whoever opens a session for the account, and every session
\* of it that is not revoked, is excused.
DeletionInv ==
    \A u \in UserIds : Over(u) =>
      /\ \A q \in Requests : Opens(req[q]) /\ req[q].user = u => Excused(req[q])
      /\ \A s \in SessionIds :
           Unrevoked(s) /\ sessions[s].user = u => Excused(lineage[s])

LEMMA DeletionInit == Init => DeletionInv
BY DEF Init, DeletionInv, Over, Closing, NoUser, NoSession, Idle, At, Unrevoked,
       Stored, Opens

\* The request r goes on, or answers, without beginning a deletion.
LEMMA OneDeletion ==
  ASSUME TypeInv, DeletionInv, OnlyRevokes(sessions'), lineage' = lineage,
         \A u \in UserIds : users'[u].status = "deleted" => Over(u),
         NEW r \in Requests, NEW m, req' = [req EXCEPT ![r] = m],
         m.pc # "SoftDelete",
         Opens(m) => m.user \in UserIds /\ (Over(m.user) => Excused(m))
  PROVE  DeletionInv'
<1>1. req'[r] = m /\ \A q \in Requests : q # r => req'[q] = req[q]
  BY DEF TypeInv, TypeOK
<1>2. ASSUME NEW u \in UserIds, Over(u)' PROVE Over(u)
  BY <1>1, <1>2 DEF Over, Closing, At
<1>3. \A s \in SessionIds :
        Unrevoked(s)' => Unrevoked(s) /\ sessions'[s].user = sessions[s].user
  BY DEF OnlyRevokes, Unrevoked, Stored
<1>4. ASSUME NEW u \in UserIds, Over(u)',
             NEW q \in Requests, Opens(req'[q]), req'[q].user = u
      PROVE  Excused(req'[q])
  <2>1. CASE q = r
    BY <1>1, <1>2, <1>4, <2>1
  <2>2. CASE q # r
    BY <1>1, <1>2, <1>4, <2>2 DEF DeletionInv
  <2> QED  BY <2>1, <2>2
<1>5. ASSUME NEW u \in UserIds, Over(u)',
             NEW s \in SessionIds, Unrevoked(s)', sessions'[s].user = u
      PROVE  Excused(lineage'[s])
  BY <1>2, <1>3, <1>5 DEF DeletionInv
<1> QED  BY <1>4, <1>5 DEF DeletionInv, Opens, Excused

LEMMA IdleOpensNothing == Idle.pc # "SoftDelete" /\ ~Opens(Idle)
BY DEF Idle, Opens

LEMMA GoesDeletion ==
  ASSUME TypeInv, DeletionInv, OnlyRevokes(sessions'), lineage' = lineage,
         \A u \in UserIds : users'[u].status = "deleted" => Over(u),
         NEW r \in Requests,
         NEW step \in DOMAIN StageOps \ {"RevokeAll", "RevokeAllCommit"},
         req[r].pc = step, NEW m \in LocalStates, m.op = req[r].op,
         Opens(m) => m.user \in UserIds /\ (Over(m.user) => Excused(m)),
         Answer(r) \/ Continue(r, step, m)
  PROVE  DeletionInv'
<1>1. CASE Answer(r)
  BY <1>1, OneDeletion, IdleOpensNothing DEF Answer
<1>2. CASE Continue(r, step, m)
  <2> DEFINE l == Moved(step, m)
  <2>1. m.op \in StageOps[step]
    BY DEF TypeInv, LocalsOK, InStage, StageOps
  <2>2. After(m.op, step) # "SoftDelete"
    BY <2>1 DEF StageOps, After, IssueSession, Handler, Register, Login, Refresh,
           Logout, LogoutAll, UpdateMe, DeleteMe, ChangePassword
  <2>3. /\ l.pc # "SoftDelete"
        /\ Opens(l) => l.user \in UserIds /\ (Over(l.user) => Excused(l))
    <3>1. CASE l = Idle
      <4> HIDE DEF l
      <4> QED  BY <3>1, IdleOpensNothing
    <3>2. CASE l = [m EXCEPT !.pc = After(m.op, step)]
      <4>1. /\ l.op = m.op /\ l.user = m.user /\ l.late = m.late
            /\ l.closing = m.closing /\ l.pc = After(m.op, step)
        BY <3>2 DEF LocalStates
      <4> HIDE DEF l
      <4> QED  BY <2>2, <4>1 DEF Opens, Excused
    <3> QED  BY <3>1, <3>2 DEF Moved
  <2>4. req' = [req EXCEPT ![r] = l]
    BY <1>2 DEF Continue
  <2> HIDE DEF l
  <2> QED  BY <2>3, <2>4, OneDeletion
<1> QED  BY <1>1, <1>2

\* A request that keeps its account and its history has the excuse it had.
LEMMA KeepsExcuse ==
  ASSUME TypeInv, DeletionInv, NEW r \in Requests, NEW m,
         m.op = req[r].op, m.user = req[r].user, m.late = req[r].late,
         m.closing = req[r].closing, Opens(m)
  PROVE  m.user \in UserIds /\ (Over(m.user) => Excused(m))
<1>1. req[r].user \in UserIds /\ Opens(req[r])
  BY DEF Opens, TypeInv, TypeOK, LocalStates, Opt
<1>2. Over(req[r].user) => Excused(req[r])
  BY <1>1 DEF DeletionInv
<1> QED  BY <1>1, <1>2 DEF Excused

LEMMA CallDeletion ==
  ASSUME TypeInv, DeletionInv, NEW r \in Requests, Call(r)
  PROVE  DeletionInv'
<1>op. PICK op \in CallNames :
         \E input : Begin(r, op, input) /\ FreshInput(op, input)
  BY CallBegins
<1>1. PICK input : Begin(r, op, input) /\ FreshInput(op, input)
  BY <1>op
<1> DEFINE l == [input EXCEPT !.op = op, !.pc = Handler[op]["Begin"],
                              !.gone = Deleted]
<1>2. req' = [req EXCEPT ![r] = l] /\ UNCHANGED <<users, sessions, lineage>>
  BY <1>1 DEF Begin
<1>3. l.op = op /\ l.pc = Handler[op]["Begin"] /\ l.user = input.user
  BY <1>1 DEF FreshInput, LocalStates
<1>4. l.pc # "SoftDelete"
  BY <1>3 DEF Handler, CallNames, Register, Login, Refresh, Logout, LogoutAll,
              UpdateMe, DeleteMe, ChangePassword
<1>5. ~Opens(l)
  BY <1>1, <1>3 DEF FreshInput, Opens
<1>6. /\ OnlyRevokes(sessions')
      /\ \A u \in UserIds : users'[u].status = "deleted" => Over(u)
  BY <1>2 DEF OnlyRevokes, TypeInv, TypeOK, Over
<1> HIDE DEF l
<1> QED  BY <1>2, <1>4, <1>5, <1>6, OneDeletion

\* An account that a step on the user store deletes was being closed.
LEMMA DeletedWereClosing ==
  ASSUME TypeInv, NEW r \in Requests, UserStep(r)
  PROVE  \A u \in UserIds : users'[u].status = "deleted" => Over(u)
<1>0. users \in [UserIds -> UserRows]
  BY DEF TypeInv, TypeOK
<1>1. ASSUME NEW u \in UserIds, users'[u].status = "deleted", ~SoftDelete(r)
      PROVE  users[u].status = "deleted"
  <2>1. CASE UNCHANGED users
    BY <1>1, <2>1
  <2>2. CASE Create(r)
    BY <1>0, <1>1, <2>2 DEF Create, RepoCreate, MemCreate, PgCreate, PgGuarded,
                            Reply, UserRow
  <2>3. CASE Update(r)
    <3>1. ASSUME NEW id, NEW name, NEW email,
                 users' = [users EXCEPT ![id].username = name, ![id].email = email]
          PROVE  users[u].status = "deleted"
      BY <1>0, <1>1, <3>1 DEF UserRows
    <3> QED
      BY <1>1, <2>3, <3>1 DEF Update, RepoUpdate, MemUpdate, PgUpdate, PgGuarded, Reply
  <2>4. CASE UpdatePassword(r)
    BY <1>0, <1>1, <2>4 DEF UpdatePassword, RepoUpdatePassword, MemUpdatePassword,
                            PgUpdatePassword, Reply, UserRows
  <2> QED
    BY <1>1, <2>1, <2>2, <2>3, <2>4
    DEF UserStep, FindByIdentifier, PasswordHash, Verify, FindById, stores
<1>2. ASSUME NEW u \in UserIds, users'[u].status = "deleted", SoftDelete(r)
      PROVE  Over(u)
  <2>1. /\ At(r, "SoftDelete")
        /\ users' = users \/ users' = [users EXCEPT ![req[r].user].status = "deleted"]
    BY <1>2 DEF SoftDelete, RepoSoftDelete, MemSoftDelete, PgSoftDelete, Reply
  <2> QED  BY <1>0, <1>2, <2>1 DEF Over, Closing
<1> QED  BY <1>1, <1>2 DEF Over

LEMMA UserStepDeletion ==
  ASSUME TypeInv, CredInv, DeletionInv, NEW r \in Requests, UserStep(r)
  PROVE  DeletionInv'
<1> DEFINE l == req[r]
<1>0. l \in LocalStates /\ users \in [UserIds -> UserRows]
  BY DEF TypeInv, TypeOK
<1>1. OnlyRevokes(sessions') /\ lineage' = lineage
  <2>1. OnlyRevokes(sessions)
    BY DEF OnlyRevokes, TypeInv, TypeOK
  <2> QED  BY <2>1, StepGoesOn
<1>2. \A u \in UserIds : users'[u].status = "deleted" => Over(u)
  BY DeletedWereClosing
<1>a. CASE Answer(r)
  BY <1>1, <1>2, <1>a, OneDeletion, IdleOpensNothing DEF Answer
\* An account that did not exist is nobody's to delete.
<1>b1. CASE Create(r)
  <2>1. PICK id \in UserIds :
          /\ users[id] = NoUser
          /\ Answer(r) \/ Continue(r, "Create", [l EXCEPT !.user = id])
    BY <1>b1 DEF Create
  <2> DEFINE m == [l EXCEPT !.user = id]
  <2>2. m \in LocalStates /\ m.op = l.op /\ m.user = id
    BY <1>0 DEF LocalStates, Opt
  <2>3. ~Over(id)
    <3>1. ~Exists(id)
      BY <2>1 DEF Exists, NoUser
    <3> QED
      BY <2>1, <3>1, NoneAssumption DEF Over, Closing, NoUser, CredInv, AccountsExist
  <2>4. l.pc = "Create" /\ (Answer(r) \/ Continue(r, "Create", m))
    BY <1>b1, <2>1 DEF Create, At
  <2> HIDE DEF m
  <2> QED  BY <1>1, <1>2, <2>2, <2>3, <2>4, GoesDeletion DEF StageOps
<1>b2. CASE FindByIdentifier(r)
  <2>1. \/ Answer(r)
        \/ \E u \in RepoFindByIdentifier(l.name) :
             Continue(r, "FindByIdentifier",
                      Looked(l, u, users[u].password_hash, RevokeAllOpen(u)))
    BY <1>b2 DEF FindByIdentifier, Looked
  <2>2. ASSUME NEW u \in RepoFindByIdentifier(l.name),
               Continue(r, "FindByIdentifier",
                        Looked(l, u, users[u].password_hash, RevokeAllOpen(u)))
        PROVE  DeletionInv'
    <3> DEFINE m == Looked(l, u, users[u].password_hash, RevokeAllOpen(u))
    <3>1. u \in UserIds /\ Alive(users[u])
      BY <1>0 DEF RepoFindByIdentifier, MemFindByIdentifier, PgFindByIdentifier
    <3>2. users[u].password_hash \in Opt(Hashes) /\ RevokeAllOpen(u) \in BOOLEAN
      BY <1>0, <3>1 DEF UserRows, RevokeAllOpen
    <3>3. m \in LocalStates /\ m.op = l.op /\ m.user = u
      BY <1>0, <3>1, <3>2, LookupType
    <3>4. m.closing = Closing(u)
      BY <1>0 DEF Looked, LocalStates
    <3>5. Continue(r, "FindByIdentifier", m) /\ l.pc = "FindByIdentifier"
      BY <1>b2, <2>2 DEF FindByIdentifier, At
    <3> HIDE DEF m
    <3>6. Over(m.user) => Excused(m)
      BY <3>1, <3>3, <3>4 DEF Over, Alive, Excused
    <3> QED  BY <1>1, <1>2, <3>1, <3>3, <3>5, <3>6, GoesDeletion DEF StageOps
  <2> QED  BY <1>a, <2>1, <2>2
<1>b3. CASE PasswordHash(r)
  <2> DEFINE m == [l EXCEPT !.hash = RepoPasswordHash(l.user)]
  <2>1. l.pc = "PasswordHash" /\ l.user \in UserIds
    BY <1>b3 DEF PasswordHash, At, TypeInv, LocalsOK, KnowsUser
  <2>2. RepoPasswordHash(l.user) \in Opt(Hashes)
    BY <1>0, <2>1 DEF RepoPasswordHash, MemPasswordHash, PgPasswordHash, UserRows, Opt
  <2>3. /\ m \in LocalStates /\ m.op = l.op /\ m.user = l.user /\ m.late = l.late
        /\ m.closing = l.closing
    BY <1>0, <2>2 DEF LocalStates
  <2>4. Answer(r) \/ Continue(r, "PasswordHash", m)
    BY <1>b3 DEF PasswordHash
  <2> HIDE DEF m
  <2>5. Opens(m) => m.user \in UserIds /\ (Over(m.user) => Excused(m))
    BY <2>3, KeepsExcuse
  <2> QED  BY <1>1, <1>2, <2>1, <2>3, <2>4, <2>5, GoesDeletion DEF StageOps
<1>b4. CASE Verify(r) \/ FindById(r) \/ Update(r) \/ UpdatePassword(r) \/ SoftDelete(r)
  <2>1. PICK step \in {"Verify", "FindById", "Update", "UpdatePassword", "SoftDelete"} :
          l.pc = step /\ (Answer(r) \/ Continue(r, step, l))
    BY <1>b4 DEF Verify, FindById, Update, UpdatePassword, SoftDelete, At
  <2>2. Opens(l) => l.user \in UserIds /\ (Over(l.user) => Excused(l))
    BY KeepsExcuse
  <2> QED  BY <1>0, <1>1, <1>2, <2>1, <2>2, GoesDeletion DEF StageOps
<1> QED  BY <1>b1, <1>b2, <1>b3, <1>b4 DEF UserStep

\* What is made of a session has the session's excuse.
LEMMA FindActiveDeletion ==
  ASSUME TypeInv, DeletionInv, NEW r \in Requests, FindActive(r)
  PROVE  DeletionInv'
<1> DEFINE l == req[r]
           found == RepoFindActive(HashRefresh(l.token), l.at)
<1>1. /\ UNCHANGED <<users, sessions, lineage>> /\ l.pc = "FindActive"
      /\ \/ Answer(r)
         \/ \E s \in found :
              Continue(r, "FindActive",
                Opened(l, s, sessions[s].user, lineage[s].cred, OpenedLate(s)))
  BY DEF FindActive, stores, At, Opened
<1>2. /\ OnlyRevokes(sessions') /\ l \in LocalStates
      /\ \A u \in UserIds : users'[u].status = "deleted" => Over(u)
  BY <1>1 DEF OnlyRevokes, TypeInv, TypeOK, Over
<1>3. CASE Answer(r)
  BY <1>1, <1>2, <1>3, OneDeletion, IdleOpensNothing DEF Answer
<1>4. ASSUME NEW s \in found,
             Continue(r, "FindActive",
               Opened(l, s, sessions[s].user, lineage[s].cred, OpenedLate(s)))
      PROVE  DeletionInv'
  <2> DEFINE m == Opened(l, s, sessions[s].user, lineage[s].cred, OpenedLate(s))
  <2>1. /\ s \in SessionIds /\ sessions[s] \in SessionRows
        /\ lineage[s] \in Lineages /\ Unrevoked(s)
    BY DEF RepoFindActive, MemFindActive, PgFindActive, TypeInv, TypeOK, Unrevoked
  <2>2. /\ sessions[s].user \in UserIds /\ lineage[s].cred \in Opt(Hashes)
        /\ OpenedLate(s) \in BOOLEAN
    BY <2>1 DEF SessionRows, Lineages, OpenedLate, RevokeAllOpen, Stored, Opt, Unrevoked
  <2>3. m \in LocalStates /\ m.op = l.op /\ m.user = sessions[s].user
    BY <1>2, <2>1, <2>2, OpenedType
  <2>4. m.late = OpenedLate(s) /\ m.closing = lineage[s].closing
    BY <1>2 DEF Opened, LocalStates
  <2>5. Over(sessions[s].user) => Excused(lineage[s])
    BY <2>1, <2>2 DEF DeletionInv
  <2>6. Continue(r, "FindActive", m)
    BY <1>4
  <2> HIDE DEF m
  <2>7. Over(m.user) => Excused(m)
    BY <2>3, <2>4, <2>5 DEF Excused, OpenedLate
  <2> QED  BY <1>1, <1>2, <2>2, <2>3, <2>6, <2>7, GoesDeletion DEF StageOps
<1> QED  BY <1>1, <1>3, <1>4

LEMMA OtherSessionDeletion ==
  ASSUME TypeInv, DeletionInv, NEW r \in Requests,
         Revoke(r) \/ Issue(r) \/ Sign(r) \/ Drop(r)
  PROVE  DeletionInv'
<1> DEFINE l == req[r]
<1>0. l \in LocalStates /\ now \in Nat
  BY DEF TypeInv, TypeOK
<1>1. UNCHANGED <<users, lineage>> /\ OnlyRevokes(sessions')
  <2>1. OnlyRevokes(sessions) /\ sessions \in [SessionIds -> SessionRows]
    BY DEF OnlyRevokes, TypeInv, TypeOK
  <2> QED  BY <2>1, RevokesOnly DEF Revoke, Issue, Sign, Drop, stores, history
<1>2. \A u \in UserIds : users'[u].status = "deleted" => Over(u)
  BY <1>1 DEF Over
<1>3. CASE Drop(r)
  BY <1>1, <1>2, <1>3, OneDeletion, IdleOpensNothing DEF Drop, Answer
<1>4. CASE Revoke(r) \/ Sign(r)
  <2>1. PICK step \in {"Revoke", "Sign"} : l.pc = step /\ Continue(r, step, l)
    BY <1>4 DEF Revoke, Sign, At
  <2>2. Opens(l) => l.user \in UserIds /\ (Over(l.user) => Excused(l))
    BY KeepsExcuse
  <2> QED  BY <1>0, <1>1, <1>2, <2>1, <2>2, GoesDeletion DEF StageOps
<1>5. CASE Issue(r)
  <2> DEFINE m == [l EXCEPT !.at = now]
  <2>1. /\ m \in LocalStates /\ m.op = l.op /\ m.user = l.user
        /\ m.late = l.late /\ m.closing = l.closing
    BY <1>0 DEF LocalStates
  <2>2. l.pc = "Issue" /\ Continue(r, "Issue", m)
    BY <1>5 DEF Issue, At
  <2> HIDE DEF m
  <2>3. Opens(m) => m.user \in UserIds /\ (Over(m.user) => Excused(m))
    BY <2>1, KeepsExcuse
  <2> QED  BY <1>1, <1>2, <2>1, <2>2, <2>3, GoesDeletion DEF StageOps
<1> QED  BY <1>3, <1>4, <1>5

\* The session stored has the excuse of the request that stores it.
LEMMA CreateSessionDeletion ==
  ASSUME TypeInv, DeletionInv, NEW r \in Requests, CreateSession(r)
  PROVE  DeletionInv'
<1> DEFINE l == req[r]
<1>0. /\ l \in LocalStates /\ l.pc = "CreateSession" /\ l.user \in UserIds
      /\ l.op \in {"register", "login", "refresh"}
  BY DEF CreateSession, At, TypeInv, TypeOK, LocalsOK, KnowsUser, InStage, StageOps
<1>1. PICK s \in SessionIds :
        LET reply == RepoSessionCreate(s, l.user, HashRefresh(s), l.at + RefreshTtl)
        IN  /\ ~Stored(sessions[s])
            /\ reply.ret = "Ok"
            /\ sessions' = reply.tab
            /\ Continue(r, "CreateSession", [l EXCEPT !.session = s])
            /\ lineage' = [lineage EXCEPT
                             ![s] = [from |-> l.session, by |-> r,
                                     cred |-> l.hash, late |-> l.late,
                                     closing |-> l.closing]]
  BY DEF CreateSession
<1>2. users' = users
  BY DEF CreateSession
<1>3. sessions' = [sessions EXCEPT ![s] =
                     SessionRow(l.user, HashRefresh(s), l.at + RefreshTtl)]
  BY <1>1 DEF RepoSessionCreate, MemSessionCreate, PgSessionCreate, Reply
<1>4. /\ sessions'[s].user = l.user
      /\ lineage'[s].late = l.late /\ lineage'[s].closing = l.closing
      /\ \A x \in SessionIds : x # s =>
           sessions'[x] = sessions[x] /\ lineage'[x] = lineage[x]
  BY <1>1, <1>3 DEF SessionRow, TypeInv, TypeOK
<1> DEFINE m == [l EXCEPT !.session = s, !.pc = "Sign"]
<1>5. req' = [req EXCEPT ![r] = m]
  BY <1>0, <1>1 DEF Continue, Moved, After, IssueSession
<1>6. /\ m.op = l.op /\ m.user = l.user /\ m.late = l.late
      /\ m.closing = l.closing /\ m.pc = "Sign"
  BY <1>0 DEF LocalStates
<1> HIDE DEF m
<1>7. \A q \in Requests :
        /\ req'[q].user = req[q].user /\ req'[q].op = req[q].op
        /\ req'[q].late = req[q].late /\ req'[q].closing = req[q].closing
        /\ req'[q].pc = "SoftDelete" => req[q].pc = "SoftDelete"
  BY <1>5, <1>6 DEF TypeInv, TypeOK
<1>8. \A u \in UserIds : Over(u)' => Over(u)
  BY <1>2, <1>7 DEF Over, Closing, At
<1>9. Opens(l) /\ (Over(l.user) => Excused(l))
  BY <1>0, NoneAssumption DEF Opens, DeletionInv
<1>10. ASSUME NEW u \in UserIds, Over(u)',
              NEW q \in Requests, Opens(req[q])', req'[q].user = u
       PROVE  Excused(req[q])'
  BY <1>7, <1>8, <1>10 DEF DeletionInv, Opens, Excused
<1>11. ASSUME NEW u \in UserIds, Over(u)',
              NEW x \in SessionIds, Unrevoked(x)', sessions'[x].user = u
       PROVE  Excused(lineage[x])'
  <2>1. CASE x = s
    BY <1>4, <1>8, <1>9, <1>11, <2>1 DEF Excused
  <2>2. CASE x # s
    BY <1>4, <1>8, <1>11, <2>2 DEF DeletionInv, Excused, Unrevoked
  <2> QED  BY <2>1, <2>2
<1> QED  BY <1>10, <1>11 DEF DeletionInv

\* The revoke_all of a delete_me leaves no session of the account, and no
\* request about to open one, without an excuse.
LEMMA RevokeAllDeletion ==
  ASSUME TypeInv, CredInv, DeletionInv, NEW r \in Requests,
         RevokeAll(r) \/ RevokeAllCommit(r)
  PROVE  DeletionInv'
<1> DEFINE l == req[r]
<1>0. /\ l \in LocalStates /\ l.user \in UserIds /\ l.op \in StageOps["RevokeAll"]
      /\ sessions \in [SessionIds -> SessionRows]
  BY DEF RevokeAll, RevokeAllCommit, At, TypeInv, TypeOK, LocalsOK, KnowsUser,
         InStage, StageOps
<1>1. UNCHANGED <<users, lineage>>
  BY DEF RevokeAll, RevokeAllCommit
\* In either step the others of the account are marked, and r, which opens no
\* session, is at its snapshot or has revoked.
<1>2. PICK m : /\ MarkLate(r, l.user, m) /\ ~Opens(m)
               /\ \/ m.pc = "RevokeAllCommit" /\ UNCHANGED sessions
                  \/ RevokesAll(r) /\ m.user \in {l.user, None}
  <2>1. CASE RevokeAll(r) /\ ~Memory
    <3> DEFINE m == [l EXCEPT !.pc = "RevokeAllCommit",
                              !.rows = PgRevokeAllRows(sessions, l.user, None)]
    <3>1. MarkLate(r, l.user, m) /\ UNCHANGED sessions
      BY <2>1 DEF RevokeAll
    <3>2. m.op = l.op /\ m.pc = "RevokeAllCommit"
      BY <1>0 DEF LocalStates
    <3> HIDE DEF m
    <3> QED  BY <1>0, <3>1, <3>2 DEF Opens, StageOps
  <2>2. CASE RevokesAll(r)
    <3>1. PICK k \in LocalStates :
            /\ k.op = l.op /\ k.user = l.user
            /\ MarkLate(r, l.user, Moved("RevokeAll", k))
      <4>1. [l EXCEPT !.rows = {}] \in LocalStates
        BY <1>0 DEF LocalStates
      <4> QED
        BY <1>0, <2>2, <4>1 DEF RevokesAll, RevokeAll, RevokeAllCommit, LocalStates
    <3> DEFINE m == Moved("RevokeAll", k)
    <3>2. m = Idle \/ (m.op = l.op /\ m.user = l.user)
      BY <3>1 DEF Moved, LocalStates
    <3>3. MarkLate(r, l.user, m)
      BY <3>1
    <3> HIDE DEF m
    <3> QED  BY <1>0, <2>2, <3>2, <3>3 DEF Opens, StageOps, Idle
  <2> QED  BY <2>1, <2>2 DEF RevokesAll
<1>3. /\ req'[r] = m
      /\ \A q \in Requests : q # r =>
            /\ req'[q].op = req[q].op /\ req'[q].user = req[q].user
            /\ req'[q].pc = req[q].pc /\ req'[q].closing = req[q].closing
            /\ req[q].late => req'[q].late
            /\ req[q].user = l.user => req'[q].late
  BY <1>2, Marked
\* r is the only request that may begin a deletion, of its own account.
<1>4. ASSUME NEW u \in UserIds, Over(u)' PROVE Over(u) \/ (u = l.user /\ RevokesAll(r))
  BY <1>1, <1>2, <1>3, <1>4, NoneAssumption DEF Over, Closing, At
<1>5. ASSUME NEW u \in UserIds, Over(u)',
             NEW q \in Requests, Opens(req[q])', req'[q].user = u
      PROVE  Excused(req[q])'
  BY <1>2, <1>3, <1>4, <1>5 DEF DeletionInv, Opens, Excused
<1>6. ASSUME NEW u \in UserIds, Over(u)',
             NEW s \in SessionIds, Unrevoked(s)', sessions'[s].user = u
      PROVE  Excused(lineage[s])'
  <2>1. CASE UNCHANGED sessions /\ ~RevokesAll(r)
    BY <1>1, <1>4, <1>6, <2>1 DEF DeletionInv, Unrevoked
  <2>2. CASE RevokesAll(r)
    <3>1. /\ Unrevoked(s) /\ sessions'[s].user = sessions[s].user
          /\ sessions[s].user = l.user => lineage[s].late
      BY <1>6, <2>2, SweepLeaves DEF OnlyRevokes
    <3> QED  BY <1>1, <1>4, <1>6, <3>1 DEF DeletionInv, Excused
  <2> QED  BY <1>2, <2>1, <2>2
<1> QED  BY <1>5, <1>6 DEF DeletionInv

LEMMA DeletionStep == TypeInv /\ CredInv /\ DeletionInv /\ [Next]_vars => DeletionInv'
<1> SUFFICES ASSUME TypeInv, CredInv, DeletionInv, [Next]_vars PROVE DeletionInv'
  OBVIOUS
<1>1. CASE Tick \/ SetBack \/ UNCHANGED vars
  BY <1>1 DEF Tick, SetBack, vars, stores, history, DeletionInv, Over, Closing, Unrevoked,
              Opens, Excused, At
<1>2. ASSUME NEW r \in Requests, SessionStep(r) PROVE DeletionInv'
  BY <1>2, FindActiveDeletion, OtherSessionDeletion, CreateSessionDeletion,
     RevokeAllDeletion DEF SessionStep
<1> QED
  BY <1>1, <1>2, CallDeletion, UserStepDeletion, OtherSessionDeletion DEF Next

\* delete_me, whatever overlaps it and wherever it or they fail: a live
\* session of a deleted account descends from a request in flight during a
\* revoke_all of the account, or from one that read the account between the
\* revoke_all and the soft_delete of a delete_me.
THEOREM OverlapAloneOutlives == Spec => []OnlyOverlapOutlives
<1>1. TypeInv /\ DeletionInv => OnlyOverlapOutlives
  <2> SUFFICES ASSUME TypeInv, DeletionInv, NEW s \in SessionIds, Live(s),
                      users[sessions[s].user].status = "deleted"
               PROVE  lineage[s].late \/ lineage[s].closing
    BY DEF OnlyOverlapOutlives
  <2>1. sessions[s].user \in UserIds /\ Unrevoked(s)
    BY DEF Live, Unrevoked, Stored, TypeInv, TypeOK, SessionRows, Opt
  <2> QED  BY <2>1 DEF DeletionInv, Over, Excused
<1> QED
  BY <1>1, InitType, TypeInvStep, CredInit, CredStep, DeletionInit, DeletionStep,
     PTL DEF Spec

-----------------------------------------------------------------------------
(* One request at a time                                                   *)

Alone == \A q, p \in Requests : q = p

\* What a request that nothing overlaps has made sure of before it takes the
\* step pc, in user and session tables us and ss: the account it opens a
\* session for is alive, the one it deletes has no session left, and the
\* hash it replaces is the account's and verified.
Ready(pc, l, us, ss) ==
    /\ ~l.late
    /\ \/ pc \in {"Issue", "CreateSession", "Sign"}
       \/ pc = "Verify" /\ l.op = "login"
       => Alive(us[l.user])
    /\ pc = "SoftDelete" =>
         \A s \in SessionIds : ss[s].user = l.user => ss[s].revoked
    /\ pc \in {"Verify", "UpdatePassword"} /\ l.op = "change_password" =>
         l.hash = us[l.user].password_hash
    /\ pc = "UpdatePassword" => VerifyPassword(l.password, l.hash)

AliveOwners(us, ss) ==
    \A s \in SessionIds : Stored(ss[s]) /\ ~ss[s].revoked => Alive(us[ss[s].user])

SerialInv ==
    /\ \A q \in Requests : Ready(req[q].pc, req[q], users, sessions)
    /\ \A s \in SessionIds : ~lineage[s].late
    /\ AliveOwners(users, sessions)

LEMMA SerialInit == Init => SerialInv
BY DEF Init, SerialInv, Ready, AliveOwners, Idle, NoLineage, NoSession, Stored

LEMMA IdleReady == \A us, ss : Ready("Idle", Idle, us, ss)
BY DEF Ready, Idle

\* The only request moves on to m, or answers.
LEMMA SerialOne ==
  ASSUME Alone, TypeInv, NEW r \in Requests, NEW m, req' = [req EXCEPT ![r] = m],
         Ready(m.pc, m, users', sessions'), AliveOwners(users', sessions'),
         \A s \in SessionIds : ~lineage'[s].late
  PROVE  SerialInv'
<1>1. \A q \in Requests : req'[q] = m
  BY DEF Alone, TypeInv, TypeOK
<1> QED  BY <1>1 DEF SerialInv

LEMMA SerialGoes ==
  ASSUME Alone, TypeInv, NEW r \in Requests,
         NEW step \in DOMAIN StageOps \ {"RevokeAllCommit"}, req[r].pc = step,
         NEW m \in LocalStates, m.op = req[r].op,
         \/ Answer(r)
         \/ Continue(r, step, m) /\ Ready(After(m.op, step), m, users', sessions'),
         AliveOwners(users', sessions'), \A s \in SessionIds : ~lineage'[s].late
  PROVE  SerialInv'
<1>1. CASE Answer(r)
  BY <1>1, SerialOne, IdleReady DEF Answer, Idle
<1>2. CASE Continue(r, step, m) /\ Ready(After(m.op, step), m, users', sessions')
  <2> DEFINE l == Moved(step, m)
  <2>1. Ready(l.pc, l, users', sessions')
    <3>1. CASE l = Idle
      <4>1. Idle.pc = "Idle"
        BY DEF Idle
      <4> HIDE DEF l
      <4> QED  BY <3>1, <4>1, IdleReady
    <3>2. CASE l = [m EXCEPT !.pc = After(m.op, step)]
      <4>1. /\ l.pc = After(m.op, step) /\ l.op = m.op /\ l.user = m.user
            /\ l.late = m.late /\ l.hash = m.hash /\ l.password = m.password
        BY <3>2 DEF LocalStates
      <4> HIDE DEF l
      <4> QED  BY <1>2, <4>1 DEF Ready
    <3> QED  BY <3>1, <3>2 DEF Moved
  <2>2. req' = [req EXCEPT ![r] = l]
    BY <1>2 DEF Continue
  <2> HIDE DEF l
  <2> QED  BY <2>1, <2>2, SerialOne
<1> QED  BY <1>1, <1>2

\* No account dies while its sessions are left alone or revoked.
LEMMA OwnersLive ==
  ASSUME TypeInv, SerialInv, OnlyRevokes(sessions'),
         \A u \in UserIds : Alive(users[u]) => Alive(users'[u])
  PROVE  AliveOwners(users', sessions')
BY DEF TypeInv, TypeOK, SessionRows, Opt, SerialInv, AliveOwners, OnlyRevokes, Stored

LEMMA CallSerial ==
  ASSUME Alone, TypeInv, SerialInv, NEW r \in Requests, Call(r)
  PROVE  SerialInv'
<1>op. PICK op \in CallNames :
         \E input : Begin(r, op, input) /\ FreshInput(op, input)
  BY CallBegins
<1>1. PICK input : Begin(r, op, input) /\ FreshInput(op, input)
  BY <1>op
<1> DEFINE l == [input EXCEPT !.op = op, !.pc = Handler[op]["Begin"],
                              !.gone = Deleted]
<1>2. req' = [req EXCEPT ![r] = l] /\ UNCHANGED <<users, sessions, lineage>>
  BY <1>1 DEF Begin
<1>3. l.op = op /\ l.pc = Handler[op]["Begin"] /\ ~l.late
  BY <1>1 DEF FreshInput, LocalStates
<1>4. l.pc \notin {"Issue", "CreateSession", "Sign", "Verify", "SoftDelete",
                   "UpdatePassword"}
  BY <1>3 DEF Handler, CallNames, Register, Login, Refresh, Logout, LogoutAll,
              UpdateMe, DeleteMe, ChangePassword
<1> HIDE DEF l
<1> QED  BY <1>2, <1>3, <1>4, SerialOne DEF Ready, SerialInv

\* What the user store's writes leave alive.
LEMMA WritesKeepAlive ==
  ASSUME TypeInv, NEW id \in UserIds, NEW name, NEW email, NEW hash,
         NEW t \in {users, RepoUpdate(id, name, email).tab,
                    RepoUpdatePassword(id, hash).tab}
  PROVE  \A u \in UserIds : Alive(users[u]) => Alive(t[u])
<1>0. users \in [UserIds -> UserRows]
  BY DEF TypeInv, TypeOK
<1>1. ASSUME NEW u \in UserIds, Alive(users[u])
      PROVE  /\ Alive(RepoUpdate(id, name, email).tab[u])
             /\ Alive(RepoUpdatePassword(id, hash).tab[u])
  <2>1. Alive([users EXCEPT ![id].username = name, ![id].email = email][u])
    BY <1>0, <1>1 DEF Alive, UserRows
  <2>2. Alive([users EXCEPT ![id].password_hash = hash][u])
    BY <1>0, <1>1 DEF Alive, UserRows
  <2> QED
    BY <1>1, <2>1, <2>2
    DEF RepoUpdate, MemUpdate, PgUpdate, PgGuarded, RepoUpdatePassword,
        MemUpdatePassword, PgUpdatePassword, Reply
<1> QED  BY <1>1

LEMMA UserStepSerial ==
  ASSUME Alone, TypeInv, SerialInv, NEW r \in Requests, UserStep(r)
  PROVE  SerialInv'
<1> DEFINE l == req[r]
<1>0. /\ l \in LocalStates /\ users \in [UserIds -> UserRows]
      /\ l.pc \notin {"Idle", "Create", "FindByIdentifier", "FindActive"} =>
           l.user \in UserIds
      /\ l.pc # "Idle" => l.op \in StageOps[l.pc]
      /\ Ready(l.pc, l, users, sessions)
      /\ AliveOwners(users, sessions)
  BY DEF TypeInv, TypeOK, LocalsOK, KnowsUser, InStage, SerialInv
<1>1. OnlyRevokes(sessions') /\ sessions' = sessions /\ \A s \in SessionIds : ~lineage'[s].late
  <2>1. OnlyRevokes(sessions)
    BY DEF OnlyRevokes, TypeInv, TypeOK
  <2> QED  BY <2>1, StepGoesOn DEF SerialInv
<1>2. users' = users => AliveOwners(users', sessions')
  BY <1>0, <1>1
<1>b1. CASE Create(r)
  <2>1. PICK id \in UserIds :
          LET reply == RepoCreate(id, l.name, l.email, l.hash)
          IN  /\ users[id] = NoUser
              /\ users' = reply.tab
              /\ \/ reply.ret = "Ok" /\ Continue(r, "Create", [l EXCEPT !.user = id])
                 \/ reply.ret # "Ok" /\ Answer(r)
    BY <1>b1 DEF Create
  <2>2. l.pc = "Create" /\ l.op = "register"
    BY <1>0, <1>b1 DEF Create, At, StageOps
  <2> DEFINE w == [users EXCEPT ![id] = UserRow(l.name, l.email, l.hash)]
             m == [l EXCEPT !.user = id]
  <2>3. /\ users' \in {users, w}
        /\ RepoCreate(id, l.name, l.email, l.hash).ret = "Ok" => users' = w
    BY <2>1 DEF RepoCreate, MemCreate, PgCreate, PgGuarded, Reply
  <2>4. /\ Alive(w[id])
        /\ \A u \in UserIds : Alive(users[u]) => Alive(w[u])
    BY <1>0 DEF UserRow, Alive
  <2>5. m \in LocalStates /\ m.op = l.op /\ m.user = id /\ m.late = l.late
    BY <1>0 DEF LocalStates, Opt
  <2>6. Answer(r) \/ (Continue(r, "Create", m) /\ users' = w)
    BY <2>1, <2>3
  <2> HIDE DEF w, m
  <2>7. AliveOwners(users', sessions')
    BY <1>1, <2>3, <2>4, OwnersLive
  <2>8. After(m.op, "Create") = "Issue"
    BY <2>2, <2>5 DEF After, IssueSession, Handler, Register
  <2>9. users' = w => Ready(After(m.op, "Create"), m, users', sessions')
    BY <1>0, <2>4, <2>5, <2>8 DEF Ready
  <2> QED  BY <1>1, <2>2, <2>5, <2>6, <2>7, <2>9, SerialGoes DEF StageOps
<1>b2. CASE FindByIdentifier(r)
  <2>1. /\ l.pc = "FindByIdentifier" /\ l.op = "login" /\ UNCHANGED users
        /\ \/ Answer(r)
           \/ \E u \in RepoFindByIdentifier(l.name) :
                Continue(r, "FindByIdentifier",
                         Looked(l, u, users[u].password_hash, RevokeAllOpen(u)))
    <3>1. l.pc = "FindByIdentifier" /\ UNCHANGED users
      BY <1>b2 DEF FindByIdentifier, At, stores
    <3>2. l.op = "login"
      BY <1>0, <3>1 DEF StageOps
    <3> QED  BY <1>b2, <3>1, <3>2 DEF FindByIdentifier, Looked
  <2>2. CASE Answer(r)
    BY <1>0, <1>1, <1>2, <2>1, <2>2, SerialGoes DEF StageOps
  <2>3. ASSUME NEW u \in RepoFindByIdentifier(l.name),
               Continue(r, "FindByIdentifier",
                        Looked(l, u, users[u].password_hash, RevokeAllOpen(u)))
        PROVE  SerialInv'
    <3> DEFINE m == Looked(l, u, users[u].password_hash, RevokeAllOpen(u))
    <3>1. u \in UserIds /\ Alive(users[u])
      BY <1>0 DEF RepoFindByIdentifier, MemFindByIdentifier, PgFindByIdentifier
    <3>2. /\ users[u].password_hash \in Opt(Hashes)
          /\ ~RevokeAllOpen(u) /\ RevokeAllOpen(u) \in BOOLEAN
      <4>1. \A q \in Requests : req[q].pc = "FindByIdentifier"
        BY <2>1 DEF Alone
      <4>2. ~RevokeAllOpen(u) /\ RevokeAllOpen(u) \in BOOLEAN
        BY <4>1 DEF RevokeAllOpen, At
      <4>3. users[u] \in UserRows
        BY <1>0, <3>1
      <4>4. users[u].password_hash \in Opt(Hashes)
        BY <4>3 DEF UserRows
      <4> QED  BY <4>2, <4>4
    <3>3. m \in LocalStates /\ m.op = l.op /\ m.user = u
      BY <1>0, <3>1, <3>2, LookupType
    <3>4. ~m.late
      BY <1>0, <3>2 DEF Looked, LocalStates
    <3>5. Continue(r, "FindByIdentifier", m)
      BY <2>3
    <3> HIDE DEF m
    <3>6. After(m.op, "FindByIdentifier") = "Verify"
      BY <2>1, <3>3 DEF After, IssueSession, Handler, Login
    <3>7. Ready(After(m.op, "FindByIdentifier"), m, users', sessions')
      BY <2>1, <3>1, <3>3, <3>4, <3>6 DEF Ready
    <3> QED  BY <1>1, <1>2, <2>1, <3>3, <3>5, <3>7, SerialGoes DEF StageOps
  <2> QED  BY <2>1, <2>2, <2>3
<1>b3. CASE PasswordHash(r)
  <2> DEFINE m == [l EXCEPT !.hash = RepoPasswordHash(l.user)]
  <2>1. /\ l.pc = "PasswordHash" /\ l.user \in UserIds /\ UNCHANGED users
        /\ l.op \in {"delete_me", "change_password"}
    BY <1>0, <1>b3 DEF PasswordHash, At, stores, StageOps
  <2>2. /\ RepoPasswordHash(l.user) \in Opt(Hashes)
        /\ RepoPasswordHash(l.user) # None =>
             RepoPasswordHash(l.user) = users[l.user].password_hash
    BY <1>0, <2>1 DEF RepoPasswordHash, MemPasswordHash, PgPasswordHash, UserRows, Opt
  <2>3. /\ m \in LocalStates /\ m.op = l.op /\ m.user = l.user /\ m.late = l.late
        /\ m.hash = RepoPasswordHash(l.user)
    BY <1>0, <2>2 DEF LocalStates
  <2>4. \/ Answer(r)
        \/ RepoPasswordHash(l.user) # None /\ Continue(r, "PasswordHash", m)
    BY <1>b3 DEF PasswordHash
  <2> HIDE DEF m
  <2>5. After(m.op, "PasswordHash") = "Verify"
    BY <2>1, <2>3 DEF After, IssueSession, Handler, DeleteMe, ChangePassword
  <2>6. RepoPasswordHash(l.user) # None =>
          Ready(After(m.op, "PasswordHash"), m, users', sessions')
    BY <1>0, <2>1, <2>2, <2>3, <2>5 DEF Ready
  <2> QED  BY <1>1, <1>2, <2>1, <2>3, <2>4, <2>6, SerialGoes DEF StageOps
<1>b4. CASE Verify(r)
  <2>1. /\ l.pc = "Verify" /\ l.user \in UserIds /\ UNCHANGED users
        /\ l.op \in {"login", "delete_me", "change_password"}
        /\ \/ Answer(r)
           \/ VerifyPassword(l.password, l.hash) /\ Continue(r, "Verify", l)
    BY <1>0, <1>b4 DEF Verify, At, stores, StageOps
  <2>2. After(l.op, "Verify") = IF l.op = "login" THEN "Issue"
                                ELSE IF l.op = "delete_me" THEN "RevokeAll"
                                ELSE "UpdatePassword"
    BY <2>1 DEF After, IssueSession, Handler, Login, DeleteMe, ChangePassword
  <2>3. VerifyPassword(l.password, l.hash) =>
          Ready(After(l.op, "Verify"), l, users', sessions')
    BY <1>0, <2>1, <2>2 DEF Ready
  <2> QED  BY <1>0, <1>1, <1>2, <2>1, <2>3, SerialGoes DEF StageOps
<1>b5. CASE FindById(r)
  <2>1. /\ l.pc = "FindById" /\ l.user \in UserIds /\ UNCHANGED users
        /\ l.op = "refresh"
        /\ \/ Answer(r)
           \/ Alive(users[l.user]) /\ Continue(r, "FindById", l)
    <3>1. l.pc = "FindById" /\ UNCHANGED users
      BY <1>b5 DEF FindById, At, stores
    <3>2. \/ Answer(r)
          \/ Alive(users[l.user]) /\ Continue(r, "FindById", l)
      BY <1>b5 DEF FindById, RepoFindById, MemFindById, PgFindById
    <3> QED  BY <1>0, <3>1, <3>2 DEF StageOps
  <2>2. After(l.op, "FindById") = "Issue"
    BY <2>1 DEF After, IssueSession, Handler, Refresh
  <2>3. Alive(users[l.user]) => Ready(After(l.op, "FindById"), l, users', sessions')
    BY <1>0, <2>1, <2>2 DEF Ready
  <2> QED  BY <1>0, <1>1, <1>2, <2>1, <2>3, SerialGoes DEF StageOps
<1>b6. CASE Update(r)
  <2>1. /\ l.pc = "Update" /\ l.user \in UserIds /\ Answer(r)
        /\ users' = RepoUpdate(l.user, l.name, l.email).tab
    BY <1>0, <1>b6 DEF Update, At
  <2>2. AliveOwners(users', sessions')
    BY <1>1, <2>1, WritesKeepAlive, OwnersLive
  <2> QED  BY <1>0, <1>1, <2>1, <2>2, SerialGoes DEF StageOps
<1>b7. CASE UpdatePassword(r)
  <2>1. /\ l.pc = "UpdatePassword" /\ l.user \in UserIds /\ l.op = "change_password"
        /\ Answer(r) \/ Continue(r, "UpdatePassword", l)
        /\ users' = RepoUpdatePassword(l.user, l.next).tab
    BY <1>0, <1>b7 DEF UpdatePassword, At, StageOps
  <2>2. AliveOwners(users', sessions')
    BY <1>1, <2>1, WritesKeepAlive, OwnersLive
  <2>3. After(l.op, "UpdatePassword") = "RevokeAll"
    BY <2>1 DEF After, IssueSession, Handler, ChangePassword
  <2>4. Ready(After(l.op, "UpdatePassword"), l, users', sessions')
    BY <1>0, <2>3 DEF Ready
  <2> QED  BY <1>0, <1>1, <2>1, <2>2, <2>4, SerialGoes DEF StageOps
\* No session of the account deleted is left open.
<1>b8. CASE SoftDelete(r)
  <2>1. /\ l.pc = "SoftDelete" /\ l.user \in UserIds /\ l.op = "delete_me"
        /\ Answer(r) \/ Continue(r, "SoftDelete", l)
        /\ users' = RepoSoftDelete(l.user).tab
    BY <1>0, <1>b8 DEF SoftDelete, At, StageOps
  <2>2. \A u \in UserIds : u # l.user => users'[u] = users[u]
    BY <1>0, <2>1 DEF RepoSoftDelete, MemSoftDelete, PgSoftDelete, Reply
  <2>3. AliveOwners(users', sessions')
    <3> SUFFICES ASSUME NEW s \in SessionIds, Stored(sessions[s]), ~sessions[s].revoked
                 PROVE  Alive(users'[sessions[s].user])
      BY <1>1 DEF AliveOwners
    <3>1. sessions[s].user # l.user /\ Alive(users[sessions[s].user])
      BY <1>0, <2>1 DEF Ready, AliveOwners
    <3>2. sessions[s].user \in UserIds
      BY DEF TypeInv, TypeOK, SessionRows, Opt, Stored
    <3> QED  BY <2>2, <3>1, <3>2
  <2>4. After(l.op, "SoftDelete") = "Return"
    BY <2>1 DEF After, IssueSession, Handler, DeleteMe
  <2>5. Ready(After(l.op, "SoftDelete"), l, users', sessions')
    BY <1>0, <2>4 DEF Ready
  <2> QED  BY <1>0, <1>1, <2>1, <2>3, <2>5, SerialGoes DEF StageOps
<1> QED
  BY <1>b1, <1>b2, <1>b3, <1>b4, <1>b5, <1>b6, <1>b7, <1>b8 DEF UserStep

\* revoke_all leaves the account no session, and marks nobody else.
LEMMA RevokeAllSerial ==
  ASSUME Alone, TypeInv, CredInv, SerialInv, NEW r \in Requests,
         RevokeAll(r) \/ RevokeAllCommit(r)
  PROVE  SerialInv'
<1> DEFINE l == req[r]
<1>0. /\ l \in LocalStates /\ l.user \in UserIds /\ l.op \in StageOps["RevokeAll"]
      /\ sessions \in [SessionIds -> SessionRows]
      /\ Ready(l.pc, l, users, sessions)
  BY DEF RevokeAll, RevokeAllCommit, At, TypeInv, TypeOK, LocalsOK, KnowsUser,
         InStage, StageOps, SerialInv
<1>1. UNCHANGED <<users, lineage>>
  BY DEF RevokeAll, RevokeAllCommit
<1>2. ASSUME NEW m, MarkLate(r, l.user, m) PROVE req' = [req EXCEPT ![r] = m]
  BY <1>2 DEF Alone, MarkLate, TypeInv, TypeOK
<1>3. OnlyRevokes(sessions')
  <2>1. OnlyRevokes(sessions)
    BY <1>0 DEF OnlyRevokes
  <2> QED  BY <1>0, <2>1, RevokesOnly DEF RevokeAll, RevokeAllCommit
<1>4. AliveOwners(users', sessions') /\ \A s \in SessionIds : ~lineage'[s].late
  BY <1>1, <1>3, OwnersLive DEF SerialInv
<1>5. CASE RevokeAll(r) /\ ~Memory
  <2> DEFINE m == [l EXCEPT !.pc = "RevokeAllCommit",
                            !.rows = PgRevokeAllRows(sessions, l.user, None)]
  <2>1. MarkLate(r, l.user, m)
    BY <1>5 DEF RevokeAll
  <2>2. m.pc = "RevokeAllCommit" /\ m.late = l.late
    BY <1>0 DEF LocalStates
  <2> HIDE DEF m
  <2>3. Ready(m.pc, m, users', sessions')
    BY <1>0, <2>2 DEF Ready
  <2> QED  BY <1>2, <1>4, <2>1, <2>3, SerialOne
<1>6. CASE RevokeAllCommit(r) \/ (RevokeAll(r) /\ Memory)
  <2>1. PICK k \in LocalStates :
          /\ k.op = l.op /\ k.user = l.user /\ k.late = l.late
          /\ MarkLate(r, l.user, Moved("RevokeAll", k))
    <3>1. CASE RevokeAllCommit(r)
      <4>1. /\ [l EXCEPT !.rows = {}] \in LocalStates
            /\ [l EXCEPT !.rows = {}].late = l.late
        BY <1>0 DEF LocalStates
      <4> QED  BY <1>0, <3>1, <4>1 DEF RevokeAllCommit, LocalStates
    <3>2. CASE RevokeAll(r) /\ Memory
      BY <1>0, <3>2 DEF RevokeAll
    <3> QED  BY <1>6, <3>1, <3>2
  <2>2. ASSUME NEW s \in SessionIds, sessions'[s].user = l.user
        PROVE  sessions'[s].revoked
    <3>1. sessions[s].user = l.user /\ (sessions[s].revoked => sessions'[s].revoked)
      BY <1>3, <2>2 DEF OnlyRevokes
    <3>2. CASE RevokeAllCommit(r)
      <4>1. sessions' = PgRevokeRows(sessions, l.rows) /\ At(r, "RevokeAllCommit")
        BY <3>2 DEF RevokeAllCommit
      <4>2. sessions[s].revoked \/ s \in l.rows
        BY <1>0, <3>1, <4>1, NoneAssumption
        DEF CredInv, RevokesCover, Unrevoked, Stored, SerialInv
      <4>3. s \in l.rows => sessions'[s] = [sessions[s] EXCEPT !.revoked = TRUE]
        BY <1>0, <4>1 DEF PgRevokeRows
      <4> QED  BY <1>0, <3>1, <4>2, <4>3 DEF SessionRows
    <3>3. CASE RevokeAll(r) /\ Memory
      <4>1. sessions' = MemRevokeAll(sessions, l.user, None)
        BY <3>3 DEF RevokeAll
      <4>2. s # None /\ DOMAIN sessions = SessionIds
        BY <1>0, NoneAssumption
      <4>3. sessions'[s] = [sessions[s] EXCEPT !.revoked = TRUE]
        BY <3>1, <4>1, <4>2 DEF MemRevokeAll
      <4> QED  BY <1>0, <4>3 DEF SessionRows
    <3> QED  BY <1>6, <3>2, <3>3
  <2> DEFINE m == Moved("RevokeAll", k)
  <2>3. Ready(m.pc, m, users', sessions')
    <3>1. CASE m = Idle
      <4>1. Idle.pc = "Idle"
        BY DEF Idle
      <4> HIDE DEF m
      <4> QED  BY <3>1, <4>1, IdleReady
    <3>2. CASE m = [k EXCEPT !.pc = After(k.op, "RevokeAll")]
      <4>1. /\ m.pc = After(k.op, "RevokeAll") /\ m.user = l.user /\ m.late = l.late
        BY <2>1, <3>2 DEF LocalStates
      <4>2. After(k.op, "RevokeAll") \in {"Return", "SoftDelete"}
        BY <1>0, <2>1 DEF StageOps, After, IssueSession, Handler, LogoutAll,
                          DeleteMe, ChangePassword
      <4> HIDE DEF m
      <4> QED  BY <1>0, <2>2, <4>1, <4>2 DEF Ready
    <3> QED  BY <3>1, <3>2 DEF Moved
  <2>4. MarkLate(r, l.user, m)
    BY <2>1
  <2> HIDE DEF m
  <2> QED  BY <1>2, <1>4, <2>3, <2>4, SerialOne
<1> QED  BY <1>5, <1>6

LEMMA SessionStepSerial ==
  ASSUME Alone, TypeInv, CredInv, SerialInv, NEW r \in Requests,
         SessionStep(r) \/ Drop(r)
  PROVE  SerialInv'
<1> DEFINE l == req[r]
<1>0. /\ l \in LocalStates /\ now \in Nat
      /\ sessions \in [SessionIds -> SessionRows]
      /\ lineage \in [SessionIds -> Lineages]
      /\ l.pc # "Idle" => l.op \in StageOps[l.pc]
      /\ Ready(l.pc, l, users, sessions)
      /\ AliveOwners(users, sessions) /\ \A s \in SessionIds : ~lineage[s].late
  BY DEF TypeInv, TypeOK, LocalsOK, InStage, SerialInv
<1>b1. CASE FindActive(r)
  <2> DEFINE found == RepoFindActive(HashRefresh(l.token), l.at)
  <2>1. /\ UNCHANGED <<users, sessions, lineage>> /\ l.pc = "FindActive"
        /\ \/ Answer(r)
           \/ \E s \in found :
                Continue(r, "FindActive",
                  Opened(l, s, sessions[s].user, lineage[s].cred, OpenedLate(s)))
    BY <1>b1 DEF FindActive, stores, At, Opened
  <2>2. CASE Answer(r)
    BY <1>0, <2>1, <2>2, SerialGoes DEF StageOps
  <2>3. ASSUME NEW s \in found,
               Continue(r, "FindActive",
                 Opened(l, s, sessions[s].user, lineage[s].cred, OpenedLate(s)))
        PROVE  SerialInv'
    <3> DEFINE m == Opened(l, s, sessions[s].user, lineage[s].cred, OpenedLate(s))
    <3>1. /\ s \in SessionIds /\ sessions[s] \in SessionRows
          /\ lineage[s] \in Lineages /\ Stored(sessions[s])
      BY <1>0 DEF RepoFindActive, MemFindActive, PgFindActive
    <3>2. /\ sessions[s].user \in UserIds /\ lineage[s].cred \in Opt(Hashes)
          /\ OpenedLate(s) \in BOOLEAN
      BY <3>1 DEF SessionRows, Lineages, OpenedLate, RevokeAllOpen, Stored, Opt
    <3>3. ~OpenedLate(s)
      <4>1. \A q \in Requests : req[q].pc = "FindActive"
        BY <2>1 DEF Alone
      <4> QED  BY <1>0, <3>1, <4>1 DEF OpenedLate, RevokeAllOpen, At
    <3>4. m \in LocalStates /\ m.op = l.op
      BY <1>0, <3>1, <3>2, OpenedType
    <3>5. ~m.late
      BY <1>0, <3>3 DEF Opened, LocalStates
    <3>6. Continue(r, "FindActive", m)
      BY <2>3
    <3> HIDE DEF m
    <3>7. After(m.op, "FindActive") = "Revoke"
      BY <1>0, <2>1, <3>4 DEF StageOps, After, IssueSession, Handler, Refresh, Logout
    <3>8. Ready(After(m.op, "FindActive"), m, users', sessions')
      BY <3>5, <3>7 DEF Ready
    <3> QED  BY <1>0, <2>1, <3>4, <3>6, <3>8, SerialGoes DEF StageOps
  <2> QED  BY <2>1, <2>2, <2>3
<1>b2. CASE Revoke(r)
  <2>1. /\ l.pc = "Revoke" /\ UNCHANGED <<users, lineage>>
        /\ sessions' = RepoRevoke(l.session) /\ Continue(r, "Revoke", l)
    BY <1>b2 DEF Revoke, At
  <2>2. AliveOwners(users', sessions')
    BY <1>0, <2>1, RevokesOnly, OwnersLive
  <2>3. After(l.op, "Revoke") \in {"FindById", "Return"}
    BY <1>0, <2>1 DEF StageOps, After, IssueSession, Handler, Refresh, Logout
  <2>4. Ready(After(l.op, "Revoke"), l, users', sessions')
    BY <1>0, <2>3 DEF Ready
  <2> QED  BY <1>0, <2>1, <2>2, <2>4, SerialGoes DEF StageOps
<1>b3. CASE Issue(r)
  <2> DEFINE m == [l EXCEPT !.at = now]
  <2>1. /\ m \in LocalStates /\ m.op = l.op /\ m.user = l.user /\ m.late = l.late
    BY <1>0 DEF LocalStates
  <2>2. /\ l.pc = "Issue" /\ Continue(r, "Issue", m)
        /\ UNCHANGED <<users, sessions, lineage>>
    BY <1>b3 DEF Issue, At, stores, history
  <2> HIDE DEF m
  <2>3. After(m.op, "Issue") = "CreateSession"
    BY DEF After, IssueSession
  <2>4. Ready(After(m.op, "Issue"), m, users', sessions')
    BY <1>0, <2>1, <2>2, <2>3 DEF Ready
  <2> QED  BY <1>0, <2>1, <2>2, <2>4, SerialGoes DEF StageOps
<1>b4. CASE CreateSession(r)
  <2>1. PICK s \in SessionIds :
          LET reply == RepoSessionCreate(s, l.user, HashRefresh(s), l.at + RefreshTtl)
          IN  /\ reply.ret = "Ok"
              /\ sessions' = reply.tab
              /\ Continue(r, "CreateSession", [l EXCEPT !.session = s])
              /\ lineage' = [lineage EXCEPT
                               ![s] = [from |-> l.session, by |-> r,
                                       cred |-> l.hash, late |-> l.late,
                                       closing |-> l.closing]]
    BY <1>b4 DEF CreateSession
  <2>2. l.pc = "CreateSession" /\ users' = users
    BY <1>b4 DEF CreateSession, At
  <2>3. sessions' = [sessions EXCEPT ![s] =
                       SessionRow(l.user, HashRefresh(s), l.at + RefreshTtl)]
    BY <2>1 DEF RepoSessionCreate, MemSessionCreate, PgSessionCreate, Reply
  <2>4. Alive(users[l.user]) /\ ~l.late
    BY <1>0, <2>2 DEF Ready
  <2>5. AliveOwners(users', sessions')
    BY <1>0, <2>2, <2>3, <2>4 DEF AliveOwners, SessionRow
  <2>6. \A x \in SessionIds : ~lineage'[x].late
    BY <1>0, <2>1, <2>4
  <2> DEFINE m == [l EXCEPT !.session = s]
  <2>7. /\ m \in LocalStates /\ m.op = l.op /\ m.user = l.user /\ m.late = l.late
        /\ Continue(r, "CreateSession", m)
    BY <1>0, <2>1 DEF LocalStates, Opt
  <2> HIDE DEF m
  <2>8. After(m.op, "CreateSession") = "Sign"
    BY DEF After, IssueSession
  <2>9. Ready(After(m.op, "CreateSession"), m, users', sessions')
    BY <2>2, <2>4, <2>7, <2>8 DEF Ready
  <2> QED  BY <2>2, <2>5, <2>6, <2>7, <2>9, SerialGoes DEF StageOps
<1>b5. CASE Sign(r)
  <2>1. /\ l.pc = "Sign" /\ Continue(r, "Sign", l)
        /\ UNCHANGED <<users, sessions, lineage>>
    BY <1>b5 DEF Sign, At, stores, history
  <2>2. After(l.op, "Sign") = "Return"
    BY DEF After, IssueSession
  <2>3. Ready(After(l.op, "Sign"), l, users', sessions')
    BY <1>0, <2>2 DEF Ready
  <2> QED  BY <1>0, <2>1, <2>3, SerialGoes DEF StageOps
<1>b6. CASE Drop(r)
  <2>1. req' = [req EXCEPT ![r] = Idle] /\ UNCHANGED <<users, sessions, lineage>>
    BY <1>b6 DEF Drop, Answer, stores, history
  <2>2. Idle.pc = "Idle"
    BY DEF Idle
  <2> QED  BY <1>0, <2>1, <2>2, IdleReady, SerialOne
<1> QED
  BY <1>b1, <1>b2, <1>b3, <1>b4, <1>b5, <1>b6, RevokeAllSerial DEF SessionStep

LEMMA SerialStep ==
  ASSUME Alone
  PROVE  TypeInv /\ CredInv /\ SerialInv /\ [Next]_vars => SerialInv'
<1> SUFFICES ASSUME TypeInv, CredInv, SerialInv, [Next]_vars PROVE SerialInv'
  OBVIOUS
<1>1. CASE Tick \/ SetBack \/ UNCHANGED vars
  BY <1>1 DEF Tick, SetBack, vars, stores, history, SerialInv
<1> QED  BY <1>1, CallSerial, UserStepSerial, SessionStepSerial DEF Next

\* What the three promises below rest on.
LEMMA SerialAlways ==
  ASSUME Alone
  PROVE  Spec => [](TypeInv /\ CredInv /\ SerialInv)
<1>1. TypeInv /\ CredInv /\ SerialInv /\ [Next]_vars => SerialInv'
  BY SerialStep
<1> QED
  BY <1>1, InitType, TypeInvStep, CredInit, CredStep, SerialInit, PTL DEF Spec

\* Where requests do not overlap, nobody stays logged in on an older
\* password once change_password has answered, at whatever step earlier
\* requests failed: the forced re-login change_password's comment speaks of.
THEOREM SerialRelogin ==
  ASSUME Alone
  PROVE  Spec => []ForcedRelogin
<1>1. CredInv /\ SerialInv => ForcedRelogin
  BY DEF CredInv, CredentialsFresh, SerialInv, ForcedRelogin, Live, Unrevoked, Fresh
<1> QED  BY <1>1, SerialAlways, PTL

\* Where requests do not overlap, no session of a deleted account is live:
\* delete_me need only revoke them before it deletes the account.
THEOREM SerialDeletion ==
  ASSUME Alone
  PROVE  Spec => []DeleteClosesAll
<1>1. SerialInv => DeleteClosesAll
  BY DEF SerialInv, AliveOwners, DeleteClosesAll, Live, Alive
<1> QED  BY <1>1, SerialAlways, PTL

\* Where requests do not overlap, change_password replaces a hash only for a
\* caller whose old password verifies against that very hash: nothing comes
\* between the verification and the write.
THEOREM SerialReplacement ==
  ASSUME Alone
  PROVE  Spec => ReplacesVerified
<1> DEFINE Replaces ==
             \A u \in UserIds :
               Alive(users[u]) /\ users'[u].password_hash # users[u].password_hash =>
                 \E r \in Requests :
                    /\ At(r, "UpdatePassword")
                    /\ req[r].user = u
                    /\ VerifyPassword(req[r].password, users[u].password_hash)
<1>1. ASSUME TypeInv, SerialInv, [Next]_vars PROVE [Replaces]_vars
  <2>0. users \in [UserIds -> UserRows]
    BY <1>1 DEF TypeInv, TypeOK
  <2>1. ASSUME NEW r \in Requests, UpdatePassword(r) PROVE Replaces
    <3>1. /\ At(r, "UpdatePassword") /\ req[r].op = "change_password"
          /\ Ready("UpdatePassword", req[r], users, sessions)
      BY <1>1, <2>1 DEF UpdatePassword, At, TypeInv, LocalsOK, InStage, StageOps,
                        SerialInv
    <3>2. \A u \in UserIds : u # req[r].user => users'[u] = users[u]
      BY <2>0, <2>1 DEF UpdatePassword, RepoUpdatePassword, MemUpdatePassword,
                        PgUpdatePassword, Reply
    <3> QED  BY <3>1, <3>2 DEF Ready
  <2>2. ASSUME NEW r \in Requests,
               Create(r) \/ Update(r) \/ SoftDelete(r) \/ UNCHANGED users
        PROVE  Replaces
    <3>1. KeepsCredentials(users')
      BY <2>0, <2>2, CredentialsKept DEF Create, Update, SoftDelete
    <3> QED  BY <3>1 DEF KeepsCredentials, Exists, Alive
  <2>3. CASE UNCHANGED users
    BY <2>3
  <2>4. ASSUME NEW r \in Requests, Call(r) \/ SessionStep(r) \/ Drop(r)
        PROVE  UNCHANGED users
    BY <2>4 DEF Call, CallRegister, CallLogin, CallRefresh, CallLogout,
         CallLogoutAll, CallUpdateMe, CallDeleteMe, CallChangePassword, Begin,
         SessionStep, FindActive, Revoke, RevokeAll, RevokeAllCommit, Issue,
         CreateSession, Sign, Drop, stores
  <2>5. ASSUME NEW r \in Requests, UserStep(r) PROVE Replaces
    BY <2>1, <2>2, <2>5
    DEF UserStep, FindByIdentifier, PasswordHash, Verify, FindById, stores
  <2> QED  BY <1>1, <2>3, <2>4, <2>5 DEF Next, Tick, SetBack, vars, stores
<1> QED  BY <1>1, SerialAlways, PTL DEF ReplacesVerified, Spec
=============================================================================
