---------------------------- MODULE AccountProofs ----------------------------
(***************************************************************************)
(* Accounts: distinct identifiers, and no session for an account that was  *)
(* already deleted when the request was called.                            *)
(***************************************************************************)
EXTENDS AuthServiceProofs

-----------------------------------------------------------------------------
(* The inductive invariant                                                 *)

NormalInput(name, email) == Normal(name) /\ (email = None \/ Normal(email))

\* The identifiers stored are normalized, every account has a credential and
\* the indexes' promise holds.
GoodUsers(t) ==
    /\ \A u \in UserIds : Alive(t[u]) => /\ NormalInput(t[u].username, t[u].email)
                                        /\ t[u].password_hash # None
    /\ \A u, v \in UserIds :
         Alive(t[u]) /\ Alive(t[v]) /\ u # v =>
           /\ t[u].username # t[v].username
           /\ t[u].email # None => t[u].email # t[v].email

DeletedIn(t) == {u \in UserIds : t[u].status = "deleted"}

\* The handler has found its account alive, or made it, and will open a
\* session for it.
Opening(l) == \/ l.pc \in {"Issue", "CreateSession", "Sign"}
              \/ l.op = "login" /\ l.pc = "Verify"

\* A request writes normalized identifiers and real credentials only, and
\* opens no session for an account that was gone when it was called.
Fit(l, deleted) ==
    /\ l.pc \in {"Create", "Update"} => NormalInput(l.name, l.email)
    /\ l.pc = "Create" => l.hash # None
    /\ l.pc # "Idle" /\ l.op = "change_password" => l.next # None
    /\ l.gone \subseteq deleted
    /\ Opening(l) => l.user \notin l.gone

AccountInv ==
    /\ GoodUsers(users)
    /\ \A r \in Requests : Fit(req[r], DeletedIn(users))

-----------------------------------------------------------------------------

LEMMA IdleFit == ASSUME NEW deleted PROVE Fit(Idle, deleted)
BY DEF Fit, Idle, Opening

LEMMA AccountInit == Init => AccountInv
BY IdleFit DEF Init, AccountInv, GoodUsers, Alive, NoUser

\* Deleted accounts stay deleted.
KeepsDeleted(t) == DeletedIn(users) \subseteq DeletedIn(t)

SameFit(q) == /\ req'[q].op = req[q].op /\ req'[q].pc = req[q].pc
              /\ req'[q].name = req[q].name /\ req'[q].email = req[q].email
              /\ req'[q].user = req[q].user /\ req'[q].gone = req[q].gone
              /\ req'[q].hash = req[q].hash /\ req'[q].next = req[q].next

\* The invariant is kept by a step that does right by the users it writes
\* and by the requests it moves.
LEMMA KeepsAccounts ==
  ASSUME AccountInv, GoodUsers(users'), KeepsDeleted(users'),
         \A q \in Requests : SameFit(q) \/ Fit(req'[q], DeletedIn(users'))
  PROVE  AccountInv'
<1>1. ASSUME NEW q \in Requests PROVE Fit(req'[q], DeletedIn(users'))
  BY <1>1 DEF AccountInv, Fit, SameFit, Opening, KeepsDeleted
<1>2. DeletedIn(users)' = DeletedIn(users')
  BY DEF DeletedIn
<1>3. GoodUsers(users)'
  BY DEF GoodUsers, Alive
<1> QED  BY <1>1, <1>2, <1>3 DEF AccountInv

LEMMA OneFit ==
  ASSUME TypeInv, AccountInv, GoodUsers(users'), KeepsDeleted(users'),
         NEW r \in Requests, NEW l, req' = [req EXCEPT ![r] = l],
         Fit(l, DeletedIn(users'))
  PROVE  AccountInv'
<1>1. ASSUME NEW q \in Requests
      PROVE  SameFit(q) \/ Fit(req'[q], DeletedIn(users'))
  BY DEF TypeInv, TypeOK, SameFit
<1> QED  BY <1>1, KeepsAccounts

\* A handler that goes on opens a session only for an account it may.
LEMMA MovedFit ==
  ASSUME NEW deleted, NEW step \in DOMAIN StageOps \ {"RevokeAllCommit"},
         NEW m \in LocalStates, m.op \in StageOps[step], m.gone \subseteq deleted,
         m.op = "change_password" => m.next # None,
         \/ step \in {"Create", "FindByIdentifier", "FindById", "Issue",
                      "CreateSession"}
         \/ step = "Verify" /\ m.op = "login"
         => m.user \notin m.gone
  PROVE  Fit(Moved(step, m), deleted)
<1> DEFINE l == Moved(step, m)
<1>1. CASE l = Idle
  BY <1>1, IdleFit
<1>2. CASE l = [m EXCEPT !.pc = After(m.op, step)]
  <2>1. /\ l.op = m.op /\ l.user = m.user /\ l.gone = m.gone
        /\ l.next = m.next /\ l.pc = After(m.op, step)
    BY <1>2 DEF LocalStates
  <2>2. /\ After(m.op, step) \notin {"Create", "Update"}
        /\ \/ After(m.op, step) \in {"Issue", "CreateSession", "Sign"}
           \/ m.op = "login" /\ After(m.op, step) = "Verify"
           => \/ step \in {"Create", "FindByIdentifier", "FindById", "Issue",
                           "CreateSession"}
              \/ step = "Verify" /\ m.op = "login"
    BY DEF StageOps, After, IssueSession, Handler, Register, Login, Refresh,
           Logout, LogoutAll, UpdateMe, DeleteMe, ChangePassword
  <2> HIDE DEF l
  <2>3. Fit(l, deleted)
    BY <2>1, <2>2 DEF Fit, Opening
  <2> QED  BY <2>3 DEF l
<1> QED  BY <1>1, <1>2 DEF Moved

-----------------------------------------------------------------------------
(* What the repositories write to the user store                           *)

LEMMA CreateWrites ==
  ASSUME TypeInv, AccountInv, NEW id \in UserIds, users[id] = NoUser,
         NEW name, NEW email, NEW hash, hash # None, NormalInput(name, email)
  PROVE  LET t == RepoCreate(id, name, email, hash).tab
         IN  GoodUsers(t) /\ KeepsDeleted(t)
<1> DEFINE w == [users EXCEPT ![id] = UserRow(name, email, hash)]
<1>0. users \in [UserIds -> UserRows] /\ DOMAIN users = UserIds /\ DOMAIN w = UserIds
  BY DEF TypeInv, TypeOK
<1>1. /\ w[id].status = "alive" /\ w[id].username = name /\ w[id].email = email
      /\ w[id].password_hash # None
      /\ \A u \in UserIds : u # id => w[u] = users[u]
  BY <1>0 DEF UserRow
<1>2. GoodUsers(users) /\ KeepsDeleted(users)
  BY DEF AccountInv, KeepsDeleted
<1>3. KeepsDeleted(w)
  BY <1>1 DEF KeepsDeleted, DeletedIn, NoUser
<1>4. \A u \in UserIds : Alive(w[u]) => /\ NormalInput(w[u].username, w[u].email)
                                        /\ w[u].password_hash # None
  BY <1>1, <1>2 DEF GoodUsers, Alive
<1>5. ASSUME UsernameAliveUidx(w), EmailAliveUidx(w) PROVE GoodUsers(w)
  BY <1>0, <1>4, <1>5 DEF GoodUsers, UsernameAliveUidx, EmailAliveUidx
<1>6. ASSUME ~MemTaken(users, None, name, email) PROVE GoodUsers(w)
  <2>1. \A u \in UserIds : u # id /\ Alive(users[u]) =>
          users[u].username # name /\ (email # None => users[u].email # email)
    BY <1>0, <1>6, NoneAssumption DEF MemTaken
  <2> QED  BY <1>1, <1>2, <1>4, <2>1 DEF GoodUsers
<1> HIDE DEF w
<1>7. RepoCreate(id, name, email, hash).tab \in {users, w}
  BY DEF RepoCreate, MemCreate, PgCreate, PgGuarded, Reply, w
<1>8. RepoCreate(id, name, email, hash).tab = users \/ GoodUsers(w)
  BY <1>5, <1>6 DEF RepoCreate, MemCreate, PgCreate, PgGuarded, Reply, w
<1> QED  BY <1>2, <1>3, <1>7, <1>8

LEMMA UpdateWrites ==
  ASSUME TypeInv, AccountInv, NEW id \in UserIds,
         NEW name, NEW email, NormalInput(name, email)
  PROVE  LET t == RepoUpdate(id, name, email).tab
         IN  GoodUsers(t) /\ KeepsDeleted(t)
<1> DEFINE w == [users EXCEPT ![id].username = name, ![id].email = email]
<1>0. users \in [UserIds -> UserRows] /\ DOMAIN users = UserIds /\ DOMAIN w = UserIds
  BY DEF TypeInv, TypeOK
<1>1. /\ w[id].status = users[id].status
      /\ w[id].password_hash = users[id].password_hash
      /\ w[id].username = name /\ w[id].email = email
      /\ \A u \in UserIds : u # id => w[u] = users[u]
  BY <1>0 DEF UserRows
<1>2. GoodUsers(users) /\ KeepsDeleted(users)
  BY DEF AccountInv, KeepsDeleted
<1>3. KeepsDeleted(w)
  BY <1>1 DEF KeepsDeleted, DeletedIn
<1>4. \A u \in UserIds : Alive(w[u]) => /\ NormalInput(w[u].username, w[u].email)
                                        /\ w[u].password_hash # None
  BY <1>1, <1>2 DEF GoodUsers, Alive
<1>5. ASSUME UsernameAliveUidx(w), EmailAliveUidx(w) PROVE GoodUsers(w)
  BY <1>0, <1>4, <1>5 DEF GoodUsers, UsernameAliveUidx, EmailAliveUidx
<1>6. ASSUME ~MemTaken(users, id, name, email) PROVE GoodUsers(w)
  <2>1. \A u \in UserIds : u # id /\ Alive(users[u]) =>
          users[u].username # name /\ (email # None => users[u].email # email)
    BY <1>0, <1>6 DEF MemTaken
  <2>2. \A u \in UserIds : u # id => (Alive(w[u]) <=> Alive(users[u]))
    BY <1>1
  <2> HIDE DEF w
  <2>3. ASSUME NEW u \in UserIds, NEW v \in UserIds,
               Alive(w[u]), Alive(w[v]), u # v
        PROVE  /\ w[u].username # w[v].username
               /\ w[u].email # None => w[u].email # w[v].email
    <3>1. CASE u = id
      BY <1>1, <2>1, <2>2, <2>3, <3>1
    <3>2. CASE v = id
      BY <1>1, <2>1, <2>2, <2>3, <3>2
    <3>3. CASE u # id /\ v # id
      BY <1>1, <1>2, <2>2, <2>3, <3>3 DEF GoodUsers
    <3> QED  BY <3>1, <3>2, <3>3
  <2>4. GoodUsers(w)
    BY <1>4, <2>3 DEF GoodUsers
  <2> QED  BY <2>4 DEF w
<1> HIDE DEF w
<1>7. RepoUpdate(id, name, email).tab \in {users, w}
  BY DEF RepoUpdate, MemUpdate, PgUpdate, PgGuarded, Reply, w
<1>8. RepoUpdate(id, name, email).tab = users \/ GoodUsers(w)
  BY <1>5, <1>6 DEF RepoUpdate, MemUpdate, PgUpdate, PgGuarded, Reply, w
<1> QED  BY <1>2, <1>3, <1>7, <1>8

\* Neither a deletion nor a new password touches an identifier or takes a
\* credential away.
LEMMA OtherWrites ==
  ASSUME TypeInv, AccountInv, NEW id \in UserIds, NEW hash, hash # None
  PROVE  LET d == RepoSoftDelete(id).tab
             p == RepoUpdatePassword(id, hash).tab
         IN  /\ GoodUsers(d) /\ KeepsDeleted(d)
             /\ GoodUsers(p) /\ KeepsDeleted(p)
<1> DEFINE Narrows(t) ==
      \A u \in UserIds : /\ t[u].username = users[u].username
                         /\ t[u].email = users[u].email
                         /\ t[u].status \in {users[u].status, "deleted"}
                         /\ users[u].password_hash # None => t[u].password_hash # None
<1>0. users \in [UserIds -> UserRows]
  BY DEF TypeInv, TypeOK
<1>1. ASSUME NEW t, Narrows(t) PROVE GoodUsers(t) /\ KeepsDeleted(t)
  <2>1. \A u \in UserIds : Alive(t[u]) => Alive(users[u])
    BY <1>1 DEF Alive
  <2> QED
    BY <1>1, <2>1 DEF AccountInv, GoodUsers, KeepsDeleted, DeletedIn, Alive
<1>2. Narrows(RepoSoftDelete(id).tab)
  BY <1>0 DEF RepoSoftDelete, MemSoftDelete, PgSoftDelete, Reply, UserRows
<1>3. Narrows(RepoUpdatePassword(id, hash).tab)
  BY <1>0 DEF RepoUpdatePassword, MemUpdatePassword, PgUpdatePassword, Reply, UserRows
<1> HIDE DEF Narrows
<1>4. GoodUsers(RepoSoftDelete(id).tab) /\ KeepsDeleted(RepoSoftDelete(id).tab)
  BY <1>1, <1>2
<1>5. /\ GoodUsers(RepoUpdatePassword(id, hash).tab)
      /\ KeepsDeleted(RepoUpdatePassword(id, hash).tab)
  BY <1>1, <1>3
<1> QED  BY <1>4, <1>5

-----------------------------------------------------------------------------
(* The steps                                                               *)

\* The account stays deleted where a step leaves the user store alone.
LEMMA SameUsers ==
  ASSUME AccountInv, UNCHANGED users
  PROVE  GoodUsers(users') /\ KeepsDeleted(users')
BY DEF AccountInv, KeepsDeleted

\* A call takes normalized identifiers and opens no session at once.
LEMMA CallAccounts ==
  ASSUME TypeInv, AccountInv, NEW r \in Requests, Call(r)
  PROVE  AccountInv'
<1>op. PICK op \in CallNames :
         \E input : Begin(r, op, input) /\ FreshInput(op, input)
  BY CallBegins
<1>1. PICK input : Begin(r, op, input) /\ FreshInput(op, input)
  BY <1>op
<1> DEFINE l == [input EXCEPT !.op = op, !.pc = Handler[op]["Begin"],
                              !.gone = Deleted]
<1>2. req' = [req EXCEPT ![r] = l] /\ UNCHANGED users
  BY <1>1 DEF Begin
<1>3. /\ l.op = op /\ l.pc = Handler[op]["Begin"] /\ l.gone = DeletedIn(users)
      /\ l.name = input.name /\ l.email = input.email
      /\ l.hash = input.hash /\ l.next = input.next
  BY <1>1 DEF FreshInput, LocalStates, Deleted, DeletedIn
<1>4. /\ l.pc \in {"Create", "Update"} => op \in {"register", "update_me"}
      /\ l.pc = "Create" => op = "register"
      /\ ~Opening(l)
  BY <1>3 DEF Opening, CallNames, Handler, Register, Login, Refresh, Logout,
              LogoutAll, UpdateMe, DeleteMe, ChangePassword
<1> HIDE DEF l
<1>5. Fit(l, DeletedIn(users'))
  BY <1>1, <1>2, <1>3, <1>4 DEF Fit, FreshInput, NormalInput
<1> QED  BY <1>2, <1>5, SameUsers, OneFit

\* A step of a handler that answers, or goes on with the call's history and
\* an account that is alive where MovedFit asks for it.
LEMMA StepFits ==
  ASSUME TypeInv, AccountInv, GoodUsers(users'), KeepsDeleted(users'),
         NEW r \in Requests,
         NEW step \in DOMAIN StageOps \ {"RevokeAllCommit"}, req[r].pc = step,
         NEW m \in LocalStates, m.op = req[r].op, m.gone = req[r].gone,
         m.next = req[r].next,
         step \in {"Create", "FindByIdentifier", "FindById"} =>
           m.user \in UserIds \ DeletedIn(users),
         step \notin {"Create", "FindByIdentifier", "FindById"} =>
           m.user = req[r].user \/ ~Opening(req[r]),
         Answer(r) \/ Continue(r, step, m)
  PROVE  AccountInv'
<1>1. m.op \in StageOps[step]
  BY DEF TypeInv, LocalsOK, InStage, StageOps
<1>2. Fit(req[r], DeletedIn(users))
  BY DEF AccountInv
<1>3. m.gone \subseteq DeletedIn(users) /\ m.gone \subseteq DeletedIn(users')
  BY <1>2 DEF Fit, KeepsDeleted
<1>4. \/ step \in {"Create", "FindByIdentifier", "FindById", "Issue",
                   "CreateSession"}
      \/ step = "Verify" /\ m.op = "login"
      => m.user \notin m.gone
  BY <1>2, <1>3 DEF Fit, Opening
<1>5. m.op = "change_password" => m.next # None
  BY <1>2 DEF Fit, StageOps
<1>6. Fit(Moved(step, m), DeletedIn(users'))
  BY <1>1, <1>3, <1>4, <1>5, MovedFit
<1> QED
  BY <1>6, OneFit, IdleFit DEF Answer, Continue

LEMMA UserStepAccounts ==
  ASSUME TypeInv, AccountInv, NEW r \in Requests, UserStep(r)
  PROVE  AccountInv'
<1> DEFINE l == req[r]
<1>0. /\ l \in LocalStates /\ users \in [UserIds -> UserRows]
      /\ Fit(l, DeletedIn(users))
      /\ l.pc \notin {"Idle", "Create", "FindByIdentifier", "FindActive"} =>
           l.user \in UserIds
  BY DEF TypeInv, TypeOK, AccountInv, LocalsOK, KnowsUser
<1>b1. CASE Create(r)
  <2>1. PICK id \in UserIds :
          /\ users[id] = NoUser
          /\ users' = RepoCreate(id, l.name, l.email, l.hash).tab
          /\ Answer(r) \/ Continue(r, "Create", [l EXCEPT !.user = id])
    BY <1>b1 DEF Create
  <2>2. l.pc = "Create" /\ NormalInput(l.name, l.email) /\ l.hash # None
    BY <1>0, <1>b1 DEF Create, At, Fit
  <2>3. GoodUsers(users') /\ KeepsDeleted(users')
    BY <2>1, <2>2, CreateWrites
  <2> DEFINE m == [l EXCEPT !.user = id]
  <2>4. /\ m \in LocalStates /\ m.op = l.op /\ m.gone = l.gone /\ m.next = l.next
        /\ m.user \in UserIds \ DeletedIn(users)
    BY <1>0, <2>1 DEF LocalStates, Opt, DeletedIn, NoUser
  <2>5. Answer(r) \/ Continue(r, "Create", m)
    BY <2>1
  <2> HIDE DEF m
  <2> QED  BY <2>2, <2>3, <2>4, <2>5, StepFits DEF StageOps
<1>b2. CASE FindByIdentifier(r)
  <2>1. /\ l.pc = "FindByIdentifier" /\ UNCHANGED users
        /\ \/ Answer(r)
           \/ \E u \in RepoFindByIdentifier(l.name) :
                Continue(r, "FindByIdentifier",
                         Looked(l, u, users[u].password_hash, RevokeAllOpen(u)))
    BY <1>b2 DEF FindByIdentifier, Looked, At, stores
  <2>2. \A u \in RepoFindByIdentifier(l.name) : u \in UserIds \ DeletedIn(users)
    BY <1>0 DEF RepoFindByIdentifier, MemFindByIdentifier, PgFindByIdentifier,
                Alive, DeletedIn
  <2>3. GoodUsers(users') /\ KeepsDeleted(users')
    BY <2>1, SameUsers
  <2>4. CASE Answer(r)
    BY <2>3, <2>4, OneFit, IdleFit DEF Answer
  <2>5. ASSUME NEW u \in RepoFindByIdentifier(l.name),
               Continue(r, "FindByIdentifier",
                        Looked(l, u, users[u].password_hash, RevokeAllOpen(u)))
        PROVE  AccountInv'
    <3> DEFINE m == Looked(l, u, users[u].password_hash, RevokeAllOpen(u))
    <3>1. /\ u \in UserIds
          /\ users[u].password_hash \in Opt(Hashes)
          /\ RevokeAllOpen(u) \in BOOLEAN
      BY <1>0, <2>2 DEF UserRows, RevokeAllOpen
    <3>2. m \in LocalStates /\ m.op = l.op
      BY <1>0, <3>1, LookupType
    <3>3. /\ m.gone = l.gone /\ m.next = l.next
          /\ m.user \in UserIds \ DeletedIn(users)
      BY <1>0, <2>2 DEF Looked, LocalStates
    <3>4. Continue(r, "FindByIdentifier", m)
      BY <2>5
    <3> HIDE DEF m
    <3> QED  BY <2>1, <2>3, <3>2, <3>3, <3>4, StepFits DEF StageOps
  <2> QED  BY <2>1, <2>4, <2>5
<1>b3. CASE PasswordHash(r)
  <2> DEFINE m == [l EXCEPT !.hash = RepoPasswordHash(l.user)]
  <2>1. l.pc = "PasswordHash" /\ l.user \in UserIds /\ UNCHANGED users
    BY <1>0, <1>b3 DEF PasswordHash, At, stores
  <2>2. RepoPasswordHash(l.user) \in Opt(Hashes)
    BY <1>0, <2>1 DEF RepoPasswordHash, MemPasswordHash, PgPasswordHash, UserRows, Opt
  <2>3. m \in LocalStates /\ m.op = l.op /\ m.gone = l.gone /\ m.user = l.user
        /\ m.next = l.next
    BY <1>0, <2>2 DEF LocalStates
  <2>4. Answer(r) \/ Continue(r, "PasswordHash", m)
    BY <1>b3 DEF PasswordHash
  <2> HIDE DEF m
  <2> QED  BY <2>1, <2>3, <2>4, SameUsers, StepFits DEF StageOps
<1>b4. CASE Verify(r)
  <2>1. /\ l.pc = "Verify" /\ UNCHANGED users
        /\ Answer(r) \/ Continue(r, "Verify", l)
    BY <1>b4 DEF Verify, At, stores
  <2> QED  BY <1>0, <2>1, SameUsers, StepFits DEF StageOps
<1>b5. CASE FindById(r)
  <2>1. l.pc = "FindById" /\ l.user \in UserIds /\ UNCHANGED users
    BY <1>0, <1>b5 DEF FindById, At, stores
  <2>2. GoodUsers(users') /\ KeepsDeleted(users')
    BY <2>1, SameUsers
  <2>3. CASE Answer(r)
    BY <2>2, <2>3, OneFit, IdleFit DEF Answer
  <2>4. CASE RepoFindById(l.user) /\ Continue(r, "FindById", l)
    <3>1. l.user \in UserIds \ DeletedIn(users)
      BY <2>1, <2>4 DEF RepoFindById, MemFindById, PgFindById, Alive, DeletedIn
    <3> QED  BY <1>0, <2>1, <2>2, <2>4, <3>1, StepFits DEF StageOps
  <2> QED  BY <1>b5, <2>3, <2>4 DEF FindById
<1>b6. CASE Update(r)
  <2>1. /\ l.pc = "Update" /\ l.user \in UserIds /\ Answer(r)
        /\ users' = RepoUpdate(l.user, l.name, l.email).tab
        /\ NormalInput(l.name, l.email)
    BY <1>0, <1>b6 DEF Update, At, Fit
  <2>2. GoodUsers(users') /\ KeepsDeleted(users')
    BY <2>1, UpdateWrites
  <2> QED  BY <2>1, <2>2, OneFit, IdleFit DEF Answer
<1>b7. CASE UpdatePassword(r)
  <2>1. /\ l.pc = "UpdatePassword" /\ l.user \in UserIds
        /\ users' = RepoUpdatePassword(l.user, l.next).tab
        /\ Answer(r) \/ Continue(r, "UpdatePassword", l)
        /\ l.next # None
    BY <1>0, <1>b7 DEF UpdatePassword, At, Fit, TypeInv, LocalsOK, InStage, StageOps
  <2>2. GoodUsers(users') /\ KeepsDeleted(users')
    BY <2>1, OtherWrites
  <2> QED  BY <1>0, <2>1, <2>2, StepFits DEF StageOps
<1>b8. CASE SoftDelete(r)
  <2>1. /\ l.pc = "SoftDelete" /\ l.user \in UserIds
        /\ users' = RepoSoftDelete(l.user).tab
        /\ Answer(r) \/ Continue(r, "SoftDelete", l)
    BY <1>0, <1>b8 DEF SoftDelete, At
  <2>2. GoodUsers(users') /\ KeepsDeleted(users')
    BY <2>1, OtherWrites
  <2> QED  BY <1>0, <2>1, <2>2, StepFits DEF StageOps
<1> QED
  BY <1>b1, <1>b2, <1>b3, <1>b4, <1>b5, <1>b6, <1>b7, <1>b8 DEF UserStep

\* The session steps leave the user store, the calls' history and the account
\* in hand alone, but for FindActive, which opens nothing yet.
LEMMA SessionStepAccounts ==
  ASSUME TypeInv, AccountInv, NEW r \in Requests, SessionStep(r)
  PROVE  AccountInv'
<1> DEFINE l == req[r]
<1>0. l \in LocalStates /\ Fit(l, DeletedIn(users))
  BY DEF TypeInv, TypeOK, AccountInv
<1>1. UNCHANGED users
  BY DEF SessionStep, FindActive, Revoke, RevokeAll, RevokeAllCommit, Issue,
         CreateSession, Sign, stores
<1>2. GoodUsers(users') /\ KeepsDeleted(users')
  BY <1>1, SameUsers
<1>b1. CASE FindActive(r)
  <2> DEFINE found == RepoFindActive(HashRefresh(l.token), l.at)
  <2>1. /\ l.pc = "FindActive"
        /\ \/ Answer(r)
           \/ \E s \in found :
                Continue(r, "FindActive",
                  Opened(l, s, sessions[s].user, lineage[s].cred, OpenedLate(s)))
    BY <1>b1 DEF FindActive, At, Opened
  <2>2. CASE Answer(r)
    BY <1>2, <2>2, OneFit, IdleFit DEF Answer
  <2>3. ASSUME NEW s \in found,
               Continue(r, "FindActive",
                 Opened(l, s, sessions[s].user, lineage[s].cred, OpenedLate(s)))
        PROVE  AccountInv'
    <3> DEFINE m == Opened(l, s, sessions[s].user, lineage[s].cred, OpenedLate(s))
    <3>1. /\ s \in SessionIds /\ sessions[s] \in SessionRows
          /\ lineage[s] \in Lineages /\ Stored(sessions[s])
      BY DEF RepoFindActive, MemFindActive, PgFindActive, TypeInv, TypeOK
    <3>2. m \in LocalStates /\ m.op = l.op /\ m.gone = l.gone /\ m.next = l.next
      <4>1. /\ sessions[s].user \in UserIds /\ lineage[s].cred \in Opt(Hashes)
            /\ OpenedLate(s) \in BOOLEAN
        BY <3>1 DEF SessionRows, Lineages, OpenedLate, RevokeAllOpen, Stored, Opt
      <4>2. m \in LocalStates /\ m.op = l.op
        BY <1>0, <3>1, <4>1, OpenedType
      <4>3. m.gone = l.gone /\ m.next = l.next
        BY <1>0 DEF Opened, LocalStates
      <4> QED  BY <4>2, <4>3
    <3>3. l.op \in StageOps["FindActive"] /\ ~Opening(l)
      BY <2>1 DEF TypeInv, LocalsOK, InStage, Opening
    <3>4. Continue(r, "FindActive", m)
      BY <2>3
    <3> HIDE DEF m
    <3> QED  BY <1>2, <2>1, <3>2, <3>3, <3>4, StepFits DEF StageOps
  <2> QED  BY <2>1, <2>2, <2>3
<1>b2. CASE Revoke(r) \/ Sign(r)
  <2>1. PICK step \in {"Revoke", "Sign"} : l.pc = step /\ Continue(r, step, l)
    BY <1>b2 DEF Revoke, Sign, At
  <2> QED  BY <1>0, <1>2, <2>1, StepFits DEF StageOps
<1>b3. CASE Issue(r)
  <2> DEFINE m == [l EXCEPT !.at = now]
  <2>1. /\ m \in LocalStates /\ m.op = l.op /\ m.gone = l.gone /\ m.user = l.user
        /\ m.next = l.next
    BY <1>0 DEF LocalStates, TypeInv, TypeOK
  <2>2. l.pc = "Issue" /\ Continue(r, "Issue", m)
    BY <1>b3 DEF Issue, At
  <2> HIDE DEF m
  <2> QED  BY <1>2, <2>1, <2>2, StepFits DEF StageOps
<1>b4. CASE CreateSession(r)
  <2>1. PICK s \in SessionIds :
          Continue(r, "CreateSession", [l EXCEPT !.session = s])
    BY <1>b4 DEF CreateSession
  <2> DEFINE m == [l EXCEPT !.session = s]
  <2>2. /\ m \in LocalStates /\ m.op = l.op /\ m.gone = l.gone /\ m.user = l.user
        /\ m.next = l.next
        /\ l.pc = "CreateSession" /\ Continue(r, "CreateSession", m)
    BY <1>0, <1>b4, <2>1 DEF CreateSession, At, LocalStates, Opt
  <2> HIDE DEF m
  <2> QED  BY <1>2, <2>2, StepFits DEF StageOps
<1>b5. CASE RevokeAll(r) \/ RevokeAllCommit(r)
  <2>1. PICK m : MarkLate(r, l.user, m) /\ Fit(m, DeletedIn(users))
    <3>1. l.op \in StageOps["RevokeAll"]
      BY <1>b5 DEF TypeInv, LocalsOK, InStage, StageOps, RevokeAll,
                   RevokeAllCommit, At
    <3>2. ASSUME NEW k \in LocalStates, k.op = l.op, k.gone = l.gone,
                 k.next = l.next
          PROVE  Fit(Moved("RevokeAll", k), DeletedIn(users))
      BY <1>0, <1>b5, <3>1, <3>2, MovedFit
      DEF Fit, StageOps, RevokeAll, RevokeAllCommit, At
    <3>3. CASE RevokeAll(r) /\ Memory
      BY <1>0, <3>2, <3>3 DEF RevokeAll
    <3>4. CASE RevokeAll(r) /\ ~Memory
      <4> DEFINE k == [l EXCEPT !.pc = "RevokeAllCommit",
                                !.rows = PgRevokeAllRows(sessions, l.user, None)]
      <4>1. /\ k.op = l.op /\ k.gone = l.gone /\ k.next = l.next
            /\ k.pc = "RevokeAllCommit" /\ l.pc = "RevokeAll"
        BY <1>0, <3>4 DEF LocalStates, RevokeAll, At
      <4>2. MarkLate(r, l.user, k)
        BY <3>4 DEF RevokeAll
      <4> HIDE DEF k
      <4>3. Fit(k, DeletedIn(users))
        BY <1>0, <4>1 DEF Fit, Opening
      <4> QED  BY <4>2, <4>3
    <3>5. CASE RevokeAllCommit(r)
      <4> DEFINE k == [l EXCEPT !.rows = {}]
      <4>1. /\ k \in LocalStates /\ k.op = l.op /\ k.gone = l.gone
            /\ k.next = l.next
        BY <1>0 DEF LocalStates
      <4>2. MarkLate(r, l.user, Moved("RevokeAll", k))
        BY <3>5 DEF RevokeAllCommit
      <4> HIDE DEF k
      <4> QED  BY <3>2, <4>1, <4>2
    <3> QED  BY <1>b5, <3>3, <3>4, <3>5
  <2>2. ASSUME NEW q \in Requests
        PROVE  SameFit(q) \/ Fit(req'[q], DeletedIn(users'))
    <3>1. \/ q = r /\ req'[q] = m
          \/ req'[q] = req[q] \/ req'[q] = [req[q] EXCEPT !.late = TRUE]
      BY <2>1 DEF MarkLate
    <3>2. req[q] \in LocalStates
      BY DEF TypeInv, TypeOK
    <3> QED  BY <1>1, <2>1, <3>1, <3>2 DEF SameFit, LocalStates
  <2> QED  BY <1>2, <2>2, KeepsAccounts
<1> QED
  BY <1>b1, <1>b2, <1>b3, <1>b4, <1>b5 DEF SessionStep

LEMMA AccountStep == TypeInv /\ AccountInv /\ [Next]_vars => AccountInv'
<1> SUFFICES ASSUME TypeInv, AccountInv, [Next]_vars PROVE AccountInv'
  OBVIOUS
<1>1. ASSUME NEW r \in Requests, Drop(r) PROVE AccountInv'
  <2>1. req' = [req EXCEPT ![r] = Idle] /\ UNCHANGED users
    BY <1>1 DEF Drop, Answer, stores
  <2> QED  BY <2>1, SameUsers, OneFit, IdleFit
<1>2. CASE Tick \/ SetBack \/ UNCHANGED vars
  <2>1. UNCHANGED <<users, req>>
    BY <1>2 DEF Tick, SetBack, vars, stores
  <2> QED  BY <2>1, SameUsers, KeepsAccounts DEF SameFit
<1> QED
  BY <1>1, <1>2, CallAccounts, UserStepAccounts, SessionStepAccounts DEF Next

-----------------------------------------------------------------------------

\* However register, update_me and delete_me interleave, alive accounts
\* differ in username and in e-mail even up to normalize: both writers check
\* (the in-memory scan, the unique indexes) and both are given normalized
\* identifiers.
THEOREM IdentifiersUnique == Spec => []UniqueIdentifiers
<1>1. AccountInv => UniqueIdentifiers
  BY DEF AccountInv, GoodUsers, UniqueIdentifiers, NormalInput, Normal
<1> QED
  BY <1>1, InitType, TypeInvStep, AccountInit, AccountStep, PTL DEF Spec

\* Every path that stores an identifier stores it normalized, so login finds
\* the account under it: whichever requests rename it, and even if the
\* register that made it failed before it could answer.
THEOREM LoginReachesAccount == Spec => []LoginFindsAccount
<1>1. TypeInv /\ AccountInv => LoginFindsAccount
  <2> SUFFICES ASSUME TypeInv, AccountInv, NEW u \in UserIds, Alive(users[u]),
                      NEW name \in {users[u].username, users[u].email} \ {None}
               PROVE  u \in RepoFindByIdentifier(Normalize[name])
    BY DEF LoginFindsAccount
  <2>1. Normalize[name] = name
    <3>1. NormalInput(users[u].username, users[u].email)
      BY DEF AccountInv, GoodUsers
    <3>2. name = users[u].username \/ (name = users[u].email /\ users[u].email # None)
      OBVIOUS
    <3> QED  BY <3>1, <3>2 DEF NormalInput, Normal
  <2>2. u \in DOMAIN users /\ users[u].password_hash # None
    BY DEF TypeInv, TypeOK, AccountInv, GoodUsers
  <2> QED
    BY <2>1, <2>2 DEF RepoFindByIdentifier, MemFindByIdentifier, PgFindByIdentifier
<1> QED
  BY <1>1, InitType, TypeInvStep, AccountInit, AccountStep, PTL DEF Spec

\* A request called after its account was deleted stores no session for it:
\* login and refresh look the account up, alive, after they were called, and
\* a registration makes a new one.
THEOREM DeletedOpensNothing == Spec => []NoSessionForDeleted
<1>1. AccountInv => NoSessionForDeleted
  BY DEF AccountInv, Fit, Opening, NoSessionForDeleted
<1> QED
  BY <1>1, InitType, TypeInvStep, AccountInit, AccountStep, PTL DEF Spec
=============================================================================
