---------------------------- MODULE TokenProofs ----------------------------
(***************************************************************************)
(* Access tokens: how long one is accepted and what it says, for any       *)
(* lifetimes, leeway and skew, any number of requests and accounts, and    *)
(* both backends.                                                          *)
(***************************************************************************)
EXTENDS AccessTokens, AccountProofs

-----------------------------------------------------------------------------
(* The inductive invariant                                                 *)

\* The roles copied for a user lie between those granted when the request
\* was called and those granted since.
RolesBetween(asked, roles, u, g) ==
    /\ MemRolesForUser(RoleNames, asked, u) \subseteq roles
    /\ roles \subseteq MemRolesForUser(RoleNames, g, u)

\* A signed token is that of a stored session, counts its life from the same
\* instant, and was signed before its account was deleted or is marked.
Signed(s) ==
    LET t == token[s]
    IN  t.user # None =>
          /\ t.user \in UserIds /\ t.exp \in Int
          /\ Stored(sessions[s])
          /\ t.exp + RefreshTtl = sessions[s].expires_at + AccessTtl
          /\ RolesBetween(t.asked, t.roles, t.user, grants)
          /\ \/ t.across
             \/ users[t.user].status = "deleted" /\ t.exp <= deletedAt[t.user] + AccessTtl
             \/ users[t.user].status = "alive" /\ t.exp <= now + AccessTtl

\* What a request with local state l and claims c has in hand, given the
\* stores and the clock: an account that exists, and from CreateSession on
\* an instant that has passed and the roles of its account.
InHand(l, c, us, ss, g, t) ==
    /\ c = [roles |-> c.roles, asked |-> c.asked]
    /\ c.asked \subseteq g
    /\ Opening(l) => us[l.user].status # "absent"
    /\ l.pc \in {"CreateSession", "Sign"} =>
         l.at <= t /\ RolesBetween(c.asked, c.roles, l.user, g)
    /\ l.pc = "Sign" => ss[l.session].expires_at = l.at + RefreshTtl

ClocksClose == sysnow <= now + Skew /\ now <= sysnow + Skew

TokenInv ==
    /\ sysnow \in Nat
    /\ deletedAt \in [UserIds -> Nat]
    /\ DOMAIN token = SessionIds /\ DOMAIN local = Requests
    /\ ClocksClose
    /\ \A s \in SessionIds : Signed(s)
    /\ \A r \in Requests : InHand(req[r], local[r], users, sessions, grants, now)

-----------------------------------------------------------------------------
(* What no step takes back                                                 *)

\* Sessions keep their expiry, grants and clocks grow, and a deletion is
\* recorded at its instant.
Grows ==
    /\ now \in Nat /\ now' \in Nat /\ now <= now'
    /\ grants \subseteq grants'
    /\ \A s \in SessionIds : Stored(sessions[s]) =>
         Stored(sessions'[s]) /\ sessions'[s].expires_at = sessions[s].expires_at
    /\ \A u \in UserIds :
         \/ users[u].status = "absent"
         \/ users'[u].status = users[u].status /\ deletedAt'[u] = deletedAt[u]
         \/ /\ users[u].status = "alive" /\ users'[u].status = "deleted"
            /\ deletedAt'[u] = now

LEMMA RolesGrow ==
  ASSUME NEW g, NEW h, g \subseteq h, NEW asked, NEW roles, NEW u,
         RolesBetween(asked, roles, u, g)
  PROVE  RolesBetween(asked, roles, u, h)
BY DEF RolesBetween, MemRolesForUser

\* A token signed earlier stays right.
LEMMA KeepsSigned ==
  ASSUME TypeInv, TokenInv, Grows, NEW s \in SessionIds, token'[s] = token[s]
  PROVE  Signed(s)'
<1> DEFINE t == token[s]
<1> SUFFICES ASSUME t.user # None PROVE Signed(s)'
  BY DEF Signed
<1>1. /\ t.user \in UserIds /\ t.exp \in Int
      /\ Stored(sessions[s])
      /\ t.exp + RefreshTtl = sessions[s].expires_at + AccessTtl
      /\ RolesBetween(t.asked, t.roles, t.user, grants)
  BY DEF TokenInv, Signed
<1>2. \/ t.across
      \/ users[t.user].status = "deleted" /\ t.exp <= deletedAt[t.user] + AccessTtl
      \/ users[t.user].status = "alive" /\ t.exp <= now + AccessTtl
  BY DEF TokenInv, Signed
<1>3. RolesBetween(t.asked, t.roles, t.user, grants')
  BY <1>1, RolesGrow DEF Grows
<1>4. Stored(sessions'[s]) /\ sessions'[s].expires_at = sessions[s].expires_at
  BY <1>1 DEF Grows
<1>5. \/ t.across
      \/ users'[t.user].status = "deleted" /\ t.exp <= deletedAt'[t.user] + AccessTtl
      \/ users'[t.user].status = "alive" /\ t.exp <= now' + AccessTtl
  <2> HIDE DEF t
  <2> QED  BY <1>1, <1>2, TokenTimesAssumption DEF Grows
<1> QED  BY <1>1, <1>3, <1>4, <1>5 DEF Signed

InHandNext(q) == InHand(req'[q], local'[q], users', sessions', grants', now')

\* So does what a request has in hand while it does not move.
LEMMA KeepsHand ==
  ASSUME TypeInv, TokenInv, Grows, NEW q \in Requests, local'[q] = local[q],
         SameFit(q), req'[q].at = req[q].at, req'[q].session = req[q].session
  PROVE  InHandNext(q)
<1> DEFINE l == req[q]
           c == local[q]
<1>1. InHand(l, c, users, sessions, grants, now) /\ l \in LocalStates
  BY DEF TokenInv, TypeInv, TypeOK
<1>2. Opening(l) => l.user \in UserIds
  BY DEF TypeInv, LocalsOK, KnowsUser, Opening
<1>3. l.pc = "Sign" => l.session \in SessionIds /\ Stored(sessions[l.session])
  BY DEF TypeInv, LocalsOK, SignsStored
<1>4. l.at \in Nat
  BY <1>1 DEF LocalStates
<1>5. InHand(l, c, users', sessions', grants', now')
  <2> HIDE DEF l, c
  <2> QED  BY <1>1, <1>2, <1>3, <1>4, RolesGrow DEF InHand, Grows
<1>6. Opening(req'[q]) <=> Opening(l)
  BY DEF Opening, SameFit
<1> QED  BY <1>5, <1>6 DEF InHand, InHandNext, SameFit

\* One request moves, the others do not.
LEMMA OneMoves ==
  ASSUME TypeInv, TokenInv, Grows, NEW r \in Requests, NEW m, NEW c,
         req' = [req EXCEPT ![r] = m], Carry(r, c),
         m = Idle \/ InHand(m, c, users', sessions', grants', now')
  PROVE  DOMAIN local' = Requests /\ \A q \in Requests : InHandNext(q)
<1>1. DOMAIN local' = Requests /\ DOMAIN req = Requests
  BY DEF Carry, TokenInv, TypeInv, TypeOK
<1>2. ASSUME NEW q \in Requests, q # r PROVE InHandNext(q)
  <2>1. req'[q] = req[q] /\ local'[q] = local[q]
    BY <1>2 DEF Carry, TokenInv, TypeInv, TypeOK
  <2> QED  BY <2>1, KeepsHand DEF SameFit
<1>3. req'[r] = m /\ local'[r] = IF m = Idle THEN Blank ELSE c
  BY <1>1 DEF Carry, TokenInv
<1>4. InHand(Idle, Blank, users', sessions', grants', now')
  BY DEF InHand, Idle, Blank, Opening
<1>5. InHandNext(r)
  BY <1>3, <1>4 DEF InHandNext
<1> QED  BY <1>1, <1>2, <1>5

-----------------------------------------------------------------------------
(* The steps of a request                                                  *)

\* A handler that answers, or goes on with an account that exists where it
\* has just found or made one.
LEMMA PlainHand ==
  ASSUME TypeInv, TokenInv, Grows, NEW r \in Requests,
         NEW step \in DOMAIN StageOps
                        \ {"RevokeAllCommit", "Issue", "CreateSession", "Sign"},
         req[r].pc = step,
         NEW m \in LocalStates, m.op = req[r].op,
         step \in {"Create", "FindByIdentifier", "FindById"} =>
           users'[m.user].status # "absent",
         step = "Verify" => m.user = req[r].user,
         Answer(r) \/ Continue(r, step, m),
         Carry(r, local[r])
  PROVE  DOMAIN local' = Requests /\ \A q \in Requests : InHandNext(q)
<1>1. CASE Answer(r)
  BY <1>1, OneMoves DEF Answer
<1>2. CASE Continue(r, step, m)
  <2> DEFINE l == Moved(step, m)
  <2>0. m.op \in StageOps[step]
    BY DEF TypeInv, LocalsOK, InStage, StageOps
  <2>1. l = Idle \/ l = [m EXCEPT !.pc = After(m.op, step)]
    BY DEF Moved
  <2>2. InHand(req[r], local[r], users, sessions, grants, now)
    BY DEF TokenInv
  <2>3. CASE l = [m EXCEPT !.pc = After(m.op, step)]
    <3>1. l.op = m.op /\ l.user = m.user /\ l.pc = After(m.op, step)
      BY <2>3 DEF LocalStates
    <3>2. /\ After(m.op, step) \notin {"CreateSession", "Sign"}
          /\ \/ After(m.op, step) = "Issue"
             \/ m.op = "login" /\ After(m.op, step) = "Verify"
             => \/ step \in {"Create", "FindByIdentifier", "FindById"}
                \/ step = "Verify" /\ m.op = "login"
      BY <2>0 DEF StageOps, After, IssueSession, Handler, Register, Login, Refresh,
             Logout, LogoutAll, UpdateMe, DeleteMe, ChangePassword
    <3>3. step = "Verify" /\ m.op = "login" => users'[m.user].status # "absent"
      <4>1. step = "Verify" => req[r].user \in UserIds
        BY DEF TypeInv, LocalsOK, KnowsUser
      <4> QED  BY <2>2, <4>1 DEF InHand, Opening, Grows
    <3> HIDE DEF l
    <3>4. Opening(l) => users'[l.user].status # "absent"
      BY <3>1, <3>2, <3>3 DEF Opening
    <3>5. InHand(l, local[r], users', sessions', grants', now')
      BY <2>2, <3>1, <3>2, <3>4 DEF InHand, Grows
    <3> QED  BY <1>2, <3>5, OneMoves DEF Continue, l
  <2>4. req' = [req EXCEPT ![r] = l]
    BY <1>2 DEF Continue
  <2> HIDE DEF l
  <2>5. CASE l = Idle
    BY <2>4, <2>5, OneMoves
  <2> QED  BY <2>1, <2>3, <2>5 DEF l
<1> QED  BY <1>1, <1>2

\* What the writes to the user store leave of the accounts.
KeepsStatus(t) ==
    \A u \in UserIds : users[u].status = "absent" \/ t[u].status = users[u].status

LEMMA StatusKept ==
  ASSUME users \in [UserIds -> UserRows], NEW id, NEW name, NEW email, NEW hash
  PROVE  /\ users[id] = NoUser => KeepsStatus(RepoCreate(id, name, email, hash).tab)
         /\ KeepsStatus(RepoUpdate(id, name, email).tab)
         /\ KeepsStatus(RepoUpdatePassword(id, hash).tab)
<1>1. KeepsStatus(users)
  BY DEF KeepsStatus
<1>2. users[id] = NoUser => KeepsStatus(RepoCreate(id, name, email, hash).tab)
  <2>1. users[id] = NoUser =>
          KeepsStatus([users EXCEPT ![id] = UserRow(name, email, hash)])
    BY DEF KeepsStatus, NoUser
  <2> QED  BY <1>1, <2>1 DEF RepoCreate, MemCreate, PgCreate, PgGuarded, Reply
<1>3. KeepsStatus(RepoUpdate(id, name, email).tab)
  <2>1. KeepsStatus([users EXCEPT ![id].username = name, ![id].email = email])
    BY DEF KeepsStatus, UserRows
  <2> QED  BY <1>1, <2>1 DEF RepoUpdate, MemUpdate, PgUpdate, PgGuarded, Reply
<1>4. KeepsStatus(RepoUpdatePassword(id, hash).tab)
  <2>1. KeepsStatus([users EXCEPT ![id].password_hash = hash])
    BY DEF KeepsStatus, UserRows
  <2> QED  BY <1>1, <2>1 DEF RepoUpdatePassword, MemUpdatePassword, PgUpdatePassword, Reply
<1> QED  BY <1>2, <1>3, <1>4

\* A step that writes no session and deletes no account.
LEMMA QuietGrows ==
  ASSUME TypeInv, UNCHANGED <<sessions, now, grants, deletedAt>>, KeepsStatus(users')
  PROVE  Grows
BY DEF TypeInv, TypeOK, KeepsStatus, Grows

\* A step that signs nothing and moves no clock.
LEMMA KeepsTokens ==
  ASSUME TypeInv, TokenInv, Grows, UNCHANGED <<sysnow, now, token>>,
         deletedAt' \in [UserIds -> Nat], DOMAIN local' = Requests,
         \A q \in Requests : InHandNext(q)
  PROVE  TokenInv'
<1>1. \A s \in SessionIds : Signed(s)'
  BY KeepsSigned
<1> QED  BY <1>1 DEF TokenInv, ClocksClose, InHandNext

LEMMA UserStepTokens ==
  ASSUME TypeInv, TokenInv, NEW r \in Requests,
         Create(r) \/ FindByIdentifier(r) \/ PasswordHash(r) \/ Verify(r)
           \/ FindById(r) \/ Update(r) \/ UpdatePassword(r),
         Carry(r, local[r]), UNCHANGED <<sysnow, grants, token, deletedAt>>
  PROVE  TokenInv'
<1> DEFINE l == req[r]
<1>0. /\ l \in LocalStates /\ users \in [UserIds -> UserRows]
      /\ l.pc \notin {"Idle", "Create", "FindByIdentifier", "FindActive"} =>
           l.user \in UserIds
  BY DEF TypeInv, TypeOK, LocalsOK, KnowsUser
<1>1. UNCHANGED <<sessions, now>> /\ deletedAt' \in [UserIds -> Nat]
  BY DEF Create, FindByIdentifier, PasswordHash, Verify, FindById, Update,
         UpdatePassword, stores, TokenInv
<1>2. KeepsStatus(users)
  BY DEF KeepsStatus
<1>b1. CASE Create(r)
  <2>1. PICK id \in UserIds :
          LET reply == RepoCreate(id, l.name, l.email, l.hash)
          IN  /\ users[id] = NoUser
              /\ users' = reply.tab
              /\ \/ reply.ret = "Ok" /\ Continue(r, "Create", [l EXCEPT !.user = id])
                 \/ Answer(r)
    BY <1>b1 DEF Create
  <2>2. Grows
    BY <1>0, <1>1, <2>1, StatusKept, QuietGrows
  <2>3. l.pc = "Create"
    BY <1>b1 DEF Create, At
  <2>4. CASE Answer(r)
    <3>1. DOMAIN local' = Requests /\ \A q \in Requests : InHandNext(q)
      BY <2>2, <2>4, OneMoves DEF Answer
    <3> QED  BY <1>1, <2>2, <3>1, KeepsTokens
  <2>5. CASE /\ RepoCreate(id, l.name, l.email, l.hash).ret = "Ok"
             /\ Continue(r, "Create", [l EXCEPT !.user = id])
    <3> DEFINE m == [l EXCEPT !.user = id]
    <3>1. m \in LocalStates /\ m.op = l.op /\ m.user = id
      BY <1>0 DEF LocalStates, Opt
    <3>2. users' = [users EXCEPT ![id] = UserRow(l.name, l.email, l.hash)]
      BY <2>1, <2>5 DEF RepoCreate, MemCreate, PgCreate, PgGuarded, Reply
    <3>3. users'[id].status # "absent"
      BY <1>0, <3>2 DEF UserRow
    <3>4. Continue(r, "Create", m)
      BY <2>5
    <3> HIDE DEF m
    <3>5. DOMAIN local' = Requests /\ \A q \in Requests : InHandNext(q)
      BY <2>2, <2>3, <3>1, <3>3, <3>4, PlainHand DEF StageOps
    <3> QED  BY <1>1, <2>2, <3>5, KeepsTokens
  <2> QED  BY <2>1, <2>4, <2>5
<1>b2. CASE FindByIdentifier(r)
  <2>1. /\ l.pc = "FindByIdentifier" /\ UNCHANGED users
        /\ \/ Answer(r)
           \/ \E u \in RepoFindByIdentifier(l.name) :
                Continue(r, "FindByIdentifier",
                         Looked(l, u, users[u].password_hash, RevokeAllOpen(u)))
    BY <1>b2 DEF FindByIdentifier, Looked, At, stores
  <2>2. Grows
    BY <1>1, <1>2, <2>1, QuietGrows
  <2>3. CASE Answer(r)
    <3>1. DOMAIN local' = Requests /\ \A q \in Requests : InHandNext(q)
      BY <2>2, <2>3, OneMoves DEF Answer
    <3> QED  BY <1>1, <2>2, <3>1, KeepsTokens
  <2>4. ASSUME NEW u \in RepoFindByIdentifier(l.name),
               Continue(r, "FindByIdentifier",
                        Looked(l, u, users[u].password_hash, RevokeAllOpen(u)))
        PROVE  TokenInv'
    <3> DEFINE m == Looked(l, u, users[u].password_hash, RevokeAllOpen(u))
    <3>1. u \in UserIds /\ users[u].status # "absent"
      BY <1>0 DEF RepoFindByIdentifier, MemFindByIdentifier, PgFindByIdentifier, Alive
    <3>2. users[u].password_hash \in Opt(Hashes) /\ RevokeAllOpen(u) \in BOOLEAN
      BY <1>0, <3>1 DEF UserRows, RevokeAllOpen
    <3>3. m \in LocalStates /\ m.op = l.op /\ m.user = u
      BY <1>0, <3>1, <3>2, LookupType
    <3>4. Continue(r, "FindByIdentifier", m)
      BY <2>4
    <3> HIDE DEF m
    <3>5. DOMAIN local' = Requests /\ \A q \in Requests : InHandNext(q)
      BY <2>1, <2>2, <3>1, <3>3, <3>4, PlainHand DEF StageOps
    <3> QED  BY <1>1, <2>2, <3>5, KeepsTokens
  <2> QED  BY <2>1, <2>3, <2>4
<1>b3. CASE PasswordHash(r)
  <2> DEFINE m == [l EXCEPT !.hash = RepoPasswordHash(l.user)]
  <2>1. l.pc = "PasswordHash" /\ l.user \in UserIds /\ UNCHANGED users
    BY <1>0, <1>b3 DEF PasswordHash, At, stores
  <2>2. RepoPasswordHash(l.user) \in Opt(Hashes)
    BY <1>0, <2>1 DEF RepoPasswordHash, MemPasswordHash, PgPasswordHash, UserRows, Opt
  <2>3. m \in LocalStates /\ m.op = l.op
    BY <1>0, <2>2 DEF LocalStates
  <2>4. Answer(r) \/ Continue(r, "PasswordHash", m)
    BY <1>b3 DEF PasswordHash
  <2>5. Grows
    BY <1>1, <1>2, <2>1, QuietGrows
  <2> HIDE DEF m
  <2>6. DOMAIN local' = Requests /\ \A q \in Requests : InHandNext(q)
    BY <2>1, <2>3, <2>4, <2>5, PlainHand DEF StageOps
  <2> QED  BY <1>1, <2>5, <2>6, KeepsTokens
<1>b4. CASE Verify(r) \/ Update(r) \/ UpdatePassword(r)
  <2>1. PICK step \in {"Verify", "Update", "UpdatePassword"} :
          l.pc = step /\ (Answer(r) \/ Continue(r, step, l))
    BY <1>b4 DEF Verify, Update, UpdatePassword, At
  <2>2. KeepsStatus(users')
    BY <1>0, <1>2, <1>b4, StatusKept DEF Verify, Update, UpdatePassword, stores
  <2>3. Grows
    BY <1>1, <2>2, QuietGrows
  <2>4. DOMAIN local' = Requests /\ \A q \in Requests : InHandNext(q)
    BY <1>0, <2>1, <2>3, PlainHand DEF StageOps
  <2> QED  BY <1>1, <2>3, <2>4, KeepsTokens
<1>b5. CASE FindById(r)
  <2>1. l.pc = "FindById" /\ l.user \in UserIds /\ UNCHANGED users
    BY <1>0, <1>b5 DEF FindById, At, stores
  <2>2. Grows
    BY <1>1, <1>2, <2>1, QuietGrows
  <2>3. CASE Answer(r)
    <3>1. DOMAIN local' = Requests /\ \A q \in Requests : InHandNext(q)
      BY <2>2, <2>3, OneMoves DEF Answer
    <3> QED  BY <1>1, <2>2, <3>1, KeepsTokens
  <2>4. CASE RepoFindById(l.user) /\ Continue(r, "FindById", l)
    <3>1. users'[l.user].status # "absent"
      BY <2>1, <2>4 DEF RepoFindById, MemFindById, PgFindById, Alive
    <3>2. DOMAIN local' = Requests /\ \A q \in Requests : InHandNext(q)
      BY <1>0, <2>1, <2>2, <2>4, <3>1, PlainHand DEF StageOps
    <3> QED  BY <1>1, <2>2, <3>2, KeepsTokens
  <2> QED  BY <1>b5, <2>3, <2>4 DEF FindById
<1> QED  BY <1>b1, <1>b2, <1>b3, <1>b4, <1>b5

\* The steps on sessions before issue_session, and a request that ends.
LEMMA SessionStepTokens ==
  ASSUME TypeInv, TokenInv, NEW r \in Requests,
         FindActive(r) \/ Revoke(r) \/ RevokeAll(r) \/ RevokeAllCommit(r) \/ Drop(r),
         Carry(r, local[r]), UNCHANGED <<sysnow, grants, token, deletedAt>>
  PROVE  TokenInv'
<1> DEFINE l == req[r]
<1>0. l \in LocalStates /\ sessions \in [SessionIds -> SessionRows]
  BY DEF TypeInv, TypeOK
<1>1. UNCHANGED <<users, now>> /\ deletedAt' \in [UserIds -> Nat]
  BY DEF FindActive, Revoke, RevokeAll, RevokeAllCommit, Drop, stores, TokenInv
<1>2. OnlyRevokes(sessions')
  <2>1. OnlyRevokes(sessions)
    BY <1>0 DEF OnlyRevokes
  <2>2. CASE FindActive(r) \/ Drop(r)
    BY <2>1, <2>2 DEF FindActive, Drop, stores
  <2>3. CASE Revoke(r) \/ RevokeAll(r) \/ RevokeAllCommit(r)
    BY <1>0, <2>1, <2>3, RevokesOnly DEF Revoke, RevokeAll, RevokeAllCommit
  <2> QED  BY <2>2, <2>3
<1>3. Grows
  BY <1>1, <1>2 DEF Grows, OnlyRevokes, Stored, TypeInv, TypeOK
<1>b1. CASE FindActive(r)
  <2> DEFINE found == RepoFindActive(HashRefresh(l.token), l.at)
  <2>1. /\ l.pc = "FindActive"
        /\ \/ Answer(r)
           \/ \E s \in found :
                Continue(r, "FindActive",
                  Opened(l, s, sessions[s].user, lineage[s].cred, OpenedLate(s)))
    BY <1>b1 DEF FindActive, At, Opened
  <2>2. CASE Answer(r)
    <3>1. DOMAIN local' = Requests /\ \A q \in Requests : InHandNext(q)
      BY <1>3, <2>2, OneMoves DEF Answer
    <3> QED  BY <1>1, <1>3, <3>1, KeepsTokens
  <2>3. ASSUME NEW s \in found,
               Continue(r, "FindActive",
                 Opened(l, s, sessions[s].user, lineage[s].cred, OpenedLate(s)))
        PROVE  TokenInv'
    <3> DEFINE m == Opened(l, s, sessions[s].user, lineage[s].cred, OpenedLate(s))
    <3>1. /\ s \in SessionIds /\ sessions[s] \in SessionRows
          /\ lineage[s] \in Lineages /\ Stored(sessions[s])
      BY DEF RepoFindActive, MemFindActive, PgFindActive, TypeInv, TypeOK
    <3>2. /\ sessions[s].user \in UserIds /\ lineage[s].cred \in Opt(Hashes)
          /\ OpenedLate(s) \in BOOLEAN
      BY <3>1 DEF SessionRows, Lineages, OpenedLate, RevokeAllOpen, Stored, Opt
    <3>3. m \in LocalStates /\ m.op = l.op
      BY <1>0, <3>1, <3>2, OpenedType
    <3>4. Continue(r, "FindActive", m)
      BY <2>3
    <3> HIDE DEF m
    <3>5. DOMAIN local' = Requests /\ \A q \in Requests : InHandNext(q)
      BY <1>3, <2>1, <3>3, <3>4, PlainHand DEF StageOps
    <3> QED  BY <1>1, <1>3, <3>5, KeepsTokens
  <2> QED  BY <2>1, <2>2, <2>3
<1>b2. CASE Revoke(r)
  <2>1. l.pc = "Revoke" /\ Continue(r, "Revoke", l)
    BY <1>b2 DEF Revoke, At
  <2>2. DOMAIN local' = Requests /\ \A q \in Requests : InHandNext(q)
    BY <1>0, <1>3, <2>1, PlainHand DEF StageOps
  <2> QED  BY <1>1, <1>3, <2>2, KeepsTokens
<1>b3. CASE Drop(r)
  <2>1. DOMAIN local' = Requests /\ \A q \in Requests : InHandNext(q)
    BY <1>3, <1>b3, OneMoves DEF Drop, Answer
  <2> QED  BY <1>1, <1>3, <2>1, KeepsTokens
<1>b4. CASE RevokeAll(r) \/ RevokeAllCommit(r)
  <2>1. l.op \in StageOps["RevokeAll"]
    BY <1>b4 DEF TypeInv, LocalsOK, InStage, StageOps, RevokeAll, RevokeAllCommit, At
  <2>2. PICK m : /\ MarkLate(r, l.user, m)
                 /\ m.pc \notin {"CreateSession", "Sign"} /\ ~Opening(m)
    <3>1. ASSUME NEW k \in LocalStates, k.op = l.op
          PROVE  LET m == Moved("RevokeAll", k)
                 IN  m.pc \notin {"CreateSession", "Sign"} /\ ~Opening(m)
      <4> DEFINE m == Moved("RevokeAll", k)
      <4>1. CASE m = Idle
        BY <4>1 DEF Idle, Opening
      <4>2. CASE m = [k EXCEPT !.pc = After(k.op, "RevokeAll")]
        <5>1. m.op = k.op /\ m.pc = After(k.op, "RevokeAll")
          BY <4>2 DEF LocalStates
        <5>2. After(k.op, "RevokeAll") \notin {"Issue", "CreateSession", "Sign", "Verify"}
          BY <2>1, <3>1 DEF StageOps, After, IssueSession, Handler, LogoutAll,
                            DeleteMe, ChangePassword
        <5> QED  BY <5>1, <5>2 DEF Opening
      <4> QED  BY <4>1, <4>2 DEF Moved
    <3>2. CASE RevokeAll(r) /\ Memory
      BY <1>0, <3>1, <3>2 DEF RevokeAll
    <3>3. CASE RevokeAll(r) /\ ~Memory
      <4> DEFINE k == [l EXCEPT !.pc = "RevokeAllCommit",
                                !.rows = PgRevokeAllRows(sessions, l.user, None)]
      <4>1. k.pc = "RevokeAllCommit" /\ MarkLate(r, l.user, k)
        BY <1>0, <3>3 DEF LocalStates, RevokeAll
      <4> HIDE DEF k
      <4> QED  BY <4>1 DEF Opening
    <3>4. CASE RevokeAllCommit(r)
      <4> DEFINE k == [l EXCEPT !.rows = {}]
      <4>1. k \in LocalStates /\ k.op = l.op
        BY <1>0 DEF LocalStates
      <4>2. MarkLate(r, l.user, Moved("RevokeAll", k))
        BY <3>4 DEF RevokeAllCommit
      <4> HIDE DEF k
      <4> QED  BY <3>1, <4>1, <4>2
    <3> QED  BY <1>b4, <3>2, <3>3, <3>4
  <2>3. ASSUME NEW q \in Requests PROVE InHandNext(q)
    <3>0. InHand(req[q], local[q], users, sessions, grants, now)
      BY DEF TokenInv
    <3>1. CASE q = r
      <4>1. req'[q] = m /\ (local'[q] = Blank \/ local'[q] = local[q])
        BY <2>2, <3>1 DEF MarkLate, Carry, TokenInv
      <4>2. \A c \in {Blank, local[q]} :
              c = [roles |-> c.roles, asked |-> c.asked] /\ c.asked \subseteq grants'
        BY <1>3, <3>0 DEF InHand, Grows, Blank
      <4> QED  BY <2>2, <4>1, <4>2 DEF InHandNext, InHand
    <3>2. CASE q # r
      <4>1. /\ req'[q] = req[q] \/ req'[q] = [req[q] EXCEPT !.late = TRUE]
            /\ local'[q] = local[q] /\ req[q] \in LocalStates
        BY <2>2, <3>2 DEF MarkLate, Carry, TokenInv, TypeInv, TypeOK
      <4>2. /\ SameFit(q) /\ req'[q].at = req[q].at
            /\ req'[q].session = req[q].session
        BY <4>1 DEF SameFit, LocalStates
      <4> QED  BY <1>3, <4>1, <4>2, KeepsHand
    <3> QED  BY <3>1, <3>2
  <2>4. DOMAIN local' = Requests
    BY DEF Carry, TokenInv
  <2> QED  BY <1>1, <1>3, <2>3, <2>4, KeepsTokens
<1> QED  BY <1>b1, <1>b2, <1>b3, <1>b4

\* delete_me records the instant of the deletion.
LEMMA SoftDeleteTokens ==
  ASSUME TypeInv, TokenInv, NEW r \in Requests, TokenSoftDelete(r)
  PROVE  TokenInv'
<1> DEFINE l == req[r]
<1>0. /\ l \in LocalStates /\ l.pc = "SoftDelete" /\ l.user \in UserIds
      /\ users \in [UserIds -> UserRows] /\ now \in Nat
  BY DEF TokenSoftDelete, SoftDelete, At, TypeInv, TypeOK, LocalsOK, KnowsUser
<1>1. /\ users' = RepoSoftDelete(l.user).tab
      /\ Answer(r) \/ Continue(r, "SoftDelete", l)
      /\ Carry(r, local[r])
      /\ UNCHANGED <<sessions, now, sysnow, grants, token>>
  BY DEF TokenSoftDelete, SoftDelete
<1>2. \A u \in UserIds : deletedAt'[u] = IF u \notin Deleted /\ users'[u].status = "deleted"
                                         THEN now ELSE deletedAt[u]
  BY DEF TokenSoftDelete
<1>3. \A u \in UserIds :
        \/ users'[u].status = users[u].status
        \/ users[u].status = "alive" /\ users'[u].status = "deleted"
  BY <1>0, <1>1 DEF RepoSoftDelete, MemSoftDelete, PgSoftDelete, Reply, Alive, UserRows
<1>4. deletedAt' \in [UserIds -> Nat]
  BY <1>0 DEF TokenSoftDelete, TokenInv
<1>5. Grows
  BY <1>0, <1>1, <1>2, <1>3 DEF Grows, Deleted
<1>6. DOMAIN local' = Requests /\ \A q \in Requests : InHandNext(q)
  BY <1>0, <1>1, <1>5, PlainHand DEF StageOps
<1> QED  BY <1>1, <1>4, <1>5, <1>6, KeepsTokens

-----------------------------------------------------------------------------
(* issue_session                                                           *)

\* The roles are read: they hold those of the call, and nothing else.
LEMMA IssueTokens ==
  ASSUME TypeInv, TokenInv, NEW r \in Requests, TokenIssue(r)
  PROVE  TokenInv'
<1> DEFINE l == req[r]
           m == [l EXCEPT !.at = now, !.pc = "CreateSession"]
           c == [local[r] EXCEPT !.roles = RolesRead(r)]
<1>0. l \in LocalStates /\ l.pc = "Issue" /\ l.user \in UserIds /\ now \in Nat
  BY DEF TokenIssue, Issue, At, TypeInv, TypeOK, LocalsOK, KnowsUser
<1>1. UNCHANGED <<users, sessions, now, sysnow, grants, token, deletedAt>>
  BY DEF TokenIssue, Issue, stores
<1>2. Grows
  BY <1>1, QuietGrows DEF KeepsStatus
<1>3. req' = [req EXCEPT ![r] = m] /\ Carry(r, c)
  BY <1>0 DEF TokenIssue, Issue, Continue, Moved, After, IssueSession
<1>4. InHand(l, local[r], users, sessions, grants, now)
  BY DEF TokenInv
<1>5. /\ c = [roles |-> RolesForUser(l.user), asked |-> local[r].asked]
      /\ local[r].asked \subseteq grants
      /\ users[l.user].status # "absent"
  BY <1>0, <1>4 DEF InHand, RolesRead, Opening
<1>6. RolesBetween(c.asked, c.roles, l.user, grants)
  BY <1>5 DEF RolesBetween, RolesForUser, MemRolesForUser
<1>7. m.pc = "CreateSession" /\ m.user = l.user /\ m.at = now
  BY <1>0 DEF LocalStates
<1> HIDE DEF m, c
<1>8. InHand(m, c, users', sessions', grants', now')
  BY <1>0, <1>1, <1>5, <1>6, <1>7 DEF InHand
<1>9. DOMAIN local' = Requests /\ \A q \in Requests : InHandNext(q)
  BY <1>2, <1>3, <1>8, OneMoves
<1> QED  BY <1>1, <1>2, <1>9, KeepsTokens DEF TokenInv

LEMMA CreateSessionTokens ==
  ASSUME TypeInv, TokenInv, NEW r \in Requests, CreateSession(r),
         Carry(r, local[r]), UNCHANGED <<sysnow, grants, token, deletedAt>>
  PROVE  TokenInv'
<1> DEFINE l == req[r]
<1>0. /\ l \in LocalStates /\ l.pc = "CreateSession" /\ l.user \in UserIds
      /\ sessions \in [SessionIds -> SessionRows] /\ now \in Nat
      /\ UNCHANGED <<users, now>>
  BY DEF CreateSession, At, TypeInv, TypeOK, LocalsOK, KnowsUser
<1>1. PICK s \in SessionIds :
        LET reply == RepoSessionCreate(s, l.user, HashRefresh(s), l.at + RefreshTtl)
        IN  /\ ~Stored(sessions[s])
            /\ reply.ret = "Ok"
            /\ sessions' = reply.tab
            /\ Continue(r, "CreateSession", [l EXCEPT !.session = s])
  BY DEF CreateSession
<1>2. sessions' = [sessions EXCEPT ![s] =
                     SessionRow(l.user, HashRefresh(s), l.at + RefreshTtl)]
  BY <1>1 DEF RepoSessionCreate, MemSessionCreate, PgSessionCreate, Reply
<1>3. Grows
  BY <1>0, <1>1, <1>2 DEF Grows
<1> DEFINE m == [l EXCEPT !.session = s, !.pc = "Sign"]
<1>4. req' = [req EXCEPT ![r] = m]
  BY <1>0, <1>1 DEF Continue, Moved, After, IssueSession
<1>5. m.pc = "Sign" /\ m.session = s /\ m.user = l.user /\ m.at = l.at
  BY <1>0 DEF LocalStates
<1>6. sessions'[s].expires_at = l.at + RefreshTtl
  BY <1>0, <1>2 DEF SessionRow
<1>7. InHand(l, local[r], users, sessions, grants, now)
  BY DEF TokenInv
<1> HIDE DEF m
<1>8. InHand(m, local[r], users', sessions', grants', now')
  BY <1>0, <1>5, <1>6, <1>7 DEF InHand, Opening
<1>9. DOMAIN local' = Requests /\ \A q \in Requests : InHandNext(q)
  BY <1>3, <1>4, <1>8, OneMoves
<1> QED  BY <1>0, <1>3, <1>9, KeepsTokens DEF TokenInv

\* The token signed: its account is alive, or was deleted since the call.
LEMMA SignTokens ==
  ASSUME TypeInv, AccountInv, TokenInv, NEW r \in Requests, TokenSign(r)
  PROVE  TokenInv'
<1> DEFINE l == req[r]
           c == local[r]
<1>0. /\ l \in LocalStates /\ l.pc = "Sign" /\ l.user \in UserIds
      /\ l.session \in SessionIds /\ Stored(sessions[l.session])
      /\ users \in [UserIds -> UserRows]
  BY DEF TokenSign, Sign, At, TypeInv, TypeOK, LocalsOK, KnowsUser, SignsStored
<1>1. UNCHANGED <<users, sessions, now, sysnow, grants, deletedAt>>
  BY DEF TokenSign, Sign, stores
<1>2. Grows
  BY <1>1, QuietGrows DEF KeepsStatus
<1>3. req' = [req EXCEPT ![r] = Idle] /\ Carry(r, c)
  BY <1>0 DEF TokenSign, Sign, Continue, Moved, After, IssueSession
<1>4. DOMAIN local' = Requests /\ \A q \in Requests : InHandNext(q)
  BY <1>2, <1>3, OneMoves
<1>5. InHand(l, c, users, sessions, grants, now) /\ l.user \notin l.gone
  BY <1>0 DEF TokenInv, AccountInv, Fit, Opening
<1> DEFINE t == [user |-> l.user, roles |-> c.roles, issued_at |-> l.at,
                 exp |-> l.at + AccessTtl, asked |-> c.asked,
                 across |-> l.user \in Deleted \ l.gone]
<1>6. token' = [token EXCEPT ![l.session] = t]
  BY DEF TokenSign, Exp
<1>7. /\ l.at \in Nat /\ l.at <= now /\ now \in Nat
      /\ sessions[l.session].expires_at = l.at + RefreshTtl
      /\ RolesBetween(c.asked, c.roles, l.user, grants)
  BY <1>0, <1>5 DEF InHand, LocalStates, TypeInv, TypeOK
<1>8. l.user \in Deleted \ l.gone \/ users[l.user].status = "alive"
  BY <1>0, <1>5 DEF InHand, Opening, Deleted, UserRows
<1> PICK s \in SessionIds : s = l.session
  BY <1>0
<1>9. Signed(s)'
  <2>1. token'[s] = t
    BY <1>6 DEF TokenInv
  <2>2. /\ t.user = l.user /\ t.roles = c.roles /\ t.asked = c.asked
        /\ t.exp = l.at + AccessTtl /\ (t.across <=> l.user \in Deleted \ l.gone)
    OBVIOUS
  <2> HIDE DEF t
  <2>3. t.exp + RefreshTtl = sessions[s].expires_at + AccessTtl
    BY <1>7, <2>2, TimeAssumption, TokenTimesAssumption
  <2>4. t.exp \in Int /\ t.exp <= now + AccessTtl
    BY <1>7, <2>2, TokenTimesAssumption
  <2>5. RolesBetween(t.asked, t.roles, t.user, grants)
    BY <1>7, <2>2
  <2>6. t.across \/ users[t.user].status = "alive"
    BY <1>8, <2>2
  <2> QED
    BY <1>0, <1>1, <2>1, <2>2, <2>3, <2>4, <2>5, <2>6 DEF Signed
<1>10. ASSUME NEW x \in SessionIds, x # s PROVE Signed(x)'
  BY <1>2, <1>6, <1>10, KeepsSigned DEF TokenInv
<1> QED
  BY <1>1, <1>4, <1>6, <1>9, <1>10 DEF TokenInv, ClocksClose, InHandNext

-----------------------------------------------------------------------------
(* Calls and the environment                                               *)

LEMMA CallTokens ==
  ASSUME TypeInv, TokenInv, NEW r \in Requests, TokenCall(r)
  PROVE  TokenInv'
<1>op. PICK op \in CallNames :
         \E input : Begin(r, op, input) /\ FreshInput(op, input)
  BY CallBegins DEF TokenCall
<1>1. PICK input : Begin(r, op, input) /\ FreshInput(op, input)
  BY <1>op
<1> DEFINE l == [input EXCEPT !.op = op, !.pc = Handler[op]["Begin"],
                              !.gone = Deleted]
           c == [Blank EXCEPT !.asked = grants]
<1>2. /\ req' = [req EXCEPT ![r] = l]
      /\ Carry(r, c)
      /\ UNCHANGED <<users, sessions, now, sysnow, grants, token, deletedAt>>
  BY <1>1 DEF Begin, TokenCall
<1>3. l.op = op /\ l.pc = Handler[op]["Begin"]
  BY <1>1 DEF FreshInput, LocalStates
<1>4. ~Opening(l) /\ l.pc \notin {"CreateSession", "Sign"}
  BY <1>3 DEF Opening, CallNames, Handler, Register, Login, Refresh, Logout,
              LogoutAll, UpdateMe, DeleteMe, ChangePassword
<1>5. c = [roles |-> {}, asked |-> grants]
  BY DEF Blank
<1>6. Grows
  BY <1>2, QuietGrows DEF KeepsStatus
<1> HIDE DEF l, c
<1>7. InHand(l, c, users', sessions', grants', now')
  BY <1>2, <1>4, <1>5 DEF InHand
<1>8. DOMAIN local' = Requests /\ \A q \in Requests : InHandNext(q)
  BY <1>2, <1>6, <1>7, OneMoves
<1> QED  BY <1>2, <1>6, <1>8, KeepsTokens DEF TokenInv

\* The clocks advance and roles are granted while requests wait.
LEMMA EnvironmentTokens ==
  ASSUME TypeInv, TokenInv, Grant \/ TokenTick \/ SysTick \/ UNCHANGED allVars
  PROVE  TokenInv'
<1>0. sysnow \in Nat /\ now \in Nat /\ deletedAt \in [UserIds -> Nat]
  BY DEF TokenInv, TypeInv, TypeOK
<1>1. UNCHANGED <<users, sessions, req, token, local, deletedAt>>
  BY DEF Grant, TokenTick, SysTick, Tick, allVars, tokenVars, vars, stores
<1>2. grants \subseteq grants' /\ now' \in Nat /\ now <= now'
  BY <1>0 DEF Grant, TokenTick, SysTick, Tick, allVars, tokenVars, vars, MemGrant, Reply
<1>3. Grows
  BY <1>0, <1>1, <1>2 DEF Grows
<1>4. sysnow' \in Nat /\ ClocksClose'
  BY <1>0, TokenTimesAssumption
  DEF Grant, TokenTick, SysTick, Tick, allVars, tokenVars, vars, TokenInv, ClocksClose
<1>5. \A q \in Requests : InHandNext(q)
  BY <1>1, <1>3, KeepsHand DEF SameFit
<1>6. \A s \in SessionIds : Signed(s)'
  BY <1>1, <1>3, KeepsSigned
<1> QED  BY <1>0, <1>1, <1>4, <1>5, <1>6 DEF TokenInv, InHandNext

\* Every step of AccessTokens is one of AuthService, or none of it.
LEMMA ServiceStep == [TokenNext]_allVars => [Next]_vars
BY DEF TokenNext, TokenCall, TokenIssue, TokenSign, TokenSoftDelete, TokenStep,
       Grant, TokenTick, SysTick, allVars, Next, UserStep, SessionStep

LEMMA TokenStepInv ==
  TypeInv /\ AccountInv /\ TokenInv /\ [TokenNext]_allVars => TokenInv'
<1> SUFFICES ASSUME TypeInv, AccountInv, TokenInv, [TokenNext]_allVars
             PROVE  TokenInv'
  OBVIOUS
<1>1. ASSUME NEW r \in Requests, TokenStep(r) PROVE TokenInv'
  BY <1>1, UserStepTokens, SessionStepTokens, CreateSessionTokens DEF TokenStep
<1> QED
  BY <1>1, CallTokens, IssueTokens, SignTokens, SoftDeleteTokens, EnvironmentTokens
  DEF TokenNext

LEMMA TokenInitInv == TokenInit => TokenInv
<1> SUFFICES ASSUME TokenInit PROVE TokenInv
  OBVIOUS
<1>1. \A r \in Requests : req[r] = Idle /\ local[r] = Blank
  BY DEF TokenInit, Init
<1>2. ASSUME NEW r \in Requests
      PROVE  InHand(req[r], local[r], users, sessions, grants, now)
  BY <1>1 DEF InHand, Idle, Blank, Opening
<1>3. \A s \in SessionIds : Signed(s)
  BY DEF TokenInit, NoToken, Signed
<1>4. ClocksClose
  BY TokenTimesAssumption DEF TokenInit, Init, ClocksClose
<1> QED  BY <1>2, <1>3, <1>4 DEF TokenInit, TokenInv

TokensInv == TypeInv /\ AccountInv /\ TokenInv

LEMMA TokensInvariant == TokenSpec => []TokensInv
<1>1. TokenInit => TokensInv
  BY InitType, AccountInit, TokenInitInv DEF TokenInit, TokensInv
<1>2. TokensInv /\ [TokenNext]_allVars => TokensInv'
  BY ServiceStep, TypeInvStep, AccountStep, TokenStepInv DEF TokensInv
<1> QED  BY <1>1, <1>2, PTL DEF TokenSpec

-----------------------------------------------------------------------------

\* Whatever requests run beside delete_me, and however the clocks differ, a
\* token of a deleted account is refused AccessTtl and the leeway after the
\* deletion, unless its request was in flight across it.
THEOREM DeletedRefused == TokenSpec => []DeletedRunsOut
<1>1. TokensInv => DeletedRunsOut
  <2> SUFFICES ASSUME TokensInv, NEW s \in SessionIds, Accepted(s),
                      ~MeAnswers(token[s].user), ~token[s].across
               PROVE  sysnow <= deletedAt[token[s].user] + AccessTtl + Leeway
    BY DEF DeletedRunsOut
  <2> DEFINE t == token[s]
  <2>1. /\ t.user \in UserIds /\ t.exp \in Int
        /\ \/ users[t.user].status = "deleted" /\ t.exp <= deletedAt[t.user] + AccessTtl
           \/ users[t.user].status = "alive"
    BY DEF TokensInv, TokenInv, Signed, Accepted
  <2>2. users[t.user].status # "alive"
    BY DEF MeAnswers, RepoFindById, MemFindById, PgFindById, Alive
  <2>3. sysnow <= t.exp + Leeway /\ sysnow \in Nat /\ deletedAt \in [UserIds -> Nat]
    BY DEF Accepted, NotExpired, TokensInv, TokenInv
  <2> HIDE DEF t
  <2>4. sysnow <= deletedAt[t.user] + AccessTtl + Leeway
    <3>1. deletedAt[t.user] \in Nat /\ t.exp <= deletedAt[t.user] + AccessTtl
      BY <2>1, <2>2, <2>3
    <3> QED  BY <2>1, <2>3, <3>1, TokenTimesAssumption
  <2> QED  BY <2>4 DEF t
<1> QED  BY <1>1, TokensInvariant, PTL

\* The roles an access token carries are between those its user held when
\* the request was called and those the user holds now: issue_session reads
\* them after the call, and nothing takes a role away.
THEOREM RolesUpToDate == TokenSpec => []RolesCurrent
<1>1. TokensInv => RolesCurrent
  BY DEF TokensInv, TokenInv, Signed, RolesBetween, RolesCurrent, RolesForUser
<1> QED  BY <1>1, TokensInvariant, PTL

\* No access token is accepted longer than AccessTtl, the leeway and the
\* skew after the instant its session's expiry counts from, however slow the
\* request that signed it was.
THEOREM AccessEndsInTime == TokenSpec => []AccessWithinSession
<1>1. TokensInv => AccessWithinSession
  <2> SUFFICES ASSUME TokensInv, NEW s \in SessionIds, Accepted(s)
               PROVE  now <= (sessions[s].expires_at - RefreshTtl) + AccessTtl
                               + Leeway + Skew
    BY DEF AccessWithinSession
  <2>1. /\ token[s].exp \in Int
        /\ token[s].exp + RefreshTtl = sessions[s].expires_at + AccessTtl
    BY DEF TokensInv, TokenInv, Signed, Accepted
  <2>2. /\ sysnow <= token[s].exp + Leeway /\ now <= sysnow + Skew
        /\ sysnow \in Nat /\ now \in Nat /\ sessions[s].expires_at \in Nat
    BY DEF Accepted, NotExpired, TokensInv, TokenInv, ClocksClose, TypeInv, TypeOK,
           SessionRows
  <2> QED  BY <2>1, <2>2, TimeAssumption, TokenTimesAssumption
<1> QED  BY <1>1, TokensInvariant, PTL
=============================================================================
