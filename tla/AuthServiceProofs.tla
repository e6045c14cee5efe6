------------------------- MODULE AuthServiceProofs -------------------------
(***************************************************************************)
(* Proofs about AuthService, for every number of requests, accounts and    *)
(* sessions, both backends and every set of handlers in use.               *)
(***************************************************************************)
EXTENDS AuthService, TLAPS

-----------------------------------------------------------------------------
(* The inductive invariant                                                 *)

\* the handlers each step belongs to
StageOps == [Create |-> {"register"},
             FindByIdentifier |-> {"login"},
             Verify |-> {"login", "delete_me", "change_password"},
             FindActive |-> {"refresh", "logout"},
             Revoke |-> {"refresh", "logout"},
             FindById |-> {"refresh"},
             RevokeAll |-> {"logout_all", "delete_me", "change_password"},
             RevokeAllCommit |-> {"logout_all", "delete_me", "change_password"},
             Update |-> {"update_me"},
             PasswordHash |-> {"delete_me", "change_password"},
             UpdatePassword |-> {"change_password"},
             SoftDelete |-> {"delete_me"},
             Issue |-> {"register", "login", "refresh"},
             CreateSession |-> {"register", "login", "refresh"},
             Sign |-> {"register", "login", "refresh"}]

\* A request is where its handler can be,
InStage(l) == l.pc # "Idle" => l.op \in StageOps[l.pc]

\* knows its account from the moment it read or was given it,
KnowsUser(l) ==
    l.pc \notin {"Idle", "Create", "FindByIdentifier", "FindActive"} =>
        l.user \in UserIds

\* and signs for a session it stored.
SignsStored(l) ==
    l.pc = "Sign" => l.session \in SessionIds /\ Stored(sessions[l.session])

LocalsOK ==
    \A r \in Requests :
        InStage(req[r]) /\ KnowsUser(req[r]) /\ SignsStored(req[r])

\* A client holds tokens of stored sessions only.
HeldStored == \A s \in held : Stored(sessions[s])

TypeInv == TypeOK /\ LocalsOK /\ HeldStored

-----------------------------------------------------------------------------
(* The handler tables                                                      *)

\* A step of a handler is followed by another of its steps or is its last.
LEMMA AfterStage ==
  ASSUME NEW step \in DOMAIN StageOps \ {"RevokeAllCommit"},
         NEW op \in StageOps[step]
  PROVE  /\ op \in CallNames
         /\ \/ After(op, step) = "Return"
            \/ /\ After(op, step) \in Steps \ {"Idle"}
               /\ op \in StageOps[After(op, step)]
BY DEF StageOps, After, IssueSession, CallNames, Steps, Handler, Register,
       Login, Refresh, Logout, LogoutAll, UpdateMe, DeleteMe, ChangePassword

LEMMA BeginStage ==
  ASSUME NEW op \in CallNames
  PROVE  /\ Handler[op]["Begin"] \in Steps \ {"Idle", "Sign"}
         /\ op \in StageOps[Handler[op]["Begin"]]
BY DEF StageOps, CallNames, Steps, Handler, Register,
       Login, Refresh, Logout, LogoutAll, UpdateMe, DeleteMe, ChangePassword

-----------------------------------------------------------------------------
(* Types                                                                   *)

LEMMA IdleType == Idle \in LocalStates /\ InStage(Idle) /\ KnowsUser(Idle)
BY TimeAssumption DEF Idle, LocalStates, Opt, Steps, InStage, KnowsUser

\* The repositories' writes to the user store keep its type.
LEMMA UserWritesType ==
  ASSUME users \in [UserIds -> UserRows], NEW id,
         NEW name \in Opt(Strings), NEW email \in Opt(Strings),
         NEW hash \in Opt(Hashes)
  PROVE  /\ RepoCreate(id, name, email, hash).tab \in [UserIds -> UserRows]
         /\ RepoUpdate(id, name, email).tab \in [UserIds -> UserRows]
         /\ RepoSoftDelete(id).tab \in [UserIds -> UserRows]
         /\ RepoUpdatePassword(id, hash).tab \in [UserIds -> UserRows]
<1>1. RepoCreate(id, name, email, hash).tab \in [UserIds -> UserRows]
  <2>1. UserRow(name, email, hash) \in UserRows
    BY DEF UserRow, UserRows
  <2> QED
    BY <2>1 DEF RepoCreate, MemCreate, PgCreate, PgGuarded, Reply
<1>2. RepoUpdate(id, name, email).tab \in [UserIds -> UserRows]
  <2>1. [users EXCEPT ![id].username = name, ![id].email = email]
           \in [UserIds -> UserRows]
    BY DEF UserRows
  <2> QED
    BY <2>1 DEF RepoUpdate, MemUpdate, PgUpdate, PgGuarded, Reply
<1>3. RepoSoftDelete(id).tab \in [UserIds -> UserRows]
  BY DEF RepoSoftDelete, MemSoftDelete, PgSoftDelete, Reply, UserRows
<1>4. RepoUpdatePassword(id, hash).tab \in [UserIds -> UserRows]
  BY DEF RepoUpdatePassword, MemUpdatePassword, PgUpdatePassword, Reply, UserRows
<1> QED  BY <1>1, <1>2, <1>3, <1>4

\* A request moves to a local state of its handler.
LEMMA MovedType ==
  ASSUME NEW step \in DOMAIN StageOps \ {"RevokeAllCommit"},
         NEW l \in LocalStates, l.op \in StageOps[step]
  PROVE  /\ Moved(step, l) \in LocalStates
         /\ InStage(Moved(step, l))
         /\ \/ Moved(step, l) = Idle
            \/ /\ Moved(step, l) = [l EXCEPT !.pc = After(l.op, step)]
               /\ Moved(step, l).pc # "Idle"
<1>1. CASE After(l.op, step) = "Return"
  BY <1>1, IdleType DEF Moved
<1>2. CASE After(l.op, step) # "Return"
  <2>1. After(l.op, step) \in Steps \ {"Idle"} /\ l.op \in StageOps[After(l.op, step)]
    BY <1>2, AfterStage
  <2>2. Moved(step, l) = [l EXCEPT !.pc = After(l.op, step)]
    BY <1>2 DEF Moved
  <2> QED  BY <2>1, <2>2 DEF LocalStates, InStage
<1> QED  BY <1>1, <1>2

\* Stored sessions stay stored.
KeepsStored ==
    \A s \in SessionIds : Stored(sessions[s]) => Stored(sessions'[s])

\* One request takes a step to a good local state.
LEMMA LocalsStep ==
  ASSUME TypeInv, KeepsStored, NEW r \in Requests, NEW l \in LocalStates,
         req' = [req EXCEPT ![r] = l],
         InStage(l), KnowsUser(l),
         l.pc = "Sign" => l.session \in SessionIds /\ Stored(sessions'[l.session])
  PROVE  req' \in [Requests -> LocalStates] /\ LocalsOK'
<1>1. req' \in [Requests -> LocalStates]
  BY DEF TypeInv, TypeOK
<1>2. ASSUME NEW q \in Requests
      PROVE  InStage(req'[q]) /\ KnowsUser(req'[q]) /\ SignsStored(req[q])'
  <2>1. CASE q = r
    BY <2>1 DEF TypeInv, TypeOK, SignsStored
  <2>2. CASE q # r
    BY <2>2 DEF TypeInv, TypeOK, LocalsOK, SignsStored, KeepsStored
  <2> QED  BY <2>1, <2>2
<1> QED  BY <1>1, <1>2 DEF LocalsOK, InStage, KnowsUser

\* A step that ends or goes on with the handler and leaves the session
\* store alone.
LEMMA AnswerStep ==
  ASSUME TypeInv, KeepsStored, NEW r \in Requests, Answer(r)
  PROVE  req' \in [Requests -> LocalStates] /\ LocalsOK'
BY IdleType, LocalsStep DEF Answer, Idle

LEMMA ContinueStep ==
  ASSUME TypeInv, KeepsStored, NEW r \in Requests,
         NEW step \in DOMAIN StageOps \ {"RevokeAllCommit"},
         NEW l \in LocalStates, l.op \in StageOps[step],
         Continue(r, step, l),
         l.user \in UserIds,
         step = "CreateSession" =>
           l.session \in SessionIds /\ Stored(sessions'[l.session])
  PROVE  req' \in [Requests -> LocalStates] /\ LocalsOK'
<1> DEFINE m == Moved(step, l)
<1>1. m \in LocalStates /\ InStage(m)
  BY MovedType
<1>2. KnowsUser(m) /\ (m.pc = "Sign" => step = "CreateSession" /\ m.session = l.session)
  <2>1. CASE m = Idle
    BY <2>1, IdleType DEF Idle
  <2>2. CASE m = [l EXCEPT !.pc = After(l.op, step)]
    <3>1. m.user = l.user /\ m.session = l.session /\ m.pc = After(l.op, step)
      BY <2>2 DEF LocalStates
    <3>2. After(l.op, step) = "Sign" => step = "CreateSession"
      BY DEF StageOps, After, IssueSession, Handler, Register, Login, Refresh,
             Logout, LogoutAll, UpdateMe, DeleteMe, ChangePassword
    <3> QED  BY <3>1, <3>2 DEF KnowsUser
  <2> QED  BY <2>1, <2>2, MovedType
<1>3. req' = [req EXCEPT ![r] = m]
  BY DEF Continue
<1> HIDE DEF m
<1> QED  BY <1>1, <1>2, <1>3, LocalsStep

-----------------------------------------------------------------------------
(* Every step keeps the type invariant                                     *)

LEMMA InitType == Init => TypeInv
<1> SUFFICES ASSUME Init PROVE TypeInv
  OBVIOUS
<1>1. users \in [UserIds -> UserRows]
  BY DEF Init, NoUser, UserRows, Opt
<1>2. sessions \in [SessionIds -> SessionRows]
  BY DEF Init, NoSession, SessionRows, Opt
<1>3. lineage \in [SessionIds -> Lineages]
  BY DEF Init, NoLineage, Lineages, Opt
<1>4. req \in [Requests -> LocalStates] /\ LocalsOK
  BY IdleType DEF Init, LocalsOK, SignsStored, Idle
<1> QED
  BY <1>1, <1>2, <1>3, <1>4 DEF Init, TypeInv, TypeOK, HeldStored

\* trim + to_lowercase is idempotent: a string it left alone
Normal(x) == x \in Strings /\ Normalize[x] = x

\* What a call hands its handler.
FreshInput(op, input) ==
    /\ input \in LocalStates
    /\ input.session = None /\ ~input.late
    /\ input.user = None \/ input.user \in Authenticated
    /\ op \in {"register", "login", "refresh", "logout"} => input.user = None
    /\ input.token \in held \cup {None} /\ input.at <= now
    /\ op \in {"logout_all", "update_me", "delete_me", "change_password"} =>
         input.user \in UserIds
    /\ op \in {"register", "update_me"} =>
         Normal(input.name) /\ (input.email = None \/ Normal(input.email))
    /\ op = "register" => input.hash # None
    /\ op = "change_password" => input.next # None

LEMMA CallBegins ==
  ASSUME TypeInv, NEW r \in Requests, Call(r)
  PROVE  \E op \in CallNames : \E input : Begin(r, op, input) /\ FreshInput(op, input)
<1>0. /\ Idle \in LocalStates /\ Idle.session = None /\ Idle.token = None
      /\ Idle.at = 0 /\ now \in Nat /\ 0 <= now
      /\ Idle.user = None /\ ~Idle.late
  BY IdleType DEF Idle, TypeInv, TypeOK
<1>1. \A x \in Strings : Normal(Normalize[x]) /\ Normalize[x] \in Opt(Strings)
  BY StringsAssumption DEF Opt, Normal
<1>2. \A e \in Emails \cup {None} :
        /\ Normalized(e) \in Opt(Strings)
        /\ Normalized(e) = None \/ Normal(Normalized(e))
  BY <1>1, StringsAssumption DEF Normalized, Opt
<1>3. Authenticated \subseteq UserIds /\ UserIds \subseteq Opt(UserIds)
  BY DEF Authenticated, TypeInv, TypeOK, HeldStored, Stored, SessionRows, Opt
<1>4. held \cup {None} \subseteq Opt(SessionIds)
  BY DEF TypeInv, TypeOK, Opt
<1>5. \A p \in Passwords : /\ p \in Opt(Passwords)
                             /\ HashPassword(p) \in Opt(Hashes)
                             /\ HashPassword(p) # None
  BY NoneAssumption DEF Opt, HashPassword, Hashes
<1>b1. CASE CallRegister(r)
  <2>1. PICK name \in Usernames, email \in Emails \cup {None}, p \in Passwords :
          Begin(r, "register", [Idle EXCEPT !.name = Normalize[name], !.email = Normalized(email), !.hash = HashPassword(p)])
    BY <1>b1 DEF CallRegister
  <2> DEFINE input == [Idle EXCEPT !.name = Normalize[name],
                               !.email = Normalized(email),
                               !.hash = HashPassword(p)]
  <2>2. /\ Normalize[name] \in Opt(Strings)
        /\ Normalized(email) \in Opt(Strings)
        /\ HashPassword(p) \in Opt(Hashes) /\ HashPassword(p) # None
        /\ Normal(Normalize[name])
        /\ Normalized(email) = None \/ Normal(Normalized(email))
    BY <1>1, <1>2, <1>5, StringsAssumption
  <2>3. FreshInput("register", input)
    BY <1>0, <2>1, <2>2 DEF LocalStates, FreshInput
  <2>4. Begin(r, "register", input)
    BY <2>1
  <2> HIDE DEF input
  <2> QED  BY <2>3, <2>4 DEF CallNames
<1>b2. CASE CallLogin(r)
  <2>1. PICK identifier \in Usernames \cup Emails, p \in Passwords :
          Begin(r, "login", [Idle EXCEPT !.name = Normalize[identifier], !.password = p])
    BY <1>b2 DEF CallLogin
  <2> DEFINE input == [Idle EXCEPT !.name = Normalize[identifier],
                               !.password = p]
  <2>2. /\ Normalize[identifier] \in Opt(Strings)
        /\ p \in Opt(Passwords)
    BY <1>1, <1>5, StringsAssumption
  <2>3. FreshInput("login", input)
    BY <1>0, <2>1, <2>2 DEF LocalStates, FreshInput
  <2>4. Begin(r, "login", input)
    BY <2>1
  <2> HIDE DEF input
  <2> QED  BY <2>3, <2>4 DEF CallNames
<1>b3. CASE CallRefresh(r)
  <2>1. PICK token \in held \cup {None} :
          Begin(r, "refresh", [Idle EXCEPT !.token = token, !.at = now])
    BY <1>b3 DEF CallRefresh
  <2> DEFINE input == [Idle EXCEPT !.token = token,
                               !.at = now]
  <2>2. /\ token \in Opt(SessionIds)
    BY <1>4
  <2>3. FreshInput("refresh", input)
    <3>1. /\ input \in LocalStates /\ input.session = None
          /\ input.token = token /\ input.at = now
          /\ input.user = None /\ ~input.late
      BY <1>0, <2>2 DEF LocalStates
    <3>2. token \in held \cup {None} /\ now <= now
      BY <1>0, <2>1
    <3> HIDE DEF input
    <3> QED  BY <3>1, <3>2 DEF FreshInput
  <2>4. Begin(r, "refresh", input)
    BY <2>1
  <2> HIDE DEF input
  <2> QED  BY <2>3, <2>4 DEF CallNames
<1>b4. CASE CallLogout(r)
  <2>1. PICK token \in held \cup {None} :
          Begin(r, "logout", [Idle EXCEPT !.token = token, !.at = now])
    BY <1>b4 DEF CallLogout
  <2> DEFINE input == [Idle EXCEPT !.token = token,
                               !.at = now]
  <2>2. /\ token \in Opt(SessionIds)
    BY <1>4
  <2>3. FreshInput("logout", input)
    <3>1. /\ input \in LocalStates /\ input.session = None
          /\ input.token = token /\ input.at = now
          /\ input.user = None /\ ~input.late
      BY <1>0, <2>2 DEF LocalStates
    <3>2. token \in held \cup {None} /\ now <= now
      BY <1>0, <2>1
    <3> HIDE DEF input
    <3> QED  BY <3>1, <3>2 DEF FreshInput
  <2>4. Begin(r, "logout", input)
    BY <2>1
  <2> HIDE DEF input
  <2> QED  BY <2>3, <2>4 DEF CallNames
<1>b5. CASE CallLogoutAll(r)
  <2>1. PICK u \in Authenticated :
          Begin(r, "logout_all", [Idle EXCEPT !.user = u])
    BY <1>b5 DEF CallLogoutAll
  <2> DEFINE input == [Idle EXCEPT !.user = u]
  <2>2. /\ u \in Opt(UserIds)
        /\ u \in UserIds
    BY <1>3
  <2>3. FreshInput("logout_all", input)
    BY <1>0, <2>1, <2>2 DEF LocalStates, FreshInput
  <2>4. Begin(r, "logout_all", input)
    BY <2>1
  <2> HIDE DEF input
  <2> QED  BY <2>3, <2>4 DEF CallNames
<1>b6. CASE CallUpdateMe(r)
  <2>1. PICK u \in Authenticated, name \in Usernames,
          email \in Emails \cup {None} :
          Begin(r, "update_me", [Idle EXCEPT !.user = u, !.name = Normalize[name], !.email = Normalized(email)])
    BY <1>b6 DEF CallUpdateMe
  <2> DEFINE input == [Idle EXCEPT !.user = u,
                               !.name = Normalize[name],
                               !.email = Normalized(email)]
  <2>2. /\ u \in Opt(UserIds)
        /\ Normalize[name] \in Opt(Strings)
        /\ Normalized(email) \in Opt(Strings)
        /\ u \in UserIds
        /\ Normal(Normalize[name])
        /\ Normalized(email) = None \/ Normal(Normalized(email))
    BY <1>1, <1>2, <1>3, StringsAssumption
  <2>3. FreshInput("update_me", input)
    BY <1>0, <2>1, <2>2 DEF LocalStates, FreshInput
  <2>4. Begin(r, "update_me", input)
    BY <2>1
  <2> HIDE DEF input
  <2> QED  BY <2>3, <2>4 DEF CallNames
<1>b7. CASE CallDeleteMe(r)
  <2>1. PICK u \in Authenticated, p \in Passwords :
          Begin(r, "delete_me", [Idle EXCEPT !.user = u, !.password = p])
    BY <1>b7 DEF CallDeleteMe
  <2> DEFINE input == [Idle EXCEPT !.user = u,
                               !.password = p]
  <2>2. /\ u \in Opt(UserIds)
        /\ p \in Opt(Passwords)
        /\ u \in UserIds
    BY <1>3, <1>5
  <2>3. FreshInput("delete_me", input)
    BY <1>0, <2>1, <2>2 DEF LocalStates, FreshInput
  <2>4. Begin(r, "delete_me", input)
    BY <2>1
  <2> HIDE DEF input
  <2> QED  BY <2>3, <2>4 DEF CallNames
<1>b8. CASE CallChangePassword(r)
  <2>1. PICK u \in Authenticated, p \in Passwords,
          new \in Passwords :
          Begin(r, "change_password", [Idle EXCEPT !.user = u, !.password = p, !.next = HashPassword(new)])
    BY <1>b8 DEF CallChangePassword
  <2> DEFINE input == [Idle EXCEPT !.user = u,
                               !.password = p,
                               !.next = HashPassword(new)]
  <2>2. /\ u \in Opt(UserIds)
        /\ p \in Opt(Passwords)
        /\ HashPassword(new) \in Opt(Hashes) /\ HashPassword(new) # None
        /\ u \in UserIds
    BY <1>3, <1>5
  <2>3. FreshInput("change_password", input)
    BY <1>0, <2>1, <2>2 DEF LocalStates, FreshInput
  <2>4. Begin(r, "change_password", input)
    BY <2>1
  <2> HIDE DEF input
  <2> QED  BY <2>3, <2>4 DEF CallNames
<1> QED
  BY <1>b1, <1>b2, <1>b3, <1>b4, <1>b5, <1>b6, <1>b7, <1>b8 DEF Call

LEMMA CallType ==
  ASSUME TypeInv, NEW r \in Requests, Call(r)
  PROVE  TypeInv'
<1>op. PICK op \in CallNames :
         \E input : Begin(r, op, input) /\ FreshInput(op, input)
  BY CallBegins
<1>1. PICK input : Begin(r, op, input) /\ FreshInput(op, input)
  BY <1>op
<1> DEFINE l == [input EXCEPT !.op = op, !.pc = Handler[op]["Begin"],
                              !.gone = Deleted]
<1>2. /\ l \in LocalStates /\ l.op = op /\ l.pc = Handler[op]["Begin"]
      /\ l.user = input.user
  <2>1. input \in LocalStates
    BY <1>1 DEF FreshInput
  <2>2. op \in Opt(CallNames) /\ Handler[op]["Begin"] \in Steps /\ Deleted \subseteq UserIds
    BY BeginStage DEF Opt, Deleted
  <2> QED  BY <2>1, <2>2 DEF LocalStates
<1>3. op \in {"register", "login", "refresh", "logout"} =>
        Handler[op]["Begin"] \in {"Create", "FindByIdentifier", "FindActive"}
  BY DEF Handler, Register, Login, Refresh, Logout
<1>4. InStage(l) /\ KnowsUser(l) /\ l.pc # "Sign"
  BY <1>1, <1>2, <1>3, BeginStage DEF InStage, KnowsUser, FreshInput, CallNames
<1>5. req' = [req EXCEPT ![r] = l] /\ UNCHANGED <<users, sessions, now, held,
                                                 lineage, settled, closed>>
  BY <1>1 DEF Begin
<1> HIDE DEF l
<1>6. req' \in [Requests -> LocalStates] /\ LocalsOK'
  BY <1>2, <1>4, <1>5, LocalsStep DEF KeepsStored
<1> QED  BY <1>5, <1>6 DEF TypeInv, TypeOK, HeldStored

\* What a lookup of an account or a session leaves in the local state.
Looked(l, u, hash, late) ==
    [l EXCEPT !.user = u, !.hash = hash, !.late = late, !.closing = Closing(u)]

LEMMA LookupType ==
  ASSUME NEW l \in LocalStates, NEW u \in UserIds, NEW hash \in Opt(Hashes),
         NEW late \in BOOLEAN
  PROVE  /\ Looked(l, u, hash, late) \in LocalStates
         /\ Looked(l, u, hash, late).op = l.op
         /\ Looked(l, u, hash, late).user = u
<1>1. u \in Opt(UserIds) /\ Closing(u) \in BOOLEAN
  BY DEF Opt, Closing
<1> QED  BY <1>1 DEF LocalStates, Looked

\* A step of a handler on the user store.
LEMMA UserStepType ==
  ASSUME TypeInv, NEW r \in Requests, UserStep(r)
  PROVE  TypeInv'
<1> DEFINE l == req[r]
<1>0. /\ l \in LocalStates
      /\ l.pc # "Idle" => l.op \in StageOps[l.pc]
      /\ KnowsUser(l)
  BY DEF TypeInv, TypeOK, LocalsOK, InStage
<1>1. users \in [UserIds -> UserRows] /\ settled \in [UserIds -> BOOLEAN]
  BY DEF TypeInv, TypeOK
<1>2. ASSUME KeepsStored, UNCHANGED <<sessions, now, held, lineage, closed>>,
             users' \in [UserIds -> UserRows], settled' \in [UserIds -> BOOLEAN],
             req' \in [Requests -> LocalStates] /\ LocalsOK'
      PROVE  TypeInv'
  BY <1>2 DEF TypeInv, TypeOK, HeldStored
<1>3. UNCHANGED sessions => KeepsStored
  BY DEF KeepsStored
<1>b1. CASE Create(r)
  <2>1. PICK id \in UserIds :
          LET reply == RepoCreate(id, l.name, l.email, l.hash)
          IN  /\ users' = reply.tab
              /\ \/ Continue(r, "Create", [l EXCEPT !.user = id])
                 \/ Answer(r)
    BY <1>b1 DEF Create
  <2>2. l.op \in StageOps["Create"]
    BY <1>0, <1>b1 DEF Create, At
  <2>3. users' \in [UserIds -> UserRows]
    BY <1>0, <1>1, <2>1, UserWritesType DEF LocalStates
  <2>4. [l EXCEPT !.user = id] \in LocalStates /\ [l EXCEPT !.user = id].op = l.op
        /\ [l EXCEPT !.user = id].user = id
    BY <1>0 DEF LocalStates, Opt
  <2>5. UNCHANGED <<sessions, now, held, lineage, settled, closed>>
    BY <1>b1 DEF Create, history
  <2>6. req' \in [Requests -> LocalStates] /\ LocalsOK'
    BY <1>3, <2>1, <2>2, <2>4, <2>5, AnswerStep, ContinueStep DEF StageOps
  <2> QED  BY <1>1, <1>2, <1>3, <2>3, <2>5, <2>6
<1>b2. CASE FindByIdentifier(r)
  <2>1. UNCHANGED <<users, sessions, now, held, lineage, settled, closed>>
    BY <1>b2 DEF FindByIdentifier, history, stores
  <2>2. \/ Answer(r)
        \/ \E u \in RepoFindByIdentifier(l.name) :
             Continue(r, "FindByIdentifier",
                      [l EXCEPT !.user = u, !.hash = users[u].password_hash,
                                !.late = RevokeAllOpen(u),
                                !.closing = Closing(u)])
    BY <1>b2 DEF FindByIdentifier
  <2>3. RepoFindByIdentifier(l.name) \subseteq UserIds
    BY <1>1 DEF RepoFindByIdentifier, MemFindByIdentifier, PgFindByIdentifier
  <2>4. l.op \in StageOps["FindByIdentifier"]
    BY <1>0, <1>b2 DEF FindByIdentifier, At
  <2>5. req' \in [Requests -> LocalStates] /\ LocalsOK'
    <3>1. CASE Answer(r)
      BY <1>3, <2>1, <3>1, AnswerStep
    <3>2. ASSUME NEW u \in RepoFindByIdentifier(l.name),
                 Continue(r, "FindByIdentifier",
                      [l EXCEPT !.user = u, !.hash = users[u].password_hash,
                                !.late = RevokeAllOpen(u),
                                !.closing = Closing(u)])
          PROVE  req' \in [Requests -> LocalStates] /\ LocalsOK'
      <4> DEFINE m == Looked(l, u, users[u].password_hash, RevokeAllOpen(u))
      <4>1. Continue(r, "FindByIdentifier", m)
        BY <3>2 DEF Looked
      <4>2. /\ u \in UserIds
            /\ users[u].password_hash \in Opt(Hashes)
            /\ RevokeAllOpen(u) \in BOOLEAN
        BY <1>1, <2>3 DEF UserRows, RevokeAllOpen
      <4>3. m \in LocalStates /\ m.op = l.op /\ m.user = u
        BY <1>0, <4>2, LookupType
      <4> HIDE DEF m
      <4> QED
        BY <1>3, <2>1, <2>4, <4>1, <4>2, <4>3, ContinueStep DEF StageOps
    <3> QED  BY <2>2, <3>1, <3>2
  <2> QED  BY <1>1, <1>2, <1>3, <2>1, <2>5
<1>b3. CASE PasswordHash(r)
  <2>1. UNCHANGED <<users, sessions, now, held, lineage, settled, closed>>
    BY <1>b3 DEF PasswordHash, history, stores
  <2>2. l.op \in StageOps["PasswordHash"] /\ l.user \in UserIds
    BY <1>0, <1>b3 DEF PasswordHash, At, KnowsUser
  <2>3. RepoPasswordHash(l.user) \in Opt(Hashes)
    BY <1>1, <2>2 DEF RepoPasswordHash, MemPasswordHash, PgPasswordHash, UserRows, Opt
  <2> DEFINE m == [l EXCEPT !.hash = RepoPasswordHash(l.user)]
  <2>4. m \in LocalStates /\ m.op = l.op /\ m.user = l.user
    BY <1>0, <2>3 DEF LocalStates
  <2>5. Answer(r) \/ Continue(r, "PasswordHash", m)
    BY <1>b3 DEF PasswordHash
  <2> HIDE DEF m
  <2>6. req' \in [Requests -> LocalStates] /\ LocalsOK'
    BY <1>3, <2>1, <2>2, <2>4, <2>5, AnswerStep, ContinueStep DEF StageOps
  <2> QED  BY <1>1, <1>2, <1>3, <2>1, <2>6
<1>b4. CASE Verify(r) \/ FindById(r)
  <2>1. UNCHANGED <<users, sessions, now, held, lineage, settled, closed>>
    BY <1>b4 DEF Verify, FindById, history, stores
  <2>2. PICK step \in {"Verify", "FindById"} :
          l.pc = step /\ (Answer(r) \/ Continue(r, step, l))
    BY <1>b4 DEF Verify, FindById, At
  <2>3. l.op \in StageOps[step] /\ l.user \in UserIds
    BY <1>0, <2>2 DEF KnowsUser
  <2>4. req' \in [Requests -> LocalStates] /\ LocalsOK'
    BY <1>0, <1>3, <2>1, <2>2, <2>3, AnswerStep, ContinueStep DEF StageOps
  <2> QED  BY <1>1, <1>2, <1>3, <2>1, <2>4
<1>b5. CASE Update(r)
  <2>1. /\ users' = RepoUpdate(l.user, l.name, l.email).tab
        /\ Answer(r)
        /\ UNCHANGED <<sessions, now, held, lineage, settled, closed>>
    BY <1>b5 DEF Update, history
  <2>2. users' \in [UserIds -> UserRows]
    BY <1>0, <1>1, <2>1, UserWritesType DEF LocalStates
  <2> QED  BY <1>1, <1>2, <1>3, <2>1, <2>2, AnswerStep
<1>b6. CASE UpdatePassword(r)
  <2>1. /\ users' = RepoUpdatePassword(l.user, l.next).tab
        /\ Answer(r) \/ Continue(r, "UpdatePassword", l)
        /\ \/ UNCHANGED settled
           \/ settled' = [settled EXCEPT ![l.user] = Completes(r, "UpdatePassword")]
        /\ UNCHANGED <<sessions, now, held, lineage, closed>>
    BY <1>b6 DEF UpdatePassword
  <2>2. users' \in [UserIds -> UserRows]
    BY <1>0, <1>1, <2>1, UserWritesType, StringsAssumption DEF LocalStates, Opt
  <2>3. settled' \in [UserIds -> BOOLEAN]
    BY <1>1, <2>1 DEF Completes
  <2>4. l.op \in StageOps["UpdatePassword"] /\ l.user \in UserIds
    BY <1>0, <1>b6 DEF UpdatePassword, At, KnowsUser
  <2>5. req' \in [Requests -> LocalStates] /\ LocalsOK'
    BY <1>0, <1>3, <2>1, <2>4, AnswerStep, ContinueStep DEF StageOps
  <2> QED  BY <1>2, <1>3, <2>1, <2>2, <2>3, <2>5
<1>b7. CASE SoftDelete(r)
  <2>1. /\ users' = RepoSoftDelete(l.user).tab
        /\ Answer(r) \/ Continue(r, "SoftDelete", l)
        /\ UNCHANGED <<sessions, now, held, lineage, settled, closed>>
    BY <1>b7 DEF SoftDelete, history
  <2>2. users' \in [UserIds -> UserRows]
    BY <1>1, <2>1, UserWritesType DEF Opt
  <2>3. l.op \in StageOps["SoftDelete"] /\ l.user \in UserIds
    BY <1>0, <1>b7 DEF SoftDelete, At, KnowsUser
  <2>4. req' \in [Requests -> LocalStates] /\ LocalsOK'
    BY <1>0, <1>3, <2>1, <2>3, AnswerStep, ContinueStep DEF StageOps
  <2> QED  BY <1>1, <1>2, <1>3, <2>1, <2>2, <2>4
<1> QED
  BY <1>b1, <1>b2, <1>b3, <1>b4, <1>b5, <1>b6, <1>b7 DEF UserStep

\* t is the session store with nothing but rows revoked.
OnlyRevokes(t) ==
    /\ t \in [SessionIds -> SessionRows]
    /\ \A s \in SessionIds :
         /\ t[s].user = sessions[s].user
         /\ t[s].token_hash = sessions[s].token_hash
         /\ t[s].expires_at = sessions[s].expires_at
         /\ sessions[s].revoked => t[s].revoked

\* revoke and revoke_all write nothing else, and revoke revokes its row.
LEMMA RevokesOnly ==
  ASSUME sessions \in [SessionIds -> SessionRows], NEW id, NEW rows,
         NEW user, NEW except
  PROVE  /\ OnlyRevokes(RepoRevoke(id))
         /\ OnlyRevokes(MemRevokeAll(sessions, user, except))
         /\ OnlyRevokes(PgRevokeRows(sessions, rows))
         /\ id \in SessionIds /\ Stored(sessions[id]) => RepoRevoke(id)[id].revoked
<1>1. OnlyRevokes(RepoRevoke(id))
  <2>1. OnlyRevokes([sessions EXCEPT ![id].revoked = TRUE])
    BY DEF OnlyRevokes, SessionRows
  <2>2. OnlyRevokes(sessions)
    BY DEF OnlyRevokes
  <2> QED  BY <2>1, <2>2 DEF RepoRevoke, MemRevoke, PgRevoke
<1>2. OnlyRevokes(MemRevokeAll(sessions, user, except))
  BY DEF OnlyRevokes, MemRevokeAll, SessionRows
<1>3. OnlyRevokes(PgRevokeRows(sessions, rows))
  BY DEF OnlyRevokes, PgRevokeRows, SessionRows
<1>4. id \in SessionIds /\ Stored(sessions[id]) => RepoRevoke(id)[id].revoked
  BY DEF RepoRevoke, MemRevoke, PgRevoke, SessionRows
<1> QED  BY <1>1, <1>2, <1>3, <1>4

\* The last step of revoke_all goes on where ContinueStep says.
LEMMA RevokeAllMoved ==
  ASSUME NEW l \in LocalStates, l.op \in StageOps["RevokeAll"], l.user \in UserIds
  PROVE  LET m == Moved("RevokeAll", l)
         IN  m \in LocalStates /\ InStage(m) /\ KnowsUser(m) /\ m.pc # "Sign"
<1> DEFINE m == Moved("RevokeAll", l)
<1>1. /\ m \in LocalStates /\ InStage(m)
      /\ m = Idle \/ m = [l EXCEPT !.pc = After(l.op, "RevokeAll")]
  BY MovedType DEF StageOps
<1>2. KnowsUser(m) /\ m.pc # "Sign"
  <2>1. CASE m = Idle
    <3>1. Idle.pc = "Idle"
      BY DEF Idle
    <3> HIDE DEF m
    <3> QED  BY <2>1, <3>1 DEF KnowsUser
  <2>2. CASE m = [l EXCEPT !.pc = After(l.op, "RevokeAll")]
    <3>1. m.user = l.user /\ m.pc = After(l.op, "RevokeAll")
      BY <2>2 DEF LocalStates
    <3>2. After(l.op, "RevokeAll") # "Sign"
      BY DEF StageOps, After, IssueSession, Handler, Register, Login, Refresh,
             Logout, LogoutAll, UpdateMe, DeleteMe, ChangePassword
    <3> HIDE DEF m
    <3> QED  BY <3>1, <3>2 DEF KnowsUser
  <2> QED  BY <1>1, <2>1, <2>2
<1> QED  BY <1>1, <1>2

\* revoke_all marks the requests it overlaps.
LEMMA MarkLateStep ==
  ASSUME TypeInv, KeepsStored, NEW r \in Requests, NEW u, NEW l \in LocalStates,
         MarkLate(r, u, l), InStage(l), KnowsUser(l), l.pc # "Sign"
  PROVE  req' \in [Requests -> LocalStates] /\ LocalsOK'
<1>1. \A q \in Requests :
        \/ q = r /\ req'[q] = l
        \/ q # r /\ (req'[q] = req[q] \/ req'[q] = [req[q] EXCEPT !.late = TRUE])
  BY DEF MarkLate
<1>2. ASSUME NEW q \in Requests
      PROVE  /\ req'[q] \in LocalStates
             /\ InStage(req'[q]) /\ KnowsUser(req'[q]) /\ SignsStored(req[q])'
  <2>1. CASE req'[q] = l
    BY <2>1 DEF SignsStored
  <2>2. CASE req'[q] = req[q]
    BY <2>2 DEF TypeInv, TypeOK, LocalsOK, SignsStored, KeepsStored
  <2>3. CASE req'[q] = [req[q] EXCEPT !.late = TRUE]
    <3>1. req[q] \in LocalStates
      BY DEF TypeInv, TypeOK
    <3>2. /\ req'[q] \in LocalStates /\ req'[q].pc = req[q].pc
          /\ req'[q].op = req[q].op /\ req'[q].user = req[q].user
          /\ req'[q].session = req[q].session
      BY <2>3, <3>1 DEF LocalStates
    <3> QED
      BY <3>2 DEF TypeInv, LocalsOK, SignsStored, KeepsStored, InStage, KnowsUser
  <2> QED  BY <1>1, <2>1, <2>2, <2>3
<1>3. req' \in [Requests -> LocalStates]
  <2>1. req' = [q \in Requests |-> req'[q]]
    BY DEF MarkLate
  <2> QED  BY <1>2, <2>1
<1> QED  BY <1>2, <1>3 DEF LocalsOK, InStage, KnowsUser

Opened(l, s, u, hash, late) ==
    [l EXCEPT !.session = s, !.user = u, !.hash = hash, !.late = late,
              !.closing = lineage[s].closing]

LEMMA OpenedType ==
  ASSUME TypeInv, NEW l \in LocalStates, NEW s \in SessionIds, NEW u \in UserIds,
         NEW hash \in Opt(Hashes), NEW late \in BOOLEAN
  PROVE  LET m == Opened(l, s, u, hash, late)
         IN  m \in LocalStates /\ m.op = l.op /\ m.user = u /\ m.session = s
<1>1. u \in Opt(UserIds) /\ s \in Opt(SessionIds) /\ lineage[s].closing \in BOOLEAN
  BY DEF Opt, TypeInv, TypeOK, Lineages
<1> QED  BY <1>1 DEF LocalStates, Opened

\* A step of a handler on the session store.
LEMMA SessionStepType ==
  ASSUME TypeInv, NEW r \in Requests, SessionStep(r)
  PROVE  TypeInv'
<1> DEFINE l == req[r]
<1>0. /\ l \in LocalStates
      /\ l.pc # "Idle" => l.op \in StageOps[l.pc]
      /\ KnowsUser(l) /\ SignsStored(l)
  BY DEF TypeInv, TypeOK, LocalsOK, InStage
<1>1. /\ sessions \in [SessionIds -> SessionRows]
      /\ lineage \in [SessionIds -> Lineages]
      /\ settled \in [UserIds -> BOOLEAN]
      /\ held \in SUBSET SessionIds /\ closed \in SUBSET SessionIds
      /\ now \in Nat
  BY DEF TypeInv, TypeOK
<1>2. ASSUME KeepsStored, UNCHANGED <<users, now>>,
             sessions' \in [SessionIds -> SessionRows],
             lineage' \in [SessionIds -> Lineages],
             settled' \in [UserIds -> BOOLEAN],
             held' \in SUBSET SessionIds, closed' \in SUBSET SessionIds,
             \A s \in held' : s \in held \/ Stored(sessions'[s]),
             req' \in [Requests -> LocalStates] /\ LocalsOK'
      PROVE  TypeInv'
  BY <1>2 DEF TypeInv, TypeOK, HeldStored, KeepsStored
<1>3. UNCHANGED sessions => KeepsStored
  BY DEF KeepsStored
<1>4. OnlyRevokes(sessions') => KeepsStored /\ sessions' \in [SessionIds -> SessionRows]
  BY DEF KeepsStored, OnlyRevokes, Stored
<1>5. \A u : [settled EXCEPT ![u] = settled[u] \/ Completes(r, "RevokeAll")]
               \in [UserIds -> BOOLEAN]
  BY <1>1 DEF Completes
<1>b1. CASE FindActive(r)
  <2> DEFINE found == RepoFindActive(HashRefresh(l.token), l.at)
  <2>1. /\ UNCHANGED <<users, sessions, now, held, lineage, settled>>
        /\ \/ /\ Answer(r)
              /\ closed' = ClosedBy(l)
           \/ /\ \E s \in found :
                   Continue(r, "FindActive",
                     Opened(l, s, sessions[s].user, lineage[s].cred, OpenedLate(s)))
              /\ UNCHANGED closed
    BY <1>b1 DEF FindActive, stores, Opened
  <2>2. found \subseteq SessionIds /\ \A s \in found : sessions[s].user \in UserIds
    BY <1>1 DEF RepoFindActive, MemFindActive, PgFindActive, Stored, SessionRows, Opt
  <2>3. closed' \in SUBSET SessionIds
    BY <1>0, <1>1, <2>1 DEF LocalStates, Opt, ClosedBy
  <2>4. l.op \in StageOps["FindActive"]
    BY <1>0, <1>b1 DEF FindActive, At
  <2> HIDE DEF found
  <2>5. req' \in [Requests -> LocalStates] /\ LocalsOK'
    <3>1. CASE Answer(r)
      BY <1>3, <2>1, <3>1, AnswerStep
    <3>2. ASSUME NEW s \in found,
                 Continue(r, "FindActive",
                   Opened(l, s, sessions[s].user, lineage[s].cred, OpenedLate(s)))
          PROVE  req' \in [Requests -> LocalStates] /\ LocalsOK'
      <4> DEFINE m == Opened(l, s, sessions[s].user, lineage[s].cred, OpenedLate(s))
      <4>1. /\ s \in SessionIds /\ sessions[s].user \in UserIds
            /\ lineage[s].cred \in Opt(Hashes)
            /\ OpenedLate(s) \in BOOLEAN
        BY <1>1, <2>2 DEF Lineages, OpenedLate
      <4>2. m \in LocalStates /\ m.op = l.op /\ m.user = sessions[s].user
        BY <1>0, <4>1, OpenedType
      <4>3. Continue(r, "FindActive", m)
        BY <3>2
      <4> HIDE DEF m
      <4> QED
        BY <1>3, <2>1, <2>4, <4>1, <4>2, <4>3, ContinueStep DEF StageOps
    <3> QED  BY <2>1, <3>1, <3>2
  <2> QED  BY <1>1, <1>2, <1>3, <2>1, <2>3, <2>5
<1>b2. CASE Revoke(r)
  <2>1. /\ sessions' = RepoRevoke(l.session)
        /\ Continue(r, "Revoke", l)
        /\ closed' = ClosedBy(l)
        /\ UNCHANGED <<users, now, held, lineage, settled>>
    BY <1>b2 DEF Revoke
  <2>2. l.op \in StageOps["Revoke"] /\ l.user \in UserIds
    BY <1>0, <1>b2 DEF Revoke, At, KnowsUser
  <2>3. KeepsStored /\ sessions' \in [SessionIds -> SessionRows]
    BY <1>1, <1>4, <2>1, RevokesOnly
  <2>4. req' \in [Requests -> LocalStates] /\ LocalsOK'
    BY <1>0, <2>1, <2>2, <2>3, ContinueStep DEF StageOps
  <2>5. closed' \in SUBSET SessionIds
    BY <1>0, <1>1, <2>1 DEF LocalStates, Opt, ClosedBy
  <2> QED  BY <1>1, <1>2, <2>1, <2>3, <2>4, <2>5
<1>b3. CASE RevokeAll(r)
  <2>1. l.op \in StageOps["RevokeAll"] /\ l.user \in UserIds /\ l.pc = "RevokeAll"
    BY <1>0, <1>b3 DEF RevokeAll, At, KnowsUser
  <2>2. CASE Memory
    <3>1. /\ sessions' = MemRevokeAll(sessions, l.user, None)
          /\ MarkLate(r, l.user, Moved("RevokeAll", l))
          /\ settled' = [settled EXCEPT ![l.user] =
                           settled[l.user] \/ Completes(r, "RevokeAll")]
          /\ UNCHANGED <<users, now, held, lineage, closed>>
      BY <1>b3, <2>2 DEF RevokeAll
    <3>2. KeepsStored /\ sessions' \in [SessionIds -> SessionRows]
      BY <1>1, <1>4, <3>1, RevokesOnly
    <3>3. req' \in [Requests -> LocalStates] /\ LocalsOK'
      BY <1>0, <2>1, <3>1, <3>2, MarkLateStep, RevokeAllMoved
    <3> QED  BY <1>1, <1>2, <1>5, <3>1, <3>2, <3>3
  <2>3. CASE ~Memory
    <3> DEFINE m == [l EXCEPT !.pc = "RevokeAllCommit",
                              !.rows = PgRevokeAllRows(sessions, l.user, None)]
    <3>1. /\ MarkLate(r, l.user, m)
          /\ UNCHANGED <<users, sessions, now, held, lineage, settled, closed>>
      BY <1>b3, <2>3 DEF RevokeAll
    <3>2. PgRevokeAllRows(sessions, l.user, None) \subseteq SessionIds
      BY <1>1 DEF PgRevokeAllRows
    <3>3. m \in LocalStates /\ m.op = l.op /\ m.user = l.user /\ m.pc = "RevokeAllCommit"
      BY <1>0, <3>2 DEF LocalStates, Steps
    <3>4. InStage(m) /\ KnowsUser(m)
      BY <2>1, <3>3 DEF InStage, KnowsUser, StageOps
    <3> HIDE DEF m
    <3>5. req' \in [Requests -> LocalStates] /\ LocalsOK'
      BY <1>3, <3>1, <3>3, <3>4, MarkLateStep
    <3> QED  BY <1>1, <1>2, <1>3, <3>1, <3>5
  <2> QED  BY <2>2, <2>3
<1>b4. CASE RevokeAllCommit(r)
  <2> DEFINE m == [l EXCEPT !.rows = {}]
  <2>1. /\ sessions' = PgRevokeRows(sessions, l.rows)
        /\ MarkLate(r, l.user, Moved("RevokeAll", m))
        /\ settled' = [settled EXCEPT ![l.user] =
                         settled[l.user] \/ Completes(r, "RevokeAll")]
        /\ UNCHANGED <<users, now, held, lineage, closed>>
    BY <1>b4 DEF RevokeAllCommit
  <2>2. l.op \in StageOps["RevokeAll"] /\ l.user \in UserIds
    BY <1>0, <1>b4 DEF RevokeAllCommit, At, KnowsUser, StageOps
  <2>3. m \in LocalStates /\ m.op = l.op /\ m.user = l.user
    BY <1>0 DEF LocalStates
  <2> HIDE DEF m
  <2>4. KeepsStored /\ sessions' \in [SessionIds -> SessionRows]
    BY <1>1, <1>4, <2>1, RevokesOnly
  <2>5. req' \in [Requests -> LocalStates] /\ LocalsOK'
    BY <2>1, <2>2, <2>3, <2>4, MarkLateStep, RevokeAllMoved
  <2> QED  BY <1>1, <1>2, <1>5, <2>1, <2>4, <2>5
<1>b5. CASE Issue(r)
  <2> DEFINE m == [l EXCEPT !.at = now]
  <2>1. /\ Continue(r, "Issue", m)
        /\ UNCHANGED <<users, sessions, now, held, lineage, settled, closed>>
    BY <1>b5 DEF Issue, stores, history
  <2>2. l.op \in StageOps["Issue"] /\ l.user \in UserIds
    BY <1>0, <1>b5 DEF Issue, At, KnowsUser
  <2>3. m \in LocalStates /\ m.op = l.op /\ m.user = l.user
    BY <1>0, <1>1 DEF LocalStates
  <2> HIDE DEF m
  <2>4. req' \in [Requests -> LocalStates] /\ LocalsOK'
    BY <1>3, <2>1, <2>2, <2>3, ContinueStep DEF StageOps
  <2> QED  BY <1>1, <1>2, <1>3, <2>1, <2>4
<1>b6. CASE CreateSession(r)
  <2>1. PICK s \in SessionIds :
          LET reply == RepoSessionCreate(s, l.user, HashRefresh(s), l.at + RefreshTtl)
          IN  /\ ~Stored(sessions[s])
              /\ reply.ret = "Ok"
              /\ sessions' = reply.tab
              /\ Continue(r, "CreateSession", [l EXCEPT !.session = s])
              /\ lineage' = [lineage EXCEPT
                               ![s] = [from |-> l.session, by |-> r,
                                       cred |-> l.hash, late |-> l.late,
                                       closing |-> l.closing]]
    BY <1>b6 DEF CreateSession
  <2>2. UNCHANGED <<users, now, held, settled, closed>>
    BY <1>b6 DEF CreateSession
  <2>3. l.op \in StageOps["CreateSession"] /\ l.user \in UserIds
    BY <1>0, <1>b6 DEF CreateSession, At, KnowsUser
  <2>4. sessions' = [sessions EXCEPT ![s] =
                       SessionRow(l.user, HashRefresh(s), l.at + RefreshTtl)]
    BY <2>1 DEF RepoSessionCreate, MemSessionCreate, PgSessionCreate, Reply
  <2>5. SessionRow(l.user, HashRefresh(s), l.at + RefreshTtl) \in SessionRows
    BY <1>0, <2>3, TimeAssumption DEF SessionRow, SessionRows, Opt, LocalStates
  <2>6. /\ KeepsStored /\ sessions' \in [SessionIds -> SessionRows]
        /\ Stored(sessions'[s])
    BY <1>1, <2>3, <2>4, <2>5, NoneAssumption DEF KeepsStored, Stored, SessionRow
  <2>7. lineage' \in [SessionIds -> Lineages]
    <3>1. [from |-> l.session, by |-> r, cred |-> l.hash, late |-> l.late,
           closing |-> l.closing] \in Lineages
      BY <1>0 DEF LocalStates, Lineages, Opt
    <3> QED  BY <1>1, <2>1, <3>1
  <2> DEFINE m == [l EXCEPT !.session = s]
  <2>8. /\ m \in LocalStates /\ m.op = l.op /\ m.user = l.user /\ m.session = s
        /\ Continue(r, "CreateSession", m)
    BY <1>0, <2>1 DEF LocalStates, Opt
  <2> HIDE DEF m
  <2>9. req' \in [Requests -> LocalStates] /\ LocalsOK'
    BY <2>3, <2>6, <2>8, ContinueStep DEF StageOps
  <2> QED  BY <1>1, <1>2, <2>2, <2>6, <2>7, <2>9
<1>b7. CASE Sign(r)
  <2>1. /\ held' = held \cup {l.session}
        /\ Continue(r, "Sign", l)
        /\ UNCHANGED <<users, sessions, now, lineage, settled, closed>>
    BY <1>b7 DEF Sign, stores, history
  <2>2. /\ l.op \in StageOps["Sign"] /\ l.user \in UserIds
        /\ l.session \in SessionIds /\ Stored(sessions[l.session])
    BY <1>0, <1>b7 DEF Sign, At, KnowsUser, SignsStored
  <2>3. req' \in [Requests -> LocalStates] /\ LocalsOK'
    BY <1>0, <1>3, <2>1, <2>2, ContinueStep DEF StageOps
  <2> QED  BY <1>1, <1>2, <1>3, <2>1, <2>2, <2>3
<1> QED
  BY <1>b1, <1>b2, <1>b3, <1>b4, <1>b5, <1>b6, <1>b7 DEF SessionStep

\* A step other than on a session goes on with what the request was called
\* with and the session it has in hand, or answers.
PlainSteps == {"Create", "FindByIdentifier", "PasswordHash", "Verify", "FindById",
               "Update", "UpdatePassword", "SoftDelete", "Issue", "Sign"}

KeepsInput(m, l) ==
    /\ m.op = l.op /\ m.name = l.name /\ m.email = l.email
    /\ m.token = l.token /\ m.session = l.session /\ m.gone = l.gone
    /\ l.op = "refresh" => m.user = l.user

GoesOn(r) ==
    \E step \in PlainSteps : \E m \in LocalStates :
        /\ req[r].pc = step /\ m.op \in StageOps[step]
        /\ KeepsInput(m, req[r])
        /\ Answer(r) \/ Continue(r, step, m)

LEMMA Onward ==
  ASSUME TypeInv, NEW r \in Requests, NEW step \in PlainSteps, NEW m \in LocalStates,
         req[r].pc = step, KeepsInput(m, req[r]), Answer(r) \/ Continue(r, step, m)
  PROVE  GoesOn(r)
<1>1. req[r].pc # "Idle"
  BY DEF PlainSteps
<1>2. req[r].op \in StageOps[step]
  BY <1>1 DEF TypeInv, LocalsOK, InStage
<1> QED  BY <1>2 DEF GoesOn, KeepsInput

LEMMA StepGoesOn ==
  ASSUME TypeInv, NEW r \in Requests, UserStep(r) \/ Issue(r) \/ Sign(r)
  PROVE  UNCHANGED <<sessions, lineage, now, closed>> /\ GoesOn(r)
<1> DEFINE l == req[r]
<1>0. l \in LocalStates /\ (l.pc # "Idle" => l.op \in StageOps[l.pc])
  BY DEF TypeInv, TypeOK, LocalsOK, InStage
<1>1. users \in [UserIds -> UserRows] /\ now \in Nat
  BY DEF TypeInv, TypeOK
<1>2. UNCHANGED <<sessions, lineage, now, closed>>
  BY DEF UserStep, Create, FindByIdentifier, PasswordHash, Verify, FindById,
         Update, UpdatePassword, SoftDelete, Issue, Sign, stores, history
<1>b1. CASE Create(r)
  <2>1. PICK id \in UserIds :
          Answer(r) \/ Continue(r, "Create", [l EXCEPT !.user = id])
    BY <1>b1 DEF Create
  <2> DEFINE m == [l EXCEPT !.user = id]
  <2>2. l.pc = "Create" /\ l.op # "refresh"
    <3>1. l.pc = "Create"
      BY <1>b1 DEF Create, At
    <3> HIDE DEF l
    <3> QED  BY <1>0, <3>1 DEF StageOps
  <2>3. m \in LocalStates /\ KeepsInput(m, l)
    BY <1>0, <2>2 DEF LocalStates, Opt, KeepsInput
  <2>4. Answer(r) \/ Continue(r, "Create", m)
    BY <2>1
  <2> HIDE DEF m
  <2> QED  BY <1>2, <2>2, <2>3, <2>4, Onward DEF PlainSteps
<1>b2. CASE FindByIdentifier(r)
  <2>1. l.pc = "FindByIdentifier" /\ l.op # "refresh"
    <3>1. l.pc = "FindByIdentifier"
      BY <1>b2 DEF FindByIdentifier, At
    <3> HIDE DEF l
    <3> QED  BY <1>0, <3>1 DEF StageOps
  <2>2. \/ Answer(r)
        \/ \E u \in RepoFindByIdentifier(l.name) :
             Continue(r, "FindByIdentifier",
                      Looked(l, u, users[u].password_hash, RevokeAllOpen(u)))
    BY <1>b2 DEF FindByIdentifier, Looked
  <2>3. RepoFindByIdentifier(l.name) \subseteq UserIds
    BY <1>1 DEF RepoFindByIdentifier, MemFindByIdentifier, PgFindByIdentifier
  <2>4. CASE Answer(r)
    <3>1. KeepsInput(l, l)
      BY DEF KeepsInput
    <3> QED  BY <1>0, <1>2, <2>1, <2>4, <3>1, Onward DEF PlainSteps
  <2>5. ASSUME NEW u \in RepoFindByIdentifier(l.name),
               Continue(r, "FindByIdentifier",
                        Looked(l, u, users[u].password_hash, RevokeAllOpen(u)))
        PROVE  GoesOn(r)
    <3> DEFINE m == Looked(l, u, users[u].password_hash, RevokeAllOpen(u))
    <3>1. /\ u \in UserIds
          /\ users[u].password_hash \in Opt(Hashes)
          /\ RevokeAllOpen(u) \in BOOLEAN
      BY <1>1, <2>3 DEF UserRows, RevokeAllOpen
    <3>2. m \in LocalStates /\ m.op = l.op
      BY <1>0, <3>1, LookupType
    <3>3. KeepsInput(m, l)
      BY <1>0, <2>1 DEF Looked, LocalStates, KeepsInput
    <3>4. Continue(r, "FindByIdentifier", m)
      BY <2>5
    <3> HIDE DEF m
    <3> QED  BY <2>1, <3>2, <3>3, <3>4, Onward DEF PlainSteps
  <2> QED  BY <1>2, <2>2, <2>4, <2>5
<1>b3. CASE PasswordHash(r)
  <2> DEFINE m == [l EXCEPT !.hash = RepoPasswordHash(l.user)]
  <2>1. l.pc = "PasswordHash" /\ l.user \in UserIds
    BY <1>b3 DEF PasswordHash, At, TypeInv, LocalsOK, KnowsUser
  <2>2. RepoPasswordHash(l.user) \in Opt(Hashes)
    BY <1>1, <2>1 DEF RepoPasswordHash, MemPasswordHash, PgPasswordHash, UserRows, Opt
  <2>3. m \in LocalStates /\ KeepsInput(m, l)
    BY <1>0, <2>2 DEF LocalStates, KeepsInput
  <2>4. Answer(r) \/ Continue(r, "PasswordHash", m)
    BY <1>b3 DEF PasswordHash
  <2> HIDE DEF m
  <2> QED  BY <1>2, <2>1, <2>3, <2>4, Onward DEF PlainSteps
<1>b4. CASE Issue(r)
  <2> DEFINE m == [l EXCEPT !.at = now]
  <2>1. m \in LocalStates /\ KeepsInput(m, l)
    BY <1>0, <1>1 DEF LocalStates, KeepsInput
  <2>2. l.pc = "Issue" /\ Continue(r, "Issue", m)
    BY <1>b4 DEF Issue, At
  <2> HIDE DEF m
  <2> QED  BY <1>2, <2>1, <2>2, Onward DEF PlainSteps
<1>b5. CASE Verify(r) \/ FindById(r) \/ Update(r) \/ UpdatePassword(r)
            \/ SoftDelete(r) \/ Sign(r)
  <2>1. PICK step \in PlainSteps :
          l.pc = step /\ (Answer(r) \/ Continue(r, step, l))
    BY <1>b5 DEF Verify, FindById, Update, UpdatePassword, SoftDelete, Sign, At,
                 PlainSteps
  <2>2. KeepsInput(l, l)
    BY DEF KeepsInput
  <2> QED  BY <1>0, <1>2, <2>1, <2>2, Onward
<1> QED  BY <1>b1, <1>b2, <1>b3, <1>b4, <1>b5 DEF UserStep

LEMMA TypeInvStep == TypeInv /\ [Next]_vars => TypeInv'
<1> SUFFICES ASSUME TypeInv, [Next]_vars PROVE TypeInv'
  OBVIOUS
<1>1. ASSUME NEW r \in Requests, Drop(r) PROVE TypeInv'
  <2>1. Answer(r) /\ UNCHANGED <<users, sessions, now, held, lineage, settled, closed>>
    BY <1>1 DEF Drop, stores, history
  <2>2. req' \in [Requests -> LocalStates] /\ LocalsOK'
    BY <2>1, AnswerStep DEF KeepsStored
  <2> QED  BY <2>1, <2>2 DEF TypeInv, TypeOK, HeldStored
<1>2. CASE Tick \/ SetBack
  BY <1>2 DEF Tick, SetBack, stores, history, TypeInv, TypeOK, LocalsOK, HeldStored, SignsStored
<1>3. CASE UNCHANGED vars
  BY <1>3 DEF vars, TypeInv, TypeOK, LocalsOK, HeldStored, SignsStored
<1> QED
  BY <1>1, <1>2, <1>3, CallType, UserStepType, SessionStepType DEF Next

\* Every variable of the server keeps its type, whichever repositories are
\* plugged in and however many requests run.
THEOREM TypeCorrect == Spec => []TypeOK
<1>1. TypeInv => TypeOK
  BY DEF TypeInv
<1> QED  BY <1>1, InitType, TypeInvStep, PTL DEF Spec

=============================================================================
