---------------------------- MODULE LogoutProofs ----------------------------
(***************************************************************************)
(* logout: a token it answered Ok for is dead, for every number of         *)
(* requests racing it.                                                     *)
(***************************************************************************)
EXTENDS AuthServiceProofs

-----------------------------------------------------------------------------
(* The inductive invariant                                                 *)

\* A stored session is found by its own token only.
TokenOfRow ==
    \A s \in SessionIds :
        Stored(sessions[s]) => sessions[s].token_hash = HashRefresh(s)

\* refresh and logout carry a token some client holds and an instant that is
\* not ahead of the clock; the session they revoke is that token's.
Presented(l, tokens, t) ==
    l.op \in {"refresh", "logout"} =>
      /\ l.token \in tokens \cup {None}
      /\ l.pc = "FindActive" => l.at <= t
      /\ l.op = "logout" /\ l.pc = "Revoke" => l.session = l.token

\* A session that is over never comes back: rows are only revoked, expiry
\* dates stay and the clock goes forward.
Over(s) == Stored(sessions[s]) /\ (sessions[s].revoked \/ sessions[s].expires_at <= now)

LogoutInv ==
    /\ TokenOfRow
    /\ \A r \in Requests : Presented(req[r], held, now)
    /\ \A s \in closed : Over(s)

-----------------------------------------------------------------------------

LEMMA IdlePresented == ASSUME NEW tokens, NEW t PROVE Presented(Idle, tokens, t)
BY NoneAssumption DEF Presented, Idle

LEMMA LogoutInit == Init => LogoutInv
<1> SUFFICES ASSUME Init PROVE LogoutInv
  OBVIOUS
<1>1. \A s \in SessionIds : ~Stored(sessions[s])
  BY DEF Init, Stored, NoSession
<1> QED  BY <1>1, IdlePresented DEF Init, LogoutInv, TokenOfRow

\* What every step does to the sessions that exist.
RowsStay ==
    \A s \in SessionIds :
        Stored(sessions[s]) =>
          /\ Stored(sessions'[s])
          /\ sessions'[s].token_hash = sessions[s].token_hash
          /\ sessions'[s].expires_at = sessions[s].expires_at
          /\ sessions[s].revoked => sessions'[s].revoked

SameClaim(q) == /\ req'[q].op = req[q].op /\ req'[q].pc = req[q].pc
                /\ req'[q].token = req[q].token /\ req'[q].at = req[q].at
                /\ req'[q].session = req[q].session

\* The invariant is kept by a step that keeps the rows and does right by
\* the sessions it stores, the tokens it closes and the requests it moves.
LEMMA KeepsOver ==
  ASSUME TypeInv, LogoutInv, RowsStay, now' \in Nat, now <= now',
         held \subseteq held',
         \A s \in SessionIds : Stored(sessions'[s]) =>
              Stored(sessions[s]) \/ sessions'[s].token_hash = HashRefresh(s),
         \A s \in closed' : s \in closed \/ Over(s)',
         \A q \in Requests : SameClaim(q) \/ Presented(req'[q], held', now')
  PROVE  LogoutInv'
<1>1. TokenOfRow'
  BY DEF LogoutInv, TokenOfRow, RowsStay
<1>2. ASSUME NEW q \in Requests PROVE Presented(req'[q], held', now')
  <2>1. CASE SameClaim(q)
    <3>1. Presented(req[q], held, now)
      BY DEF LogoutInv
    <3>2. req[q].at \in Nat /\ now \in Nat
      BY DEF TypeInv, TypeOK, LocalStates
    <3> QED  BY <2>1, <3>1, <3>2 DEF Presented, SameClaim
  <2> QED  BY <2>1
<1>3. ASSUME NEW s \in closed' PROVE Over(s)'
  <2>1. CASE s \in closed
    <3>1. s \in SessionIds /\ sessions[s] \in SessionRows /\ now \in Nat
      BY <2>1 DEF TypeInv, TypeOK
    <3>2. sessions[s].expires_at \in Nat
      BY <3>1 DEF SessionRows
    <3> QED  BY <2>1, <3>1, <3>2 DEF LogoutInv, Over, RowsStay
  <2> QED  BY <1>3, <2>1
<1> QED  BY <1>1, <1>2, <1>3 DEF LogoutInv

\* The same for a step that stores no session and moves one request.
LEMMA OneClaim ==
  ASSUME TypeInv, LogoutInv, OnlyRevokes(sessions'), now' = now, held' = held,
         \A s \in closed' : s \in closed \/ Over(s)',
         NEW r \in Requests, NEW l, req' = [req EXCEPT ![r] = l],
         Presented(l, held, now)
  PROVE  LogoutInv'
<1>1. RowsStay /\ \A s \in SessionIds : Stored(sessions'[s]) => Stored(sessions[s])
  BY DEF OnlyRevokes, RowsStay, Stored
<1>2. now' \in Nat /\ now <= now' /\ held \subseteq held'
  BY DEF TypeInv, TypeOK
<1>3. ASSUME NEW q \in Requests
      PROVE  SameClaim(q) \/ Presented(req'[q], held', now')
  BY DEF TypeInv, TypeOK, SameClaim
<1> QED  BY <1>1, <1>2, <1>3, KeepsOver

\* A handler past FindActive whose session is not for logout to revoke.
LEMMA MovedPresented ==
  ASSUME TypeInv, LogoutInv, NEW r \in Requests,
         NEW step \in DOMAIN StageOps \ {"RevokeAllCommit", "FindActive"},
         NEW m \in LocalStates, m.op \in StageOps[step],
         m.op = req[r].op, m.token = req[r].token
  PROVE  Presented(Moved(step, m), held, now)
<1> DEFINE l == Moved(step, m)
<1>1. CASE l = Idle
  BY <1>1, IdlePresented
<1>2. CASE l = [m EXCEPT !.pc = After(m.op, step)]
  <2>1. l.op = m.op /\ l.token = m.token /\ l.pc = After(m.op, step)
    BY <1>2 DEF LocalStates
  <2>2. Presented(req[r], held, now)
    BY DEF LogoutInv
  <2>3. m.op \in {"refresh", "logout"} =>
          After(m.op, step) # "FindActive" /\ After(m.op, step) # "Revoke"
    BY DEF StageOps, After, IssueSession, Handler, Refresh, Logout
  <2> HIDE DEF l
  <2>4. Presented(l, held, now)
    BY <2>1, <2>2, <2>3 DEF Presented
  <2> QED  BY <2>4 DEF l
<1> QED  BY <1>1, <1>2 DEF Moved

-----------------------------------------------------------------------------
(* The steps                                                               *)

\* FindActive finds the session of the token presented, or that session is
\* over.
LEMMA FindActiveOver ==
  ASSUME TypeInv, LogoutInv, NEW r \in Requests, FindActive(r)
  PROVE  LogoutInv'
<1> DEFINE l == req[r]
           found == RepoFindActive(HashRefresh(l.token), l.at)
<1>1. /\ UNCHANGED <<sessions, now, held>> /\ l.pc = "FindActive"
      /\ \/ found = {} /\ Answer(r) /\ closed' = ClosedBy(l)
         \/ /\ \E s \in found :
                Continue(r, "FindActive",
                  Opened(l, s, sessions[s].user, lineage[s].cred, OpenedLate(s)))
            /\ UNCHANGED closed
  BY DEF FindActive, stores, At, Opened
<1>2. /\ l \in LocalStates /\ l.op \in {"refresh", "logout"}
      /\ Presented(l, held, now) /\ OnlyRevokes(sessions)
  <2>1. l \in LocalStates /\ Presented(l, held, now) /\ OnlyRevokes(sessions)
    BY DEF TypeInv, TypeOK, OnlyRevokes, LogoutInv
  <2>2. l.op \in StageOps["FindActive"]
    BY <1>1 DEF TypeInv, LocalsOK, InStage
  <2> QED  BY <2>1, <2>2 DEF StageOps
<1>3. sessions \in [SessionIds -> SessionRows] /\ now \in Nat /\ l.at \in Nat
  BY <1>2 DEF TypeInv, TypeOK, LocalStates
<1>4. \A s \in SessionIds :
        s \in found <=> /\ Stored(sessions[s])
                        /\ sessions[s].token_hash = HashRefresh(l.token)
                        /\ ~sessions[s].revoked
                        /\ sessions[s].expires_at > l.at
  BY <1>3 DEF RepoFindActive, MemFindActive, PgFindActive
<1>5. found \subseteq SessionIds
  BY <1>3 DEF RepoFindActive, MemFindActive, PgFindActive
<1> HIDE DEF found
<1>6. CASE found = {} /\ Answer(r) /\ closed' = ClosedBy(l)
  <2>1. ASSUME l.token # None PROVE Over(l.token)
    <3>1. l.token \in SessionIds /\ Stored(sessions[l.token]) /\ l.at <= now
      BY <1>1, <1>2, <2>1 DEF Presented, TypeInv, TypeOK, HeldStored
    <3>2. sessions[l.token].token_hash = HashRefresh(l.token)
      BY <3>1 DEF LogoutInv, TokenOfRow
    <3>3. sessions[l.token].expires_at \in Nat
      BY <1>3, <3>1 DEF SessionRows
    <3>4. sessions[l.token].revoked \/ ~(sessions[l.token].expires_at > l.at)
      BY <1>4, <1>6, <3>1, <3>2
    <3> QED  BY <1>3, <3>1, <3>3, <3>4 DEF Over
  <2>2. \A s \in closed' : s \in closed \/ Over(s)
    BY <1>6, <2>1 DEF ClosedBy
  <2>3. \A s : Over(s)' <=> Over(s)
    BY <1>1 DEF Over
  <2> QED
    BY <1>1, <1>2, <1>6, <2>2, <2>3, OneClaim, IdlePresented DEF Answer
<1>7. ASSUME NEW s \in found,
             Continue(r, "FindActive",
               Opened(l, s, sessions[s].user, lineage[s].cred, OpenedLate(s))),
             UNCHANGED closed
      PROVE  LogoutInv'
  <2> DEFINE m == Opened(l, s, sessions[s].user, lineage[s].cred, OpenedLate(s))
             n == [m EXCEPT !.pc = "Revoke"]
  <2>1. /\ m.op = l.op /\ m.token = l.token /\ m.session = s
        /\ n.op = l.op /\ n.token = l.token /\ n.session = s /\ n.pc = "Revoke"
    BY <1>2 DEF Opened, LocalStates
  <2>2. Moved("FindActive", m) = n
    BY <1>2, <2>1 DEF Moved, After, IssueSession, Handler, Refresh, Logout
  <2>3. req' = [req EXCEPT ![r] = n]
    BY <1>7, <2>2 DEF Continue
  \* tokens hash apart, so the row found is the token's own
  <2>4. s = l.token
    <3>1. HashRefresh(s) = HashRefresh(l.token)
      BY <1>4, <1>5 DEF LogoutInv, TokenOfRow
    <3> QED  BY <3>1 DEF HashRefresh
  <2> HIDE DEF n, m
  <2>5. Presented(n, held, now)
    BY <1>2, <2>1, <2>4 DEF Presented
  <2> QED  BY <1>1, <1>2, <1>7, <2>3, <2>5, OneClaim
<1> QED  BY <1>1, <1>6, <1>7

\* revoke revokes the session of the token logout answers for.
LEMMA RevokeOver ==
  ASSUME TypeInv, LogoutInv, NEW r \in Requests, Revoke(r)
  PROVE  LogoutInv'
<1> DEFINE l == req[r]
<1>1. /\ sessions' = RepoRevoke(l.session) /\ UNCHANGED <<now, held>>
      /\ l.pc = "Revoke" /\ req' = [req EXCEPT ![r] = Moved("Revoke", l)]
      /\ closed' = ClosedBy(l)
  BY DEF Revoke, At, Continue
<1>2. OnlyRevokes(sessions')
  BY <1>1, RevokesOnly DEF TypeInv, TypeOK
<1>3. l \in LocalStates /\ l.op \in StageOps["Revoke"] /\ Presented(l, held, now)
  BY <1>1 DEF TypeInv, TypeOK, LocalsOK, InStage, LogoutInv
<1>4. ASSUME NEW s, s = l.token, l.op = "logout", s # None PROVE Over(s)'
  <2>1. s \in SessionIds /\ Stored(sessions[s]) /\ l.session = s
    BY <1>1, <1>3, <1>4 DEF Presented, TypeInv, TypeOK, HeldStored
  <2>2. sessions'[s].revoked /\ Stored(sessions'[s])
    BY <1>1, <1>2, <2>1, RevokesOnly DEF TypeInv, TypeOK, OnlyRevokes, Stored
  <2> QED  BY <2>2 DEF Over
<1>5. ASSUME NEW s \in closed' PROVE s \in closed \/ Over(s)'
  BY <1>1, <1>4, <1>5 DEF ClosedBy
<1>6. Presented(Moved("Revoke", l), held, now)
  BY <1>3, MovedPresented DEF StageOps
<1> QED  BY <1>1, <1>2, <1>5, <1>6, OneClaim

\* revoke_all only makes more sessions over.
LEMMA RevokeAllOver ==
  ASSUME TypeInv, LogoutInv, NEW r \in Requests,
         RevokeAll(r) \/ RevokeAllCommit(r)
  PROVE  LogoutInv'
<1> DEFINE l == req[r]
<1>1. l \in LocalStates /\ l.op \in {"logout_all", "delete_me", "change_password"}
  BY DEF TypeInv, TypeOK, LocalsOK, InStage, StageOps, RevokeAll,
         RevokeAllCommit, At
<1>2. OnlyRevokes(sessions') /\ UNCHANGED <<now, held, closed>>
  <2>1. OnlyRevokes(sessions) /\ sessions \in [SessionIds -> SessionRows]
    BY DEF OnlyRevokes, TypeInv, TypeOK
  <2> QED  BY <2>1, RevokesOnly DEF RevokeAll, RevokeAllCommit
<1>3. PICK m : MarkLate(r, l.user, m) /\ Presented(m, held, now)
  <2>1. ASSUME NEW k \in LocalStates, k.op = l.op
        PROVE  Presented(Moved("RevokeAll", k), held, now)
    <3>1. CASE Moved("RevokeAll", k) = Idle
      BY <3>1, IdlePresented
    <3>2. CASE Moved("RevokeAll", k) = [k EXCEPT !.pc = After(k.op, "RevokeAll")]
      <4>1. Moved("RevokeAll", k).op = l.op
        BY <2>1, <3>2 DEF LocalStates
      <4> QED  BY <1>1, <4>1 DEF Presented
    <3> QED  BY <3>1, <3>2 DEF Moved
  <2>2. CASE RevokeAll(r) /\ Memory
    BY <1>1, <2>1, <2>2 DEF RevokeAll
  <2>3. CASE RevokeAll(r) /\ ~Memory
    <3> DEFINE k == [l EXCEPT !.pc = "RevokeAllCommit",
                              !.rows = PgRevokeAllRows(sessions, l.user, None)]
    <3>1. k.op = l.op
      BY <1>1 DEF LocalStates
    <3>2. MarkLate(r, l.user, k)
      BY <2>3 DEF RevokeAll
    <3> HIDE DEF k
    <3> QED  BY <1>1, <3>1, <3>2 DEF Presented
  <2>4. CASE RevokeAllCommit(r)
    <3> DEFINE k == [l EXCEPT !.rows = {}]
    <3>1. k \in LocalStates /\ k.op = l.op
      BY <1>1 DEF LocalStates
    <3>2. MarkLate(r, l.user, Moved("RevokeAll", k))
      BY <2>4 DEF RevokeAllCommit
    <3> HIDE DEF k
    <3> QED  BY <2>1, <3>1, <3>2
  <2> QED  BY <2>2, <2>3, <2>4
<1>4. ASSUME NEW q \in Requests
      PROVE  SameClaim(q) \/ Presented(req'[q], held', now')
  <2>1. \/ q = r /\ req'[q] = m
        \/ req'[q] = req[q] \/ req'[q] = [req[q] EXCEPT !.late = TRUE]
    BY <1>3 DEF MarkLate
  <2>2. req[q] \in LocalStates
    BY DEF TypeInv, TypeOK
  <2> QED  BY <1>2, <1>3, <2>1, <2>2 DEF SameClaim, LocalStates
<1>5. RowsStay /\ \A s \in SessionIds : Stored(sessions'[s]) => Stored(sessions[s])
  BY <1>2 DEF OnlyRevokes, RowsStay, Stored
<1>6. now' \in Nat /\ now <= now' /\ held \subseteq held'
  BY <1>2 DEF TypeInv, TypeOK
<1> QED  BY <1>2, <1>4, <1>5, <1>6, KeepsOver

\* The session create stores is found by its own token.
LEMMA CreateSessionOver ==
  ASSUME TypeInv, LogoutInv, NEW r \in Requests, CreateSession(r)
  PROVE  LogoutInv'
<1> DEFINE l == req[r]
<1>1. PICK s \in SessionIds :
        LET reply == RepoSessionCreate(s, l.user, HashRefresh(s), l.at + RefreshTtl)
        IN  /\ ~Stored(sessions[s])
            /\ reply.ret = "Ok"
            /\ sessions' = reply.tab
            /\ Continue(r, "CreateSession", [l EXCEPT !.session = s])
  BY DEF CreateSession
<1>2. UNCHANGED <<now, held, closed>>
  BY DEF CreateSession
<1>3. sessions' = [sessions EXCEPT ![s] =
                     SessionRow(l.user, HashRefresh(s), l.at + RefreshTtl)]
  BY <1>1 DEF RepoSessionCreate, MemSessionCreate, PgSessionCreate, Reply
<1>4. sessions'[s].token_hash = HashRefresh(s)
  BY <1>3 DEF SessionRow, TypeInv, TypeOK
<1>5. /\ RowsStay
      /\ \A x \in SessionIds : Stored(sessions'[x]) =>
           Stored(sessions[x]) \/ sessions'[x].token_hash = HashRefresh(x)
  BY <1>1, <1>3, <1>4 DEF RowsStay, TypeInv, TypeOK
<1> DEFINE m == [l EXCEPT !.session = s]
<1>6. /\ m \in LocalStates /\ m.op = l.op /\ m.token = l.token
      /\ l.op \in StageOps["CreateSession"]
  BY DEF TypeInv, TypeOK, LocalsOK, InStage, CreateSession, At, LocalStates, Opt
<1>7. req' = [req EXCEPT ![r] = Moved("CreateSession", m)]
  BY <1>1 DEF Continue
<1> HIDE DEF m
<1>8. Presented(Moved("CreateSession", m), held, now)
  BY <1>6, MovedPresented DEF StageOps
<1>9. ASSUME NEW q \in Requests
      PROVE  SameClaim(q) \/ Presented(req'[q], held', now')
  BY <1>2, <1>7, <1>8 DEF TypeInv, TypeOK, SameClaim
<1>10. now' \in Nat /\ now <= now' /\ held \subseteq held'
  BY <1>2 DEF TypeInv, TypeOK
<1> QED  BY <1>2, <1>5, <1>9, <1>10, KeepsOver

\* A call presents a token some client holds, now.
LEMMA CallOver ==
  ASSUME TypeInv, LogoutInv, NEW r \in Requests, Call(r)
  PROVE  LogoutInv'
<1>op. PICK op \in CallNames :
         \E input : Begin(r, op, input) /\ FreshInput(op, input)
  BY CallBegins
<1>1. PICK input : Begin(r, op, input) /\ FreshInput(op, input)
  BY <1>op
<1> DEFINE l == [input EXCEPT !.op = op, !.pc = Handler[op]["Begin"],
                              !.gone = Deleted]
<1>2. req' = [req EXCEPT ![r] = l] /\ UNCHANGED <<sessions, now, held, closed>>
  BY <1>1 DEF Begin
<1>3. l.op = op /\ l.pc = Handler[op]["Begin"] /\ l.token = input.token /\ l.at = input.at
  BY <1>1 DEF FreshInput, LocalStates
<1>4. op \in {"refresh", "logout"} => l.pc # "Revoke"
  BY <1>3 DEF Handler, Refresh, Logout
<1> HIDE DEF l
<1>5. Presented(l, held, now)
  BY <1>1, <1>3, <1>4 DEF Presented, FreshInput
<1>6. OnlyRevokes(sessions')
  BY <1>2 DEF OnlyRevokes, TypeInv, TypeOK
<1> QED  BY <1>2, <1>5, <1>6, OneClaim

\* The other steps go on with the token they were called with.
LEMMA OtherOver ==
  ASSUME TypeInv, LogoutInv, NEW r \in Requests,
         UserStep(r) \/ Issue(r) \/ Sign(r)
  PROVE  LogoutInv'
<1>1. UNCHANGED <<sessions, now, closed>> /\ GoesOn(r)
  BY StepGoesOn
<1>2. PICK step \in PlainSteps : \E m \in LocalStates :
        /\ m.op \in StageOps[step] /\ KeepsInput(m, req[r])
        /\ Answer(r) \/ Continue(r, step, m)
  BY <1>1 DEF GoesOn
<1>3. PICK m \in LocalStates :
        /\ m.op \in StageOps[step] /\ KeepsInput(m, req[r])
        /\ Answer(r) \/ Continue(r, step, m)
  BY <1>2
<1>4. step \in DOMAIN StageOps \ {"RevokeAllCommit", "FindActive"}
  BY DEF PlainSteps, StageOps
<1>5. Presented(Moved(step, m), held, now)
  BY <1>3, <1>4, MovedPresented DEF KeepsInput
<1>6. PICK l : req' = [req EXCEPT ![r] = l] /\ Presented(l, held, now)
  BY <1>3, <1>5, IdlePresented DEF Answer, Continue
<1>7. held \subseteq held'
  BY DEF UserStep, Create, FindByIdentifier, PasswordHash, Verify, FindById,
         Update, UpdatePassword, SoftDelete, Issue, Sign
<1>8. Presented(l, held', now')
  BY <1>1, <1>6, <1>7 DEF Presented
<1>9. ASSUME NEW q \in Requests
      PROVE  SameClaim(q) \/ Presented(req'[q], held', now')
  BY <1>6, <1>8 DEF TypeInv, TypeOK, SameClaim
<1>10. /\ RowsStay /\ now' \in Nat /\ now <= now'
       /\ \A s \in SessionIds : Stored(sessions'[s]) => Stored(sessions[s])
  BY <1>1 DEF RowsStay, TypeInv, TypeOK
<1> QED  BY <1>1, <1>7, <1>9, <1>10, KeepsOver

LEMMA LogoutStep ==
  ASSUME ~ClockSetBack, TypeInv, LogoutInv, [Next]_vars
  PROVE  LogoutInv'
<1>1. ASSUME NEW r \in Requests, Drop(r) PROVE LogoutInv'
  <2>1. req' = [req EXCEPT ![r] = Idle] /\ UNCHANGED <<sessions, now, held, closed>>
    BY <1>1 DEF Drop, Answer, stores, history
  <2>2. OnlyRevokes(sessions')
    BY <2>1 DEF OnlyRevokes, TypeInv, TypeOK
  <2> QED  BY <2>1, <2>2, OneClaim, IdlePresented
<1>2. CASE Tick \/ SetBack \/ UNCHANGED vars
  <2>1. UNCHANGED <<sessions, req, held, closed>> /\ (now' = now \/ now' = now + 1)
    BY <1>2 DEF Tick, SetBack, vars, stores, history
  <2>2. /\ RowsStay /\ now' \in Nat /\ now <= now'
        /\ \A s \in SessionIds : Stored(sessions'[s]) => Stored(sessions[s])
    BY <2>1 DEF RowsStay, TypeInv, TypeOK
  <2> QED  BY <2>1, <2>2, KeepsOver DEF SameClaim
<1>3. ASSUME NEW r \in Requests, SessionStep(r) PROVE LogoutInv'
  BY <1>3, FindActiveOver, RevokeOver, RevokeAllOver, CreateSessionOver,
     OtherOver DEF SessionStep
<1> QED
  BY <1>1, <1>2, <1>3, CallOver, OtherOver DEF Next

-----------------------------------------------------------------------------

\* Once logout has answered Ok for a token, the token's session is never live
\* again, even if a refresh of the same token, another logout, a revoke_all
\* or the expiry of the session gets in between logout's two calls.  With a
\* clock that may be set back it does not hold: logout answers Ok for an
\* expired session without revoking it.
THEOREM LogoutIsFinal ==
  ASSUME ~ClockSetBack
  PROVE  Spec => []LogoutSticks
<1>1. TypeInv /\ LogoutInv => LogoutSticks
  <2> SUFFICES ASSUME TypeInv, LogoutInv, NEW s \in closed PROVE ~Live(s)
    BY DEF LogoutSticks
  <2>1. s \in SessionIds /\ sessions[s] \in SessionRows /\ now \in Nat
    BY DEF TypeInv, TypeOK
  <2>2. sessions[s].expires_at \in Nat
    BY <2>1 DEF SessionRows
  <2> QED  BY <2>1, <2>2 DEF LogoutInv, Over, Live
<1>2. TypeInv /\ LogoutInv /\ [Next]_vars => LogoutInv'
  BY LogoutStep
<1> QED
  BY <1>1, <1>2, InitType, TypeInvStep, LogoutInit, PTL DEF Spec
=============================================================================
