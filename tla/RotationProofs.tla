--------------------------- MODULE RotationProofs ---------------------------
(***************************************************************************)
(* Refresh rotation: what an overlap of refreshes can and cannot produce,  *)
(* for every number of requests; and that AuthService implements Sessions. *)
(***************************************************************************)
EXTENDS AuthServiceProofs

(***************************************************************************)
(* What request r, in local state l over the session store t, has in hand. *)
(* Between finding a session and storing its successor, refresh holds a    *)
(* stored session of its account, revoked once Revoke is past, that r has  *)
(* given no successor yet; register and login hold none.                   *)
(***************************************************************************)
Hand(r, l, t) ==
    /\ l.op = "refresh" /\ l.pc \in {"Revoke", "FindById", "Issue", "CreateSession"} =>
         /\ l.session \in SessionIds /\ Stored(t[l.session])
         /\ l.user = t[l.session].user
         /\ l.pc # "Revoke" => t[l.session].revoked
         /\ \A s \in SessionIds :
              Stored(t[s]) /\ lineage[s].from = l.session => lineage[s].by # r
    /\ l.op \in {"register", "login"} /\ l.pc # "Sign" => l.session = None

\* A stored session knows the request that issued it.
Issued == \A s \in SessionIds : Stored(sessions[s]) => lineage[s].by \in Requests

RotationInv ==
    /\ SuccessorImpliesSpent
    /\ OneSuccessorPerRequest
    /\ Issued
    /\ \A r \in Requests : Hand(r, req[r], sessions)

SameHand(r) == /\ req'[r].op = req[r].op /\ req'[r].pc = req[r].pc
               /\ req'[r].session = req[r].session /\ req'[r].user = req[r].user

\* A step that stores no session keeps the invariant if what it changes in
\* the requests is right.
LEMMA NoNewSession ==
  ASSUME TypeInv, RotationInv, OnlyRevokes(sessions'), lineage' = lineage,
         \A q \in Requests : SameHand(q) \/ Hand(q, req'[q], sessions')
  PROVE  RotationInv'
<1>1. \A s \in SessionIds : /\ Stored(sessions'[s]) <=> Stored(sessions[s])
                            /\ sessions'[s].user = sessions[s].user
                            /\ sessions[s].revoked => sessions'[s].revoked
  BY DEF OnlyRevokes, Stored
<1>2. SuccessorImpliesSpent' /\ OneSuccessorPerRequest' /\ Issued'
  BY <1>1 DEF RotationInv, SuccessorImpliesSpent, OneSuccessorPerRequest, Succeeds,
              Issued
<1>3. ASSUME NEW q \in Requests, SameHand(q)
      PROVE  Hand(q, req'[q], sessions')
  BY <1>1, <1>3 DEF RotationInv, SameHand, Hand
<1>4. \A q \in Requests : Hand(q, req[q], sessions)'
  BY <1>3 DEF Hand
<1> QED  BY <1>2, <1>4 DEF RotationInv

\* One request's local state becomes l.
LEMMA OneHand ==
  ASSUME TypeInv, RotationInv, OnlyRevokes(sessions'), lineage' = lineage,
         NEW r \in Requests, NEW l, req' = [req EXCEPT ![r] = l],
         Hand(r, l, sessions')
  PROVE  RotationInv'
<1>1. \A q \in Requests : SameHand(q) \/ Hand(q, req'[q], sessions')
  BY DEF TypeInv, TypeOK, SameHand
<1> QED  BY <1>1, NoNewSession

LEMMA IdleHand == ASSUME NEW r, NEW t PROVE Hand(r, Idle, t)
BY NoneAssumption DEF Hand, Idle

\* A handler goes on without touching the sessions or what it has in hand.
LEMMA ContinueHand ==
  ASSUME TypeInv, RotationInv, UNCHANGED <<sessions, lineage>>,
         NEW r \in Requests,
         NEW step \in DOMAIN StageOps \ {"RevokeAllCommit", "FindActive",
                                         "Revoke", "CreateSession"},
         NEW m \in LocalStates, req[r].pc = step,
         m.op = req[r].op, m.session = req[r].session,
         m.op = "refresh" => m.user = req[r].user,
         Answer(r) \/ Continue(r, step, m)
  PROVE  RotationInv'
<1>0. OnlyRevokes(sessions')
  BY DEF OnlyRevokes, TypeInv, TypeOK
<1>1. CASE Answer(r)
  BY <1>0, <1>1, OneHand, IdleHand DEF Answer
<1>2. CASE Continue(r, step, m)
  <2>1. m.op \in StageOps[step]
    BY DEF TypeInv, LocalsOK, InStage, StageOps
  <2> DEFINE l == Moved(step, m)
  <2>2. l = Idle \/ l = [m EXCEPT !.pc = After(m.op, step)]
    BY DEF Moved
  <2>3. CASE l = [m EXCEPT !.pc = After(m.op, step)]
    <3>1. l.op = m.op /\ l.session = m.session /\ l.user = m.user
          /\ l.pc = After(m.op, step)
      BY <2>3 DEF LocalStates
    <3>2. Hand(r, req[r], sessions)
      BY DEF RotationInv
    <3>3. m.op = "refresh" => step \in {"FindById", "Issue", "Sign"}
      BY <2>1 DEF StageOps
    <3>4. step # "Sign" \/ l = Idle
      BY <2>1 DEF Moved, After, IssueSession
    <3> HIDE DEF l
    <3>5. Hand(r, l, sessions) \/ l = Idle
      BY <3>1, <3>2, <3>3, <3>4 DEF Hand
    <3> QED  BY <3>5, IdleHand, <1>0, <1>2, OneHand DEF Continue, l
  <2>4. CASE l = Idle
    BY <2>4, <1>0, <1>2, OneHand, IdleHand DEF Continue
  <2> QED  BY <2>2, <2>3, <2>4
<1> QED  BY <1>1, <1>2

\* A call starts a request with no session in hand.
LEMMA CallHand ==
  ASSUME TypeInv, RotationInv, NEW r \in Requests, Call(r)
  PROVE  RotationInv'
<1>1. OnlyRevokes(sessions)
  BY DEF OnlyRevokes, TypeInv, TypeOK
<1>op. PICK op \in CallNames :
         \E input : Begin(r, op, input) /\ FreshInput(op, input)
  BY CallBegins
<1>2. PICK input : Begin(r, op, input) /\ FreshInput(op, input)
  BY <1>op
<1> DEFINE l == [input EXCEPT !.op = op, !.pc = Handler[op]["Begin"],
                              !.gone = Deleted]
<1>3. req' = [req EXCEPT ![r] = l] /\ UNCHANGED <<sessions, lineage>>
  BY <1>2 DEF Begin
<1>4. input \in LocalStates /\ input.session = None
  BY <1>2 DEF FreshInput
<1>5. l.session = None /\ l.pc = Handler[op]["Begin"]
  BY <1>4 DEF LocalStates
<1>6. Handler[op]["Begin"] \notin {"Revoke", "FindById", "Issue", "CreateSession"}
  BY DEF CallNames, Handler, Register, Login, Refresh, Logout, LogoutAll,
         UpdateMe, DeleteMe, ChangePassword
<1> HIDE DEF l
<1>7. Hand(r, l, sessions)
  BY <1>5, <1>6 DEF Hand
<1> QED  BY <1>1, <1>3, <1>7, OneHand

\* The successor of the session in hand is stored.
LEMMA CreateSessionHand ==
  ASSUME TypeInv, RotationInv, NEW r \in Requests, CreateSession(r)
  PROVE  RotationInv'
<1> DEFINE l == req[r]
<1>1. PICK s \in SessionIds :
        LET reply == RepoSessionCreate(s, l.user, HashRefresh(s), l.at + RefreshTtl)
        IN  /\ ~Stored(sessions[s])
            /\ reply.ret = "Ok"
            /\ sessions' = reply.tab
            /\ Continue(r, "CreateSession", [l EXCEPT !.session = s])
            /\ lineage' = [lineage EXCEPT
                             ![s] = [from |-> l.session, by |-> r,
                                     cred |-> l.hash, late |-> l.late,
                                     closing |-> l.closing]]
  BY DEF CreateSession
<1>2. sessions' = [sessions EXCEPT ![s] =
                     SessionRow(l.user, HashRefresh(s), l.at + RefreshTtl)]
  BY <1>1 DEF RepoSessionCreate, MemSessionCreate, PgSessionCreate, Reply
<1>3. /\ l \in LocalStates /\ l.pc = "CreateSession"
      /\ l.op \in {"register", "login", "refresh"} /\ l.user \in UserIds
      /\ Hand(r, l, sessions)
  BY DEF TypeInv, TypeOK, LocalsOK, InStage, StageOps, KnowsUser, CreateSession,
         At, RotationInv
<1>4. /\ sessions'[s].user = l.user /\ Stored(sessions'[s])
      /\ lineage'[s].from = l.session /\ lineage'[s].by = r
      /\ ~Stored(sessions[s])
  BY <1>1, <1>2, <1>3, NoneAssumption DEF SessionRow, Stored, TypeInv, TypeOK
<1>5. \A x \in SessionIds \ {s} : sessions'[x] = sessions[x] /\ lineage'[x] = lineage[x]
  BY <1>1, <1>2 DEF TypeInv, TypeOK
\* what the new session descends from
<1>6. l.session # None =>
        /\ l.op = "refresh"
        /\ l.session \in SessionIds \ {s} /\ Stored(sessions[l.session])
        /\ l.user = sessions[l.session].user /\ sessions[l.session].revoked
        /\ \A x \in SessionIds : Succeeds(x, l.session) => lineage[x].by # r
  BY <1>3, <1>4 DEF Hand, Succeeds
<1>7. SuccessorImpliesSpent'
  <2> SUFFICES ASSUME NEW x \in SessionIds, NEW t \in SessionIds, Succeeds(x, t)'
               PROVE  /\ Stored(sessions'[t]) /\ sessions'[t].revoked
                      /\ sessions'[x].user = sessions'[t].user
    BY DEF SuccessorImpliesSpent
  <2>1. CASE x = s
    <3>1. t = l.session /\ t # None
      BY <1>4, <2>1 DEF Succeeds
    <3> QED  BY <1>4, <1>5, <1>6, <2>1, <3>1
  <2>2. CASE x # s
    <3>1. Succeeds(x, t)
      BY <1>5, <2>2 DEF Succeeds
    <3>2. /\ Stored(sessions[t]) /\ sessions[t].revoked
          /\ sessions[x].user = sessions[t].user
      BY <3>1 DEF RotationInv, SuccessorImpliesSpent
    <3> QED  BY <1>4, <1>5, <2>2, <3>2
  <2> QED  BY <2>1, <2>2
<1>8. OneSuccessorPerRequest'
  <2> SUFFICES ASSUME NEW x \in SessionIds, NEW y \in SessionIds,
                      NEW t \in SessionIds, Succeeds(x, t)', Succeeds(y, t)',
                      lineage'[x].by = lineage'[y].by, x # y
               PROVE  FALSE
    BY DEF OneSuccessorPerRequest
  <2>1. \A z \in SessionIds \ {s} : Succeeds(z, t)' => Succeeds(z, t)
    BY <1>5 DEF Succeeds
  <2>2. \A z \in SessionIds \ {s} :
          Succeeds(s, t)' /\ Succeeds(z, t)' => lineage'[z].by # lineage'[s].by
    BY <1>4, <1>5, <1>6, <2>1 DEF Succeeds
  <2>3. CASE x = s \/ y = s
    BY <2>2, <2>3
  <2>4. CASE x # s /\ y # s
    BY <1>5, <2>1, <2>4 DEF RotationInv, OneSuccessorPerRequest
  <2> QED  BY <2>3, <2>4
<1>9. ASSUME NEW q \in Requests
      PROVE  Hand(q, req[q], sessions)'
  <2>1. CASE q = r
    <3> DEFINE m == [l EXCEPT !.session = s]
    <3>1. m \in LocalStates /\ m.op = l.op
      BY <1>3 DEF LocalStates, Opt
    <3>2. req'[r] = [m EXCEPT !.pc = "Sign"]
      BY <1>1 DEF Continue, Moved, After, IssueSession, TypeInv, TypeOK
    <3>3. req'[r].pc = "Sign"
      BY <3>1, <3>2 DEF LocalStates
    <3> QED  BY <2>1, <3>3 DEF Hand
  <2>2. CASE q # r
    <3>1. req'[q] = req[q]
      BY <1>1, <2>2 DEF Continue, TypeInv, TypeOK
    <3>2. Hand(q, req[q], sessions)
      BY DEF RotationInv
    <3>3. Hand(q, req[q], sessions)'
      BY <1>4, <1>5, <2>2, <3>1, <3>2 DEF Hand
    <3> QED  BY <3>3
  <2> QED  BY <2>1, <2>2
<1>10. Issued'
  BY <1>4, <1>5 DEF RotationInv, Issued
<1> QED  BY <1>7, <1>8, <1>9, <1>10 DEF RotationInv

\* refresh takes in hand the session its token names: it is not revoked, so
\* it has no successor.
LEMMA FindActiveHand ==
  ASSUME TypeInv, RotationInv, NEW r \in Requests, FindActive(r)
  PROVE  RotationInv'
<1> DEFINE l == req[r]
           found == RepoFindActive(HashRefresh(l.token), l.at)
<1>1. /\ UNCHANGED <<sessions, lineage>>
      /\ l.pc = "FindActive"
      /\ \/ Answer(r)
         \/ \E s \in found :
              Continue(r, "FindActive",
                Opened(l, s, sessions[s].user, lineage[s].cred, OpenedLate(s)))
  BY DEF FindActive, stores, At, Opened
<1>2. OnlyRevokes(sessions)
  BY DEF OnlyRevokes, TypeInv, TypeOK
<1>3. l \in LocalStates /\ l.op \in {"refresh", "logout"}
  BY <1>1 DEF TypeInv, TypeOK, LocalsOK, InStage, StageOps
<1>4. \A s \in found : /\ s \in SessionIds /\ Stored(sessions[s])
                       /\ ~sessions[s].revoked /\ sessions[s].user \in UserIds
  BY DEF RepoFindActive, MemFindActive, PgFindActive, Stored, TypeInv, TypeOK,
         SessionRows, Opt
<1> HIDE DEF found
<1>5. CASE Answer(r)
  BY <1>1, <1>2, <1>5, OneHand, IdleHand DEF Answer
<1>6. ASSUME NEW s \in found,
             Continue(r, "FindActive",
               Opened(l, s, sessions[s].user, lineage[s].cred, OpenedLate(s)))
      PROVE  RotationInv'
  <2> DEFINE m == Opened(l, s, sessions[s].user, lineage[s].cred, OpenedLate(s))
             n == [m EXCEPT !.pc = "Revoke"]
  <2>1. lineage[s].cred \in Opt(Hashes) /\ OpenedLate(s) \in BOOLEAN
    BY <1>4 DEF TypeInv, TypeOK, Lineages, OpenedLate
  <2>2. /\ m \in LocalStates /\ m.op = l.op /\ m.user = sessions[s].user
        /\ m.session = s
    BY <1>3, <1>4, <2>1, OpenedType
  <2> HIDE DEF m
  <2>3. /\ n.op = l.op /\ n.user = sessions[s].user
        /\ n.session = s /\ n.pc = "Revoke"
    BY <2>2 DEF LocalStates
  <2>4. Moved("FindActive", m) = n
    BY <1>3, <2>2 DEF Moved, After, IssueSession, Handler, Refresh, Logout
  <2>5. req' = [req EXCEPT ![r] = n]
    BY <1>6, <2>4 DEF Continue, m
  <2> HIDE DEF n
  \* an unrevoked session has no successor
  <2>6. \A x \in SessionIds : ~Succeeds(x, s)
    BY <1>4 DEF RotationInv, SuccessorImpliesSpent
  <2>7. \A x \in SessionIds : ~(Stored(sessions[x]) /\ lineage[x].from = s)
    BY <1>4, <2>6, NoneAssumption DEF Succeeds
  <2>8. Hand(r, n, sessions)
    BY <1>3, <1>4, <2>3, <2>7 DEF Hand
  <2> QED  BY <1>1, <1>2, <2>5, <2>8, OneHand
<1> QED  BY <1>1, <1>5, <1>6

\* revoke spends the session in hand.
LEMMA RevokeHand ==
  ASSUME TypeInv, RotationInv, NEW r \in Requests, Revoke(r)
  PROVE  RotationInv'
<1> DEFINE l == req[r]
           m == Moved("Revoke", l)
<1>1. /\ sessions' = RepoRevoke(l.session) /\ lineage' = lineage
      /\ l.pc = "Revoke" /\ req' = [req EXCEPT ![r] = m]
  BY DEF Revoke, At, Continue
<1>2. OnlyRevokes(sessions')
  BY <1>1, RevokesOnly DEF TypeInv, TypeOK
<1>3. l \in LocalStates /\ l.op \in {"refresh", "logout"} /\ Hand(r, l, sessions)
  BY <1>1 DEF TypeInv, TypeOK, LocalsOK, InStage, StageOps, RotationInv
<1>4. CASE l.op = "logout"
  <2>1. m = Idle
    BY <1>4 DEF Moved, After, IssueSession, Handler, Logout
  <2> HIDE DEF m
  <2> QED  BY <1>1, <1>2, <2>1, OneHand, IdleHand
<1>5. CASE l.op = "refresh"
  <2>1. m = [l EXCEPT !.pc = "FindById"]
    BY <1>5 DEF Moved, After, IssueSession, Handler, Refresh
  <2>2. /\ m.op = "refresh" /\ m.pc = "FindById" /\ m.session = l.session
        /\ m.user = l.user
    BY <1>3, <1>5, <2>1 DEF LocalStates
  <2> HIDE DEF m
  <2>3. /\ l.session \in SessionIds /\ Stored(sessions[l.session])
        /\ l.user = sessions[l.session].user
        /\ \A s \in SessionIds :
             Stored(sessions[s]) /\ lineage[s].from = l.session => lineage[s].by # r
    BY <1>1, <1>3, <1>5 DEF Hand
  <2>4. sessions'[l.session].revoked
    BY <1>1, <2>3, RevokesOnly DEF TypeInv, TypeOK
  <2>5. Hand(r, m, sessions')
    BY <1>2, <2>2, <2>3, <2>4 DEF Hand, OnlyRevokes, Stored
  <2> QED  BY <1>1, <1>2, <2>5, OneHand
<1> QED  BY <1>3, <1>4, <1>5

\* revoke_all only spends sessions and marks requests.
LEMMA RevokeAllHand ==
  ASSUME TypeInv, RotationInv, NEW r \in Requests,
         RevokeAll(r) \/ RevokeAllCommit(r)
  PROVE  RotationInv'
<1> DEFINE l == req[r]
<1>1. /\ l \in LocalStates /\ sessions \in [SessionIds -> SessionRows]
      /\ l.op \in {"logout_all", "delete_me", "change_password"}
  BY DEF TypeInv, TypeOK, LocalsOK, InStage, StageOps, RevokeAll,
         RevokeAllCommit, At
<1>2. lineage' = lineage /\ OnlyRevokes(sessions')
  <2>1. OnlyRevokes(sessions)
    BY <1>1 DEF OnlyRevokes
  <2> QED  BY <1>1, <2>1, RevokesOnly DEF RevokeAll, RevokeAllCommit
<1>3. PICK m : MarkLate(r, l.user, m) /\ Hand(r, m, sessions')
  <2>1. \A k \in LocalStates : k.op = l.op => Hand(r, Moved("RevokeAll", k), sessions')
    <3> TAKE k \in LocalStates
    <3> HAVE k.op = l.op
    <3>1. CASE Moved("RevokeAll", k) = Idle
      BY <3>1, IdleHand
    <3>2. CASE Moved("RevokeAll", k) = [k EXCEPT !.pc = After(k.op, "RevokeAll")]
      <4>1. Moved("RevokeAll", k).op = l.op
        BY <3>2 DEF LocalStates
      <4> QED  BY <1>1, <4>1 DEF Hand
    <3> QED  BY <3>1, <3>2 DEF Moved
  <2>2. CASE RevokeAll(r) /\ Memory
    BY <1>1, <2>1, <2>2 DEF RevokeAll
  <2>3. CASE RevokeAll(r) /\ ~Memory
    <3> DEFINE k == [l EXCEPT !.pc = "RevokeAllCommit",
                              !.rows = PgRevokeAllRows(sessions, l.user, None)]
    <3>1. k.op = l.op
      BY <1>1 DEF LocalStates
    <3>2. MarkLate(r, l.user, k)
      BY <2>3 DEF RevokeAll
    <3> HIDE DEF k
    <3> QED  BY <1>1, <3>1, <3>2 DEF Hand
  <2>4. CASE RevokeAllCommit(r)
    <3> DEFINE k == [l EXCEPT !.rows = {}]
    <3>1. k \in LocalStates /\ k.op = l.op
      BY <1>1 DEF LocalStates
    <3>2. MarkLate(r, l.user, Moved("RevokeAll", k))
      BY <2>4 DEF RevokeAllCommit
    <3> HIDE DEF k
    <3> QED  BY <2>1, <3>1, <3>2
  <2> QED  BY <2>2, <2>3, <2>4
<1>4. ASSUME NEW q \in Requests
      PROVE  SameHand(q) \/ Hand(q, req'[q], sessions')
  <2>1. \/ q = r /\ req'[q] = m
        \/ req'[q] = req[q] \/ req'[q] = [req[q] EXCEPT !.late = TRUE]
    BY <1>3 DEF MarkLate
  <2>2. req[q] \in LocalStates
    BY DEF TypeInv, TypeOK
  <2> QED  BY <1>3, <2>1, <2>2 DEF SameHand, LocalStates
<1> QED  BY <1>2, <1>4, NoNewSession

\* The other steps go on with what they have in hand.
LEMMA OtherHand ==
  ASSUME TypeInv, RotationInv, NEW r \in Requests,
         UserStep(r) \/ Issue(r) \/ Sign(r)
  PROVE  RotationInv'
<1>1. UNCHANGED <<sessions, lineage>> /\ GoesOn(r)
  BY StepGoesOn
<1>2. PICK step \in PlainSteps : \E m \in LocalStates :
        /\ req[r].pc = step /\ KeepsInput(m, req[r])
        /\ Answer(r) \/ Continue(r, step, m)
  BY <1>1 DEF GoesOn
<1>3. PICK m \in LocalStates :
        /\ req[r].pc = step /\ KeepsInput(m, req[r])
        /\ Answer(r) \/ Continue(r, step, m)
  BY <1>2
<1>4. step \in DOMAIN StageOps \ {"RevokeAllCommit", "FindActive", "Revoke",
                                  "RevokeAll", "CreateSession"}
  BY DEF PlainSteps, StageOps
<1> QED  BY <1>1, <1>3, <1>4, ContinueHand DEF KeepsInput

LEMMA RotationStep == TypeInv /\ RotationInv /\ [Next]_vars => RotationInv'
<1> SUFFICES ASSUME TypeInv, RotationInv, [Next]_vars PROVE RotationInv'
  OBVIOUS
<1>0. OnlyRevokes(sessions)
  BY DEF OnlyRevokes, TypeInv, TypeOK
<1>1. ASSUME NEW r \in Requests, Drop(r) PROVE RotationInv'
  <2>1. req' = [req EXCEPT ![r] = Idle] /\ UNCHANGED <<sessions, lineage>>
    BY <1>1 DEF Drop, Answer, stores, history
  <2> QED  BY <1>0, <2>1, OneHand, IdleHand
<1>2. CASE Tick \/ SetBack \/ UNCHANGED vars
  <2>1. UNCHANGED <<sessions, lineage, req>>
    BY <1>2 DEF Tick, SetBack, vars, stores, history
  <2> QED  BY <1>0, <2>1, NoNewSession DEF SameHand
<1>3. ASSUME NEW r \in Requests, SessionStep(r) PROVE RotationInv'
  BY <1>3, FindActiveHand, RevokeHand, RevokeAllHand, CreateSessionHand,
     OtherHand DEF SessionStep
<1> QED
  BY <1>1, <1>2, <1>3, CallHand, OtherHand DEF Next

LEMMA RotationInit == Init => RotationInv
<1> SUFFICES ASSUME Init PROVE RotationInv
  OBVIOUS
<1>1. \A s \in SessionIds : ~Stored(sessions[s])
  BY DEF Init, Stored, NoSession
<1> QED
  BY <1>1, IdleHand DEF Init, RotationInv, SuccessorImpliesSpent,
     OneSuccessorPerRequest, Succeeds, Issued

-----------------------------------------------------------------------------
(* The theorems                                                            *)

\* Refresh (src/service.rs) never leaves a client with the old session and
\* its successor: whatever step a refresh fails at, and whatever runs beside
\* it, a successor's session exists only over a revoked one of its account.
THEOREM SuccessorOverSpent == Spec => []SuccessorImpliesSpent
<1>1. RotationInv => SuccessorImpliesSpent
  BY DEF RotationInv
<1> QED
  BY <1>1, InitType, TypeInvStep, RotationInit, RotationStep, PTL DEF Spec

\* The single use a refresh token is promised fails only by requests that
\* overlap: each request slot turns a token into at most one session.
THEOREM AtMostOnePerRequest == Spec => []OneSuccessorPerRequest
<1>1. RotationInv => OneSuccessorPerRequest
  BY DEF RotationInv
<1> QED
  BY <1>1, InitType, TypeInvStep, RotationInit, RotationStep, PTL DEF Spec

\* With one request at a time a refresh token is single-use, as the comment
\* in refresh says.
THEOREM SerialSingleUse ==
  ASSUME \A q, r \in Requests : q = r
  PROVE  Spec => []SingleUse
<1>1. RotationInv => SingleUse
  BY DEF RotationInv, OneSuccessorPerRequest, Issued, SingleUse, Succeeds
<1> QED
  BY <1>1, InitType, TypeInvStep, RotationInit, RotationStep, PTL DEF Spec

-----------------------------------------------------------------------------
(* AuthService implements Sessions: every step of a handler is a step of   *)
(* the life of the sessions, or none of them sees it.                      *)

\* What happened to the session store and its lineage in a step that issues
\* no session, and to the clock.
Ends == /\ OnlyRevokes(sessions')
        /\ lineage' = lineage
        /\ now \in Nat /\ now' \in Nat /\ now <= now'

\* Such a step ends some sessions and revives none.
LEMMA EndsSessions ==
  ASSUME TypeInv, Ends
  PROVE  Session!End
<1> DEFINE ended == {s \in SessionIds : Live(s) /\ ~Live(s)'}
<1>1. ASSUME NEW s \in SessionIds
      PROVE  /\ Stored(sessions[s])' <=> Stored(sessions[s])
             /\ sessions'[s].user = sessions[s].user
             /\ Live(s)' => Live(s)
             /\ s \in ended => SessionState(s) = "live" /\ SessionState(s)' = "over"
             /\ s \notin ended => SessionState(s)' = SessionState(s)
  <2>1. /\ sessions'[s].user = sessions[s].user
        /\ sessions'[s].expires_at = sessions[s].expires_at
        /\ sessions[s].expires_at \in Nat
        /\ sessions[s].revoked => sessions'[s].revoked
    BY DEF Ends, OnlyRevokes, TypeInv, TypeOK, SessionRows
  <2>2. Stored(sessions[s])' <=> Stored(sessions[s])
    BY <2>1 DEF Stored
  <2>3. Live(s)' => Live(s)
    BY <2>1, <2>2 DEF Live, Ends
  <2> QED  BY <2>1, <2>2, <2>3 DEF SessionState, Live
<1>2. [s \in SessionIds |-> SessionState(s)]' =
        [s \in SessionIds |-> IF s \in ended THEN "over"
                              ELSE [x \in SessionIds |-> SessionState(x)][s]]
  BY <1>1
<1>3. ended \in SUBSET {s \in SessionIds :
                          [x \in SessionIds |-> SessionState(x)][s] = "live"}
  BY <1>1
<1>4. /\ [s \in SessionIds |-> sessions[s].user]' = [s \in SessionIds |-> sessions[s].user]
      /\ [s \in SessionIds |-> lineage[s].from]' = [s \in SessionIds |-> lineage[s].from]
  BY <1>1 DEF Ends
<1> HIDE DEF ended
<1> QED  BY <1>2, <1>3, <1>4 DEF Session!End

\* A step that leaves the store alone.
LEMMA KeepsSessions ==
  ASSUME TypeInv, UNCHANGED <<sessions, lineage, now>>
  PROVE  Ends
BY DEF TypeInv, TypeOK, Ends, OnlyRevokes

\* Storing a session issues it, or the successor of one that is over.
LEMMA IssuesSession ==
  ASSUME TypeInv, RotationInv, NEW r \in Requests, CreateSession(r)
  PROVE  Session!Next
<1> DEFINE l == req[r]
<1>1. PICK s \in SessionIds :
        LET reply == RepoSessionCreate(s, l.user, HashRefresh(s), l.at + RefreshTtl)
        IN  /\ ~Stored(sessions[s])
            /\ reply.ret = "Ok"
            /\ sessions' = reply.tab
            /\ lineage' = [lineage EXCEPT
                             ![s] = [from |-> l.session, by |-> r,
                                     cred |-> l.hash, late |-> l.late,
                                     closing |-> l.closing]]
  BY DEF CreateSession
<1>2. now' = now
  BY DEF CreateSession
<1>3. sessions' = [sessions EXCEPT ![s] =
                     SessionRow(l.user, HashRefresh(s), l.at + RefreshTtl)]
  BY <1>1 DEF RepoSessionCreate, MemSessionCreate, PgSessionCreate, Reply
<1>4. /\ l.pc = "CreateSession" /\ l.user \in UserIds
      /\ l.op \in {"register", "login", "refresh"} /\ Hand(r, l, sessions)
  BY DEF TypeInv, LocalsOK, InStage, StageOps, KnowsUser, CreateSession, At,
         RotationInv
<1>5. /\ sessions'[s].user = l.user /\ Stored(sessions'[s])
      /\ lineage'[s].from = l.session /\ ~Stored(sessions[s])
  BY <1>1, <1>3, <1>4, NoneAssumption DEF SessionRow, Stored, TypeInv, TypeOK
<1>6. \A x \in SessionIds \ {s} : sessions'[x] = sessions[x] /\ lineage'[x] = lineage[x]
  BY <1>1, <1>3 DEF TypeInv, TypeOK
<1>7. SessionState(s) = "unissued" /\ SessionState(s)' \in {"live", "over"}
  BY <1>5 DEF SessionState
<1>8. \A x \in SessionIds \ {s} : SessionState(x)' = SessionState(x)
  BY <1>2, <1>6 DEF SessionState, Live
<1>9. Session!IssueTo(s, l.user, l.session)
  <2>1. [x \in SessionIds |-> SessionState(x)]' =
          [[x \in SessionIds |-> SessionState(x)] EXCEPT ![s] = SessionState(s)']
    BY <1>8
  <2>2. [x \in SessionIds |-> sessions[x].user]' =
          [[x \in SessionIds |-> sessions[x].user] EXCEPT ![s] = l.user]
    BY <1>5, <1>6
  <2>3. [x \in SessionIds |-> lineage[x].from]' =
          [[x \in SessionIds |-> lineage[x].from] EXCEPT ![s] = l.session]
    BY <1>5, <1>6
  <2> QED  BY <1>7, <2>1, <2>2, <2>3 DEF Session!IssueTo
<1>10. CASE l.op = "refresh"
  <2>1. /\ l.session \in SessionIds /\ Stored(sessions[l.session])
        /\ l.user = sessions[l.session].user /\ sessions[l.session].revoked
    BY <1>4, <1>10 DEF Hand
  <2>2. SessionState(l.session) = "over"
    BY <2>1 DEF SessionState, Live
  <2>3. Session!Succeed(s, l.session)
    BY <1>9, <2>1, <2>2 DEF Session!IssueTo, Session!Succeed
  <2> QED  BY <2>1, <2>3 DEF Session!Next
<1>11. CASE l.op \in {"register", "login"}
  <2>1. l.session = None
    BY <1>4, <1>11 DEF Hand
  <2> QED  BY <1>4, <1>9, <2>1 DEF Session!IssueTo, Session!Issue, Session!Next
<1> QED  BY <1>4, <1>10, <1>11

LEMMA SessionsStep ==
  ASSUME ~ClockSetBack, TypeInv, RotationInv, [Next]_vars
  PROVE  Session!Next
<1>0. now \in Nat
  BY DEF TypeInv, TypeOK
<1>1. ASSUME NEW r \in Requests, Call(r) PROVE Ends
  BY <1>1, CallBegins, KeepsSessions DEF Begin
<1>2. ASSUME NEW r \in Requests, UserStep(r) \/ Issue(r) \/ Sign(r) PROVE Ends
  BY <1>2, StepGoesOn, KeepsSessions
<1>3. ASSUME NEW r \in Requests, FindActive(r) \/ Drop(r) PROVE Ends
  BY <1>3, KeepsSessions DEF FindActive, Drop, stores, history
<1>4. ASSUME NEW r \in Requests, Revoke(r) \/ RevokeAll(r) \/ RevokeAllCommit(r)
      PROVE  Ends
  <2>1. sessions \in [SessionIds -> SessionRows]
    BY DEF TypeInv, TypeOK
  <2>2. OnlyRevokes(sessions)
    BY <2>1 DEF OnlyRevokes
  <2>3. OnlyRevokes(sessions')
    BY <1>4, <2>1, <2>2, RevokesOnly DEF Revoke, RevokeAll, RevokeAllCommit
  <2> QED  BY <1>0, <1>4, <2>3 DEF Revoke, RevokeAll, RevokeAllCommit, Ends
<1>5. ASSUME Tick \/ SetBack \/ UNCHANGED vars PROVE Ends
  <2>1. OnlyRevokes(sessions)
    BY DEF OnlyRevokes, TypeInv, TypeOK
  <2> QED  BY <1>0, <1>5, <2>1 DEF Tick, SetBack, vars, stores, history, Ends
<1>6. Ends => Session!Next
  BY EndsSessions DEF Session!Next
<1> QED
  BY <1>1, <1>2, <1>3, <1>4, <1>5, <1>6, IssuesSession DEF Next, SessionStep

LEMMA SessionsInit == Init => Session!Init
<1> SUFFICES ASSUME Init PROVE Session!Init
  OBVIOUS
<1>1. \A s \in SessionIds : /\ ~Stored(sessions[s]) /\ sessions[s].user = None
                            /\ lineage[s].from = None
  BY DEF Init, Stored, NoSession, NoLineage
<1> QED  BY <1>1 DEF Session!Init, SessionState

\* The service implements Sessions, whatever requests run beside each other,
\* fail or are dropped, on either repository: no step of any handler brings a
\* session back or gives it to another account, and refresh stores a
\* successor only of a session that is over and of the same account.  A clock
\* set back would bring an expired session back.
THEOREM SessionsImplemented ==
  ASSUME ~ClockSetBack
  PROVE  Spec => ImplementsSessions
<1>1. TypeInv /\ RotationInv /\ [Next]_vars => [Session!Next]_Session!vars
  BY SessionsStep
<1> QED
  BY <1>1, SessionsInit, InitType, TypeInvStep, RotationInit, RotationStep, PTL
  DEF Spec, ImplementsSessions, Session!Spec
=============================================================================
