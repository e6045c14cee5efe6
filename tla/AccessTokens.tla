---------------------------- MODULE AccessTokens ----------------------------
(***************************************************************************)
(* Access tokens: Hs256Tokens (src/token.rs), issue_session's claims,      *)
(* authenticate_token and me (src/service.rs), and the role store whose    *)
(* grants the claims copy, on top of AuthService.                          *)
(*                                                                         *)
(* A token is signed once per session and names it (jti).  Nothing looks   *)
(* it up again: verify compares its exp, taken from the Clock the service  *)
(* was built with (now), with the clock of the process that verifies       *)
(* (sysnow).  The two are apart by at most Skew: signer and verifier may   *)
(* be different processes, and a test may plug in a Clock of its own.      *)
(*                                                                         *)
(* Every action is one of AuthService's with what it adds to these         *)
(* variables, or a step of the environment.                                *)
(***************************************************************************)
EXTENDS AuthService

CONSTANTS
    AccessTtl,          \* access_ttl_secs
    Leeway,             \* jsonwebtoken's Validation::leeway
    Skew,               \* how far sysnow may be from now
    Roles               \* role ids; each names its role

ASSUME TokenTimesAssumption == AccessTtl \in Nat /\ Leeway \in Nat /\ Skew \in Nat

VARIABLES
    sysnow,             \* the clock verify reads
    grants,             \* user_roles
    token,              \* the access token signed for each session
    local,              \* what a request adds to req for its claims
    deletedAt           \* history: when, by now, an account was deleted

tokenVars == <<sysnow, grants, token, local, deletedAt>>
allVars == <<vars, tokenVars>>

NoToken == [user |-> None, roles |-> {}, issued_at |-> 0, exp |-> 0,
            asked |-> {},       \* history: grants when the request was called
            across |-> FALSE]   \* history: the account was deleted meanwhile

\* roles: what roles_for_user answered; asked: history, as in a token
Blank == [roles |-> {}, asked |-> {}]

RoleNames == [g \in Roles |-> g]

\* roles_for_user; both repositories answer alike (RepoParity)
RolesForUser(u) == MemRolesForUser(RoleNames, grants, u)

RolesOfAnyone(r) == {RoleNames[g] : g \in Roles}                \* mutant
RolesRead(r) == RolesForUser(req[r].user)

-----------------------------------------------------------------------------
(* Verifying                                                               *)

\* Validation::new(HS256): exp is checked, with leeway.
NotExpired(exp) == sysnow <= exp + Leeway

\* authenticate_token: whether the token of session s is accepted
Accepted(s) == token[s].user # None /\ NotExpired(token[s].exp)

\* me: what find_by_id answers for the user an accepted token names
MeAnswers(u) == RepoFindById(u)

-----------------------------------------------------------------------------
(* The steps of AuthService                                                *)

\* A request carries l until it answers.
Carry(r, l) == local' = [local EXCEPT ![r] = IF req'[r] = Idle THEN Blank ELSE l]

TokenCall(r) ==
    /\ Call(r)
    /\ Carry(r, [Blank EXCEPT !.asked = grants])
    /\ UNCHANGED <<sysnow, grants, token, deletedAt>>

\* The clock is read, then the roles; nothing is awaited before the roles
\* are asked for.
TokenIssue(r) ==
    /\ Issue(r)
    /\ Carry(r, [local[r] EXCEPT !.roles = RolesRead(r)])
    /\ UNCHANGED <<sysnow, grants, token, deletedAt>>

ExpWhenSigned(r) == now + AccessTtl                             \* mutant
\* iat and exp come from the reading of the clock the session expires by.
Exp(r) == req[r].at + AccessTtl

TokenSign(r) ==
    /\ Sign(r)
    /\ LET u == req[r].user
       IN  token' = [token EXCEPT ![req[r].session] =
                       [user |-> u, roles |-> local[r].roles,
                        issued_at |-> req[r].at, exp |-> Exp(r),
                        asked |-> local[r].asked,
                        across |-> u \in Deleted \ req[r].gone]]
    /\ Carry(r, local[r])
    /\ UNCHANGED <<sysnow, grants, deletedAt>>

TokenSoftDelete(r) ==
    /\ SoftDelete(r)
    /\ deletedAt' = [u \in UserIds |->
                       IF u \notin Deleted /\ users'[u].status = "deleted"
                       THEN now ELSE deletedAt[u]]
    /\ Carry(r, local[r])
    /\ UNCHANGED <<sysnow, grants, token>>

\* The other steps add nothing.
TokenStep(r) ==
    /\ \/ Create(r) \/ FindByIdentifier(r) \/ PasswordHash(r) \/ Verify(r)
       \/ FindById(r) \/ Update(r) \/ UpdatePassword(r)
       \/ FindActive(r) \/ Revoke(r) \/ RevokeAll(r) \/ RevokeAllCommit(r)
       \/ CreateSession(r) \/ Drop(r)
    /\ Carry(r, local[r])
    /\ UNCHANGED <<sysnow, grants, token, deletedAt>>

-----------------------------------------------------------------------------
(* The environment                                                         *)

\* RoleRepo::grant, from outside the service; nothing takes a role away.
Grant ==
    \E u \in UserIds, g \in Roles :
        /\ users[u] # NoUser
        /\ grants' = MemGrant(grants, u, g).tab
        /\ UNCHANGED <<vars, sysnow, token, local, deletedAt>>

\* Neither clock is set back here.
TokenTick ==
    /\ Tick
    /\ now' <= sysnow + Skew
    /\ UNCHANGED tokenVars

SysTick ==
    /\ sysnow < MaxTime /\ sysnow + 1 <= now + Skew
    /\ sysnow' = sysnow + 1
    /\ UNCHANGED <<vars, grants, token, local, deletedAt>>

TokenInit ==
    /\ Init
    /\ sysnow = 0
    /\ grants = {}
    /\ token = [s \in SessionIds |-> NoToken]
    /\ local = [r \in Requests |-> Blank]
    /\ deletedAt = [u \in UserIds |-> 0]

TokenNext ==
    \/ \E r \in Requests : TokenCall(r) \/ TokenIssue(r) \/ TokenSign(r)
                             \/ TokenSoftDelete(r) \/ TokenStep(r)
    \/ Grant \/ TokenTick \/ SysTick

TokenSpec == TokenInit /\ [][TokenNext]_allVars

-----------------------------------------------------------------------------
(* Properties                                                              *)

\* An accepted token does not keep a deleted account open for long: once me
\* answers NotFound, tokens are refused AccessTtl + Leeway after the
\* deletion, but for those of requests that were in flight across it.
DeletedRunsOut ==
    \A s \in SessionIds :
        Accepted(s) /\ ~MeAnswers(token[s].user) =>
          \/ sysnow <= deletedAt[token[s].user] + AccessTtl + Leeway
          \/ token[s].across

\* The roles of a token: at least those granted before the request was
\* called, and none the user was not granted.
RolesCurrent ==
    \A s \in SessionIds :
        LET t == token[s]
        IN  t.user # None =>
              /\ MemRolesForUser(RoleNames, t.asked, t.user) \subseteq t.roles
              /\ t.roles \subseteq RolesForUser(t.user)

\* However long the steps of a request take, the access token is tied to the
\* life of its session: it is refused once AccessTtl, the leeway and the
\* skew have passed since the instant the session's expiry counts from.
AccessWithinSession ==
    \A s \in SessionIds :
        Accepted(s) =>
          now <= (sessions[s].expires_at - RefreshTtl) + AccessTtl + Leeway + Skew
=============================================================================
