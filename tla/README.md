# idm in TLA+

`idm` (`src/`) is a Rust library for accounts and sessions: `AuthService`
answers calls (register, login, refresh, logout, change_password, ...) by
awaiting a handful of *ports* -- a user store, a session store, a role store, a
password hasher, a token signer, a clock. It keeps no state of its own and takes
no lock across two calls of a port, so everything that makes it correct has to
survive two requests interleaving between any two awaits, and a request that
stops at any of them. That is what this project models.

## 1. The system

### Components

| component | source | state it keeps | operations |
|---|---|---|---|
| `AuthService` | `src/src/service.rs` | none; a request's local variables | register, login, refresh, logout, logout_all, me, update_me, delete_me, change_password, authenticate_token |
| user store | `repo/memory.rs` 12-185, `repo/postgres.rs` 26-263 | users and their credential | create, find_by_identifier, find_by_id(s), update, soft_delete, update_password, password_hash |
| session store | `repo/memory.rs` 187-274, `repo/postgres.rs` 265-361 | sessions: owner, token hash, expiry, revoked | create, find_active, revoke, revoke_all |
| role store | `repo/memory.rs` 276-333, `repo/postgres.rs` 363-461 | roles and grants | upsert, grant, roles_for_user |
| schema | `migrations/*.up.sql` | unique indexes among rows that are not deleted, foreign keys | - |
| tokens | `token.rs` | none | sign, verify, generate_refresh, hash_refresh |
| passwords | `password.rs` | none | hash, verify (both on a blocking thread, awaited) |
| clock | `clock.rs` | the time | now |
| builder, inputs, errors | `service.rs` 296-380, `input.rs`, `error.rs` | none | construction |

### Interactions

A handler is a straight line of port calls; each `?` is an early return with no
undo. All requests share the stores. In memory, a repository method holds its
`Mutex` from first to last access and does not await, so it is atomic. In
Postgres a method is one statement under READ COMMITTED, or (create) one
transaction. The client side of the protocol is in the tokens: a refresh token
names one session, an access token is signed and never looked up again.

### What is hard, and what "correct" means

* **Overlap.** refresh is read, revoke, read, insert; login is read, a long
  hash, insert; change_password is read, hash, update, revoke_all. Correct:
  a refresh token is spent once; a password change ends what the old password
  opened; a deleted account gets no new session; logout's Ok is final.
* **Partial failure.** Any await may be the last one, by an error or because the
  caller's future is dropped. Correct: no prefix of refresh leaves two sessions
  for one token, no prefix of delete_me or register leaves identifiers clashing.
* **Two repositories, one contract.** `tests/idm_repo_conformance.rs` pins their
  parity on one sequence of calls. Correct: on all of them.
* **Uniqueness** depends on `normalize` reaching every path that writes or looks
  up an identifier, and on two different mechanisms (a scan under the mutex,
  partial unique indexes).
* **Boundaries of time.** A session at the second of its expiry, an instant read
  before the query that uses it.
* **Resources and transactions** in Postgres: waits on a unique index inside
  create, rows locked in two orders, the pool's limit, the check-then-insert of
  role upsert, a future dropped between BEGIN and COMMIT. Correct: every call
  takes effect at one instant or not at all, and no set of calls waits for ever.
* **Tokens nobody looks up.** An access token outlives what it was signed from.
  `clock.rs:1-2` offers an injected clock for deterministic expiry, but verify
  takes exp against the system's clock, with the library's 60 s of leeway: two
  clocks decide. Correct: a stale token, and one of a deleted account, stops being
  accepted after a bounded time, and its roles are those of its user.

Every hazard, at its line and with the properties that watch it, is in
`PROJECT.json`.

## 2. The modules

| module | models | extends |
|---|---|---|
| `Repo` | rows, tables, results | - |
| `MemoryRepo` | the in-memory repositories, one operator per method | `Repo` |
| `PostgresRepo` | the Postgres repositories: statements, indexes, foreign keys | `Repo` |
| `AuthService` | the service: every writing handler, any number of requests | both |
| `RepoParity` | both repositories in lockstep, call by call | both |
| `Sessions` | abstract: the life of a session | - |
| `AtomicStore` | abstract: what a caller of the Postgres user and role stores may rely on | `PostgresRepo` |
| `PgTransactions` | create, update, soft_delete and upsert statement by statement, over a pool | `PostgresRepo`; instantiates `AtomicStore` |
| `AccessTokens` | access tokens, grants and a second clock, composed with the service | `AuthService` |
| `MCAuthService`, `MCRepoParity`, `MCPgTransactions`, `MCAccessTokens` | constants and symmetry for TLC | the above |
| `AuthServiceProofs` | type invariant; what each kind of step may change | `AuthService` |
| `RotationProofs` | refresh rotation; `AuthService` implements `Sessions` | `AuthServiceProofs` |
| `LogoutProofs` | logout is final | `AuthServiceProofs` |
| `AccountProofs` | identifiers; deleted accounts | `AuthServiceProofs` |
| `CredentialProofs` | what change_password and delete_me close | `AuthServiceProofs` |
| `ParityProofs` | the repositories answer alike | `RepoParity` |
| `TokenProofs` | access tokens | `AccessTokens`, `AccountProofs` |
| `PgTransactionsProofs` | types; no account without its credential; `PgTransactions` implements `AtomicStore` | `PgTransactions` |

Repositories are pure operators from a table and arguments to the table they
leave and the answer they give (`Reply`), or to the set of rows they may return
where the code picks one arbitrarily. `AuthService` makes each of them one atomic
step of a request; the constant `Backend` says which set is plugged in.

### AuthService

*State.* `users` and `sessions` are the stores, `now` the clock, `held` the
refresh tokens clients were answered with, `req[r]` the local variables of the
request in slot `r` (which handler, where in it, its input, what it has read).

*Handlers are tables.* `Register`, `Login`, `Refresh`, ... give the order of the
port calls; the order is the code's, and swapping or dropping a step is the
commonest mutant here. The steps themselves are actions (`FindActive`, `Revoke`,
`CreateSession`, ...) shared by the handlers that make the same call. `Issue`,
`CreateSession` and `Sign` are `issue_session`, the tail that register, login and
refresh share.

*Choices worth knowing.*

* A refresh token is the name of its session and SHA-256 is injective: a token
  is found by its own hash only. The tokens a client presents are those some
  client was answered with, or one nobody issued (`None`).
* The user id of an authenticated call comes from an access token. It is answered
  together with a refresh token and outlives session and account, so any user
  that ever got one may call (`Authenticated`).
* `Drop` ends a request at an await, with no answer or with the error of a failed
  port. In Postgres every call can fail; in memory only where the code awaits the
  hasher's thread, computes an expiry (a TTL that leaves the calendar panics), or
  awaits a port that may refuse whatever the repository is (`CanFail`). A Postgres statement whose answer is lost after it committed is the
  step followed by `Drop`.
* Postgres's revoke_all is two steps: the rows it selects from its snapshot, and
  its commit. Sessions that commit between the two are missed, as under READ
  COMMITTED they are.
* Password hashes compare by password (`Phc`): a change to the same password
  writes an equal hash here and a differently salted one in the code. No property
  tells the two apart: they speak of the password a session goes back to.
* `SystemClock` is the wall clock. With `ClockSetBack` it may step back at any
  time (`SetBack`), so that an expired session is active again.
* me and authenticate_token change nothing and are not actions; `AccessTokens`
  states what they answer. Audit fields only shape answers and are left out.

*History variables*, read by no guard: `lineage` (which session, request and
credential a session was issued from, and whether that request overlapped a
revoke_all or read the account while a delete_me was closing it), `settled` (no change_password of the account has written its hash
without having revoked since), `closed` (tokens whose logout answered Ok), and in
`req` the fields `gone` (accounts already deleted when the request was called),
`late` and `closing`, which go into `lineage` and from there to a successor.

*Mutants.* Operators marked `\* mutant` are the wrong variants the properties are
tested against (a handler that forgets a revocation, an UPDATE without its
filter); no action uses them.

### RepoParity

Each action makes the same call on both repositories and keeps both answers. In
every state all reads are compared. Ids come from earlier calls, users may be
soft-deleted by then, as happens to a request whose account is deleted meanwhile.

### Sessions

`Sessions` says what the service promises about one session and nothing about
how: unissued, then issued -- live, or already over if its request was slow --
then over, for good; issued to one account by a credential check, or as the
successor of a session that *is over*, to the same account. `AuthService`
implements it (`ImplementsSessions`) under the refinement mapping

| `Sessions` | in `AuthService` |
|---|---|
| `state[s]` | unissued: no row; live: a row neither revoked nor expired at `now`; over: any other row |
| `owner[s]` | the row's user |
| `from[s]` | `lineage[s].from`, the session refresh issued it from |

so a refresh that stored its successor before revoking, a revoke that clears a
revocation, or a purge and reuse of rows would each be a step `Sessions` does not
allow.

### PgTransactions and AtomicStore

`PostgresRepo` takes a method to be one atomic statement or transaction.
`PgTransactions` asks whether that is so for the four methods that can wait,
clash or fail half-way.

*State.* `users` and `roles` as committed, `call[c]` what the c-th call asked for
and was answered, `tx[c]` its transaction: the step it is at (`pc`), the row
version it has written but not committed, the unique indexes that version has
been entered into.

*Steps.* `Begin` takes a connection from the pool. create writes its row and
enters it into the two partial indexes, writes the credential, commits; update
locks its row first; upsert is a SELECT and an INSERT on two connections.
The tables `CreateSteps`, `UpdateSteps`, ... give the order. `Commit` may lose its
answer with the connection.

*PostgreSQL itself is not in the repository*; it is modelled from what these
statements rely on and marked external in the map: a writer waits for the row it
wants and for an index entry somebody may still undo (`Blockers`), looks at the
row again when that transaction is over, and one member of a cycle of waits is
sacrificed (`DeadlockVictim`). Two updates that swap e-mails, or a create that
meets an update half-way, are such cycles.

*Failures.* A pool that gives no connection in time, a connection that breaks at
any statement (a restart of the database is that for every call), and a caller's
future dropped inside create: the dropped `Transaction` queues a ROLLBACK, so the
connection, the row and the index entries stay until `Rollback` runs. A dropped
future anywhere else is a call whose answer nobody reads.

`AtomicStore` is the same ports as a caller sees them: a pending call takes effect
in one step, with the answer `PostgresRepo`'s operator gives in the table of that
instant, or it changes nothing and is answered Internal; an Internal may also hide
a success. An upsert may be answered Conflict only if the role did not exist when
it was called and does now: the comment at `postgres.rs:382` accepts that race, and
this is its exact extent. The mapping is the identity on `users`, `roles`, `call`.

### AccessTokens

Composes `AuthService` with the tokens it signs: each action is one of
`AuthService`'s and what it adds, or a step of the environment (a grant, either
clock).

*State.* `token[s]`, the claims signed for session `s`; `grants`, the role
store; `sysnow`, the clock `verify` reads, at most `Skew` from `now`; `local`, the
roles a request has read for its claims. `deletedAt`, `asked` and `across` are
history.

`Accepted(s)` is authenticate_token for the token of `s`: signed, and
`sysnow <= exp + Leeway`. `MeAnswers(u)` is what me finds for the account. Signatures are
taken as sound: what was never signed is never accepted.

## 3. What the runs check

`Transactions` alone has a liveness property, `EveryCallReturns`, under weak
fairness of `\E c : Step(c)`: as long as the pool or the database can do
something, they do something. That is their own scheduling, which the code
takes for granted; nothing is assumed of failures, timeouts or calls, nor that any
particular call is served next. It is enough because calls are finitely many, so a
call can be overtaken only so often. The other properties are safety properties.

Deadlock is checked in every run but `Transactions`, which stops when its calls
have been made. Elsewhere a request can always take a step or be dropped, so no
handler waits for another.

| run | instance | properties | shows |
|---|---|---|---|
| `Rotation` | Postgres, 2 requests, 1 account, 3 sessions, 2 instants; register, login, refresh, logout | `SuccessorImpliesSpent`, `OneSuccessorPerRequest`, `LogoutSticks`, `ImplementsSessions` | what rotation keeps under every overlap and failure, and that sessions live the life `Sessions` gives them |
| `Credentials` | Postgres, 2 requests, 1 account, 2 sessions, 2 passwords; register, login, refresh, logout_all, change_password, delete_me | `OnlyOverlapSurvives`, `OnlyOverlapOutlives`, `NoSessionForDeleted`, `RevokeAllSweeps` | a session can outlive a completed password change, the deletion of its account, or a revoke_all, only by overlapping it; later calls open none |
| `Accounts` | memory, 2 requests, 2 accounts, 3 sessions, raw names " A", "b", an e-mail or none; register, refresh, update_me, delete_me | `UniqueIdentifiers`, `LoginFindsAccount`, `NoSessionForDeleted` | uniqueness up to normalize through clashes, renames and deletions; no account its owner cannot log in to, even when register failed after storing it; a session that outlived its account refreshes to nothing |
| `Serial` | Postgres, 1 request, every handler, 2 passwords, 3 sessions, a clock that may be set back | `TypeOK`, `SingleUse`, `DeleteClosesAll`, `ForcedRelogin`, `ReplacesVerified` | the promises of the comments hold when nothing overlaps, failures included |
| `Parity` | 2 users, 2 sessions, 2 role ids, a username that is an e-mail, all calls | `AnswersAgree`, `ReadsAgree`, `ListsAgree` | reads of one row always agree; answers too, with two exceptions; lists too, but for repeated ids |
| `Transactions` | 3 calls of create, update, soft_delete, upsert, 1 stored account, 2 names, 1 e-mail or none, a pool of 2 | `TypeOK`, `NoHalfAccount`, `ImplementsStore`, `EveryCallReturns` | overlapping, failing transactions are atomic calls, and each returns |
| `Tokens` | memory, 2 requests, 1 account, 2 sessions, 5 instants, lifetimes, leeway and skew 1; register, login, delete_me, grants | `DeletedRunsOut`, `RolesCurrent`, `AccessWithinSession` | how long an access token is accepted, and what it says |
| `DoubleRefresh` | memory, 2 requests | `SingleUse` **fails** | two refreshes of one token both succeed |
| `LateLogin` | memory, 2 requests | `ForcedRelogin` **fails** | a login in flight outlives the forced re-login |
| `UpdateOfDeleted` | as `Parity` | `UpdateParity` **fails** | update of a deleted account: Conflict or NotFound |
| `PasswordOfDeleted` | as `Parity` | `UpdatePasswordParity` **fails** | update_password of a deleted account: NotFound or Ok |
| `RepeatedIds` | as `Parity` | `ListsParity` **fails** | find_by_ids of a repeated id: two answers or one |

### The disagreements

* **Single use** (`service.rs:161`: "the old refresh token is single-use").
  find_active and revoke are two calls and revoke is Ok whether or not it changed
  the row. r1 and r2 both find the token's session active, both revoke, both
  issue: two live sessions from one token. What does hold under any overlap:
  the successors' predecessor is revoked, of the same account, and each request
  in flight makes at most one of them (`OneSuccessorPerRequest`).
* **Forced re-login** (`service.rs:225`: "revoke all sessions, forcing a new
  login"). A login verifies the old password, change_password runs to its Ok, the
  login stores its session. `OnlyOverlapSurvives` is the exact extent: only a
  session that descends from a request in flight during a revoke_all.
* **What delete_me and logout_all leave.** No text promises what they do under
  overlap, so these are not findings; the extent is proved. What a revoke_all
  leaves unrevoked goes back to a request in flight during a revoke_all of the
  account (`RevokeAllSweeps`): the successor of a session that a refresh was
  replacing, a login under way. delete_me has a second gap, since its soft_delete
  is a call of its own: a login that reads the account after the revoke_all and
  stores its session whenever it likes. `OnlyOverlapOutlives` says that these two
  are all; such a session is live until it expires, but refresh makes nothing of
  it (`NoSessionForDeleted`).
* **Contract of the ports** (`repo/mod.rs:111`, `repo/memory.rs:2`): on a
  soft-deleted user, the in-memory update looks for a conflict before it looks
  for the row, and Postgres's update_password does not look at `deleted_at`.
* **find_by_ids** (`repo/memory.rs:115`: "mirrors PG"; `tests/idm_repo_conformance.rs:35`
  claims parity for it). The in-memory store answers each place of the list, so a
  repeated id twice; `WHERE id IN` answers the row once. `ListsAgree` is the exact
  extent: the same users always, and one length unless the call asks twice for a
  user that is alive.

Two remarks were looked at and have no run. `repo/mod.rs:152` explains `except` of
revoke_all as "keep the current session on a password change". change_password
passes `None` (`service.rs:242`), as its own comment says it does (`service.rs:225`: all
sessions), and nothing in the crate passes anything else: the port offers what the
service does not use. Both repositories implement the exception alike (`ReadsAgree`).
`clock.rs:1` says that an injected clock makes the expiry of tokens and sessions
deterministic. Of sessions it does: find_active is given the instant the service
read. Of tokens it does not: `Hs256Tokens::verify` (`token.rs:97`) lets the library
compare exp with the system's clock. No run is needed to see it; what `AccessTokens`
says of tokens is therefore said in terms of the distance of the two clocks
(`Skew`), which nothing bounds when the clock is plugged in.
A change_password that fails between its two writes keeps the old sessions and the
new password. Nothing is promised of it; `ForcedRelogin` says that the next one
that completes ends those sessions too.

### Bounds, and why they are enough

* `Requests`: two slots are what it takes for any pair of handlers to overlap,
  and a slot is reused, so sequences are as long as ids allow. Three and more are
  covered by the proofs below for the properties that have one.
* `SessionIds`: three is a session, its successor and a rival successor (or the
  successor's successor); in `Accounts`, a session, the successor that outlives its
  account, and the one it must not get. `Credentials` needs an old session and a late one.
* `UserIds`: two in `Accounts` for a clash, a rename onto a taken name, and a name
  freed by a deletion and taken again; one where a second account could not
  interfere (sessions of different accounts share no row).
* `SpareSession`, `SpareUser`: a call that stores a row is made only while an id
  is left for it, so no request is stuck for want of an id that the code would
  simply draw.
* `MaxTime`/`RefreshTtl`: one tick takes a session from active to expired. Runs
  whose properties do not depend on expiry stop the clock at 0: an expired session
  is then one that was never presented. In `Serial` one step back is enough to
  bring an expired session to life again.
* `Transactions`: three calls on two connections are the least for a call that
  waits for the pool behind two that wait for each other; a cycle takes two, and two names with
  one e-mail make the two indexes clash in either order. Calls are numbered in the
  order they are made, which loses nothing: the number names the call.
* `Tokens`: with every duration 1, instants up to 4 reach the last one at which a
  token signed at 0 can be accepted (`AccessTtl + Leeway + Skew`), and one past it. Two requests
  let a delete_me run across a login; roles are granted at any point.
* `Parity`: two ids of each kind are two rows that can clash. The two usernames
  and the e-mail share the string "a@b", so one account's username can be another's
  e-mail and find_by_identifier has two rows to choose from. `MaxIds` bounds the
  list one find_by_ids asks for at three ids, so that one of two can repeat.
* Symmetry permutes requests, session ids, user ids, passwords and hashes, none of
  which the modules or the properties tell apart.

## 4. What is proved

TLAPS checks every theorem below for every value of the constants: every set of
requests, accounts, sessions, names and passwords, both backends, every set of
handlers in use; every set of calls and size of the pool; every lifetime, leeway
and skew. The assumptions are those the modules state on their constants. In
`AuthService`: `None` is no id, name, password or hash; `Normalize` maps names to
names and is idempotent (trim and to_lowercase are); the TTL is a natural number.
Two theorems suppose besides that the clock is not set back, as the table says;
the others of `AuthService` hold under either clock.
In `AccessTokens`: the access TTL, leeway and skew are natural numbers. In
`PgTransactions`: calls are numbered, the pool has a connection, `None` is no
name, answer or id of a call. In `RepoParity`: `None` is no id, hash or role name.

| theorem | states | inductive invariant |
|---|---|---|
| `TypeCorrect` | `TypeOK` | `TypeInv` |
| `SuccessorOverSpent` | `SuccessorImpliesSpent` | `RotationInv` |
| `AtMostOnePerRequest` | `OneSuccessorPerRequest` | `RotationInv` |
| `SerialSingleUse` | `SingleUse`, with one request slot | `RotationInv` |
| `LogoutIsFinal` | `LogoutSticks`, unless the clock is set back | `LogoutInv` |
| `IdentifiersUnique` | `UniqueIdentifiers` | `AccountInv` |
| `LoginReachesAccount` | `LoginFindsAccount` | `AccountInv` |
| `DeletedOpensNothing` | `NoSessionForDeleted` | `AccountInv` |
| `SessionsImplemented` | `ImplementsSessions`, unless the clock is set back | `RotationInv` |
| `OverlapAloneSurvives` | `OnlyOverlapSurvives` | `CredInv` |
| `SweepIsComplete` | `RevokeAllSweeps` | `CredInv` |
| `OverlapAloneOutlives` | `OnlyOverlapOutlives` | `DeletionInv` |
| `SerialRelogin` | `ForcedRelogin`, with one request slot | `CredInv`, `SerialInv` |
| `SerialDeletion` | `DeleteClosesAll`, with one request slot | `CredInv`, `SerialInv` |
| `SerialReplacement` | `ReplacesVerified`, with one request slot | `CredInv`, `SerialInv` |
| `DeletedRefused` | `DeletedRunsOut` | `TokensInv` |
| `RolesUpToDate` | `RolesCurrent` | `TokensInv` |
| `AccessEndsInTime` | `AccessWithinSession` | `TokensInv` |
| `AnswersAlike` | `AnswersAgree` | `ParityInv` |
| `ReadsAlike` | `ReadsAgree` | `ParityInv` |
| `ListsAlike` | `ListsAgree` | `ParityInv` |
| `PgTypeCorrect` | `TypeOK` of `PgTransactions` | `PgInv` |
| `NoAccountByHalves` | `NoHalfAccount` | `PgInv` |
| `TransactionsAreAtomic` | `ImplementsStore` | `PgInv` |

* `TypeInv` adds to `TypeOK` that a request is at a step of its own handler
  (`StageOps`), knows its account once it has read or was given it, and signs
  only for a session it stored; and that clients hold tokens of stored sessions.
  Without it `sessions[req[r].session]` need not be a row at all. `CallBegins`
  and `StepGoesOn` then say, once for all handlers, what a call hands its handler
  and what a step may change: the modules that follow reuse them.
* `RotationInv` follows a refresh by hand (`Hand`): between finding a session and
  storing its successor it holds a stored session of its own account, revoked once
  `Revoke` is past, to which its slot has given no successor yet. Neither property
  is inductive without that. It is also why one slot spends a token once: before it
  can find the same token again, its own earlier refresh has revoked it.
* `SessionsImplemented` needs the same: storing a session is `Succeed` because the
  session in hand is over, and every other step on sessions is `End` with the
  sessions it revokes or lets expire, or a stutter.
* `LogoutInv` rests on a session that is over staying over (rows are only
  revoked, expiries are fixed, the clock goes forward), on a token being found by
  its own row only, and on a request's instant not being ahead of the clock: a
  token that find_active does not find is over *now*, not just then.
* `AccountInv` keeps the stored identifiers normal and distinct and every account
  with a credential, every pending write normal and of a real hash, and the account of a handler about to open a session outside the
  accounts deleted before its call. Deleted accounts stay deleted, and create
  draws an id that was never used. `LoginReachesAccount` needs all of the first part:
  login normalizes what it is given, so an identifier stored raw by any path, or a
  row without its credential (which Postgres joins), would lock the owner out.
* `CredInv` says which sessions a revoke_all will still meet. A credential read
  for an account, by a session or by a request that may still open one, is the
  account's once the account is settled, or whoever read it is marked `late`
  (`CredentialsFresh`). While the UPDATE of a revoke_all is between its snapshot
  and its commit, every request that opens a session for the account is marked,
  and the sessions outside the rows it selected are the marked ones
  (`RevokesCover`): at the commit nothing old is left without a mark. Sessions and
  requests speak of accounts that exist (`AccountsExist`), so an account that
  register creates starts with neither.
* `SweepIsComplete` reads the same off `CredInv` at the step with which a revoke_all
  takes effect (`SweepLeaves`), whichever handler it belongs to. It is an action
  property: the next login ends the state it speaks of.
* `DeletionInv` starts earlier than `OnlyOverlapOutlives`: from the moment delete_me
  has revoked (`Closing`), not only once the account is deleted (`Over` is either),
  everyone who still opens a session for the account, and every session of it that
  is not revoked, is marked `late` or `closing`. It takes over from `CredInv` where
  the revoke_all of a delete_me takes effect: by `SweepLeaves` what it leaves is
  marked. From there a login that reads the account is marked by `closing`, a
  refresh inherits the mark of its session, and a delete_me that fails between its
  two calls only ends the obligation. A second delete_me beside it
  adds nothing: the account is `Over` already.
* `SerialInv` is what holds of the one request when nothing overlaps it (`Alone`):
  nothing is marked, unrevoked sessions belong to accounts that are alive, and the
  request has made sure of what it relies on at its step (`Ready`): the account it
  opens a session for is alive, the one it deletes has no session left (from
  `RevokesCover`), the hash it replaces is the account's and verified. Two
  requests break each of them: a login in flight stores its session after the
  revoke_all of change_password (run `LateLogin`) or of delete_me, and two
  change_password calls both verify before either writes.
* `TokensInv` is `TypeInv`, `AccountInv` and what is known of each token and each
  request that will sign one: a token's exp and its session's expiry count from
  one instant, that instant has passed, the roles copied lie between those granted
  at the call and those granted now, and the account was alive when the token was signed
  or the token is marked `across`. `AccountInv` is what excludes the third case, an
  account deleted before the call.
* `ParityInv` says how far the two sides may differ: in nothing but the credential
  of a deleted user (`Twins`). Sessions and roles are the same tables, because
  writing `revoked` again changes nothing and a role name belongs to one role. The
  scan of the in-memory store finds what the partial unique indexes refuse
  (`ScanIsIndex`), so the same creates and updates are conflicts. `ListsAlike` needs
  of it only that the two sides agree on who is alive (`MemAnswers` says what a
  list answers); its lists are of any length up to `MaxIds`.
* `PgInv` says what every transaction has done by the step it is at (`Sound`) and
  that two of them do not clash (`Apart`): no two hold a version of one row, or an
  entry of one key in one index, and no entry is a key that a visible row of
  another account has. So at its commit a
  transaction sees a table in which its answer is what `PostgresRepo` gives, which
  is the step of `AtomicStore`; an upsert that inserts finds the name still free
  because whoever took it would have been waited for.

Model-checked only: `EveryCallReturns`, which is liveness. Liveness under fairness,
ENABLED, and induction over data are out of the provers' reach; nothing here uses a
recursive operator. Every other property of a passing run is a theorem. The clock
that may be set back is model-checked in `Serial`; the theorems allow it wherever
they do not say otherwise.

To repeat the checks, in this directory: `tlc -config Rotation.cfg MCAuthService`
(and so on: the module of each run is in `PROJECT.json`), `tlapm AuthServiceProofs.tla`
and the seven other proof modules. The largest run has about two million states; none
takes more than about two minutes on two workers.

## 5. Not modelled, and the plan

Not modelled: construction and wiring; the migrations as programs (the indexes
and keys they create are modelled), audit columns and triggers; display names and
`email_verified` (written FALSE everywhere); formats of tokens and hashes, and the
signature, which is taken as sound; a clock set back while access tokens are
verified. A TTL so large that adding it to the clock panics is a request that ends at
`CreateSession`, which `Drop` models. The status of each component is in `PROJECT.json`.

Done: the two repositories and their parity, the service, its composition with
access tokens, the Postgres transactions, two abstract specifications with their
refinements, and the proofs above. Left: the session repository's revoke_all
inside `PgTransactions`, so that its two-step model in `AuthService` becomes a
refinement too.
