--------------------------- MODULE PgTransactions ---------------------------
(***************************************************************************)
(* PgUserRepo::create, update and soft_delete and PgRoleRepo::upsert       *)
(* (src/repo/postgres.rs) as overlapping transactions on a pool of         *)
(* connections.                                                            *)
(*                                                                         *)
(* A call waits for a connection, writes a row version that others cannot  *)
(* read, enters it into the partial unique indexes of migrations/0001 and  *)
(* 0002 in the order they were created, and commits.  PostgreSQL is        *)
(* modelled from what these statements rely on (READ COMMITTED): a writer  *)
(* waits for the row it wants and for an index entry somebody may still    *)
(* undo, looks again when that transaction is over, and one member of a    *)
(* cycle of waits is sacrificed.  update, soft_delete and the two halves   *)
(* of upsert are one statement each, which commits when it ends.           *)
(*                                                                         *)
(* What callers see of this is users, roles and call, the variables of     *)
(* AtomicStore.                                                            *)
(***************************************************************************)
EXTENDS PostgresRepo

CONSTANTS
    Calls, Accounts, Identities, RoleNames,     \* as in AtomicStore
    Ops,                \* the operations callers use
    PoolSize            \* max_connections of the PgPool

OpNames == {"create", "update", "soft_delete", "upsert"}

ASSUME CallsAssumption == Calls \subseteq Nat
ASSUME PoolAssumption == PoolSize \in Nat \ {0}
ASSUME OpsAssumption == Ops \subseteq OpNames
ASSUME NamesAssumption ==
    /\ None \notin Calls \cup Accounts \cup RoleNames
    /\ \A who \in Identities : who = <<who[1], who[2]>> /\ who[1] # None
    /\ None \notin OpNames \cup {"Ok", "Conflict", "NotFound", "Internal"}
    /\ Calls \cap Accounts = {}

VARIABLES
    users, roles, call,
    tx                  \* the connection and open transaction of each call

vars == <<users, roles, call, tx>>

Store == INSTANCE AtomicStore
           WITH users <- users, roles <- roles, call <- call

UserIds == Store!UserIds

-----------------------------------------------------------------------------
(* The statements of each operation, in order                              *)

CreateSteps == [Begin |-> "InsertUsername", InsertUsername |-> "InsertEmail",
                InsertEmail |-> "Credential", Credential |-> "Commit"]
UpdateSteps == [Begin |-> "LockRow", LockRow |-> "InsertUsername",
                InsertUsername |-> "InsertEmail", InsertEmail |-> "Commit"]
SoftDeleteSteps == [Begin |-> "LockRow", LockRow |-> "Commit"]
UpsertSteps == [Begin |-> "Select", Select |-> "BeginInsert",
                BeginInsert |-> "InsertRole", InsertRole |-> "Commit"]

StepsOf == [create |-> CreateSteps, update |-> UpdateSteps,
            soft_delete |-> SoftDeleteSteps, upsert |-> UpsertSteps]

\* The step whose end makes what the operation has written visible.
CommitsFirst == [create |-> "InsertEmail", update |-> "Commit",  \* mutant
                 soft_delete |-> "Commit"]
CommitsAt == [create |-> "Commit", update |-> "Commit",
              soft_delete |-> "Commit"]

Steps == {"Idle", "Begin", "LockRow", "InsertUsername", "InsertEmail",
          "Credential", "Commit", "Select", "BeginInsert", "InsertRole",
          "Rollback", "Return"}

\* row: the version written but not committed.  claims: the indexes it has
\* been entered into.
NoTx == [pc |-> "Idle", row |-> NoUser, claims |-> {}]

At(c, step) == tx[c].pc = step

Goto(c, step) == tx' = [tx EXCEPT ![c].pc = step]
Continue(c, step, row, claims) ==
    tx' = [tx EXCEPT ![c] = [pc |-> StepsOf[call[c].op][step],
                             row |-> row, claims |-> claims]]

\* The transaction is over: its versions, entries and connection are gone.
LeftOpen(c) == tx' = [tx EXCEPT ![c].pc = "Return"]             \* mutant
Close(c) == tx' = [tx EXCEPT ![c] = [NoTx EXCEPT !.pc = "Return"]]

Answer(c, ans) == call' = [call EXCEPT ![c].ans = ans]

-----------------------------------------------------------------------------
(* Waiting                                                                 *)

HoldsConnection(c) == tx[c].pc \notin {"Idle", "Begin", "BeginInsert", "Return"}

FreeConnection == Cardinality({c \in Calls : HoldsConnection(c)}) < PoolSize

\* c has written a version of a users row and not committed it
Writing(c) == tx[c].row # NoUser

\* those who have locked the row c wants
RowBlockers(c) == {d \in Calls \ {c} : Writing(d) /\ call[d].id = call[c].id}

\* those whose commit or rollback decides whether the entry c wants to make
\* in the index is a duplicate: they enter the same key, or replace the
\* version that holds it
IndexBlockers(c, index) ==
    {d \in Calls \ {c} :
       /\ Writing(d)
       /\ \/ index \in tx[d].claims /\ tx[d].row[index] = call[c][index]
          \/ /\ call[d].id # call[c].id
             /\ Alive(users[call[d].id])
             /\ users[call[d].id][index] = call[c][index]}

\* those who insert a role of the name c inserts
RoleBlockers(c) ==
    {d \in Calls \ {c} : /\ call[d].op = "upsert" /\ At(d, "Commit")
                         /\ call[d].username = call[c].username}

Blockers(c) ==
    CASE At(c, "LockRow") -> RowBlockers(c)
      [] At(c, "InsertUsername") -> IndexBlockers(c, "username")
      [] At(c, "InsertEmail") -> IF call[c].email = None THEN {}
                                 ELSE IndexBlockers(c, "email")
      [] At(c, "InsertRole") -> RoleBlockers(c)
      [] OTHER -> {}

\* c waits in a set of calls that all wait, and are waited for, in the set
Deadlocked(c) ==
    /\ Blockers(c) # {}
    /\ \E S \in SUBSET Calls :
       /\ c \in S
       /\ \A d \in S : Blockers(d) \cap S # {} /\ \E e \in S : d \in Blockers(e)

-----------------------------------------------------------------------------
(* Steps                                                                   *)

Call(c) ==
    /\ Store!Call(c)
    /\ call'[c].op \in Ops
    /\ Goto(c, "Begin")

Begin(c) ==
    /\ At(c, "Begin") \/ At(c, "BeginInsert")
    /\ FreeConnection
    /\ Goto(c, StepsOf[call[c].op][tx[c].pc])
    /\ UNCHANGED <<users, roles, call>>

\* what others read of users after a step of c
Visible(c, step, row) ==
    IF CommitsAt[call[c].op] = step THEN [users EXCEPT ![call[c].id] = row]
                                    ELSE users

MatchesAny(row) == row # NoUser                                 \* mutant
\* WHERE id = $ AND deleted_at IS NULL, looked at again after a wait
Matches(row) == Alive(row)

\* the version an update or soft_delete writes
NewVersion(l) ==
    IF l.op = "update"
    THEN [users[l.id] EXCEPT !.username = l.username, !.email = l.email]
    ELSE [users[l.id] EXCEPT !.status = "deleted"]

LockRow(c) ==
    /\ At(c, "LockRow")
    /\ Blockers(c) = {}
    /\ \/ /\ Matches(users[call[c].id])
          /\ Continue(c, "LockRow", NewVersion(call[c]), {})
          /\ UNCHANGED call
       \/ /\ ~Matches(users[call[c].id])
          /\ Answer(c, "NotFound") /\ Close(c)
    /\ UNCHANGED <<users, roles>>

Duplicate(c, index) ==
    \E v \in UserIds \ {call[c].id} :
       Alive(users[v]) /\ users[v][index] = call[c][index]

\* One entry into a unique index; a duplicate ends the transaction.
Insert(c, step, index, row) ==
    /\ At(c, step)
    /\ Blockers(c) = {}
    /\ \/ /\ call[c][index] = None \/ ~Duplicate(c, index)
          /\ Continue(c, step, row,
                      IF call[c][index] = None THEN tx[c].claims
                                               ELSE tx[c].claims \cup {index})
          /\ users' = Visible(c, step, row)
          /\ UNCHANGED call
       \/ /\ call[c][index] # None /\ Duplicate(c, index)
          /\ Answer(c, "Conflict") /\ Close(c)
          /\ UNCHANGED users
    /\ UNCHANGED roles

\* INSERT INTO users writes its version here; the credential is not in it.
InsertUsername(c) ==
    LET l == call[c]
    IN  Insert(c, "InsertUsername", "username",
               IF l.op = "create" THEN UserRow(l.username, l.email, None)
                                  ELSE tx[c].row)

InsertEmail(c) == Insert(c, "InsertEmail", "email", tx[c].row)

\* INSERT INTO user_password, in the same transaction
Credential(c) ==
    /\ At(c, "Credential")
    /\ LET row == [tx[c].row EXCEPT !.password_hash = c]
       IN  /\ Continue(c, "Credential", row, tx[c].claims)
           /\ users' = Visible(c, "Credential", row)
    /\ UNCHANGED <<roles, call>>

\* The answer may be lost with the connection that was to bring it.
Commit(c) ==
    /\ At(c, "Commit")
    /\ IF call[c].op = "upsert"
       THEN /\ roles' = [roles EXCEPT ![c] = call[c].username]
            /\ \/ call' = [call EXCEPT ![c].id = c, ![c].ans = "Ok"]
               \/ Answer(c, "Internal")
            /\ UNCHANGED users
       ELSE /\ users' = Visible(c, "Commit", tx[c].row)
            /\ Answer(c, "Ok") \/ Answer(c, "Internal")
            /\ UNCHANGED roles
    /\ Close(c)

\* upsert's SELECT; the connection goes back before the INSERT takes one.
Select(c) ==
    /\ At(c, "Select")
    /\ LET found == Store!Named(call[c].username)
       IN  \/ /\ found = {}
              /\ Goto(c, "BeginInsert")
              /\ UNCHANGED call
           \/ \E g \in found :
                /\ call' = [call EXCEPT ![c].id = g, ![c].ans = "Ok"]
                /\ Close(c)
    /\ UNCHANGED <<users, roles>>

InsertRole(c) ==
    /\ At(c, "InsertRole")
    /\ Blockers(c) = {}
    /\ \/ /\ Store!Named(call[c].username) = {}
          /\ Goto(c, "Commit")
          /\ UNCHANGED call
       \/ /\ Store!Named(call[c].username) # {}
          /\ Answer(c, "Conflict") /\ Close(c)
    /\ UNCHANGED <<users, roles>>

-----------------------------------------------------------------------------
(* Failures                                                                *)

\* The database sacrifices a member of a cycle of waits.
DeadlockVictim(c) ==
    /\ Deadlocked(c)
    /\ Answer(c, "Internal") /\ Close(c)
    /\ UNCHANGED <<users, roles>>

\* acquire_timeout
AcquireTimeout(c) ==
    /\ At(c, "Begin") \/ At(c, "BeginInsert")
    /\ Answer(c, "Internal") /\ Close(c)
    /\ UNCHANGED <<users, roles>>

\* The connection breaks or the database restarts: nothing of the
\* transaction remains.
ConnectionLost(c) ==
    /\ HoldsConnection(c) /\ ~At(c, "Rollback")
    /\ Answer(c, "Internal") /\ Close(c)
    /\ UNCHANGED <<users, roles>>

\* The caller's future is dropped between two statements of create: the
\* dropped Transaction queues a ROLLBACK, and until it is run the
\* connection and everything written stay where they are.
DropTransaction(c) ==
    /\ call[c].op = "create" /\ (At(c, "Credential") \/ At(c, "Commit"))
    /\ Answer(c, "Internal")
    /\ Goto(c, "Rollback")
    /\ UNCHANGED <<users, roles>>

Rollback(c) ==
    /\ At(c, "Rollback")
    /\ Close(c)
    /\ UNCHANGED <<users, roles, call>>

-----------------------------------------------------------------------------

Init ==
    /\ Store!Init
    /\ tx = [c \in Calls |-> NoTx]

\* What the pool and the database do unless something breaks.
Step(c) ==
    \/ Begin(c) \/ LockRow(c) \/ InsertUsername(c) \/ InsertEmail(c)
    \/ Credential(c) \/ Commit(c) \/ Select(c) \/ InsertRole(c)
    \/ Rollback(c) \/ DeadlockVictim(c)

Failure(c) == AcquireTimeout(c) \/ ConnectionLost(c) \/ DropTransaction(c)

Next == \E c \in Calls : Call(c) \/ Step(c) \/ Failure(c)

Fairness == WF_vars(\E c \in Calls : Step(c))

Spec == Init /\ [][Next]_vars
FairSpec == Spec /\ Fairness

-----------------------------------------------------------------------------
(* Properties                                                              *)

\* Every variable has its type, and a call without a transaction has no
\* uncommitted version.
TypeOK ==
    /\ DOMAIN users = UserIds
    /\ \A u \in UserIds :
         /\ users[u].status \in {"absent", "alive", "deleted"}
         /\ users[u].status # "absent" =>
              <<users[u].username, users[u].email>> \in Identities
    /\ roles \in [Calls -> RoleNames \cup {None}]
    /\ \A c \in Calls :
         /\ call[c].op \in OpNames \cup {None}
         /\ call[c].ans \in {None, "Ok", "Conflict", "NotFound", "Internal"}
         /\ tx[c].pc \in Steps
         /\ tx[c].claims \subseteq {"username", "email"}
         /\ tx[c].pc \in {"Idle", "Begin", "Return"} => ~Writing(c)

\* Overlapping transactions on a shared pool, connections that break and
\* futures that are dropped included, keep the promise of the ports: every
\* call takes effect at one instant, or not at all and answers Internal.
ImplementsStore == Store!Spec

\* No account becomes visible without its credential, whatever fails
\* between create's two INSERTs.
NoHalfAccount ==
    \A u \in UserIds : users[u] # NoUser => users[u].password_hash # None

\* Every call returns: no set of calls waits for each other, or for the
\* pool, for good, even if nothing ever breaks or times out.
EveryCallReturns ==
    <>[](\A c \in Calls : At(c, "Idle") \/ At(c, "Return"))
=============================================================================
