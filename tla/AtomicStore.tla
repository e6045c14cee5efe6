----------------------------- MODULE AtomicStore -----------------------------
(***************************************************************************)
(* What a caller of PgUserRepo and of PgRoleRepo::upsert may rely on (the  *)
(* ports of src/repo/mod.rs) when calls overlap and connections break:     *)
(* between being asked and being answered a call takes effect at one       *)
(* instant, with the answer the repository of PostgresRepo gives in the    *)
(* table of that instant, or it has no effect and the answer is Internal.  *)
(* A connection lost at the wrong moment turns the answer of a call that   *)
(* took effect into Internal too.                                          *)
(*                                                                         *)
(* Calls are numbered in the order in which they are made; the number also *)
(* stands for the id Uuid::now_v7 draws in the call and for the password   *)
(* hash it is given.                                                       *)
(***************************************************************************)
EXTENDS PostgresRepo

CONSTANTS
    Calls,              \* the numbers of the calls that are ever made
    Accounts,           \* ids of users stored before the first of them
    Identities,         \* pairs <<username, email>> accounts are given
    RoleNames

VARIABLES
    users,              \* users and user_password, as committed
    roles,              \* roles, as committed
    call                \* what each call asked for and was answered

vars == <<users, roles, call>>

UserIds == Accounts \cup Calls

NoCall == [op |-> None, id |-> None, username |-> None, email |-> None,
           known |-> FALSE,     \* upsert: the role existed when it was called
           ans |-> None]

Pending(c) == call[c].op # None /\ call[c].ans = None

Named(role) == {g \in Calls : roles[g] = role}

-----------------------------------------------------------------------------

Ask(c, op, id, username, email) ==
    /\ call[c] = NoCall
    /\ \A d \in Calls : d < c => call[d] # NoCall
    /\ call' = [call EXCEPT ![c] = [op |-> op, id |-> id, username |-> username,
                                    email |-> email, ans |-> None,
                                    known |-> Named(username) # {}]]
    /\ UNCHANGED <<users, roles>>

Call(c) ==
    \/ \E who \in Identities : Ask(c, "create", c, who[1], who[2])
    \/ \E u \in {v \in UserIds : users[v] # NoUser} :
         \/ \E who \in Identities : Ask(c, "update", u, who[1], who[2])
         \/ Ask(c, "soft_delete", u, None, None)
    \/ \E name \in RoleNames : Ask(c, "upsert", c, name, None)

Answer(c, ans) == call' = [call EXCEPT ![c].ans = ans]

\* The call takes effect; its answer arrives, or the connection is lost.
TakesEffect(c, reply) ==
    /\ users' = reply.tab
    /\ Answer(c, reply.ret) \/ Answer(c, "Internal")
    /\ UNCHANGED roles

Create(c) ==
    /\ Pending(c) /\ call[c].op = "create"
    /\ TakesEffect(c, PgCreate(users, c, call[c].username, call[c].email, c))

Update(c) ==
    /\ Pending(c) /\ call[c].op = "update"
    /\ TakesEffect(c, PgUpdate(users, call[c].id, call[c].username, call[c].email))

SoftDelete(c) ==
    /\ Pending(c) /\ call[c].op = "soft_delete"
    /\ TakesEffect(c, PgSoftDelete(users, call[c].id))

Upsert(c) ==
    /\ Pending(c) /\ call[c].op = "upsert"
    /\ \E reply \in PgUpsert(roles, c, call[c].username) :
         /\ roles' = reply.tab
         /\ \/ call' = [call EXCEPT ![c].id = reply.ret, ![c].ans = "Ok"]
            \/ Answer(c, "Internal")
    /\ UNCHANGED users

\* An upsert that loses a race answers Conflict: the role, which did not
\* exist when it was called, does now.
LostUpsert(c) ==
    /\ Pending(c) /\ call[c].op = "upsert"
    /\ ~call[c].known /\ Named(call[c].username) # {}
    /\ Answer(c, "Conflict")
    /\ UNCHANGED <<users, roles>>

Refuse(c) ==
    /\ Pending(c)
    /\ Answer(c, "Internal")
    /\ UNCHANGED <<users, roles>>

-----------------------------------------------------------------------------

\* Any accounts that register has created.
StoredAccounts ==
    {t \in {[u \in UserIds |-> IF u \in Accounts THEN UserRow(who[u][1], who[u][2], u)
                                              ELSE NoUser] :
            who \in [Accounts -> Identities]} :
       UsernameAliveUidx(t) /\ EmailAliveUidx(t)}

Init ==
    /\ users \in StoredAccounts
    /\ roles = [g \in Calls |-> NoRole]
    /\ call = [c \in Calls |-> NoCall]

Next ==
    \E c \in Calls : Call(c) \/ Create(c) \/ Update(c) \/ SoftDelete(c)
                       \/ Upsert(c) \/ LostUpsert(c) \/ Refuse(c)

Spec == Init /\ [][Next]_vars
=============================================================================
