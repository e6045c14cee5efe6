------------------------ MODULE PgTransactionsProofs ------------------------
(***************************************************************************)
(* Overlapping Postgres transactions implement AtomicStore, for every      *)
(* number of calls, accounts, names and connections.                       *)
(***************************************************************************)
EXTENDS PgTransactions, TLAPS

-----------------------------------------------------------------------------
(* The inductive invariant                                                 *)

Keys == {who[1] : who \in Identities} \cup {who[2] : who \in Identities}
          \cup RoleNames \cup {None}
Rows == [status: {"alive", "deleted"}, username: Keys, email: Keys,
         password_hash: UserIds \cup {None}]
Asked == [op: OpNames \cup {None}, id: UserIds \cup {None}, username: Keys,
          email: Keys, known: BOOLEAN,
          ans: {None, "Ok", "Conflict", "NotFound", "Internal"}]
Transactions == [pc: Steps, row: Rows \cup {NoUser},
                 claims: SUBSET {"username", "email"}]

Typed ==
    /\ users \in [UserIds -> Rows \cup {NoUser}]
    /\ roles \in [Calls -> RoleNames \cup {None}]
    /\ call \in [Calls -> Asked]
    /\ tx \in [Calls -> Transactions]

\* the operations each step belongs to
StageOps == [Begin |-> OpNames, LockRow |-> {"update", "soft_delete"},
             InsertUsername |-> {"create", "update"},
             InsertEmail |-> {"create", "update"},
             Credential |-> {"create"}, Commit |-> OpNames,
             Select |-> {"upsert"}, BeginInsert |-> {"upsert"},
             InsertRole |-> {"upsert"}, Rollback |-> {"create"}]

Renames(c) == call[c].op \in {"create", "update"}

\* A call is where its operation can be, and unanswered but for Rollback.
Staged(c) ==
    /\ At(c, "Idle") <=> call[c].op = None
    /\ tx[c].pc \notin {"Idle", "Return"} => call[c].op \in StageOps[tx[c].pc]
    /\ tx[c].pc \notin {"Idle", "Rollback", "Return"} => call[c].ans = None
    /\ Renames(c) => <<call[c].username, call[c].email>> \in Identities
    /\ call[c].op = "create" => call[c].id = c
    /\ call[c].op \in {"update", "soft_delete"} =>
         call[c].id \in UserIds /\ users[call[c].id] # NoUser
    /\ call[c].op = "upsert" => call[c].username \in RoleNames
    /\ ~At(c, "Return") => users[c] = NoUser /\ roles[c] = NoRole

\* What it has written: the row create stores, or a new version of a
\* committed row that is still as it was.
Written(c) ==
    LET l == call[c]
        row == tx[c].row
    IN  /\ Writing(c) =>
             \/ /\ l.op = "create"
                /\ \/ row = UserRow(l.username, l.email, None) /\ ~At(c, "Commit")
                   \/ row = UserRow(l.username, l.email, c)
             \/ /\ l.op \in {"update", "soft_delete"}
                /\ Alive(users[l.id])
                /\ row = NewVersion(l)
        /\ At(c, "Commit") /\ l.op # "upsert" => Writing(c)
        /\ tx[c].pc \in {"InsertEmail", "Credential"} => Writing(c)
        /\ At(c, "InsertUsername") => (Writing(c) <=> l.op = "update")
        /\ Writing(c) => tx[c].pc \in {"InsertUsername", "InsertEmail",
                                       "Credential", "Commit", "Rollback"}

\* The index entries it has made, each of a key no other alive row has.
Claimed(c) ==
    LET l == call[c]
        claims == tx[c].claims
    IN  /\ claims # {} => Writing(c) /\ Renames(c)
        /\ "email" \in claims => l.email # None
        /\ tx[c].pc \in {"InsertEmail", "Credential", "Commit"} /\ Renames(c) =>
             "username" \in claims
        /\ tx[c].pc \in {"Credential", "Commit"} /\ Renames(c) =>
             l.email = None \/ "email" \in claims
        /\ \A index \in claims : ~Duplicate(c, index)

\* upsert inserts only a role that nobody has, and that did not exist when
\* it was called.
Inserting(c) ==
    call[c].op = "upsert" =>
      /\ call[c].known => Store!Named(call[c].username) # {}
      /\ tx[c].pc \in {"BeginInsert", "InsertRole", "Commit"} => ~call[c].known
      /\ At(c, "Commit") => Store!Named(call[c].username) = {}

\* Two transactions write different rows, under different keys.
Apart(c, d) ==
    /\ Writing(c) /\ Writing(d) => call[c].id # call[d].id
    /\ \A index \in tx[c].claims \cap tx[d].claims : call[c][index] # call[d][index]
    /\ /\ At(c, "Commit") /\ call[c].op = "upsert"
       /\ At(d, "Commit") /\ call[d].op = "upsert"
       => call[c].username # call[d].username

Sound(c) == Staged(c) /\ Written(c) /\ Claimed(c) /\ Inserting(c)

\* A stored row has a credential and is named as somebody asked.
StoredRows ==
    \A u \in UserIds :
      users[u] # NoUser => /\ users[u].password_hash # None
                           /\ <<users[u].username, users[u].email>> \in Identities

PgInv ==
    /\ Typed
    /\ UsernameAliveUidx(users) /\ EmailAliveUidx(users)
    /\ StoredRows
    /\ \A c \in Calls : Sound(c)
    /\ \A c, d \in Calls : c # d => Apart(c, d)

-----------------------------------------------------------------------------
(* Steps that leave the tables alone                                       *)

LEMMA ApartBothWays ==
  ASSUME NEW c, NEW d, Apart(c, d)
  PROVE  Apart(d, c)
BY DEF Apart

\* What the invariant says of a call depends on that call and the tables.
LEMMA OwnStep ==
  ASSUME PgInv, NEW c \in Calls, UNCHANGED <<users, roles>>,
         NEW l \in Asked, NEW t \in Transactions,
         call' = [call EXCEPT ![c] = l], tx' = [tx EXCEPT ![c] = t],
         Sound(c)', \A d \in Calls \ {c} : Apart(c, d)'
  PROVE  PgInv'
<1>1. \A d \in Calls \ {c} : call'[d] = call[d] /\ tx'[d] = tx[d]
  BY DEF PgInv, Typed
<1>2. Typed'
  BY DEF PgInv, Typed
<1>3. (UsernameAliveUidx(users) /\ EmailAliveUidx(users) /\ StoredRows)'
  BY DEF PgInv, UsernameAliveUidx, EmailAliveUidx, StoredRows
<1>4. ASSUME NEW d \in Calls \ {c}
      PROVE  Sound(d)'
  <2>1. Sound(d)
    BY DEF PgInv
  <2>2. Staged(d)'
    BY <1>1, <2>1 DEF Sound, Staged, At, Renames
  <2>3. Written(d)'
    BY <1>1, <2>1 DEF Sound, Written, At, Writing, NewVersion
  <2>4. Claimed(d)'
    BY <1>1, <2>1 DEF Sound, Claimed, Writing, Renames, Duplicate
  <2>5. Inserting(d)'
    BY <1>1, <2>1 DEF Sound, Inserting, At, Store!Named
  <2> QED  BY <2>2, <2>3, <2>4, <2>5 DEF Sound
<1>5. ASSUME NEW d \in Calls, NEW e \in Calls, d # e
      PROVE  Apart(d, e)'
  <2>1. CASE d # c /\ e # c
    <3>1. Apart(d, e)
      BY <1>5 DEF PgInv
    <3> QED  BY <1>1, <2>1, <3>1 DEF Apart, Writing, At
  <2>2. CASE d = c
    BY <1>5, <2>2
  <2>3. CASE e = c
    <3>1. Apart(e, d)'
      BY <1>5, <2>3
    <3> QED  BY <3>1 DEF Apart
  <2> QED  BY <2>1, <2>2, <2>3
<1> QED  BY <1>2, <1>3, <1>4, <1>5 DEF PgInv

Returned == [NoTx EXCEPT !.pc = "Return"]

\* The request of a call as it was, and maybe an answer.
SameRequest(c, l) ==
    /\ l \in Asked /\ l.op = call[c].op /\ l.known = call[c].known
    /\ l.username = call[c].username /\ l.email = call[c].email
    /\ l.id = call[c].id \/ l.op = "upsert"

\* A call that has returned disturbs nobody.
LEMMA ReturnedSound ==
  ASSUME PgInv, NEW c \in Calls, NEW l, SameRequest(c, l), ~At(c, "Idle"),
         call'[c] = l, tx'[c] = Returned,
         call[c].op \in {"update", "soft_delete"} => users'[call[c].id] # NoUser,
         call[c].op = "upsert" /\ call[c].known =>
           \E g \in Calls : roles'[g] = call[c].username
  PROVE  Sound(c)' /\ \A d \in Calls \ {c} : Apart(c, d)'
<1>1. /\ Returned.pc = "Return" /\ Returned.row = NoUser /\ Returned.claims = {}
  BY DEF Returned, NoTx
<1>2. Sound(c)
  BY DEF PgInv
<1>3. Staged(c)'
  BY <1>1, <1>2, NamesAssumption DEF SameRequest, Sound, Staged, At, Renames, OpNames
<1>4. Written(c)'
  BY <1>1 DEF Written, At, Writing
<1>5. Claimed(c)'
  BY <1>1 DEF Claimed
<1>6. Inserting(c)'
  BY <1>1, <1>2 DEF SameRequest, Inserting, At, Store!Named
<1>7. \A d \in Calls \ {c} : Apart(c, d)'
  BY <1>1 DEF Apart, Writing, At
<1> QED  BY <1>3, <1>4, <1>5, <1>6, <1>7 DEF Sound

LEMMA CloseReturns ==
  ASSUME PgInv, NEW c \in Calls, Close(c)
  PROVE  /\ Returned \in Transactions /\ tx' = [tx EXCEPT ![c] = Returned]
         /\ tx'[c] = Returned
BY DEF Close, Returned, NoTx, Transactions, Steps, PgInv, Typed

\* A call that ends without effect.
LEMMA Closes ==
  ASSUME PgInv, NEW c \in Calls, UNCHANGED <<users, roles>>,
         NEW l, SameRequest(c, l), call' = [call EXCEPT ![c] = l],
         ~At(c, "Idle"), Close(c)
  PROVE  PgInv'
<1>1. call'[c] = l /\ l \in Asked
  BY DEF PgInv, Typed, SameRequest
<1>2. Sound(c)
  BY DEF PgInv
<1>3. /\ call[c].op \in {"update", "soft_delete"} => users'[call[c].id] # NoUser
      /\ call[c].op = "upsert" /\ call[c].known =>
           \E g \in Calls : roles'[g] = call[c].username
  BY <1>2 DEF Sound, Staged, Inserting, Store!Named
<1> QED  BY <1>1, <1>3, CloseReturns, ReturnedSound, OwnStep

\* Internal is answered and the transaction closed.
LEMMA Fails ==
  ASSUME PgInv, NEW c \in Calls, UNCHANGED <<users, roles>>,
         NEW ans \in {"Ok", "Conflict", "NotFound", "Internal"},
         Answer(c, ans), ~At(c, "Idle"), Close(c)
  PROVE  PgInv'
<1> DEFINE l == [call[c] EXCEPT !.ans = ans]
<1>1. call[c] \in Asked
  BY DEF PgInv, Typed
<1>2. SameRequest(c, l)
  BY <1>1 DEF Asked, SameRequest
<1>3. call' = [call EXCEPT ![c] = l]
  BY DEF Answer
<1> HIDE DEF l
<1> QED  BY <1>2, <1>3, Closes

\* A step that changes nothing but its own transaction.
LEMMA GoesOn ==
  ASSUME PgInv, NEW c \in Calls, UNCHANGED <<users, roles, call>>,
         NEW t \in Transactions, tx' = [tx EXCEPT ![c] = t],
         Sound(c)', \A d \in Calls \ {c} : Apart(c, d)'
  PROVE  PgInv'
<1>1. call[c] \in Asked /\ call' = [call EXCEPT ![c] = call[c]]
  BY DEF PgInv, Typed
<1> QED  BY <1>1, OwnStep

\* Moving on with neither row nor entries disturbs nobody.
LEMMA Empty ==
  ASSUME PgInv, NEW c \in Calls, ~Writing(c)
  PROVE  tx[c].row = NoUser /\ tx[c].claims = {}
BY DEF PgInv, Sound, Claimed, Writing

LEMMA CallInv ==
  ASSUME PgInv, NEW c \in Calls, Call(c)
  PROVE  PgInv'
<1>1. PICK op \in OpNames, id \in UserIds, name \in Keys, email \in Keys :
        /\ Store!Ask(c, op, id, name, email)
        /\ op \in {"create", "update"} => <<name, email>> \in Identities
        /\ op = "create" => id = c
        /\ op \in {"update", "soft_delete"} => users[id] # NoUser
        /\ op = "upsert" => name \in RoleNames
  <2>1. c \in UserIds /\ None \in Keys /\ RoleNames \subseteq Keys
        /\ \A who \in Identities : who[1] \in Keys /\ who[2] \in Keys
                                  /\ <<who[1], who[2]>> = who
    BY NamesAssumption DEF UserIds, Store!UserIds, Keys
  <2>2. CASE \E who \in Identities : Store!Ask(c, "create", c, who[1], who[2])
    BY <2>1, <2>2 DEF OpNames
  <2>3. CASE \E u \in {v \in UserIds : users[v] # NoUser} :
               \E who \in Identities : Store!Ask(c, "update", u, who[1], who[2])
    BY <2>1, <2>3 DEF OpNames
  <2>4. CASE \E u \in {v \in UserIds : users[v] # NoUser} :
               Store!Ask(c, "soft_delete", u, None, None)
    BY <2>1, <2>4 DEF OpNames
  <2>5. CASE \E name \in RoleNames : Store!Ask(c, "upsert", c, name, None)
    BY <2>1, <2>5 DEF OpNames
  <2> QED  BY <2>2, <2>3, <2>4, <2>5
       DEF Call, Store!Call, UserIds, Store!UserIds, NoUser, Store!NoUser
<1> DEFINE l == [op |-> op, id |-> id, username |-> name, email |-> email,
                 ans |-> None, known |-> Store!Named(name) # {}]
           t == [tx[c] EXCEPT !.pc = "Begin"]
<1>2. /\ call[c] = Store!NoCall /\ call' = [call EXCEPT ![c] = l]
      /\ UNCHANGED <<users, roles>>
  BY <1>1 DEF Store!Ask
<1>3. tx' = [tx EXCEPT ![c] = t]
  BY DEF Call, Goto
<1>4. tx[c] \in Transactions /\ Sound(c)
  BY DEF PgInv, Typed
<1>5. At(c, "Idle")
  BY <1>2, <1>4 DEF Store!NoCall, Sound, Staged
<1>6. tx[c].row = NoUser /\ tx[c].claims = {}
  BY <1>4, <1>5, Empty DEF Sound, Written, At
<1>7. t \in Transactions /\ t.pc = "Begin" /\ t.row = NoUser /\ t.claims = {}
  BY <1>4, <1>6 DEF Transactions, Steps
<1>8. l \in Asked
  BY DEF Asked
<1>9. call'[c] = l /\ tx'[c] = t
  BY <1>2, <1>3 DEF PgInv, Typed
<1> HIDE DEF t
<1>10. Sound(c)'
  <2>1. Staged(c)'
    BY <1>1, <1>2, <1>4, <1>5, <1>7, <1>9, NamesAssumption
    DEF Sound, Staged, At, Renames, StageOps, OpNames
  <2>2. Written(c)'
    BY <1>7, <1>9 DEF Written, At, Writing
  <2>3. Claimed(c)'
    BY <1>7, <1>9 DEF Claimed
  <2>4. Inserting(c)'
    <3>1. /\ l.username = name
          /\ l.known => \E g \in Calls : roles[g] = name
      BY DEF Store!Named
    <3> HIDE DEF l
    <3> QED  BY <1>2, <1>7, <1>9, <3>1 DEF Inserting, At, Store!Named
  <2> QED  BY <2>1, <2>2, <2>3, <2>4 DEF Sound
<1>11. \A d \in Calls \ {c} : Apart(c, d)'
  BY <1>7, <1>9 DEF Apart, Writing, At
<1> QED  BY <1>2, <1>3, <1>7, <1>8, <1>10, <1>11, OwnStep

\* A connection is taken.
LEMMA BeginInv ==
  ASSUME PgInv, NEW c \in Calls, Begin(c)
  PROVE  PgInv'
<1> DEFINE step == StepsOf[call[c].op][tx[c].pc]
           t == [tx[c] EXCEPT !.pc = step]
<1>1. /\ tx' = [tx EXCEPT ![c] = t] /\ UNCHANGED <<users, roles, call>>
      /\ tx[c].pc \in {"Begin", "BeginInsert"}
  BY DEF Begin, Goto, At
<1>2. tx[c] \in Transactions /\ Sound(c)
  BY DEF PgInv, Typed
<1>3. call[c].op \in StageOps[tx[c].pc] /\ call[c].op \in OpNames
  BY <1>1, <1>2 DEF Sound, Staged, StageOps, OpNames
<1>4. /\ step \in {"InsertUsername", "LockRow", "Select", "InsertRole"}
      /\ call[c].op \in StageOps[step]
      /\ step = "InsertUsername" => call[c].op = "create"
      /\ step = "InsertRole" => tx[c].pc = "BeginInsert"
  BY <1>1, <1>3 DEF StepsOf, CreateSteps, UpdateSteps, SoftDeleteSteps,
                    UpsertSteps, StageOps, OpNames
<1>5. tx[c].row = NoUser /\ tx[c].claims = {}
  BY <1>1, <1>2, Empty DEF Sound, Written
<1> HIDE DEF step
<1>6. t \in Transactions /\ t.pc = step /\ t.row = NoUser /\ t.claims = {}
  BY <1>2, <1>4, <1>5 DEF Transactions, Steps
<1>7. call'[c] = call[c] /\ tx'[c] = t
  BY <1>1 DEF PgInv, Typed
<1> HIDE DEF t
<1>8. Sound(c)'
  <2>1. Staged(c)'
    BY <1>1, <1>2, <1>4, <1>6, <1>7, NamesAssumption
    DEF Sound, Staged, At, Renames
  <2>2. Written(c)'
    BY <1>4, <1>6, <1>7 DEF Written, At, Writing
  <2>3. Claimed(c)'
    BY <1>4, <1>6, <1>7 DEF Claimed
  <2>4. Inserting(c)'
    BY <1>1, <1>2, <1>4, <1>6, <1>7 DEF Sound, Inserting, At, Store!Named
  <2> QED  BY <2>1, <2>2, <2>3, <2>4 DEF Sound
<1>9. \A d \in Calls \ {c} : Apart(c, d)'
  BY <1>4, <1>6, <1>7 DEF Apart, Writing, At
<1> QED  BY <1>1, <1>6, <1>8, <1>9, GoesOn

LEMMA RealRow == \A row \in Rows : row # NoUser
BY DEF Rows, NoUser

\* A row is locked and a new version of it written.
LEMMA LockRowInv ==
  ASSUME PgInv, NEW c \in Calls, LockRow(c)
  PROVE  PgInv'
<1> DEFINE l == call[c]
           row == NewVersion(l)
           t == [pc |-> StepsOf[l.op]["LockRow"], row |-> row, claims |-> {}]
<1>1. tx[c].pc = "LockRow" /\ Blockers(c) = {} /\ UNCHANGED <<users, roles>>
  BY DEF LockRow, At
<1>2. tx[c] \in Transactions /\ l \in Asked /\ Sound(c)
  BY DEF PgInv, Typed
<1>3. l.op \in {"update", "soft_delete"} /\ l.id \in UserIds
  BY <1>1, <1>2 DEF Sound, Staged, StageOps
<1>4. CASE Answer(c, "NotFound") /\ Close(c)
  BY <1>1, <1>4, Fails DEF At
<1>5. CASE /\ Matches(users[l.id]) /\ tx' = [tx EXCEPT ![c] = t]
           /\ UNCHANGED call
  <2>1. users[l.id] \in Rows /\ Alive(users[l.id])
    BY <1>3, <1>5 DEF Matches, Alive, PgInv, Typed, NoUser
  <2>2. row \in Rows
    BY <1>2, <2>1 DEF NewVersion, Rows, Asked
  <2>3. /\ t.pc \in {"InsertUsername", "Commit"} /\ l.op \in StageOps[t.pc]
        /\ t.pc = "InsertUsername" <=> l.op = "update"
        /\ t.row = row /\ t.claims = {}
    BY <1>3 DEF StepsOf, UpdateSteps, SoftDeleteSteps, StageOps, OpNames
  <2>4. t \in Transactions
    BY <2>2, <2>3 DEF Transactions, Steps
  <2>5. call'[c] = l /\ tx'[c] = t
    BY <1>5 DEF PgInv, Typed
  <2> HIDE DEF t, row
  <2>6. Writing(c)'
    BY <2>2, <2>3, <2>5, RealRow DEF Writing
  <2>7. Sound(c)'
    <3>1. Staged(c)'
      BY <1>1, <1>2, <1>3, <2>3, <2>5 DEF Sound, Staged, At, Renames
    <3>2. Written(c)'
      BY <1>1, <1>3, <2>1, <2>3, <2>5, <2>6 DEF Written, At, NewVersion, row
    <3>3. Claimed(c)'
      BY <1>3, <2>3, <2>5 DEF Claimed, Renames
    <3>4. Inserting(c)'
      BY <1>3, <2>5 DEF Inserting
    <3> QED  BY <3>1, <3>2, <3>3, <3>4 DEF Sound
  <2>8. ASSUME NEW d \in Calls \ {c}
        PROVE  Apart(c, d)'
    <3>1. call'[d] = call[d] /\ tx'[d] = tx[d]
      BY <1>5 DEF PgInv, Typed
    <3>2. Writing(d) => call[d].id # l.id
      BY <1>1 DEF Blockers, RowBlockers, At
    <3> QED  BY <1>3, <2>3, <2>5, <3>1, <3>2 DEF Apart, Writing
  <2> QED  BY <1>1, <1>5, <2>4, <2>7, <2>8, GoesOn
<1> QED  BY <1>4, <1>5 DEF LockRow, Continue

\* A renaming transaction has written the keys it was asked for.
LEMMA RowKeys ==
  ASSUME PgInv, NEW c \in Calls, Writing(c), Renames(c)
  PROVE  /\ tx[c].row.username = call[c].username
         /\ tx[c].row.email = call[c].email
<1>1. Written(c) /\ Sound(c) /\ users \in [UserIds -> Rows \cup {NoUser}]
  BY DEF PgInv, Sound, Typed
<1>2. CASE call[c].op = "create"
  BY <1>1, <1>2 DEF Written, UserRow
<1>3. CASE call[c].op = "update"
  <2>1. call[c].id \in UserIds /\ Alive(users[call[c].id]) /\ tx[c].row = NewVersion(call[c])
    BY <1>1, <1>3 DEF Written, Sound, Staged
  <2>2. users[call[c].id] \in Rows
    BY <1>1, <2>1 DEF Alive, NoUser
  <2> QED  BY <1>3, <2>1, <2>2 DEF NewVersion, Rows
<1> QED  BY <1>2, <1>3 DEF Renames

\* An index entry is made once nobody else holds or wants its key.
LEMMA InsertInv ==
  ASSUME PgInv, NEW c \in Calls, NEW step, NEW index, NEW row \in Rows,
         Insert(c, step, index, row),
         \/ step = "InsertUsername" /\ index = "username"
         \/ step = "InsertEmail" /\ index = "email",
         \/ row = tx[c].row /\ Writing(c)
         \/ /\ step = "InsertUsername" /\ call[c].op = "create"
            /\ row = UserRow(call[c].username, call[c].email, None)
  PROVE  PgInv'
<1> DEFINE l == call[c]
           claims == IF l[index] = None THEN tx[c].claims ELSE tx[c].claims \cup {index}
           t == [pc |-> StepsOf[l.op][step], row |-> row, claims |-> claims]
<1>1. tx[c].pc = step /\ Blockers(c) = {} /\ UNCHANGED roles
  BY DEF Insert, At
<1>2. tx[c] \in Transactions /\ l \in Asked /\ Sound(c)
  BY DEF PgInv, Typed
<1>3. l.op \in {"create", "update"} /\ l.id \in UserIds /\ l.username # None
      /\ Renames(c)
  <2>1. l.op \in {"create", "update"}
    BY <1>1, <1>2 DEF Sound, Staged, StageOps
  <2>2. <<l.username, l.email>> \in Identities
    BY <1>2, <2>1 DEF Sound, Staged, Renames
  <2>3. l.username # None
    BY <2>2, NamesAssumption
  <2> QED  BY <1>2, <2>1, <2>3 DEF Sound, Staged, Renames, UserIds, Store!UserIds
<1>4. CASE Answer(c, "Conflict") /\ Close(c) /\ UNCHANGED users
  BY <1>1, <1>4, Fails DEF At
<1>5. CASE /\ l[index] = None \/ ~Duplicate(c, index)
           /\ tx' = [tx EXCEPT ![c] = t]
           /\ users' = Visible(c, step, row) /\ UNCHANGED call
  <2>1. UNCHANGED users
    BY <1>3, <1>5 DEF Visible, CommitsAt
  <2>2. /\ t.pc \in {"InsertEmail", "Credential", "Commit"}
        /\ l.op \in StageOps[t.pc]
        /\ t.pc = "InsertEmail" <=> step = "InsertUsername"
        /\ l.op = "create" => t.pc # "Commit"
        /\ t.row = row /\ t.claims = claims
    BY <1>3 DEF StepsOf, CreateSteps, UpdateSteps, StageOps, OpNames
  <2>3. t \in Transactions
    BY <1>2, <2>2 DEF Transactions, Steps
  <2>4. call'[c] = l /\ tx'[c] = t
    BY <1>5 DEF PgInv, Typed
  <2>5. /\ index = "username" => "username" \in claims
        /\ index = "email" => l.email = None \/ "email" \in claims
        /\ tx[c].claims \subseteq claims
        /\ claims \subseteq tx[c].claims \cup {index}
        /\ index \in claims => l[index] # None \/ index \in tx[c].claims
    BY <1>3
  <2> HIDE DEF t, claims
  <2>6. Writing(c)'
    BY <2>2, <2>4, RealRow DEF Writing
  <2>7. Sound(c)'
    <3>1. Staged(c)'
      BY <1>1, <1>2, <1>3, <2>1, <2>2, <2>4 DEF Sound, Staged, At, Renames
    <3>2. Written(c)'
      BY <1>1, <1>2, <1>3, <2>1, <2>2, <2>4, <2>6
      DEF Sound, Written, At, NewVersion
    <3>3. Claimed(c)'
      <4>1. /\ "email" \in claims => l.email # None
            /\ \A i \in claims : ~Duplicate(c, i)
        BY <1>2, <1>5, <2>5 DEF Sound, Claimed
      <4>2. "username" \in claims
        BY <1>1, <1>2, <1>3, <2>5 DEF Sound, Claimed
      <4>3. t.pc \in {"Credential", "Commit"} => l.email = None \/ "email" \in claims
        BY <2>2, <2>5
      <4>4. Renames(c)' /\ \A i : Duplicate(c, i)' <=> Duplicate(c, i)
        BY <1>3, <2>1, <2>4 DEF Renames, Duplicate
      <4> QED  BY <2>2, <2>4, <2>6, <4>1, <4>2, <4>3, <4>4 DEF Claimed
    <3>4. Inserting(c)'
      BY <1>3, <2>4 DEF Inserting
    <3> QED  BY <3>1, <3>2, <3>3, <3>4 DEF Sound
  <2>8. ASSUME NEW d \in Calls \ {c}
        PROVE  Apart(c, d)'
    <3>1. call'[d] = call[d] /\ tx'[d] = tx[d] /\ Apart(c, d) /\ Sound(d)
      BY <1>5 DEF PgInv, Typed
    <3>2. Writing(d) => call[d].id # l.id
      <4>1. CASE Writing(c)
        BY <3>1, <4>1 DEF Apart
      <4>2. CASE l.op = "create"
        <5>1. l.id = c /\ users[c] = NoUser
          BY <1>1, <1>2, <4>2 DEF Sound, Staged, At
        <5>2. Writing(d) => call[d].op \in {"create", "update", "soft_delete"}
          BY <3>1 DEF Sound, Written
        <5> QED  BY <3>1, <5>1, <5>2 DEF Sound, Staged
      <4> QED  BY <4>1, <4>2
    <3>3. index \in claims \cap tx[d].claims => l[index] # call[d][index]
      <4>1. CASE index \in tx[c].claims
        BY <3>1, <4>1 DEF Apart
      <4>2. CASE index \in claims /\ index \in tx[d].claims /\ l[index] # None
        <5>1. Writing(d) /\ Renames(d)
          BY <3>1, <4>2 DEF Sound, Claimed
        <5>2. tx[d].row[index] = call[d][index]
          BY <5>1, RowKeys
        <5>3. d \notin IndexBlockers(c, index)
          BY <1>1, <4>2 DEF Blockers, At
        <5> QED  BY <4>2, <5>1, <5>2, <5>3 DEF IndexBlockers
      <4> QED  BY <2>5, <4>1, <4>2
    <3>4. \A i \in claims \cap tx[d].claims : l[i] # call[d][i]
      BY <2>5, <3>1, <3>3 DEF Apart
    <3> QED  BY <1>3, <2>2, <2>4, <3>1, <3>2, <3>4 DEF Apart, Writing
  <2> QED  BY <1>1, <1>5, <2>1, <2>3, <2>7, <2>8, GoesOn
<1> QED  BY <1>4, <1>5 DEF Insert, Continue

LEMMA InsertsInv ==
  ASSUME PgInv, NEW c \in Calls, InsertUsername(c) \/ InsertEmail(c)
  PROVE  PgInv'
<1>1. tx[c] \in Transactions /\ call[c] \in Asked /\ Sound(c)
  BY DEF PgInv, Typed
<1>2. CASE InsertEmail(c)
  <2>1. At(c, "InsertEmail")
    BY <1>2 DEF InsertEmail, Insert
  <2>2. tx[c].row \in Rows /\ Writing(c)
    BY <1>1, <2>1 DEF Sound, Written, At, Writing, Transactions
  <2> QED  BY <1>2, <2>2, InsertInv DEF InsertEmail
<1>3. CASE InsertUsername(c)
  <2> DEFINE row == IF call[c].op = "create"
                    THEN UserRow(call[c].username, call[c].email, None)
                    ELSE tx[c].row
  <2>1. At(c, "InsertUsername") /\ Insert(c, "InsertUsername", "username", row)
    BY <1>3 DEF InsertUsername, Insert
  <2>2. call[c].op \in {"create", "update"}
    BY <1>1, <2>1 DEF Sound, Staged, At, StageOps
  <2>3. call[c].op # "create" => Writing(c)
    BY <1>1, <2>1, <2>2 DEF Sound, Written
  <2>4. row \in Rows
    BY <1>1, <2>2, <2>3 DEF Writing, Transactions, UserRow, Rows, Asked
  <2> HIDE DEF row
  <2>5. \/ row = tx[c].row /\ Writing(c)
        \/ /\ call[c].op = "create"
           /\ row = UserRow(call[c].username, call[c].email, None)
    BY <2>3 DEF row
  <2> QED  BY <2>1, <2>4, <2>5, InsertInv
<1> QED  BY <1>2, <1>3

\* The credential completes the row create is about to commit.
LEMMA CredentialInv ==
  ASSUME PgInv, NEW c \in Calls, Credential(c)
  PROVE  PgInv'
<1> DEFINE l == call[c]
           row == [tx[c].row EXCEPT !.password_hash = c]
           t == [pc |-> StepsOf[l.op]["Credential"], row |-> row,
                 claims |-> tx[c].claims]
<1>1. /\ tx[c].pc = "Credential" /\ tx' = [tx EXCEPT ![c] = t]
      /\ users' = Visible(c, "Credential", row) /\ UNCHANGED <<roles, call>>
  BY DEF Credential, At, Continue
<1>2. tx[c] \in Transactions /\ l \in Asked /\ Sound(c)
  BY DEF PgInv, Typed
<1>3. l.op = "create" /\ l.id = c /\ Renames(c)
  BY <1>1, <1>2 DEF Sound, Staged, StageOps, Renames
<1>4. UNCHANGED users
  BY <1>1, <1>3 DEF Visible, CommitsAt
<1>5. /\ Writing(c) /\ row = UserRow(l.username, l.email, c)
  BY <1>1, <1>2, <1>3 DEF Sound, Written, UserRow
<1>6. t.pc = "Commit" /\ t.row = row /\ t.claims = tx[c].claims
  BY <1>3 DEF StepsOf, CreateSteps
<1>7. row \in Rows
  BY <1>2, <1>5 DEF UserRow, Rows, Asked, UserIds, Store!UserIds
<1>8. t \in Transactions
  BY <1>2, <1>6, <1>7 DEF Transactions, Steps
<1>9. call'[c] = l /\ tx'[c] = t
  BY <1>1 DEF PgInv, Typed
<1> HIDE DEF t, row
<1>10. Writing(c)'
  BY <1>6, <1>7, <1>9, RealRow DEF Writing
<1>11. Sound(c)'
  <2>1. Staged(c)'
    BY <1>1, <1>2, <1>3, <1>4, <1>6, <1>9
    DEF Sound, Staged, At, Renames, StageOps, OpNames
  <2>2. Written(c)'
    BY <1>3, <1>5, <1>6, <1>9, <1>10 DEF Written, At
  <2>3. Claimed(c)'
    BY <1>1, <1>2, <1>3, <1>4, <1>6, <1>9, <1>10
    DEF Sound, Claimed, Renames, Duplicate
  <2>4. Inserting(c)'
    BY <1>3, <1>9 DEF Inserting
  <2> QED  BY <2>1, <2>2, <2>3, <2>4 DEF Sound
<1>12. ASSUME NEW d \in Calls \ {c}
       PROVE  Apart(c, d)'
  <2>1. call'[d] = call[d] /\ tx'[d] = tx[d] /\ Apart(c, d)
    BY <1>1 DEF PgInv, Typed
  <2> QED  BY <1>3, <1>5, <1>6, <1>9, <2>1 DEF Apart, Writing
<1> QED  BY <1>1, <1>4, <1>8, <1>11, <1>12, GoesOn

\* upsert: nobody had the role, or it is read.
LEMMA SelectInv ==
  ASSUME PgInv, NEW c \in Calls, Select(c)
  PROVE  PgInv'
<1>1. tx[c].pc = "Select" /\ UNCHANGED <<users, roles>>
  BY DEF Select, At
<1>2. tx[c] \in Transactions /\ call[c] \in Asked /\ Sound(c)
  BY DEF PgInv, Typed
<1>3. call[c].op = "upsert"
  BY <1>1, <1>2 DEF Sound, Staged, StageOps
<1>4. ASSUME NEW g \in Calls, Close(c),
             call' = [call EXCEPT ![c].id = g, ![c].ans = "Ok"]
      PROVE  PgInv'
  <2> DEFINE l == [call[c] EXCEPT !.id = g, !.ans = "Ok"]
  <2>1. call' = [call EXCEPT ![c] = l]
    BY <1>4 DEF PgInv, Typed
  <2>2. SameRequest(c, l)
    BY <1>2, <1>3 DEF SameRequest, Asked, UserIds, Store!UserIds
  <2> HIDE DEF l
  <2> QED  BY <1>1, <1>4, <2>1, <2>2, Closes DEF At
<1>5. CASE /\ Store!Named(call[c].username) = {}
           /\ Goto(c, "BeginInsert") /\ UNCHANGED call
  <2> DEFINE t == [tx[c] EXCEPT !.pc = "BeginInsert"]
  <2>1. tx' = [tx EXCEPT ![c] = t]
    BY <1>5 DEF Goto
  <2>2. tx[c].row = NoUser /\ tx[c].claims = {}
    BY <1>1, <1>2, Empty DEF Sound, Written
  <2>3. /\ t \in Transactions /\ t.pc = "BeginInsert" /\ t.row = NoUser
        /\ t.claims = {}
    BY <1>2, <2>2 DEF Transactions, Steps
  <2>4. call'[c] = call[c] /\ tx'[c] = t
    BY <1>5, <2>1 DEF PgInv, Typed
  <2> HIDE DEF t
  <2>5. Staged(c)'
    BY <1>1, <1>2, <1>3, <2>3, <2>4 DEF Sound, Staged, At, Renames, StageOps
  <2>6. Written(c)' /\ Claimed(c)'
    BY <2>3, <2>4 DEF Written, Claimed, At, Writing
  <2>7. Inserting(c)'
    BY <1>1, <1>2, <1>5, <2>3, <2>4 DEF Sound, Inserting, At, Store!Named
  <2>8. \A d \in Calls \ {c} : Apart(c, d)'
    BY <2>3, <2>4 DEF Apart, Writing, At
  <2> QED  BY <1>1, <1>5, <2>1, <2>3, <2>5, <2>6, <2>7, <2>8, GoesOn DEF Sound
<1> QED  BY <1>4, <1>5 DEF Select, Store!Named

LEMMA InsertRoleInv ==
  ASSUME PgInv, NEW c \in Calls, InsertRole(c)
  PROVE  PgInv'
<1>1. tx[c].pc = "InsertRole" /\ Blockers(c) = {} /\ UNCHANGED <<users, roles>>
  BY DEF InsertRole, At
<1>2. tx[c] \in Transactions /\ call[c] \in Asked /\ Sound(c)
  BY DEF PgInv, Typed
<1>3. call[c].op = "upsert"
  BY <1>1, <1>2 DEF Sound, Staged, StageOps
<1>4. CASE Answer(c, "Conflict") /\ Close(c)
  BY <1>1, <1>4, Fails DEF At
<1>5. CASE /\ Store!Named(call[c].username) = {}
           /\ Goto(c, "Commit") /\ UNCHANGED call
  <2> DEFINE t == [tx[c] EXCEPT !.pc = "Commit"]
  <2>1. tx' = [tx EXCEPT ![c] = t]
    BY <1>5 DEF Goto
  <2>2. tx[c].row = NoUser /\ tx[c].claims = {}
    BY <1>1, <1>2, Empty DEF Sound, Written
  <2>3. t \in Transactions /\ t.pc = "Commit" /\ t.row = NoUser /\ t.claims = {}
    BY <1>2, <2>2 DEF Transactions, Steps
  <2>4. call'[c] = call[c] /\ tx'[c] = t
    BY <1>5, <2>1 DEF PgInv, Typed
  <2> HIDE DEF t
  <2>5. Staged(c)'
    BY <1>1, <1>2, <1>3, <2>3, <2>4 DEF Sound, Staged, At, Renames, StageOps, OpNames
  <2>6. Written(c)' /\ Claimed(c)'
    BY <1>3, <2>3, <2>4 DEF Written, Claimed, At, Writing, Renames
  <2>7. Inserting(c)'
    BY <1>1, <1>2, <1>5, <2>3, <2>4 DEF Sound, Inserting, At, Store!Named
  <2>8. ASSUME NEW d \in Calls \ {c}
        PROVE  Apart(c, d)'
    <3>1. call'[d] = call[d] /\ tx'[d] = tx[d]
      BY <1>5, <2>1 DEF PgInv, Typed
    <3>2. d \notin RoleBlockers(c)
      BY <1>1 DEF Blockers, At
    <3> QED  BY <2>3, <2>4, <3>1, <3>2 DEF Apart, Writing, At, RoleBlockers
  <2> QED  BY <1>1, <1>5, <2>1, <2>3, <2>5, <2>6, <2>7, <2>8, GoesOn DEF Sound
<1> QED  BY <1>4, <1>5 DEF InsertRole

\* The future of a create is dropped; its transaction is still open.
LEMMA DropInv ==
  ASSUME PgInv, NEW c \in Calls, DropTransaction(c)
  PROVE  PgInv'
<1> DEFINE l == [call[c] EXCEPT !.ans = "Internal"]
           t == [tx[c] EXCEPT !.pc = "Rollback"]
<1>1. /\ call[c].op = "create" /\ tx[c].pc \in {"Credential", "Commit"}
      /\ call' = [call EXCEPT ![c] = l] /\ tx' = [tx EXCEPT ![c] = t]
      /\ UNCHANGED <<users, roles>>
  BY DEF DropTransaction, At, Answer, Goto
<1>2. tx[c] \in Transactions /\ call[c] \in Asked /\ Sound(c)
  BY DEF PgInv, Typed
<1>3. /\ t \in Transactions /\ t.pc = "Rollback" /\ t.row = tx[c].row
      /\ t.claims = tx[c].claims
  BY <1>2 DEF Transactions, Steps
<1>4. SameRequest(c, l) /\ l.id = call[c].id
  BY <1>2 DEF SameRequest, Asked
<1>5. call'[c] = l /\ tx'[c] = t
  BY <1>1 DEF PgInv, Typed
<1>0. \A i \in tx[c].claims : l[i] = call[c][i]
  BY <1>2 DEF Transactions, Asked
<1> HIDE DEF l, t
<1>6. Staged(c)'
  BY <1>1, <1>2, <1>3, <1>4, <1>5, NamesAssumption
  DEF SameRequest, Sound, Staged, At, Renames, StageOps
<1>7. Written(c)'
  BY <1>1, <1>2, <1>3, <1>4, <1>5 DEF SameRequest, Sound, Written, At, Writing
<1>8. Claimed(c)'
  BY <1>0, <1>1, <1>2, <1>3, <1>4, <1>5
  DEF SameRequest, Sound, Claimed, Writing, Renames, Duplicate
<1>9. Inserting(c)'
  BY <1>1, <1>4, <1>5 DEF SameRequest, Inserting
<1>10. ASSUME NEW d \in Calls \ {c}
       PROVE  Apart(c, d)'
  <2>1. call'[d] = call[d] /\ tx'[d] = tx[d] /\ Apart(c, d)
    BY <1>1 DEF PgInv, Typed
  <2> QED  BY <1>0, <1>1, <1>3, <1>4, <1>5, <2>1 DEF SameRequest, Apart, Writing, At
<1> QED
  BY <1>1, <1>3, <1>4, <1>6, <1>7, <1>8, <1>9, <1>10, OwnStep DEF SameRequest, Sound

LEMMA RollbackInv ==
  ASSUME PgInv, NEW c \in Calls, Rollback(c)
  PROVE  PgInv'
<1>1. call[c] \in Asked /\ call' = [call EXCEPT ![c] = call[c]]
  BY DEF PgInv, Typed, Rollback
<1>2. SameRequest(c, call[c])
  BY <1>1 DEF SameRequest
<1> QED  BY <1>1, <1>2, Closes DEF Rollback, At

LEMMA FailuresInv ==
  ASSUME PgInv, NEW c \in Calls,
         DeadlockVictim(c) \/ AcquireTimeout(c) \/ ConnectionLost(c)
  PROVE  PgInv'
<1>1. Answer(c, "Internal") /\ Close(c) /\ UNCHANGED <<users, roles>>
  BY DEF DeadlockVictim, AcquireTimeout, ConnectionLost
<1>2. ~At(c, "Idle")
  BY DEF DeadlockVictim, AcquireTimeout, ConnectionLost, Deadlocked, Blockers,
         HoldsConnection, At
<1> QED  BY <1>1, <1>2, Fails

-----------------------------------------------------------------------------
(* Steps that write the tables                                             *)

\* A transaction that commits leaves the others as they were.
LEMMA Commits ==
  ASSUME PgInv, NEW c \in Calls, At(c, "Commit"), Typed',
         (UsernameAliveUidx(users) /\ EmailAliveUidx(users) /\ StoredRows)',
         NEW l, SameRequest(c, l), call' = [call EXCEPT ![c] = l], Close(c),
         call[c].op \in {"update", "soft_delete"} => users'[call[c].id] # NoUser,
         call[c].op = "upsert" /\ call[c].known =>
           \E g \in Calls : roles'[g] = call[c].username,
         \A d \in Calls \ {c} :
           call'[d] = call[d] /\ tx'[d] = tx[d] => Sound(d)'
  PROVE  PgInv'
<1>1. /\ call'[c] = l
      /\ \A d \in Calls \ {c} : call'[d] = call[d] /\ tx'[d] = tx[d]
  BY CloseReturns DEF PgInv, Typed
<1>2. Sound(c)' /\ \A d \in Calls \ {c} : Apart(c, d)'
  BY <1>1, CloseReturns, ReturnedSound DEF At
<1>3. ASSUME NEW d \in Calls, NEW e \in Calls, d # e
      PROVE  Apart(d, e)'
  <2>1. CASE d # c /\ e # c
    <3>1. Apart(d, e)
      BY <1>3 DEF PgInv
    <3> QED  BY <1>1, <2>1, <3>1 DEF Apart, Writing, At
  <2>2. CASE d = c
    BY <1>2, <1>3, <2>2
  <2>3. CASE e = c
    <3>1. Apart(e, d)'
      BY <1>2, <1>3, <2>3
    <3> QED  BY <3>1 DEF Apart
  <2> QED  BY <2>1, <2>2, <2>3
<1> QED  BY <1>1, <1>2, <1>3 DEF PgInv

\* What the row of a committing transaction is, and that its keys are free.
LEMMA CommittedRow ==
  ASSUME PgInv, NEW c \in Calls, At(c, "Commit"), call[c].op # "upsert"
  PROVE  /\ Writing(c) /\ tx[c].row \in Rows /\ call[c].id \in UserIds
         /\ tx[c].row.password_hash # None
         /\ <<tx[c].row.username, tx[c].row.email>> \in Identities
         /\ \/ call[c].op = "create" /\ call[c].id = c
            \/ call[c].op \in {"update", "soft_delete"} /\ Alive(users[call[c].id])
         /\ Alive(tx[c].row) =>
              /\ Renames(c) /\ "username" \in tx[c].claims
              /\ tx[c].row.email # None => "email" \in tx[c].claims
<1> DEFINE l == call[c]
           row == tx[c].row
<1>1. /\ tx[c] \in Transactions /\ l \in Asked /\ Sound(c)
      /\ users \in [UserIds -> Rows \cup {NoUser}] /\ tx[c].pc = "Commit"
  BY DEF PgInv, Typed, At
<1>2. l.op \in {"create", "update", "soft_delete"}
  BY <1>1 DEF Sound, Staged, StageOps, OpNames
<1>3. Writing(c) /\ row \in Rows
  BY <1>1, <1>2 DEF Sound, Written, At, Writing, Transactions
<1>4. l.id \in UserIds
  BY <1>1, <1>2 DEF Sound, Staged, UserIds, Store!UserIds
<1>5. \/ l.op = "create" /\ l.id = c /\ row = UserRow(l.username, l.email, c)
      \/ /\ l.op \in {"update", "soft_delete"} /\ Alive(users[l.id])
         /\ row = NewVersion(l)
  BY <1>1, <1>2, <1>3 DEF Sound, Staged, Written, At
<1>6. l.op \in {"update", "soft_delete"} =>
        /\ users[l.id] \in Rows /\ users[l.id].password_hash # None
        /\ <<users[l.id].username, users[l.id].email>> \in Identities
  BY <1>1, <1>4, <1>5 DEF Alive, NoUser, PgInv, StoredRows
<1>7. row.password_hash # None
  <2>1. CASE row = UserRow(l.username, l.email, c)
    BY <2>1, NamesAssumption DEF UserRow
  <2>2. CASE l.op \in {"update", "soft_delete"} /\ row = NewVersion(l)
    BY <1>6, <2>2 DEF NewVersion, Rows
  <2> QED  BY <1>5, <2>1, <2>2
<1>8. Alive(row) => Renames(c)
  BY <1>2, <1>5, <1>6 DEF NewVersion, Rows, Alive, Renames
<1>9. Renames(c) => /\ "username" \in tx[c].claims
                    /\ l.email # None => "email" \in tx[c].claims
  BY <1>1 DEF Sound, Claimed
<1>10. Renames(c) => row.username = l.username /\ row.email = l.email
  BY <1>3, RowKeys
<1>11. <<row.username, row.email>> \in Identities
  <2>1. CASE Renames(c)
    BY <1>1, <1>10, <2>1 DEF Sound, Staged
  <2>2. CASE ~Renames(c)
    <3>1. l.op = "soft_delete" /\ row = [users[l.id] EXCEPT !.status = "deleted"]
      BY <1>2, <1>5, <2>2 DEF Renames, NewVersion
    <3>2. row.username = users[l.id].username /\ row.email = users[l.id].email
      BY <1>6, <3>1 DEF Rows
    <3> QED  BY <1>6, <3>1, <3>2
  <2> QED  BY <2>1, <2>2
<1> QED  BY <1>2, <1>3, <1>4, <1>5, <1>7, <1>8, <1>9, <1>10, <1>11

\* The indexes accept what a committing transaction has written.
LEMMA IndexesAccept ==
  ASSUME PgInv, NEW c \in Calls, At(c, "Commit"), call[c].op # "upsert"
  PROVE  LET t == [users EXCEPT ![call[c].id] = tx[c].row]
         IN  UsernameAliveUidx(t) /\ EmailAliveUidx(t)
<1> DEFINE id == call[c].id
           row == tx[c].row
           t == [users EXCEPT ![id] = row]
<1>1. users \in [UserIds -> Rows \cup {NoUser}] /\ Sound(c)
      /\ UsernameAliveUidx(users) /\ EmailAliveUidx(users)
  BY DEF PgInv, Typed
<1>2. /\ t[id] = row /\ DOMAIN t = UserIds /\ DOMAIN users = UserIds
      /\ id \in UserIds
      /\ \A u \in UserIds \ {id} : t[u] = users[u]
  BY <1>1, CommittedRow
<1>3. Alive(row) => \A v \in UserIds \ {id} :
                      Alive(users[v]) => users[v].username # row.username
  <2>1. Alive(row) => ~Duplicate(c, "username") /\ row.username = call[c].username
    BY <1>1, CommittedRow, RowKeys DEF Sound, Claimed
  <2> QED  BY <2>1 DEF Duplicate
<1>4. Alive(row) /\ row.email # None =>
        \A v \in UserIds \ {id} : Alive(users[v]) => users[v].email # row.email
  <2>1. Alive(row) /\ row.email # None =>
          ~Duplicate(c, "email") /\ row.email = call[c].email
    BY <1>1, CommittedRow, RowKeys DEF Sound, Claimed
  <2> QED  BY <2>1 DEF Duplicate
<1> HIDE DEF t, id, row
<1>5. UsernameAliveUidx(t)
  BY <1>1, <1>2, <1>3 DEF UsernameAliveUidx
<1>6. EmailAliveUidx(t)
  BY <1>1, <1>2, <1>4 DEF EmailAliveUidx
<1> QED  BY <1>5, <1>6 DEF t, id, row

LEMMA CommitRowInv ==
  ASSUME PgInv, NEW c \in Calls, Commit(c), call[c].op # "upsert"
  PROVE  PgInv'
<1> DEFINE id == call[c].id
           row == tx[c].row
<1>1. /\ tx[c].pc = "Commit" /\ At(c, "Commit") /\ Close(c) /\ UNCHANGED roles
      /\ users' = Visible(c, "Commit", row)
  BY DEF Commit, At
<1>2. tx[c] \in Transactions /\ call[c] \in Asked /\ Sound(c)
      /\ users \in [UserIds -> Rows \cup {NoUser}]
  BY DEF PgInv, Typed
<1>3. call[c].op \in {"create", "update", "soft_delete"}
  BY <1>1, <1>2 DEF Sound, Staged, StageOps, OpNames
<1>4. users' = [users EXCEPT ![id] = row]
  BY <1>1, <1>3 DEF Visible, CommitsAt
<1>5. PICK ans \in {"Ok", "Internal"} : Answer(c, ans)
  BY DEF Commit
<1> DEFINE l == [call[c] EXCEPT !.ans = ans]
<1>6. SameRequest(c, l) /\ call' = [call EXCEPT ![c] = l]
  BY <1>2, <1>5 DEF SameRequest, Asked, Answer
<1> HIDE DEF l
<1>7. /\ Writing(c) /\ row \in Rows /\ id \in UserIds
      /\ row.password_hash # None /\ <<row.username, row.email>> \in Identities
      /\ \/ call[c].op = "create" /\ id = c
         \/ call[c].op \in {"update", "soft_delete"} /\ Alive(users[id])
      /\ Alive(row) =>
           /\ Renames(c) /\ "username" \in tx[c].claims
           /\ row.email # None => "email" \in tx[c].claims
  BY <1>1, <1>3, CommittedRow
<1>8. Typed'
  BY <1>1, <1>2, <1>4, <1>6, <1>7, CloseReturns DEF PgInv, Typed, SameRequest
<1>9. (UsernameAliveUidx(users) /\ EmailAliveUidx(users))'
  BY <1>1, <1>4, IndexesAccept
<1>10. StoredRows'
  BY <1>2, <1>4, <1>7 DEF StoredRows, PgInv
<1>11. /\ users'[id] = row /\ \A u \in UserIds \ {id} : users'[u] = users[u]
  BY <1>2, <1>4, <1>7
<1>12. ASSUME NEW d \in Calls \ {c}, call'[d] = call[d], tx'[d] = tx[d]
       PROVE  Sound(d)'
  <2>1. Sound(d) /\ Apart(c, d) /\ tx[d] \in Transactions
    BY DEF PgInv, Typed
  <2>2. Staged(d)'
    <3>1. d \in UserIds /\ (~At(d, "Return") => id # d)
      BY <1>7, <2>1 DEF UserIds, Store!UserIds, Sound, Staged, Alive, NoUser
    <3> QED
      BY <1>1, <1>7, <1>11, <1>12, <2>1, <3>1, RealRow
      DEF Sound, Staged, At, Renames
  <2>3. Written(d)'
    <3>1. Writing(d) => call[d].id # id
      BY <1>7, <2>1 DEF Apart
    <3>2. call[d].op \in {"update", "soft_delete"} => call[d].id \in UserIds
      BY <2>1 DEF Sound, Staged
    <3>3. Writing(d) /\ call[d].op \in {"update", "soft_delete"} =>
            /\ users'[call[d].id] = users[call[d].id]
            /\ NewVersion(call[d])' = NewVersion(call[d])
      BY <1>11, <1>12, <3>1, <3>2 DEF NewVersion
    <3> HIDE DEF row
    <3> QED  BY <1>12, <2>1, <3>3 DEF Sound, Written, At, Writing
  <2>4. Claimed(d)'
    <3>1. ASSUME NEW index \in tx[d].claims
          PROVE  ~Duplicate(d, index)'
      <4>1. ~Duplicate(d, index) /\ index \in {"username", "email"}
            /\ (index = "email" => call[d].email # None)
        BY <2>1 DEF Sound, Claimed, Transactions
      <4>2. Alive(row) => row[index] # call[d][index]
        <5>1. CASE index \in tx[c].claims /\ Alive(row)
          <6>1. row[index] = call[c][index]
            BY <1>7, <4>1, <5>1, RowKeys
          <6> QED  BY <2>1, <5>1, <6>1 DEF Apart
        <5>2. CASE index \notin tx[c].claims /\ Alive(row)
          BY <1>7, <4>1, <5>2
        <5> QED  BY <5>1, <5>2
      <4> QED  BY <1>11, <1>12, <4>1, <4>2 DEF Duplicate
    <3> QED  BY <1>12, <2>1, <3>1 DEF Sound, Claimed, Writing, Renames
  <2>5. Inserting(d)'
    BY <1>1, <1>12, <2>1 DEF Sound, Inserting, At, Store!Named
  <2> QED  BY <2>2, <2>3, <2>4, <2>5 DEF Sound
<1> QED
  BY <1>1, <1>3, <1>6, <1>7, <1>8, <1>9, <1>10, <1>11, <1>12, RealRow, Commits

LEMMA CommitRoleInv ==
  ASSUME PgInv, NEW c \in Calls, Commit(c), call[c].op = "upsert"
  PROVE  PgInv'
<1> DEFINE role == call[c].username
<1>1. /\ tx[c].pc = "Commit" /\ At(c, "Commit") /\ Close(c) /\ UNCHANGED users
      /\ roles' = [roles EXCEPT ![c] = role]
  BY DEF Commit, At
<1>2. tx[c] \in Transactions /\ call[c] \in Asked /\ Sound(c)
      /\ roles \in [Calls -> RoleNames \cup {None}]
  BY DEF PgInv, Typed
<1>3. PICK l : SameRequest(c, l) /\ call' = [call EXCEPT ![c] = l]
  <2>1. call' = [call EXCEPT ![c] = [call[c] EXCEPT !.id = c, !.ans = "Ok"]]
        \/ call' = [call EXCEPT ![c] = [call[c] EXCEPT !.ans = "Internal"]]
    BY DEF Commit, Answer, PgInv, Typed
  <2>2. SameRequest(c, [call[c] EXCEPT !.id = c, !.ans = "Ok"])
    BY <1>2 DEF SameRequest, Asked, UserIds, Store!UserIds
  <2>3. SameRequest(c, [call[c] EXCEPT !.ans = "Internal"])
    BY <1>2 DEF SameRequest, Asked
  <2> QED  BY <2>1, <2>2, <2>3
<1>4. role \in RoleNames /\ roles[c] = NoRole
  BY <1>1, <1>2 DEF Sound, Staged, At
<1>5. Typed'
  BY <1>1, <1>2, <1>3, <1>4, CloseReturns DEF PgInv, Typed, SameRequest
<1>6. (UsernameAliveUidx(users) /\ EmailAliveUidx(users) /\ StoredRows)'
  BY <1>1 DEF PgInv, UsernameAliveUidx, EmailAliveUidx, StoredRows
<1>7. roles'[c] = role /\ \A g \in Calls \ {c} : roles'[g] = roles[g]
  BY <1>1, <1>2
<1> HIDE DEF role
<1>8. ASSUME NEW d \in Calls \ {c}, call'[d] = call[d], tx'[d] = tx[d]
      PROVE  Sound(d)'
  <2>1. Sound(d) /\ Apart(c, d)
    BY DEF PgInv
  <2>2. Staged(d)'
    BY <1>1, <1>7, <1>8, <2>1 DEF Sound, Staged, At, Renames
  <2>3. Written(d)'
    BY <1>1, <1>8, <2>1 DEF Sound, Written, At, Writing, NewVersion
  <2>4. Claimed(d)'
    BY <1>1, <1>8, <2>1 DEF Sound, Claimed, Writing, Renames, Duplicate
  <2>5. Inserting(d)'
    <3> SUFFICES ASSUME call[d].op = "upsert"
                 PROVE  Inserting(d)'
      BY <1>8 DEF Inserting
    <3>1. call[d].username \in RoleNames /\ call[d].username # NoRole
      BY <2>1, NamesAssumption DEF Sound, Staged, NoRole
    <3>2. (\E g \in Calls : roles[g] = call[d].username) =>
            \E g \in Calls : roles'[g] = call[d].username
      BY <1>4, <1>7, <3>1
    <3>3. At(d, "Commit") => \A g \in Calls : roles'[g] # call[d].username
      BY <1>1, <1>7, <2>1 DEF Sound, Inserting, Apart, At, Store!Named, role
    <3> QED
      BY <1>8, <2>1, <3>2, <3>3 DEF Sound, Inserting, At, Store!Named
  <2> QED  BY <2>2, <2>3, <2>4, <2>5 DEF Sound
<1>9. \E g \in Calls : roles'[g] = call[c].username
  BY <1>7 DEF role
<1> QED
  BY <1>1, <1>3, <1>5, <1>6, <1>8, <1>9, Commits

-----------------------------------------------------------------------------
(* The invariant                                                           *)

LEMMA PgInit == Init => PgInv
<1> SUFFICES ASSUME Init PROVE PgInv
  OBVIOUS
<1>1. PICK who \in [Accounts -> Identities] :
        users = [u \in UserIds |-> IF u \in Accounts
                                  THEN UserRow(who[u][1], who[u][2], u)
                                  ELSE NoUser]
  BY DEF Init, Store!Init, Store!StoredAccounts, Store!UserIds, UserIds,
         Store!UserRow, UserRow, Store!NoUser, NoUser
<1>2. UsernameAliveUidx(users) /\ EmailAliveUidx(users)
  BY DEF Init, Store!Init, Store!StoredAccounts, Store!UsernameAliveUidx,
         UsernameAliveUidx, Store!EmailAliveUidx, EmailAliveUidx, Store!Alive, Alive
<1>3. /\ roles = [g \in Calls |-> NoRole]
      /\ call = [c \in Calls |-> Store!NoCall] /\ tx = [c \in Calls |-> NoTx]
  BY DEF Init, Store!Init, Store!NoRole, NoRole
<1>4. /\ Store!NoCall \in Asked /\ Store!NoCall.op = None
      /\ NoTx \in Transactions /\ NoTx.pc = "Idle" /\ NoTx.row = NoUser
      /\ NoTx.claims = {}
  BY DEF Store!NoCall, Asked, Keys, NoTx, Transactions, Steps
<1>5. ASSUME NEW u \in Accounts
      PROVE  /\ users[u] \in Rows /\ users[u].password_hash # None
             /\ <<users[u].username, users[u].email>> \in Identities
  <2>1. /\ users[u] = UserRow(who[u][1], who[u][2], u) /\ u \in UserIds
        /\ who[u] \in Identities /\ who[u] = <<who[u][1], who[u][2]>>
    BY <1>1, NamesAssumption DEF UserIds, Store!UserIds
  <2> QED  BY <2>1, NamesAssumption DEF UserRow, Rows, Keys
<1>6. ASSUME NEW u \in UserIds \ Accounts
      PROVE  users[u] = NoUser
  BY <1>1
<1>7. Typed /\ StoredRows
  <2>1. users \in [UserIds -> Rows \cup {NoUser}]
    BY <1>1, <1>5, <1>6
  <2> QED  BY <1>3, <1>4, <1>5, <1>6, <2>1 DEF Typed, StoredRows, NoRole
<1>8. ASSUME NEW c \in Calls
      PROVE  Sound(c)
  <2>1. users[c] = NoUser /\ roles[c] = NoRole
    BY <1>3, <1>6, NamesAssumption DEF UserIds, Store!UserIds
  <2> QED
    BY <1>3, <1>4, <2>1, NamesAssumption
    DEF Sound, Staged, Written, Claimed, Inserting, At, Writing, Renames, OpNames
<1>9. \A c, d \in Calls : Apart(c, d)
  BY <1>3, <1>4 DEF Apart, Writing, At
<1> QED  BY <1>2, <1>7, <1>8, <1>9 DEF PgInv

LEMMA PgStep == PgInv /\ [Next]_vars => PgInv'
<1> SUFFICES ASSUME PgInv, [Next]_vars PROVE PgInv'
  OBVIOUS
<1>1. CASE UNCHANGED vars
  <2>1. (Typed /\ UsernameAliveUidx(users) /\ EmailAliveUidx(users) /\ StoredRows)'
    BY <1>1 DEF vars, PgInv, Typed, UsernameAliveUidx, EmailAliveUidx, StoredRows
  <2>2. ASSUME NEW c \in Calls PROVE Sound(c)'
    <3>1. Sound(c)
      BY DEF PgInv
    <3>2. Staged(c)' /\ Inserting(c)'
      BY <1>1, <3>1 DEF vars, Sound, Staged, Inserting, At, Renames, Store!Named
    <3>3. Written(c)'
      BY <1>1, <3>1 DEF vars, Sound, Written, At, Writing, NewVersion
    <3>4. Claimed(c)'
      BY <1>1, <3>1 DEF vars, Sound, Claimed, Writing, Renames, Duplicate
    <3> QED  BY <3>2, <3>3, <3>4 DEF Sound
  <2>3. \A c, d \in Calls : c # d => Apart(c, d)'
    BY <1>1 DEF vars, PgInv, Apart, Writing, At
  <2> QED  BY <2>1, <2>2, <2>3 DEF PgInv
<1>2. ASSUME NEW c \in Calls, Step(c) PROVE PgInv'
  BY <1>2, BeginInv, LockRowInv, InsertsInv, CredentialInv, CommitRowInv,
     CommitRoleInv, SelectInv, InsertRoleInv, RollbackInv, FailuresInv DEF Step
<1>3. ASSUME NEW c \in Calls, Failure(c) PROVE PgInv'
  BY <1>3, DropInv, FailuresInv DEF Failure
<1> QED  BY <1>1, <1>2, <1>3, CallInv DEF Next

-----------------------------------------------------------------------------
(* The theorems                                                            *)

\* Every variable of the transactions keeps its type, however many calls
\* overlap and whatever fails.
THEOREM PgTypeCorrect == Spec => []TypeOK
<1>1. PgInv => TypeOK
  <2> SUFFICES ASSUME PgInv PROVE TypeOK
    OBVIOUS
  <2>1. \A u \in UserIds : users[u] \in Rows \/ users[u] = NoUser
    BY DEF PgInv, Typed
  <2>2. \A u \in UserIds :
          /\ users[u].status \in {"absent", "alive", "deleted"}
          /\ users[u].status # "absent" =>
               <<users[u].username, users[u].email>> \in Identities
    BY <2>1, RealRow DEF PgInv, StoredRows, Rows, NoUser
  <2>3. \A c \in Calls :
          /\ call[c] \in Asked /\ tx[c] \in Transactions
          /\ tx[c].pc \in {"Idle", "Begin", "Return"} => ~Writing(c)
    BY DEF PgInv, Typed, Sound, Written
  <2> QED  BY <2>2, <2>3 DEF PgInv, Typed, TypeOK, Asked, Transactions
<1> QED  BY <1>1, PgInit, PgStep, PTL DEF Spec

\* create (src/repo/postgres.rs) never shows an account without its
\* credential, whichever of its statements fails and whatever runs beside it.
THEOREM NoAccountByHalves == Spec => []NoHalfAccount
<1>1. PgInv => NoHalfAccount
  BY DEF PgInv, StoredRows, NoHalfAccount
<1> QED  BY <1>1, PgInit, PgStep, PTL DEF Spec

-----------------------------------------------------------------------------
(* PgTransactions implements AtomicStore: every step of the overlapping    *)
(* transactions is a step of AtomicStore or one its callers do not see.    *)


LEMMA IndexesAlike ==
  ASSUME NEW t
  PROVE  /\ Store!UsernameAliveUidx(t) <=> UsernameAliveUidx(t)
         /\ Store!EmailAliveUidx(t) <=> EmailAliveUidx(t)
BY DEF Store!UsernameAliveUidx, UsernameAliveUidx, Store!EmailAliveUidx,
       EmailAliveUidx, Store!Alive, Alive

\* A call that has a transaction is pending.
LEMMA IsPending ==
  ASSUME PgInv, NEW c \in Calls, tx[c].pc \notin {"Idle", "Rollback", "Return"}
  PROVE  Store!Pending(c)
BY DEF PgInv, Sound, Staged, At, Store!Pending

\* The renamed row conflicts in the table of the instant it is refused in.
LEMMA ConflictMaps ==
  ASSUME PgInv, NEW c \in Calls,
         tx[c].pc \in {"InsertUsername", "InsertEmail"},
         NEW index \in {"username", "email"},
         call[c][index] # None, Duplicate(c, index),
         Answer(c, "Conflict"), UNCHANGED <<users, roles>>
  PROVE  Store!Next
<1> DEFINE l == call[c]
<1>1. /\ Sound(c) /\ Store!Pending(c) /\ l \in Asked
      /\ users \in [UserIds -> Rows \cup {NoUser}]
  BY IsPending DEF PgInv, Typed
<1>2. l.op \in {"create", "update"} /\ l.id \in UserIds
  <2>1. l.op \in {"create", "update"}
    BY <1>1 DEF Sound, Staged, StageOps
  <2> QED  BY <1>1, <2>1 DEF Sound, Staged, UserIds, Store!UserIds
<1>3. PICK v \in UserIds \ {l.id} : Alive(users[v]) /\ users[v][index] = l[index]
  BY DEF Duplicate
<1>4. ASSUME NEW t, DOMAIN t = UserIds, \A u \in UserIds \ {l.id} : t[u] = users[u],
             t[l.id].status = "alive", t[l.id].username = l.username,
             t[l.id].email = l.email
      PROVE  ~(Store!UsernameAliveUidx(t) /\ Store!EmailAliveUidx(t))
  BY <1>2, <1>3, <1>4 DEF Store!UsernameAliveUidx, Store!EmailAliveUidx,
                          Store!Alive, Alive
<1>5. CASE l.op = "create"
  <2> DEFINE t == [users EXCEPT ![c] = Store!UserRow(l.username, l.email, c)]
  <2>1. l.id = c
    BY <1>1, <1>5 DEF Sound, Staged
  <2>2. /\ DOMAIN t = UserIds /\ \A u \in UserIds \ {l.id} : t[u] = users[u]
        /\ t[l.id].status = "alive" /\ t[l.id].username = l.username
        /\ t[l.id].email = l.email
    BY <1>1, <1>2, <2>1 DEF Store!UserRow
  <2>3. Store!PgCreate(users, c, l.username, l.email, c) = Store!Reply(users, "Conflict")
    BY <1>4, <2>2 DEF Store!PgCreate, Store!PgGuarded
  <2>4. Store!Create(c)
    BY <1>1, <1>5, <2>3 DEF Store!Create, Store!TakesEffect, Store!Reply,
                            Store!Answer, Answer
  <2> QED  BY <2>4 DEF Store!Next
<1>6. CASE l.op = "update"
  <2> DEFINE t == [users EXCEPT ![l.id].username = l.username,
                                ![l.id].email = l.email]
  <2>0. tx[c].pc \in {"InsertUsername", "InsertEmail"} => Writing(c)
    BY <1>1, <1>6 DEF Sound, Written, At
  <2>1. Alive(users[l.id])
    BY <1>1, <1>6, <2>0 DEF Sound, Written
  <2>2. users[l.id] \in Rows
    BY <1>1, <1>2, <2>1 DEF Alive, NoUser
  <2>3. /\ DOMAIN t = UserIds /\ \A u \in UserIds \ {l.id} : t[u] = users[u]
        /\ t[l.id].status = "alive" /\ t[l.id].username = l.username
        /\ t[l.id].email = l.email
    BY <1>1, <1>2, <2>1, <2>2 DEF Rows, Alive
  <2> HIDE DEF t
  <2>4. ~(Store!UsernameAliveUidx(t) /\ Store!EmailAliveUidx(t))
    BY <1>4, <2>3
  <2>5. Store!PgUpdate(users, l.id, l.username, l.email)
          = Store!Reply(users, "Conflict")
    BY <2>1, <2>4 DEF Store!PgUpdate, Store!PgGuarded, Store!Alive, Alive, t
  <2>6. Store!Update(c)
    BY <1>1, <1>6, <2>5 DEF Store!Update, Store!TakesEffect, Store!Reply,
                            Store!Answer, Answer
  <2> QED  BY <2>6 DEF Store!Next
<1> QED  BY <1>2, <1>5, <1>6

\* A commit is the instant create, update or soft_delete takes effect.
LEMMA CommitRowMaps ==
  ASSUME PgInv, NEW c \in Calls, Commit(c), call[c].op # "upsert"
  PROVE  Store!Next
<1> DEFINE l == call[c]
           row == tx[c].row
           t == [users EXCEPT ![l.id] = row]
<1>1. /\ tx[c].pc = "Commit" /\ At(c, "Commit") /\ UNCHANGED roles
      /\ users' = Visible(c, "Commit", row)
      /\ Answer(c, "Ok") \/ Answer(c, "Internal")
  BY DEF Commit, At
<1>2. /\ Sound(c) /\ Store!Pending(c) /\ l \in Asked
      /\ users \in [UserIds -> Rows \cup {NoUser}]
  BY <1>1, IsPending DEF PgInv, Typed
<1>3. l.op \in {"create", "update", "soft_delete"}
  BY <1>1, <1>2 DEF Sound, Staged, StageOps, OpNames
<1>4. users' = t
  BY <1>1, <1>3 DEF Visible, CommitsAt
<1>5. Writing(c) /\ l.id \in UserIds
  BY <1>1, CommittedRow
<1>6. Store!UsernameAliveUidx(t) /\ Store!EmailAliveUidx(t)
  BY <1>1, IndexesAccept, IndexesAlike
<1>7. CASE l.op = "create"
  <2>1. l.id = c /\ row = Store!UserRow(l.username, l.email, c)
    BY <1>1, <1>2, <1>5, <1>7 DEF Sound, Staged, Written, Store!UserRow, UserRow
  <2>2. Store!PgCreate(users, c, l.username, l.email, c) = Store!Reply(t, "Ok")
    BY <1>6, <2>1 DEF Store!PgCreate, Store!PgGuarded
  <2> HIDE DEF t
  <2>3. Store!Create(c)
    BY <1>1, <1>2, <1>4, <1>7, <2>2 DEF Store!Create, Store!TakesEffect, Store!Reply,
                                        Store!Answer, Answer
  <2> QED  BY <2>3 DEF Store!Next
<1>8. CASE l.op # "create"
  <2>1. Alive(users[l.id]) /\ row = NewVersion(l)
    BY <1>2, <1>5, <1>8 DEF Sound, Written
  <2>2. users[l.id] \in Rows
    BY <1>2, <1>5, <2>1 DEF Alive, NoUser
  <2>3. CASE l.op = "update"
    <3> DEFINE w == [users EXCEPT ![l.id].username = l.username,
                                  ![l.id].email = l.email]
    <3>1. t = w
      BY <1>2, <1>5, <2>1, <2>2, <2>3 DEF NewVersion, Rows
    <3>2. Store!PgUpdate(users, l.id, l.username, l.email) = Store!Reply(w, "Ok")
      BY <1>6, <2>1, <3>1 DEF Store!PgUpdate, Store!PgGuarded, Store!Alive, Alive
    <3> HIDE DEF t, w
    <3>3. Store!Update(c)
      BY <1>1, <1>2, <1>4, <2>3, <3>1, <3>2
      DEF Store!Update, Store!TakesEffect, Store!Reply, Store!Answer, Answer
    <3> QED  BY <3>3 DEF Store!Next
  <2>4. CASE l.op = "soft_delete"
    <3> DEFINE w == [users EXCEPT ![l.id].status = "deleted"]
    <3>1. t = w
      BY <1>2, <1>5, <2>1, <2>2, <2>4 DEF NewVersion, Rows
    <3>2. Store!PgSoftDelete(users, l.id) = Store!Reply(w, "Ok")
      BY <2>1 DEF Store!PgSoftDelete, Store!Alive, Alive
    <3> HIDE DEF t, w
    <3>3. Store!SoftDelete(c)
      BY <1>1, <1>2, <1>4, <2>4, <3>1, <3>2
      DEF Store!SoftDelete, Store!TakesEffect, Store!Reply, Store!Answer, Answer
    <3> QED  BY <3>3 DEF Store!Next
  <2> QED  BY <1>3, <1>8, <2>3, <2>4
<1> QED  BY <1>7, <1>8

\* upsert takes effect when it reads the role, commits it, or finds that
\* another upsert has.
LEMMA UpsertMaps ==
  ASSUME PgInv, NEW c \in Calls,
         Select(c) \/ InsertRole(c) \/ (Commit(c) /\ call[c].op = "upsert")
  PROVE  Store!Next \/ UNCHANGED <<users, roles, call>>
<1> DEFINE l == call[c]
           role == call[c].username
<1>1. tx[c].pc \in {"Select", "InsertRole", "Commit"}
  BY DEF Select, InsertRole, Commit, At
<1>2. /\ Sound(c) /\ Store!Pending(c)
      /\ roles \in [Calls -> RoleNames \cup {None}]
  BY <1>1, IsPending DEF PgInv, Typed
<1>3. l.op = "upsert"
  BY <1>2 DEF Select, InsertRole, At, Sound, Staged, StageOps
<1>4. Store!Named(role) = {g \in DOMAIN roles : roles[g] = role}
  BY <1>2 DEF Store!Named
<1>5. CASE Select(c)
  <2>1. CASE Store!Named(role) = {} /\ Goto(c, "BeginInsert") /\ UNCHANGED call
    BY <1>5, <2>1 DEF Select
  <2>2. ASSUME NEW g \in Store!Named(role),
               call' = [call EXCEPT ![c].id = g, ![c].ans = "Ok"]
        PROVE  Store!Next
    <3>1. Store!Reply(roles, g) \in Store!PgUpsert(roles, c, role)
      BY <1>4 DEF Store!PgUpsert
    <3>2. Store!Upsert(c)
      BY <1>2, <1>3, <1>5, <2>2, <3>1 DEF Select, Store!Upsert, Store!Reply
    <3> QED  BY <3>2 DEF Store!Next
  <2> QED  BY <1>5, <2>1, <2>2 DEF Select
<1>6. CASE Commit(c)
  <2>1. Store!Named(role) = {}
    BY <1>2, <1>3, <1>6 DEF Commit, Sound, Inserting
  <2>2. Store!Reply([roles EXCEPT ![c] = role], c) \in Store!PgUpsert(roles, c, role)
    BY <1>4, <2>1 DEF Store!PgUpsert
  <2>3. Store!Upsert(c)
    BY <1>2, <1>3, <1>6, <2>2
    DEF Commit, Store!Upsert, Store!Reply, Store!Answer, Answer
  <2> QED  BY <2>3 DEF Store!Next
<1>7. CASE InsertRole(c)
  <2>1. CASE Store!Named(role) = {} /\ UNCHANGED call
    BY <1>7, <2>1 DEF InsertRole
  <2>2. CASE Store!Named(role) # {} /\ Answer(c, "Conflict")
    <3>1. ~l.known
      BY <1>2, <1>3, <1>7 DEF InsertRole, At, Sound, Inserting
    <3>2. Store!LostUpsert(c)
      BY <1>2, <1>3, <1>7, <2>2, <3>1
      DEF InsertRole, Store!LostUpsert, Store!Answer, Answer
    <3> QED  BY <3>2 DEF Store!Next
  <2> QED  BY <1>7, <2>1, <2>2 DEF InsertRole
<1> QED  BY <1>5, <1>6, <1>7

\* A call that fails is refused.
LEMMA RefusalMaps ==
  ASSUME PgInv, NEW c \in Calls,
         DeadlockVictim(c) \/ AcquireTimeout(c) \/ ConnectionLost(c)
           \/ DropTransaction(c)
  PROVE  Store!Next
<1>1. Answer(c, "Internal") /\ UNCHANGED <<users, roles>>
  BY DEF DeadlockVictim, AcquireTimeout, ConnectionLost, DropTransaction
<1>2. tx[c].pc \notin {"Idle", "Rollback", "Return"}
  BY DEF DeadlockVictim, AcquireTimeout, ConnectionLost, DropTransaction,
         Deadlocked, Blockers, HoldsConnection, At
<1>3. Store!Refuse(c)
  BY <1>1, <1>2, IsPending DEF Store!Refuse, Store!Answer, Answer
<1> QED  BY <1>3 DEF Store!Next

\* The row an update or soft_delete wants is not there.
LEMMA LockRowMaps ==
  ASSUME PgInv, NEW c \in Calls, LockRow(c)
  PROVE  Store!Next \/ UNCHANGED <<users, roles, call>>
<1> DEFINE l == call[c]
<1>1. tx[c].pc = "LockRow" /\ UNCHANGED <<users, roles>>
  BY DEF LockRow, At
<1>2. Sound(c) /\ Store!Pending(c)
  BY <1>1, IsPending DEF PgInv
<1>3. l.op \in {"update", "soft_delete"}
  BY <1>1, <1>2 DEF Sound, Staged, StageOps
<1>4. CASE ~Matches(users[l.id]) /\ Answer(c, "NotFound")
  <2>1. /\ Store!PgUpdate(users, l.id, l.username, l.email)
             = Store!Reply(users, "NotFound")
        /\ Store!PgSoftDelete(users, l.id) = Store!Reply(users, "NotFound")
    BY <1>4 DEF Matches, Alive, Store!Alive, Store!PgUpdate, Store!PgSoftDelete
  <2>2. Store!Update(c) \/ Store!SoftDelete(c)
    BY <1>1, <1>2, <1>3, <1>4, <2>1
    DEF Store!Update, Store!SoftDelete, Store!TakesEffect, Store!Reply,
        Store!Answer, Answer
  <2> QED  BY <2>2 DEF Store!Next
<1> QED  BY <1>1, <1>4 DEF LockRow

LEMMA InsertMaps ==
  ASSUME PgInv, NEW c \in Calls, InsertUsername(c) \/ InsertEmail(c)
  PROVE  Store!Next \/ UNCHANGED <<users, roles, call>>
<1>1. PICK step \in {"InsertUsername", "InsertEmail"}, index \in {"username", "email"} :
        \E row : Insert(c, step, index, row)
  BY DEF InsertUsername, InsertEmail
<1>2. PICK row : Insert(c, step, index, row)
  BY <1>1
<1>3. tx[c].pc = step /\ UNCHANGED roles
  BY <1>2 DEF Insert, At
<1>4. CASE users' = Visible(c, step, row) /\ UNCHANGED call
  <2>0. Sound(c)
    BY DEF PgInv
  <2>1. call[c].op \in {"create", "update"}
    BY <1>3, <2>0 DEF Sound, Staged, StageOps
  <2> QED  BY <1>3, <1>4, <2>1 DEF Visible, CommitsAt
<1>5. CASE /\ call[c][index] # None /\ Duplicate(c, index)
           /\ Answer(c, "Conflict") /\ UNCHANGED users
  BY <1>3, <1>5, ConflictMaps
<1> QED  BY <1>2, <1>4, <1>5 DEF Insert

LEMMA StoreStep ==
  ASSUME PgInv, [Next]_vars
  PROVE  Store!Next \/ UNCHANGED <<users, roles, call>>
<1>1. ASSUME NEW c \in Calls, Call(c) PROVE Store!Next
  BY <1>1 DEF Call, Store!Next
<1>2. ASSUME NEW c \in Calls, Credential(c) PROVE UNCHANGED <<users, roles, call>>
  <2>0. Sound(c)
    BY DEF PgInv
  <2>1. call[c].op = "create"
    BY <1>2, <2>0 DEF Credential, At, Sound, Staged, StageOps
  <2> QED  BY <1>2, <2>1 DEF Credential, Visible, CommitsAt
<1>3. ASSUME NEW c \in Calls, Begin(c) \/ Rollback(c)
      PROVE  UNCHANGED <<users, roles, call>>
  BY <1>3 DEF Begin, Rollback
<1>4. CASE UNCHANGED vars
  BY <1>4 DEF vars
<1> QED
  BY <1>1, <1>2, <1>3, <1>4, LockRowMaps, InsertMaps, CommitRowMaps, UpsertMaps,
     RefusalMaps DEF Next, Step, Failure

\* PgUserRepo and PgRoleRepo::upsert (src/repo/postgres.rs) on any number of
\* connections, however their transactions overlap, block, deadlock, break or
\* are dropped: each call takes effect at one instant with the answer of that
\* instant, or has no effect and answers Internal; upsert answers Conflict
\* only for a role that appeared while it ran.
THEOREM TransactionsAreAtomic == Spec => ImplementsStore
<1>1. Init => Store!Init
  BY DEF Init
<1>2. PgInv /\ [Next]_vars => [Store!Next]_Store!vars
  BY StoreStep DEF Store!vars
<1> QED
  BY <1>1, <1>2, PgInit, PgStep, PTL DEF Spec, ImplementsStore, Store!Spec
=============================================================================
