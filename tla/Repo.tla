-------------------------------- MODULE Repo --------------------------------
(***************************************************************************)
(* The rows and results the repository ports of src/repo/mod.rs exchange   *)
(* with the service, shared by the in-memory and the Postgres              *)
(* implementation.                                                         *)
(*                                                                         *)
(* A table is a total function from ids to rows; an id that no call ever   *)
(* used maps to NoUser / NoSession.  A credential (user_password) is the   *)
(* password_hash field of its user's row: both implementations write the   *)
(* two together.  Audit columns and display names are left out: nothing    *)
(* reads them.  email_verified is left out: every statement of the code    *)
(* that writes it writes FALSE.  A write returns the table it leaves       *)
(* behind and the Result variant it answers.                               *)
(***************************************************************************)
EXTENDS Integers, FiniteSets, Sequences

CONSTANT None           \* Option::None, and "no such row"

NoUser == [status |-> "absent", username |-> None, email |-> None,
           password_hash |-> None]

NoSession == [user |-> None, token_hash |-> None, expires_at |-> 0,
              revoked |-> FALSE]

UserRow(username, email, hash) ==
    [status |-> "alive", username |-> username, email |-> email,
     password_hash |-> hash]

SessionRow(user, token_hash, expires_at) ==
    [user |-> user, token_hash |-> token_hash, expires_at |-> expires_at,
     revoked |-> FALSE]

\* A role table maps each id to its name; nothing deletes a role.
NoRole == None

\* deleted_at IS NULL on an existing row
Alive(row) == row.status = "alive"

\* the session row exists
Stored(row) == row.user # None

Reply(tab, ret) == [tab |-> tab, ret |-> ret]
=============================================================================
