-------------------------- MODULE MCPgTransactions --------------------------
(***************************************************************************)
(* Constants for model checking PgTransactions: two names, one e-mail.     *)
(***************************************************************************)
EXTENDS PgTransactions

CONSTANTS a, b, e

MCIdentities == {<<a, e>>, <<b, e>>, <<b, None>>}
=============================================================================
