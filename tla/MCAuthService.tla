--------------------------- MODULE MCAuthService ---------------------------
(***************************************************************************)
(* Constants for model checking AuthService.  The raw identifiers " A" and *)
(* "a" normalize to the same string.                                       *)
(***************************************************************************)
EXTENDS AuthService, TLC

MCStrings == {" A", "a", "b", "a@b"}
MCNormalize == (" A" :> "a") @@ [x \in {"a", "b", "a@b"} |-> x]

SessionSymmetry == Permutations(SessionIds)
Symmetry == SessionSymmetry \cup Permutations(Requests)
PasswordSymmetry == Permutations(Passwords) \cup Symmetry
AccountSymmetry == Permutations(UserIds) \cup Symmetry
=============================================================================
