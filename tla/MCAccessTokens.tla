--------------------------- MODULE MCAccessTokens ---------------------------
(***************************************************************************)
(* Constants for model checking AccessTokens.                              *)
(***************************************************************************)
EXTENDS AccessTokens, TLC

MCStrings == {"a"}
MCNormalize == [x \in MCStrings |-> x]

Symmetry == Permutations(SessionIds) \cup Permutations(Requests)
              \cup Permutations(UserIds)
=============================================================================
