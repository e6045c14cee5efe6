---------------------------- MODULE MCRepoParity ----------------------------
(***************************************************************************)
(* Constants for model checking RepoParity.                                *)
(***************************************************************************)
EXTENDS RepoParity, TLC

Symmetry == Permutations(UserIds) \cup Permutations(SessionIds)
              \cup Permutations(RoleIds) \cup Permutations(Hashes)
=============================================================================
