------------------------------- MODULE MCRoles -------------------------------
(***************************************************************************)
(* Instances of Roles for TLC: an owner and a member, whose requests meet  *)
(* at every pair of statements.                                            *)
(***************************************************************************)
EXTENDS Roles, TLC

Lowest == -1

Symmetry == Permutations(Slots) \cup Permutations(Roles \ {Everyone})
=============================================================================
