--------------------------- MODULE MCRelationships ---------------------------
(***************************************************************************)
(* Instances of Relationships for TLC: two slots, so that any two handlers *)
(* meet at every pair of statements.                                       *)
(***************************************************************************)
EXTENDS Relationships, TLC

Symmetry == Permutations(Slots) \cup Permutations(Users) \cup Permutations(Channels)
=============================================================================
