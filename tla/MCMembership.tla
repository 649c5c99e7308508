--------------------------- MODULE MCMembership ---------------------------
(***************************************************************************)
(* Instances of Membership for TLC: two slots, so that any two handlers    *)
(* meet at every pair of statements.                                       *)
(***************************************************************************)
EXTENDS Membership, TLC

(* Slots, users and invites are interchangeable.                           *)
Symmetry == Permutations(Slots) \cup Permutations(Users) \cup Permutations(Invites)
===========================================================================
