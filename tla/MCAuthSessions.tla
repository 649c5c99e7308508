--------------------------- MODULE MCAuthSessions ---------------------------
(***************************************************************************)
(* Instances of AuthSessions for TLC: two slots, so that any two handlers  *)
(* meet at every pair of calls.                                            *)
(***************************************************************************)
EXTENDS AuthSessions, TLC

Symmetry == Permutations(Slots) \cup Permutations(Users) \cup Permutations(Tokens)
=============================================================================
