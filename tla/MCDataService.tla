--------------------------- MODULE MCDataService ---------------------------
(***************************************************************************)
(* Instances of DataService for TLC.  Three calls are what it takes for a  *)
(* leader, a follower and a call that arrives as the entry goes.           *)
(***************************************************************************)
EXTENDS DataService, TLC

(* Calls are interchangeable, and so are keys.                             *)
Symmetry == Permutations(Callers) \cup Permutations(Keys)
=============================================================================
