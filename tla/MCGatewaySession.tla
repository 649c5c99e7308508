-------------------------- MODULE MCGatewaySession --------------------------
(***************************************************************************)
(* Instances of GatewaySession for TLC: two users, either of whom may     *)
(* hold any of the connections, and two session ids, so that a connection  *)
(* may resume the session of another while it has its own.                 *)
(***************************************************************************)
EXTENDS GatewaySession, TLC

(* Connections and session ids are interchangeable.                        *)
Symmetry == Permutations(Conns) \cup Permutations(SessionIds)
=============================================================================
