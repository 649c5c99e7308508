------------------------- MODULE MCGatewayDispatch -------------------------
(***************************************************************************)
(* Instances of GatewayDispatch for TLC: two subjects, so that listeners   *)
(* overtake each other, and a channel and a replay list short enough to    *)
(* fill up.                                                                *)
(***************************************************************************)
EXTENDS GatewayDispatch, TLC

(* Subjects are interchangeable.                                           *)
Symmetry == Permutations(Listeners)

(* Where a former session or an ack is on the connection, two events are   *)
(* enough; the third, which overflows the list, comes in runs without.     *)
FewerEvents == heartbeats > 0 \/ Indices({"other"}) # {} => published <= 2
=============================================================================
