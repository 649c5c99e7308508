------------------------- MODULE MCMessagePipeline -------------------------
(***************************************************************************)
(* Instances of MessagePipeline for TLC: two slots, so that any two        *)
(* handlers meet at every pair of calls.                                   *)
(***************************************************************************)
EXTENDS MessagePipeline
=============================================================================
