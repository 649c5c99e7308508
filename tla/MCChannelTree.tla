---------------------------- MODULE MCChannelTree ----------------------------
(***************************************************************************)
(* Instances of ChannelTree for TLC: two slots, so that any two handlers   *)
(* meet at every pair of statements.                                       *)
(***************************************************************************)
EXTENDS ChannelTree, TLC

Symmetry == Permutations(Slots) \cup Permutations(Channels) \cup Permutations(Targets)
            \cup Permutations(Webhooks)
=============================================================================
