---------------------------- MODULE MCSnowflake ----------------------------
(***************************************************************************)
(* Two machines, one of them with two threads; two sequence numbers per    *)
(* millisecond, so that every third id of a millisecond has to wait.       *)
(***************************************************************************)
EXTENDS Snowflake, TLC

CONSTANTS t1, t2, t3

MCThreads == {t1, t2, t3}
MCHome == (t1 :> 1) @@ (t2 :> 1) @@ (t3 :> 0)

(* The clock of the machine with two threads takes one value more.         *)
MCMaxTime == (0 :> 1) @@ (1 :> 2)

Symmetry == Permutations({t1, t2})
=============================================================================
