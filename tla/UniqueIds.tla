------------------------------ MODULE UniqueIds ------------------------------
(***************************************************************************)
(* What the rest of the server relies on when it asks for an id: primary   *)
(* keys are never issued twice, by any machine, and the ids of one machine *)
(* sort in the order they were issued (history is paged by id, and the     *)
(* newest message of a channel is the one with the greatest id).           *)
(***************************************************************************)
EXTENDS Naturals, Sequences

CONSTANT Machines

VARIABLE issued   \* issued[m]: the ids machine m has handed out, in order

Ids(log) == {log[i] : i \in DOMAIN log}

Init == issued = [m \in Machines |-> <<>>]

Issue(m) ==
    \E id \in Ids(issued'[m]) :
        /\ id \in Nat
        /\ \A earlier \in Ids(issued[m]) : earlier < id
        /\ \A n \in Machines : id \notin Ids(issued[n])
        /\ issued' = [issued EXCEPT ![m] = Append(@, id)]

Next == \E m \in Machines : Issue(m)

Spec == Init /\ [][Next]_issued
=============================================================================
