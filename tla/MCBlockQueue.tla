---------------------------- MODULE MCBlockQueue ----------------------------
(* The block queue on small tables.                                          *)
EXTENDS BlockQueue

\* A write of two children, a flush, and a background read with a deadline.
ThreeKinds ==
    {[op |-> "Write", priority |-> 0, children |-> 2, deadline |-> None],
     [op |-> "Flush", priority |-> 1, children |-> 1, deadline |-> None],
     [op |-> "Read", priority |-> 2, children |-> 1, deadline |-> 1]}

OneDisk == {[depth |-> 2, flush |-> TRUE]}
OneOneTwo == [p \in Priorities |-> IF p = Background THEN 2 ELSE 1]
=============================================================================
