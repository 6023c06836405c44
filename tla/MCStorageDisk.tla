---------------------------- MODULE MCStorageDisk ----------------------------
(* Storage on a small pool.                                                   *)
EXTENDS StorageDisk

\* A write of two pages in two commands, twice over; a read of one page; a flush.
Transfers ==
    {[op |-> "Write", priority |-> 0, children |-> 2, deadline |-> 2, pages |-> 2, chunks |-> 2],
     [op |-> "Read", priority |-> 0, children |-> 1, deadline |-> 2, pages |-> 1, chunks |-> 1],
     [op |-> "Flush", priority |-> 0, children |-> 1, deadline |-> 2, pages |-> 0, chunks |-> 1]}
TheDisk == [depth |-> 2, flush |-> TRUE]
OneDisk == {TheDisk}
Ones == [p \in Priorities |-> 1]
=============================================================================
