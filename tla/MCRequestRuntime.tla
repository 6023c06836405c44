--------------------------- MODULE MCRequestRuntime ---------------------------
(* Small instances of RequestRuntime for TLC. *)
EXTENDS RequestRuntime

CONSTANTS p1, t1, t2, d1

o1 == [process |-> p1, thread |-> 1]
o2 == [process |-> p1, thread |-> 2]
MCOwners == {o1, o2}

\* Two threads, two targets, a device and a deadline; a batch may name one
\* target or one owner twice.
TwoTargets ==
    {[owner |-> o1, target |-> t1, device |-> d1, deadline |-> 1, cost |-> 1],
     [owner |-> o2, target |-> t1, device |-> None, deadline |-> None, cost |-> 1],
     [owner |-> o1, target |-> t2, device |-> None, deadline |-> None, cost |-> 1]}

\* Only Due reads the clock, and only when there is a deadline: a tick without
\* one can as well come right after the submission that brings the next.
ClockWaits == now' # now => deadlines # {}

GoodOutcome == {[ok |-> TRUE, released |-> TRUE]}
=============================================================================
