-------------------------------- MODULE SeqOps --------------------------------
(* Sequence operators shared by the modules.                                *)
EXTENDS Integers, Sequences, Functions

\* The elements of the sequences seqs[1], seqs[2], ... in order.
Concat(seqs) ==
    LET acc[n \in 0..Len(seqs)] == IF n = 0 THEN <<>> ELSE acc[n - 1] \o seqs[n]
    IN  acc[Len(seqs)]

\* The elements of s that are not in X, in order.
Without(s, X) == Concat([n \in DOMAIN s |-> IF s[n] \in X THEN <<>> ELSE <<s[n]>>])
=============================================================================
