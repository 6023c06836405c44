--------------------------- MODULE MCBlockedWaits ---------------------------
(* Two threads of one process and one of another. *)
EXTENDS BlockedWaits, TLC

CONSTANTS a1, a2, b1, A, B
ThreeThreads == a1 :> A @@ a2 :> A @@ b1 :> B

\* The threads of one process are alike.
Siblings == Permutations({a1, a2})

\* The heap is deeper than three threads can make it: with five deadlines, removing
\* any entry and then the first of the rest over and over returns them in order.
FiveDeadlines == [1..5 -> 1..3]
Entry(d, i) == [at |-> d[i], token |-> [index |-> i, gen |-> 1]]
Filled(d) ==
    LET after[n \in 0..5] ==
          IF n = 0 THEN [heap |-> <<>>, pos |-> [i \in 1..5 |-> 0], at |-> 0]
          ELSE Pushed(after[n - 1].heap, after[n - 1].pos, Entry(d, n))
    IN  after[5]
Exact(s) == /\ HeapOrdered(s.heap)
            /\ \A i \in 1..5 : s.pos[i] # 0 => s.heap[s.pos[i]].token.index = i
            /\ Cardinality({i \in 1..5 : s.pos[i] # 0}) = Len(s.heap)
ASSUME HeapWorks ==
    \A d \in FiveDeadlines, i \in 1..5 :
        LET full == Filled(d)
            after[n \in 0..4] ==
              IF n = 0 THEN RemovedAt(full.heap, full.pos, full.pos[i])
              ELSE RemovedAt(after[n - 1].heap, after[n - 1].pos, 1)
        IN  Exact(full) /\ \A n \in 0..4 : Exact(after[n])
=============================================================================
