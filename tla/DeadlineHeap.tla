---------------------------- MODULE DeadlineHeap ----------------------------
(* The indexed binary heap of deadlines (wait_runtime.rs; request.rs has the *)
(* same code): a sequence of entries [at, token], and for every slot the     *)
(* position of its entry, which is what makes removal direct. Positions      *)
(* count from 1, and 0 stands for none.                                      *)
EXTENDS Integers, Sequences

\* ordering_key: the deadline, then the raw token, generation first.
KeyOf(e) == <<e.at, e.token.gen, e.token.index>>
Earlier(a, b) ==
    \/ KeyOf(a)[1] < KeyOf(b)[1]
    \/ KeyOf(a)[1] = KeyOf(b)[1] /\ KeyOf(a)[2] < KeyOf(b)[2]
    \/ KeyOf(a)[1] = KeyOf(b)[1] /\ KeyOf(a)[2] = KeyOf(b)[2] /\ KeyOf(a)[3] < KeyOf(b)[3]

\* set_heap_index
Indexed(s, i) == [s EXCEPT !.pos[s.heap[i].token.index] = i]

\* swap_deadlines
Swapped(s, i, j) ==
    Indexed(Indexed([s EXCEPT !.heap[i] = s.heap[j], !.heap[j] = s.heap[i]], i), j)

\* One turn of sift_deadline_up and of sift_deadline_down, at position s.at.
UpStep(s) ==
    LET p == s.at \div 2
    IN  IF s.at > 1 /\ Earlier(s.heap[s.at], s.heap[p]) THEN [Swapped(s, p, s.at) EXCEPT !.at = p] ELSE s

Smaller(h, l) == IF l + 1 <= Len(h) /\ Earlier(h[l + 1], h[l]) THEN l + 1 ELSE l
DownStep(s) ==
    LET l == 2 * s.at
        c == Smaller(s.heap, l)
    IN  IF l <= Len(s.heap) /\ Earlier(s.heap[c], s.heap[s.at])
        THEN [Swapped(s, s.at, c) EXCEPT !.at = c] ELSE s

\* The loops, which end after at most as many turns as there are entries.
SiftedUp(s) ==
    LET after[n \in 0..Len(s.heap)] == IF n = 0 THEN s ELSE UpStep(after[n - 1])
    IN  after[Len(s.heap)]
SiftedDown(s) ==
    LET after[n \in 0..Len(s.heap)] == IF n = 0 THEN s ELSE DownStep(after[n - 1])
    IN  after[Len(s.heap)]

\* push_deadline
Pushed(h, pos, e) ==
    LET n == Len(h) + 1
    IN  SiftedUp(Indexed([heap |-> Append(h, e), pos |-> pos, at |-> n], n))

\* remove_deadline_at: the last entry takes the place and is sifted either way.
RemovedAt(h, pos, i) ==
    LET n == Len(h) - 1
        freed == [heap |-> SubSeq(h, 1, n), pos |-> [pos EXCEPT ![h[i].token.index] = 0], at |-> i]
        moved == Indexed([freed EXCEPT !.heap[i] = h[n + 1]], i)
    IN  IF i > n THEN freed
        ELSE IF i > 1 /\ Earlier(moved.heap[i], moved.heap[i \div 2]) THEN SiftedUp(moved)
        ELSE SiftedDown(moved)

\* No entry is earlier than its parent.
HeapOrdered(h) == \A i \in 2..Len(h) : ~Earlier(h[i], h[i \div 2])
=============================================================================
