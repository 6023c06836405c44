---------------------------- MODULE WaitRuntime ----------------------------
(* The kernel's table of blocked waits (wait_runtime.rs). A registration     *)
(* takes a slot and hands out its generation-tagged token; a notification    *)
(* queues a token through the observer's own copy of the slots; taking the   *)
(* next wake falls back to the deadline heap when nothing is ready.          *)
(*                                                                           *)
(* A runtime is a record, and each operation a function of it, because the   *)
(* kernel makes several calls in one uninterrupted step:                     *)
(*   slots     index -> [gen, retired, key, deadline]                        *)
(*   observer  index -> [gen, retired, active, queued]                       *)
(*   ready     the queue of [token, cause]                                   *)
(*   heap, pos the deadline heap and the slots' heap_index                   *)
(*   issued    history: the tokens handed out                                *)
(* The wait kind and the diagnostics are left out.                           *)
EXTENDS Integers, Sequences, FiniteSets, FiniteSetsExt, Functions, DeadlineHeap

CONSTANTS
    Keys,           \* scheduler keys
    Capacity,       \* number of slots
    MaxGeneration,  \* the last generation of a slot (u32::MAX in the code)
    Times,          \* the deadlines that occur
    None

ASSUME CapacityAssumption ==
    /\ Capacity \in Nat \ {0} /\ MaxGeneration \in Nat \ {0} /\ Times \subseteq Nat
    /\ None \notin Keys /\ None \notin Nat

Slots == 1..Capacity
Token == [index : Slots, gen : 1..MaxGeneration]
Causes == {"Object", "Dependency"}
TokenOf(r, i) == [index |-> i, gen |-> r.slots[i].gen]
Active(r, i) == r.slots[i].key # None

NewRuntime ==
    [slots    |-> [i \in Slots |-> [gen |-> 1, retired |-> FALSE, key |-> None, deadline |-> None]],
     observer |-> [i \in Slots |-> [gen |-> 1, retired |-> FALSE, active |-> FALSE, queued |-> FALSE]],
     ready |-> <<>>, heap |-> <<>>, pos |-> [i \in Slots |-> 0], issued |-> {}]

\* register takes the first slot that is neither in use nor retired, and fails
\* when there is none.
Vacant(r) == {i \in Slots : ~Active(r, i) /\ ~r.slots[i].retired}
NextToken(r) == TokenOf(r, Min(Vacant(r)))
Registered(r, key, deadline) ==
    LET t == NextToken(r)
        s == IF deadline = None THEN r ELSE Pushed(r.heap, r.pos, [at |-> deadline, token |-> t])
    IN  [r EXCEPT !.slots[t.index].key = key, !.slots[t.index].deadline = deadline,
                  !.observer[t.index].active = TRUE,
                  !.heap = s.heap, !.pos = s.pos, !.issued = @ \union {t}]

\* notify: stale tokens are refused and a queued one is not queued again.
Accepts(r, t) ==
    /\ r.observer[t.index].active /\ ~r.observer[t.index].retired
    /\ r.observer[t.index].gen = t.gen
Notified(r, t, cause) ==
    IF Accepts(r, t) /\ ~r.observer[t.index].queued
    THEN [r EXCEPT !.observer[t.index].queued = TRUE,
                   !.ready = Append(@, [token |-> t, cause |-> cause])]
    ELSE r

\* advanced_generation: the last generation retires the slot.
Advanced_Wraps(g) == [gen |-> IF g < MaxGeneration THEN g + 1 ELSE 1, retired |-> FALSE]
Advanced(g) ==
    IF g < MaxGeneration THEN [gen |-> g + 1, retired |-> FALSE] ELSE [gen |-> g, retired |-> TRUE]

\* deactivate
Deactivated_SameGeneration(o, a) == [o EXCEPT !.active = FALSE, !.queued = FALSE]
Deactivated(o, a) == [gen |-> a.gen, retired |-> a.retired, active |-> FALSE, queued |-> FALSE]

\* remove_slot_deadline
Untimed(r, i) == IF r.pos[i] = 0 THEN r ELSE RemovedAt(r.heap, r.pos, r.pos[i])

\* release_slot, with the two above
Released(r, i) ==
    LET a == Advanced(r.slots[i].gen)
        s == Untimed(r, i)
    IN  [r EXCEPT !.slots[i] = [gen |-> a.gen, retired |-> a.retired, key |-> None, deadline |-> None],
                  !.observer[i] = Deactivated(@, a), !.heap = s.heap, !.pos = s.pos]

\* cancel, with remove_ready; a stale token changes nothing.
Cancelled(r, t) ==
    IF Active(r, t.index) /\ r.slots[t.index].gen = t.gen
    THEN [Released(r, t.index) EXCEPT !.ready = SelectSeq(@, LAMBDA x : x.token # t)]
    ELSE r

\* cancel_key, and notify_dependency of token_for_key, for each of some keys.
CancelledKeys(r, keys) ==
    LET after[i \in 0..Capacity] ==
          IF i = 0 THEN r
          ELSE IF r.slots[i].key \in keys THEN Cancelled(after[i - 1], TokenOf(r, i)) ELSE after[i - 1]
    IN  after[Capacity]
NotifiedKeys(r, keys) ==
    LET after[i \in 0..Capacity] ==
          IF i = 0 THEN r
          ELSE IF r.slots[i].key \in keys THEN Notified(after[i - 1], TokenOf(r, i), "Dependency")
          ELSE after[i - 1]
    IN  after[Capacity]

\* next_wake: the first ready record, or else a due deadline. The code skips
\* records of no registration; IsReadyExact says that there is none.
Wakes(r, now) ==
    IF r.ready # <<>> THEN {Head(r.ready).token}
    ELSE IF r.heap # <<>> /\ r.heap[1].at <= now THEN {r.heap[1].token} ELSE {}
Woken(r, t) ==
    [Released(r, t.index) EXCEPT !.ready = IF @ = <<>> THEN @ ELSE Tail(@)]

-----------------------------------------------------------------------------
(* What holds of a runtime between calls *)

\* The observer's copy of each slot agrees with the slot.
IsMirrored(r) ==
    \A i \in Slots : /\ r.observer[i].gen = r.slots[i].gen
                     /\ r.observer[i].retired = r.slots[i].retired
                     /\ r.observer[i].active = Active(r, i)
                     /\ r.observer[i].queued => r.observer[i].active

\* The queue holds each queued registration once and nothing else.
IsReadyExact(r) ==
    /\ \A x \in Range(r.ready) : /\ x.token = TokenOf(r, x.token.index)
                                 /\ r.observer[x.token.index].queued
    /\ \A i \in Slots : r.observer[i].queued => \E x \in Range(r.ready) : x.token = TokenOf(r, i)
    /\ \A m, n \in DOMAIN r.ready : r.ready[m].token = r.ready[n].token => m = n

\* The heap holds the registered deadlines, in heap order, where pos says.
Timed(r) == {i \in Slots : Active(r, i) /\ r.slots[i].deadline # None}
IsHeapExact(r) ==
    /\ HeapOrdered(r.heap) /\ Len(r.heap) = Cardinality(Timed(r))
    /\ \A i \in Slots \ Timed(r) : r.pos[i] = 0
    /\ \A i \in Timed(r) : /\ r.pos[i] \in DOMAIN r.heap
                           /\ r.heap[r.pos[i]] = [at |-> r.slots[i].deadline, token |-> TokenOf(r, i)]
=============================================================================
