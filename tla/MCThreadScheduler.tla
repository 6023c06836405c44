-------------------------- MODULE MCThreadScheduler --------------------------
(* Small instances of ThreadScheduler for TLC. Class 0 may use half of its    *)
(* period and class 1 the whole, as classes of the default policy do.         *)
EXTENDS ThreadScheduler

TwoClasses == {0, 1}
\* The policies: index is class + 1.
Policy(a, b) == [c \in {0, 1} |-> IF c = 0 THEN a ELSE b]
Ones == Policy(1, 1)
MCBudget == Policy(1, 2)
TwoLinks == {<<2>>, <<2, 3>>}
NoChains == {}

\* A class that grants a whole period, as Interactive does.
Whole == Policy(2, 2)
Donors == [k \in Keys |-> CASE k = 1 -> {0} [] k = 2 -> {1} [] k = 3 -> {0, 1}]
LastWeak == [k \in Keys |-> IF k = 3 THEN {1} ELSE {0}]

\* For liveness: threads come and stay, and no time passes between dispatches
\* while a thread is queued.
SteadyNext ==
    /\ Next
    /\ Live \subseteq DOMAIN threads'
    /\ running = None /\ (\E c \in Classes : queues[c] # <<>>) =>
         \A k \in Live : threads'[k].into <= threads[k].into
SteadySpec == Init /\ [][SteadyNext]_vars /\ Fairness
=============================================================================
