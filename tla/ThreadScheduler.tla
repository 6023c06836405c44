--------------------------- MODULE ThreadScheduler ---------------------------
(* The thread scheduling policy (thread_scheduler.rs) as the kernel's        *)
(* process task drives it (main.rs): budgeted classes with FIFO queues,      *)
(* aging, earliest deadline first, throttling and bounded priority           *)
(* donation, on one processor.                                               *)
(*                                                                           *)
(* Class 0 is the strongest. Times are kept relative to the present: `into`  *)
(* is the age of a thread's budget period, `waited` the time since           *)
(* runnable_since_ns (up to the largest starvation bound) and `left` the     *)
(* time to the expiry of a donation. Deadlines matter only by their order,   *)
(* which `edf` keeps. The kernel derives a thread's authority from its       *)
(* class, so the authority checks never refuse it. A donor has one donation  *)
(* at a time, which its key names in place of the token. Metrics are left    *)
(* out.                                                                      *)
EXTENDS Integers, Sequences, FiniteSets, FiniteSetsExt, Functions

CONSTANTS
    Keys,           \* thread keys, ordered numbers
    Classes,        \* scheduling classes, 0 the strongest
    BaseClasses,    \* the base class each key may be given
    Quantum, Budget, Period, Starvation,    \* ClassPolicy, by class
    MaxDonation,    \* max_donation_ns
    Chains,         \* the donation chains callers build
    DeadlineKeys,   \* the threads that are given service deadlines
    SuspendKeys,    \* the threads that are blocked while they are queued
    WaitingKeys,    \* the threads that block in a system call
    Overrun,        \* how late the timer may end a dispatch
    MaxLag,         \* bound on the time between two maintenance passes
    None

ASSUME PolicyAssumption ==
    /\ Keys \subseteq Nat /\ IsFiniteSet(Keys) /\ None \notin Keys
    /\ Classes \subseteq Nat /\ IsFiniteSet(Classes)
    /\ BaseClasses \in [Keys -> SUBSET Classes]
    /\ \A f \in {Quantum, Budget, Period, Starvation} : f \in [Classes -> Nat \ {0}]
    /\ \A c \in Classes : Quantum[c] <= Budget[c] /\ Budget[c] <= Period[c]
    /\ MaxDonation \in Nat \ {0} /\ Overrun \in Nat /\ MaxLag \in Nat

VARIABLES
    threads,    \* live key -> [base, class (effective), state, budget, into, waited]
    queues,     \* class -> sequence of keys
    edf,        \* the threads with a deadline, earliest first
    donations,  \* the sequence of [root, class, left, chain]
    running,    \* the dispatched thread, or None
    ran         \* how long it has run

vars == <<threads, queues, edf, donations, running, ran>>

Live == DOMAIN threads
MaxWait == Max({Starvation[c] : c \in Classes})

Init ==
    /\ threads = [k \in {} |-> None]
    /\ queues = [c \in Classes |-> <<>>]
    /\ edf = <<>>
    /\ donations = <<>>
    /\ running = None
    /\ ran = 0

-----------------------------------------------------------------------------
(* Classes and queues *)

Without(q, K) == SelectSeq(q, LAMBDA k : k \notin K)

Ranked(q, k) == Append(Without(q, {k}), k)

\* effective_class_for: the strongest of the base class and the donations to k.
Donated(D, k) == {D[d].class : d \in {d \in DOMAIN D : k \in Range(D[d].chain)}}
EffectiveClass(D, k, base) == Min({base} \union Donated(D, k))

\* cap_budget_for_class
Capped(t) == [t EXCEPT !.budget = Min({@, Budget[t.class]})]

\* A new period: a throttled thread may run again.
Replenished(t) ==
    [t EXCEPT !.into = @ % Period[t.class], !.budget = Budget[t.class],
              !.state = IF @ = "Throttled" THEN "Runnable" ELSE @]

\* maintain_thread: the effective class is refreshed and an elapsed period ends.
Maintained(D, k, t) ==
    LET u == [t EXCEPT !.class = EffectiveClass(D, k, t.base)]
    IN  IF u.into >= Period[u.class] THEN Replenished(u) ELSE Capped(u)

\* recompute_effective_class caps the budget before the maintenance.
Recomputed(D, k, t) ==
    Maintained(D, k, Capped([t EXCEPT !.class = EffectiveClass(D, k, t.base)]))

\* A thread goes to the back of a queue when it becomes runnable or changes class.
Moves_Woken(t, u) == u.state = "Runnable" /\ t.state # "Runnable"
Moves(t, u) == u.state = "Runnable" /\ (t.state # "Runnable" \/ t.class # u.class)

\* The queues Q once the threads `order` went from T to U, one after the other.
Requeued(Q, T, U, order) ==
    LET moved == SelectSeq(order, LAMBDA k : Moves(T[k], U[k]))
    IN  [c \in Classes |-> Without(Q[c], Range(moved)) \o SelectSeq(moved, LAMBDA k : U[k].class = c)]

\* The live keys in the order of the thread table.
TableOrder ==
    CHOOSE order \in [1..Cardinality(Live) -> Live] :
        \A i, j \in DOMAIN order : i < j => order[i] < order[j]

-----------------------------------------------------------------------------
(* Donation *)

\* The scheduler's state after the chain `order` has been recomputed for D.
Recompute(S, D, order) ==
    LET U == [k \in DOMAIN S.threads |->
                IF k \in Range(order) THEN Recomputed(D, k, S.threads[k]) ELSE S.threads[k]]
    IN  [threads |-> U, queues |-> Requeued(S.queues, S.threads, U, order), donations |-> D]

SwapRemove(D, i) == [j \in 1..(Len(D) - 1) |-> IF j = i THEN D[Len(D)] ELSE D[j]]

\* cancel_donation of the i-th donation.
CancelAt_Lazy(S, i) == [S EXCEPT !.donations = SwapRemove(@, i)]
CancelAt(S, i) == Recompute(S, SwapRemove(S.donations, i), S.donations[i].chain)

State == [threads |-> threads, queues |-> queues, donations |-> donations]
Become(S) == threads' = S.threads /\ queues' = S.queues /\ donations' = S.donations

\* cancel_donations_touching: as long as a donation comes from k or reaches it.
Touches(d, k) == d.root = k \/ k \in Range(d.chain)
Untouched(S, k) ==
    LET after[n \in 0..Len(S.donations)] ==
            IF n = 0 THEN S
            ELSE LET P == after[n - 1]
                     hits == {i \in DOMAIN P.donations : Touches(P.donations[i], k)}
                 IN  IF hits = {} THEN P ELSE CancelAt(P, Min(hits))
    IN  after[Len(S.donations)]

\* donate_chain: nobody twice in a chain, one donation per donor, a bounded time.
DonateChain(donor, chain, time) ==
    /\ donor \in Live /\ Range(chain) \subseteq Live /\ donor \notin Range(chain)
    /\ time \in 1..MaxDonation
    /\ \A d \in DOMAIN donations : donations[d].root # donor
    /\ Become(Recompute(State,
                        Append(donations, [root |-> donor, class |-> threads[donor].class,
                                           left |-> time, chain |-> chain]),
                        chain))
    /\ UNCHANGED <<edf, running, ran>>

CancelDonationsFrom(donor) ==
    /\ \E i \in DOMAIN donations :
        /\ donations[i].root = donor
        /\ Become(CancelAt(State, i))
    /\ UNCHANGED <<edf, running, ran>>

-----------------------------------------------------------------------------
(* Admission, class changes, deadlines *)

AddThread(k, c) ==
    /\ k \notin Live
    /\ threads' = [j \in Live \union {k} |->
                     IF j = k THEN [base |-> c, class |-> c, state |-> "Runnable",
                                    budget |-> Budget[c], into |-> 0, waited |-> 0]
                     ELSE threads[j]]
    /\ queues' = [queues EXCEPT ![c] = Append(@, k)]
    /\ UNCHANGED <<edf, donations, running, ran>>

RemoveThread(k) ==
    /\ k \in Live
    /\ LET S == Untouched(State, k)
       IN  /\ threads' = [j \in Live \ {k} |-> S.threads[j]]
           /\ queues' = [c \in Classes |-> Without(S.queues[c], {k})]
           /\ donations' = S.donations
    /\ edf' = Without(edf, {k})
    /\ running' = IF running = k THEN None ELSE running
    /\ ran' = IF running = k THEN 0 ELSE ran

\* set_base_class: maintenance under the old class, then the new one.
SetBaseClass(k, c) ==
    /\ k \in Live
    /\ LET t == Maintained(donations, k, threads[k])
           u == Capped([t EXCEPT !.base = c, !.class = EffectiveClass(donations, k, c)])
       IN  /\ threads' = [threads EXCEPT ![k] = u]
           /\ queues' = IF Moves(threads[k], t) \/ Moves(t, u)
                        THEN [q \in Classes |-> IF q = u.class THEN Ranked(queues[q], k)
                                                ELSE Without(queues[q], {k})]
                        ELSE queues
    /\ UNCHANGED <<edf, donations, running, ran>>

\* set_deadline: anywhere among the deadlines of the others.
SetDeadline(k) ==
    /\ k \in Live
    /\ LET others == Without(edf, {k})
       IN  \E i \in 0..Len(others) :
             edf' = SubSeq(others, 1, i) \o <<k>> \o SubSeq(others, i + 1, Len(others))
    /\ UNCHANGED <<threads, queues, donations, running, ran>>

ClearDeadline(k) ==
    /\ k \in Range(edf)
    /\ edf' = Without(edf, {k})
    /\ UNCHANGED <<threads, queues, donations, running, ran>>

-----------------------------------------------------------------------------
(* Blocking, waking, dispatching *)

\* block: a queued thread, or the running one, whose dispatch is then over.
Block(k) ==
    /\ k \in Live
    /\ threads[k].state \in {"Runnable", "Running"}
    /\ threads' = [threads EXCEPT ![k].state = "Blocked", ![k].waited = 0]
    /\ queues' = [c \in Classes |-> Without(queues[c], {k})]
    /\ running' = IF running = k THEN None ELSE running
    /\ ran' = IF running = k THEN 0 ELSE ran
    /\ UNCHANGED <<edf, donations>>

\* wake: to the front of its queue, unless its budget is spent. The callers
\* wake only blocked threads.
Woken(t) ==
    [t EXCEPT !.waited = 0, !.state = IF t.budget = 0 THEN "Throttled" ELSE "Runnable"]
Wake(k) ==
    /\ k \in Live
    /\ threads[k].state = "Blocked"
    /\ LET t == Woken(Maintained(donations, k, threads[k]))
       IN  /\ threads' = [threads EXCEPT ![k] = t]
           /\ queues' = IF t.state = "Runnable" THEN [queues EXCEPT ![t.class] = <<k>> \o @]
                        ELSE queues
    /\ UNCHANGED <<edf, donations, running, ran>>

\* maintain: expired donations go, every thread is maintained in table order.
Unexpired(D) == SelectSeq(D, LAMBDA d : d.left > 0)
MaintainedThreads == [k \in Live |-> Maintained(Unexpired(donations), k, threads[k])]
MaintainedQueues == Requeued(queues, threads, MaintainedThreads, TableOrder)

\* select_class: the weakest class whose head has waited too long, else the strongest.
SelectClass_NoAging(T, Q) == Min({c \in Classes : Q[c] # <<>>})

SelectClass(T, Q) ==
    LET ready == {c \in Classes : Q[c] # <<>>}
        aged == {c \in ready : T[Head(Q[c])].waited >= Starvation[c]}
    IN  IF aged # {} THEN Max(aged) ELSE Min(ready)

\* select_deadline_thread, else the head of the selected class.
Selected(T, Q) ==
    LET due == SelectSeq(edf, LAMBDA k : T[k].state = "Runnable")
    IN  IF due # <<>> THEN Head(due) ELSE Head(Q[SelectClass(T, Q)])

NextDispatch ==
    LET T == MaintainedThreads
        Q == MaintainedQueues
    IN  /\ running = None
        /\ donations' = Unexpired(donations)
        /\ IF \A c \in Classes : Q[c] = <<>>
           THEN threads' = T /\ queues' = Q /\ UNCHANGED <<running, ran>>
           ELSE LET k == Selected(T, Q)
                IN  /\ threads' = [T EXCEPT ![k].state = "Running", ![k].waited = 0]
                    /\ queues' = [Q EXCEPT ![T[k].class] = Without(@, {k})]
                    /\ running' = k
                    /\ ran' = 0
        /\ UNCHANGED edf

\* finish_dispatch: the whole time it ran is charged.
Charged(t, time) == [t EXCEPT !.budget = Max({0, @ - time})]
Finished(t, blocks) ==
    [t EXCEPT !.state = IF blocks THEN "Blocked" ELSE IF t.budget = 0 THEN "Throttled" ELSE "Runnable"]
FinishDispatch(blocks) ==
    /\ running # None
    /\ blocks => running \in WaitingKeys
    /\ LET t == Finished(Charged(threads[running], ran), blocks)
       IN  /\ threads' = [threads EXCEPT ![running] = t]
           /\ queues' = IF t.state = "Runnable" THEN [queues EXCEPT ![t.class] = Append(@, running)]
                        ELSE queues
    /\ running' = None
    /\ ran' = 0
    /\ UNCHANGED <<edf, donations>>

\* Time passes; the timer ends a dispatch after its quantum, maybe late.
Slice(t) == Min({Quantum[t.class], t.budget})
Tick ==
    /\ \A k \in Live : threads[k].into < Period[threads[k].class] + MaxLag
    /\ running # None => ran < Slice(threads[running]) + Overrun
    /\ threads' = [k \in Live |->
                     [threads[k] EXCEPT !.into = @ + 1,
                                        !.waited = IF threads[k].state \in {"Runnable", "Throttled"}
                                                   THEN Min({@ + 1, MaxWait}) ELSE @]]
    /\ donations' = [d \in DOMAIN donations |-> [donations[d] EXCEPT !.left = Max({0, @ - 1})]]
    /\ ran' = IF running = None THEN 0 ELSE ran + 1
    /\ UNCHANGED <<queues, edf, running>>

-----------------------------------------------------------------------------
Next ==
    \/ \E k \in Keys, c \in Classes : c \in BaseClasses[k] /\ (AddThread(k, c) \/ SetBaseClass(k, c))
    \/ \E k \in Keys : RemoveThread(k) \/ ClearDeadline(k) \/ CancelDonationsFrom(k) \/ Wake(k)
    \/ \E k \in DeadlineKeys : SetDeadline(k)
    \/ \E k \in SuspendKeys : Block(k)
    \/ \E k \in Keys, chain \in Chains, time \in 1..MaxDonation : DonateChain(k, chain, time)
    \/ NextDispatch
    \/ \E blocks \in BOOLEAN : FinishDispatch(blocks)
    \/ Tick

Spec == Init /\ [][Next]_vars

\* The process task polls for ever, a dispatch ends, and time goes on.
Fairness ==
    /\ WF_vars(NextDispatch)
    /\ WF_vars(\E blocks \in BOOLEAN : FinishDispatch(blocks))
    /\ SF_vars(Tick)

-----------------------------------------------------------------------------
(* Properties *)

\* A thread is queued exactly if it is runnable, once, in the queue of its
\* effective class, through every donation, expiry, throttling and class change
\* (the expectations of next_dispatch on a popped key).  It then has budget, so
\* no dispatch is empty, and never more than its present class grants.
QueuesExact ==
    /\ \A c \in Classes : IsInjective(queues[c])
    /\ \A k \in Live, c \in Classes :
         k \in Range(queues[c]) <=> threads[k].state = "Runnable" /\ threads[k].class = c
    /\ \A k \in Live : /\ threads[k].state = "Runnable" => threads[k].budget > 0
                       /\ threads[k].budget <= Budget[threads[k].class]

\* A boost lasts exactly as long as a donation that carries it: the effective
\* class is the strongest of the base class and of the donations to the thread,
\* and a removed thread takes the chains it was part of with it.
BoostsExact ==
    /\ \A k \in Live : threads[k].class = EffectiveClass(donations, k, threads[k].base)
    /\ \A d \in DOMAIN donations :
          {donations[d].root} \union Range(donations[d].chain) \subseteq Live

\* Every thread that can run gets the processor (docs/scheduling.md: no thread
\* may "permanently monopolize the CPU", queues "provide fairness within a
\* class", and weaker classes "retain bounded progress through aging").
RunnableRuns ==
    \A k \in Keys : (k \in Live /\ threads[k].state = "Runnable")
                    ~> (k \notin Live \/ threads[k].state # "Runnable")
=============================================================================
