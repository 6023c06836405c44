---------------------------- MODULE BlockedWaits ----------------------------
(* How a thread sleeps and wakes: the blocking system calls (object_wait_many, *)
(* sleep and thread_join), the waiters they leave on IPC objects, the wait     *)
(* runtime, and the kernel tasks that dispatch threads and service wakes       *)
(* (main.rs, process.rs, syscall.rs, ginkgo-ipc/kernel.rs).                    *)
(*                                                                             *)
(* The kernel is single-core and its tasks are cooperative, so a dispatch, a   *)
(* wake and a signal are one step each, with every call they make. A facet is  *)
(* one side of a channel, a window role, a process or a request, reduced to    *)
(* one level signal; what user memory receives is left out.                    *)
EXTENDS WaitRuntime, SequencesExt

CONSTANTS
    Facets,
    Process,      \* thread -> its process
    Sleepers,     \* the threads that sleep and wake one another
    WaiterLimit,  \* WAITERS_PER_FACET_LIMIT
    MaxTime       \* bound on the clock

ASSUME BlockedWaitsAssumption ==
    /\ DOMAIN Process = Keys /\ Sleepers \subseteq Keys /\ WaiterLimit \in Nat \ {0} /\ MaxTime \in Nat
    /\ IsFiniteSet(Keys) /\ Capacity >= Cardinality(Keys)

VARIABLES
    thread,    \* key -> [state, items, deadline, target, token, failed, permit]
    claim,     \* target -> the thread that joins it (join_claimed_by)
    requests,  \* key -> "none", "inflight" or "late": requests left when it ended
    level,     \* facet -> its signal
    waiters,   \* facet -> the tokens registered on it
    rt, now

vars == <<thread, claim, requests, level, waiters, rt, now>>

Idle(state) == [state |-> state, items |-> {}, deadline |-> None, target |-> None,
                token |-> None, failed |-> FALSE, permit |-> FALSE]
Resumed(t) == [Idle("Ready") EXCEPT !.permit = t.permit]
Live == {k \in Keys : thread[k].state \in {"Ready", "Blocked"}}
Ready(k) == thread[k].state = "Ready"
Expired(d) == d # None /\ d <= now

Init ==
    /\ thread = [k \in Keys |-> Idle("Ready")]
    /\ claim = [k \in Keys |-> None]
    /\ requests = [k \in Keys |-> "none"]
    /\ level = [f \in Facets |-> FALSE]
    /\ waiters = [f \in Facets |-> <<>>]
    /\ rt = NewRuntime /\ now = 0

\* Dropping a WaitSetRegistration removes its token from every facet.
Unregistered_Kept(ws, tokens) == ws
Unregistered(ws, tokens) == [f \in Facets |-> SelectSeq(ws[f], LAMBDA t : t \notin tokens)]

\* register_signal_waiter refuses a facet that has its limit of waiters.
Full(ws, f) == Len(ws[f]) >= WaiterLimit

\* A failure to register is staged as the call's result and the thread woken.
FailureWake_Silent(r, t) == r
FailureWake(r, t) == Notified(r, t, "Dependency")

\* register_wait_many: a facet that is already signalled is not retained and
\* wakes the thread; a failure drops the waiters registered so far.
Low(items) == {f \in items : ~level[f]}
Refused(ws, items) == \E f \in Low(items) : Full(ws, f)
Watched(ws, items, t) == [f \in Facets |-> IF f \in Low(items) THEN Append(ws[f], t) ELSE ws[f]]
WatchedWake(r, items, t) == IF Low(items) = items THEN r ELSE Notified(r, t, "Object")

\* arm_blocked_thread: without a free slot the thread stays unregistered.
Arm(th, ws, r, k) ==
    LET t == NextToken(r)
        items == th[k].items
        r1 == Registered(r, k, th[k].deadline)
        armed == [th EXCEPT ![k].token = t, ![k].failed = Refused(ws, items)]
    IN  IF Vacant(r) = {} THEN [thread |-> th, waiters |-> ws, rt |-> r]
        ELSE IF Refused(ws, items) THEN [thread |-> armed, waiters |-> ws, rt |-> FailureWake(r1, t)]
        ELSE [thread |-> armed, waiters |-> Watched(ws, items, t), rt |-> WatchedWake(r1, items, t)]

\* The end of process_task for a process: terminal threads lose their wait
\* registrations, then the claimants of terminal, drained threads are notified,
\* then every thread that is not blocked loses its registration.
Ended(th, p) == {k \in Keys : Process[k] = p /\ th[k].state = "Ended"}
Awake(th, p) == {k \in Keys : Process[k] = p /\ th[k].state # "Blocked"}
Joiners(th, cl, rq, p) == {cl[k] : k \in {j \in Ended(th, p) : rq[j] # "inflight"}} \ {None}
DispatchTail(th, cl, rq, r, p) ==
    LET synchronized == CancelledKeys(r, Ended(th, p))
    IN  CancelledKeys(NotifiedKeys(synchronized, Joiners(th, cl, rq, p)), Awake(th, p))

\* cancel_blocked_syscall for a set of threads, which end.
EndedThreads(th, ks) == [k \in Keys |-> IF k \in ks THEN Idle("Ended") ELSE th[k]]
Tokens(ks) == {thread[k].token : k \in ks} \ {None}
ClaimsWithout(ks) == [k \in Keys |-> IF claim[k] \in ks THEN None ELSE claim[k]]

-----------------------------------------------------------------------------
(* What a dispatched thread does; every dispatch finishes with DispatchTail. *)

\* A dispatch that neither blocks nor ends the thread.
Run(k) ==
    /\ Ready(k)
    /\ rt' = DispatchTail(thread, claim, requests, rt, Process[k])
    /\ UNCHANGED <<thread, claim, requests, level, waiters, now>>

\* Blocking on the calls' arguments, then arming the thread.
BlockOn(k, items, deadline, target, cl) ==
    LET th == [thread EXCEPT ![k].state = "Blocked", ![k].items = items, ![k].deadline = deadline,
                             ![k].target = target]
        a == Arm(th, waiters, rt, k)
    IN  /\ thread' = a.thread /\ waiters' = a.waiters
        /\ claim' = cl
        /\ rt' = DispatchTail(a.thread, cl, requests, a.rt, Process[k])
        /\ UNCHANGED <<requests, level, now>>

\* object_wait_many when nothing is signalled.
Wait(k, items, deadline) ==
    /\ Ready(k) /\ items # {}
    /\ \A f \in items : ~level[f]
    /\ ~Expired(deadline)
    /\ BlockOn(k, items, deadline, None, claim)

\* thread_sleep_until, which a wake permit turns into a plain dispatch, and
\* thread_wake, which leaves a permit unless the target is asleep.
Sleep(k, deadline) ==
    /\ Ready(k) /\ ~thread[k].permit /\ ~Expired(deadline)
    /\ BlockOn(k, {}, deadline, None, claim)

UsePermit(k) ==
    /\ Ready(k) /\ thread[k].permit
    /\ thread' = [thread EXCEPT ![k].permit = FALSE]
    /\ rt' = DispatchTail(thread', claim, requests, rt, Process[k])
    /\ UNCHANGED <<claim, requests, level, waiters, now>>

Asleep(k) == thread[k].state = "Blocked" /\ thread[k].items = {} /\ thread[k].target = None
WakeThread(k, target) ==
    /\ Ready(k) /\ target \in Live /\ Process[target] = Process[k]
    /\ thread' = [thread EXCEPT ![target] = IF Asleep(target) THEN Resumed(@)
                                            ELSE [@ EXCEPT !.permit = TRUE]]
    /\ rt' = DispatchTail(thread', claim, requests, rt, Process[k])
    /\ UNCHANGED <<claim, requests, level, waiters, now>>

\* start_join of a thread that has not ended, and of one that has.
Join(k, target, deadline) ==
    /\ Ready(k) /\ target # k /\ Process[target] = Process[k]
    /\ target \in Live /\ claim[target] = None /\ ~Expired(deadline)
    /\ BlockOn(k, {}, deadline, target, [claim EXCEPT ![target] = k])

Collect(k, target) ==
    /\ Ready(k) /\ target # k /\ Process[target] = Process[k]
    /\ thread[target].state = "Ended" /\ claim[target] = None
    /\ thread' = [thread EXCEPT ![target] = Idle("Reaped")]
    /\ rt' = DispatchTail(thread', claim, requests, rt, Process[k])
    /\ UNCHANGED <<claim, requests, level, waiters, now>>

\* thread_exit (target = k) and thread_terminate, by a running thread; `left`
\* says whether the thread leaves requests that its end cannot complete.
End(k, target, left) ==
    /\ Ready(k) /\ target \in Live /\ Process[target] = Process[k]
    /\ thread' = EndedThreads(thread, {target})
    /\ waiters' = Unregistered(waiters, Tokens({target}))
    /\ claim' = ClaimsWithout({target})
    /\ requests' = [requests EXCEPT ![target] = IF left THEN "inflight" ELSE "none"]
    /\ rt' = DispatchTail(thread', claim', requests', rt, Process[k])
    /\ UNCHANGED <<level, now>>

\* The end of a whole process: by a thread that exits it or faults, and by
\* another process that asked for it (mark_terminated, then
\* synchronize_process_scheduler).
EndAll(ks) ==
    /\ thread' = EndedThreads(thread, ks)
    /\ waiters' = Unregistered(waiters, Tokens(ks))
    /\ claim' = ClaimsWithout(ks)
    /\ UNCHANGED <<requests, level, now>>

ExitProcess(k) ==
    /\ Ready(k)
    /\ EndAll({j \in Live : Process[j] = Process[k]})
    /\ rt' = DispatchTail(thread', claim', requests, rt, Process[k])

Terminate_SlotsKept(p) ==
    /\ \E k \in Live : Process[k] = p
    /\ EndAll({k \in Live : Process[k] = p})
    /\ UNCHANGED rt
Terminate(p) ==
    /\ \E k \in Live : Process[k] = p
    /\ EndAll({k \in Live : Process[k] = p})
    /\ rt' = CancelledKeys(rt, Ended(thread', p))

\* The request worker finishes the last request of an ended thread. Nothing is
\* notified here.
Drain(k) ==
    /\ requests[k] = "inflight"
    /\ requests' = [requests EXCEPT ![k] = "late"]
    /\ UNCHANGED <<thread, claim, level, waiters, rt, now>>

-----------------------------------------------------------------------------
(* Signals and wakes *)

\* A signal rises: all waiters of the facet are marked, taken (the first, then
\* by swap_remove from the end) and notified.
NotifyOrder(s) == IF s = <<>> THEN s ELSE <<Head(s)>> \o Reverse(Tail(s))
Raise(f) ==
    /\ ~level[f]
    /\ level' = [level EXCEPT ![f] = TRUE]
    /\ waiters' = [waiters EXCEPT ![f] = <<>>]
    /\ rt' = FoldLeft(LAMBDA r, t : Notified(r, t, "Object"), rt, NotifyOrder(waiters[f]))
    /\ UNCHANGED <<thread, claim, requests, now>>

Lower(f) ==
    /\ level[f]
    /\ level' = [level EXCEPT ![f] = FALSE]
    /\ UNCHANGED <<thread, claim, requests, waiters, rt, now>>

\* poll_join and poll_blocked
JoinPolled(k) == thread[thread[k].target].state = "Ended" \/ Expired(thread[k].deadline)
Polled(k) ==
    IF thread[k].target # None THEN JoinPolled(k)
    ELSE thread[k].failed \/ (\E f \in thread[k].items : level[f]) \/ Expired(thread[k].deadline)

\* complete_blocked: a join reaps its target unless copying the result fails,
\* and gives its claim back either way.
Completed(th, k, ok) ==
    LET woken == [th EXCEPT ![k] = Resumed(@)]
        target == th[k].target
    IN  IF ok /\ target # None /\ th[target].state = "Ended"
        THEN [woken EXCEPT ![target] = Idle("Reaped")] ELSE woken

\* service_one_wait_wake: the registration is dropped and the call polled again;
\* it completes, or the thread is armed anew.
ServiceWake(ok) ==
    \E t \in Wakes(rt, now) :
      LET k == rt.slots[t.index].key
          r == Woken(rt, t)
          ws == Unregistered(waiters, {t})
          a == Arm([thread EXCEPT ![k].token = None], ws, r, k)
      IN  /\ IF thread[k].token # t
             THEN rt' = r /\ UNCHANGED <<thread, claim, waiters>>
             ELSE IF Polled(k)
             THEN /\ thread' = Completed(thread, k, ok)
                  /\ claim' = ClaimsWithout({k})
                  /\ waiters' = ws /\ rt' = r
             ELSE thread' = a.thread /\ waiters' = a.waiters /\ rt' = a.rt /\ UNCHANGED claim
          /\ UNCHANGED <<requests, level, now>>

Tick ==
    /\ now < MaxTime
    /\ now' = now + 1
    /\ UNCHANGED <<thread, claim, requests, level, waiters, rt>>

Deadlines == Times \union {None}

Next ==
    \/ \E k \in Keys : Run(k) \/ UsePermit(k) \/ ExitProcess(k) \/ Drain(k)
    \/ \E k \in Keys, items \in SUBSET Facets, d \in Deadlines : Wait(k, items, d)
    \/ \E k \in Sleepers, d \in Times : Sleep(k, d)
    \/ \E k, target \in Sleepers : WakeThread(k, target)
    \/ \E k, target \in Keys, d \in Deadlines : Join(k, target, d)
    \/ \E k, target \in Keys : Collect(k, target)
    \/ \E k, target \in Keys, left \in BOOLEAN : End(k, target, left)
    \/ \E p \in Range(Process) : Terminate(p)
    \/ \E f \in Facets : Raise(f) \/ Lower(f)
    \/ \E ok \in BOOLEAN : ServiceWake(ok)
    \/ Tick

Spec == Init /\ [][Next]_vars

-----------------------------------------------------------------------------
(* Properties *)

\* The ready queue holds every woken registration exactly once: cancelled and
\* finished waits leave no record, so the queue never outgrows its capacity and
\* next_wake never returns a wait that is gone. The observer's locked copy of
\* the slots, by which notifications are judged, agrees with the dispatcher's.
\* The deadline heap holds exactly the deadlines of the registered waits, its
\* first entry is the earliest, and heap_index finds each entry for removal.
RuntimeExact == IsMirrored(rt) /\ IsReadyExact(rt) /\ IsHeapExact(rt)

\* A token is handed out once: a notification that is late for one wait is
\* never taken for a later wait in the same slot.
TokensFresh ==
    [][\A i \in Slots : Active(rt', i) /\ ~(Active(rt, i) /\ TokenOf(rt, i) = TokenOf(rt', i))
          => TokenOf(rt', i) \notin rt.issued]_vars

\* A slot of the runtime belongs to the blocked thread that holds its token,
\* and a blocked thread has a slot unless exhausted slots were retired; a thread
\* is claimed by the one thread that is blocked joining it.  Termination,
\* completion, time-outs, failed arming and cancelled joiners leak neither.
SlotsOwned ==
    /\ \A i \in Slots : Active(rt, i) =>
          thread[rt.slots[i].key].state = "Blocked" /\ thread[rt.slots[i].key].token = TokenOf(rt, i)
    /\ \A k \in Keys : thread[k].state = "Blocked" =>
          \/ \E i \in Slots : rt.slots[i].key = k
          \/ thread[k].token = None /\ \E i \in Slots : rt.slots[i].retired
    /\ \A k, target \in Keys :
          (claim[target] = k) <=> (thread[k].state = "Blocked" /\ thread[k].target = target)

\* No wake-up is lost: an armed thread one of whose objects is signalled, whose
\* call has failed, or whose join target has ended, is in the ready queue. The
\* exception is a target whose requests were still in flight when it ended.
Queued(k) == rt.observer[thread[k].token.index].queued
NoLostWakeup ==
    \A k \in Keys : thread[k].token # None /\ ~Queued(k) =>
        /\ ~thread[k].failed /\ \A f \in thread[k].items : ~level[f]
        /\ thread[k].target # None =>
             thread[thread[k].target].state # "Ended" \/ requests[thread[k].target] # "none"

\* The waiters on an object are those of armed threads, each once, and a thread
\* that has not been woken is still a waiter on all of its objects.
WaitersExact ==
    /\ \A f \in Facets : \A t \in Range(waiters[f]) :
          \E k \in Keys : thread[k].token = t /\ f \in thread[k].items
    /\ \A f \in Facets : IsInjective(waiters[f])
    /\ \A k \in Keys : thread[k].token # None /\ ~Queued(k) =>
          \A f \in thread[k].items : thread[k].token \in Range(waiters[f])
=============================================================================
