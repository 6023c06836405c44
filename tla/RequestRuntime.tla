---------------------------- MODULE RequestRuntime ----------------------------
(***************************************************************************)
(* The kernel's asynchronous request runtime                               *)
(* (crates/ginkgo-kernel/src/request.rs).                                   *)
(*                                                                         *)
(* A fixed table of generation-tagged slots holds live requests.  A        *)
(* request waits in the FIFO of its target, is dispatched by a rotation    *)
(* over the target table, may hand its resources to a device, reaches one  *)
(* terminal state, and is retired when its result was published and its    *)
(* resources were released.  The integration layer drains `actions`.       *)
(*                                                                         *)
(* The three resource counters of the code (copied bytes, pinned pages,    *)
(* shared bytes) are treated alike by every line and are one number here,  *)
(* `cost`.  Statuses, timestamps and lifetime counters are left out.       *)
(***************************************************************************)
EXTENDS Integers, FiniteSets, Sequences, FiniteSetsExt, SeqOps

CONSTANTS
    Capacity,           \* limits.system_capacity
    MaxGen,             \* the last generation of a slot (u32::MAX in the code)
    Owners,             \* records [process |-> p, thread |-> t]
    Targets, Devices,   \* opaque identities
    Submissions,        \* the submissions clients make
    Outcomes,           \* the completions services report: [ok, released]
    MaxBatch, PerOwner, PerTarget,
    CostPerRequest, CostPerOwner, CostSystem,
    CompletionCapacity, \* limits.deferred_completion_capacity
    CompletionBudget, DeadlineBudget,   \* RequestWorkerBudget
    MaxTime,            \* bound on the clock
    None                \* Rust's Option::None

Slots == 1..Capacity
Table == 0..(Capacity - 1)
Id == [slot : Slots, gen : 1..MaxGen]

\* RequestState; Completing is entered and left inside one call.
TerminalStates == {"Completed", "TimedOut", "Canceled", "Failed", "OwnerTerminated"}
States == {"Pending", "Active", "CancelPending"} \cup TerminalStates
ResourceStates ==
    {"KernelOwned", "DeviceOwned", "DrainPending", "ReleasePending", "Released"}

\* The pair of flags (x_action_queued, x_action_dispatched) of each action kind.
Flags == {"idle", "queued", "dispatched"}

Submission ==
    [owner : Owners, target : Targets, device : Devices \cup {None},
     deadline : Nat \cup {None}, cost : Nat]

Request ==
    [owner : Owners, target : Targets, device : Devices \cup {None},
     deadline : Nat \cup {None}, cost : Nat,
     state : States, res : ResourceStates, started : BOOLEAN,
     cancelRequested : BOOLEAN, cancel : Flags, publish : Flags, release : Flags]

\* RequestAction; only a publication carries a state.
Action ==
    [kind : {"cancel", "publish", "release"}, id : Id, state : States \cup {None}]

ASSUME SizeAssumption ==
    /\ Capacity \in Nat \ {0}
    /\ MaxGen \in Nat \ {0}
    /\ MaxTime \in Nat
    /\ CompletionCapacity \in Nat \ {0}
    /\ CompletionBudget \in Nat
    /\ DeadlineBudget \in Nat
    /\ {MaxBatch, PerOwner, PerTarget} \subseteq 1..Capacity
    /\ {CostPerRequest, CostPerOwner, CostSystem} \subseteq Nat

ASSUME InputAssumption ==
    /\ Submissions \subseteq Submission
    /\ Outcomes \subseteq [ok : BOOLEAN, released : BOOLEAN]

ASSUME NoneAssumption ==
    /\ None \notin Targets
    /\ None \notin Devices
    /\ None \notin Nat
    /\ None \notin Id
    /\ None \notin Request

VARIABLES
    gen, retired, req,      \* slots: generation, retired, request
    targets, cursor,        \* the target table and its rotation cursor
    deadlines,              \* the deadline heap, as the set of its entries
    completions,            \* deferred_completions
    actions,                \* actions for the integration layer
    accepting,
    live, queuedGauge, activeGauge, charged,    \* diagnostics gauges
    worker,                 \* where a run_worker call is
    now,                    \* the clock the callers read
    published, freed,       \* history: results published, releases acknowledged
    held                    \* history: requests whose buffers a device may touch

slotVars == <<gen, retired, req>>
gauges == <<live, queuedGauge, activeGauge, charged>>
vars == <<slotVars, targets, cursor, deadlines, completions, actions, accepting,
          gauges, worker, now, published, freed, held>>

-----------------------------------------------------------------------------
(* Requests                                                                *)

IdOf(i) == [slot |-> i, gen |-> gen[i]]

\* valid_request_index
Valid(id) ==
    /\ id.slot \in Slots
    /\ ~retired[id.slot]
    /\ gen[id.slot] = id.gen
    /\ req[id.slot] # None

LiveSlots == {i \in Slots : req[i] # None}

\* Ids handed out so far: the current one of a live slot and all older ones.
Issued ==
    {id \in Id : \/ id.gen < gen[id.slot]
                 \/ /\ id.gen = gen[id.slot]
                    /\ req[id.slot] # None \/ retired[id.slot]}

IsTerminal(r) == r.state \in TerminalStates
Draining(r) == r.res \in {"DeviceOwned", "DrainPending"}

QueueCancel(r) == [r EXCEPT !.cancel = IF @ = "idle" THEN "queued" ELSE @]

WithdrawCancel(r) == [r EXCEPT !.cancel = IF @ = "queued" THEN "idle" ELSE @]

QueueRelease_IgnoresDevice(r) ==
    IF IsTerminal(r) /\ r.res # "Released" /\ r.release = "idle"
    THEN [r EXCEPT !.res = "ReleasePending", !.release = "queued"]
    ELSE r

QueueRelease(r) ==
    IF IsTerminal(r) /\ r.res = "KernelOwned" /\ r.release = "idle"
    THEN [r EXCEPT !.res = "ReleasePending", !.release = "queued"]
    ELSE r

DeviceStopped(r) == [r EXCEPT !.res = IF Draining(r) THEN "KernelOwned" ELSE @]

FinishTerminal(r, state) ==
    IF IsTerminal(r)
    THEN r
    ELSE QueueRelease(
            [r EXCEPT !.state = state,
                      !.res = IF @ = "DeviceOwned" THEN "DrainPending" ELSE @,
                      !.publish = IF @ = "idle" THEN "queued" ELSE @])

-----------------------------------------------------------------------------
(* Effects of changing requests on the target table, the action queue and  *)
(* the gauges.  `new` is the slot function after the call.                  *)

Idle(q) == q.active = None /\ q.queued = <<>>

ReleaseIdle(q) == IF Idle(q) THEN [q EXCEPT !.target = None] ELSE q

\* The ids of S that become terminal: they leave the FIFO.
Finished_None(S) == {}

Finished(S) == {IdOf(i) : i \in {j \in S : ~IsTerminal(req[j])}}

\* The ids of S whose target may be given to the next request.
Safe_Draining(new, S) == {IdOf(i) : i \in S}

Safe(new, S) == {IdOf(i) : i \in {j \in S : ~Draining(new[j])}}

\* remove_request_from_pending_queue for the slots that become terminal, then
\* release_target_if_safe for the slots in S.
SettleTarget(q, new, S) ==
    LET mine == {i \in S : IsTerminal(new[i]) /\ new[i].target = q.target}
    IN  IF mine = {}
        THEN q
        ELSE ReleaseIdle(
                [q EXCEPT !.queued = Without(@, Finished(mine)),
                          !.active = IF @ \in Safe(new, mine) THEN None ELSE @])

\* The actions a call pushes for one slot, in the order the code pushes them.
Emit(i, old, r) ==
    LET push(kind, before, after, state) ==
            IF before # "queued" /\ after = "queued"
            THEN <<[kind |-> kind, id |-> IdOf(i), state |-> state]>>
            ELSE <<>>
    IN  IF r = None \/ old = None
        THEN <<>>
        ELSE push("cancel", old.cancel, r.cancel, None)
             \o push("publish", old.publish, r.publish, r.state)
             \o push("release", old.release, r.release, None)

Withdrawn_Never(a, new) == FALSE

Withdrawn(a, new) ==
    /\ a.kind = "cancel"
    /\ req[a.id.slot] # None
    /\ req[a.id.slot].cancel = "queued"
    /\ new[a.id.slot].cancel = "idle"

Kept(a, new) == IF Withdrawn(a, new) THEN <<>> ELSE <<a>>

\* remove_request_deadline for the slots that become terminal.
RemainingDeadlines(new) == {d \in deadlines : ~IsTerminal(new[d.id.slot])}

QueuedIds(tbl) == UNION {Range(tbl[t].queued) : t \in Table}
ActiveIds(tbl) == {tbl[t].active : t \in Table} \ {None}

\* Replaces the requests by `new`, where release_target_if_safe runs on the
\* slots in S and the others change no queue.
Change(new, S) ==
    LET tbl == [t \in Table |-> SettleTarget(targets[t], new, S)]
    IN  /\ req' = new
        /\ targets' = tbl
        /\ deadlines' = RemainingDeadlines(new)
        /\ actions' = Concat([n \in DOMAIN actions |-> Kept(actions[n], new)])
                      \o Concat([i \in Slots |-> Emit(i, req[i], new[i])])
        /\ queuedGauge' = queuedGauge
               - Cardinality(QueuedIds(targets) \ QueuedIds(tbl))
        /\ activeGauge' = activeGauge
               - Cardinality({id \in ActiveIds(targets) \ ActiveIds(tbl) :
                                  req[id.slot].started})
        /\ UNCHANGED <<gen, retired, cursor, live, charged, now, published, freed>>

\* One request becomes r.
ChangeOne(i, r, S) == Change([req EXCEPT ![i] = r], S)

Ready == worker.phase = "idle"
Between == Ready /\ UNCHANGED <<completions, worker, accepting>>

-----------------------------------------------------------------------------
(* Submission                                                               *)

OwnerSlots(o) == {i \in LiveSlots : req[i].owner = o}
OwnerCost(o) == MapThenSumSet(LAMBDA i : IF req[i].res = "Released" THEN 0 ELSE req[i].cost,
                              OwnerSlots(o))
TargetSlots(t) == {i \in LiveSlots : req[i].target = t}
InTable(t) == \E k \in Table : targets[k].target = t

VacantSlots == {i \in Slots : req[i] = None /\ ~retired[i]}
VacantTargets == {t \in Table : targets[t].target = None}

Cost(b, ks) == MapThenSumSet(LAMBDA k : b[k].cost, ks)

\* The batch positions that name a target for the first time.
NewTargets(b) ==
    {k \in DOMAIN b : /\ ~InTable(b[k].target)
                      /\ \A j \in 1..(k - 1) : b[j].target # b[k].target}

\* The mutant forgets the batch's own submissions.
OwnerQuota_BeforeBatch(b, o) ==
    /\ Cardinality(OwnerSlots(o)) < PerOwner
    /\ OwnerCost(o) < CostPerOwner

OwnerQuota(b, o) ==
    LET same == {k \in DOMAIN b : b[k].owner = o}
    IN  /\ Cardinality(OwnerSlots(o)) + Cardinality(same) <= PerOwner
        /\ OwnerCost(o) + Cost(b, same) <= CostPerOwner

Preflight(b) ==
    /\ Len(b) \in 1..MaxBatch
    /\ Len(b) <= Cardinality(VacantSlots)
    /\ live + Len(b) <= Capacity
    /\ \A k \in DOMAIN b : b[k].cost <= CostPerRequest
    /\ charged + Cost(b, DOMAIN b) <= CostSystem
    /\ \A k \in DOMAIN b : OwnerQuota(b, b[k].owner)
    /\ \A k \in DOMAIN b :
           Cardinality(TargetSlots(b[k].target))
             + Cardinality({j \in DOMAIN b : b[j].target = b[k].target}) <= PerTarget
    /\ Cardinality(NewTargets(b)) <= Cardinality(VacantTargets)

NewRequest(s) ==
    [owner |-> s.owner, target |-> s.target, device |-> s.device,
     deadline |-> s.deadline, cost |-> s.cost,
     state |-> "Pending", res |-> "KernelOwned", started |-> FALSE,
     cancelRequested |-> FALSE, cancel |-> "idle", publish |-> "idle",
     release |-> "idle"]

\* The place of n in the finite set S of numbers, counted from 1: the scans of
\* the code take vacant entries in index order.
Rank(n, S) == Cardinality({m \in S : m <= n})

SubmitBatch(b) ==
    LET taken == {i \in VacantSlots : Rank(i, VacantSlots) <= Len(b)}
        new(i) == b[Rank(i, VacantSlots)]
        slot(k) == CHOOSE i \in taken : Rank(i, VacantSlots) = k
        named == {t \in VacantTargets : Rank(t, VacantTargets) <= Cardinality(NewTargets(b))}
        first(t) == CHOOSE k \in NewTargets(b) : Rank(k, NewTargets(b)) = Rank(t, VacantTargets)
        name(t) == IF t \in named THEN b[first(t)].target ELSE targets[t].target
        ks(t) == Without([k \in DOMAIN b |-> k], {k \in DOMAIN b : b[k].target # name(t)})
        ids(t) == [n \in DOMAIN ks(t) |-> IdOf(slot(ks(t)[n]))]
    IN  /\ Between
        /\ accepting
        /\ Preflight(b)
        /\ req' = [i \in Slots |-> IF i \in taken THEN NewRequest(new(i)) ELSE req[i]]
        /\ targets' = [t \in Table |-> [targets[t] EXCEPT !.target = name(t),
                                                          !.queued = @ \o ids(t)]]
        /\ deadlines' = deadlines \cup
               {[at |-> new(i).deadline, id |-> IdOf(i)] :
                    i \in {j \in taken : new(j).deadline # None}}
        /\ live' = live + Len(b)
        /\ queuedGauge' = queuedGauge + Len(b)
        /\ charged' = charged + Cost(b, DOMAIN b)
        /\ UNCHANGED <<gen, retired, cursor, actions, activeGauge, now,
                       published, freed, held>>

-----------------------------------------------------------------------------
(* Dispatch                                                                 *)

\* The head of an inactive entry is a request that may start.
Dispatchable(q) ==
    /\ q.active = None
    /\ q.queued # <<>>
    /\ Valid(Head(q.queued))
    /\ req[Head(q.queued).slot].state = "Pending"

\* What the rotation does to an entry it passes over.
PassOver(q) ==
    IF q.active # None THEN q
    ELSE IF q.queued = <<>> THEN ReleaseIdle(q)
    ELSE [q EXCEPT !.queued = Tail(@)]

\* The rotation starts at the cursor and stops at the first entry, k steps on,
\* whose head may start.
NextDispatch ==
    \E k \in Table :
        LET at(n) == (cursor + n) % Capacity
            id == Head(targets[at(k)].queued)
        IN  /\ Between
            /\ Dispatchable(targets[at(k)])
            /\ \A n \in 0..(k - 1) : ~Dispatchable(targets[at(n)])
            /\ cursor' = (at(k) + 1) % Capacity
            /\ req' = [req EXCEPT ![id.slot].state = "Active", ![id.slot].started = TRUE]
            /\ targets' = [t \in Table |->
                   IF t = at(k)
                   THEN [targets[t] EXCEPT !.active = id, !.queued = Tail(@)]
                   ELSE IF \E n \in 0..(k - 1) : at(n) = t THEN PassOver(targets[t])
                   ELSE targets[t]]
            /\ queuedGauge' = queuedGauge - 1
            /\ activeGauge' = activeGauge + 1
            /\ UNCHANGED <<gen, retired, deadlines, actions, live, charged, now,
                           published, freed, held>>

RequeueActive(id) ==
    /\ Between
    /\ Valid(id)
    /\ req[id.slot].state = "Active"
    /\ req[id.slot].res = "KernelOwned"
    /\ \E t \in Table :
          /\ targets[t].target = req[id.slot].target
          /\ targets[t].active = id
          /\ targets' = [targets EXCEPT ![t].active = None, ![t].queued = Append(@, id)]
    /\ req' = [req EXCEPT ![id.slot].state = "Pending"]
    /\ queuedGauge' = queuedGauge + 1
    /\ activeGauge' = activeGauge - 1
    /\ UNCHANGED <<gen, retired, cursor, deadlines, actions, live, charged,
                   now, published, freed, held>>

MarkDeviceOwned(id) ==
    /\ Between
    /\ Valid(id)
    /\ req[id.slot].state \in {"Active", "CancelPending"}
    /\ req[id.slot].res = "KernelOwned"
    /\ ChangeOne(id.slot, [req[id.slot] EXCEPT !.res = "DeviceOwned"], {})
    /\ held' = held \cup {id}

-----------------------------------------------------------------------------
(* Completions and deadlines.  run_worker holds the runtime exclusively; its *)
(* loop iterations are steps of their own between which nothing else runs.  *)

CompletionRoom == Len(completions) < CompletionCapacity

RecordCompletion(c) ==
    /\ Ready
    /\ CompletionRoom
    /\ completions' = Append(completions, c)
    /\ UNCHANGED <<slotVars, targets, cursor, deadlines, actions, accepting, gauges,
                   worker, now, published, freed, held>>

\* ordering_key: the deadline, then the raw id (generation above index).
Earlier(d, e) ==
    \/ d.at < e.at
    \/ d.at = e.at /\ d.id.gen < e.id.gen
    \/ d.at = e.at /\ d.id.gen = e.id.gen /\ d.id.slot <= e.id.slot

First == CHOOSE d \in deadlines : \A e \in deadlines : Earlier(d, e)
Due == deadlines # {} /\ First.at <= now

\* The call goes through the recorded completions before it looks at deadlines.
FirstPhase_Deadlines == [phase |-> "deadlines", left |-> DeadlineBudget]

FirstPhase == [phase |-> "completions", left |-> CompletionBudget]

\* A call that finds neither a completion nor a due deadline changes nothing.
RunWorker ==
    /\ Ready
    /\ completions # <<>> \/ Due
    /\ worker' = FirstPhase
    /\ UNCHANGED <<slotVars, targets, cursor, deadlines, completions, actions, accepting,
                   gauges, now, published, freed, held>>

\* The mutant lets a late completion replace the terminal state.
Completed_Overwrites(r, c) ==
    LET stopped == IF c.released THEN DeviceStopped(r) ELSE r
    IN  QueueRelease([WithdrawCancel(stopped) EXCEPT
                        !.state = IF c.ok THEN "Completed" ELSE "Failed",
                        !.publish = IF @ = "idle" THEN "queued" ELSE @])

\* The request after apply_completion, for a request that is still live.
Completed(r, c) ==
    LET stopped == IF c.released THEN DeviceStopped(r) ELSE r
    IN  IF IsTerminal(r)
        THEN IF c.released THEN QueueRelease(stopped) ELSE r
        ELSE FinishTerminal(IF r.state = "CancelPending" THEN WithdrawCancel(stopped)
                            ELSE stopped,
                            IF c.ok THEN "Completed" ELSE "Failed")

ApplyCompletion ==
    LET c == Head(completions)
        i == c.id.slot
    IN  /\ worker.phase = "completions"
        /\ worker.left > 0
        /\ completions # <<>>
        /\ completions' = Tail(completions)
        /\ worker' = [worker EXCEPT !.left = @ - 1]
        /\ IF Valid(c.id)
           THEN ChangeOne(i, Completed(req[i], c),
                          IF IsTerminal(req[i]) /\ ~c.released THEN {} ELSE {i})
           ELSE UNCHANGED <<slotVars, targets, cursor, deadlines, actions, gauges, now,
                            published, freed>>
        /\ held' = IF c.released THEN held \ {c.id} ELSE held
        /\ UNCHANGED accepting

\* The call returns early while a recorded completion is left over.
AfterCompletions ==
    IF completions # <<>>
    THEN [phase |-> "idle", left |-> 0]
    ELSE [phase |-> "deadlines", left |-> DeadlineBudget]

CompletionsDone ==
    /\ worker.phase = "completions"
    /\ worker.left = 0 \/ completions = <<>>
    /\ worker' = AfterCompletions
    /\ UNCHANGED <<slotVars, targets, cursor, deadlines, completions, actions, accepting,
                   gauges, now, published, freed, held>>

TimedOut(r) ==
    FinishTerminal(IF r.started THEN QueueCancel([r EXCEPT !.cancelRequested = TRUE]) ELSE r,
                   "TimedOut")

ApplyTimeout ==
    LET i == First.id.slot
        applies == Valid(First.id) /\ ~IsTerminal(req[i])
    IN  /\ worker.phase = "deadlines"
        /\ worker.left > 0
        /\ Due
        /\ worker' = [worker EXCEPT !.left = @ - 1]
        /\ Change([req EXCEPT ![i] = IF applies THEN TimedOut(@) ELSE @],
                  IF applies THEN {i} ELSE {})
        /\ UNCHANGED <<completions, accepting, held>>

WorkerReturns ==
    /\ worker.phase = "deadlines"
    /\ worker.left = 0 \/ ~Due
    /\ worker' = [phase |-> "idle", left |-> 0]
    /\ UNCHANGED <<slotVars, targets, cursor, deadlines, completions, actions, accepting,
                   gauges, now, published, freed, held>>

-----------------------------------------------------------------------------
(* Cancellation, termination of owners, devices and shutdown               *)

\* request_cancel on a request that is neither terminal nor being canceled.
CancelRequest(r) ==
    LET asked == [r EXCEPT !.cancelRequested = TRUE]
    IN  IF r.state = "Pending"
        THEN FinishTerminal(asked, "Canceled")
        ELSE QueueCancel([asked EXCEPT !.state = "CancelPending"])

Cancelable(i) == req[i] # None /\ req[i].state \in {"Pending", "Active"}

Cancel(id) ==
    /\ Between
    /\ Valid(id)
    /\ Cancelable(id.slot)
    /\ ChangeOne(id.slot, CancelRequest(req[id.slot]), {id.slot})
    /\ UNCHANGED held

AcknowledgeCancel(id, stopped) ==
    LET r == req[id.slot]
        r2 == IF stopped THEN DeviceStopped(r) ELSE r
    IN  /\ Between
        /\ Valid(id)
        /\ r.cancelRequested
        /\ IF r.state = "CancelPending"
           THEN ChangeOne(id.slot, FinishTerminal(r2, "Canceled"), {id.slot})
           ELSE ChangeOne(id.slot, QueueRelease(r2), {})
        /\ held' = IF stopped THEN held \ {id} ELSE held

AcknowledgeDrain(id) ==
    /\ Between
    /\ Valid(id)
    /\ Draining(req[id.slot])
    /\ ChangeOne(id.slot, QueueRelease(DeviceStopped(req[id.slot])), {id.slot})
    /\ held' = held \ {id}

OwnerTerminated(r) ==
    LET asked == [r EXCEPT !.cancelRequested = TRUE]
    IN  FinishTerminal(IF r.state = "Pending" THEN asked ELSE QueueCancel(asked),
                       "OwnerTerminated")

\* terminate_matching: the live, non-terminal slots of M.
TerminateMatching(M) ==
    LET S == {i \in M : ~IsTerminal(req[i])}
    IN  /\ Change([i \in Slots |-> IF i \in S THEN OwnerTerminated(req[i]) ELSE req[i]], S)
        /\ UNCHANGED held

TerminateThread(o) ==
    /\ Between
    /\ TerminateMatching(OwnerSlots(o))

TerminateProcess(p) ==
    /\ Between
    /\ TerminateMatching({i \in LiveSlots : req[i].owner.process = p})

DeviceFailed(r, stopped) ==
    LET r1 == WithdrawCancel(r)
        r2 == IF stopped THEN DeviceStopped(r1) ELSE r1
    IN  IF IsTerminal(r) THEN QueueRelease(r2) ELSE FinishTerminal(r2, "Failed")

\* remove_device; reset_device is the case stopped = TRUE.
RemoveDevice(d, stopped) ==
    LET S == {i \in LiveSlots : /\ req[i].device = d
                                /\ ~IsTerminal(req[i]) \/ Draining(req[i])}
    IN  /\ Between
        /\ Change([i \in Slots |-> IF i \in S THEN DeviceFailed(req[i], stopped)
                                   ELSE req[i]], S)
        /\ held' = IF stopped THEN {id \in held : req[id.slot].device # d} ELSE held

BeginShutdown ==
    LET S == {i \in Slots : Cancelable(i)}
    IN  /\ Ready
        /\ accepting' = FALSE
        /\ Change([i \in Slots |-> IF i \in S THEN CancelRequest(req[i]) ELSE req[i]], S)
        /\ UNCHANGED <<completions, worker, held>>

ResumeAfterShutdownCancel ==
    /\ Ready
    /\ accepting' = TRUE
    /\ UNCHANGED <<slotVars, targets, cursor, deadlines, completions, actions, gauges,
                   worker, now, published, freed, held>>

-----------------------------------------------------------------------------
(* Integration: publishing, releasing and retiring                         *)

Retires(r) ==
    /\ IsTerminal(r)
    /\ r.publish = "dispatched"
    /\ r.res = "Released"
    /\ r.cancel # "queued"
    /\ r.release # "queued"

Advance_Wraps(g) == [gen |-> IF g = MaxGen THEN 1 ELSE g + 1, retired |-> FALSE]

\* generation.checked_add(1): the last generation retires the slot.
Advance(g) ==
    IF g = MaxGen THEN [gen |-> g, retired |-> TRUE] ELSE [gen |-> g + 1, retired |-> FALSE]

\* release_target_after_retirement
ForgetTarget(q, id, target) ==
    IF q.target = target
    THEN ReleaseIdle([q EXCEPT !.active = IF @ = id THEN None ELSE @,
                               !.queued = Without(@, {id})])
    ELSE q

\* Stores r in slot i, then try_retire.
StoreOrRetire(i, r) ==
    LET tbl == [t \in Table |-> ForgetTarget(targets[t], IdOf(i), r.target)]
    IN  IF Retires(r)
        THEN /\ req' = [req EXCEPT ![i] = None]
             /\ gen' = [gen EXCEPT ![i] = Advance(@).gen]
             /\ retired' = [retired EXCEPT ![i] = Advance(gen[i]).retired]
             /\ targets' = tbl
             /\ deadlines' = {d \in deadlines : d.id # IdOf(i)}
             /\ live' = live - 1
             /\ activeGauge' = activeGauge
                    - Cardinality(ActiveIds(targets) \ ActiveIds(tbl))
             /\ UNCHANGED queuedGauge
        ELSE /\ req' = [req EXCEPT ![i] = r]
             /\ UNCHANGED <<gen, retired, targets, deadlines, live, queuedGauge,
                            activeGauge>>

\* The flag of an action popped by next_action.
Dispatched(r, kind) ==
    CASE kind = "cancel"  -> [r EXCEPT !.cancel = "dispatched"]
      [] kind = "publish" -> [r EXCEPT !.publish = "dispatched"]
      [] OTHER            -> [r EXCEPT !.release = "dispatched"]

NextAction ==
    LET a == Head(actions)
        i == a.id.slot
    IN  /\ Between
        /\ actions # <<>>
        /\ actions' = Tail(actions)
        /\ IF Valid(a.id)
           THEN StoreOrRetire(i, Dispatched(req[i], a.kind))
           ELSE UNCHANGED <<slotVars, targets, deadlines, live, queuedGauge, activeGauge>>
        /\ published' = IF a.kind = "publish" THEN published \cup {a.id} ELSE published
        /\ UNCHANGED <<cursor, charged, now, freed, held>>

Uncharge(r) == charged - r.cost

AcknowledgeResourceRelease(id) ==
    LET r == req[id.slot]
    IN  /\ Between
        /\ Valid(id)
        /\ r.release = "dispatched"
        /\ r.res # "Released"
        /\ charged' = Uncharge(r)
        /\ StoreOrRetire(id.slot, [r EXCEPT !.res = "Released"])
        /\ freed' = freed \cup {id}
        /\ UNCHANGED <<cursor, actions, now, published, held>>

Tick ==
    /\ Between
    /\ now < MaxTime
    /\ now' = now + 1
    /\ UNCHANGED <<slotVars, targets, cursor, deadlines, actions, gauges, published, freed, held>>

-----------------------------------------------------------------------------
Completion == [id : Id, ok : BOOLEAN, released : BOOLEAN]

\* Batches of the clients, in submission order.
Batches == UNION {[1..n -> Submissions] : n \in 1..MaxBatch}

Processes == {o.process : o \in Owners}

Init ==
    /\ gen = [i \in Slots |-> 1]
    /\ retired = [i \in Slots |-> FALSE]
    /\ req = [i \in Slots |-> None]
    /\ targets = [t \in Table |-> [target |-> None, active |-> None, queued |-> <<>>]]
    /\ cursor = 0
    /\ deadlines = {}
    /\ completions = <<>>
    /\ actions = <<>>
    /\ accepting = TRUE
    /\ live = 0 /\ queuedGauge = 0 /\ activeGauge = 0 /\ charged = 0
    /\ worker = [phase |-> "idle", left |-> 0]
    /\ now = 0
    /\ published = {}
    /\ freed = {}
    /\ held = {}

\* The calls of clients, services and drivers.
ClientNext ==
    \/ \E b \in Batches : SubmitBatch(b)
    \/ \E id \in Issued : Cancel(id)
    \/ \E o \in Owners : TerminateThread(o)
    \/ \E p \in Processes : TerminateProcess(p)

ServiceNext ==
    \/ NextDispatch
    \/ \E id \in Issued : RequeueActive(id)
    \/ \E id \in Issued : MarkDeviceOwned(id)
    \/ \E id \in Issued, o \in Outcomes :
           RecordCompletion([id |-> id, ok |-> o.ok, released |-> o.released])
    \/ \E id \in Issued, stopped \in BOOLEAN : AcknowledgeCancel(id, stopped)
    \/ \E id \in Issued : AcknowledgeDrain(id)
    \/ \E d \in Devices, stopped \in BOOLEAN : RemoveDevice(d, stopped)

KernelNext ==
    \/ RunWorker
    \/ ApplyCompletion
    \/ CompletionsDone
    \/ ApplyTimeout
    \/ WorkerReturns
    \/ NextAction
    \/ \E id \in Issued : AcknowledgeResourceRelease(id)
    \/ BeginShutdown
    \/ ResumeAfterShutdownCancel
    \/ Tick

Next == ClientNext \/ ServiceNext \/ KernelNext

Spec == Init /\ [][Next]_vars

-----------------------------------------------------------------------------
(* Properties                                                              *)

\* A started or device-visible request is the active one of its target's table
\* entry, and no target has two entries: requests of one target are served one
\* at a time, and the target stays taken until the device has let go.
TargetExclusive ==
    /\ \A i \in LiveSlots :
          req[i].state \in {"Active", "CancelPending"} \/ Draining(req[i])
            => \E t \in Table : /\ targets[t].target = req[i].target
                                /\ targets[t].active = IdOf(i)
    /\ \A t, u \in Table :
          targets[t].target # None /\ targets[t].target = targets[u].target => t = u

\* The FIFOs hold exactly the pending requests, each once, under its target:
\* no request is lost on requeue, cancel or retirement, and none waits twice.
QueuesExact ==
    /\ \A i \in LiveSlots : req[i].state = "Pending" => IdOf(i) \in QueuedIds(targets)
    /\ \A t \in Table :
          /\ IsInjective(targets[t].queued)
          /\ Len(targets[t].queued) <= PerTarget
          /\ \A id \in Range(targets[t].queued) :
                /\ Valid(id)
                /\ req[id.slot].state = "Pending"
                /\ req[id.slot].target = targets[t].target

\* No release is offered, and no request retired, while a device may still
\* touch the request's buffers; and once a finished request is out of the
\* device's hands its release is on its way, so nothing leaks.
ReleaseAfterDrain ==
    /\ \A id \in held : Valid(id) /\ req[id.slot].release = "idle"
    /\ \A i \in LiveSlots :
          req[i].release # "idle" <=> IsTerminal(req[i]) /\ IdOf(i) \notin held

\* The action queue holds each action a live request is waiting for exactly
\* once and nothing of a retired one, so its preallocated 3 * capacity entries
\* are enough (push_action's debug assertion).
ActionsExact ==
    /\ Len(actions) <= 3 * Capacity
    /\ \A k \in {"cancel", "publish", "release"}, i \in Slots :
          LET mine == {n \in DOMAIN actions : /\ actions[n].kind = k
                                              /\ actions[n].id.slot = i}
              flag == IF req[i] = None THEN "idle"
                      ELSE CASE k = "cancel" -> req[i].cancel
                             [] k = "publish" -> req[i].publish
                             [] k = "release" -> req[i].release
          IN  /\ Cardinality(mine) = (IF flag = "queued" THEN 1 ELSE 0)
              /\ \A n \in mine : actions[n].id = IdOf(i)

\* Every request that left the table was published and its resources were
\* freed, and no result is offered for publication a second time.
PublishedOnce ==
    /\ \A id \in Issued : Valid(id) \/ id \in freed \cap published
    /\ \A n \in DOMAIN actions :
          actions[n].kind = "publish" => actions[n].id \notin published

\* What admission and the worker decide by is exact: the heap holds the
\* deadlines of the requests that are not terminal yet and no timer of an older
\* request, the gauges count what the slots and queues hold, and no quota is
\* exceeded, by single submissions or by batches.
AccountsExact ==
    /\ deadlines = {[at |-> req[i].deadline, id |-> IdOf(i)] :
                       i \in {j \in LiveSlots : ~IsTerminal(req[j]) /\ req[j].deadline # None}}
    /\ live = Cardinality(LiveSlots)
    /\ queuedGauge = Cardinality(QueuedIds(targets))
    /\ activeGauge = Cardinality(ActiveIds(targets))
    /\ charged = MapThenSumSet(LAMBDA i : IF req[i].res = "Released" THEN 0 ELSE req[i].cost,
                               LiveSlots)
    /\ charged <= CostSystem
    /\ \A o \in Owners : /\ Cardinality(OwnerSlots(o)) <= PerOwner
                         /\ OwnerCost(o) <= CostPerOwner

FinalStep ==
    /\ \A i \in LiveSlots : IsTerminal(req[i]) =>
          req'[i] = None \/ req'[i].state = req[i].state
    /\ \A id \in Issued : ~Valid(id) => ~Valid(id)'

\* A terminal request keeps its state until it leaves the table, and an id that
\* was issued and is no longer valid never becomes valid again.
TerminalIsFinal == [][FinalStep]_vars

\* The request of slot i is timed out by this step.
ExpiresNow(i) == ~IsTerminal(req[i]) /\ req'[i] # None /\ req'[i].state = "TimedOut"

CompletionFirst ==
    \A i \in LiveSlots :
        ExpiresNow(i) => \A n \in DOMAIN completions : completions[n].id # IdOf(i)

\* A completion that is already recorded wins over the deadline: no request
\* with a queued completion is timed out.
CompletionBeatsDeadline == [][CompletionFirst]_vars
=============================================================================
