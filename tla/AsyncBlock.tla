----------------------------- MODULE AsyncBlock -----------------------------
(* The asynchronous block request queue (async_block.rs). A request is split *)
(* into child commands that a device works on at the same time; fences order *)
(* the requests of a device; cancelled and timed-out requests stay until the *)
(* hardware is done with them or the device is reset or removed.             *)
(*                                                                           *)
(* The queue is a record, and each of its methods a function of it:          *)
(*   slots    index -> the request slot                                      *)
(*   devices  index -> the device slot                                       *)
(*   queues   priority -> the entries [id, age] that wait for dispatch       *)
(*   flight   in_flight_commands                                             *)
(*   shutdown Running, Quiescing or Drained                                  *)
(* Times are relative: the time left to a deadline and the age of an entry.  *)
(* Addresses, DMA segments and diagnostics are left out; a length is the     *)
(* number of children it is split into.                                      *)
EXTENDS Integers, Sequences, FiniteSets, FiniteSetsExt, SeqOps

CONSTANTS
    None,
    Capacity,             \* request slots
    DeviceCapacity,       \* device slots
    MaxGeneration,        \* the last generation of a request slot (u32::MAX)
    MaxDeviceGeneration,  \* the last generation of a device slot (u32::MAX)
    MaxEpoch,             \* the last epoch of a device (u32::MAX)
    Requests,             \* the requests clients make: [op, priority, children, deadline]
    Configs,              \* the devices that arrive: [depth, flush]
    Weights,              \* priority_weights
    Aging,                \* background_aging_ns
    Interval              \* background_progress_interval

Slots == 1..Capacity
DeviceSlots == 1..DeviceCapacity
Id == [slot : Slots, gen : 1..MaxGeneration]
DeviceId == [index : DeviceSlots, gen : 1..MaxDeviceGeneration]

\* BlockPriority: latency, normal and background.
Priorities == 0..2
Background == 2
Operations == {"Read", "Write", "Flush", "Barrier"}
IsFence(op) == op \in {"Flush", "Barrier"}
Statuses == {"Success", "IoError", "Unsupported"}
Outcomes == Statuses \union
    {"Cancelled", "TimedOut", "DeviceReset", "DeviceRemoved", "ForcedShutdown"}

ASSUME SizeAssumption ==
    /\ {Capacity, DeviceCapacity, MaxGeneration, MaxDeviceGeneration, MaxEpoch, Interval}
         \subseteq Nat \ {0}
    /\ Aging \in Nat
    /\ Weights \in [Priorities -> Nat \ {0}]
    /\ Configs \subseteq [depth : Nat \ {0}, flush : BOOLEAN]

\* Requests as validate_submission admits them: a fence has one child.
ASSUME RequestAssumption ==
    /\ \A r \in Requests : /\ r.op \in Operations /\ r.priority \in Priorities
                           /\ r.children \in Nat \ {0} /\ (IsFence(r.op) => r.children = 1)
                           /\ r.deadline = None \/ r.deadline \in Nat \ {0}
    /\ None \notin Nat \union Outcomes \union DeviceId

-----------------------------------------------------------------------------
(* The tables *)

VacantSlot(gen) ==
    [gen |-> gen, state |-> "Free", device |-> None, op |-> "Read", priority |-> 1, deadline |-> None,
     seq |-> 0, epoch |-> 0, children |-> <<>>, flight |-> 0, queued |-> FALSE, pending |-> None,
     outcome |-> None, bytes |-> 0]

EmptyDevice ==
    [gen |-> 1, epoch |-> 1, ever |-> FALSE, present |-> FALSE, depth |-> 0, flush |-> FALSE,
     flight |-> 0, seq |-> 1, order |-> 1, serial |-> 1, credits |-> [p \in Priorities |-> 0],
     cursor |-> 0, passed |-> 0, final |-> "None", finalSerial |-> 0]

NewQueue ==
    [slots |-> [i \in Slots |-> VacantSlot(1)], devices |-> [d \in DeviceSlots |-> EmptyDevice],
     queues |-> [p \in Priorities |-> <<>>], flight |-> 0, shutdown |-> "Running"]

IdOf(q, i) == [slot |-> i, gen |-> q.slots[i].gen]
IsLive(s) == s.state \in {"Queued", "Active"}
LiveSlots(q) == {i \in Slots : IsLive(q.slots[i])}

\* request_index and device_index: does the id name a request, a present device?
Names(q, id) == /\ q.slots[id.slot].gen = id.gen
                /\ q.slots[id.slot].state \notin {"Free", "Retired"}
IsPresent(q, d) == q.devices[d.index].present /\ q.devices[d.index].gen = d.gen
DevicesOf(q) == {d \in DeviceId : IsPresent(q, d)}

IsUntold(c) == c.state = "InFlight" /\ ~c.told
\* The children are dispatched in order: next_child is the first one pending.
Dispatched(s) == Cardinality({c \in DOMAIN s.children : s.children[c].state # "Pending"})
Undispatched(s) == Dispatched(s) < Len(s.children)

-----------------------------------------------------------------------------
(* Ends of requests *)

\* update_shutdown_state
IsDrained(q) ==
    /\ LiveSlots(q) = {}
    /\ \A d \in DeviceSlots :
          q.devices[d].present => q.devices[d].final \notin {"Pending", "InFlight"}
    /\ q.flight = 0
ShutdownUpdated(q) ==
    IF q.shutdown = "Quiescing" /\ IsDrained(q) THEN [q EXCEPT !.shutdown = "Drained"] ELSE q

\* The queue with the slots of f's domain replaced. Requests that end together
\* do so in one step: none reads what the loop does to another, and the queue is
\* drained at the earliest after the last.
WithSlots(q, f) ==
    [q EXCEPT !.slots = [i \in Slots |-> IF i \in DOMAIN f THEN f[i] ELSE q.slots[i]]]

\* enqueue, and remove_queued_entry for the requests of S
Enqueued(q, i) ==
    [q EXCEPT !.queues[q.slots[i].priority] = Append(@, [id |-> IdOf(q, i), age |-> 0]),
              !.slots[i].queued = TRUE]
EntriesOf(q, p, S) == {e \in Range(q.queues[p]) : \E i \in S : e.id = IdOf(q, i)}
EntriesRemoved_Kept(q, S) == WithSlots(q, [i \in S |-> [q.slots[i] EXCEPT !.queued = FALSE]])
EntriesRemoved(q, S) ==
    [WithSlots(q, [i \in S |-> [q.slots[i] EXCEPT !.queued = FALSE]]) EXCEPT
        !.queues = [p \in Priorities |-> Without(q.queues[p], EntriesOf(q, p, S))]]

\* mark_terminal_at: the outcome is the one that is pending, if any.
Ended(s) ==
    IF s.state = "Terminal" THEN s
    ELSE [s EXCEPT !.state = "Terminal",
                   !.outcome = IF s.pending = None THEN "Success" ELSE s.pending]
Finished(q, S) ==
    LET r == EntriesRemoved(q, S)
    IN  ShutdownUpdated(WithSlots(r, [i \in S |-> Ended(r.slots[i])]))

\* abort_request: with commands in flight the request waits for the hardware.
Aborting(q, S, outcome) ==
    EntriesRemoved(WithSlots(q, [i \in S |-> [q.slots[i] EXCEPT !.pending = outcome]]), S)
Aborted_AtOnce(q, S, outcome) == Finished(Aborting(q, S, outcome), S)
Aborted(q, S, outcome) ==
    Finished(Aborting(q, S, outcome), {i \in S : q.slots[i].flight = 0})

\* expire_deadlines
IsExpired(s) == IsLive(s) /\ s.pending = None /\ s.deadline = 0
Expired(q) ==
    LET S == {i \in Slots : IsExpired(q.slots[i])}
    IN  IF S = {} THEN q ELSE Aborted(q, S, "TimedOut")

\* fail_device_requests, for the devices of D
FailedSlot(s, outcome) ==
    [s EXCEPT !.flight = 0, !.pending = IF s.pending = None THEN outcome ELSE s.pending]
Failed(q, D, outcome) ==
    LET S == {i \in LiveSlots(q) : q.slots[i].device \in D}
    IN  Finished(WithSlots(q, [i \in S |-> FailedSlot(q.slots[i], outcome)]), S)

\* recount_in_flight
Recounted(q) ==
    [q EXCEPT !.flight = MapThenSumSet(LAMBDA d : q.devices[d].flight, DeviceSlots)]

-----------------------------------------------------------------------------
(* Dispatch *)

\* A fence waits for every earlier request of its device.
Blocks(fence, other) ==
    IsLive(other) /\ other.device = fence.device /\ other.seq < fence.seq
\* Data wait for every fence of an earlier ordering epoch.
Fences(data, other) ==
    IsLive(other) /\ other.device = data.device /\ IsFence(other.op) /\ other.epoch < data.epoch

\* is_dispatchable
IsDispatchable(q, i) ==
    LET s == q.slots[i] IN
    /\ IsLive(s) /\ s.pending = None /\ Undispatched(s) /\ q.devices[s.device.index].present
    /\ \A j \in Slots : IF IsFence(s.op) THEN ~Blocks(s, q.slots[j]) ELSE ~Fences(s, q.slots[j])

\* take_eligible: the first eligible entry of a queue; those before it are
\* rotated to the back.
IsEligible(q, d, e, aged) ==
    /\ Names(q, e.id) /\ q.slots[e.id.slot].queued /\ q.slots[e.id.slot].device.index = d
    /\ aged => e.age >= Aging
    /\ IsDispatchable(q, e.id.slot)
Positions(q, d, p, aged) ==
    {n \in DOMAIN q.queues[p] : IsEligible(q, d, q.queues[p][n], aged)}
Taken(q, d, p, aged) ==
    LET n == Min(Positions(q, d, p, aged))
        w == q.queues[p]
    IN  [found |-> w[n].id.slot,
         q |-> [q EXCEPT !.queues[p] = SubSeq(w, n + 1, Len(w)) \o SubSeq(w, 1, n - 1),
                         !.slots[w[n].id.slot].queued = FALSE]]

\* One turn of the weighted loop of select_request: refill spent credits, move
\* the cursor, and spend a credit or, with nothing eligible, all of them.
Refilled(q, d) ==
    IF \A p \in Priorities : q.devices[d].credits[p] = 0
    THEN [q EXCEPT !.devices[d].credits = Weights] ELSE q
FairTurn(q, d) ==
    LET p == q.devices[d].cursor
        r == [Refilled(q, d) EXCEPT !.devices[d].cursor = (p + 1) % 3]
    IN  IF r.devices[d].credits[p] = 0 THEN [found |-> None, q |-> r]
        ELSE IF Positions(r, d, p, FALSE) = {}
             THEN [found |-> None, q |-> [r EXCEPT !.devices[d].credits[p] = 0]]
             ELSE LET t == Taken(r, d, p, FALSE)
                  IN  [t EXCEPT !.q.devices[d].credits[p] = @ - 1]
\* A round gives each priority a turn, until a request is found.
Turn(r, d) == IF r.found # None THEN r ELSE FairTurn(r.q, d)
Round(r, d) == Turn(Turn(Turn(r, d), d), d)
FairSelected_OneRound(q, d) == Round([found |-> None, q |-> q], d)
FairSelected(q, d) == Round(Round([found |-> None, q |-> q], d), d)

\* select_request: aged background work first, then background work that was
\* passed over long enough, then by weight.
Selected(q, d) ==
    IF Positions(q, d, Background, TRUE) # {} THEN Taken(q, d, Background, TRUE)
    ELSE IF q.devices[d].passed >= Interval /\ Positions(q, d, Background, FALSE) # {}
         THEN Taken(q, d, Background, FALSE)
         ELSE FairSelected(q, d)

\* dispatch_request: the token and the queue with the next child in flight. The
\* count of dispatches that passed over background work matters up to Interval.
Token(q, d, i, c) ==
    [id |-> IdOf(q, i), device |-> q.slots[i].device, epoch |-> q.devices[d].epoch, child |-> c,
     serial |-> q.devices[d].serial, final |-> FALSE]
RequestDispatched(q, d, i) ==
    LET c == Dispatched(q.slots[i]) + 1
        s == [q.slots[i] EXCEPT !.state = "Active", !.flight = @ + 1,
                 !.children[c] = [state |-> "InFlight", serial |-> q.devices[d].serial, told |-> FALSE]]
        r == [q EXCEPT !.slots[i] = s, !.devices[d].serial = @ + 1, !.devices[d].flight = @ + 1,
                       !.devices[d].passed = IF s.priority = Background THEN 0 ELSE Min({@ + 1, Interval}),
                       !.flight = @ + 1]
    IN  [q |-> IF Undispatched(s) THEN Enqueued(r, i) ELSE r, token |-> Token(q, d, i, c)]

\* dispatch_shutdown_flush, once the device has nothing else to do.
WantsFinal(q, d) ==
    /\ q.shutdown = "Quiescing" /\ q.devices[d].final = "Pending" /\ q.devices[d].flight = 0
    /\ \A i \in LiveSlots(q) : q.slots[i].device.index # d
FinalToken(q, d) ==
    [id |-> None, device |-> [index |-> d, gen |-> q.devices[d].gen], epoch |-> q.devices[d].epoch,
     child |-> 0, serial |-> q.devices[d].serial, final |-> TRUE]
FinalSent(dev) ==
    [dev EXCEPT !.final = "InFlight", !.finalSerial = dev.serial, !.serial = @ + 1, !.flight = @ + 1]
FinalDispatched(q, d) ==
    [q |-> [q EXCEPT !.devices[d] = FinalSent(q.devices[d]), !.flight = @ + 1],
     token |-> FinalToken(q, d)]

\* dispatch_one: the queue and the command's token, or None.
DispatchedOne(q0, d) ==
    LET q == Expired(q0)
        s == Selected(q, d)
    IN  IF q.devices[d].flight >= q.devices[d].depth THEN [q |-> q, token |-> None]
        ELSE IF s.found # None THEN RequestDispatched(s.q, d, s.found)
        ELSE IF WantsFinal(s.q, d) THEN FinalDispatched(s.q, d)
        ELSE [q |-> s.q, token |-> None]

-----------------------------------------------------------------------------
(* Completion *)

\* complete_observed accepts a token of the device's present epoch whose child
\* is in flight under its serial; every other one is stale or a duplicate.
IsCurrent(q, t) == IsPresent(q, t.device) /\ q.devices[t.device.index].epoch = t.epoch
AcceptsChild(q, t) ==
    /\ Names(q, t.id) /\ q.slots[t.id.slot].device = t.device
    /\ t.child \in DOMAIN q.slots[t.id.slot].children
    /\ LET c == q.slots[t.id.slot].children[t.child] IN c.state = "InFlight" /\ c.serial = t.serial

\* A child is done: the first failure decides the outcome and stops dispatch.
\* bytes counts the children of data that succeeded.
OneLess(n) == Max({n - 1, 0})
ChildDone(q, t, status) ==
    LET i == t.id.slot
        a == [q EXCEPT !.slots[i].children[t.child] = [state |-> "Done", serial |-> 0, told |-> FALSE],
                       !.slots[i].flight = OneLess(@), !.devices[t.device.index].flight = OneLess(@),
                       !.flight = OneLess(@)]
    IN  IF status = "Success" THEN [a EXCEPT !.slots[i].bytes = IF IsFence(q.slots[i].op) THEN @ ELSE @ + 1]
        ELSE IF q.slots[i].pending = None THEN EntriesRemoved([a EXCEPT !.slots[i].pending = status], {i})
        ELSE a
IsComplete(s) == s.flight = 0 /\ (s.pending # None \/ ~Undispatched(s))
ChildCompleted(q, t, status) ==
    LET i == t.id.slot
        a == ChildDone(q, t, status)
    IN  ShutdownUpdated(IF IsComplete(a.slots[i]) THEN Finished(a, {i}) ELSE a)

\* complete_shutdown_flush
FinalCompleted(q, t, status) ==
    LET d == t.device.index IN
    IF q.devices[d].final = "InFlight" /\ q.devices[d].finalSerial = t.serial
    THEN ShutdownUpdated([q EXCEPT !.devices[d].flight = OneLess(@), !.flight = OneLess(@),
                                   !.devices[d].final = IF status = "Success" THEN "Done" ELSE "Failed",
                                   !.devices[d].finalSerial = 0])
    ELSE q

Completed(q, t, status) ==
    IF ~IsCurrent(q, t) THEN q
    ELSE IF t.final THEN FinalCompleted(q, t, status)
    ELSE IF AcceptsChild(q, t) THEN ChildCompleted(q, t, status)
    ELSE q

-----------------------------------------------------------------------------
(* Clients and devices *)

\* register_device takes the first slot without a device.
DeviceRoom(q) == {d \in DeviceSlots : ~q.devices[d].present}
Registered(q, config) ==
    LET d == Min(DeviceRoom(q))
        old == q.devices[d]
    IN  [q EXCEPT !.devices[d] =
            [EmptyDevice EXCEPT !.gen = IF old.ever THEN old.gen + 1 ELSE old.gen,
                                !.ever = TRUE, !.present = TRUE,
                                !.depth = config.depth, !.flush = config.flush,
                                !.final = IF q.shutdown = "Quiescing" THEN "Pending" ELSE "None"]]

\* submit takes the first free slot; requests behind a fence belong to the
\* ordering epoch after it.
Free(q) == {i \in Slots : q.slots[i].state = "Free"}
NextOrder_Same(d, r) == d.order
NextOrder(d, r) == IF IsFence(r.op) THEN d.order + 1 ELSE d.order
Submitted(q, d, r) ==
    LET i == Min(Free(q))
        dev == q.devices[d.index]
        s == [VacantSlot(q.slots[i].gen) EXCEPT
                 !.state = "Queued", !.device = d, !.op = r.op, !.priority = r.priority,
                 !.deadline = r.deadline, !.seq = dev.seq, !.epoch = dev.order,
                 !.children = [c \in 1..r.children |-> [state |-> "Pending", serial |-> 0, told |-> FALSE]]]
    IN  Enqueued([q EXCEPT !.slots[i] = s, !.devices[d.index].seq = @ + 1,
                           !.devices[d.index].order = NextOrder(dev, r)], i)

\* poll_cancel hands out each command of an aborted request once, in order.
Untold(q, d) ==
    {i \in Slots : /\ q.slots[i].device = d /\ q.slots[i].pending # None
                   /\ \E c \in DOMAIN q.slots[i].children : IsUntold(q.slots[i].children[c])}
CancelTold(q, d) ==
    LET i == Min(Untold(q, d))
        c == Min({n \in DOMAIN q.slots[i].children : IsUntold(q.slots[i].children[n])})
    IN  [q EXCEPT !.slots[i].children[c].told = TRUE]

\* take_completion frees the slot for its next generation or retires it.
Released(q, i) ==
    [q EXCEPT !.slots[i] = IF q.slots[i].gen < MaxGeneration THEN VacantSlot(q.slots[i].gen + 1)
                           ELSE [VacantSlot(q.slots[i].gen) EXCEPT !.state = "Retired"]]

\* reset_device and remove_device, with the driver's DMA stopped.
NewEpoch(dev) == [dev EXCEPT !.epoch = @ + 1, !.flight = 0, !.finalSerial = 0]
Reset(q, d) ==
    LET dev == [NewEpoch(q.devices[d.index]) EXCEPT
                  !.credits = [p \in Priorities |-> 0],
                  !.final = IF q.shutdown = "Quiescing" THEN "Failed" ELSE "None"]
    IN  ShutdownUpdated(Recounted(Failed([q EXCEPT !.devices[d.index] = dev], {d}, "DeviceReset")))
Removed(q, d) ==
    LET dev == [NewEpoch(q.devices[d.index]) EXCEPT !.present = FALSE, !.final = "Failed"]
    IN  ShutdownUpdated(Recounted(Failed([q EXCEPT !.devices[d.index] = dev], {d}, "DeviceRemoved")))

ShutdownBegun(q) ==
    ShutdownUpdated([q EXCEPT !.shutdown = "Quiescing",
        !.devices = [d \in DeviceSlots |->
            IF ~@[d].present THEN @[d]
            ELSE [@[d] EXCEPT !.final = IF q.devices[d].flush THEN "Pending" ELSE "Done"]]])

\* force_shutdown, of every device; the epoch saturates.
ForcedDevice(dev) ==
    IF ~dev.present THEN dev
    ELSE [dev EXCEPT !.epoch = Min({@ + 1, MaxEpoch}), !.flight = 0, !.final = "Failed"]
Forced(q) ==
    LET a == [q EXCEPT !.shutdown = "Quiescing",
                       !.devices = [d \in DeviceSlots |-> ForcedDevice(q.devices[d])]]
    IN  ShutdownUpdated(Recounted(Failed(a, DevicesOf(q), "ForcedShutdown")))
=============================================================================
