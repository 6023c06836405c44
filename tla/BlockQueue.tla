----------------------------- MODULE BlockQueue -----------------------------
(* The block queue with its clients and the drivers it dispatches to: any    *)
(* order of the calls of AsyncBlockQueue, by clients and by                  *)
(* run_device_worker, against hardware that keeps what it accepts until it   *)
(* reports it or is stopped, and that may report a token again afterwards.   *)
EXTENDS AsyncBlock

CONSTANTS
    Failures,         \* the statuses of hardware errors in use
    MaxDisturbances   \* a bound on cancellations, errors, resets, removals, late reports

ASSUME DisturbanceAssumption == Failures \subseteq Statuses \ {"Success"} /\ MaxDisturbances \in Nat

VARIABLES
    q,     \* the AsyncBlockQueue
    hw,    \* the tokens of the commands the hardware owns
    late,  \* a token the hardware no longer owns and may still report
    left   \* the disturbances that may still happen

vars == <<q, hw, late, left>>

Init == q = NewQueue /\ hw = {} /\ late = {} /\ left = MaxDisturbances

Disturb(n) == left >= n /\ left' = left - n

\* The hardware lets go of commands and may come back to one of them.
LetGo(tokens, n) ==
    /\ hw' = hw \ tokens
    /\ \/ late' = late /\ Disturb(n)
       \/ \E t \in tokens : late' = {t} /\ Disturb(n + 1)
Owned(d) == {t \in hw : t.device = d}

-----------------------------------------------------------------------------
(* Clients *)

Submit(d, r) ==
    /\ q.shutdown = "Running" /\ IsPresent(q, d) /\ Free(q) # {}
    /\ q' = Submitted(q, d, r)
    /\ UNCHANGED <<hw, late, left>>

Cancel(i) ==
    /\ IsLive(q.slots[i]) /\ q.slots[i].pending = None
    /\ q' = Aborted(q, {i}, "Cancelled")
    /\ Disturb(1) /\ UNCHANGED <<hw, late>>

TakeCompletion(i) ==
    /\ q.slots[i].state = "Terminal"
    /\ q' = Released(q, i)
    /\ UNCHANGED <<hw, late, left>>

-----------------------------------------------------------------------------
(* run_device_worker *)

Complete(t, status) ==
    /\ t \in hw
    /\ q' = Completed(q, t, status)
    /\ LetGo({t}, IF status = "Success" THEN 0 ELSE 1)

\* A token reported twice, or after the device was stopped.
CompleteLate(t, status) ==
    /\ t \in late
    /\ q' = Completed(q, t, status)
    /\ late' = {} /\ UNCHANGED <<hw, left>>

ExpireDeadlines ==
    /\ \E i \in Slots : IsExpired(q.slots[i])
    /\ q' = Expired(q)
    /\ UNCHANGED <<hw, late, left>>

PollCancel(d) ==
    /\ IsPresent(q, d) /\ Untold(q, d) # {}
    /\ q' = CancelTold(q, d)
    /\ UNCHANGED <<hw, late, left>>

\* The driver takes the command, or refuses it and the worker ends it.
Dispatch(d) ==
    LET r == DispatchedOne(q, d.index) IN
    /\ IsPresent(q, d)
    /\ \/ r.token = None /\ q' = r.q /\ UNCHANGED <<hw, left>>
       \/ r.token # None /\ q' = r.q /\ hw' = hw \union {r.token} /\ UNCHANGED left
       \/ r.token # None /\ q' = Completed(r.q, r.token, "IoError") /\ Disturb(1) /\ UNCHANGED hw
    /\ UNCHANGED late

-----------------------------------------------------------------------------
(* Devices and shutdown *)

RegisterDevice(config) ==
    /\ DeviceRoom(q) # {}
    /\ LET old == q.devices[Min(DeviceRoom(q))] IN old.ever => old.gen < MaxDeviceGeneration
    /\ q' = Registered(q, config)
    /\ UNCHANGED <<hw, late, left>>

\* The driver has stopped its DMA when it tells the queue.
ResetDevice(d) ==
    /\ IsPresent(q, d) /\ q.devices[d.index].epoch < MaxEpoch
    /\ q' = Reset(q, d)
    /\ LetGo(Owned(d), 1)

RemoveDevice(d) ==
    /\ IsPresent(q, d) /\ q.devices[d.index].epoch < MaxEpoch
    /\ q' = Removed(q, d)
    /\ LetGo(Owned(d), 1)

BeginShutdown ==
    /\ q.shutdown = "Running"
    /\ q' = ShutdownBegun(q)
    /\ UNCHANGED <<hw, late, left>>

ForceShutdown ==
    /\ q' = Forced(q)
    /\ LetGo(hw, 1)

\* Time passes for the deadlines and for the ages of the background entries, the
\* only ones whose age counts, up to Aging.
Tick ==
    /\ q' = [q EXCEPT
          !.slots = [i \in Slots |-> IF IsLive(@[i]) /\ @[i].deadline # None
                                     THEN [@[i] EXCEPT !.deadline = OneLess(@)] ELSE @[i]],
          !.queues[Background] = [n \in DOMAIN @ |-> [@[n] EXCEPT !.age = Min({@ + 1, Aging})]]]
    /\ UNCHANGED <<hw, late, left>>

Next ==
    \/ \E c \in Configs : RegisterDevice(c)
    \/ \E d \in DevicesOf(q) : \/ \E r \in Requests : Submit(d, r)
                               \/ PollCancel(d) \/ Dispatch(d) \/ ResetDevice(d) \/ RemoveDevice(d)
    \/ \E i \in Slots : Cancel(i) \/ TakeCompletion(i)
    \/ \E t \in hw, s \in {"Success"} \union Failures : Complete(t, s)
    \/ \E t \in late, s \in {"Success"} \union Failures : CompleteLate(t, s)
    \/ ExpireDeadlines \/ BeginShutdown \/ ForceShutdown \/ Tick

Spec == Init /\ [][Next]_vars

-----------------------------------------------------------------------------
(* Properties *)

\* The queue counts as in flight exactly what the hardware owns: buffers go back
\* to a client only when no command can touch them, a late or repeated report
\* ends no other command, and a device is never given more than its depth.
InFlight(s) == {c \in DOMAIN s.children : s.children[c].state = "InFlight"}
Expected ==
    UNION {{[Token(q, q.slots[i].device.index, i, c) EXCEPT !.serial = q.slots[i].children[c].serial] :
               c \in InFlight(q.slots[i])} : i \in LiveSlots(q)}
    \union {[FinalToken(q, d) EXCEPT !.serial = q.devices[d].finalSerial] :
               d \in {e \in DeviceSlots : q.devices[e].present /\ q.devices[e].final = "InFlight"}}
HardwareExact ==
    /\ hw = Expected
    /\ \A i \in LiveSlots(q) : q.slots[i].flight = Cardinality(InFlight(q.slots[i]))
    /\ \A d \in DeviceSlots : q.devices[d].flight = Cardinality({t \in hw : t.device.index = d})
    /\ q.flight = Cardinality(hw)

\* A request waits in the queue of its priority, once, for as long as it has
\* children to dispatch and has not failed: failures, time-outs, resets and the
\* rotation of take_eligible neither lose nor duplicate its entry.  It succeeds
\* only when all its children were dispatched and succeeded.
EntriesExact ==
    /\ \A p \in Priorities : \A n \in DOMAIN q.queues[p] :
          LET id == q.queues[p][n].id IN
          /\ Names(q, id) /\ q.slots[id.slot].queued /\ q.slots[id.slot].priority = p
          /\ \A m \in DOMAIN q.queues[p] : q.queues[p][m].id = id => m = n
    /\ \A i \in Slots :
          /\ q.slots[i].queued <=>
                IsLive(q.slots[i]) /\ q.slots[i].pending = None /\ Undispatched(q.slots[i])
          /\ q.slots[i].queued =>
                \E n \in DOMAIN q.queues[q.slots[i].priority] :
                    q.queues[q.slots[i].priority][n].id = IdOf(q, i)
    /\ \A i \in Slots : q.slots[i].outcome = "Success" =>
          /\ \A c \in DOMAIN q.slots[i].children : q.slots[i].children[c].state = "Done"
          /\ ~IsFence(q.slots[i].op) => q.slots[i].bytes = Len(q.slots[i].children)

\* Fences order a device's requests as they were submitted: whatever has been
\* dispatched, a fence starts after all before it have ended and ends before any
\* after it starts. The final flush of a shutdown comes after everything, and a
\* queue that says it is drained has nothing left to do.
FencesHold ==
    /\ \A i, j \in LiveSlots(q) :
          /\ q.slots[i].device = q.slots[j].device /\ q.slots[i].seq < q.slots[j].seq
          /\ q.slots[j].state = "Active"
          => ~IsFence(q.slots[i].op) /\ ~IsFence(q.slots[j].op)
    /\ \A d \in DeviceSlots : q.devices[d].final = "InFlight" =>
          \A i \in LiveSlots(q) : q.slots[i].device.index # d
    /\ q.shutdown = "Drained" => LiveSlots(q) = {} /\ hw = {}

\* The weighted rounds find work whenever there is some: a device with a free
\* place and a request it may start is given one, whatever credits are left.
WorkConserving ==
    \A d \in DevicesOf(q) :
        LET e == Expired(q) IN
        /\ e.devices[d.index].flight < e.devices[d.index].depth
        /\ \E i \in Slots : e.slots[i].device = d /\ IsDispatchable(e, i)
        => DispatchedOne(q, d.index).token # None
=============================================================================
