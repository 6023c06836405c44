-------------------------- MODULE StorageDiskProofs --------------------------
(***************************************************************************)
(* Storage follows the rules of the loan: the proof that StorageDisk       *)
(* implements DmaLoan, for every pool, queue and set of transfers.         *)
(***************************************************************************)
EXTENDS StorageDisk, AsyncBlockProofs

-----------------------------------------------------------------------------
(* The inductive invariant                                                 *)

\* The transfer is under way: its pages are submitted. Otherwise, if it is still
\* pending, they are in quarantine.
InTransfer == fiber.call = "Transfer" /\ fiber.at # "Submit"

FiberInv ==
    /\ DOMAIN fiber = {"at", "call", "request", "chunks", "failed", "timer"}
    /\ fiber.at \in {"Idle", "Submit", "Complete", "Cancel", "Dispatch", "Check", "Reset"}
    /\ fiber.call \in {"None", "Transfer", "Shutdown", "Reset"}
    /\ fiber.at = "Idle" <=> fiber = Idle
    /\ fiber.call = "None" <=> fiber = Idle
    /\ fiber.at = "Submit" => fiber.call = "Transfer"
    /\ fiber.call = "Transfer" => fiber.request \in Requests
    /\ fiber.call = "Reset" => fiber.at = "Reset"
    /\ fiber.call = "Shutdown" => pending = None
    /\ InTransfer => pending # None /\ IsPresent(q, Disk)

\* The queue knows no request but the pending one.
PendingInv ==
    /\ \A i \in Slots : q.slots[i].state \notin Vacant => pending # None /\ i = pending.id.slot
    /\ pending # None => /\ pending.id \in Id
                         /\ q.slots[pending.id.slot].state \notin Vacant

Page == [state : {"Available", "Submitted", "Quarantined"}, gen : 0..MaxLease,
         id : Id \union {None}, next : 1..MaxLease]
PagesInv ==
    /\ pool \in [Pool -> Page]
    /\ pending # None => \A p \in pending.pages :
          p.index \in Pool /\ Owns(p, {IF InTransfer THEN "Submitted" ELSE "Quarantined"})
    /\ \A p \in Pool : pool[p].state = "Submitted" =>
          /\ pending # None /\ InTransfer
          /\ pool[p].id = pending.id /\ [index |-> p, gen |-> pool[p].gen] \in pending.pages

\* A command in the hardware is the final flush, or a child in flight of the
\* pending request, each of its own, that reaches the pages of the transfer.
HardwareInv ==
    /\ \A c \in hw : c.token.final => c.pages = {}
    /\ \A c \in hw : ~c.token.final =>
          /\ pending # None
          /\ c.token.id.slot = pending.id.slot
          /\ c.pages = Indices(pending.pages)
          /\ IsLive(q.slots[pending.id.slot])
          /\ c.token.child \in InFlight(q.slots[pending.id.slot])
    /\ \A c, e \in hw : ~c.token.final /\ ~e.token.final /\ c.token.child = e.token.child => c = e

IInv == QueueInv(q) /\ FiberInv /\ PendingInv /\ PagesInv /\ HardwareInv

-----------------------------------------------------------------------------
(* Storage: what a step of one part leaves of the invariant                *)

\* The driver's device has a slot.
LEMMA DiskSlot ==
    Disk.index \in DeviceSlots /\ Disk.index = 1
BY SizeAssumption DEF Disk, DeviceSlots

\* The device is present as before.
LEMMA PresentSame ==
    ASSUME NEW r, NEW u, Present(r, u)
    PROVE  IsPresent(r, Disk) <=> IsPresent(u, Disk)
BY DiskSlot DEF Present, IsPresent

\* The queue moves on and keeps its commands.
LEMMA QueueStep ==
    ASSUME IInv, KeptAll(q, q'), UNCHANGED <<hw, pending>>
    PROVE  QueueInv(q)' /\ PendingInv' /\ HardwareInv' /\ (IsPresent(q, Disk) <=> IsPresent(q, Disk)')
<1>1. QueueInv(q') /\ Present(q, q') /\ \A i \in Slots : Kept(q.slots[i], q'.slots[i], {})
  BY Zenon DEF KeptAll
<1>2. \A i \in Slots : q'.slots[i].state \in Vacant <=> q.slots[i].state \in Vacant
  BY <1>1, Zenon DEF Kept
<1>3. pending # None => pending.id.slot \in Slots
  BY DEF IInv, PendingInv, Id
<1>4. PendingInv'
  BY <1>2, <1>3, Zenon DEF IInv, PendingInv
<1>5. HardwareInv'
  <2>1. ASSUME NEW c \in hw, ~c.token.final
        PROVE  /\ IsLive(q'.slots[pending.id.slot])
               /\ c.token.child \in InFlight(q'.slots[pending.id.slot])
    <3>1. /\ pending # None /\ IsLive(q.slots[pending.id.slot])
          /\ c.token.child \in InFlight(q.slots[pending.id.slot])
      BY <2>1, Zenon DEF IInv, HardwareInv
    <3>2. Kept(q.slots[pending.id.slot], q'.slots[pending.id.slot], {})
      BY <1>1, <1>3, <3>1, Zenon
    <3> QED
      BY <3>1, <3>2 DEF Kept
  <2> QED
    BY <2>1, Zenon DEF IInv, HardwareInv
<1> QED
  BY <1>1, <1>4, <1>5, PresentSame

\* The fiber goes on with a call: where it is in the worker changes.
LEMMA FiberStep ==
    ASSUME FiberInv, fiber.at \notin {"Idle", "Submit"}, DOMAIN fiber' = DOMAIN fiber,
           fiber'.at \in {"Complete", "Cancel", "Dispatch", "Check", "Reset"},
           fiber'.call = fiber.call, fiber'.request = fiber.request,
           fiber.call = "Reset" => fiber'.at = "Reset", UNCHANGED pending,
           IsPresent(q, Disk) => IsPresent(q, Disk)'
    PROVE  FiberInv' /\ (InTransfer' <=> InTransfer)
<1>1. fiber'.at # "Idle" /\ fiber'.at # "Submit"
  OBVIOUS
<1>2. Idle.at = "Idle"
  BY DEF Idle
<1>3. fiber # Idle /\ fiber' # Idle /\ fiber.call # "None"
  BY <1>1, <1>2 DEF FiberInv
<1>4. InTransfer' <=> InTransfer
  BY <1>1 DEF InTransfer
<1> QED
  BY <1>1, <1>3, <1>4 DEF FiberInv

\* The pages stay as they are.
LEMMA PagesStep ==
    ASSUME PagesInv, UNCHANGED <<pool, pending>>, pending = None \/ (InTransfer' <=> InTransfer)
    PROVE  PagesInv'
BY DEF PagesInv, Owns

\* No call is in progress.
LEMMA IdleFiber ==
    ASSUME fiber' = Idle
    PROVE  FiberInv' /\ ~InTransfer'
BY DEF FiberInv, InTransfer, Idle

-----------------------------------------------------------------------------
(* Every action preserves the invariant                                    *)

\* Steps of other parts.
LEMMA InvStutter ==
    ASSUME IInv, UNCHANGED <<q, hw, pool, pending, fiber>>
    PROVE  IInv'
<1>1. QueueInv(q)'
  BY DEF IInv
<1>2. InTransfer' <=> InTransfer
  BY DEF InTransfer
<1>3. PagesInv'
  BY <1>2, PagesStep DEF IInv
<1>4. FiberInv'
  BY <1>2 DEF IInv, FiberInv
<1>5. PendingInv' /\ HardwareInv'
  BY Zenon DEF IInv, PendingInv, HardwareInv
<1> QED
  BY <1>1, <1>3, <1>4, <1>5 DEF IInv

\* A step of the worker that only moves the queue and the fiber on.
LEMMA WorkerStep ==
    ASSUME IInv, KeptAll(q, q'), UNCHANGED <<hw, pool, pending>>,
           fiber.at \notin {"Idle", "Submit"}, DOMAIN fiber' = DOMAIN fiber,
           fiber'.at \in {"Complete", "Cancel", "Dispatch", "Check", "Reset"},
           fiber'.call = fiber.call, fiber'.request = fiber.request,
           fiber.call = "Reset" => fiber'.at = "Reset"
    PROVE  IInv'
<1>1. QueueInv(q)' /\ PendingInv' /\ HardwareInv' /\ (IsPresent(q, Disk) <=> IsPresent(q, Disk)')
  BY QueueStep
<1>2. FiberInv' /\ (InTransfer' <=> InTransfer)
  BY <1>1, FiberStep DEF IInv
<1>3. PagesInv'
  BY <1>2, PagesStep DEF IInv
<1> QED
  BY <1>1, <1>2, <1>3 DEF IInv

\* The fiber where the worker is, or where it goes when the worker fails.
LEMMA WorkerMoves ==
    ASSUME FiberInv, fiber.at \in {"Complete", "Cancel", "Dispatch", "Check"},
           \/ \E a \in {"Complete", "Cancel", "Dispatch", "Check"} : At(a)
           \/ WorkerFails
           \/ UNCHANGED fiber
           \/ BeginReset
           \/ Yield
    PROVE  /\ fiber.at \notin {"Idle", "Submit"} /\ DOMAIN fiber' = DOMAIN fiber
           /\ fiber'.at \in {"Complete", "Cancel", "Dispatch", "Check", "Reset"}
           /\ fiber'.call = fiber.call /\ fiber'.request = fiber.request
           /\ fiber.call = "Reset" => fiber'.at = "Reset"
<1>1. DOMAIN fiber = {"at", "call", "request", "chunks", "failed", "timer"} /\ fiber.call # "Reset"
  BY DEF FiberInv
<1>2. PICK a : /\ a \in {"Complete", "Cancel", "Dispatch", "Check", "Reset"}
               /\ \/ fiber' = [fiber EXCEPT !.at = a]
                  \/ fiber' = [fiber EXCEPT !.at = a, !.failed = TRUE]
                  \/ fiber' = [fiber EXCEPT !.at = a, !.timer = Timeout]
                  \/ fiber' = fiber
  BY Zenon DEF At, WorkerFails, BeginReset, Yield
<1>3. CASE fiber' = [fiber EXCEPT !.at = a]
  BY <1>1, <1>2, <1>3
<1>4. CASE fiber' = [fiber EXCEPT !.at = a, !.failed = TRUE]
  BY <1>1, <1>2, <1>4
<1>5. CASE fiber' = [fiber EXCEPT !.at = a, !.timer = Timeout]
  BY <1>1, <1>2, <1>5
<1>6. CASE fiber' = fiber
  BY <1>1, <1>6
<1> QED
  BY <1>2, <1>3, <1>4, <1>5, <1>6

\* runtime_read, runtime_write and runtime_flush begin.
LEMMA CallInv ==
    ASSUME IInv, NEW r \in Requests, Call(r)
    PROVE  IInv'
<1>1. /\ fiber = Idle /\ UNCHANGED <<q, hw, pool, pending>>
      /\ fiber' = [Idle EXCEPT !.at = "Submit", !.call = "Transfer", !.request = r, !.chunks = r.chunks]
  BY DEF Call
<1>2. /\ DOMAIN fiber' = {"at", "call", "request", "chunks", "failed", "timer"}
      /\ fiber'.at = "Submit" /\ fiber'.call = "Transfer" /\ fiber'.request = r /\ fiber' # Idle
  BY <1>1, Zenon DEF Idle
<1>3. ~InTransfer /\ ~InTransfer'
  BY <1>1, <1>2 DEF InTransfer, Idle
<1>4. FiberInv'
  BY <1>2, <1>3 DEF FiberInv
<1>5. PagesInv'
  BY <1>1, <1>3, PagesStep DEF IInv
<1>6. QueueInv(q)' /\ PendingInv' /\ HardwareInv'
  BY <1>1, Zenon DEF IInv, PendingInv, HardwareInv
<1> QED
  BY <1>4, <1>5, <1>6 DEF IInv

\* reset begins.
LEMMA ResetCallInv ==
    ASSUME IInv, ResetCall
    PROVE  IInv'
<1>1. /\ fiber = Idle /\ UNCHANGED <<q, hw, pool, pending>>
      /\ fiber' = [Idle EXCEPT !.at = "Reset", !.call = "Reset", !.timer = Timeout]
  BY DEF ResetCall
<1>2. /\ DOMAIN fiber' = {"at", "call", "request", "chunks", "failed", "timer"}
      /\ fiber'.at = "Reset" /\ fiber'.call = "Reset" /\ fiber' # Idle
  BY <1>1, Zenon DEF Idle
<1>3. ~InTransfer /\ ~InTransfer'
  BY <1>1, <1>2 DEF InTransfer, Idle
<1>4. FiberInv'
  BY <1>2, <1>3 DEF FiberInv
<1>5. PagesInv'
  BY <1>1, <1>3, PagesStep DEF IInv
<1>6. QueueInv(q)' /\ PendingInv' /\ HardwareInv'
  BY <1>1, Zenon DEF IInv, PendingInv, HardwareInv
<1> QED
  BY <1>4, <1>5, <1>6 DEF IInv

\* shutdown begins.
LEMMA ShutdownInv ==
    ASSUME IInv, Shutdown
    PROVE  IInv'
<1>1. /\ fiber = Idle /\ pending = None /\ UNCHANGED <<hw, pool, pending>>
      /\ q' = ShutdownBegun(q) \/ q' = q
      /\ fiber' = [Idle EXCEPT !.at = "Check", !.call = "Shutdown", !.timer = Timeout]
  BY DEF Shutdown
<1>2. /\ DOMAIN fiber' = {"at", "call", "request", "chunks", "failed", "timer"}
      /\ fiber'.at = "Check" /\ fiber'.call = "Shutdown" /\ fiber' # Idle
  BY <1>1, Zenon DEF Idle
<1>3. KeptAll(q, q')
  BY <1>1, ShutdownBegunIs, AllSame DEF IInv
<1>4. QueueInv(q)' /\ PendingInv' /\ HardwareInv'
  BY <1>1, <1>3, QueueStep
<1>5. ~InTransfer'
  BY <1>2 DEF InTransfer
<1>6. FiberInv'
  BY <1>1, <1>2, <1>5 DEF FiberInv
<1>7. PagesInv'
  BY <1>1, PagesStep DEF IInv
<1> QED
  BY <1>4, <1>6, <1>7 DEF IInv

\* Time passes.
LEMMA TickInv ==
    ASSUME IInv, Tick
    PROVE  IInv'
<1>1. /\ fiber.at \in {"Check", "Reset"} /\ UNCHANGED <<hw, pool, pending>>
      /\ q' = WithSlots(q, [i \in LiveSlots(q) |-> [q.slots[i] EXCEPT !.deadline = OneLess(@)]])
      /\ fiber' = [fiber EXCEPT !.timer = OneLess(@)]
  BY DEF Tick
<1>2. KeptAll(q, q')
  BY <1>1, TickIs DEF IInv
<1>3. /\ DOMAIN fiber' = DOMAIN fiber /\ fiber'.at = fiber.at /\ fiber'.call = fiber.call
      /\ fiber'.request = fiber.request
  BY <1>1 DEF IInv, FiberInv
<1>4. fiber.call = "Reset" => fiber'.at = "Reset"
  BY <1>3 DEF IInv, FiberInv
<1>5. fiber.at \notin {"Idle", "Submit"} /\ fiber'.at \in {"Complete", "Cancel", "Dispatch", "Check", "Reset"}
  BY <1>1, <1>3
<1>6. UNCHANGED <<hw, pool, pending>>
  BY <1>1
<1> QED
  BY <1>2, <1>3, <1>4, <1>5, <1>6, WorkerStep

\* expire_deadlines, or the driver fails.
LEMMA ExpireInv ==
    ASSUME IInv, ExpireDeadlines
    PROVE  IInv'
<1>1. fiber.at = "Complete" /\ UNCHANGED <<hw, pool, pending>> /\ (q' = Expired(q) \/ q' = q)
  BY DEF ExpireDeadlines
<1>2. At("Cancel") \/ WorkerFails
  BY DEF ExpireDeadlines
<1>3. KeptAll(q, q')
  BY <1>1, ExpiredIs, AllSame DEF IInv
<1>4. /\ fiber.at \notin {"Idle", "Submit"} /\ DOMAIN fiber' = DOMAIN fiber
      /\ fiber'.at \in {"Complete", "Cancel", "Dispatch", "Check", "Reset"}
      /\ fiber'.call = fiber.call /\ fiber'.request = fiber.request
      /\ fiber.call = "Reset" => fiber'.at = "Reset"
  BY <1>1, <1>2, WorkerMoves DEF IInv
<1> QED
  BY <1>1, <1>3, <1>4, WorkerStep

\* poll_cancel
LEMMA CancelInv ==
    ASSUME IInv, RequestCancel
    PROVE  IInv'
<1>1. /\ fiber.at = "Cancel" /\ UNCHANGED <<hw, pool, pending>>
      /\ (Untold(q, Disk) # {} /\ q' = CancelTold(q, Disk)) \/ q' = q
  BY DEF RequestCancel
<1>2. UNCHANGED fiber \/ WorkerFails \/ At("Dispatch")
  BY DEF RequestCancel
<1>3. KeptAll(q, q')
  BY <1>1, CancelToldIs, AllSame DEF IInv
<1>4. /\ fiber.at \notin {"Idle", "Submit"} /\ DOMAIN fiber' = DOMAIN fiber
      /\ fiber'.at \in {"Complete", "Cancel", "Dispatch", "Check", "Reset"}
      /\ fiber'.call = fiber.call /\ fiber'.request = fiber.request
      /\ fiber.call = "Reset" => fiber'.at = "Reset"
  BY <1>1, <1>2, WorkerMoves DEF IInv
<1> QED
  BY <1>1, <1>3, <1>4, WorkerStep

\* What poll_ready dispatches.
LEMMA ReadyDispatch ==
    ASSUME IInv, NEW r, r = IF IsPresent(q, Disk) THEN DispatchedOne(q, Disk.index) ELSE [q |-> q, token |-> None]
    PROVE  Dispatch(q, r)
<1>1. QueueInv(q)
  BY DEF IInv
<1>2. CASE IsPresent(q, Disk)
  <2>1. r = DispatchedOne(q, Disk.index)
    BY <1>2
  <2> QED
    BY <1>1, <2>1, DiskSlot, DispatchedOneIs
<1>3. CASE ~IsPresent(q, Disk)
  <2>1. r = [q |-> q, token |-> None] /\ KeptAll(q, q)
    BY <1>1, <1>3, AllSame
  <2> QED
    BY <2>1, NoDispatch
<1> QED
  BY <1>2, <1>3

\* A new command reaches the pages of the pending transfer, or none.
LEMMA NewCommand ==
    ASSUME IInv, NEW r, Dispatch(q, r), r.token # None, UNCHANGED <<pending, pool>>, q' = r.q, NEW c,
           c.token = r.token, c.pages = IF r.token.final THEN {} ELSE Indices(pending.pages),
           hw' = hw \union {c}
    PROVE  /\ QueueInv(q)' /\ PendingInv' /\ HardwareInv' /\ (IsPresent(q, Disk) <=> IsPresent(q, Disk)')
           /\ ~c.token.final => pending # None
<1>1. QueueInv(q') /\ Present(q, q') /\ \A i \in Slots : Kept(q.slots[i], q'.slots[i], {})
  BY Zenon DEF KeptAll, Dispatch
<1>2. \A i \in Slots : q'.slots[i].state \in Vacant <=> q.slots[i].state \in Vacant
  BY <1>1, Zenon DEF Kept
<1>3. pending # None => pending.id.slot \in Slots
  BY DEF IInv, PendingInv, Id
<1>4. PendingInv'
  BY <1>2, <1>3, Zenon DEF IInv, PendingInv
<1>5. ASSUME NEW e \in hw, ~e.token.final
      PROVE  /\ pending # None /\ e.token.id.slot = pending.id.slot /\ e.pages = Indices(pending.pages)
             /\ IsLive(q'.slots[pending.id.slot])
             /\ e.token.child \in InFlight(q.slots[pending.id.slot])
             /\ e.token.child \in InFlight(q'.slots[pending.id.slot])
  <2>1. /\ pending # None /\ e.token.id.slot = pending.id.slot /\ e.pages = Indices(pending.pages)
        /\ IsLive(q.slots[pending.id.slot])
        /\ e.token.child \in InFlight(q.slots[pending.id.slot])
    BY <1>5, Zenon DEF IInv, HardwareInv
  <2>2. Kept(q.slots[pending.id.slot], q'.slots[pending.id.slot], {})
    BY <1>1, <1>3, <2>1, Zenon
  <2> QED
    BY <2>1, <2>2 DEF Kept
<1>6. ASSUME ~c.token.final
      PROVE  /\ pending # None /\ c.token.id.slot = pending.id.slot /\ c.pages = Indices(pending.pages)
             /\ IsLive(q'.slots[pending.id.slot])
             /\ c.token.child \in InFlight(q'.slots[pending.id.slot])
             /\ c.token.child \notin InFlight(q.slots[pending.id.slot])
  <2> DEFINE i == c.token.id.slot
  <2>1. /\ i \in Slots /\ IsLive(q'.slots[i])
        /\ c.token.child \in InFlight(q'.slots[i]) \ InFlight(q.slots[i])
    BY <1>6 DEF Dispatch
  <2>2. q'.slots[i].state \notin Vacant
    BY <2>1 DEF IsLive, Vacant
  <2>3. pending # None /\ i = pending.id.slot
    BY <1>2, <2>1, <2>2, Zenon DEF IInv, PendingInv
  <2>4. c.pages = Indices(pending.pages)
    BY <1>6
  <2> QED
    BY <2>1, <2>3, <2>4
<1>7. HardwareInv'
  <2>1. \A e \in hw' : e.token.final => e.pages = {}
    BY Zenon DEF IInv, HardwareInv
  <2>2. \A e \in hw' : ~e.token.final =>
            /\ pending # None /\ e.token.id.slot = pending.id.slot /\ e.pages = Indices(pending.pages)
            /\ IsLive(q'.slots[pending.id.slot])
            /\ e.token.child \in InFlight(q'.slots[pending.id.slot])
    BY <1>5, <1>6, Zenon
  <2>3. ASSUME NEW e \in hw', NEW f \in hw', ~e.token.final, ~f.token.final, e.token.child = f.token.child
        PROVE  e = f
    <3>1. CASE e \in hw /\ f \in hw
      BY <2>3, <3>1, Zenon DEF IInv, HardwareInv
    <3>2. CASE e = c /\ f = c
      BY <3>2
    <3>3. CASE e = c /\ f \in hw
      <4>1. e.token.child \notin InFlight(q.slots[pending.id.slot])
        BY <1>6, <2>3, <3>3
      <4>2. f.token.child \in InFlight(q.slots[pending.id.slot])
        BY <1>5, <2>3, <3>3
      <4> QED
        BY <2>3, <4>1, <4>2
    <3>4. CASE e \in hw /\ f = c
      <4>1. f.token.child \notin InFlight(q.slots[pending.id.slot])
        BY <1>6, <2>3, <3>4
      <4>2. e.token.child \in InFlight(q.slots[pending.id.slot])
        BY <1>5, <2>3, <3>4
      <4> QED
        BY <2>3, <4>1, <4>2
    <3> QED
      BY <2>3, <3>1, <3>2, <3>3, <3>4
  <2> QED
    BY <2>1, <2>2, <2>3, Zenon DEF HardwareInv
<1> QED
  BY <1>1, <1>4, <1>6, <1>7, PresentSame

\* poll_ready and submit
LEMMA ReadyInv ==
    ASSUME IInv, PollReady
    PROVE  IInv'
<1> DEFINE r == IF IsPresent(q, Disk) THEN DispatchedOne(q, Disk.index) ELSE [q |-> q, token |-> None]
           c == [token |-> r.token, pages |-> IF r.token.final THEN {} ELSE Indices(pending.pages)]
<1>1. /\ fiber.at = "Dispatch" /\ UNCHANGED <<pool, pending>>
      /\ \/ At("Check") /\ UNCHANGED <<q, hw>>
         \/ WorkerFails /\ UNCHANGED <<q, hw>>
         \/ q' = r.q /\ At("Check") /\ UNCHANGED hw
         \/ r.token # None /\ q' = r.q /\ hw' = hw \union {c} /\ UNCHANGED fiber
         \/ r.token # None /\ q' = Completed(r.q, r.token, "IoError") /\ WorkerFails /\ UNCHANGED hw
  BY Zenon DEF PollReady
<1>2. Dispatch(q, r)
  <2> HIDE DEF r
  <2> QED
    BY ReadyDispatch DEF r
<1>3. c.token = r.token /\ c.pages = IF r.token.final THEN {} ELSE Indices(pending.pages)
  <2> HIDE DEF r
  <2> QED
    OBVIOUS
<1> HIDE DEF r, c
<1>4. At("Check") \/ WorkerFails \/ UNCHANGED fiber
  BY <1>1, Zenon
<1>5. /\ fiber.at \notin {"Idle", "Submit"} /\ DOMAIN fiber' = DOMAIN fiber
      /\ fiber'.at \in {"Complete", "Cancel", "Dispatch", "Check", "Reset"}
      /\ fiber'.call = fiber.call /\ fiber'.request = fiber.request
      /\ fiber.call = "Reset" => fiber'.at = "Reset"
  BY <1>1, <1>4, WorkerMoves DEF IInv
<1>6. CASE KeptAll(q, q') /\ UNCHANGED hw
  <2>1. UNCHANGED <<hw, pool, pending>>
    BY <1>1, <1>6
  <2> QED
    BY <1>5, <1>6, <2>1, WorkerStep
<1>7. CASE r.token # None /\ q' = r.q /\ hw' = hw \union {c}
  <2>1. QueueInv(q)' /\ PendingInv' /\ HardwareInv' /\ (IsPresent(q, Disk) <=> IsPresent(q, Disk)')
    BY <1>1, <1>2, <1>3, <1>7, NewCommand
  <2>2. FiberInv' /\ (InTransfer' <=> InTransfer)
    BY <1>1, <1>5, <2>1, FiberStep DEF IInv
  <2>3. PagesInv'
    BY <1>1, <2>2, PagesStep DEF IInv
  <2> QED
    BY <2>1, <2>2, <2>3 DEF IInv
<1>8. KeptAll(q, q) /\ KeptAll(q, r.q)
  BY <1>2, AllSame DEF Dispatch, IInv
<1>9. ASSUME r.token # None, q' = Completed(r.q, r.token, "IoError") PROVE KeptAll(q, q')
  BY <1>2, <1>9, RefusedIs
<1> QED
  BY <1>1, <1>6, <1>7, <1>8, <1>9, Zenon

\* poll_completion: a command leaves the hardware, and the queue marks it done.
LEMMA CompletionInv ==
    ASSUME IInv, NEW c \in hw, NEW status, PollCompletion(c, status)
    PROVE  IInv'
<1> DEFINE t == c.token
           j == pending.id.slot
<1>1. /\ fiber.at = "Complete" /\ q' = Completed(q, t, status) /\ hw' = hw \ {c}
      /\ UNCHANGED <<pool, pending, fiber>>
  BY DEF PollCompletion
<1>2. pending # None => j \in Slots
  BY DEF IInv, PendingInv, Id
<1>3. ~t.final => pending # None /\ t.id.slot = j
  BY Zenon DEF IInv, HardwareInv
<1>4. Completion(q, q', t)
  <2>1. ~t.final => t.id.slot \in Slots
    BY <1>2, <1>3
  <2> HIDE DEF t
  <2> QED
    BY <1>1, <2>1, CompletedIs DEF IInv
<1>5. KeptBut(q, q', j, IF t.final THEN {} ELSE {t.child})
  <2>1. CASE t.final
    BY <1>4, <2>1, AllBut DEF Completion
  <2>2. CASE ~t.final
    BY <1>3, <1>4, <2>2 DEF Completion
  <2> QED
    BY <2>1, <2>2
<1> DEFINE X == IF t.final THEN {} ELSE {t.child}
<1>6. ASSUME NEW e \in hw', ~e.token.final
      PROVE  e.token.child \notin X
  <2>1. CASE t.final
    BY <2>1
  <2>2. CASE ~t.final
    <3>1. e \in hw /\ e # c
      BY <1>1
    <3>2. e.token.child # c.token.child
      BY <1>6, <2>2, <3>1, Zenon DEF IInv, HardwareInv
    <3> QED
      BY <2>2, <3>2
  <2> QED
    BY <2>1, <2>2
<1> HIDE DEF X, t
<1>7. /\ QueueInv(q') /\ Present(q, q')
      /\ \A i \in Slots : Kept(q.slots[i], q'.slots[i], IF i = j THEN X ELSE {})
  BY <1>5, Zenon DEF KeptBut, X
<1>8. \A i \in Slots : q'.slots[i].state \in Vacant <=> q.slots[i].state \in Vacant
  BY <1>7, Zenon DEF Kept
<1>9. PendingInv'
  BY <1>1, <1>2, <1>8, Zenon DEF IInv, PendingInv
<1>10. ASSUME NEW e \in hw', ~e.token.final
       PROVE  /\ pending # None /\ e.token.id.slot = j /\ e.pages = Indices(pending.pages)
              /\ IsLive(q'.slots[j]) /\ e.token.child \in InFlight(q'.slots[j])
  <2>1. e \in hw
    BY <1>1
  <2>2. /\ pending # None /\ e.token.id.slot = j /\ e.pages = Indices(pending.pages)
        /\ IsLive(q.slots[j]) /\ e.token.child \in InFlight(q.slots[j])
    BY <1>10, <2>1, Zenon DEF IInv, HardwareInv
  <2>3. Kept(q.slots[j], q'.slots[j], X)
    BY <1>2, <1>7, <2>2
  <2>4. e.token.child \notin X
    BY <1>6, <1>10, Zenon
  <2> QED
    BY <2>2, <2>3, <2>4 DEF Kept
<1>11. HardwareInv'
  <2>1. \A e \in hw' : e \in hw
    BY <1>1
  <2>2. /\ \A e \in hw' : e.token.final => e.pages = {}
        /\ \A e, f \in hw' : ~e.token.final /\ ~f.token.final /\ e.token.child = f.token.child => e = f
    BY <2>1, Zenon DEF IInv, HardwareInv
  <2> QED
    BY <1>1, <1>10, <2>2, Zenon DEF HardwareInv
<1>12. IsPresent(q, Disk) => IsPresent(q, Disk)'
  BY <1>7, PresentSame
<1>13. FiberInv' /\ (InTransfer' <=> InTransfer)
  BY <1>1, <1>12 DEF IInv, FiberInv, InTransfer
<1>14. PagesInv'
  BY <1>1, <1>13, PagesStep DEF IInv
<1> QED
  BY <1>7, <1>9, <1>11, <1>13, <1>14 DEF IInv

\* MaxLease is a number of generations.
LEMMA Leases ==
    /\ MaxLease \in Nat /\ MaxLease >= 1
    /\ \A g \in 1..MaxLease : NextGeneration(g) \in 1..MaxLease
<1>1. MaxLease \in Nat \ {0}
  BY StorageAssumption
<1> QED
  BY <1>1 DEF NextGeneration

\* The pages of the transfer.
Lent == Indices(pending.pages)

\* They are pages of the pool, not available, and in its name.
LEMMA LentPages ==
    ASSUME IInv, pending # None
    PROVE  Lent \subseteq Pool /\ \A p \in Lent : pool[p].state # "Available"
<1>1. \A p \in pending.pages : p.index \in Pool /\ pool[p.index].state \in {"Submitted", "Quarantined"}
  BY Zenon DEF IInv, PagesInv, Owns
<1> QED
  BY <1>1 DEF Lent, Indices

\* At the end of a transfer all its pages are still submitted, and go back.
LEMMA AllReturned ==
    ASSUME IInv, InTransfer
    PROVE  /\ pending # None
           /\ \A p \in pending.pages : Owns(p, {"Submitted"})
           /\ ReleaseSubmitted = Returned(Lent)
<1>1. pending # None
  BY DEF IInv, FiberInv
<1>2. \A p \in pending.pages : Owns(p, {"Submitted"})
  BY <1>1, Zenon DEF IInv, PagesInv
<1>3. {p \in pending.pages : ~Owns(p, {"Submitted"})} = {}
  BY <1>2
<1>4. {x \in pending.pages : \A y \in {} : x.index < y.index} = pending.pages
  OBVIOUS
<1> QED
  BY <1>1, <1>2, <1>3, <1>4, Zenon DEF ReleaseSubmitted, Lent, Indices

\* Pages in quarantine do not go back when a reset succeeds later.
LEMMA NoneReturned ==
    ASSUME IInv, pending # None, ~InTransfer
    PROVE  ReleaseSubmitted = pool
<1>1. \A p \in pending.pages : p.index \in Pool /\ pool[p.index].state = "Quarantined"
  BY Zenon DEF IInv, PagesInv, Owns
<1>2. \A p \in pending.pages : ~Owns(p, {"Submitted"})
  BY <1>1 DEF Owns
<1>3. {p \in pending.pages : ~Owns(p, {"Submitted"})} = pending.pages
  BY <1>2
<1>4. \A x \in pending.pages : ~(x.index < x.index)
  BY <1>1 DEF Pool
<1>5. {p.index : p \in {x \in pending.pages : \A y \in pending.pages : x.index < y.index}} = {}
  BY <1>4
<1>6. ReleaseSubmitted = Returned({})
  BY <1>3, <1>5 DEF ReleaseSubmitted
<1>7. pool = [p \in Pool |-> pool[p]]
  BY DEF IInv, PagesInv
<1> QED
  BY <1>6, <1>7 DEF Returned

\* The transfer is over and its pages are returned.
LEMMA PagesBack ==
    ASSUME IInv, pending # None, pool' = Returned(Lent), pending' = None
    PROVE  PagesInv'
<1>1. pool \in [Pool -> Page] /\ EmptyPage.state = "Available"
  BY DEF IInv, PagesInv, EmptyPage
<1>2. DOMAIN pool' = Pool /\ pool' = [p \in Pool |-> pool'[p]]
  BY DEF Returned
<1>3. \A p \in Pool : pool'[p] = IF p \in Lent THEN [EmptyPage EXCEPT !.next = pool[p].next] ELSE pool[p]
  BY DEF Returned
<1>4. ASSUME NEW p \in Pool PROVE pool'[p] \in Page /\ pool'[p].state # "Submitted"
  <2>1. CASE p \in Lent
    <3>1. pool[p] \in Page
      BY <1>1
    <3>2. pool[p].next \in 1..MaxLease /\ 0 \in 0..MaxLease
      BY <3>1, Leases DEF Page
    <3>3. pool'[p] = [EmptyPage EXCEPT !.next = pool[p].next]
      BY <1>3, <2>1
    <3> QED
      BY <3>2, <3>3 DEF Page, EmptyPage
  <2>2. CASE p \notin Lent
    <3>1. pool'[p] = pool[p]
      BY <1>3, <2>2, Zenon
    <3>2. pool[p].state # "Submitted"
      <4>1. pool[p].state = "Submitted" => [index |-> p, gen |-> pool[p].gen] \in pending.pages
        BY Zenon DEF IInv, PagesInv
      <4>2. [index |-> p, gen |-> pool[p].gen].index = p
        OBVIOUS
      <4> QED
        BY <2>2, <4>1, <4>2, Zenon DEF Lent, Indices
    <3> QED
      BY <1>1, <3>1, <3>2
  <2> QED
    BY <2>1, <2>2
<1>5. pool' \in [Pool -> Page]
  BY <1>2, <1>4, Zenon
<1> QED
  BY <1>4, <1>5, Zenon DEF PagesInv

\* The queue gives the request of the transfer back.
LEMMA RequestOver ==
    ASSUME IInv, pending # None, NEW r, SameRequests(q, r), q' = Released(r, pending.id.slot),
           pending' = None, \A c \in hw' : c \in hw /\ c.token.final
    PROVE  QueueInv(q)' /\ PendingInv' /\ HardwareInv'
<1> DEFINE j == pending.id.slot
<1>1. j \in Slots
  BY DEF IInv, PendingInv, Id
<1>2. /\ QueueInv(r)
      /\ \A i \in Slots : r.slots[i].state \in Vacant <=> q.slots[i].state \in Vacant
  BY Zenon DEF SameRequests
<1>3. Vacated(r, q', j)
  BY <1>1, <1>2, ReleasedIs
<1>4. ASSUME NEW i \in Slots PROVE q'.slots[i].state \in Vacant
  <2>1. CASE i = j
    BY <1>3, <2>1 DEF Vacated
  <2>2. CASE i # j
    <3>1. q'.slots[i] = r.slots[i]
      BY <1>3, <2>2, Zenon DEF Vacated
    <3>2. q.slots[i].state \in Vacant
      BY <2>2, Zenon DEF IInv, PendingInv
    <3> QED
      BY <1>2, <3>1, <3>2
  <2> QED
    BY <2>1, <2>2
<1>5. PendingInv'
  BY <1>4, Zenon DEF PendingInv
<1>6. HardwareInv'
  BY Zenon DEF IInv, HardwareInv
<1> QED
  BY <1>3, <1>5, <1>6 DEF Vacated

\* finish_completion, for a queue in which no command of a request is left.
LEMMA FinishInv ==
    ASSUME IInv, InTransfer, NEW r, SameRequests(q, r), NEW ok, FinishCompletion(r, ok),
           \A c \in hw' : c \in hw /\ c.token.final
    PROVE  IInv' /\ pool' = Returned(Lent)
<1>1. /\ pending # None /\ \A p \in pending.pages : Owns(p, {"Submitted"})
      /\ ReleaseSubmitted = Returned(Lent)
  BY AllReturned
<1>2. q' = Released(r, pending.id.slot) /\ pool' = Returned(Lent) /\ pending' = None
  BY <1>1 DEF FinishCompletion
<1>3. QueueInv(q)' /\ PendingInv' /\ HardwareInv'
  BY <1>1, <1>2, RequestOver
<1>4. PagesInv'
  BY <1>1, <1>2, PagesBack
<1>5. FiberInv'
  <2>1. CASE fiber' = Idle
    BY <2>1, IdleFiber
  <2>2. CASE fiber' = [fiber EXCEPT !.at = "Submit", !.failed = FALSE]
    <3>1. /\ DOMAIN fiber = {"at", "call", "request", "chunks", "failed", "timer"}
          /\ fiber.call = "Transfer" /\ fiber.request \in Requests
      BY DEF IInv, FiberInv, InTransfer
    <3>2. /\ DOMAIN fiber' = {"at", "call", "request", "chunks", "failed", "timer"}
          /\ fiber'.at = "Submit" /\ fiber'.call = "Transfer" /\ fiber'.request \in Requests
      BY <2>2, <3>1
    <3>3. fiber' # Idle
      BY <3>2 DEF Idle
    <3>4. ~InTransfer'
      BY <3>2 DEF InTransfer
    <3> QED
      BY <3>2, <3>3, <3>4 DEF FiberInv
  <2> QED
    BY <2>1, <2>2 DEF FinishCompletion
<1> QED
  BY <1>2, <1>3, <1>4, <1>5 DEF IInv

\* When the request of the transfer has ended, only a final flush can be left in
\* the hardware.
LEMMA EndedQuiet ==
    ASSUME IInv, pending # None, ~IsLive(q.slots[pending.id.slot])
    PROVE  \A c \in hw : c.token.final
BY Zenon DEF IInv, HardwareInv

\* A queue has its own requests.
LEMMA SameSelf ==
    ASSUME NEW r, QueueInv(r)
    PROVE  SameRequests(r, r)
BY Zenon DEF SameRequests

\* The loop of submit_runtime_request after the worker.
LEMMA CheckTransferInv ==
    ASSUME IInv, CheckTransfer
    PROVE  IInv' /\ (pool' = pool \/ (InTransfer /\ pool' = Returned(Lent) /\ \A c \in hw : c.token.final))
<1>1. fiber.at = "Check" /\ fiber.call = "Transfer" /\ UNCHANGED hw
  BY DEF CheckTransfer
<1>2. InTransfer /\ pending # None
  BY <1>1 DEF InTransfer, IInv, FiberInv
<1>3. CASE State = "Terminal" /\ FinishCompletion(q, q.slots[pending.id.slot].outcome = "Success")
  <2>1. ~IsLive(q.slots[pending.id.slot])
    BY <1>3 DEF State, IsLive
  <2>2. \A c \in hw : c.token.final
    BY <1>2, <2>1, EndedQuiet
  <2>3. SameRequests(q, q)
    BY SameSelf DEF IInv
  <2>4. \A c \in hw' : c \in hw /\ c.token.final
    BY <1>1, <2>2
  <2>5. FinishCompletion(q, q.slots[pending.id.slot].outcome = "Success")
    BY <1>3
  <2> DEFINE ok == q.slots[pending.id.slot].outcome = "Success"
  <2>6. FinishCompletion(q, ok)
    BY <2>5
  <2> HIDE DEF ok
  <2>7. IInv' /\ pool' = Returned(Lent)
    BY <1>2, <2>3, <2>4, <2>6, FinishInv
  <2> QED
    BY <1>2, <2>2, <2>7
<1>4. CASE BeginReset \/ Yield
  <2>1. UNCHANGED <<hw, pool, pending>> /\ q' = q
    BY <1>1, <1>4 DEF BeginReset, Yield
  <2>2. /\ fiber.at \notin {"Idle", "Submit"} /\ DOMAIN fiber' = DOMAIN fiber
        /\ fiber'.at \in {"Complete", "Cancel", "Dispatch", "Check", "Reset"}
        /\ fiber'.call = fiber.call /\ fiber'.request = fiber.request
        /\ fiber.call = "Reset" => fiber'.at = "Reset"
    BY <1>1, <1>4, WorkerMoves DEF IInv
  <2>3. KeptAll(q, q')
    BY <2>1, AllSame DEF IInv
  <2>4. IInv'
    BY <2>1, <2>2, <2>3, WorkerStep
  <2> QED
    BY <2>1, <2>4
<1> QED
  BY <1>3, <1>4, Zenon DEF CheckTransfer

\* A call that is no transfer ends.
LEMMA CallEnds ==
    ASSUME IInv, ~InTransfer, fiber' = Idle, UNCHANGED <<q, pool, pending>>, hw' \subseteq hw
    PROVE  IInv'
<1>1. FiberInv' /\ ~InTransfer'
  BY IdleFiber
<1>2. PagesInv'
  BY <1>1, PagesStep DEF IInv
<1>3. QueueInv(q)' /\ PendingInv'
  BY Zenon DEF IInv, PendingInv
<1>4. HardwareInv'
  <2>1. \A c \in hw' : c \in hw
    OBVIOUS
  <2> QED
    BY <2>1, Zenon DEF IInv, HardwareInv
<1> QED
  BY <1>1, <1>2, <1>3, <1>4 DEF IInv

\* The loop of shutdown after the worker.
LEMMA CheckShutdownInv ==
    ASSUME IInv, CheckShutdown
    PROVE  IInv' /\ UNCHANGED pool
<1>1. fiber.at = "Check" /\ fiber.call = "Shutdown" /\ UNCHANGED hw
  BY DEF CheckShutdown
<1>2. CASE fiber' = Idle /\ UNCHANGED <<q, pool, pending>>
  <2>1. ~InTransfer /\ hw' \subseteq hw
    BY <1>1 DEF InTransfer
  <2> QED
    BY <1>2, <2>1, CallEnds
<1>3. CASE BeginReset \/ Yield
  <2>1. UNCHANGED <<hw, pool, pending>> /\ q' = q
    BY <1>1, <1>3 DEF BeginReset, Yield
  <2>2. /\ fiber.at \notin {"Idle", "Submit"} /\ DOMAIN fiber' = DOMAIN fiber
        /\ fiber'.at \in {"Complete", "Cancel", "Dispatch", "Check", "Reset"}
        /\ fiber'.call = fiber.call /\ fiber'.request = fiber.request
        /\ fiber.call = "Reset" => fiber'.at = "Reset"
    BY <1>1, <1>3, WorkerMoves DEF IInv
  <2>3. KeptAll(q, q')
    BY <2>1, AllSame DEF IInv
  <2>4. IInv'
    BY <2>1, <2>2, <2>3, WorkerStep
  <2> QED
    BY <2>1, <2>4
<1> QED
  BY <1>2, <1>3, Zenon DEF CheckShutdown

\* With no transfer pending, the requests of the queue end and the hardware stops.
LEMMA NothingPending ==
    ASSUME IInv, pending = None, SameRequests(q, q'), hw' = {}, fiber' = Idle, UNCHANGED <<pool, pending>>
    PROVE  IInv'
<1>1. /\ QueueInv(q)'
      /\ \A i \in Slots : q'.slots[i].state \in Vacant <=> q.slots[i].state \in Vacant
  BY Zenon DEF SameRequests
<1>2. PendingInv'
  BY <1>1, Zenon DEF IInv, PendingInv
<1>3. HardwareInv'
  BY Zenon DEF HardwareInv
<1>4. FiberInv'
  BY IdleFiber
<1>5. PagesInv'
  BY PagesStep DEF IInv
<1> QED
  BY <1>1, <1>2, <1>3, <1>4, <1>5 DEF IInv

\* A transfer in quarantine is given up: its pages stay where they are.
LEMMA QuarantineLeft ==
    ASSUME IInv, ~InTransfer, UNCHANGED pool, pending' = None
    PROVE  PagesInv'
<1>1. \A p \in Pool : pool[p].state # "Submitted"
  BY Zenon DEF IInv, PagesInv
<1> QED
  BY <1>1, Zenon DEF IInv, PagesInv

\* poll_reset reports that DMA has stopped.
LEMMA ResetDoneInv ==
    ASSUME IInv, ResetDone
    PROVE  IInv' /\ (pool' = pool \/ (pending # None /\ pool' = Returned(Lent)))
<1> DEFINE r == Removed(q, Disk)
<1>1. fiber.at = "Reset" /\ hw' = {}
  BY DEF ResetDone
<1>2. SameRequests(q, r)
  BY DeviceRemoved DEF IInv
<1> HIDE DEF r
<1>3. CASE ~IsPresent(q, Disk) /\ fiber' = Idle /\ UNCHANGED <<q, pool, pending>>
  <2>1. ~InTransfer
    BY <1>3 DEF IInv, FiberInv
  <2> QED
    BY <1>1, <1>3, <2>1, CallEnds
<1>4. CASE fiber.call = "Reset" /\ ReapAfterReset(r)
  <2>1. ~InTransfer /\ fiber' = Idle
    BY <1>4 DEF InTransfer, ReapAfterReset
  <2>2. CASE pending = None
    <3>1. q' = r /\ UNCHANGED <<pool, pending>>
      BY <1>4, <2>2 DEF ReapAfterReset
    <3> QED
      BY <1>1, <1>2, <2>1, <2>2, <3>1, NothingPending
  <2>3. CASE pending # None
    <3>1. q' = Released(r, pending.id.slot) /\ pool' = pool /\ pending' = None
      BY <1>4, <2>1, <2>3, NoneReturned DEF ReapAfterReset
    <3>2. QueueInv(q)' /\ PendingInv' /\ HardwareInv'
      BY <1>1, <1>2, <2>3, <3>1, RequestOver
    <3>3. PagesInv'
      BY <2>1, <3>1, QuarantineLeft
    <3>4. FiberInv'
      BY <2>1, IdleFiber
    <3> QED
      BY <3>1, <3>2, <3>3, <3>4 DEF IInv
  <2> QED
    BY <2>2, <2>3
<1>5. CASE fiber.call = "Shutdown" /\ fiber' = Idle /\ q' = r /\ UNCHANGED <<pool, pending>>
  <2>1. pending = None
    BY <1>5 DEF IInv, FiberInv
  <2> QED
    BY <1>1, <1>2, <1>5, <2>1, NothingPending
<1>6. CASE fiber.call # "Reset" /\ fiber.call # "Shutdown" /\ FinishCompletion(r, FALSE)
  <2>1. fiber.call \in {"None", "Transfer", "Shutdown", "Reset"} /\ fiber.call # "None"
    BY <1>1 DEF IInv, FiberInv, Idle
  <2>2. InTransfer
    BY <1>1, <1>6, <2>1 DEF InTransfer
  <2>3. \A c \in hw' : c \in hw /\ c.token.final
    BY <1>1
  <2>4. IInv' /\ pool' = Returned(Lent)
    BY <1>2, <1>6, <2>2, <2>3, FinishInv, Zenon
  <2>5. pending # None
    BY <2>2, AllReturned
  <2> QED
    BY <2>4, <2>5
<1> QED
  BY <1>3, <1>4, <1>5, <1>6, Zenon DEF ResetDone, r

\* The driver does not stop: the pages go into quarantine.
LEMMA ResetFailedInv ==
    ASSUME IInv, ResetFailed
    PROVE  IInv' /\ \A p \in Pool : pool'[p].state = "Available" <=> pool[p].state = "Available"
<1>1. /\ fiber.at = "Reset" /\ pool' = Quarantined /\ fiber' = Idle /\ UNCHANGED <<q, hw, pending>>
  BY DEF ResetFailed
<1>2. FiberInv' /\ ~InTransfer'
  BY <1>1, IdleFiber
<1>3. QueueInv(q)' /\ PendingInv' /\ HardwareInv'
  BY <1>1, Zenon DEF IInv, PendingInv, HardwareInv
<1>4. pool \in [Pool -> Page]
  BY DEF IInv, PagesInv
<1>5. /\ pool' = [p \in Pool |-> pool'[p]]
      /\ \A p \in Pool : pool'[p] = IF pending # None /\ pool[p].state = "Submitted" /\ pool[p].id = pending.id
                                    THEN [pool[p] EXCEPT !.state = "Quarantined"] ELSE pool[p]
  BY <1>1 DEF Quarantined
<1>6. ASSUME NEW p \in Pool
      PROVE  /\ pool'[p] \in Page /\ pool'[p].state # "Submitted"
             /\ pool'[p].state = "Available" <=> pool[p].state = "Available"
             /\ pool'[p].gen = pool[p].gen /\ pool'[p].id = pool[p].id
             /\ pool[p].state \in {"Submitted", "Quarantined"} => pool'[p].state = "Quarantined"
  <2>1. pool[p] \in Page
    BY <1>4
  <2>2. pool[p].state = "Submitted" => pending # None /\ pool[p].id = pending.id
    BY Zenon DEF IInv, PagesInv
  <2>3. CASE pool[p].state = "Submitted"
    <3>1. pool'[p] = [pool[p] EXCEPT !.state = "Quarantined"]
      BY <1>5, <2>2, <2>3
    <3> QED
      BY <2>1, <2>3, <3>1 DEF Page
  <2>4. CASE pool[p].state # "Submitted"
    <3>1. pool'[p] = pool[p]
      BY <1>5, <2>4
    <3> QED
      BY <2>1, <2>4, <3>1
  <2> QED
    BY <2>3, <2>4
<1>7. pool' \in [Pool -> Page]
  BY <1>5, <1>6, Zenon
<1>8. ASSUME NEW p \in pending.pages, pending # None
      PROVE  /\ p.index \in Pool /\ pool'[p.index].state = "Quarantined"
             /\ pool'[p.index].gen = p.gen /\ pool'[p.index].id = pending.id
  <2>1. /\ p.index \in Pool /\ pool[p.index].state \in {"Submitted", "Quarantined"}
        /\ pool[p.index].gen = p.gen /\ pool[p.index].id = pending.id
    BY <1>8, Zenon DEF IInv, PagesInv, Owns
  <2> QED
    BY <1>6, <2>1, Zenon
<1>9. PagesInv'
  BY <1>1, <1>2, <1>6, <1>7, <1>8 DEF PagesInv, Owns
<1> QED
  BY <1>2, <1>3, <1>6, <1>9 DEF IInv

\* force_shutdown_after_dma_stopped: the pages of the transfer, which are in
\* quarantine, all go back.
LEMMA ForceInv ==
    ASSUME IInv, ForceShutdown
    PROVE  IInv' /\ (pool' = pool \/ (pending # None /\ pool' = Returned(Lent)))
<1> DEFINE r == Forced(q)
<1>1. fiber = Idle /\ fiber' = Idle /\ hw' = {}
  BY DEF ForceShutdown
<1>2. SameRequests(q, r)
  BY ForcedIs DEF IInv
<1> HIDE DEF r
<1>3. CASE pending = None
  <2>1. q' = r /\ UNCHANGED <<pool, pending>>
    BY <1>3 DEF ForceShutdown, r
  <2> QED
    BY <1>1, <1>2, <1>3, <2>1, NothingPending
<1>4. CASE pending # None
  <2>1. ~InTransfer
    BY <1>1 DEF InTransfer, Idle
  <2>2. \A p \in pending.pages : Owns(p, {"Quarantined"})
    BY <1>4, <2>1, Zenon DEF IInv, PagesInv
  <2>3. \A p \in pending.pages : Owns(p, {"Submitted", "Quarantined"})
    BY <2>2 DEF Owns
  <2>4. q' = Released(r, pending.id.slot) /\ pool' = Returned(Lent) /\ pending' = None
    BY <1>4, <2>3 DEF ForceShutdown, Lent, r
  <2>5. QueueInv(q)' /\ PendingInv' /\ HardwareInv'
    BY <1>1, <1>2, <1>4, <2>4, RequestOver
  <2>6. PagesInv'
    BY <1>4, <2>4, PagesBack
  <2>7. FiberInv'
    BY <1>1, IdleFiber
  <2> QED
    BY <1>4, <2>4, <2>5, <2>6, <2>7 DEF IInv
<1> QED
  BY <1>3, <1>4

\* The pages that are taken for a request are available ones, and no others change.
Takes(S) ==
    /\ S \subseteq Available
    /\ pool' \in [Pool -> Page]
    /\ \A p \in Pool : p \notin S => pool'[p] = pool[p]

\* release_unsubmitted: the pages are as available as before.
LEMMA Unsubmitted ==
    ASSUME pool \in [Pool -> Page], NEW S \in SUBSET Available, pool' = ReleaseUnsubmitted(S)
    PROVE  Takes(S) /\ \A p \in S : pool'[p].state = "Available"
<1>1. /\ pool' = [p \in Pool |-> pool'[p]]
      /\ \A p \in Pool : p \notin S => pool'[p] = pool[p]
  BY DEF ReleaseUnsubmitted
<1>2. ASSUME NEW p \in S PROVE pool'[p] \in Page /\ pool'[p].state = "Available"
  <2>1. p \in Pool /\ pool[p] \in Page /\ pool[p].state = "Available"
    BY DEF Available
  <2>2. pool[p].next \in 1..MaxLease
    BY <2>1 DEF Page
  <2>3. NextGeneration(pool[p].next) \in 1..MaxLease /\ 0 \in 0..MaxLease
    BY <2>2, Leases
  <2> DEFINE x == [pool[p] EXCEPT !.gen = pool[p].next, !.next = NextGeneration(@)]
  <2>4. Leased(S)[p] = x
    BY <2>1 DEF Leased
  <2>5. pool'[p] = [x EXCEPT !.gen = 0]
    <3> HIDE DEF x
    <3> QED
      BY <2>1, <2>4 DEF ReleaseUnsubmitted
  <2> DEFINE n == NextGeneration(pool[p].next)
  <2>6. pool'[p] = [[pool[p] EXCEPT !.gen = pool[p].next, !.next = n] EXCEPT !.gen = 0]
    BY <2>5
  <2> HIDE DEF x, n
  <2> QED
    BY <2>1, <2>3, <2>6, Zenon DEF Page, n
<1>3. \A p \in Pool : pool'[p] \in Page
  BY <1>1, <1>2
<1>4. pool' \in [Pool -> Page]
  BY <1>1, <1>3, Zenon
<1> QED
  BY <1>1, <1>2, <1>4 DEF Takes

\* mark_submitted: the pages carry their new generation and the request.
LEMMA Submission ==
    ASSUME pool \in [Pool -> Page], NEW S \in SUBSET Available, NEW id \in Id, pool' = MarkSubmitted(S, id)
    PROVE  /\ Takes(S)
           /\ \A p \in S : /\ pool'[p].state = "Submitted" /\ pool'[p].id = id
                           /\ pool'[p].gen = pool[p].next /\ pool[p].next \in 1..MaxLease
<1>1. /\ pool' = [p \in Pool |-> pool'[p]]
      /\ \A p \in Pool : p \notin S => pool'[p] = pool[p]
  BY Zenon DEF MarkSubmitted
<1>2. ASSUME NEW p \in S
      PROVE  /\ pool'[p] \in Page /\ pool'[p].state = "Submitted" /\ pool'[p].id = id
             /\ pool'[p].gen = pool[p].next /\ pool[p].next \in 1..MaxLease
  <2>1. p \in Pool /\ pool[p] \in Page
    BY DEF Available
  <2>2. pool[p].next \in 1..MaxLease
    BY <2>1 DEF Page
  <2>3. NextGeneration(pool[p].next) \in 1..MaxLease /\ pool[p].next \in 0..MaxLease
    BY <2>2, Leases
  <2> DEFINE x == [pool[p] EXCEPT !.gen = pool[p].next, !.next = NextGeneration(@)]
  <2>4. Leased(S)[p] = x
    BY <2>1 DEF Leased
  <2>5. pool'[p] = [x EXCEPT !.state = "Submitted", !.id = id]
    <3> HIDE DEF x
    <3> QED
      BY <2>1, <2>4, Zenon DEF MarkSubmitted
  <2> DEFINE n == NextGeneration(pool[p].next)
  <2>6. pool'[p] = [[pool[p] EXCEPT !.gen = pool[p].next, !.next = n] EXCEPT !.state = "Submitted", !.id = id]
    BY <2>5
  <2> HIDE DEF x, n
  <2> QED
    BY <2>1, <2>2, <2>3, <2>6, Zenon DEF Page, n
<1>3. \A p \in Pool : pool'[p] \in Page
  BY <1>1, <1>2
<1>4. pool' \in [Pool -> Page]
  BY <1>1, <1>3, Zenon
<1> QED
  BY <1>1, <1>2, <1>4 DEF Takes

\* acquire takes pages that are available.
LEMMA FirstAvailable ==
    ASSUME NEW n
    PROVE  First(Available, n) \in SUBSET Available
BY DEF First

\* submit_runtime_request up to its loop.
LEMMA SubmitInv ==
    ASSUME IInv, SubmitRequest
    PROVE  IInv' /\ \E S \in SUBSET Available :
              /\ \A p \in Pool : p \notin S => pool'[p] = pool[p]
              /\ \/ \A p \in S : pool'[p].state = "Available"
                 \/ \A p \in S : pool'[p].state # "Available"
<1> DEFINE r == fiber.request
           S == First(Available, r.pages)
           i == Min(Free(q))
           id == IdOf(q, i)
<1>1. fiber.at = "Submit" /\ UNCHANGED hw /\ S \in SUBSET Available
  BY FirstAvailable DEF SubmitRequest
<1>2. /\ fiber.call = "Transfer" /\ r \in Requests /\ ~InTransfer
      /\ DOMAIN fiber = {"at", "call", "request", "chunks", "failed", "timer"}
  BY <1>1 DEF IInv, FiberInv, InTransfer
<1>3. pool \in [Pool -> Page]
  BY DEF IInv, PagesInv
<1>4. CASE pending # None /\ fiber' = Idle /\ UNCHANGED <<q, pool, pending>>
  <2>1. IInv'
    BY <1>1, <1>2, <1>4, CallEnds
  <2>2. {} \in SUBSET Available
    OBVIOUS
  <2>3. /\ \A p \in Pool : p \notin {} => pool'[p] = pool[p]
        /\ \A p \in {} : pool'[p].state = "Available"
    BY <1>4
  <2> QED
    BY <2>1, <2>2, <2>3, Zenon
<1>5. CASE pending = None /\ pool' = ReleaseUnsubmitted(S) /\ fiber' = Idle /\ UNCHANGED <<q, pending>>
  <2> HIDE DEF S
  <2>1. Takes(S) /\ \A p \in S : pool'[p].state = "Available"
    BY <1>1, <1>3, <1>5, Unsubmitted
  <2>2. \A p \in Pool : pool'[p].state # "Submitted"
    <3>1. \A p \in Pool : pool[p].state # "Submitted"
      BY <1>5, Zenon DEF IInv, PagesInv
    <3> QED
      BY <2>1, <3>1 DEF Takes
  <2>3. PagesInv'
    BY <1>5, <2>1, <2>2, Zenon DEF PagesInv, Takes
  <2>4. FiberInv'
    BY <1>5, IdleFiber
  <2>5. QueueInv(q)' /\ PendingInv' /\ HardwareInv'
    BY <1>1, <1>5, Zenon DEF IInv, PendingInv, HardwareInv
  <2>6. IInv'
    BY <2>3, <2>4, <2>5 DEF IInv
  <2> QED
    BY <1>1, <2>1, <2>6 DEF Takes
<1>6. CASE /\ pending = None /\ CanSubmit
           /\ q' = Submitted(q, Disk, r)
           /\ pool' = MarkSubmitted(S, id)
           /\ pending' = [id |-> id, pages |-> {[index |-> p, gen |-> pool[p].next] : p \in S}]
           /\ fiber' = [fiber EXCEPT !.at = "Complete", !.chunks = @ - 1]
  <2>1. IsPresent(q, Disk) /\ Free(q) # {}
    BY <1>6 DEF CanSubmit
  <2>2. NewRequest(q, q', i)
    BY <1>2, <1>6, <2>1, SubmittedIs DEF IInv
  <2>3. i \in Slots /\ id.slot = i /\ id \in Id
    <3>1. i \in Slots
      BY <2>2 DEF NewRequest
    <3>2. SlotInv(q.slots[i])
      BY <3>1, Zenon DEF IInv, QueueInv
    <3> QED
      BY <3>1, <3>2 DEF IdOf, Id, SlotInv, SlotShape
  <2> HIDE DEF i, id, S, r
  <2>4. /\ Takes(S)
        /\ \A p \in S : /\ pool'[p].state = "Submitted" /\ pool'[p].id = id
                        /\ pool'[p].gen = pool[p].next /\ pool[p].next \in 1..MaxLease
    BY <1>1, <1>3, <1>6, <2>3, Submission, Zenon
  <2>5. S \subseteq Pool
    BY <1>1 DEF Available
  <2> DEFINE P == {[index |-> p, gen |-> pool[p].next] : p \in S}
  <2>6. P \in SUBSET [index : Pool, gen : 1..MaxLease]
    BY <2>4, <2>5
  <2>7. pending' # None /\ pending'.id = id /\ pending'.pages = P
    <3>1. pending' = [id |-> id, pages |-> P]
      BY <1>6
    <3> HIDE DEF P
    <3>2. pending' \in Transfer
      BY <2>3, <2>6, <3>1 DEF Transfer
    <3> QED
      BY <3>1, <3>2, StorageAssumption
  <2>8. /\ DOMAIN fiber' = {"at", "call", "request", "chunks", "failed", "timer"}
        /\ fiber'.at = "Complete" /\ fiber'.call = "Transfer" /\ fiber'.request = r
    BY <1>2, <1>6 DEF r
  <2>9. InTransfer'
    BY <2>8 DEF InTransfer
  <2>10. FiberInv'
    <3>1. IsPresent(q, Disk)'
      BY <2>1, <2>2, PresentSame DEF NewRequest
    <3>2. fiber' # Idle
      BY <2>8 DEF Idle
    <3>3. r \in Requests
      BY <1>2
    <3> QED
      BY <2>7, <2>8, <2>9, <3>1, <3>2, <3>3 DEF FiberInv
  <2>11. PendingInv'
    <3>1. \A j \in Slots : q.slots[j].state \in Vacant
      BY <1>6, Zenon DEF IInv, PendingInv
    <3>2. \A j \in Slots : j # i => q'.slots[j].state \in Vacant
      BY <2>2, <3>1, Zenon DEF NewRequest, Alike
    <3>3. q'.slots[i].state \notin Vacant
      BY <2>2 DEF NewRequest, Vacant
    <3> QED
      BY <2>3, <2>7, <3>2, <3>3 DEF PendingInv
  <2>12. HardwareInv'
    <3>1. \A c \in hw : c.token.final /\ c.pages = {}
      BY <1>6, Zenon DEF IInv, HardwareInv
    <3> QED
      BY <1>1, <3>1, Zenon DEF HardwareInv
  <2>13. PagesInv'
    <3>1. \A p \in Pool : pool[p].state # "Submitted"
      BY <1>6, Zenon DEF IInv, PagesInv
    <3>2. ASSUME NEW p \in Pool, pool'[p].state = "Submitted"
          PROVE  pool'[p].id = id /\ [index |-> p, gen |-> pool'[p].gen] \in P
      <4>1. p \in S
        BY <2>4, <3>1, <3>2 DEF Takes
      <4> QED
        BY <2>4, <4>1
    <3>3. ASSUME NEW x \in P
          PROVE  /\ x.index \in Pool /\ pool'[x.index].state = "Submitted"
                 /\ pool'[x.index].gen = x.gen /\ pool'[x.index].id = id
      <4>1. PICK p \in S : x = [index |-> p, gen |-> pool[p].next]
        OBVIOUS
      <4>2. x.index = p /\ x.gen = pool[p].next
        BY <4>1
      <4> QED
        BY <2>4, <2>5, <4>2
    <3>4. pool' \in [Pool -> Page]
      BY <2>4 DEF Takes
    <3> HIDE DEF P
    <3> QED
      BY <2>7, <2>9, <3>2, <3>3, <3>4 DEF PagesInv, Owns
  <2>14. IInv'
    BY <2>2, <2>10, <2>11, <2>12, <2>13 DEF IInv, NewRequest
  <2> QED
    BY <1>1, <2>4, <2>14 DEF Takes
<1>7. \/ pending # None /\ fiber' = Idle /\ UNCHANGED <<q, pool, pending>>
      \/ pending = None /\ pool' = ReleaseUnsubmitted(S) /\ fiber' = Idle /\ UNCHANGED <<q, pending>>
      \/ /\ pending = None /\ CanSubmit
         /\ q' = Submitted(q, Disk, r)
         /\ pool' = MarkSubmitted(S, id)
         /\ pending' = [id |-> id, pages |-> {[index |-> p, gen |-> pool[p].next] : p \in S}]
         /\ fiber' = [fiber EXCEPT !.at = "Complete", !.chunks = @ - 1]
  BY Zenon DEF SubmitRequest
<1> HIDE DEF S, r, id, i
<1> QED
  BY <1>4, <1>5, <1>6, <1>7, Zenon

-----------------------------------------------------------------------------
(* The invariant and what follows from it                                  *)

\* The queue starts with the disk and no request, and every page available.
LEMMA InitInv == Init => IInv
<1> SUFFICES ASSUME Init PROVE IInv
  OBVIOUS
<1>1. QueueInv(q) /\ \A i \in Slots : q.slots[i].state = "Free"
  BY RegisteredInv DEF Init
<1>2. fiber = Idle /\ pending = None /\ hw = {}
  BY DEF Init
<1>3. FiberInv
  BY <1>2 DEF FiberInv, InTransfer, Idle
<1>4. PendingInv
  BY <1>1, <1>2 DEF PendingInv, Vacant
<1>5. HardwareInv
  BY <1>2 DEF HardwareInv
<1>6. PagesInv
  <2>1. EmptyPage \in Page /\ EmptyPage.state = "Available"
    <3>1. 1 \in 1..MaxLease /\ 0 \in 0..MaxLease
      BY StorageAssumption
    <3> QED
      BY <3>1 DEF EmptyPage, Page
  <2>2. pool = [p \in Pool |-> EmptyPage]
    BY DEF Init
  <2> HIDE DEF Init
  <2>3. pool \in [Pool -> Page] /\ \A p \in Pool : pool[p].state = "Available"
    BY <2>1, <2>2
  <2> QED
    BY <1>2, <2>3 DEF PagesInv
<1> QED
  BY <1>1, <1>3, <1>4, <1>5, <1>6 DEF IInv

\* Every step of the calls, the fiber, the driver and the clock keeps it.
LEMMA NextInv == IInv /\ [Next]_vars => IInv'
<1> SUFFICES ASSUME IInv, [Next]_vars PROVE IInv'
  OBVIOUS
<1>1. CASE Step
  BY <1>1, SubmitInv, ExpireInv, CancelInv, ReadyInv, CheckTransferInv, CheckShutdownInv, Zenon DEF Step
<1>2. CASE Driver
  BY <1>2, ResetDoneInv, ResetFailedInv, CompletionInv, Zenon DEF Driver
<1>3. CASE Tick \/ Shutdown \/ ResetCall \/ ForceShutdown \/ \E r \in Requests : Call(r)
  BY <1>3, TickInv, ShutdownInv, ResetCallInv, ForceInv, CallInv, Zenon
<1>4. CASE ActivateAsync \/ UNCHANGED vars
  <2>1. UNCHANGED <<q, hw, pool, pending, fiber>>
    BY <1>4 DEF ActivateAsync, vars
  <2> QED
    BY <2>1, InvStutter
<1> QED
  BY <1>1, <1>2, <1>3, <1>4, Zenon DEF Next

\* The queue, the fiber, the pending transfer, the pages and the hardware agree
\* in every state of storage.rs.
THEOREM Invariance == Spec => []IInv
BY InitInv, NextInv, PTL DEF Spec

\* A call of storage.rs leaves nothing behind: no page submitted for a transfer
\* that is over, and no request and no command but the final flush once nothing
\* is pending; for every queue, pool, request and number of generations.
THEOREM CallsLeaveNothing == Spec => []NothingLeft
<1>1. IInv => NothingLeft
  <2> SUFFICES ASSUME IInv PROVE NothingLeft
    OBVIOUS
  <2>1. ASSUME NEW p \in Pool, pool[p].state = "Submitted"
        PROVE  /\ pending # None /\ fiber.at \notin {"Idle", "Submit"}
               /\ pool[p].id = pending.id /\ [index |-> p, gen |-> pool[p].gen] \in pending.pages
    <3>1. /\ pending # None /\ InTransfer
          /\ pool[p].id = pending.id /\ [index |-> p, gen |-> pool[p].gen] \in pending.pages
      BY <2>1, Zenon DEF IInv, PagesInv
    <3>2. fiber.at \notin {"Idle", "Submit"}
      BY <3>1 DEF IInv, FiberInv, InTransfer, Idle
    <3> QED
      BY <3>1, <3>2
  <2>2. fiber = Idle /\ pending # None => \A p \in pending.pages : Owns(p, {"Quarantined"})
    <3>1. fiber = Idle => ~InTransfer
      BY DEF InTransfer, Idle
    <3> QED
      BY <3>1, Zenon DEF IInv, PagesInv
  <2>3. pending = None => /\ \A i \in Slots : q.slots[i].state \in {"Free", "Retired"}
                          /\ \A c \in hw : c.token.final
    BY Zenon DEF IInv, PendingInv, HardwareInv, Vacant
  <2> QED
    BY <2>1, <2>2, <2>3 DEF NothingLeft
<1> QED
  BY <1>1, Invariance, PTL

-----------------------------------------------------------------------------
(* The loan of the pages                                                   *)

lentPages == {p \in Pool : pool[p].state # "Available"}
dmaPages == UNION {c.pages : c \in hw}

\* The hardware reaches pages of the pending transfer only.
LEMMA DmaLent ==
    ASSUME IInv
    PROVE  dmaPages \subseteq lentPages
<1>1. ASSUME NEW c \in hw PROVE c.pages \subseteq lentPages
  <2>1. CASE c.token.final
    BY <2>1 DEF IInv, HardwareInv
  <2>2. CASE ~c.token.final
    <3>1. pending # None /\ c.pages = Lent
      BY <2>2, Zenon DEF IInv, HardwareInv, Lent
    <3> QED
      BY <3>1, LentPages DEF lentPages
  <2> QED
    BY <2>1, <2>2
<1> QED
  BY <1>1 DEF dmaPages

\* A step that leaves the pages and the hardware alone.
LEMMA LoanStutter ==
    ASSUME lentPages' = lentPages, dmaPages' = dmaPages
    PROVE  [Loan!Next]_(Loan!vars)
BY DEF Loan!vars, lentPages, dmaPages

\* Pages that were available are lent.
LEMMA LoanLend ==
    ASSUME NEW S \in SUBSET Pool, S \intersect lentPages = {},
           lentPages' = lentPages \union S, dmaPages' = dmaPages
    PROVE  [Loan!Next]_(Loan!vars)
<1>1. Loan!Lend(S)
  BY DEF Loan!Lend, lentPages, dmaPages
<1> QED
  BY <1>1, Zenon DEF Loan!Next

\* A command reaches pages that are lent.
LEMMA LoanTouch ==
    ASSUME NEW S \in SUBSET lentPages, lentPages' = lentPages, dmaPages' = dmaPages \union S
    PROVE  [Loan!Next]_(Loan!vars)
<1>1. Loan!Touch(S)
  BY DEF Loan!Touch, lentPages, dmaPages
<1>2. S \in SUBSET Pool
  BY DEF lentPages
<1> QED
  BY <1>1, <1>2, Zenon DEF Loan!Next

\* Commands end, and pages that no command reaches any more go back.
LEMMA LoanBack ==
    ASSUME IInv, NEW S \in SUBSET lentPages, lentPages' = lentPages \ S,
           dmaPages' \subseteq dmaPages, S \intersect dmaPages' = {}
    PROVE  [Loan!Next]_(Loan!vars)
<1> DEFINE D == dmaPages \ dmaPages'
<1>1. D \subseteq dmaPages /\ dmaPages' = dmaPages \ D
  OBVIOUS
<1>2. D \in SUBSET Pool /\ S \in SUBSET Pool
  BY DmaLent DEF lentPages
<1> HIDE DEF D
<1>3. Loan!TakeBack(D, S)
  BY <1>1 DEF Loan!TakeBack, lentPages, dmaPages
<1> QED
  BY <1>2, <1>3, Zenon DEF Loan!Next

\* The pages that go back are available again, and no others.
LEMMA LentReturned ==
    ASSUME IInv, pending # None, pool' = Returned(Lent)
    PROVE  Lent \in SUBSET lentPages /\ lentPages' = lentPages \ Lent
<1>1. Lent \subseteq Pool /\ \A p \in Lent : pool[p].state # "Available"
  BY LentPages
<1>2. \A p \in Lent : pool'[p].state = "Available"
  BY <1>1 DEF Returned, EmptyPage
<1>3. \A p \in Pool : p \notin Lent => pool'[p] = pool[p]
  BY DEF Returned
<1> QED
  BY <1>1, <1>2, <1>3 DEF lentPages

\* The hardware is stopped, and the pages stay or go back.
LEMMA LoanStopped ==
    ASSUME IInv, hw' = {}, pool' = pool \/ (pending # None /\ pool' = Returned(Lent))
    PROVE  [Loan!Next]_(Loan!vars)
<1>1. dmaPages' = {}
  BY DEF dmaPages
<1>2. CASE pool' = pool
  <2>1. lentPages' = lentPages \ {} /\ {} \in SUBSET lentPages
    BY <1>2 DEF lentPages
  <2> QED
    BY <1>1, <2>1, LoanBack
<1>3. CASE pending # None /\ pool' = Returned(Lent)
  BY <1>1, <1>3, LentReturned, LoanBack
<1> QED
  BY <1>2, <1>3

\* A command that poll_ready takes reaches the pages of the transfer at most.
LEMMA LoanReady ==
    ASSUME IInv, PollReady
    PROVE  [Loan!Next]_(Loan!vars)
<1> DEFINE r == IF IsPresent(q, Disk) THEN DispatchedOne(q, Disk.index) ELSE [q |-> q, token |-> None]
           lent == IF r.token.final THEN {} ELSE Indices(pending.pages)
           c == [token |-> r.token, pages |-> lent]
<1>1. Dispatch(q, r)
  BY ReadyDispatch
<1>2. /\ UNCHANGED <<pool, pending>>
      /\ \/ UNCHANGED hw
         \/ r.token # None /\ q' = r.q /\ hw' = hw \union {c}
  BY DEF PollReady
<1>3. c.token = r.token /\ c.pages = IF r.token.final THEN {} ELSE Indices(pending.pages)
  OBVIOUS
<1> HIDE DEF r, c
<1>4. lentPages' = lentPages
  BY <1>2 DEF lentPages
<1>5. CASE UNCHANGED hw
  <2>1. dmaPages' = dmaPages
    BY <1>5 DEF dmaPages
  <2> QED
    BY <1>4, <2>1, LoanStutter
<1>6. CASE r.token # None /\ q' = r.q /\ hw' = hw \union {c}
  <2>1. ~c.token.final => pending # None
    BY <1>1, <1>2, <1>3, <1>6, NewCommand, Zenon
  <2>2. c.pages \in SUBSET lentPages
    <3>1. CASE r.token.final
      BY <1>3, <3>1
    <3>2. CASE ~r.token.final
      <4>1. pending # None /\ c.pages = Lent
        BY <1>3, <2>1, <3>2 DEF Lent
      <4> QED
        BY <4>1, LentPages DEF lentPages
    <3> QED
      BY <3>1, <3>2
  <2>3. dmaPages' = dmaPages \union c.pages
    BY <1>6 DEF dmaPages
  <2> QED
    BY <1>4, <2>2, <2>3, LoanTouch
<1> QED
  BY <1>2, <1>5, <1>6

\* Every step of storage is a step of the loan, or none.
LEMMA LoanStep == IInv /\ [Next]_vars => [Loan!Next]_(Loan!vars)
<1> SUFFICES ASSUME IInv, [Next]_vars PROVE [Loan!Next]_(Loan!vars)
  OBVIOUS
<1>1. ASSUME UNCHANGED <<hw, pool>> PROVE [Loan!Next]_(Loan!vars)
  BY <1>1, LoanStutter DEF lentPages, dmaPages
<1>2. CASE SubmitRequest
  <2>1. PICK S \in SUBSET Available :
              /\ \A p \in Pool : p \notin S => pool'[p] = pool[p]
              /\ \/ \A p \in S : pool'[p].state = "Available"
                 \/ \A p \in S : pool'[p].state # "Available"
    BY <1>2, SubmitInv, Zenon
  <2>2. UNCHANGED hw
    BY <1>2 DEF SubmitRequest
  <2>3. dmaPages' = dmaPages
    BY <2>2 DEF dmaPages
  <2>4. S \in SUBSET Pool /\ S \intersect lentPages = {}
    BY DEF Available, lentPages
  <2>5. CASE \A p \in S : pool'[p].state = "Available"
    <3>1. lentPages' = lentPages
      BY <2>1, <2>4, <2>5 DEF lentPages
    <3> QED
      BY <2>3, <3>1, LoanStutter
  <2>6. CASE \A p \in S : pool'[p].state # "Available"
    <3>1. lentPages' = lentPages \union S
      BY <2>1, <2>4, <2>6 DEF lentPages
    <3> QED
      BY <2>3, <2>4, <3>1, LoanLend
  <2> QED
    BY <2>1, <2>5, <2>6
<1>3. CASE \E c \in hw, s \in Statuses : PollCompletion(c, s)
  <2>1. UNCHANGED pool /\ hw' \subseteq hw
    BY <1>3 DEF PollCompletion
  <2>2. lentPages' = lentPages \ {} /\ {} \in SUBSET lentPages /\ dmaPages' \subseteq dmaPages
    BY <2>1 DEF lentPages, dmaPages
  <2> QED
    BY <2>2, LoanBack, Zenon
<1>4. CASE CheckTransfer
  <2>1. hw' = hw
    BY <1>4 DEF CheckTransfer
  <2>2. CASE pool' = pool
    BY <1>1, <2>1, <2>2
  <2>3. CASE InTransfer /\ pool' = Returned(Lent) /\ \A c \in hw : c.token.final
    <3>1. pending # None
      BY <2>3, AllReturned
    <3>2. \A c \in hw : c.pages = {}
      BY <2>3, Zenon DEF IInv, HardwareInv
    <3>3. dmaPages' = {}
      BY <2>1, <3>2 DEF dmaPages
    <3> QED
      BY <2>3, <3>1, <3>3, LentReturned, LoanBack
  <2> QED
    BY <1>4, <2>2, <2>3, CheckTransferInv
<1>5. CASE CheckShutdown
  <2>1. UNCHANGED <<hw, pool>>
    BY <1>5, CheckShutdownInv DEF CheckShutdown
  <2> QED
    BY <1>1, <2>1
<1>6. CASE ResetDone \/ ForceShutdown
  <2>1. hw' = {}
    BY <1>6, Zenon DEF ResetDone, ForceShutdown
  <2> QED
    BY <1>6, <2>1, ResetDoneInv, ForceInv, LoanStopped
<1>7. CASE ResetFailed
  <2>1. hw' = hw
    BY <1>7 DEF ResetFailed
  <2>2. lentPages' = lentPages /\ dmaPages' = dmaPages
    BY <1>7, <2>1, ResetFailedInv DEF lentPages, dmaPages
  <2> QED
    BY <2>2, LoanStutter
<1>8. CASE PollReady
  BY <1>8, LoanReady
<1>9. CASE \/ ExpireDeadlines \/ RequestCancel \/ Tick \/ ActivateAsync \/ Shutdown \/ ResetCall
           \/ UNCHANGED vars \/ \E r \in Requests : Call(r)
  <2>1. UNCHANGED <<hw, pool>>
    BY <1>9, Zenon DEF ExpireDeadlines, RequestCancel, Tick, ActivateAsync, Shutdown, ResetCall, Call, vars
  <2> QED
    BY <1>1, <2>1
<1> QED
  BY <1>2, <1>3, <1>4, <1>5, <1>6, <1>7, <1>8, <1>9, Zenon DEF Next, Step, Driver

\* Nothing is lent at the start.
LEMMA LoanInit == Init => Loan!Init
BY DEF Init, Loan!Init, EmptyPage

\* storage.rs keeps the rules of the abstract loan: whichever of completion,
\* time-out, failed worker, reset, failed reset and forced shutdown ends a
\* transfer, a page goes back only when no command can reach it.
THEOREM LoanRefined == Spec => LoanKept
BY Invariance, LoanInit, LoanStep, PTL DEF Spec, LoanKept, Loan!Spec

\* What BouncePool::release_submitted and release_after_dma_stopped rely on, for
\* every set of pages and every order of loans.
THEOREM LoanSafe == Loan!Spec => []Loan!OnlyLent
<1>1. Loan!Init => Loan!OnlyLent
  BY DEF Loan!Init, Loan!OnlyLent
<1>2. Loan!OnlyLent /\ [Loan!Next]_(Loan!vars) => Loan!OnlyLent'
  <2> SUFFICES ASSUME Loan!OnlyLent, [Loan!Next]_(Loan!vars) PROVE Loan!OnlyLent'
    OBVIOUS
  <2>1. CASE \E S \in SUBSET Pool : Loan!Lend(S)
    BY <2>1 DEF Loan!OnlyLent, Loan!Lend
  <2>2. CASE \E S \in SUBSET Pool : Loan!Touch(S)
    BY <2>2 DEF Loan!OnlyLent, Loan!Touch
  <2>3. CASE \E S \in SUBSET Pool, D \in SUBSET Pool : Loan!TakeBack(D, S)
    BY <2>3 DEF Loan!OnlyLent, Loan!TakeBack
  <2>4. CASE UNCHANGED Loan!vars
    BY <2>4 DEF Loan!OnlyLent, Loan!vars
  <2> QED
    BY <2>1, <2>2, <2>3, <2>4, Zenon DEF Loan!Next
<1> QED
  BY <1>1, <1>2, PTL DEF Loan!Spec

\* A page that the pool of storage.rs holds as available is never written by a
\* device.
THEOREM PagesSafe == Spec => []Loan!OnlyLent
BY LoanRefined, LoanSafe, PTL DEF LoanKept
=============================================================================
