---------------------------- MODULE RequestTheorems ----------------------------
(***************************************************************************)
(* The queues of RequestRuntime are exact, for every capacity, generation  *)
(* bound and set of clients: every step keeps QInv (RequestQueueProofs,    *)
(* RequestTableProofs), and the properties follow from it.                 *)
(***************************************************************************)
EXTENDS RequestQueueProofs, RequestTableProofs

-----------------------------------------------------------------------------
(* The invariant                                                           *)

\* try_new_with_limits.
LEMMA InitQueues == Init => QInv
<1> SUFFICES ASSUME Init PROVE QInv
  OBVIOUS
<1>1. LiveSlots = {} /\ Issued = {} /\ published = {}
  <2>1. \A i \in Slots : req[i] = None /\ gen[i] = 1 /\ ~retired[i]
    BY DEF Init
  <2>2. LiveSlots = {} /\ published = {}
    BY <2>1 DEF Init, LiveSlots
  <2>3. ASSUME NEW id \in Issued PROVE FALSE
    <3>1. id \in Id /\ id.slot \in Slots /\ id.gen \in Nat /\ id.gen >= 1
      BY SizeAssumption DEF Issued, Id
    <3> QED
      BY <2>1, <3>1 DEF Issued
  <2> QED
    BY <2>2, <2>3
<1>2. /\ targets = [t \in Table |-> [target |-> None, active |-> None, queued |-> <<>>]]
      /\ cursor = 0 /\ actions = <<>>
  BY DEF Init
<1>3. ASSUME NEW t \in Table
      PROVE  /\ targets[t] \in Entry /\ targets[t].target = None /\ targets[t].active = None
             /\ DOMAIN targets[t].queued = {}
  BY <1>2 DEF Entry
<1>4. TargetInv
  <2>1. targets \in [Table -> Entry] /\ cursor \in Table
    BY <1>2, <1>3, SizeAssumption DEF Table
  <2>2. OneEntry
    BY <1>3, ZenonT(60) DEF OneEntry
  <2>3. \A t \in Table : EntryOK(targets[t])
    BY <1>3 DEF EntryOK
  <2> QED
    BY <1>1, <2>1, <2>2, <2>3 DEF TargetInv
<1>5. QuotaInv
  <2>1. \A x \in Targets : TargetSlots(x) = {}
    BY <1>1 DEF TargetSlots
  <2> QED
    BY <2>1, SizeAssumption, FS_EmptySet DEF QuotaInv
<1>6. QueueInv
  <2>1. DOMAIN actions = {}
    BY <1>2
  <2> QED
    BY <1>1, <2>1 DEF QueueInv
<1>7. HistoryInv
  BY <1>1 DEF HistoryInv
<1> QED
  BY <1>4, <1>5, <1>6, <1>7 DEF QInv

\* Every step of the runtime keeps the invariant.
LEMMA NextQueues ==
    ASSUME IInv, QInv, [Next]_vars
    PROVE  QInv'
<1>0. \A id \in Issued : id \in Id
  BY DEF Issued
<1>1. CASE \E b \in Batches : SubmitBatch(b)
  BY <1>1, SubmitQueues
<1>2. CASE \E id \in Issued : Cancel(id)
  BY <1>2, CancelQueues
<1>3. CASE \E o \in Owners : TerminateThread(o)
  <2>1. PICK o \in Owners : TerminateMatching(OwnerSlots(o))
    BY <1>3 DEF TerminateThread
  <2>2. OwnerSlots(o) \in SUBSET LiveSlots
    BY DEF OwnerSlots
  <2> QED
    BY <2>1, <2>2, TerminateQueues
<1>4. CASE \E p \in Processes : TerminateProcess(p)
  <2>1. PICK p \in Processes : TerminateMatching({i \in LiveSlots : req[i].owner.process = p})
    BY <1>4, ZenonT(60) DEF TerminateProcess
  <2>2. {i \in LiveSlots : req[i].owner.process = p} \in SUBSET LiveSlots
    OBVIOUS
  <2> QED
    BY <2>1, <2>2, TerminateQueues
<1>5. CASE NextDispatch
  BY <1>5, DispatchQueues
<1>6. CASE \E id \in Issued : RequeueActive(id)
  BY <1>0, <1>6, RequeueQueues, SMTT(30)
<1>7. CASE \E id \in Issued : MarkDeviceOwned(id)
  BY <1>7, MarkQueues
<1>8. CASE \E id \in Issued, o \in Outcomes :
              RecordCompletion([id |-> id, ok |-> o.ok, released |-> o.released])
  <2>1. UNCHANGED <<gen, retired, req, targets, cursor, actions, published, freed>>
    BY <1>8 DEF RecordCompletion, slotVars
  <2> QED
    BY <2>1, FrozenQueues
<1>9. CASE \E id \in Issued, stopped \in BOOLEAN : AcknowledgeCancel(id, stopped)
  BY <1>9, AcknowledgeCancelQueues
<1>10. CASE \E id \in Issued : AcknowledgeDrain(id)
  BY <1>10, AcknowledgeDrainQueues
<1>11. CASE \E d \in Devices, stopped \in BOOLEAN : RemoveDevice(d, stopped)
  BY <1>11, RemoveDeviceQueues, SMTT(30)
<1>12. CASE ApplyCompletion
  <2>1. CASE Valid(Head(completions).id)
    BY <1>12, <2>1, CompletionQueues
  <2>2. CASE ~Valid(Head(completions).id)
    <3>1. UNCHANGED <<gen, retired, req, targets, cursor, actions, published, freed>>
      BY <1>12, <2>2 DEF ApplyCompletion, slotVars
    <3> QED
      BY <3>1, FrozenQueues
  <2> QED
    BY <2>1, <2>2
<1>13. CASE ApplyTimeout
  BY <1>13, TimeoutQueues
<1>14. CASE NextAction
  BY <1>14, NextActionQueues
<1>15. CASE \E id \in Issued : AcknowledgeResourceRelease(id)
  BY <1>0, <1>15, AcknowledgeReleaseQueues
<1>16. CASE BeginShutdown
  BY <1>16, ShutdownQueues
<1>17. CASE RunWorker \/ CompletionsDone \/ WorkerReturns \/ ResumeAfterShutdownCancel
            \/ Tick \/ UNCHANGED vars
  <2>1. UNCHANGED <<gen, retired, req, targets, cursor, actions, published, freed>>
    BY <1>17 DEF RunWorker, CompletionsDone, WorkerReturns, ResumeAfterShutdownCancel,
                 Tick, Between, slotVars, vars
  <2> QED
    BY <2>1, FrozenQueues
<1> QED
  BY <1>1, <1>2, <1>3, <1>4, <1>5, <1>6, <1>7, <1>8, <1>9, <1>10, <1>11, <1>12, <1>13,
     <1>14, <1>15, <1>16, <1>17, SMTT(90)
  DEF Next, ClientNext, ServiceNext, KernelNext

-----------------------------------------------------------------------------
(* Theorems                                                                *)

\* The target table, the action queue and the histories fit the slots in every
\* reachable state of the runtime: the invariant behind the theorems below.
THEOREM QueueInvariance == Spec => []QInv
<1>1. Init => QInv
  BY InitQueues
<1>2. IInv /\ QInv /\ [Next]_vars => QInv'
  BY NextQueues
<1> QED
  BY <1>1, <1>2, Invariance, PTL DEF Spec

\* A target serves one request at a time: whatever was started, or may still be
\* touched by a device, is what its table entry names as active, and a target
\* has one entry.
THEOREM TargetSafe == Spec => []TargetExclusive
<1>1. QInv => TargetExclusive
  BY Zenon DEF QInv, TargetInv, OneEntry, Busy, ServedBy, TargetExclusive
<1> QED
  BY <1>1, QueueInvariance, PTL

\* The FIFO of a target is no longer than the target's quota allows: its
\* requests are different live requests of that target.
LEMMA QueueBound ==
    ASSUME IInv, QInv, NEW t \in Table
    PROVE  Len(targets[t].queued) <= PerTarget
<1>1. PICK q : q = targets[t]
  OBVIOUS
<1>2. PICK s : s = q.queued
  OBVIOUS
<1>3. q \in Entry /\ EntryOK(q) /\ SlotInv
  BY <1>1, ZenonT(60) DEF QInv, TargetInv, IInv
<1>4. s \in Seq(Id) /\ Len(s) \in Nat /\ DOMAIN s = 1..Len(s) /\ PerTarget \in Nat
  BY <1>2, <1>3, SizeAssumption, SMTT(30) DEF Entry
<1>5. ASSUME NEW n \in DOMAIN s
      PROVE  /\ s[n] \in Id /\ Valid(s[n]) /\ req[s[n].slot].target = q.target
             /\ s[n].slot \in LiveSlots /\ q.target \in Targets
  <2>1. s[n] \in Id /\ Valid(s[n]) /\ req[s[n].slot].target = q.target
    BY <1>2, <1>3, <1>4 DEF EntryOK
  <2>2. s[n].slot \in LiveSlots /\ req[s[n].slot] \in Request
    BY <1>3, <2>1, LiveFacts, Zenon
  <2> QED
    BY <2>1, <2>2, SMTT(30) DEF Request
<1>6. CASE Len(s) = 0
  BY <1>1, <1>2, <1>4, <1>6
<1>7. CASE Len(s) # 0
  <2> DEFINE f == [n \in DOMAIN s |-> s[n].slot]
             T == TargetSlots(q.target)
  <2>1. 1 \in DOMAIN s
    BY <1>4, <1>7
  <2>2. q.target \in Targets
    BY <1>5, <2>1
  <2>3. Cardinality(T) <= PerTarget
    BY <2>2, Zenon DEF QInv, QuotaInv
  <2>4. IsFiniteSet(T)
    <3>1. IsFiniteSet(Slots)
      BY SlotsFinite
    <3>2. T \subseteq Slots
      BY DEF TargetSlots, LiveSlots
    <3> QED
      BY <3>1, <3>2, FS_Subset
  <2>5. \A n \in DOMAIN s : s[n].slot \in T
    BY <1>5 DEF TargetSlots
  <2>6. ASSUME NEW m \in DOMAIN s, NEW n \in DOMAIN s, s[m].slot = s[n].slot PROVE m = n
    <3>1. s[m] = s[n]
      BY <1>5, <2>6 DEF Valid, Id
    <3> QED
      BY <1>2, <1>3, <3>1, Zenon DEF EntryOK
  <2>7. f \in Injection(DOMAIN s, T)
    <3>1. f \in [DOMAIN s -> T] /\ \A m, n \in DOMAIN s : f[m] = f[n] => m = n
      BY <2>5, <2>6
    <3> QED
      BY <3>1 DEF Injection, IsInjective
  <2> HIDE DEF f, T
  <2>8. Cardinality(DOMAIN s) <= Cardinality(T)
    BY <2>4, <2>7, FS_Injection, SMTT(30)
  <2>9. Cardinality(DOMAIN s) = Len(s)
    BY <1>4, FS_Interval
  <2>10. Cardinality(T) \in Nat
    BY <2>4, FS_CardinalityType
  <2> QED
    BY <1>1, <1>2, <1>4, <2>3, <2>8, <2>9, <2>10
<1> QED
  BY <1>6, <1>7

\* The FIFOs hold exactly the waiting requests, each once and under its own
\* target, and never grow past the quota: whatever requeues, cancellations,
\* timeouts and retirements come between.
THEOREM QueuesSafe == Spec => []QueuesExact
<1>1. IInv /\ QInv => QueuesExact
  <2> SUFFICES ASSUME IInv, QInv PROVE QueuesExact
    OBVIOUS
  <2>1. ASSUME NEW i \in LiveSlots, req[i].state = "Pending" PROVE IdOf(i) \in QueuedIds(targets)
    <3>1. PICK t \in Table : WaitsIn(i, targets[t])
      BY <2>1, ZenonT(60) DEF QInv, TargetInv
    <3> QED
      BY <3>1 DEF WaitsIn, QueuedIds, Range
  <2>2. ASSUME NEW t \in Table
        PROVE  /\ IsInjective(targets[t].queued)
               /\ Len(targets[t].queued) <= PerTarget
               /\ \A id \in Range(targets[t].queued) :
                     /\ Valid(id)
                     /\ req[id.slot].state = "Pending"
                     /\ req[id.slot].target = targets[t].target
    <3>1. EntryOK(targets[t])
      BY Zenon DEF QInv, TargetInv
    <3>2. IsInjective(targets[t].queued)
      BY <3>1, ZenonT(60) DEF EntryOK, IsInjective
    <3>3. \A id \in Range(targets[t].queued) : \E n \in DOMAIN targets[t].queued : id = targets[t].queued[n]
      BY SMTT(30) DEF Range
    <3>4. \A id \in Range(targets[t].queued) :
             /\ Valid(id)
             /\ req[id.slot].state = "Pending"
             /\ req[id.slot].target = targets[t].target
      <4>1. ASSUME NEW n \in DOMAIN targets[t].queued
            PROVE  /\ Valid(targets[t].queued[n])
                   /\ req[targets[t].queued[n].slot].state = "Pending"
                   /\ req[targets[t].queued[n].slot].target = targets[t].target
        BY <3>1, Zenon DEF EntryOK
      <4> QED
        BY <3>3, <4>1
    <3>5. Len(targets[t].queued) <= PerTarget
      BY QueueBound
    <3> QED
      BY <3>2, <3>4, <3>5, ZenonT(60)
  <2> QED
    BY <2>1, <2>2, ZenonT(60) DEF QueuesExact
<1> QED
  BY <1>1, Invariance, QueueInvariance, PTL

\* Two entries of the action queue differ in their kind or their slot, so its
\* preallocated 3 * capacity entries are enough.
LEMMA ActionBound ==
    ASSUME IInv, QInv
    PROVE  Len(actions) <= 3 * Capacity
<1> DEFINE f == [n \in DOMAIN actions |-> <<actions[n].kind, actions[n].id.slot>>]
           T == Kinds \X Slots
<1>1. actions \in Seq(Offered)
  BY DEF IInv
<1>2. Len(actions) \in Nat /\ DOMAIN actions = 1..Len(actions) /\ \A n \in DOMAIN actions : actions[n] \in Offered
  BY <1>1
<1>3. \A n \in DOMAIN actions : actions[n].kind \in Kinds /\ actions[n].id.slot \in Slots
  BY <1>2 DEF Offered, Action, Id, Kinds
<1>4. \A m, n \in DOMAIN actions :
          actions[m].kind = actions[n].kind /\ actions[m].id.slot = actions[n].id.slot => m = n
  BY Zenon DEF QInv, QueueInv
<1>5. IsFiniteSet(Kinds) /\ Cardinality(Kinds) = 3
  <2>1. Kinds = ({"cancel"} \cup {"publish"}) \cup {"release"}
    BY DEF Kinds
  <2>2. IsFiniteSet({"cancel"}) /\ Cardinality({"cancel"}) = 1
    BY FS_Singleton
  <2>3. IsFiniteSet({"cancel"} \cup {"publish"}) /\ Cardinality({"cancel"} \cup {"publish"}) = 2
    BY <2>2, FS_AddElement
  <2> QED
    BY <2>1, <2>3, FS_AddElement
<1>6. IsFiniteSet(Slots) /\ Cardinality(Slots) = Capacity
  BY SlotsFinite
<1>7. IsFiniteSet(T) /\ Cardinality(T) = 3 * Capacity
  BY <1>5, <1>6, FS_Product, SMTT(30)
<1>8. f \in Injection(DOMAIN actions, T)
  <2>1. f \in [DOMAIN actions -> T]
    BY <1>3
  <2>2. \A m, n \in DOMAIN actions : f[m] = f[n] => m = n
    BY <1>4
  <2> QED
    BY <2>1, <2>2 DEF Injection, IsInjective
<1> HIDE DEF f, T
<1>9. Cardinality(DOMAIN actions) <= Cardinality(T)
  BY <1>7, <1>8, FS_Injection, SMTT(30)
<1>10. Cardinality(DOMAIN actions) = Len(actions)
  BY <1>2, FS_Interval, SMTT(30)
<1> QED
  BY <1>7, <1>9, <1>10, SMTT(30)

\* The action queue holds each action a live request waits for exactly once,
\* and no action of a request that has retired.
THEOREM ActionsSafe == Spec => []ActionsExact
<1>1. IInv /\ QInv => ActionsExact
  <2> SUFFICES ASSUME IInv, QInv PROVE ActionsExact
    OBVIOUS
  <2> DEFINE Mine(k, i) == {n \in DOMAIN actions : actions[n].kind = k /\ actions[n].id.slot = i}
             FlagOf(k, i) == IF req[i] = None THEN "idle" ELSE Flag(req[i], k)
  <2>1. ASSUME NEW k \in Kinds, NEW i \in Slots
        PROVE  /\ Cardinality(Mine(k, i)) = (IF FlagOf(k, i) = "queued" THEN 1 ELSE 0)
               /\ \A n \in Mine(k, i) : actions[n].id = IdOf(i)
    <3>m. PICK mine : mine = Mine(k, i)
      BY ZenonT(60)
    <3>f. PICK flag : flag = FlagOf(k, i)
      OBVIOUS
    <3>1. ASSUME NEW n \in mine
          PROVE  /\ n \in DOMAIN actions /\ actions[n].kind = k /\ actions[n].id.slot = i
                 /\ actions[n].id = IdOf(i) /\ flag = "queued"
      <4>1. n \in DOMAIN actions /\ actions[n].kind = k /\ actions[n].id.slot = i
        BY <3>m
      <4>2. Valid(actions[n].id) /\ Flag(req[actions[n].id.slot], actions[n].kind) = "queued"
        BY <4>1, Zenon DEF QInv, QueueInv
      <4>3. actions[n].id \in Id
        BY <4>1 DEF IInv, Offered, Action
      <4>4. actions[n].id = IdOf(i) /\ req[i] # None
        BY <4>1, <4>2, <4>3 DEF Valid, IdOf, Id
      <4> QED
        BY <3>f, <4>1, <4>2, <4>4, Zenon
    <3>2. CASE flag = "queued"
      <4>1. i \in LiveSlots /\ Flag(req[i], k) = "queued"
        BY <3>f, <3>2 DEF LiveSlots
      <4>2. \A j \in LiveSlots : \A l \in Kinds : Flag(req[j], l) = "queued" =>
                \E n \in DOMAIN actions : actions[n].kind = l /\ actions[n].id.slot = j
        BY Zenon DEF QInv, QueueInv
      <4>3. PICK n \in DOMAIN actions : actions[n].kind = k /\ actions[n].id.slot = i
        BY <4>1, <4>2, ZenonT(60)
      <4>4. \A m \in DOMAIN actions :
                actions[m].kind = actions[n].kind /\ actions[m].id.slot = actions[n].id.slot => m = n
        BY Zenon DEF QInv, QueueInv
      <4>5. mine = {n}
        BY <3>m, <4>3, <4>4, SMTT(30)
      <4> QED
        BY <3>m, <3>f, <3>1, <3>2, <4>5, FS_Singleton, ZenonT(60)
    <3>3. CASE flag # "queued"
      <4>1. mine = {}
        BY <3>1, <3>3, Zenon
      <4> QED
        BY <3>m, <3>f, <3>3, <4>1, FS_EmptySet, ZenonT(60)
    <3> QED
      BY <3>2, <3>3
  <2>2. Len(actions) <= 3 * Capacity
    BY ActionBound
  <2>3. ASSUME NEW k \in {"cancel", "publish", "release"}, NEW i \in Slots
        PROVE  LET mine == {n \in DOMAIN actions : actions[n].kind = k /\ actions[n].id.slot = i}
                   flag == IF req[i] = None THEN "idle"
                           ELSE CASE k = "cancel" -> req[i].cancel
                                  [] k = "publish" -> req[i].publish
                                  [] k = "release" -> req[i].release
               IN  /\ Cardinality(mine) = (IF flag = "queued" THEN 1 ELSE 0)
                   /\ \A n \in mine : actions[n].id = IdOf(i)
    <3>1. k \in Kinds
      BY DEF Kinds
    <3>2. FlagOf(k, i) = IF req[i] = None THEN "idle"
                         ELSE CASE k = "cancel" -> req[i].cancel
                                [] k = "publish" -> req[i].publish
                                [] k = "release" -> req[i].release
      BY Zenon DEF Flag
    <3>3. /\ Cardinality(Mine(k, i)) = (IF FlagOf(k, i) = "queued" THEN 1 ELSE 0)
          /\ \A n \in Mine(k, i) : actions[n].id = IdOf(i)
      <4> HIDE DEF Mine, FlagOf
      <4> QED
        BY <2>1, <3>1, Zenon
    <3> HIDE DEF FlagOf
    <3> QED
      BY <3>2, <3>3, Zenon
  <2> QED
    BY <2>2, <2>3, ZenonT(60) DEF ActionsExact
<1> QED
  BY <1>1, Invariance, QueueInvariance, PTL

\* Every request that left the table was published and its resources freed, and
\* no result waits for publication a second time.
THEOREM PublishedSafe == Spec => []PublishedOnce
<1>1. IInv /\ QInv => PublishedOnce
  <2> SUFFICES ASSUME IInv, QInv PROVE PublishedOnce
    OBVIOUS
  <2>1. \A id \in Issued : Valid(id) \/ id \in freed \cap published
    BY Zenon DEF QInv, HistoryInv
  <2>2. ASSUME NEW n \in DOMAIN actions, actions[n].kind = "publish" PROVE actions[n].id \notin published
    <3>1. Valid(actions[n].id) /\ Flag(req[actions[n].id.slot], actions[n].kind) = "queued"
      BY Zenon DEF QInv, QueueInv
    <3>2. req[actions[n].id.slot].publish = "queued"
      BY <2>2, <3>1 DEF Flag
    <3>3. actions[n].id \in Id
      BY DEF IInv, Offered, Action
    <3>4. actions[n].id.slot \in LiveSlots /\ IdOf(actions[n].id.slot) = actions[n].id
      BY <3>1, <3>3 DEF Valid, IdOf, Id, LiveSlots
    <3>5. \A i \in LiveSlots : IdOf(i) \in published <=> req[i].publish = "dispatched"
      BY Zenon DEF QInv, HistoryInv
    <3>6. req[actions[n].id.slot].publish # "dispatched"
      BY <3>2
    <3> QED
      BY <3>4, <3>5, <3>6, ZenonT(60)
  <2> QED
    BY <2>1, <2>2, ZenonT(60) DEF PublishedOnce
<1> QED
  BY <1>1, Invariance, QueueInvariance, PTL
=============================================================================
