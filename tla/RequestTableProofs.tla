-------------------------- MODULE RequestTableProofs --------------------------
(***************************************************************************)
(* The steps that fill the target table of RequestRuntime: starting a      *)
(* request, putting it back and submitting a batch.  They keep QInv.       *)
(***************************************************************************)
EXTENDS RequestRuntimeProofs

-----------------------------------------------------------------------------
(* Starting a request and putting it back                                  *)

\* The quotas, actions and histories do not see a request start or wait.
LEMMA RestKept ==
    ASSUME QInv, UNCHANGED <<gen, retired, actions, published, freed>>,
           \A i \in Slots : req'[i] = None <=> req[i] = None,
           \A i \in LiveSlots : /\ req'[i].target = req[i].target /\ req'[i].res = req[i].res
                                /\ req'[i].publish = req[i].publish
                                /\ \A k \in Kinds : Flag(req'[i], k) = Flag(req[i], k),
           actions \in Seq(Action)
    PROVE  QuotaInv' /\ QueueInv' /\ HistoryInv'
<1>1. /\ LiveSlots' = LiveSlots /\ Issued' = Issued
      /\ \A i \in Slots : IdOf(i)' = IdOf(i)
      /\ \A id \in Id : Valid(id)' <=> Valid(id)
  BY SameIds, Zenon
<1>2. QuotaInv'
  <2>1. \A x : TargetSlots(x)' = TargetSlots(x)
    BY <1>1 DEF TargetSlots
  <2> QED
    BY <2>1, Zenon DEF QInv, QuotaInv
<1>3. QueueInv'
  <2>1. \A n \in DOMAIN actions : actions[n].id \in Id /\ actions[n].kind \in Kinds
    <3>1. \A n \in DOMAIN actions : actions[n] \in Action
      OBVIOUS
    <3>2. \A x \in Action : x.id \in Id /\ x.kind \in Kinds
      BY DEF Action, Kinds
    <3> QED
      BY <3>1, <3>2, Zenon
  <2>2. \A n \in DOMAIN actions : Valid(actions[n].id) /\ actions[n].id.slot \in LiveSlots
                                  /\ Flag(req[actions[n].id.slot], actions[n].kind) = "queued"
    BY DEF QInv, QueueInv, Valid, LiveSlots
  <2>3. ASSUME NEW n \in DOMAIN actions
        PROVE  Valid(actions[n].id)' /\ Flag(req'[actions[n].id.slot], actions[n].kind) = "queued"
    <3>1. PICK id, k : id = actions[n].id /\ k = actions[n].kind
      OBVIOUS
    <3>2. id \in Id /\ k \in Kinds /\ Valid(id) /\ id.slot \in LiveSlots /\ Flag(req[id.slot], k) = "queued"
      BY <2>1, <2>2, <3>1, Zenon
    <3>3. Valid(id)' /\ Flag(req'[id.slot], k) = "queued"
      BY <1>1, <3>2, Zenon
    <3> QED
      BY <3>1, <3>3, Zenon DEF Valid
  <2>4. ASSUME NEW i \in LiveSlots', NEW k \in Kinds, Flag(req'[i], k) = "queued"
        PROVE  \E n \in DOMAIN actions : actions[n].kind = k /\ actions[n].id.slot = i
    <3>1. i \in LiveSlots
      BY <1>1
    <3>2. Flag(req[i], k) = "queued"
      BY <2>4, <3>1, Zenon
    <3> QED
      BY <3>1, <3>2, Zenon DEF QInv, QueueInv
  <2>5. \A m, n \in DOMAIN actions :
           actions[m].kind = actions[n].kind /\ actions[m].id.slot = actions[n].id.slot => m = n
    BY Zenon DEF QInv, QueueInv
  <2> QED
    BY <2>3, <2>4, <2>5 DEF QueueInv
<1>4. HistoryInv'
  <2>1. \A i \in LiveSlots : i \in Slots
    BY DEF LiveSlots
  <2>2. \A id \in Issued : id \in Id
    BY DEF Issued
  <2>3. \A i \in LiveSlots' : /\ IdOf(i)' \in published' <=> req'[i].publish = "dispatched"
                              /\ req'[i].res = "Released" => IdOf(i)' \in freed'
    BY <1>1, <2>1, ZenonT(60) DEF QInv, HistoryInv
  <2>4. \A id \in Issued' : Valid(id)' \/ id \in freed' \cap published'
    BY <1>1, <2>2, Zenon DEF QInv, HistoryInv
  <2>5. published' \subseteq Issued'
    BY <1>1, Zenon DEF QInv, HistoryInv
  <2> QED
    BY <2>3, <2>4, <2>5, Zenon DEF HistoryInv
<1> QED
  BY <1>2, <1>3, <1>4

\* A step that starts request i, or puts it back, in entry t of its target.
LEMMA MoveStep ==
    ASSUME SlotInv, TargetInv, cursor' \in Table, UNCHANGED <<gen, retired>>,
           NEW i \in LiveSlots, NEW t \in Table,
           targets[t].target = req[i].target,
           targets' = [u \in Table |-> targets'[u]],
           req'[i] # None, req'[i].target = req[i].target,
           \A j \in Slots : j # i => req'[j] = req[j],
           \A u \in Table : u # t => Shrinks(targets[u], targets'[u], {}, {}),
           targets'[t] \in Entry, targets'[t].target = targets[t].target,
           EntryOK(targets[t])',
           req'[i].state = "Pending" => \E n \in DOMAIN targets'[t].queued : targets'[t].queued[n] = IdOf(i),
           Busy(req'[i]) => targets'[t].active = IdOf(i),
           \A n \in DOMAIN targets[t].queued : targets[t].queued[n] # IdOf(i) =>
               \E m \in DOMAIN targets'[t].queued : targets'[t].queued[m] = targets[t].queued[n],
           targets[t].active # None /\ targets[t].active # IdOf(i) => targets'[t].active = targets[t].active
    PROVE  TargetInv'
<1>0. i \in Slots /\ req[i] \in Request /\ req[i].target # None /\ LiveSlots' = LiveSlots
  <2>1. i \in Slots /\ req[i] \in Request /\ req[i] # None
    BY DEF LiveSlots, SlotInv, SlotTypes
  <2>2. req[i].target \in Targets
    BY <2>1 DEF Request
  <2>3. LiveSlots' = LiveSlots
    BY <2>1 DEF LiveSlots
  <2> QED
    BY <2>1, <2>2, <2>3, NoneAssumption
<1>1. \A j \in Slots : IdOf(j)' = IdOf(j) /\ (j # i => IdOf(j) # IdOf(i))
  <2>1. \A j \in Slots : j # i => IdOf(j) # IdOf(i)
    <3> SUFFICES ASSUME NEW j \in Slots, j # i PROVE IdOf(j) # IdOf(i)
      BY Zenon
    <3>1. IdOf(i).slot = i
      BY <1>0, IdFacts, Zenon
    <3>2. IdOf(j).slot = j
      BY IdFacts, Zenon
    <3> QED
      BY <3>1, <3>2, Zenon
  <2> QED
    BY <2>1, Zenon DEF IdOf
<1>2. targets' \in [Table -> Entry]
  BY Zenon DEF Shrinks
<1>3. OneEntry'
  <2>1. \A u \in Table : targets'[u].target \in {targets[u].target, None}
    BY Zenon DEF Shrinks
  <2> QED
    BY <2>1 DEF TargetInv, OneEntry
<1>4. \A u \in Table : u # t => targets[u].target # req[i].target
  BY <1>0, Zenon DEF TargetInv, OneEntry
<1>5. ASSUME NEW u \in Table, u # t PROVE EntryOK(targets[u])'
  <2> DEFINE q == targets[u]
  <2>0. PICK e : e = targets'[u]
    OBVIOUS
  <2>1. EntryOK(q) /\ Shrinks(q, e, {}, {}) /\ q.target # req[i].target
    BY <1>4, <1>5, <2>0, Zenon DEF TargetInv
  <2> HIDE DEF q
  <2>2. ASSUME NEW id, Valid(id), req[id.slot].target = q.target
        PROVE  req'[id.slot] = req[id.slot] /\ Valid(id)'
    <3>1. id.slot \in Slots /\ id.slot # i
      BY <2>1, <2>2, Zenon DEF Valid
    <3>2. req'[id.slot] = req[id.slot]
      BY <3>1, Zenon
    <3> QED
      BY <2>2, <3>2, Zenon DEF Valid
  <2>3. \A m, n \in DOMAIN e.queued : e.queued[m] = e.queued[n] => m = n
    BY <2>1, Zenon DEF EntryOK, Shrinks
  <2>4. ASSUME NEW m \in DOMAIN e.queued
        PROVE  /\ Valid(e.queued[m])'
               /\ req'[e.queued[m].slot].state = "Pending"
               /\ req'[e.queued[m].slot].target = e.target
    <3>1. PICK n \in DOMAIN q.queued : q.queued[n] = e.queued[m]
      BY <2>1, Zenon DEF Shrinks
    <3>2. e.target = q.target
      <4>1. e.queued # <<>>
        OBVIOUS
      <4> QED
        BY <2>1, <4>1 DEF Shrinks, Idle
    <3>3. /\ Valid(e.queued[m]) /\ req[e.queued[m].slot].target = q.target
          /\ req[e.queued[m].slot].state = "Pending"
      BY <2>1, <3>1, ZenonT(60) DEF EntryOK
    <3> QED
      BY <2>2, <3>2, <3>3, Zenon
  <2>5. ASSUME e.active # None
        PROVE  Valid(e.active)' /\ req'[e.active.slot].state # "Pending" /\ req'[e.active.slot].target = e.target
    <3>1. e.active = q.active /\ e.target = q.target
      BY <2>1, <2>5 DEF Shrinks, Idle
    <3>2. Valid(e.active) /\ req[e.active.slot].target = q.target /\ req[e.active.slot].state # "Pending"
      BY <2>1, <2>5, <3>1, Zenon DEF EntryOK
    <3> QED
      BY <2>2, <3>1, <3>2, Zenon
  <2> QED
    BY <2>0, <2>3, <2>4, <2>5, Zenon DEF EntryOK
<1>6. ASSUME NEW j \in LiveSlots', req'[j].state = "Pending"
      PROVE  \E u \in Table : WaitsIn(j, targets[u])'
  <2>0. j \in LiveSlots /\ j \in Slots
    BY <1>0 DEF LiveSlots
  <2>1. CASE j = i
    BY <1>0, <1>1, <1>6, <2>1, Zenon DEF WaitsIn
  <2>2. CASE j # i
    <3>1. PICK u \in Table : WaitsIn(j, targets[u])
      BY <1>6, <2>0, <2>2, Zenon DEF TargetInv
    <3>2. PICK n \in DOMAIN targets[u].queued : targets[u].queued[n] = IdOf(j)
      BY <3>1, Zenon DEF WaitsIn
    <3>3. \E m \in DOMAIN targets'[u].queued : targets'[u].queued[m] = IdOf(j)
      <4>1. CASE u = t
        BY <1>1, <2>0, <2>2, <3>2, <4>1, ZenonT(60)
      <4>2. CASE u # t
        <5>1. Shrinks(targets[u], targets'[u], {}, {}) /\ targets[u].queued[n] \notin {}
          BY <4>2
        <5> QED
          BY <3>2, <5>1 DEF Shrinks
      <4> QED
        BY <4>1, <4>2
    <3>4. targets'[u].target = targets[u].target
      <4>1. CASE u # t
        <5>1. targets'[u].queued # <<>>
          BY <3>3
        <5> QED
          BY <4>1, <5>1 DEF Shrinks, Idle
      <4> QED
        BY <4>1
    <3> QED
      BY <1>1, <2>0, <2>2, <3>1, <3>3, <3>4, Zenon DEF WaitsIn
  <2> QED
    BY <2>1, <2>2
<1>7. ASSUME NEW j \in LiveSlots', Busy(req'[j])
      PROVE  \E u \in Table : ServedBy(j, targets[u])'
  <2>0. j \in LiveSlots /\ j \in Slots
    BY <1>0 DEF LiveSlots
  <2>1. CASE j = i
    BY <1>0, <1>1, <1>7, <2>1, Zenon DEF ServedBy
  <2>2. CASE j # i
    <3>1. PICK u \in Table : ServedBy(j, targets[u])
      BY <1>7, <2>0, <2>2, Zenon DEF TargetInv
    <3>2. targets[u].active = IdOf(j) /\ IdOf(j) # None /\ IdOf(j) # IdOf(i)
      BY <1>1, <2>0, <2>2, <3>1, IdFacts, ZenonT(60) DEF ServedBy
    <3>3. targets'[u].active = IdOf(j) /\ targets'[u].target = targets[u].target
      <4>1. CASE u = t
        BY <3>2, <4>1, Zenon
      <4>2. CASE u # t
        BY <3>2, <4>2 DEF Shrinks, Idle
      <4> QED
        BY <4>1, <4>2
    <3> QED
      BY <1>1, <2>0, <2>2, <3>1, <3>3, Zenon DEF ServedBy
  <2> QED
    BY <2>1, <2>2
<1> QED
  BY <1>2, <1>3, <1>5, <1>6, <1>7, Zenon DEF TargetInv, Busy, Draining

\* A request that was started or put back keeps everything but its state.
Moved(r, st, b) == [r EXCEPT !.state = st, !.started = b]

\* Starting a request, or putting it back, leaves its flags alone.
LEMMA StateOnly ==
    ASSUME NEW r \in Request, NEW st \in States, NEW b \in BOOLEAN
    PROVE  /\ Moved(r, st, b) \in Request
           /\ Moved(r, st, b).state = st
           /\ Moved(r, st, b).target = r.target
           /\ Moved(r, st, b).res = r.res
           /\ Moved(r, st, b).publish = r.publish
           /\ \A k \in Kinds : Flag(Moved(r, st, b), k) = Flag(r, k)
  BY Zenon DEF Request, Flag, Kinds, Moved

\* What both calls do to the requests, the actions and the histories.
LEMMA MoveRest ==
    ASSUME IInv, QInv, UNCHANGED <<gen, retired, actions, published, freed>>,
           NEW i \in LiveSlots, NEW st \in States, NEW b \in BOOLEAN,
           req' = [req EXCEPT ![i] = Moved(req[i], st, b)]
    PROVE  /\ req'[i] \in Request /\ req'[i] # None /\ req'[i].state = st
           /\ req'[i].target = req[i].target /\ req'[i].res = req[i].res
           /\ \A j \in Slots : j # i => req'[j] = req[j]
           /\ QuotaInv' /\ QueueInv' /\ HistoryInv'
<1> DEFINE e == Moved(req[i], st, b)
<1>1. req[i] \in Request /\ i \in Slots /\ req = [j \in Slots |-> req[j]] /\ req[i] # None
  BY DEF IInv, SlotInv, SlotTypes, LiveSlots
<1>2. /\ e \in Request /\ e.state = st /\ e.target = req[i].target /\ e.res = req[i].res
      /\ e.publish = req[i].publish /\ \A k \in Kinds : Flag(e, k) = Flag(req[i], k)
  BY <1>1, StateOnly, ZenonT(60)
<1> HIDE DEF e
<1>3. req' = [req EXCEPT ![i] = e]
  BY DEF e
<1>4. req'[i] = e /\ \A j \in Slots : j # i => req'[j] = req[j]
  BY <1>1, <1>3
<1>5. e # None
  BY <1>2, NoneAssumption
<1>6. \A j \in Slots : req'[j] = None <=> req[j] = None
  BY <1>1, <1>4, <1>5, Zenon
<1>7. \A j \in LiveSlots : /\ req'[j].target = req[j].target /\ req'[j].res = req[j].res
                           /\ req'[j].publish = req[j].publish
                           /\ \A k \in Kinds : Flag(req'[j], k) = Flag(req[j], k)
  BY <1>2, <1>4, Zenon DEF LiveSlots
<1>8. actions \in Seq(Action)
  <2>1. Offered \subseteq Action
    BY DEF Offered
  <2> QED
    BY <2>1, SeqWider DEF IInv
<1>9. QuotaInv' /\ QueueInv' /\ HistoryInv'
  BY <1>6, <1>7, <1>8, RestKept, Zenon
<1> QED
  BY <1>2, <1>4, <1>5, <1>9, Zenon

\* Putting an element at the end of a queue.
LEMMA AppendPlaces ==
    ASSUME NEW T, NEW s \in Seq(T), NEW x \in T
    PROVE  /\ Append(s, x) \in Seq(T)
           /\ \A n \in DOMAIN s : n \in DOMAIN Append(s, x) /\ Append(s, x)[n] = s[n]
           /\ \E n \in DOMAIN Append(s, x) : Append(s, x)[n] = x
           /\ \A n \in DOMAIN Append(s, x) : (n \in DOMAIN s /\ Append(s, x)[n] = s[n])
                                             \/ (n = Len(s) + 1 /\ Append(s, x)[n] = x)
<1>1. /\ Append(s, x) \in Seq(T) /\ Len(s) \in Nat
      /\ \A n \in DOMAIN s : n \in DOMAIN Append(s, x) /\ Append(s, x)[n] = s[n]
      /\ \A n \in DOMAIN Append(s, x) : (n \in DOMAIN s /\ Append(s, x)[n] = s[n])
                                        \/ (n = Len(s) + 1 /\ Append(s, x)[n] = x)
  OBVIOUS
<1>2. Len(s) + 1 \in DOMAIN Append(s, x) /\ Append(s, x)[Len(s) + 1] = x
  OBVIOUS
<1> QED
  BY <1>1, <1>2

\* requeue_active.
LEMMA RequeueQueues ==
    ASSUME IInv, QInv, NEW id \in Id, RequeueActive(id)
    PROVE  QInv'
<1> DEFINE i == id.slot
<1>1. /\ Valid(id) /\ req[i].state = "Active" /\ req[i].res = "KernelOwned"
      /\ UNCHANGED <<gen, retired, cursor, actions, published, freed>>
      /\ req' = [req EXCEPT ![i].state = "Pending"]
  BY Zenon DEF RequeueActive
<1>2. PICK t \in Table : /\ targets[t].target = req[i].target /\ targets[t].active = id
                         /\ targets' = [targets EXCEPT ![t].active = None, ![t].queued = Append(@, id)]
  BY Zenon DEF RequeueActive
<1>3. SlotInv /\ i \in LiveSlots /\ i \in Slots /\ req[i] \in Request /\ id = IdOf(i) /\ TargetInv
  <2>1. SlotInv /\ i \in LiveSlots /\ req[i] \in Request /\ TargetInv
    BY <1>1, LiveFacts, Zenon DEF IInv, QInv
  <2> QED
    BY <1>1, <2>1 DEF Valid, IdOf, Id
<1>4. req' = [req EXCEPT ![i] = Moved(req[i], "Pending", req[i].started)]
      /\ req[i].started \in BOOLEAN /\ "Pending" \in States
  <2>1. req[i].started \in BOOLEAN
    BY <1>3 DEF Request
  <2>2. Moved(req[i], "Pending", req[i].started) = [req[i] EXCEPT !.state = "Pending"]
    BY <1>3, Zenon DEF Request, Moved
  <2>3. req' = [req EXCEPT ![i] = [req[i] EXCEPT !.state = "Pending"]]
    BY <1>1
  <2> QED
    BY <2>1, <2>2, <2>3, Zenon DEF States
<1>5. /\ req'[i] \in Request /\ req'[i] # None /\ req'[i].state = "Pending"
      /\ req'[i].target = req[i].target /\ req'[i].res = req[i].res
      /\ \A j \in Slots : j # i => req'[j] = req[j]
      /\ QuotaInv' /\ QueueInv' /\ HistoryInv'
  BY <1>1, <1>3, <1>4, MoveRest, ZenonT(60)
<1>6. PICK q, e, s : q = targets[t] /\ e = targets'[t] /\ s = Append(q.queued, id)
  BY Zenon
<1>7. /\ q \in Entry /\ EntryOK(q) /\ q.target = req[i].target /\ q.active = id
      /\ e = [q EXCEPT !.active = None, !.queued = s]
      /\ \A u \in Table : u # t => targets'[u] = targets[u] /\ targets[u] \in Entry
      /\ targets' = [u \in Table |-> targets'[u]]
  <2>1. targets \in [Table -> Entry] /\ \A u \in Table : EntryOK(targets[u])
    BY <1>3, Zenon DEF TargetInv
  <2>2. targets' = [targets EXCEPT ![t] = [q EXCEPT !.active = None, !.queued = s]]
    BY <1>2, <1>6, <2>1, SMTT(30) DEF Entry
  <2> QED
    BY <1>2, <1>6, <2>1, <2>2, Zenon
<1>8. /\ q.queued \in Seq(Id) /\ e \in Entry /\ e.target = q.target /\ e.active = None /\ e.queued = s
  <2>1. q.queued \in Seq(Id) /\ s \in Seq(Id)
    BY <1>6, <1>7, AppendPlaces DEF Entry
  <2> QED
    BY <1>7, <2>1, Zenon DEF Entry
<1>9. /\ \A n \in DOMAIN q.queued : n \in DOMAIN s /\ s[n] = q.queued[n]
      /\ \E n \in DOMAIN s : s[n] = id
      /\ \A n \in DOMAIN s : (n \in DOMAIN q.queued /\ s[n] = q.queued[n]) \/ (n = Len(q.queued) + 1 /\ s[n] = id)
  <2>1. PICK o : o = q.queued
    OBVIOUS
  <2>2. o \in Seq(Id) /\ s = Append(o, id)
    BY <1>6, <1>8, <2>1, Zenon
  <2>3. /\ \A n \in DOMAIN o : n \in DOMAIN Append(o, id) /\ Append(o, id)[n] = o[n]
        /\ \E n \in DOMAIN Append(o, id) : Append(o, id)[n] = id
        /\ \A n \in DOMAIN Append(o, id) : (n \in DOMAIN o /\ Append(o, id)[n] = o[n])
                                            \/ (n = Len(o) + 1 /\ Append(o, id)[n] = id)
    BY <2>2, AppendPlaces, Zenon
  <2> QED
    BY <2>1, <2>2, <2>3, Zenon
<1>10. \A n \in DOMAIN q.queued : /\ q.queued[n] # id /\ q.queued[n].slot # i
                                  /\ Valid(q.queued[n]) /\ req[q.queued[n].slot].state = "Pending"
                                  /\ req[q.queued[n].slot].target = q.target
  <2>1. req[i].state # "Pending"
    BY <1>1
  <2> QED
    BY <1>7, <2>1, Zenon DEF EntryOK
<1>11. EntryOK(targets[t])'
  <2>1. ASSUME NEW m \in DOMAIN s, NEW n \in DOMAIN s, s[m] = s[n] PROVE m = n
    <3>1. /\ (m \in DOMAIN q.queued /\ s[m] = q.queued[m]) \/ (m = Len(q.queued) + 1 /\ s[m] = id)
          /\ (n \in DOMAIN q.queued /\ s[n] = q.queued[n]) \/ (n = Len(q.queued) + 1 /\ s[n] = id)
      BY <1>9, Zenon
    <3>2. \A k \in DOMAIN q.queued : q.queued[k] # id
      BY <1>10, Zenon
    <3>3. \A k, l \in DOMAIN q.queued : q.queued[k] = q.queued[l] => k = l
      BY <1>7, Zenon DEF EntryOK
    <3> QED
      BY <2>1, <3>1, <3>2, <3>3, Zenon
  <2>2. ASSUME NEW n \in DOMAIN s
        PROVE  Valid(s[n])' /\ req'[s[n].slot].state = "Pending" /\ req'[s[n].slot].target = e.target
    <3>1. CASE n \in DOMAIN q.queued /\ s[n] = q.queued[n]
      <4>1. /\ Valid(s[n]) /\ s[n].slot # i /\ req[s[n].slot].state = "Pending"
            /\ req[s[n].slot].target = q.target
        BY <1>10, <3>1, Zenon
      <4>2. s[n].slot \in Slots /\ req'[s[n].slot] = req[s[n].slot]
        BY <1>5, <4>1, Zenon DEF Valid
      <4> QED
        BY <1>1, <1>8, <4>1, <4>2, Zenon DEF Valid
    <3>2. CASE s[n] = id
      BY <1>1, <1>5, <1>7, <1>8, <3>2, Zenon DEF Valid
    <3> QED
      BY <1>9, <3>1, <3>2, Zenon
  <2> QED
    BY <1>6, <1>8, <2>1, <2>2, Zenon DEF EntryOK
<1>12. \A u \in Table : u # t => Shrinks(targets[u], targets'[u], {}, {})
  BY <1>7, KeptEntry, Zenon
<1>13. ~Busy(req'[i])
  BY <1>1, <1>5 DEF Busy, Draining
<1>14. cursor' \in Table
  BY <1>1, <1>3, Zenon DEF TargetInv
<1>15. TargetInv'
  <2>1. \A n \in DOMAIN targets[t].queued : targets[t].queued[n] # IdOf(i) =>
            \E m \in DOMAIN targets'[t].queued : targets'[t].queued[m] = targets[t].queued[n]
    BY <1>6, <1>8, <1>9, Zenon
  <2>2. \E n \in DOMAIN targets'[t].queued : targets'[t].queued[n] = IdOf(i)
    BY <1>3, <1>6, <1>8, <1>9, Zenon
  <2>3. targets[t].active = IdOf(i) /\ targets'[t] \in Entry /\ targets'[t].target = targets[t].target
    BY <1>3, <1>6, <1>7, <1>8, Zenon
  <2> QED
    BY <1>1, <1>2, <1>3, <1>5, <1>7, <1>11, <1>12, <1>13, <1>14, <2>1, <2>2, <2>3, MoveStep, Zenon
<1> QED
  BY <1>5, <1>15, Zenon DEF QInv

\* The rotation passes over entries that serve a request, and gives idle ones
\* back: the head of an entry that serves none could always start.
LEMMA PassedEntry ==
    ASSUME NEW q \in Entry, EntryOK(q), ~Dispatchable(q)
    PROVE  Shrinks(q, PassOver(q), {}, {})
<1>1. CASE q.active # None
  BY <1>1, KeptEntry DEF PassOver
<1>2. CASE q.active = None /\ q.queued = <<>>
  <2>1. PassOver(q) = [q EXCEPT !.target = None]
    BY <1>2 DEF PassOver, ReleaseIdle, Idle
  <2> QED
    BY <1>2, <2>1 DEF Shrinks, Entry, Idle
<1>3. CASE q.active = None /\ q.queued # <<>>
  <2>1. q.queued \in Seq(Id)
    BY DEF Entry
  <2>2. 1 \in DOMAIN q.queued /\ Head(q.queued) = q.queued[1]
    BY <1>3, <2>1, TailPlaces
  <2> QED
    BY <1>3, <2>2, Zenon DEF EntryOK, Dispatchable
<1> QED
  BY <1>1, <1>2, <1>3

\* next_dispatch.
LEMMA DispatchQueues ==
    ASSUME IInv, QInv, NextDispatch
    PROVE  QInv'
<1> DEFINE at(n) == (cursor + n) % Capacity
<1>0. SlotInv /\ TargetInv /\ cursor \in Table /\ Capacity \in Nat \ {0}
  BY SizeAssumption, Zenon DEF IInv, QInv, TargetInv
<1>1. PICK k \in Table :
         /\ Dispatchable(targets[at(k)])
         /\ \A n \in 0..(k - 1) : ~Dispatchable(targets[at(n)])
         /\ cursor' = (at(k) + 1) % Capacity
         /\ req' = [req EXCEPT ![Head(targets[at(k)].queued).slot].state = "Active",
                               ![Head(targets[at(k)].queued).slot].started = TRUE]
         /\ targets' = [t \in Table |->
                IF t = at(k)
                THEN [targets[t] EXCEPT !.active = Head(targets[at(k)].queued), !.queued = Tail(@)]
                ELSE IF \E n \in 0..(k - 1) : at(n) = t THEN PassOver(targets[t])
                ELSE targets[t]]
         /\ UNCHANGED <<gen, retired, actions, published, freed>>
  BY Zenon DEF NextDispatch
<1>2. PICK t : t = at(k)
  OBVIOUS
<1>3. t \in Table /\ cursor' \in Table
  <2>1. k \in Nat /\ cursor \in Nat
    BY <1>0 DEF Table
  <2>2. t \in 0..(Capacity - 1)
    BY <1>0, <1>2, <2>1
  <2>3. (t + 1) % Capacity \in 0..(Capacity - 1)
    BY <1>0, <2>2
  <2> QED
    BY <1>1, <1>2, <2>2, <2>3, Zenon DEF Table
<1>4. PICK q, e, id, i : q = targets[t] /\ e = targets'[t] /\ id = Head(q.queued) /\ i = id.slot
  OBVIOUS
<1>5. /\ q \in Entry /\ EntryOK(q) /\ q.active = None /\ q.queued # <<>> /\ Valid(id) /\ req[i].state = "Pending"
      /\ \A u \in Table : targets[u] \in Entry /\ EntryOK(targets[u])
  BY <1>0, <1>1, <1>2, <1>3, <1>4, Zenon DEF TargetInv, Dispatchable
<1>6. /\ e = [q EXCEPT !.active = id, !.queued = Tail(@)]
      /\ req' = [req EXCEPT ![i].state = "Active", ![i].started = TRUE]
      /\ targets' = [u \in Table |-> targets'[u]]
      /\ \A u \in Table : u # t => targets'[u] = targets[u] \/
                                   (targets'[u] = PassOver(targets[u]) /\ ~Dispatchable(targets[u]))
  <2>1. e = [q EXCEPT !.active = id, !.queued = Tail(@)]
    BY <1>1, <1>2, <1>3, <1>4, Zenon
  <2>2. ASSUME NEW u \in Table, u # t
        PROVE  targets'[u] = targets[u] \/ (targets'[u] = PassOver(targets[u]) /\ ~Dispatchable(targets[u]))
    BY <1>1, <1>2, <2>2, Zenon
  <2>3. req' = [req EXCEPT ![i].state = "Active", ![i].started = TRUE]
    BY <1>1, <1>2, <1>4, Zenon
  <2> QED
    BY <1>1, <2>1, <2>2, <2>3, Zenon
<1>7. /\ q.queued \in Seq(Id) /\ Tail(q.queued) \in Seq(Id) /\ 1 \in DOMAIN q.queued /\ id = q.queued[1]
      /\ \A n \in DOMAIN Tail(q.queued) : n + 1 \in DOMAIN q.queued /\ Tail(q.queued)[n] = q.queued[n + 1] /\ n + 1 # 1
      /\ \A n \in DOMAIN q.queued : n # 1 => n - 1 \in DOMAIN Tail(q.queued) /\ Tail(q.queued)[n - 1] = q.queued[n]
      /\ \A m, n \in DOMAIN Tail(q.queued) : m + 1 = n + 1 => m = n
  <2>1. PICK o : o = q.queued
    OBVIOUS
  <2>2. o \in Seq(Id) /\ o # <<>>
    BY <1>5, <2>1 DEF Entry
  <2>3. /\ Tail(o) \in Seq(Id) /\ 1 \in DOMAIN o /\ Head(o) = o[1]
        /\ \A n \in DOMAIN Tail(o) : n + 1 \in DOMAIN o /\ Tail(o)[n] = o[n + 1] /\ n + 1 # 1
        /\ \A n \in DOMAIN o : n # 1 => n - 1 \in DOMAIN Tail(o) /\ Tail(o)[n - 1] = o[n]
        /\ \A m, n \in DOMAIN Tail(o) : m + 1 = n + 1 => m = n
    BY <2>2, TailPlaces, ZenonT(60)
  <2> QED
    BY <1>4, <2>1, <2>2, <2>3, Zenon
<1>8. id \in Id /\ i \in LiveSlots /\ i \in Slots /\ req[i] \in Request /\ id = IdOf(i)
  <2>1. id \in Id
    BY <1>7
  <2>2. i \in LiveSlots /\ req[i] \in Request
    BY <1>0, <1>4, <1>5, LiveFacts, Zenon
  <2> QED
    BY <1>4, <1>5, <2>1, <2>2 DEF Valid, IdOf, Id
<1>9. req' = [req EXCEPT ![i] = Moved(req[i], "Active", TRUE)] /\ "Active" \in States
  BY <1>6, <1>8, Zenon DEF Moved, States, Request, SlotInv, SlotTypes
<1>10. /\ req'[i] \in Request /\ req'[i] # None /\ req'[i].state = "Active"
       /\ req'[i].target = req[i].target /\ req'[i].res = req[i].res
       /\ \A j \in Slots : j # i => req'[j] = req[j]
       /\ QuotaInv' /\ QueueInv' /\ HistoryInv'
  BY <1>1, <1>8, <1>9, MoveRest, Zenon
<1>11. PICK s : s = Tail(q.queued)
  BY Zenon
<1>12. e \in Entry /\ e.target = q.target /\ e.active = id /\ e.queued = s
  BY <1>5, <1>6, <1>7, <1>8, <1>11, ZenonT(60) DEF Entry
<1>13. q.target = req[i].target
  <2>1. \A n \in DOMAIN q.queued : req[q.queued[n].slot].target = q.target
    BY <1>5, Zenon DEF EntryOK
  <2> QED
    BY <1>4, <1>7, <2>1
<1>14. ASSUME NEW n \in DOMAIN s PROVE \E m \in DOMAIN q.queued : s[n] = q.queued[m] /\ m # 1
  <2>1. n + 1 \in DOMAIN q.queued /\ s[n] = q.queued[n + 1] /\ n + 1 # 1
    BY <1>7, <1>11, Zenon
  <2> QED
    BY <2>1
<1>15. EntryOK(targets[t])'
  <2>0. \A k1, l1 \in DOMAIN q.queued : q.queued[k1] = q.queued[l1] => k1 = l1
    BY <1>5, Zenon DEF EntryOK
  <2>1. ASSUME NEW m \in DOMAIN s, NEW n \in DOMAIN s, s[m] = s[n] PROVE m = n
    <3>1. m + 1 \in DOMAIN q.queued /\ n + 1 \in DOMAIN q.queued /\ q.queued[m + 1] = q.queued[n + 1]
      BY <1>7, <1>11, <2>1, Zenon
    <3>2. m + 1 = n + 1
      BY <2>0, <3>1, Zenon
    <3> QED
      BY <1>7, <1>11, <3>2, Zenon
  <2>2. ASSUME NEW n \in DOMAIN s
        PROVE  Valid(s[n])' /\ req'[s[n].slot].state = "Pending" /\ req'[s[n].slot].target = e.target
    <3>1. PICK m \in DOMAIN q.queued : s[n] = q.queued[m] /\ m # 1
      BY <1>14, Zenon
    <3>2. /\ Valid(s[n]) /\ req[s[n].slot].state = "Pending" /\ req[s[n].slot].target = q.target
          /\ s[n] # id
      <4>1. s[n] # id
        BY <1>7, <2>0, <3>1, Zenon
      <4> QED
        BY <1>5, <3>1, <4>1, Zenon DEF EntryOK
    <3>3. s[n] \in Id
      BY <1>7, <1>11
    <3>4. s[n].slot # i /\ s[n].slot \in Slots
      BY <1>8, <3>2, <3>3 DEF Valid, IdOf, Id
    <3>5. req'[s[n].slot] = req[s[n].slot]
      BY <1>10, <3>4, Zenon
    <3> QED
      BY <1>1, <1>12, <3>2, <3>5, Zenon DEF Valid
  <2>3. Valid(id)' /\ req'[id.slot].state # "Pending" /\ req'[id.slot].target = e.target
    <3>1. req'[id.slot] = req'[i] /\ req'[i].state # "Pending"
      BY <1>4, <1>10
    <3> QED
      BY <1>1, <1>5, <1>10, <1>12, <1>13, <3>1, Zenon DEF Valid
  <2> QED
    BY <1>4, <1>12, <2>1, <2>2, <2>3, Zenon DEF EntryOK
<1>16. \A u \in Table : u # t => Shrinks(targets[u], targets'[u], {}, {})
  BY <1>5, <1>6, PassedEntry, KeptEntry, Zenon
<1>17. TargetInv'
  <2>1. ASSUME NEW n \in DOMAIN targets[t].queued, targets[t].queued[n] # IdOf(i)
        PROVE  \E m \in DOMAIN targets'[t].queued : targets'[t].queued[m] = targets[t].queued[n]
    <3>1. n \in DOMAIN q.queued /\ n # 1
      BY <1>4, <1>7, <1>8, <2>1, Zenon
    <3>2. n - 1 \in DOMAIN s /\ s[n - 1] = q.queued[n]
      BY <1>7, <1>11, <3>1, Zenon
    <3> QED
      BY <1>4, <1>12, <3>2, Zenon
  <2>2. /\ targets[t].active = None /\ targets'[t] \in Entry /\ targets'[t].target = targets[t].target
        /\ targets[t].target = req[i].target /\ targets'[t].active = IdOf(i)
    BY <1>4, <1>5, <1>8, <1>12, <1>13, Zenon
  <2>3. req'[i].state # "Pending"
    BY <1>10
  <2> QED
    BY <1>0, <1>1, <1>3, <1>6, <1>8, <1>10, <1>15, <1>16, <2>1, <2>2, <2>3, MoveStep, Zenon
<1> QED
  BY <1>10, <1>17, Zenon DEF QInv

-----------------------------------------------------------------------------
(* Submission                                                              *)

\* Rank numbers the elements of a finite set of naturals from 1 on, in order.
LEMMA RankFacts ==
    ASSUME NEW S \in SUBSET Nat, IsFiniteSet(S)
    PROVE  /\ Cardinality(S) \in Nat
           /\ \A n \in S : Rank(n, S) \in 1..Cardinality(S)
           /\ \A m, n \in S : Rank(m, S) = Rank(n, S) => m = n
           /\ \A k \in 1..Cardinality(S) : \E n \in S : Rank(n, S) = k
<1> DEFINE upto(n) == {m \in S : m <= n}
           N == Cardinality(S)
           f == [n \in S |-> Rank(n, S)]
<1>0. N \in Nat
  BY FS_CardinalityType
<1>1. ASSUME NEW n \in S
      PROVE  /\ upto(n) \in SUBSET S /\ n \in upto(n)
             /\ IsFiniteSet(upto(n)) /\ Cardinality(upto(n)) \in Nat /\ Rank(n, S) = Cardinality(upto(n))
  <2>1. upto(n) \in SUBSET S /\ n \in upto(n)
    OBVIOUS
  <2>2. IsFiniteSet(upto(n))
    BY <2>1, FS_Subset
  <2> QED
    BY <2>1, <2>2, FS_CardinalityType DEF Rank
<1>2. ASSUME NEW n \in S PROVE Rank(n, S) \in 1..N
  <2>1. upto(n) # {} /\ Cardinality(upto(n)) <= N
    BY <1>1, FS_Subset
  <2>2. Cardinality(upto(n)) # 0
    BY <1>1, <2>1, FS_EmptySet
  <2> QED
    BY <1>0, <1>1, <2>1, <2>2
<1>3. ASSUME NEW m \in S, NEW n \in S, m < n PROVE Rank(m, S) # Rank(n, S)
  <2>0. m \in Nat /\ n \in Nat /\ \A x \in S : x \in Nat /\ (x <= m => x <= n)
    BY <1>3
  <2>1. upto(m) \in SUBSET upto(n) /\ n \notin upto(m)
    <3>1. \A x \in upto(m) : x \in upto(n)
      BY <2>0, Zenon
    <3>2. n \notin upto(m)
      BY <1>3, <2>0
    <3> QED
      BY <3>1, <3>2, Zenon
  <2>2. upto(n) # upto(m)
    BY <1>1, <2>1
  <2>3. IsFiniteSet(upto(n)) /\ Rank(n, S) = Cardinality(upto(n)) /\ Rank(m, S) = Cardinality(upto(m))
    BY <1>1, Zenon
  <2> HIDE DEF upto
  <2>4. Cardinality(upto(n)) = Cardinality(upto(m)) => upto(n) = upto(m)
    BY <2>1, <2>3, FS_Subset
  <2> QED
    BY <2>2, <2>3, <2>4, Zenon
<1>4. \A m, n \in S : Rank(m, S) = Rank(n, S) => m = n
  BY <1>3
<1>5. f \in Injection(S, 1..N)
  <2>1. f \in [S -> 1..N] /\ \A m, n \in S : f[m] = f[n] => m = n
    BY <1>2, <1>4
  <2> QED
    BY <2>1 DEF Injection, IsInjective
<1>6. IsFiniteSet(1..N) /\ Cardinality(1..N) = N
  BY <1>0, FS_Interval
<1>7. f \in Surjection(S, 1..N)
  BY <1>5, <1>6, FS_Injection
<1> QED
  BY <1>0, <1>2, <1>4, <1>7, ZenonT(60) DEF Surjection

\* Where the requests of batch b go: request k into the vacant slot sl[k].
Placed(b, sl) ==
    /\ sl \in [DOMAIN b -> VacantSlots]
    /\ \A j, k \in DOMAIN b : sl[j] = sl[k] => j = k
    /\ \A k \in DOMAIN b : req'[sl[k]] = NewRequest(b[k])
    /\ \A i \in Slots : i \in {sl[k] : k \in DOMAIN b} \/ req'[i] = req[i]

\* A batch gets distinct vacant slots.
LEMMA SubmitSlots ==
    ASSUME NEW b \in Batches, SubmitBatch(b)
    PROVE  \E sl : /\ Placed(b, sl)
                   /\ \A k \in DOMAIN b : sl[k] = CHOOSE i \in {i \in VacantSlots : Rank(i, VacantSlots) <= Len(b)} :
                                                      Rank(i, VacantSlots) = k
<1> DEFINE V == VacantSlots
           taken == {i \in V : Rank(i, V) <= Len(b)}
           sl == [k \in DOMAIN b |-> CHOOSE i \in taken : Rank(i, V) = k]
<1>1. PICK n \in 1..MaxBatch : b \in [1..n -> Submissions]
  BY DEF Batches
<1>2. n \in Nat /\ Len(b) = n /\ DOMAIN b = 1..n
  BY <1>1, SizeAssumption
<1>3. V \in SUBSET Nat /\ IsFiniteSet(V)
  <2>1. V \in SUBSET Slots
    BY DEF VacantSlots
  <2>2. IsFiniteSet(Slots) /\ Slots \subseteq Nat
    <3>1. Slots \subseteq Nat
      BY SizeAssumption DEF Slots
    <3> QED
      BY <3>1, SlotsFinite, Zenon
  <2> HIDE DEF V
  <2> QED
    BY <2>1, <2>2, FS_Subset, ZenonT(60)
<1>4. req' = [i \in Slots |-> IF i \in taken THEN NewRequest(b[Rank(i, V)]) ELSE req[i]]
  BY Zenon DEF SubmitBatch
<1>5. n <= Cardinality(V)
  BY <1>2, ZenonT(60) DEF SubmitBatch, Preflight
<1>6. V \subseteq Slots
  BY DEF VacantSlots
<1> HIDE DEF V
<1>7. /\ Cardinality(V) \in Nat
      /\ \A i \in V : Rank(i, V) \in 1..Cardinality(V)
      /\ \A i, j \in V : Rank(i, V) = Rank(j, V) => i = j
      /\ \A k \in 1..Cardinality(V) : \E i \in V : Rank(i, V) = k
  BY <1>3, RankFacts
<1>8. ASSUME NEW k \in DOMAIN b PROVE sl[k] \in taken /\ Rank(sl[k], V) = k
  <2>1. k \in 1..Cardinality(V) /\ k <= Len(b)
    BY <1>2, <1>5, <1>7
  <2>2. PICK i \in V : Rank(i, V) = k
    BY <1>7, <2>1
  <2>3. i \in taken
    BY <2>1, <2>2
  <2> QED
    BY <2>2, <2>3
<1>9. ASSUME NEW i \in taken PROVE \E k \in DOMAIN b : sl[k] = i
  <2>1. Rank(i, V) \in DOMAIN b /\ i \in V
    BY <1>2, <1>7
  <2>2. PICK k \in DOMAIN b : k = Rank(i, V)
    BY <2>1
  <2>3. sl[k] \in V /\ Rank(sl[k], V) = Rank(i, V)
    BY <1>8, <2>2
  <2> QED
    BY <1>7, <2>1, <2>2, <2>3, Zenon
<1>10. \A k \in DOMAIN b : sl[k] = CHOOSE i \in taken : Rank(i, V) = k
  BY Zenon
<1>11. sl \in [DOMAIN b -> V]
  BY <1>8
<1> HIDE DEF sl
<1>12. \A j, k \in DOMAIN b : sl[j] = sl[k] => j = k
  BY <1>8, Zenon
<1>13. \A k \in DOMAIN b : req'[sl[k]] = NewRequest(b[k])
  BY <1>4, <1>6, <1>8
<1>14. \A i \in Slots : i \in {sl[k] : k \in DOMAIN b} \/ req'[i] = req[i]
  <2>1. SUFFICES ASSUME NEW i \in Slots, i \notin {sl[k] : k \in DOMAIN b} PROVE req'[i] = req[i]
    OBVIOUS
  <2>2. i \notin taken
    BY <1>9, <2>1, Zenon
  <2> QED
    BY <1>4, <2>2
<1> QED
  BY <1>10, <1>11, <1>12, <1>13, <1>14, Zenon DEF V, Placed

\* The entries the batch goes to: nm[t] is the target of entry t afterwards.
Named(b, nm) ==
    /\ nm \in [Table -> Targets \cup {None}]
    /\ \A t \in Table : targets[t].target # None => nm[t] = targets[t].target
    /\ \A t, u \in Table : nm[t] # None /\ nm[t] = nm[u] => t = u
    /\ \A k \in DOMAIN b : \E t \in Table : nm[t] = b[k].target

\* What push_target's lookup finds, or the vacant entry it takes.
NameOf(b, t) ==
    IF t \in {u \in VacantTargets : Rank(u, VacantTargets) <= Cardinality(NewTargets(b))}
    THEN b[CHOOSE k \in NewTargets(b) : Rank(k, NewTargets(b)) = Rank(t, VacantTargets)].target
    ELSE targets[t].target

\* A batch names the table entries: known targets keep theirs, new ones get
\* vacant entries.
LEMMA SubmitNames ==
    ASSUME TargetInv, NEW b \in Batches, Cardinality(NewTargets(b)) <= Cardinality(VacantTargets)
    PROVE  \E nm : Named(b, nm) /\ \A t \in Table : nm[t] = NameOf(b, t)
<1> DEFINE V == VacantTargets
           N == NewTargets(b)
           named == {u \in V : Rank(u, V) <= Cardinality(N)}
           first(t) == CHOOSE k \in N : Rank(k, N) = Rank(t, V)
           nm == [t \in Table |-> NameOf(b, t)]
<1>1. PICK n \in 1..MaxBatch : b \in [1..n -> Submissions]
  BY DEF Batches
<1>2. n \in Nat /\ DOMAIN b = 1..n /\ \A k \in DOMAIN b : b[k].target \in Targets /\ k \in Nat
  BY <1>1, SizeAssumption, InputAssumption DEF Submission
<1>3. V \in SUBSET Nat /\ IsFiniteSet(V) /\ V \subseteq Table
  <2>1. V \in SUBSET Table
    BY DEF VacantTargets
  <2>2. IsFiniteSet(Table) /\ Table \subseteq Nat
    BY SizeAssumption, FS_Interval DEF Table
  <2> HIDE DEF V
  <2> QED
    BY <2>1, <2>2, FS_Subset, ZenonT(60)
<1>4. N \in SUBSET Nat /\ IsFiniteSet(N) /\ N \subseteq DOMAIN b
  <2>1. N \in SUBSET (1..n)
    BY <1>2 DEF NewTargets
  <2>2. IsFiniteSet(1..n) /\ 1..n \subseteq Nat
    BY <1>2, FS_Interval
  <2> HIDE DEF N
  <2> QED
    BY <1>2, <2>1, <2>2, FS_Subset, ZenonT(60)
<1>5. \A t \in V : targets[t].target = None
  BY Zenon DEF VacantTargets
<1>6. /\ \A t \in Table : t \in named => nm[t] = b[first(t)].target
      /\ \A t \in Table : t \notin named => nm[t] = targets[t].target
      /\ \A t \in Table : nm[t] = NameOf(b, t)
  BY Zenon DEF NameOf
<1>7. ASSUME NEW k \in N, NEW j \in N, b[k].target = b[j].target PROVE j = k
  <2>1. /\ \A l \in 1..(k - 1) : b[l].target # b[k].target
        /\ \A l \in 1..(j - 1) : b[l].target # b[j].target
    BY DEF NewTargets
  <2>2. j \in 1..n /\ k \in 1..n
    BY <1>2, <1>4
  <2>3. ~(j < k) /\ ~(k < j)
    BY <1>2, <1>7, <2>1, <2>2
  <2> QED
    BY <2>2, <2>3
<1>8. \A k \in N : ~InTable(b[k].target)
  BY Zenon DEF NewTargets
<1>9. ASSUME NEW k \in DOMAIN b, ~InTable(b[k].target) PROVE \E j \in N : b[j].target = b[k].target
  <2> DEFINE J == {j \in 1..n : b[j].target = b[k].target}
  <2>1. J \in SUBSET Nat /\ k \in J
    BY <1>2
  <2>2. PICK j \in J : \A l \in J : j <= l
    BY <2>1, NatMin, ZenonT(60)
  <2>3. j \in DOMAIN b /\ b[j].target = b[k].target /\ ~InTable(b[j].target)
    BY <1>2, <1>9, <2>2
  <2>4. ASSUME NEW l \in 1..(j - 1) PROVE b[l].target # b[j].target
    <3>1. l \in 1..n /\ j \in Nat /\ l \in Nat /\ l < j
      BY <1>2, <2>3
    <3>2. l \notin J
      BY <2>2, <3>1
    <3> QED
      BY <2>3, <3>1, <3>2
  <2>5. j \in N
    BY <2>3, <2>4, Zenon DEF NewTargets
  <2> QED
    BY <2>3, <2>5
<1> HIDE DEF V, N
<1>10. /\ Cardinality(V) \in Nat
       /\ \A t \in V : Rank(t, V) \in 1..Cardinality(V)
       /\ \A t, u \in V : Rank(t, V) = Rank(u, V) => t = u
       /\ \A k \in 1..Cardinality(V) : \E t \in V : Rank(t, V) = k
  BY <1>3, RankFacts
<1>11. /\ Cardinality(N) \in Nat
       /\ \A k \in N : Rank(k, N) \in 1..Cardinality(N)
       /\ \A k, j \in N : Rank(k, N) = Rank(j, N) => k = j
       /\ \A k \in 1..Cardinality(N) : \E j \in N : Rank(j, N) = k
  BY <1>4, RankFacts
<1>12. ASSUME NEW t \in named PROVE first(t) \in N /\ Rank(first(t), N) = Rank(t, V)
  <2>1. Rank(t, V) \in 1..Cardinality(N)
    BY <1>10, <1>11
  <2>2. \E j \in N : Rank(j, N) = Rank(t, V)
    BY <1>11, <2>1
  <2> QED
    BY <2>2, Zenon
<1>13. ASSUME NEW k \in N PROVE \E t \in named : first(t) = k
  <2>1. Rank(k, N) \in 1..Cardinality(V)
    BY <1>10, <1>11 DEF V, N
  <2>2. PICK t \in V : Rank(t, V) = Rank(k, N)
    BY <1>10, <2>1
  <2>3. t \in named
    BY <1>11, <2>2
  <2>4. first(t) = k
    BY <1>11, <1>12, <2>2, <2>3, Zenon
  <2> QED
    BY <2>3, <2>4, Zenon
<1>14. named \subseteq V
  OBVIOUS
<1> HIDE DEF named, first, nm
<1>15. \A t \in named : b[first(t)].target \in Targets /\ ~InTable(b[first(t)].target)
  BY <1>2, <1>4, <1>8, <1>12, Zenon
<1>16. nm \in [Table -> Targets \cup {None}]
  <2>1. \A t \in Table : targets[t].target \in Targets \cup {None}
    BY DEF TargetInv, Entry
  <2>2. \A t \in Table : nm[t] \in Targets \cup {None}
    BY <1>6, <1>15, <2>1, Zenon
  <2> QED
    BY <2>2, Zenon DEF nm
<1>17. ASSUME NEW t \in Table, targets[t].target # None PROVE nm[t] = targets[t].target
  BY <1>5, <1>6, <1>14, <1>17, Zenon
<1>18. ASSUME NEW t \in named, NEW u \in Table, u \notin named PROVE nm[t] # nm[u]
  <2>1. nm[t] = b[first(t)].target /\ ~InTable(nm[t]) /\ nm[u] = targets[u].target
    BY <1>3, <1>6, <1>14, <1>15, <1>18, Zenon
  <2> QED
    BY <2>1, Zenon DEF InTable
<1>19. ASSUME NEW t \in named, NEW u \in named, nm[t] = nm[u] PROVE t = u
  <2>1. b[first(t)].target = b[first(u)].target
    BY <1>3, <1>6, <1>14, <1>19, Zenon
  <2>2. first(t) = first(u)
    BY <1>7, <1>12, <2>1, Zenon
  <2>3. Rank(t, V) = Rank(u, V)
    BY <1>12, <2>2, Zenon
  <2> QED
    BY <1>10, <1>14, <2>3, Zenon
<1>20. ASSUME NEW t \in Table, NEW u \in Table, nm[t] # None, nm[t] = nm[u] PROVE t = u
  <2>1. CASE t \notin named /\ u \notin named
    BY <1>6, <1>20, <2>1, ZenonT(60) DEF TargetInv, OneEntry
  <2>2. CASE t \in named \/ u \in named
    BY <1>18, <1>19, <1>20, <2>2, Zenon
  <2> QED
    BY <2>1, <2>2, Zenon
<1>21. ASSUME NEW k \in DOMAIN b PROVE \E t \in Table : nm[t] = b[k].target
  <2>1. CASE InTable(b[k].target)
    <3>1. PICK t \in Table : targets[t].target = b[k].target
      BY <2>1, Zenon DEF InTable
    <3>2. targets[t].target # None
      BY <1>2, <3>1, NoneAssumption
    <3> QED
      BY <1>17, <3>1, <3>2, Zenon
  <2>2. CASE ~InTable(b[k].target)
    <3>1. PICK j \in N : b[j].target = b[k].target
      BY <1>9, <2>2, Zenon
    <3>2. PICK t \in named : first(t) = j
      BY <1>13, Zenon
    <3> QED
      BY <1>3, <1>6, <1>14, <3>1, <3>2, ZenonT(60)
  <2> QED
    BY <2>1, <2>2, Zenon
<1> QED
  BY <1>6, <1>16, <1>17, <1>20, <1>21, Zenon DEF Named

\* The requests that join entry t, in the order of the batch.
Joins(b, sl, nm, t, ids) ==
    /\ ids \in Seq(Id)
    /\ \A m, n \in DOMAIN ids : ids[m] = ids[n] => m = n
    /\ \A n \in DOMAIN ids : \E k \in DOMAIN b : ids[n] = IdOf(sl[k]) /\ b[k].target = nm[t]
    /\ \A k \in DOMAIN b : b[k].target = nm[t] => \E n \in DOMAIN ids : ids[n] = IdOf(sl[k])

PlacesOf(b, x) == Without([k \in DOMAIN b |-> k], {k \in DOMAIN b : b[k].target # x})
JoinIds(b, sl, x) == [n \in DOMAIN PlacesOf(b, x) |-> IdOf(sl[PlacesOf(b, x)[n]])]

\* The ids of a batch join the FIFO of their target in the order of the batch.
LEMMA SubmitJoins ==
    ASSUME SlotInv, NEW b \in Batches, NEW sl, Placed(b, sl), NEW nm, NEW t \in Table
    PROVE  Joins(b, sl, nm, t, JoinIds(b, sl, nm[t]))
<1> DEFINE all == [k \in DOMAIN b |-> k]
           X == {k \in DOMAIN b : b[k].target # nm[t]}
           w == Without(all, X)
           out == [n \in DOMAIN w |-> IdOf(sl[w[n]])]
<1>1. PICK n \in 1..MaxBatch : b \in [1..n -> Submissions]
  BY DEF Batches
<1>2. n \in Nat /\ DOMAIN b = 1..n
  BY <1>1, SizeAssumption
<1>3. all \in Seq(DOMAIN b) /\ DOMAIN all = DOMAIN b /\ \A k \in DOMAIN b : all[k] = k
  BY <1>2
<1>4. \A k, j \in DOMAIN all : all[k] = all[j] => k = j
  BY <1>3, Zenon
<1>5. \A k \in DOMAIN b : k \in X <=> b[k].target # nm[t]
  OBVIOUS
<1> HIDE DEF all, X
<1>6. /\ w \in Seq(DOMAIN b)
      /\ \A m \in DOMAIN w : w[m] \notin X /\ \E k \in DOMAIN all : all[k] = w[m]
      /\ \A k \in DOMAIN all : all[k] \notin X => \E m \in DOMAIN w : w[m] = all[k]
      /\ \A k, m \in DOMAIN w : w[k] = w[m] => k = m
  <2>1. PICK T : T = DOMAIN b
    OBVIOUS
  <2> QED
    BY <1>3, <1>4, <2>1, WithoutElements, Zenon
<1> HIDE DEF w
<1>7. ASSUME NEW m \in DOMAIN w PROVE w[m] \in DOMAIN b /\ b[w[m]].target = nm[t]
  <2>1. w[m] \in DOMAIN b /\ w[m] \notin X
    BY <1>6
  <2> QED
    BY <1>5, <2>1, Zenon
<1>8. ASSUME NEW k \in DOMAIN b, b[k].target = nm[t] PROVE \E m \in DOMAIN w : w[m] = k
  <2>1. k \in DOMAIN all /\ all[k] = k /\ k \notin X
    BY <1>3, <1>5, <1>8, Zenon
  <2> QED
    BY <1>6, <2>1, Zenon
<1>9. \A k \in DOMAIN b : sl[k] \in Slots /\ IdOf(sl[k]) \in Id /\ IdOf(sl[k]).slot = sl[k]
  <2>1. \A k \in DOMAIN b : sl[k] \in Slots
    BY DEF Placed, VacantSlots
  <2> QED
    BY <2>1, IdFacts, Zenon
<1>10. \A m \in DOMAIN w : out[m] = IdOf(sl[w[m]]) /\ out[m] \in Id
  BY <1>7, <1>9, Zenon
<1>11. DOMAIN out = DOMAIN w /\ out \in Seq(Id)
  <2>1. Len(w) \in Nat /\ DOMAIN w = 1..Len(w)
    BY <1>6
  <2>2. DOMAIN out = 1..Len(w) /\ out = [m \in 1..Len(w) |-> out[m]]
    BY <2>1
  <2>3. \A m \in 1..Len(w) : out[m] \in Id
    BY <1>10, <2>1, Zenon
  <2> HIDE DEF out
  <2> QED
    BY <2>1, <2>2, <2>3
<1> HIDE DEF out
<1>12. ASSUME NEW k \in DOMAIN out, NEW m \in DOMAIN out, out[k] = out[m] PROVE k = m
  <2>0. k \in DOMAIN w /\ m \in DOMAIN w
    BY <1>11, Zenon
  <2>1. sl[w[k]] = sl[w[m]]
    <3>1. IdOf(sl[w[k]]) = IdOf(sl[w[m]])
      BY <1>10, <1>12, <2>0, Zenon
    <3> QED
      BY <1>7, <1>9, <2>0, <3>1, Zenon
  <2>2. w[k] = w[m]
    BY <1>7, <1>11, <2>1, Zenon DEF Placed
  <2> QED
    BY <1>6, <1>11, <2>2, Zenon
<1>13. \A m \in DOMAIN out : \E k \in DOMAIN b : out[m] = IdOf(sl[k]) /\ b[k].target = nm[t]
  <2>1. SUFFICES ASSUME NEW m \in DOMAIN w
                 PROVE  \E k \in DOMAIN b : out[m] = IdOf(sl[k]) /\ b[k].target = nm[t]
    BY <1>11, Zenon
  <2> QED
    BY <1>7, <1>10, Zenon
<1>14. ASSUME NEW k \in DOMAIN b, b[k].target = nm[t] PROVE \E m \in DOMAIN out : out[m] = IdOf(sl[k])
  <2>1. PICK m \in DOMAIN w : w[m] = k
    BY <1>8, <1>14, Zenon
  <2> QED
    BY <1>10, <1>11, <2>1, Zenon
<1>15. Joins(b, sl, nm, t, out)
  BY <1>11, <1>12, <1>13, <1>14, Zenon DEF Joins
<1>16. out = JoinIds(b, sl, nm[t])
  BY Zenon DEF out, w, all, X, JoinIds, PlacesOf
<1> QED
  BY <1>15, <1>16, Zenon

\* What submit_batch does to the slots and to the target table.
Submits(b, sl, nm) ==
    /\ Placed(b, sl)
    /\ Named(b, nm)
    /\ targets' = [t \in Table |-> targets'[t]]
    /\ \A t \in Table : \E ids :
          /\ Joins(b, sl, nm, t, ids)
          /\ targets'[t] = [targets[t] EXCEPT !.target = nm[t], !.queued = @ \o ids]

\* What submit_batch does, with its choices named.
LEMMA SubmitFacts ==
    ASSUME SlotInv, TargetInv, NEW b \in Batches, SubmitBatch(b)
    PROVE  \E sl, nm : Submits(b, sl, nm)
<1> DEFINE taken == {i \in VacantSlots : Rank(i, VacantSlots) <= Len(b)}
           slot(k) == CHOOSE i \in taken : Rank(i, VacantSlots) = k
           ks(t) == Without([k \in DOMAIN b |-> k], {k \in DOMAIN b : b[k].target # NameOf(b, t)})
           ids(t) == [n \in DOMAIN ks(t) |-> IdOf(slot(ks(t)[n]))]
<1>1. targets' = [t \in Table |-> [targets[t] EXCEPT !.target = NameOf(b, t), !.queued = @ \o ids(t)]]
  BY Zenon DEF SubmitBatch, NameOf
<1>2. Cardinality(NewTargets(b)) <= Cardinality(VacantTargets)
  BY Zenon DEF SubmitBatch, Preflight
<1>3. PICK sl : Placed(b, sl) /\ \A k \in DOMAIN b : sl[k] = slot(k)
  BY SubmitSlots, Zenon
<1>4. PICK nm : Named(b, nm) /\ \A t \in Table : nm[t] = NameOf(b, t)
  BY <1>2, SubmitNames, Zenon
<1>5. ASSUME NEW t \in Table PROVE Joins(b, sl, nm, t, ids(t))
  <2>1. ks(t) = PlacesOf(b, nm[t])
    BY <1>4, Zenon DEF PlacesOf
  <2>2. ks(t) \in Seq(DOMAIN b)
    <3>1. PICK T : T = DOMAIN b
      OBVIOUS
    <3>2. PICK n \in 1..MaxBatch : b \in [1..n -> Submissions]
      BY DEF Batches
    <3>3. [k \in DOMAIN b |-> k] \in Seq(T)
      BY <3>1, <3>2, SizeAssumption
    <3> QED
      BY <3>1, <3>3, WithoutElements, Zenon
  <2> HIDE DEF ks, slot
  <2>3. \A n \in DOMAIN ks(t) : ks(t)[n] \in DOMAIN b
    BY <2>2
  <2>4. ids(t) = JoinIds(b, sl, nm[t])
    BY <1>3, <2>1, <2>3, ZenonT(60) DEF JoinIds
  <2> HIDE DEF ids
  <2>5. Joins(b, sl, nm, t, JoinIds(b, sl, nm[t]))
    BY <1>3, SubmitJoins
  <2> QED
    BY <2>4, <2>5, Zenon
<1> HIDE DEF ids
<1>6. ASSUME NEW t \in Table PROVE targets'[t] = [targets[t] EXCEPT !.target = nm[t], !.queued = @ \o ids(t)]
  BY <1>1, <1>4, Zenon
<1>7. targets' = [t \in Table |-> targets'[t]]
  BY <1>1, Zenon
<1>8. \A t \in Table : \E s :
          /\ Joins(b, sl, nm, t, s)
          /\ targets'[t] = [targets[t] EXCEPT !.target = nm[t], !.queued = @ \o s]
  BY <1>5, <1>6, Zenon
<1>9. Submits(b, sl, nm)
  BY <1>3, <1>4, <1>7, <1>8, Zenon DEF Submits
<1> QED
  BY <1>9, Zenon

\* Elements of a sequence followed by another: those of both, each once when the
\* two share none.
Once(s) == \A m, n \in DOMAIN s : s[m] = s[n] => m = n
Disjoint(s, v) == \A m \in DOMAIN s, n \in DOMAIN v : s[m] # v[n]
Merges(u, s, v) ==
    /\ \A n \in DOMAIN s : \E m \in DOMAIN u : u[m] = s[n]
    /\ \A n \in DOMAIN v : \E m \in DOMAIN u : u[m] = v[n]
    /\ \A m \in DOMAIN u : \/ \E n \in DOMAIN s : u[m] = s[n]
                           \/ \E n \in DOMAIN v : u[m] = v[n]

\* Two sequences without repetitions or common members, one after the other.
LEMMA CatMembers ==
    ASSUME NEW T, NEW s \in Seq(T), NEW v \in Seq(T), NEW u, u = s \o v,
           Once(s), Once(v), Disjoint(s, v)
    PROVE  u \in Seq(T) /\ Once(u) /\ Merges(u, s, v)
<1>1. /\ u \in Seq(T) /\ Len(s) \in Nat /\ Len(v) \in Nat
      /\ DOMAIN s = 1..Len(s) /\ DOMAIN v = 1..Len(v) /\ DOMAIN u = 1..(Len(s) + Len(v))
      /\ \A n \in DOMAIN s : u[n] = s[n]
      /\ \A n \in DOMAIN v : u[Len(s) + n] = v[n]
  OBVIOUS
<1>2. ASSUME NEW m \in DOMAIN u
      PROVE  \/ m \in DOMAIN s /\ u[m] = s[m]
             \/ m - Len(s) \in DOMAIN v /\ u[m] = v[m - Len(s)]
  <2>1. m \in Nat /\ (m \in DOMAIN s \/ m - Len(s) \in DOMAIN v) /\ m = Len(s) + (m - Len(s))
    BY <1>1
  <2> QED
    BY <1>1, <2>1
<1>3. ASSUME NEW m \in DOMAIN u, NEW n \in DOMAIN u, u[m] = u[n] PROVE m = n
  <2>0. m \in Nat /\ n \in Nat /\ Len(s) \in Nat
    BY <1>1
  <2>1. CASE m \in DOMAIN s /\ u[m] = s[m]
    <3>1. n \in DOMAIN s /\ u[n] = s[n]
      BY <1>2, <1>3, <2>1, ZenonT(60) DEF Disjoint
    <3> QED
      BY <1>3, <2>1, <3>1, Zenon DEF Once
  <2>2. CASE m - Len(s) \in DOMAIN v /\ u[m] = v[m - Len(s)]
    <3>1. n - Len(s) \in DOMAIN v /\ u[n] = v[n - Len(s)]
      BY <1>2, <1>3, <2>2, ZenonT(60) DEF Disjoint
    <3>2. m - Len(s) = n - Len(s)
      BY <1>3, <2>2, <3>1, ZenonT(60) DEF Once
    <3> QED
      BY <2>0, <3>2
  <2> QED
    BY <1>2, <2>1, <2>2
<1>4. \A n \in DOMAIN s : n \in DOMAIN u /\ u[n] = s[n]
  BY <1>1
<1>5. \A n \in DOMAIN v : Len(s) + n \in DOMAIN u /\ u[Len(s) + n] = v[n]
  BY <1>1
<1>6. Once(u)
  BY <1>3, Zenon DEF Once
<1>7. Merges(u, s, v)
  BY <1>2, <1>4, <1>5, Zenon DEF Merges
<1> QED
  BY <1>1, <1>6, <1>7, Zenon

\* The slots after a submission: the live ones are as they were, the vacant
\* ones that were taken hold the new requests.
Filled(b, sl) ==
    /\ \A i \in LiveSlots : i \in LiveSlots' /\ req'[i] = req[i]
    /\ \A i \in LiveSlots' : i \in LiveSlots \/ \E k \in DOMAIN b : i = sl[k]
    /\ \A k \in DOMAIN b : /\ sl[k] \in Slots /\ req[sl[k]] = None /\ ~retired[sl[k]]
                           /\ b[k] \in Submission /\ b[k].target \in Targets
                           /\ req'[sl[k]] = NewRequest(b[k])
                           /\ sl[k] \in LiveSlots'
    /\ \A i \in Slots : IdOf(i)' = IdOf(i)
    /\ \A id : Valid(id) => StillValid(id) /\ req'[id.slot] = req[id.slot] /\ req[id.slot] # None
    /\ \A id : \A k \in DOMAIN b : id = IdOf(sl[k]) =>
          /\ id.slot = sl[k] /\ ~retired'[id.slot] /\ gen'[id.slot] = id.gen /\ req'[id.slot] # None

\* What a batch does to the slots.
LEMMA SubmitLive ==
    ASSUME SlotInv, NEW b \in Batches, NEW sl, Placed(b, sl), UNCHANGED <<gen, retired>>
    PROVE  Filled(b, sl)
<1>1. PICK n \in 1..MaxBatch : b \in [1..n -> Submissions]
  BY DEF Batches
<1>2. \A k \in DOMAIN b : b[k] \in Submission /\ b[k].target \in Targets
  BY <1>1, InputAssumption DEF Submission
<1>3. \A k \in DOMAIN b : sl[k] \in Slots /\ req[sl[k]] = None /\ ~retired[sl[k]] /\ req'[sl[k]] = NewRequest(b[k])
  BY DEF Placed, VacantSlots
<1>4. \A s \in Submission : NewRequest(s) # None
  <2>1. \A s \in Submission : NewRequest(s) \in Request
    BY DEF Submission, NewRequest, Request, States, ResourceStates, Flags, TerminalStates
  <2> QED
    BY <2>1, NoneAssumption, ZenonT(60)
<1>5. \A i \in Slots : (\E k \in DOMAIN b : i = sl[k]) \/ req'[i] = req[i]
  BY DEF Placed
<1>6. \A i \in LiveSlots : i \in Slots /\ req'[i] = req[i] /\ i \in LiveSlots'
  BY <1>3, <1>5 DEF LiveSlots
<1>7. \A i \in LiveSlots' : i \in LiveSlots \/ \E k \in DOMAIN b : i = sl[k]
  BY <1>5, SMTT(30) DEF LiveSlots
<1>8. \A k \in DOMAIN b : sl[k] \in LiveSlots'
  BY <1>2, <1>3, <1>4 DEF LiveSlots
<1>9. \A i \in Slots : IdOf(i)' = IdOf(i)
  BY DEF IdOf
<1>10. \A id : Valid(id) => StillValid(id) /\ req'[id.slot] = req[id.slot] /\ req[id.slot] # None
  <2>1. \A id : Valid(id) => id.slot \in LiveSlots
    BY Zenon DEF Valid, LiveSlots
  <2> QED
    BY <1>6, <2>1 DEF Valid, StillValid
<1>11. ASSUME NEW k \in DOMAIN b, NEW id, id = IdOf(sl[k])
       PROVE  id.slot = sl[k] /\ ~retired'[id.slot] /\ gen'[id.slot] = id.gen /\ req'[id.slot] # None
  <2>1. id.slot = sl[k] /\ id.gen = gen[sl[k]]
    BY <1>3, <1>11, IdFacts, Zenon
  <2> QED
    BY <1>2, <1>3, <1>4, <2>1, Zenon
<1> QED
  BY <1>2, <1>3, <1>6, <1>7, <1>8, <1>9, <1>10, <1>11, ZenonT(60) DEF Filled

\* Entry t after a submission: it has the name planned for it, and its FIFO holds
\* what it held and the requests of the batch for its target.
Joined(b, sl, nm, t) ==
    /\ targets'[t] \in Entry
    /\ targets'[t].target = nm[t]
    /\ targets'[t].active = targets[t].active
    /\ EntryOK(targets[t])'
    /\ \A n \in DOMAIN targets[t].queued :
          \E m \in DOMAIN targets'[t].queued : targets'[t].queued[m] = targets[t].queued[n]
    /\ \A k \in DOMAIN b : b[k].target = nm[t] =>
          \E m \in DOMAIN targets'[t].queued : targets'[t].queued[m] = IdOf(sl[k])

\* Entry t after the batch joined it.
LEMMA SubmitEntry ==
    ASSUME SlotInv, TargetInv, NEW b \in Batches, NEW sl, NEW nm, Submits(b, sl, nm), UNCHANGED <<gen, retired>>,
           NEW t \in Table
    PROVE  Joined(b, sl, nm, t)
<1>1. Placed(b, sl) /\ Named(b, nm) /\ Filled(b, sl)
  <2>1. Placed(b, sl) /\ Named(b, nm)
    BY Zenon DEF Submits
  <2> QED
    BY <2>1, SubmitLive
<1>2. PICK ids : /\ Joins(b, sl, nm, t, ids)
                 /\ targets'[t] = [targets[t] EXCEPT !.target = nm[t], !.queued = @ \o ids]
  BY Zenon DEF Submits
<1>3. PICK q : q = targets[t]
  OBVIOUS
<1>4. PICK o : o = q.queued
  OBVIOUS
<1>5. PICK e : e = targets'[t]
  OBVIOUS
<1>6. q \in Entry /\ EntryOK(q) /\ o \in Seq(Id) /\ ids \in Seq(Id)
  <2>1. q \in Entry /\ EntryOK(q)
    BY <1>3, Zenon DEF TargetInv
  <2> QED
    BY <1>2, <1>4, <2>1 DEF Entry, Joins
<1>7. nm[t] \in Targets \cup {None} /\ (q.target # None => nm[t] = q.target)
  BY <1>1, <1>3, Zenon DEF Named
<1>8. e = [target |-> nm[t], active |-> q.active, queued |-> o \o ids]
  BY <1>2, <1>3, <1>4, <1>5, <1>6, ZenonT(60) DEF Entry
<1>9. PICK u : u = o \o ids
  BY ZenonT(60)
<1>10. e.target = nm[t] /\ e.active = q.active /\ e.queued = u
  BY <1>8, <1>9
<1>11. \A id : Valid(id) => StillValid(id) /\ req'[id.slot] = req[id.slot] /\ req[id.slot] # None
  BY <1>1, Zenon DEF Filled
<1>12. \A id : Valid(id) => req[id.slot].target # None
  <2>1. \A id : Valid(id) => req[id.slot] \in Request
    BY LiveFacts, Zenon
  <2> QED
    BY <2>1, NoneAssumption DEF Request
<1>13. ASSUME NEW n \in DOMAIN o
       PROVE  /\ Valid(o[n]) /\ req[o[n].slot].state = "Pending"
              /\ req[o[n].slot].target = nm[t]
  BY <1>4, <1>6, <1>7, <1>12, Zenon DEF EntryOK
<1>14. ASSUME NEW n \in DOMAIN ids
       PROVE  /\ ids[n].slot \in Slots /\ ~retired'[ids[n].slot] /\ gen'[ids[n].slot] = ids[n].gen
              /\ req'[ids[n].slot] # None /\ req[ids[n].slot] = None
              /\ req'[ids[n].slot].state = "Pending" /\ req'[ids[n].slot].target = nm[t]
  <2>1. PICK k \in DOMAIN b : ids[n] = IdOf(sl[k]) /\ b[k].target = nm[t]
    BY <1>2, Zenon DEF Joins
  <2>2. /\ sl[k] \in Slots /\ req[sl[k]] = None /\ req'[sl[k]] = NewRequest(b[k])
        /\ ids[n].slot = sl[k] /\ ~retired'[ids[n].slot] /\ gen'[ids[n].slot] = ids[n].gen
        /\ req'[ids[n].slot] # None
    <3>1. sl[k] \in Slots /\ req[sl[k]] = None /\ req'[sl[k]] = NewRequest(b[k])
      BY <1>1, Zenon DEF Filled
    <3>2. PICK id : id = ids[n]
      OBVIOUS
    <3>3. id.slot = sl[k] /\ ~retired'[id.slot] /\ gen'[id.slot] = id.gen /\ req'[id.slot] # None
      BY <1>1, <2>1, <3>2, ZenonT(60) DEF Filled
    <3> QED
      BY <3>1, <3>2, <3>3, Zenon
  <2>3. NewRequest(b[k]).state = "Pending" /\ NewRequest(b[k]).target = b[k].target
    BY DEF NewRequest
  <2> QED
    BY <2>1, <2>2, <2>3, Zenon
<1>15. Disjoint(o, ids)
  BY <1>11, <1>13, <1>14, Zenon DEF Disjoint
<1>16. Once(o)
  BY <1>4, <1>6, Zenon DEF EntryOK, Once
<1>17. Once(ids)
  BY <1>2, Zenon DEF Joins, Once
<1>18. /\ u \in Seq(Id)
       /\ \A m, n \in DOMAIN u : u[m] = u[n] => m = n
       /\ \A n \in DOMAIN o : \E m \in DOMAIN u : u[m] = o[n]
       /\ \A n \in DOMAIN ids : \E m \in DOMAIN u : u[m] = ids[n]
       /\ \A m \in DOMAIN u : \/ \E n \in DOMAIN o : u[m] = o[n]
                              \/ \E n \in DOMAIN ids : u[m] = ids[n]
  <2>1. u \in Seq(Id) /\ Once(u) /\ Merges(u, o, ids)
    BY <1>6, <1>9, <1>15, <1>16, <1>17, CatMembers, ZenonT(60)
  <2> QED
    BY <2>1, Zenon DEF Once, Merges
<1>19. ASSUME NEW m \in DOMAIN u
       PROVE  Valid(u[m])' /\ req'[u[m].slot].state = "Pending" /\ req'[u[m].slot].target = nm[t]
  <2>1. CASE \E n \in DOMAIN o : u[m] = o[n]
    <3>1. PICK n \in DOMAIN o : u[m] = o[n]
      BY <2>1
    <3>2. Valid(u[m]) /\ req[u[m].slot].state = "Pending" /\ req[u[m].slot].target = nm[t]
      BY <1>13, <3>1, Zenon
    <3>3. StillValid(u[m]) /\ req'[u[m].slot] = req[u[m].slot]
      BY <1>11, <3>2, Zenon
    <3> QED
      BY <3>2, <3>3, Zenon DEF StillValid, Valid
  <2>2. CASE \E n \in DOMAIN ids : u[m] = ids[n]
    BY <1>14, <2>2, Zenon DEF Valid
  <2> QED
    BY <1>18, <2>1, <2>2, Zenon
<1>20. ASSUME q.active # None
       PROVE  /\ Valid(q.active)' /\ req'[q.active.slot].state # "Pending"
              /\ req'[q.active.slot].target = nm[t]
  BY <1>6, <1>7, <1>11, <1>12, <1>20, ZenonT(60) DEF EntryOK, StillValid, Valid
<1>21. EntryOK(e)'
  BY <1>10, <1>18, <1>19, <1>20, Zenon DEF EntryOK
<1>22. e \in Entry
  BY <1>6, <1>7, <1>8, <1>9, <1>18 DEF Entry
<1>23. \A k \in DOMAIN b : b[k].target = nm[t] => \E m \in DOMAIN u : u[m] = IdOf(sl[k])
  <2>1. SUFFICES ASSUME NEW k \in DOMAIN b, b[k].target = nm[t] PROVE \E m \in DOMAIN u : u[m] = IdOf(sl[k])
    OBVIOUS
  <2>2. PICK n \in DOMAIN ids : ids[n] = IdOf(sl[k])
    BY <1>2, <2>1, Zenon DEF Joins
  <2> QED
    BY <1>18, <2>2, ZenonT(60)
<1>24. EntryOK(targets[t])'
  BY <1>5, <1>21, Zenon
<1>25. \A n \in DOMAIN targets[t].queued :
          \E m \in DOMAIN targets'[t].queued : targets'[t].queued[m] = targets[t].queued[n]
  BY <1>3, <1>4, <1>5, <1>10, <1>18, ZenonT(60)
<1>26. \A k \in DOMAIN b : b[k].target = nm[t] =>
          \E m \in DOMAIN targets'[t].queued : targets'[t].queued[m] = IdOf(sl[k])
  BY <1>5, <1>10, <1>23, Zenon
<1> QED
  BY <1>3, <1>5, <1>10, <1>22, <1>24, <1>25, <1>26, ZenonT(60) DEF Joined

\* A batch keeps the table exact.
LEMMA SubmitTargets ==
    ASSUME SlotInv, TargetInv, NEW b \in Batches, NEW sl, NEW nm, Submits(b, sl, nm), UNCHANGED <<gen, retired, cursor>>
    PROVE  TargetInv'
<1>0. UNCHANGED <<gen, retired>>
  OBVIOUS
<1>1. Placed(b, sl) /\ Named(b, nm) /\ Filled(b, sl)
  <2>1. Placed(b, sl) /\ Named(b, nm)
    BY ZenonT(60) DEF Submits
  <2> QED
    BY <2>1, SubmitLive
<1>a. \A t \in Table : Joined(b, sl, nm, t)
  BY <1>0, SubmitEntry
<1>2. \A t \in Table : /\ targets'[t] \in Entry /\ targets'[t].target = nm[t]
                       /\ targets'[t].active = targets[t].active /\ EntryOK(targets[t])'
  BY <1>a, Zenon DEF Joined
<1>3. targets' \in [Table -> Entry]
  BY <1>2, Zenon DEF Submits
<1>4. OneEntry' /\ cursor' \in Table
  <2>1. ASSUME NEW t \in Table, NEW u \in Table, targets'[t].target # None, targets'[t].target = targets'[u].target
        PROVE  t = u
    <3>1. nm[t] # None /\ nm[t] = nm[u]
      BY <1>2, <2>1, Zenon
    <3> QED
      BY <1>1, <3>1, Zenon DEF Named
  <2> QED
    BY <2>1, Zenon DEF OneEntry, TargetInv
<1>5. /\ \A i \in LiveSlots : i \in Slots /\ IdOf(i)' = IdOf(i) /\ req'[i] = req[i] /\ req[i].target # None
      /\ \A i \in LiveSlots' : i \in LiveSlots \/ \E k \in DOMAIN b : i = sl[k]
  <2>1. \A i \in LiveSlots : i \in Slots /\ IdOf(i)' = IdOf(i) /\ req'[i] = req[i]
    <3>1. \A i \in LiveSlots : i \in Slots
      BY DEF LiveSlots
    <3> QED
      BY <1>1, <3>1, Zenon DEF Filled
  <2>2. \A i \in LiveSlots : req[i].target # None
    BY NoneAssumption DEF LiveSlots, SlotInv, SlotTypes, Request
  <2>3. \A i \in LiveSlots' : i \in LiveSlots \/ \E k \in DOMAIN b : i = sl[k]
    BY <1>1, Zenon DEF Filled
  <2> QED
    BY <2>1, <2>2, <2>3, ZenonT(60)
<1>6. \A k \in DOMAIN b : /\ IdOf(sl[k])' = IdOf(sl[k])
                          /\ req'[sl[k]].target = b[k].target
                          /\ req'[sl[k]].state = "Pending" /\ ~Busy(req'[sl[k]])
  <2>1. \A k \in DOMAIN b : IdOf(sl[k])' = IdOf(sl[k]) /\ req'[sl[k]] = NewRequest(b[k])
    <3>1. \A i \in Slots : IdOf(i)' = IdOf(i)
      BY <1>0, Zenon DEF IdOf
    <3>2. \A k \in DOMAIN b : sl[k] \in Slots /\ req'[sl[k]] = NewRequest(b[k])
      BY <1>1, Zenon DEF Filled
    <3> QED
      BY <3>1, <3>2, Zenon
  <2>2. \A k \in DOMAIN b : /\ NewRequest(b[k]).target = b[k].target
                            /\ NewRequest(b[k]).state = "Pending" /\ ~Busy(NewRequest(b[k]))
    BY DEF NewRequest, Busy, Draining, IsTerminal, TerminalStates
  <2> QED
    BY <2>1, <2>2, Zenon
<1>7. ASSUME NEW i \in LiveSlots', req'[i].state = "Pending" PROVE \E t \in Table : WaitsIn(i, targets[t])'
  <2>1. CASE i \in LiveSlots
    <3>1. PICK t \in Table : WaitsIn(i, targets[t])
      BY <1>5, <1>7, <2>1, Zenon DEF TargetInv
    <3>2. targets[t].target = req[i].target /\ \E n \in DOMAIN targets[t].queued : targets[t].queued[n] = IdOf(i)
      BY <3>1, Zenon DEF WaitsIn
    <3>3. targets'[t].target = req'[i].target
      BY <1>1, <1>2, <1>5, <2>1, <3>2, ZenonT(60) DEF Named
    <3>4. \E m \in DOMAIN targets'[t].queued : targets'[t].queued[m] = IdOf(i)
      <4>1. PICK n \in DOMAIN targets[t].queued : targets[t].queued[n] = IdOf(i)
        BY <3>2, Zenon
      <4>2. \E m \in DOMAIN targets'[t].queued : targets'[t].queued[m] = targets[t].queued[n]
        BY <1>a, Zenon DEF Joined
      <4> QED
        BY <4>1, <4>2, Zenon
    <3> QED
      BY <1>5, <2>1, <3>3, <3>4, Zenon DEF WaitsIn
  <2>2. CASE \E k \in DOMAIN b : i = sl[k]
    <3>1. PICK k \in DOMAIN b : i = sl[k]
      BY <2>2
    <3>2. PICK t \in Table : nm[t] = b[k].target
      BY <1>1, ZenonT(60) DEF Named
    <3>3. \E m \in DOMAIN targets'[t].queued : targets'[t].queued[m] = IdOf(i)
      BY <1>a, <3>1, <3>2, Zenon DEF Joined
    <3> QED
      BY <1>2, <1>6, <3>1, <3>2, <3>3, Zenon DEF WaitsIn
  <2> QED
    BY <1>5, <2>1, <2>2, Zenon
<1>8. ASSUME NEW i \in LiveSlots', Busy(req'[i]) PROVE \E t \in Table : ServedBy(i, targets[t])'
  <2>1. i \in LiveSlots
    BY <1>5, <1>6, <1>8, Zenon
  <2>2. PICK t \in Table : ServedBy(i, targets[t])
    BY <1>5, <1>8, <2>1, Zenon DEF TargetInv
  <2>3. targets'[t].target = req'[i].target
    BY <1>1, <1>2, <1>5, <2>1, <2>2, Zenon DEF Named, ServedBy
  <2> QED
    BY <1>2, <1>5, <2>1, <2>2, <2>3, Zenon DEF ServedBy
<1>9. \A t \in Table : EntryOK(targets[t])'
  BY <1>2, Zenon
<1> QED
  BY <1>3, <1>4, <1>7, <1>8, <1>9, Zenon DEF TargetInv, Busy, Draining

\* Preflight counted the batch against the quota of its targets.
LEMMA SubmitQuota ==
    ASSUME SlotInv, QuotaInv, NEW b \in Batches, Preflight(b), NEW sl, Filled(b, sl)
    PROVE  QuotaInv'
<1>1. SUFFICES ASSUME NEW x \in Targets PROVE Cardinality(TargetSlots(x)') <= PerTarget
  BY Zenon DEF QuotaInv
<1> DEFINE J == {j \in DOMAIN b : b[j].target = x}
           new == {sl[j] : j \in J}
           f == [j \in J |-> sl[j]]
<1>2. PICK T : T = TargetSlots(x)
  OBVIOUS
<1>3. PICK U : U = TargetSlots(x)'
  OBVIOUS
<1>4. IsFiniteSet(T) /\ Cardinality(T) \in Nat /\ Cardinality(T) <= PerTarget /\ PerTarget \in Nat
  <2>1. IsFiniteSet(Slots)
    BY SlotsFinite
  <2>2. T \subseteq Slots
    BY <1>2 DEF TargetSlots, LiveSlots
  <2>3. IsFiniteSet(T)
    BY <2>1, <2>2, FS_Subset
  <2>4. Cardinality(T) <= PerTarget /\ PerTarget \in Nat
    BY <1>2, SizeAssumption DEF QuotaInv
  <2> QED
    BY <2>3, <2>4, FS_CardinalityType
<1>5. IsFiniteSet(J) /\ Cardinality(J) \in Nat
  <2>1. PICK n \in 1..MaxBatch : b \in [1..n -> Submissions]
    BY DEF Batches
  <2>2. IsFiniteSet(1..n) /\ J \in SUBSET (1..n)
    BY <2>1, SizeAssumption, FS_Interval
  <2>3. IsFiniteSet(J)
    BY <2>2, FS_Subset, SMTT(30)
  <2> QED
    BY <2>3, FS_CardinalityType
<1>6. IsFiniteSet(new) /\ Cardinality(new) \in Nat /\ Cardinality(new) <= Cardinality(J)
  <2>1. f \in Surjection(J, new)
    BY SMTT(30) DEF Surjection
  <2>2. IsFiniteSet(new) /\ Cardinality(new) <= Cardinality(J)
    BY <1>5, <2>1, FS_Surjection
  <2> QED
    BY <2>2, FS_CardinalityType, SMTT(30)
<1>7. ASSUME NEW i \in U PROVE i \in T \/ \E j \in J : i = sl[j]
  <2>1. i \in LiveSlots' /\ req'[i].target = x
    BY <1>3 DEF TargetSlots
  <2>2. CASE i \in LiveSlots
    <3>1. req[i].target = x
      BY <2>1, <2>2, ZenonT(60) DEF Filled
    <3> QED
      BY <1>2, <2>2, <3>1 DEF TargetSlots
  <2>3. CASE \E k \in DOMAIN b : i = sl[k]
    <3>1. PICK k \in DOMAIN b : i = sl[k]
      BY <2>3
    <3>2. req'[i] = NewRequest(b[k])
      BY <3>1, ZenonT(60) DEF Filled
    <3>3. b[k].target = x
      BY <2>1, <3>2 DEF NewRequest
    <3> QED
      BY <3>1, <3>3
  <2> QED
    BY <2>1, <2>2, <2>3, Zenon DEF Filled
<1>8. U \in SUBSET (T \cup new)
  BY <1>7
<1>9. ASSUME NEW k \in J PROVE Cardinality(T) + Cardinality(J) <= PerTarget
  <2>1. k \in DOMAIN b /\ b[k].target = x
    OBVIOUS
  <2>2. Cardinality(TargetSlots(b[k].target))
          + Cardinality({j \in DOMAIN b : b[j].target = b[k].target}) <= PerTarget
    BY <2>1, ZenonT(60) DEF Preflight
  <2> QED
    BY <1>2, <2>1, <2>2, Zenon
<1>10. J = {} => new = {}
  OBVIOUS
<1> HIDE DEF J, new
<1>11. CASE J = {}
  <2>1. U \in SUBSET T
    BY <1>8, <1>10, <1>11, Zenon
  <2>2. Cardinality(U) <= Cardinality(T) /\ Cardinality(U) \in Nat
    BY <1>4, <2>1, FS_Subset, FS_CardinalityType
  <2> QED
    BY <1>3, <1>4, <2>2
<1>12. CASE J # {}
  <2>1. Cardinality(T) + Cardinality(J) <= PerTarget
    BY <1>9, <1>12, Zenon
  <2>2. /\ IsFiniteSet(T \cup new) /\ IsFiniteSet(T \cap new)
        /\ Cardinality(T \cup new) = Cardinality(T) + Cardinality(new) - Cardinality(T \cap new)
    <3>1. T \cap new \in SUBSET T
      OBVIOUS
    <3>2. IsFiniteSet(T \cap new)
      BY <1>4, <3>1, FS_Subset
    <3> QED
      BY <1>4, <1>6, <3>2, FS_Union
  <2>3. Cardinality(T \cap new) \in Nat /\ Cardinality(T \cup new) \in Nat
    BY <2>2, FS_CardinalityType
  <2>4. IsFiniteSet(U) /\ Cardinality(U) <= Cardinality(T \cup new)
    BY <1>8, <2>2, FS_Subset
  <2>5. Cardinality(U) \in Nat
    BY <2>4, FS_CardinalityType
  <2> QED
    BY <1>3, <1>4, <1>5, <1>6, <2>1, <2>2, <2>3, <2>4, <2>5, SMTT(30)
<1> QED
  BY <1>11, <1>12

\* A new request waits for no action.
LEMMA SubmitQueue ==
    ASSUME IInv, QueueInv, NEW b \in Batches, NEW sl, Filled(b, sl), UNCHANGED <<gen, retired, actions>>
    PROVE  QueueInv'
<1>1. ASSUME NEW k \in DOMAIN b, NEW a \in Kinds PROVE Flag(req'[sl[k]], a) # "queued"
  <2>1. Flag(NewRequest(b[k]), a) # "queued"
    BY DEF NewRequest, Flag, Kinds
  <2>2. req'[sl[k]] = NewRequest(b[k])
    BY Zenon DEF Filled
  <2> QED
    BY <2>1, <2>2, Zenon
<1>2. ASSUME NEW n \in DOMAIN actions
      PROVE  Valid(actions[n].id)' /\ Flag(req'[actions[n].id.slot], actions[n].kind) = "queued"
  <2>1. PICK id : id = actions[n].id
    OBVIOUS
  <2>2. Valid(id) /\ Flag(req[id.slot], actions[n].kind) = "queued"
    BY <2>1, Zenon DEF QueueInv
  <2>3. StillValid(id) /\ req'[id.slot] = req[id.slot]
    BY <2>2, Zenon DEF Filled
  <2>4. Valid(id)'
    BY <2>3, Zenon DEF StillValid, Valid
  <2> QED
    BY <2>1, <2>2, <2>3, <2>4, Zenon
<1>3. ASSUME NEW i \in LiveSlots', NEW k \in Kinds, Flag(req'[i], k) = "queued"
      PROVE  \E n \in DOMAIN actions : actions[n].kind = k /\ actions[n].id.slot = i
  <2>1. i \in LiveSlots \/ \E j \in DOMAIN b : i = sl[j]
    BY Zenon DEF Filled
  <2>2. i \in LiveSlots
    BY <1>1, <1>3, <2>1, Zenon
  <2>3. Flag(req[i], k) = "queued"
    BY <1>3, <2>2, Zenon DEF Filled
  <2>4. \A j \in LiveSlots : \A l \in Kinds : Flag(req[j], l) = "queued" =>
            \E n \in DOMAIN actions : actions[n].kind = l /\ actions[n].id.slot = j
    BY Zenon DEF QueueInv
  <2> QED
    BY <2>2, <2>3, <2>4, Zenon
<1>4. \A m, n \in DOMAIN actions :
          actions[m].kind = actions[n].kind /\ actions[m].id.slot = actions[n].id.slot => m = n
  BY Zenon DEF QueueInv
<1>5. actions' = actions
  OBVIOUS
<1>6. \A i \in LiveSlots', k \in Kinds : Flag(req'[i], k) = "queued" =>
          \E n \in DOMAIN actions' : actions'[n].kind = k /\ actions'[n].id.slot = i
  BY <1>3, <1>5
<1>7. \A n \in DOMAIN actions' : /\ Valid(actions[n].id)'
                                 /\ Flag(req'[actions'[n].id.slot], actions'[n].kind) = "queued"
  BY <1>2, <1>5, Zenon
<1>8. \A m, n \in DOMAIN actions' :
          actions'[m].kind = actions'[n].kind /\ actions'[m].id.slot = actions'[n].id.slot => m = n
  BY <1>4, <1>5
<1> QED
  BY <1>6, <1>7, <1>8, Zenon DEF QueueInv

\* A new id was never handed out before.
LEMMA SubmitHistory ==
    ASSUME SlotInv, HistoryInv, NEW b \in Batches, NEW sl, Filled(b, sl),
           UNCHANGED <<gen, retired, published, freed>>
    PROVE  HistoryInv'
<1>1. \A i \in LiveSlots : i \in Slots /\ IdOf(i)' = IdOf(i) /\ req'[i] = req[i]
  BY ZenonT(60) DEF Filled, LiveSlots, IdOf
<1>2. ASSUME NEW k \in DOMAIN b
      PROVE  /\ IdOf(sl[k])' = IdOf(sl[k]) /\ IdOf(sl[k]) \notin published
             /\ req'[sl[k]].publish = "idle" /\ req'[sl[k]].res = "KernelOwned"
  <2>1. sl[k] \in Slots /\ req[sl[k]] = None /\ ~retired[sl[k]] /\ req'[sl[k]] = NewRequest(b[k])
    BY ZenonT(60) DEF Filled
  <2>2. IdOf(sl[k]).slot = sl[k] /\ IdOf(sl[k]).gen = gen[sl[k]] /\ gen[sl[k]] \in Nat
    <3>1. gen[sl[k]] \in 1..MaxGen
      BY <2>1, ZenonT(60) DEF SlotInv, SlotTypes
    <3>2. IdOf(sl[k]).slot = sl[k] /\ IdOf(sl[k]).gen = gen[sl[k]]
      BY <2>1, IdFacts, ZenonT(60)
    <3> QED
      BY <3>1, <3>2
  <2>3. IdOf(sl[k]) \notin Issued
    BY <2>1, <2>2 DEF Issued
  <2>4. NewRequest(b[k]).publish = "idle" /\ NewRequest(b[k]).res = "KernelOwned"
    BY DEF NewRequest
  <2>5. IdOf(sl[k])' = IdOf(sl[k])
    BY <2>1, Zenon DEF Filled
  <2> QED
    BY <2>1, <2>3, <2>4, <2>5, Zenon DEF HistoryInv
<1>3. Issued \subseteq Issued'
  <2>1. \A i \in Slots : req[i] # None => req'[i] # None
    BY <1>1 DEF LiveSlots
  <2> QED
    BY <2>1 DEF Issued, Id
<1>4. ASSUME NEW i \in LiveSlots'
      PROVE  /\ IdOf(i)' \in published <=> req'[i].publish = "dispatched"
             /\ req'[i].res = "Released" => IdOf(i)' \in freed
  <2>1. CASE i \in LiveSlots
    BY <1>1, <2>1, ZenonT(60) DEF HistoryInv
  <2>2. CASE \E k \in DOMAIN b : i = sl[k]
    BY <1>2, <2>2
  <2> QED
    BY <2>1, <2>2, Zenon DEF Filled
<1>5. ASSUME NEW id \in Issued' PROVE Valid(id)' \/ id \in freed \cap published
  <2>1. CASE id \in Issued
    <3>1. Valid(id) => Valid(id)'
      BY ZenonT(60) DEF Filled, StillValid, Valid
    <3> QED
      BY <2>1, <3>1, Zenon DEF HistoryInv
  <2>2. CASE id \notin Issued
    <3>1. id \in Id /\ id.gen = gen[id.slot] /\ req'[id.slot] # None /\ ~retired[id.slot]
      BY <2>2 DEF Issued
    <3>2. id.slot \in Slots
      BY <3>1 DEF Id
    <3> QED
      BY <3>1, <3>2, SMTT(30) DEF Valid
  <2> QED
    BY <2>1, <2>2
<1>6. published' \subseteq Issued'
  BY <1>3 DEF HistoryInv
<1>7. published' = published /\ freed' = freed
  OBVIOUS
<1> QED
  BY <1>4, <1>5, <1>6, <1>7, Zenon DEF HistoryInv

\* submit_batch.
LEMMA SubmitQueues ==
    ASSUME IInv, QInv, NEW b \in Batches, SubmitBatch(b)
    PROVE  QInv'
<1>1. /\ UNCHANGED <<gen, retired, cursor, actions, published, freed>>
      /\ Preflight(b)
  BY Zenon DEF SubmitBatch
<1>2. SlotInv /\ TargetInv /\ QuotaInv /\ QueueInv /\ HistoryInv
  BY Zenon DEF IInv, QInv
<1>3. PICK sl, nm : Submits(b, sl, nm)
  BY <1>2, SubmitFacts, Zenon
<1>4. UNCHANGED <<gen, retired>> /\ UNCHANGED <<gen, retired, cursor>> /\ UNCHANGED <<gen, retired, actions>>
      /\ UNCHANGED <<gen, retired, published, freed>>
  BY <1>1
<1>5. Placed(b, sl)
  BY <1>3, Zenon DEF Submits
<1>6. Filled(b, sl)
  BY <1>2, <1>4, <1>5, SubmitLive
<1>7. TargetInv'
  BY <1>2, <1>3, <1>4, SubmitTargets
<1>8. QuotaInv'
  BY <1>1, <1>2, <1>6, SubmitQuota
<1>9. QueueInv'
  BY <1>2, <1>4, <1>6, SubmitQueue
<1>10. HistoryInv'
  BY <1>2, <1>4, <1>6, SubmitHistory
<1> QED
  BY <1>7, <1>8, <1>9, <1>10, Zenon DEF QInv
=============================================================================
