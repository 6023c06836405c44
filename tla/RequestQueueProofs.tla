-------------------------- MODULE RequestQueueProofs --------------------------
(***************************************************************************)
(* Proofs about the target table and the action queue of RequestRuntime,   *)
(* for every capacity, generation bound and set of clients: requests of a  *)
(* target are served one at a time and wait in its FIFO exactly once, and  *)
(* every action is queued exactly once and every result published once.    *)
(***************************************************************************)
EXTENDS RequestRuntimeProofs

-----------------------------------------------------------------------------
(* The operators on one request                                            *)

\* What a call does to a request, where s says whether its target is settled:
\* a waiting request keeps waiting or is finished and leaves its FIFO, no target
\* becomes taken, and only a queued cancellation is withdrawn.
Evolves(r, e, s) ==
    /\ e \in Request
    /\ e.target = r.target
    /\ e.state = "Pending" => r.state = "Pending"
    /\ r.state = "Pending" => e.state = "Pending" \/ (s /\ IsTerminal(e))
    /\ IsTerminal(r) => e.state = r.state
    /\ Busy(e) => Busy(r)
    /\ e.cancel = "dispatched" => r.cancel = "dispatched"
    /\ r.publish = "queued" => e.publish = "queued"
    /\ r.publish = "dispatched" <=> e.publish = "dispatched"
    /\ r.release = "queued" => e.release = "queued"
    /\ e.res = "Released" => r.res = "Released"

\* Changes made one after the other are a change.
LEMMA EvolvesTrans ==
    ASSUME NEW a, NEW b, NEW c, NEW s \in BOOLEAN, Evolves(a, b, s), Evolves(b, c, s)
    PROVE  Evolves(a, c, s)
<1>1. a.state = "Pending" => c.state = "Pending" \/ (s /\ IsTerminal(c))
  BY Zenon DEF Evolves, IsTerminal
<1>2. IsTerminal(a) => c.state = a.state
  BY Zenon DEF Evolves, IsTerminal
<1>3. /\ c.cancel = "dispatched" => a.cancel = "dispatched"
      /\ a.publish = "queued" => c.publish = "queued"
  BY Zenon DEF Evolves
<1>4. /\ a.publish = "dispatched" <=> c.publish = "dispatched"
      /\ a.release = "queued" => c.release = "queued"
  BY Zenon DEF Evolves
<1>5. c \in Request /\ c.target = a.target
  BY Zenon DEF Evolves
<1> QED
  BY <1>1, <1>2, <1>3, <1>4, <1>5, Zenon DEF Evolves

\* An untouched request evolves.
LEMMA EvolvesRefl ==
    ASSUME NEW r \in Request, NEW s PROVE Evolves(r, r, s)
  BY DEF Evolves

\* Changes that leave the state and the resources alone.
LEMMA FlagsEvolve ==
    ASSUME NEW r \in Request, NEW s
    PROVE  /\ Evolves(r, QueueCancel(r), s)
           /\ Evolves(r, WithdrawCancel(r), s)
           /\ Evolves(r, [r EXCEPT !.cancelRequested = TRUE], s)
<1>1. Evolves(r, QueueCancel(r), s)
  BY DEF Evolves, QueueCancel, Request, Flags, IsTerminal, Busy, Draining
<1>2. Evolves(r, WithdrawCancel(r), s)
  BY DEF Evolves, WithdrawCancel, Request, Flags, IsTerminal, Busy, Draining
<1>3. Evolves(r, [r EXCEPT !.cancelRequested = TRUE], s)
  BY Zenon DEF Evolves, Request, IsTerminal, Busy, Draining
<1> QED
  BY <1>1, <1>2, <1>3

\* queue_release_if_possible.
LEMMA ReleaseEvolves ==
    ASSUME NEW r \in Request, NEW s
    PROVE  Evolves(r, QueueRelease(r), s) /\ Evolves(r, DeviceStopped(r), s)
<1>1. Evolves(r, QueueRelease(r), s)
  <2> DEFINE e == [r EXCEPT !.res = "ReleasePending", !.release = "queued"]
  <2>1. /\ e \in Request /\ e.target = r.target /\ e.state = r.state /\ e.cancel = r.cancel
        /\ e.publish = r.publish /\ e.release = "queued" /\ e.res = "ReleasePending"
    BY Zenon DEF Request, Flags, ResourceStates
  <2> HIDE DEF e
  <2>2. Evolves(r, e, s)
    BY <2>1 DEF Evolves, IsTerminal, Busy, Draining
  <2> QED
    BY <2>2, EvolvesRefl DEF QueueRelease, e
<1>2. Evolves(r, DeviceStopped(r), s)
  BY DEF Evolves, DeviceStopped, Request, ResourceStates, IsTerminal, Busy, Draining
<1> QED
  BY <1>1, <1>2

\* finish_terminal settles the target of a request.
LEMMA FinishEvolves ==
    ASSUME NEW r \in Request, NEW st \in TerminalStates
    PROVE  Evolves(r, FinishTerminal(r, st), TRUE) /\ IsTerminal(FinishTerminal(r, st))
<1> DEFINE e == [r EXCEPT !.state = st,
                          !.res = IF @ = "DeviceOwned" THEN "DrainPending" ELSE @,
                          !.publish = IF @ = "idle" THEN "queued" ELSE @]
<1>1. CASE IsTerminal(r)
  BY <1>1, EvolvesRefl, Zenon DEF FinishTerminal
<1>2. CASE ~IsTerminal(r)
  <2>1. Evolves(r, e, TRUE) /\ IsTerminal(e)
    <3>1. /\ st \in States
          /\ (IF r.res = "DeviceOwned" THEN "DrainPending" ELSE r.res) \in ResourceStates
          /\ (IF r.publish = "idle" THEN "queued" ELSE r.publish) \in Flags
      BY DEF Request, States, ResourceStates, Flags
    <3>2. e \in Request
      BY <3>1, Zenon DEF Request
    <3>3. /\ e.target = r.target /\ e.state = st /\ e.cancel = r.cancel /\ e.release = r.release
          /\ e.publish = IF r.publish = "idle" THEN "queued" ELSE r.publish
          /\ e.res = IF r.res = "DeviceOwned" THEN "DrainPending" ELSE r.res
      BY DEF Request
    <3>4. "Pending" \notin TerminalStates /\ "Active" \notin TerminalStates /\ "CancelPending" \notin TerminalStates
      BY DEF TerminalStates
    <3> HIDE DEF e
    <3>5. Busy(e) => Busy(r)
      BY <3>3, <3>4 DEF Busy, Draining
    <3> QED
      BY <1>2, <3>2, <3>3, <3>4, <3>5 DEF Evolves, IsTerminal
  <2>2. FinishTerminal(r, st) = QueueRelease(e)
    BY <1>2 DEF FinishTerminal
  <2> HIDE DEF e
  <2>3. e \in Request
    BY <2>1 DEF Evolves
  <2>4. Evolves(e, QueueRelease(e), TRUE)
    BY <2>3, ReleaseEvolves, Zenon
  <2>5. Evolves(r, QueueRelease(e), TRUE)
    BY <2>1, <2>4, EvolvesTrans, Zenon
  <2>6. IsTerminal(QueueRelease(e))
    BY <2>1, <2>4, Zenon DEF Evolves, IsTerminal
  <2> QED
    BY <2>2, <2>5, <2>6, Zenon
<1> QED
  BY <1>1, <1>2, Zenon

-----------------------------------------------------------------------------
(* The operators on one table entry                                        *)

\* Removing ids and giving an idle entry back.
LEMMA ReducedEntry ==
    ASSUME NEW q \in Entry, NEW X, NEW Y
    PROVE  Shrinks(q, ReleaseIdle([q EXCEPT !.queued = Without(@, X),
                                            !.active = IF @ \in Y THEN None ELSE @]), X, Y)
<1> DEFINE a == IF q.active \in Y THEN None ELSE q.active
           w == Without(q.queued, X)
           d == [q EXCEPT !.queued = w, !.active = a]
           e == ReleaseIdle(d)
<1>1. /\ q.queued \in Seq(Id) /\ a \in Id \cup {None} /\ q.target \in Targets \cup {None}
  BY DEF Entry
<1>2. /\ w \in Seq(Id)
      /\ \A m \in DOMAIN w : w[m] \notin X /\ \E n \in DOMAIN q.queued : q.queued[n] = w[m]
      /\ \A n \in DOMAIN q.queued : q.queued[n] \notin X => \E m \in DOMAIN w : w[m] = q.queued[n]
      /\ (\A m, n \in DOMAIN q.queued : q.queued[m] = q.queued[n] => m = n) =>
            \A m, n \in DOMAIN w : w[m] = w[n] => m = n
  BY <1>1, WithoutElements, ZenonT(60)
<1>3. [q EXCEPT !.queued = Without(@, X), !.active = IF @ \in Y THEN None ELSE @] = d
  BY DEF Entry
<1> HIDE DEF a, w
<1>4. d \in Entry /\ d.queued = w /\ d.active = a /\ d.target = q.target
  BY <1>1, <1>2, Zenon DEF Entry
<1> HIDE DEF d
<1>5. /\ e \in Entry /\ e.queued = w /\ e.active = a
      /\ e.target \in {q.target, None}
      /\ e.target = q.target \/ Idle(e)
  <2>1. CASE Idle(d)
    BY <1>4, <2>1 DEF ReleaseIdle, Idle, Entry
  <2>2. CASE ~Idle(d)
    BY <1>4, <2>2 DEF ReleaseIdle
  <2> QED
    BY <2>1, <2>2
<1> HIDE DEF e
<1>6. Shrinks(q, e, X, Y)
  BY <1>2, <1>5, ZenonT(60) DEF Shrinks, a
<1> QED
  BY <1>3, <1>6, Zenon DEF e

\* release_target_if_safe, for the slots of S.
Leaving(q, new, S) == {i \in S : IsTerminal(new[i]) /\ new[i].target = q.target}

\* What finish_terminal and release_target_if_safe do to an entry.
LEMMA SettledEntry ==
    ASSUME NEW q \in Entry, NEW new, NEW S
    PROVE  Shrinks(q, SettleTarget(q, new, S), Finished(Leaving(q, new, S)), Safe(new, Leaving(q, new, S)))
<1>1. CASE Leaving(q, new, S) = {}
  <2>1. SettleTarget(q, new, S) = q
    BY <1>1 DEF SettleTarget, Leaving
  <2>2. Finished({}) = {} /\ Safe(new, {}) = {}
    BY DEF Finished, Safe
  <2> QED
    BY <1>1, <2>1, <2>2, KeptEntry, Zenon
<1>2. CASE Leaving(q, new, S) # {}
  <2> DEFINE X == Finished(Leaving(q, new, S))
             Y == Safe(new, Leaving(q, new, S))
             e == ReleaseIdle([q EXCEPT !.queued = Without(@, X),
                                        !.active = IF @ \in Y THEN None ELSE @])
  <2>1. SettleTarget(q, new, S) = e
    BY <1>2, Zenon DEF SettleTarget, Leaving
  <2>2. Shrinks(q, e, X, Y)
    <3> HIDE DEF X, Y
    <3> QED
      BY ReducedEntry, Zenon
  <2> HIDE DEF e
  <2> QED
    BY <2>1, <2>2, Zenon
<1> QED
  BY <1>1, <1>2

\* release_target_after_retirement
LEMMA ForgottenEntry ==
    ASSUME NEW q \in Entry, NEW id, NEW target
    PROVE  Shrinks(q, ForgetTarget(q, id, target), IF q.target = target THEN {id} ELSE {},
                                                   IF q.target = target THEN {id} ELSE {})
<1>1. CASE q.target = target
  <2> DEFINE d == [q EXCEPT !.queued = Without(@, {id}), !.active = IF @ \in {id} THEN None ELSE @]
  <2>1. [q EXCEPT !.active = IF @ = id THEN None ELSE @, !.queued = Without(@, {id})] = d
    BY Zenon DEF Entry
  <2>2. ForgetTarget(q, id, target) = ReleaseIdle(d)
    BY <1>1, <2>1, Zenon DEF ForgetTarget
  <2>3. Shrinks(q, ReleaseIdle(d), {id}, {id})
    BY ReducedEntry, Zenon
  <2> HIDE DEF d
  <2>4. (IF q.target = target THEN {id} ELSE {}) = {id}
    BY <1>1
  <2> QED
    BY <2>2, <2>3, <2>4, Zenon
<1>2. CASE q.target # target
  BY <1>2, KeptEntry DEF ForgetTarget
<1> QED
  BY <1>1, <1>2

-----------------------------------------------------------------------------
(* Steps that take requests out of the table                               *)

\* A waiting, or started, id is so still; the request of slot i is the same.
StillWaits(id) == StillValid(id) /\ req'[id.slot].state = "Pending"
StillServed(id) == StillValid(id) /\ req'[id.slot].state # "Pending"
Carried(i) == i \in LiveSlots /\ IdOf(i)' = IdOf(i) /\ req'[i].target = req[i].target

\* A step that only takes ids out of entries, those of requests that no longer
\* wait or no longer hold their target, keeps the table exact.
LEMMA ShrinkStep ==
    ASSUME SlotInv, TargetInv, cursor' \in Table, NEW X, NEW Y,
           targets' = [t \in Table |-> targets'[t]],
           \A t \in Table : Shrinks(targets[t], targets'[t], X[t], Y[t]),
           \A t \in Table : \A n \in DOMAIN targets[t].queued :
               targets[t].queued[n] \notin X[t] => StillWaits(targets[t].queued[n]),
           \A t \in Table :
               targets[t].active # None /\ targets[t].active \notin Y[t] => StillServed(targets[t].active),
           \A i \in LiveSlots' : req'[i].state = "Pending" =>
               Carried(i) /\ req[i].state = "Pending" /\ \A t \in Table : IdOf(i) \notin X[t],
           \A i \in LiveSlots' : Busy(req'[i]) =>
               Carried(i) /\ Busy(req[i]) /\ \A t \in Table : IdOf(i) \notin Y[t]
    PROVE  TargetInv'
<1>1. targets' \in [Table -> Entry]
  BY Zenon DEF Shrinks
<1>2. OneEntry'
  <2>1. \A t \in Table : targets'[t].target \in {targets[t].target, None}
    BY Zenon DEF Shrinks
  <2> QED
    BY <2>1, Zenon DEF TargetInv, OneEntry
<1>3. ASSUME NEW t \in Table PROVE EntryOK(targets[t])'
  <2> DEFINE q == targets[t]
  <2>0. PICK e : e = targets'[t]
    OBVIOUS
  <2>1. EntryOK(q) /\ Shrinks(q, e, X[t], Y[t])
    BY <2>0, Zenon DEF TargetInv
  <2>2. /\ \A n \in DOMAIN q.queued : q.queued[n] \notin X[t] => StillWaits(q.queued[n])
        /\ q.active # None /\ q.active \notin Y[t] => StillServed(q.active)
    BY Zenon
  <2> HIDE DEF q
  <2>3. \A m, n \in DOMAIN e.queued : e.queued[m] = e.queued[n] => m = n
    BY <2>1, Zenon DEF EntryOK, Shrinks
  <2>4. ASSUME NEW m \in DOMAIN e.queued
        PROVE  /\ Valid(e.queued[m])'
               /\ req'[e.queued[m].slot].state = "Pending"
               /\ req'[e.queued[m].slot].target = e.target
    <3>a. e.queued[m] \notin X[t]
      BY <2>1, Zenon DEF Shrinks
    <3>b. PICK n \in DOMAIN q.queued : q.queued[n] = e.queued[m]
      BY <2>1, Zenon DEF Shrinks
    <3>1. q.queued[n] = e.queued[m] /\ q.queued[n] \notin X[t]
      BY <3>a, <3>b, Zenon
    <3>2. e.target = q.target
      <4>1. e.queued # <<>>
        OBVIOUS
      <4> QED
        BY <2>1, <4>1 DEF Shrinks, Idle
    <3>3. StillWaits(e.queued[m]) /\ req[e.queued[m].slot].target = q.target
      BY <2>1, <2>2, <3>1, Zenon DEF EntryOK
    <3> QED
      BY <3>2, <3>3, Zenon DEF StillWaits, StillValid, Valid
  <2>5. ASSUME e.active # None
        PROVE  Valid(e.active)' /\ req'[e.active.slot].state # "Pending" /\ req'[e.active.slot].target = e.target
    <3>1. e.active = q.active /\ q.active \notin Y[t] /\ q.active # None
      BY <2>1, <2>5, Zenon DEF Shrinks
    <3>2. e.target = q.target
      BY <2>1, <2>5 DEF Shrinks, Idle
    <3>3. StillServed(e.active) /\ req[e.active.slot].target = q.target
      BY <2>1, <2>2, <3>1, Zenon DEF EntryOK
    <3> QED
      BY <3>2, <3>3, Zenon DEF StillServed, StillValid, Valid
  <2> QED
    BY <2>0, <2>3, <2>4, <2>5, Zenon DEF EntryOK
<1>4. ASSUME NEW i \in LiveSlots', req'[i].state = "Pending"
      PROVE  \E t \in Table : WaitsIn(i, targets[t])'
  <2>1. Carried(i) /\ req[i].state = "Pending" /\ \A t \in Table : IdOf(i) \notin X[t]
    BY <1>4, Zenon
  <2>2. PICK t \in Table : WaitsIn(i, targets[t])
    BY <2>1, Zenon DEF TargetInv, Carried
  <2>3. Shrinks(targets[t], targets'[t], X[t], Y[t])
    OBVIOUS
  <2>a. PICK n \in DOMAIN targets[t].queued : targets[t].queued[n] = IdOf(i)
    BY <2>2, Zenon DEF WaitsIn
  <2>b. targets[t].queued[n] \notin X[t]
    BY <2>1, <2>a, Zenon
  <2>c. PICK m \in DOMAIN targets'[t].queued : targets'[t].queued[m] = targets[t].queued[n]
    BY <2>3, <2>b, Zenon DEF Shrinks
  <2>4. targets'[t].queued[m] = IdOf(i)
    BY <2>a, <2>c, Zenon
  <2>5. targets'[t].target = targets[t].target
    <3>1. targets'[t].queued # <<>>
      OBVIOUS
    <3> QED
      BY <2>3, <3>1 DEF Shrinks, Idle
  <2> QED
    BY <2>1, <2>2, <2>4, <2>5, Zenon DEF Carried, WaitsIn
<1>5. ASSUME NEW i \in LiveSlots', Busy(req'[i])
      PROVE  \E t \in Table : ServedBy(i, targets[t])'
  <2>1. Carried(i) /\ Busy(req[i]) /\ \A t \in Table : IdOf(i) \notin Y[t]
    BY <1>5, Zenon
  <2>2. PICK t \in Table : ServedBy(i, targets[t])
    BY <2>1, Zenon DEF TargetInv, Carried
  <2>3. Shrinks(targets[t], targets'[t], X[t], Y[t])
    OBVIOUS
  <2>4. targets'[t].active = IdOf(i) /\ IdOf(i) # None
    <3>1. IdOf(i) # None
      BY <2>1, IdFacts DEF Carried, LiveSlots
    <3> QED
      BY <2>1, <2>2, <2>3, <3>1 DEF Shrinks, ServedBy
  <2>5. targets'[t].target = targets[t].target
    BY <2>3, <2>4 DEF Shrinks, Idle
  <2> QED
    BY <2>1, <2>2, <2>4, <2>5, Zenon DEF Carried, ServedBy
<1> QED
  BY <1>1, <1>2, <1>3, <1>4, <1>5, Zenon DEF TargetInv, Busy, Draining

\* A call of Change whose requests evolve.
ChangeOK(new, S) ==
    /\ S \subseteq LiveSlots
    /\ new \in [Slots -> Request \cup {None}]
    /\ \A i \in Slots : req[i] = None => new[i] = None
    /\ \A i \in LiveSlots : Evolves(req[i], new[i], i \in S)

\* A call that changes requests in place keeps the table exact.
LEMMA ChangeTargets ==
    ASSUME SlotInv, TargetInv, NEW new, NEW S, ChangeOK(new, S), Change(new, S)
    PROVE  TargetInv'
<1> DEFINE mine(t) == Leaving(targets[t], new, S)
           X == [t \in Table |-> Finished(mine(t))]
           Y == [t \in Table |-> Safe(new, mine(t))]
<1>1. /\ req' = new /\ gen' = gen /\ retired' = retired /\ cursor' = cursor
      /\ targets' = [t \in Table |-> SettleTarget(targets[t], new, S)]
  BY Zenon DEF Change
<1>2. /\ \A i \in LiveSlots : new[i] # None /\ Evolves(req[i], new[i], i \in S)
      /\ LiveSlots' = LiveSlots
      /\ \A i \in Slots : IdOf(i)' = IdOf(i)
  <2>1. \A i \in LiveSlots : Evolves(req[i], new[i], i \in S) /\ new[i] # None
    BY NoneAssumption, Zenon DEF ChangeOK, Evolves
  <2>2. LiveSlots' = LiveSlots
    BY <1>1, <2>1 DEF ChangeOK, LiveSlots
  <2> QED
    BY <1>1, <2>1, <2>2, Zenon DEF IdOf
<1>3. ASSUME NEW t \in Table PROVE Shrinks(targets[t], targets'[t], X[t], Y[t])
  <2>1. targets[t] \in Entry
    BY DEF TargetInv
  <2> QED
    BY <1>1, <2>1, SettledEntry
<1>4. \A t \in Table, i \in Slots :
          /\ IdOf(i) \in X[t] => i \in mine(t) /\ ~IsTerminal(req[i])
          /\ i \in mine(t) /\ ~IsTerminal(req[i]) => IdOf(i) \in X[t]
          /\ IdOf(i) \in Y[t] => i \in mine(t) /\ ~Draining(new[i])
  <2>1. \A i, j \in Slots : IdOf(i) = IdOf(j) => i = j
    BY IdFacts
  <2>2. \A t \in Table : mine(t) \subseteq Slots
    BY DEF Leaving, ChangeOK, LiveSlots
  <2> HIDE DEF mine
  <2> QED
    BY <2>1, <2>2 DEF Finished, Safe
<1> HIDE DEF X, Y
<1>5. \A i \in LiveSlots : /\ new[i].target = req[i].target
                           /\ new[i].state = "Pending" => req[i].state = "Pending"
                           /\ req[i].state = "Pending" =>
                                new[i].state = "Pending" \/ (i \in S /\ IsTerminal(new[i]))
                           /\ Busy(new[i]) => Busy(req[i])
  BY <1>2, Zenon DEF Evolves
<1>6. "Pending" \notin TerminalStates /\ \A r : Busy(r) /\ IsTerminal(r) => Draining(r)
  BY DEF TerminalStates, Busy, IsTerminal
<1>7. ASSUME NEW t \in Table, NEW n \in DOMAIN targets[t].queued, targets[t].queued[n] \notin X[t]
      PROVE  StillWaits(targets[t].queued[n])
  <2>1. PICK id : id = targets[t].queued[n]
    OBVIOUS
  <2>2. /\ Valid(id) /\ req[id.slot].state = "Pending" /\ req[id.slot].target = targets[t].target
        /\ id \in Id
    <3>1. targets[t] \in Entry /\ EntryOK(targets[t])
      BY Zenon DEF TargetInv
    <3>2. targets[t].queued \in Seq(Id)
      BY <3>1 DEF Entry
    <3>3. id \in Id
      BY <2>1, <3>2
    <3> QED
      BY <2>1, <3>1, <3>3, Zenon DEF EntryOK
  <2>3. id.slot \in LiveSlots /\ id.slot \in Slots /\ id = IdOf(id.slot)
    BY <2>2 DEF Valid, LiveSlots, IdOf, Id
  <2>4. new[id.slot].state = "Pending"
    <3>1. ASSUME id.slot \in S, IsTerminal(new[id.slot]) PROVE FALSE
      <4>1. id.slot \in mine(t) /\ ~IsTerminal(req[id.slot])
        BY <1>5, <1>6, <2>2, <2>3, <3>1 DEF Leaving, IsTerminal
      <4> QED
        BY <1>4, <1>7, <2>1, <2>3, <4>1, Zenon
    <3> QED
      BY <1>5, <2>2, <2>3, <3>1, Zenon
  <2> QED
    BY <1>1, <1>2, <1>5, <2>1, <2>2, <2>3, <2>4, Zenon DEF StillWaits, StillValid, Valid
<1>8. ASSUME NEW t \in Table, targets[t].active # None, targets[t].active \notin Y[t]
      PROVE  StillServed(targets[t].active)
  <2>1. PICK id : id = targets[t].active
    OBVIOUS
  <2>2. Valid(id) /\ req[id.slot].state # "Pending" /\ id.slot \in LiveSlots
    BY <1>8, <2>1 DEF TargetInv, EntryOK, Valid, LiveSlots
  <2> QED
    BY <1>1, <1>2, <1>5, <2>1, <2>2, Zenon DEF StillServed, StillValid, Valid
<1>9. ASSUME NEW i \in LiveSlots', req'[i].state = "Pending"
      PROVE  Carried(i) /\ req[i].state = "Pending" /\ \A t \in Table : IdOf(i) \notin X[t]
  <2>1. i \in LiveSlots /\ i \in Slots
    BY <1>2 DEF LiveSlots
  <2>2. \A t \in Table : IdOf(i) \notin X[t]
    BY <1>1, <1>4, <1>6, <1>9, <2>1 DEF Leaving, IsTerminal
  <2> QED
    BY <1>1, <1>2, <1>5, <1>9, <2>1, <2>2, Zenon DEF Carried
<1>10. ASSUME NEW i \in LiveSlots', Busy(req'[i])
       PROVE  Carried(i) /\ Busy(req[i]) /\ \A t \in Table : IdOf(i) \notin Y[t]
  <2>1. i \in LiveSlots /\ i \in Slots
    BY <1>2 DEF LiveSlots
  <2>2. Busy(new[i])
    BY <1>1, <1>10, Zenon
  <2>3. \A t \in Table : IdOf(i) \notin Y[t]
    BY <1>4, <1>6, <2>1, <2>2, Zenon DEF Leaving
  <2> QED
    BY <1>1, <1>2, <1>5, <2>1, <2>2, <2>3, Zenon DEF Carried
<1>11. cursor' \in Table /\ targets' = [t \in Table |-> targets'[t]]
  BY <1>1 DEF TargetInv
<1> QED
  BY <1>3, <1>7, <1>8, <1>9, <1>10, <1>11, ShrinkStep, Zenon

-----------------------------------------------------------------------------
(* The actions a call pushes                                               *)

\* An action is told apart by its kind and its slot.
Key == [a \in Action |-> <<a.kind, a.id.slot>>]

\* The sequence s holds one action for each kind of ks that becomes queued when
\* the request of slot i turns from old to r, and no other.
Offers(s, i, old, r, ks) ==
    /\ s \in Seq(Action)
    /\ Distinct(s, Key)
    /\ \A a \in DOMAIN s : /\ s[a].id = IdOf(i)
                           /\ s[a].kind \in ks
                           /\ Flag(old, s[a].kind) # "queued"
                           /\ Flag(r, s[a].kind) = "queued"
    /\ \A k \in ks : Flag(old, k) # "queued" /\ Flag(r, k) = "queued" =>
          \E a \in DOMAIN s : s[a].kind = k

\* One action offered for a slot.
LEMMA OffersOne ==
    ASSUME SlotInv, NEW i \in Slots, NEW old, NEW r, NEW k \in Kinds, NEW st \in States \cup {None},
           NEW before, before = Flag(old, k), NEW after, after = Flag(r, k)
    PROVE  Offers(IF before # "queued" /\ after = "queued"
                  THEN <<[kind |-> k, id |-> IdOf(i), state |-> st]>> ELSE <<>>, i, old, r, {k})
<1> DEFINE a == [kind |-> k, id |-> IdOf(i), state |-> st]
<1>1. a \in Action /\ a.kind = k /\ a.id = IdOf(i)
  BY IdFacts DEF Action, Kinds
<1> HIDE DEF a
<1>2. CASE before # "queued" /\ after = "queued"
  <2>1. <<a>> \in Seq(Action) /\ DOMAIN <<a>> = {1} /\ <<a>>[1] = a
    BY <1>1
  <2>2. Offers(<<a>>, i, old, r, {k})
    BY <1>1, <1>2, <2>1, Zenon DEF Offers, Distinct
  <2> QED
    BY <1>2, <2>2 DEF a
<1>3. CASE ~(before # "queued" /\ after = "queued")
  <2>1. <<>> \in Seq(Action) /\ DOMAIN <<>> = {}
    OBVIOUS
  <2>2. Offers(<<>>, i, old, r, {k})
    BY <1>3, <2>1, Zenon DEF Offers, Distinct
  <2> QED
    BY <1>3, <2>2
<1> QED
  BY <1>2, <1>3

\* Actions offered one batch after the other.
LEMMA OffersCat ==
    ASSUME NEW s, NEW t, NEW i, NEW old, NEW r, NEW A, NEW B, A \cap B = {},
           Offers(s, i, old, r, A), Offers(t, i, old, r, B)
    PROVE  Offers(s \o t, i, old, r, A \cup B)
<1> DEFINE u == s \o t
<1>1. s \in Seq(Action) /\ t \in Seq(Action)
  BY DEF Offers
<1>2. u \in Seq(Action) /\ IsCat(u, s, t)
  BY <1>1, CatPlaces, Zenon
<1>3. Distinct(u, Key)
  <2>1. ASSUME NEW m \in DOMAIN s, NEW n \in DOMAIN t PROVE Key[s[m]] # Key[t[n]]
    <3>1. s[m] \in Action /\ t[n] \in Action
      BY <1>1
    <3>2. s[m].kind # t[n].kind
      BY DEF Offers
    <3>3. Key[s[m]] = <<s[m].kind, s[m].id.slot>> /\ Key[t[n]] = <<t[n].kind, t[n].id.slot>>
      BY <3>1, Zenon DEF Key
    <3> QED
      BY <3>2, <3>3
  <2>2. Apart(s, t, Key)
    BY <2>1, Zenon DEF Apart
  <2> QED
    BY <1>1, <2>2, CatDistinct, Zenon DEF Offers
<1> HIDE DEF u
<1>4. ASSUME NEW a \in DOMAIN u
      PROVE  /\ u[a].id = IdOf(i) /\ u[a].kind \in A \cup B
             /\ Flag(old, u[a].kind) # "queued" /\ Flag(r, u[a].kind) = "queued"
  <2>1. CASE a \in DOMAIN s /\ u[a] = s[a]
    BY <2>1, Zenon DEF Offers
  <2>2. CASE a - Len(s) \in DOMAIN t /\ u[a] = t[a - Len(s)]
    BY <2>2, Zenon DEF Offers
  <2> QED
    BY <1>2, <2>1, <2>2, Zenon DEF IsCat
<1>5. ASSUME NEW k \in A \cup B, Flag(old, k) # "queued", Flag(r, k) = "queued"
      PROVE  \E a \in DOMAIN u : u[a].kind = k
  <2>1. CASE k \in A
    <3>1. PICK a \in DOMAIN s : s[a].kind = k
      BY <1>5, <2>1, Zenon DEF Offers
    <3>2. a \in DOMAIN u /\ u[a] = s[a]
      BY <1>2, Zenon DEF IsCat
    <3> QED
      BY <3>1, <3>2, Zenon
  <2>2. CASE k \in B
    <3>1. PICK a \in DOMAIN t : t[a].kind = k
      BY <1>5, <2>2, Zenon DEF Offers
    <3>2. a + Len(s) \in DOMAIN u /\ u[a + Len(s)] = t[a]
      BY <1>2, Zenon DEF IsCat
    <3> QED
      BY <3>1, <3>2, Zenon
  <2> QED
    BY <2>1, <2>2
<1>6. Offers(u, i, old, r, A \cup B)
  BY <1>2, <1>3, <1>4, <1>5, Zenon DEF Offers
<1> QED
  BY <1>6 DEF u

\* What a changed request adds to the action queue.
LEMMA EmitOffers ==
    ASSUME SlotInv, NEW i \in Slots, NEW old \in Request, NEW r \in Request
    PROVE  Offers(Emit(i, old, r), i, old, r, Kinds)
<1> DEFINE act(kind, st) == [kind |-> kind, id |-> IdOf(i), state |-> st]
           c == IF old.cancel # "queued" /\ r.cancel = "queued" THEN <<act("cancel", None)>> ELSE <<>>
           p == IF old.publish # "queued" /\ r.publish = "queued" THEN <<act("publish", r.state)>> ELSE <<>>
           q == IF old.release # "queued" /\ r.release = "queued" THEN <<act("release", None)>> ELSE <<>>
<1>1. Emit(i, old, r) = (c \o p) \o q
  BY NoneAssumption DEF Emit
<1>2. \A x : /\ x.cancel = Flag(x, "cancel") /\ x.publish = Flag(x, "publish")
             /\ x.release = Flag(x, "release")
  BY DEF Flag
<1>3. r.state \in States /\ "cancel" \in Kinds /\ "publish" \in Kinds /\ "release" \in Kinds
  BY DEF Request, Kinds
<1>4. Offers(c, i, old, r, {"cancel"})
  <2>1. old.cancel = Flag(old, "cancel") /\ r.cancel = Flag(r, "cancel")
    BY <1>2, Zenon
  <2> QED
    BY <1>3, <2>1, OffersOne, Zenon
<1>5. Offers(p, i, old, r, {"publish"})
  <2>1. old.publish = Flag(old, "publish") /\ r.publish = Flag(r, "publish")
    BY <1>2, Zenon
  <2> QED
    BY <1>3, <2>1, OffersOne, ZenonT(60)
<1>6. Offers(q, i, old, r, {"release"})
  <2>1. old.release = Flag(old, "release") /\ r.release = Flag(r, "release")
    BY <1>2, Zenon
  <2> QED
    BY <1>3, <2>1, OffersOne, Zenon
<1> HIDE DEF c, p, q
<1>7. Offers(c \o p, i, old, r, {"cancel"} \cup {"publish"})
  <2>1. {"cancel"} \cap {"publish"} = {}
    OBVIOUS
  <2> QED
    BY <1>4, <1>5, <2>1, OffersCat, Zenon
<1>8. Offers((c \o p) \o q, i, old, r, ({"cancel"} \cup {"publish"}) \cup {"release"})
  <2>1. ({"cancel"} \cup {"publish"}) \cap {"release"} = {}
    OBVIOUS
  <2> QED
    BY <1>6, <1>7, <2>1, OffersCat, Zenon
<1>9. ({"cancel"} \cup {"publish"}) \cup {"release"} = Kinds
  BY DEF Kinds
<1> QED
  BY <1>1, <1>8, <1>9, Zenon

\* The flags of a request that evolves.
LEMMA FlagsKept ==
    ASSUME NEW r \in Request, NEW e, NEW s, Evolves(r, e, s), NEW k \in Kinds,
           Flag(r, k) = "queued"
    PROVE  Flag(e, k) = "queued" \/ (k = "cancel" /\ r.cancel = "queued" /\ e.cancel = "idle")
<1>1. e.cancel \in {"idle", "queued", "dispatched"}
  BY DEF Evolves, Request, Flags
<1> QED
  BY <1>1 DEF Evolves, Flag, Kinds

\* The queue after a call that changes requests in place: old actions that were
\* not withdrawn, then the new ones.
LEMMA ChangeQueue ==
    ASSUME SlotInv, actions \in Seq(Action), QueueInv, NEW new, NEW S, ChangeOK(new, S), Change(new, S)
    PROVE  QueueInv'
<1> DEFINE kept == [n \in DOMAIN actions |-> Kept(actions[n], new)]
           added == [i \in Slots |-> Emit(i, req[i], new[i])]
           old == Concat(kept)
           fresh == Concat(added)
<1>1. /\ actions' = old \o fresh
      /\ req' = new /\ gen' = gen /\ retired' = retired
  BY DEF Change
<1>2. /\ \A i \in LiveSlots : req[i] \in Request /\ new[i] \in Request /\ new[i] # None
      /\ \A i \in LiveSlots : Evolves(req[i], new[i], i \in S)
      /\ LiveSlots' = LiveSlots
  <2>1. \A i \in LiveSlots : Evolves(req[i], new[i], i \in S) /\ new[i] # None /\ new[i] \in Request
    BY NoneAssumption, Zenon DEF ChangeOK, Evolves
  <2>2. LiveSlots' = LiveSlots
    BY <1>1, <2>1 DEF ChangeOK, LiveSlots
  <2>3. \A i \in LiveSlots : req[i] \in Request
    BY DEF LiveSlots, SlotInv, SlotTypes
  <2> QED
    BY <2>1, <2>2, <2>3, Zenon
<1>3. /\ kept \in Seq(Seq(Action)) /\ Len(kept) = Len(actions) /\ DOMAIN actions = 1..Len(actions)
      /\ \A n \in DOMAIN actions : actions[n] \in Action
      /\ \A n \in DOMAIN actions :
            /\ \A a \in DOMAIN kept[n] : kept[n][a] = actions[n] /\ ~Withdrawn(actions[n], new) /\ a = 1
            /\ ~Withdrawn(actions[n], new) => 1 \in DOMAIN kept[n] /\ kept[n][1] = actions[n]
  <2>1. DOMAIN actions = 1..Len(actions) /\ Len(actions) \in Nat /\ \A n \in DOMAIN actions : actions[n] \in Action
    OBVIOUS
  <2>2. \A n \in DOMAIN actions : Kept(actions[n], new) \in Seq(Action)
    BY <2>1 DEF Kept
  <2>3. kept \in [1..Len(actions) -> Seq(Action)]
    BY <2>1, <2>2, Zenon
  <2>4. \A n \in DOMAIN actions : kept[n] = Kept(actions[n], new)
    BY Zenon
  <2> HIDE DEF kept
  <2>5. kept \in Seq(Seq(Action)) /\ Len(kept) = Len(actions)
    BY <2>1, <2>3
  <2>6. ASSUME NEW n \in DOMAIN actions
        PROVE  /\ \A a \in DOMAIN kept[n] : kept[n][a] = actions[n] /\ ~Withdrawn(actions[n], new) /\ a = 1
               /\ ~Withdrawn(actions[n], new) => 1 \in DOMAIN kept[n] /\ kept[n][1] = actions[n]
    <3>1. CASE Withdrawn(actions[n], new)
      <4>1. kept[n] = <<>>
        BY <2>4, <3>1, Zenon DEF Kept
      <4>2. DOMAIN <<>> = {}
        OBVIOUS
      <4> QED
        BY <3>1, <4>1, <4>2, Zenon
    <3>2. CASE ~Withdrawn(actions[n], new)
      <4>1. PICK a : a = actions[n]
        OBVIOUS
      <4>2. kept[n] = <<a>>
        BY <2>4, <3>2, <4>1, Zenon DEF Kept
      <4>3. DOMAIN <<a>> = {1} /\ <<a>>[1] = a
        OBVIOUS
      <4> QED
        BY <3>2, <4>1, <4>2, <4>3, Zenon
    <3> QED
      BY <3>1, <3>2
  <2> QED
    BY <2>1, <2>5, <2>6, Zenon
<1>4. /\ added \in Seq(Seq(Action)) /\ Len(added) = Capacity /\ Slots = 1..Capacity
      /\ \A i \in Slots \ LiveSlots : DOMAIN added[i] = {}
      /\ \A i \in LiveSlots : Offers(added[i], i, req[i], new[i], Kinds)
  <2>1. ASSUME NEW i \in LiveSlots PROVE Offers(added[i], i, req[i], new[i], Kinds)
    BY <1>2, EmitOffers, Zenon DEF LiveSlots
  <2>2. ASSUME NEW i \in Slots \ LiveSlots PROVE added[i] = <<>>
    BY DEF Emit, LiveSlots
  <2>3. \A i \in Slots : added[i] \in Seq(Action)
    <3>1. <<>> \in Seq(Action)
      OBVIOUS
    <3> HIDE DEF added
    <3> QED
      BY <2>1, <2>2, <3>1, Zenon DEF Offers
  <2>4. added \in [1..Capacity -> Seq(Action)]
    BY <2>3, Zenon DEF Slots
  <2> HIDE DEF added
  <2>5. added \in Seq(Seq(Action)) /\ Len(added) = Capacity
    BY <2>4, SizeAssumption
  <2>6. DOMAIN <<>> = {}
    OBVIOUS
  <2> QED
    BY <2>1, <2>2, <2>5, <2>6, Zenon DEF Slots
<1> HIDE DEF kept, added
<1>5. /\ old \in Seq(Action) /\ Gathers(old, kept, Len(actions))
      /\ fresh \in Seq(Action) /\ Gathers(fresh, added, Capacity)
  <2>1. old \in Seq(Action) /\ Gathers(old, kept, Len(kept))
    BY <1>3, ConcatType, ConcatElements, Zenon
  <2>2. fresh \in Seq(Action) /\ Gathers(fresh, added, Len(added))
    BY <1>4, ConcatType, ConcatElements, Zenon
  <2> QED
    BY <1>3, <1>4, <2>1, <2>2, Zenon
<1>6. \A x \in Action : Key[x] = <<x.kind, x.id.slot>>
  BY Zenon DEF Key
<1>7. \A n \in DOMAIN actions :
          /\ actions[n].id.slot \in LiveSlots
          /\ Flag(req[actions[n].id.slot], actions[n].kind) = "queued"
  BY DEF QueueInv, Valid, LiveSlots
<1>8. ASSUME NEW m \in DOMAIN old
      PROVE  \E n \in DOMAIN actions : old[m] = actions[n] /\ ~Withdrawn(actions[n], new)
  <2>1. PICK n \in 1..Len(actions) : \E a \in DOMAIN kept[n] : old[m] = kept[n][a]
    BY <1>5, Zenon DEF Gathers
  <2> QED
    BY <1>3, <2>1, Zenon
<1>9. ASSUME NEW m \in DOMAIN fresh
      PROVE  \E i \in LiveSlots : /\ fresh[m].id = IdOf(i) /\ fresh[m].kind \in Kinds
                                  /\ Flag(req[i], fresh[m].kind) # "queued"
                                  /\ Flag(new[i], fresh[m].kind) = "queued"
  <2>1. PICK i \in 1..Capacity : \E a \in DOMAIN added[i] : fresh[m] = added[i][a]
    BY <1>5, Zenon DEF Gathers
  <2>2. PICK a \in DOMAIN added[i] : fresh[m] = added[i][a]
    BY <2>1
  <2>3. i \in LiveSlots
    BY <1>4, <2>2
  <2>4. Offers(added[i], i, req[i], new[i], Kinds)
    BY <1>4, <2>3
  <2> QED
    BY <2>2, <2>3, <2>4, ZenonT(60) DEF Offers
<1>10. Distinct(old, Key)
  <2>1. ASSUME NEW n \in 1..Len(kept) PROVE Distinct(kept[n], Key)
    <3>1. \A a \in DOMAIN kept[n] : a = 1
      BY <1>3, Zenon
    <3> QED
      BY <3>1, Zenon DEF Distinct
  <2>2. ASSUME NEW m \in 1..Len(kept), NEW n \in 1..Len(kept), m # n
        PROVE  Apart(kept[m], kept[n], Key)
    <3>1. SUFFICES ASSUME NEW a \in DOMAIN kept[m], NEW b \in DOMAIN kept[n]
                   PROVE  Key[kept[m][a]] # Key[kept[n][b]]
      BY Zenon DEF Apart
    <3>2. m \in DOMAIN actions /\ n \in DOMAIN actions
      BY <1>3, Zenon
    <3>3. kept[m][a] = actions[m] /\ kept[n][b] = actions[n]
      BY <1>3, <3>2, Zenon
    <3>4. actions[m].kind # actions[n].kind \/ actions[m].id.slot # actions[n].id.slot
      BY <2>2, <3>2, Zenon DEF QueueInv
    <3>5. actions[m] \in Action /\ actions[n] \in Action
      BY <1>3, <3>2, Zenon
    <3>6. Key[actions[m]] # Key[actions[n]]
      BY <1>6, <3>4, <3>5
    <3> QED
      BY <3>3, <3>6, Zenon
  <2> QED
    BY <1>3, <2>1, <2>2, ConcatDistinct, Zenon
<1>11. Distinct(fresh, Key)
  <2>1. ASSUME NEW i \in 1..Len(added) PROVE Distinct(added[i], Key)
    <3>1. CASE i \in LiveSlots
      BY <1>4, <3>1, Zenon DEF Offers
    <3>2. CASE i \notin LiveSlots
      BY <1>4, <3>2, Zenon DEF Distinct
    <3> QED
      BY <3>1, <3>2
  <2>2. ASSUME NEW i \in 1..Len(added), NEW j \in 1..Len(added), i # j
        PROVE  Apart(added[i], added[j], Key)
    <3>1. SUFFICES ASSUME NEW a \in DOMAIN added[i], NEW b \in DOMAIN added[j]
                   PROVE  Key[added[i][a]] # Key[added[j][b]]
      BY Zenon DEF Apart
    <3>2. i \in LiveSlots /\ j \in LiveSlots /\ i \in Slots /\ j \in Slots
      BY <1>4, Zenon
    <3>3. Offers(added[i], i, req[i], new[i], Kinds) /\ Offers(added[j], j, req[j], new[j], Kinds)
      BY <1>4, <3>2, Zenon
    <3>4. added[i][a].id.slot = i /\ added[j][b].id.slot = j
      <4>1. added[i][a].id = IdOf(i) /\ added[j][b].id = IdOf(j)
        BY <3>3, Zenon DEF Offers
      <4> QED
        BY <3>2, <4>1, IdFacts, Zenon
    <3>5. added[i][a] \in Action /\ added[j][b] \in Action
      <4>1. added[i] \in Seq(Action) /\ added[j] \in Seq(Action)
        BY <3>3, Zenon DEF Offers
      <4> QED
        BY <4>1
    <3> QED
      BY <1>6, <2>2, <3>4, <3>5
  <2> QED
    BY <1>4, <2>1, <2>2, ConcatDistinct, Zenon
<1>12. Apart(old, fresh, Key)
  <2>1. SUFFICES ASSUME NEW m \in DOMAIN old, NEW n \in DOMAIN fresh
                 PROVE  Key[old[m]] # Key[fresh[n]]
    BY Zenon DEF Apart
  <2>2. old[m] \in Action /\ fresh[n] \in Action
    BY <1>5
  <2>3. Flag(req[old[m].id.slot], old[m].kind) = "queued"
    BY <1>7, <1>8, Zenon
  <2>4. PICK i \in LiveSlots : fresh[n].id = IdOf(i) /\ Flag(req[i], fresh[n].kind) # "queued"
    BY <1>9, Zenon
  <2>5. fresh[n].id.slot = i
    BY <2>4, IdFacts, Zenon DEF LiveSlots
  <2>6. ~(old[m].kind = fresh[n].kind /\ old[m].id.slot = fresh[n].id.slot)
    BY <2>3, <2>4, <2>5, Zenon
  <2> QED
    BY <1>6, <2>2, <2>6
<1>13. actions' \in Seq(Action) /\ IsCat(actions', old, fresh) /\ Distinct(actions', Key)
  <2>1. old \o fresh \in Seq(Action) /\ IsCat(old \o fresh, old, fresh)
    BY <1>5, CatPlaces, Zenon
  <2>2. Distinct(old \o fresh, Key)
    BY <1>5, <1>10, <1>11, <1>12, CatDistinct, Zenon
  <2> QED
    BY <1>1, <2>1, <2>2, Zenon
<1> HIDE DEF old, fresh
<1>14. ASSUME NEW m \in DOMAIN actions', NEW n \in DOMAIN actions',
              actions'[m].kind = actions'[n].kind, actions'[m].id.slot = actions'[n].id.slot
       PROVE  m = n
  <2>1. actions'[m] \in Action /\ actions'[n] \in Action
    BY <1>13
  <2>2. Key[actions'[m]] = Key[actions'[n]]
    BY <1>6, <1>14, <2>1, Zenon
  <2> QED
    BY <1>13, <2>2, Zenon DEF Distinct
<1>15. ASSUME NEW x, \E n \in DOMAIN actions' : x = actions'[n]
       PROVE  /\ x.id.slot \in Slots /\ ~retired'[x.id.slot] /\ gen'[x.id.slot] = x.id.gen
              /\ req'[x.id.slot] # None
              /\ Flag(req'[x.id.slot], x.kind) = "queued"
  <2>1. PICK n \in DOMAIN actions' : x = actions'[n]
    BY <1>15
  <2>2. CASE n \in DOMAIN old /\ actions'[n] = old[n]
    <3>1. PICK m \in DOMAIN actions : x = actions[m] /\ ~Withdrawn(x, new)
      BY <1>8, <2>1, <2>2, Zenon
    <3>2. x.kind \in Kinds /\ Valid(x.id) /\ x.id.slot \in LiveSlots /\ Flag(req[x.id.slot], x.kind) = "queued"
      <4>1. x \in Action
        BY <1>3, <3>1, Zenon
      <4>2. x.kind \in Kinds
        BY <4>1 DEF Action, Kinds
      <4> QED
        BY <1>7, <3>1, <4>2, Zenon DEF QueueInv
    <3>3. Flag(new[x.id.slot], x.kind) = "queued"
          \/ (x.kind = "cancel" /\ req[x.id.slot].cancel = "queued" /\ new[x.id.slot].cancel = "idle")
      <4>1. PICK r, e, s : r = req[x.id.slot] /\ e = new[x.id.slot] /\ s = (x.id.slot \in S)
        OBVIOUS
      <4>2. r \in Request /\ Evolves(r, e, s) /\ Flag(r, x.kind) = "queued"
        BY <1>2, <3>2, <4>1, Zenon
      <4>3. Flag(e, x.kind) = "queued" \/ (x.kind = "cancel" /\ r.cancel = "queued" /\ e.cancel = "idle")
        BY <3>2, <4>2, FlagsKept, Zenon
      <4> QED
        BY <4>1, <4>3, Zenon
    <3>4. Flag(new[x.id.slot], x.kind) = "queued"
      BY <3>1, <3>2, <3>3, Zenon DEF Withdrawn, LiveSlots
    <3> QED
      BY <1>1, <1>2, <3>2, <3>4, Zenon DEF Valid
  <2>3. CASE n - Len(old) \in DOMAIN fresh /\ actions'[n] = fresh[n - Len(old)]
    <3>1. PICK i \in LiveSlots : x.id = IdOf(i) /\ Flag(new[i], x.kind) = "queued"
      BY <1>9, <2>1, <2>3, ZenonT(60)
    <3>2. x.id.slot = i /\ x.id.gen = gen[i] /\ i \in Slots /\ ~retired[i]
      BY <3>1, IdFacts DEF LiveSlots, SlotInv
    <3> QED
      BY <1>1, <1>2, <3>1, <3>2, Zenon
  <2> QED
    BY <1>13, <2>2, <2>3, Zenon DEF IsCat
<1>16. ASSUME NEW i \in LiveSlots', NEW k \in Kinds, Flag(req'[i], k) = "queued"
       PROVE  \E n \in DOMAIN actions' : actions'[n].kind = k /\ actions'[n].id.slot = i
  <2>1. i \in LiveSlots /\ i \in Slots /\ Flag(new[i], k) = "queued"
    BY <1>1, <1>2, <1>16 DEF LiveSlots
  <2>2. CASE Flag(req[i], k) = "queued"
    <3>1. PICK m \in DOMAIN actions : actions[m].kind = k /\ actions[m].id.slot = i
      BY <2>1, <2>2, Zenon DEF QueueInv
    <3>2. ~Withdrawn(actions[m], new)
      BY <2>1, <3>1 DEF Withdrawn, Flag
    <3>3. m \in 1..Len(actions) /\ 1 \in DOMAIN kept[m] /\ kept[m][1] = actions[m]
      BY <1>3, <3>2, Zenon
    <3>4. PICK n \in DOMAIN old : old[n] = kept[m][1]
      BY <1>5, <3>3, Zenon DEF Gathers
    <3>5. n \in DOMAIN actions' /\ actions'[n] = actions[m]
      BY <1>13, <3>3, <3>4, Zenon DEF IsCat
    <3> QED
      BY <3>1, <3>5, Zenon
  <2>3. CASE Flag(req[i], k) # "queued"
    <3>1. PICK a \in DOMAIN added[i] : added[i][a].kind = k /\ added[i][a].id = IdOf(i)
      BY <1>4, <2>1, <2>3, Zenon DEF Offers
    <3>2. i \in 1..Capacity
      BY <1>4, <2>1
    <3>3. PICK n \in DOMAIN fresh : fresh[n] = added[i][a]
      BY <1>5, <3>2, Zenon DEF Gathers
    <3>4. n + Len(old) \in DOMAIN actions' /\ actions'[n + Len(old)] = added[i][a]
      BY <1>13, <3>3, Zenon DEF IsCat
    <3>5. added[i][a].id.slot = i
      BY <2>1, <3>1, IdFacts, Zenon
    <3> QED
      BY <3>1, <3>4, <3>5, Zenon
  <2> QED
    BY <2>2, <2>3
<1>17. \A n \in DOMAIN actions' : /\ Valid(actions[n].id)'
                                  /\ Flag(req'[actions'[n].id.slot], actions'[n].kind) = "queued"
  BY <1>15, Zenon DEF Valid
<1> QED
  BY <1>14, <1>16, <1>17, Zenon DEF QueueInv

\* Change neither issues nor retires ids, and keeps the targets of the requests.
LEMMA ChangeFacts ==
    ASSUME SlotInv, NEW new, NEW S, ChangeOK(new, S), Change(new, S)
    PROVE  /\ UNCHANGED <<gen, retired, published, freed>> /\ req' = new
           /\ \A i \in LiveSlots : Evolves(req[i], new[i], i \in S)
           /\ \A i \in Slots : req'[i] = None <=> req[i] = None
<1>1. req' = new /\ UNCHANGED <<gen, retired, published, freed>>
  BY Zenon DEF Change
<1>2. \A i \in LiveSlots : Evolves(req[i], new[i], i \in S)
  BY Zenon DEF ChangeOK
<1>3. \A i \in LiveSlots : new[i] # None
  BY <1>2, NoneAssumption, Zenon DEF Evolves
<1> QED
  BY <1>1, <1>2, <1>3, Zenon DEF ChangeOK, LiveSlots

\* Such a call publishes, frees and retires nothing.
LEMMA ChangeHistory ==
    ASSUME SlotInv, HistoryInv, NEW new, NEW S, ChangeOK(new, S), Change(new, S)
    PROVE  HistoryInv'
<1>1. /\ UNCHANGED <<gen, retired, published, freed>> /\ req' = new
      /\ \A i \in LiveSlots : Evolves(req[i], new[i], i \in S)
      /\ \A i \in Slots : req'[i] = None <=> req[i] = None
  BY ChangeFacts, Zenon
<1>2. /\ LiveSlots' = LiveSlots /\ Issued' = Issued
      /\ \A i \in Slots : IdOf(i)' = IdOf(i)
      /\ \A id \in Id : Valid(id)' <=> Valid(id)
  BY <1>1, SameIds, Zenon
<1>3. \A i \in LiveSlots : /\ req[i].publish = "dispatched" <=> req'[i].publish = "dispatched"
                           /\ req'[i].res = "Released" => req[i].res = "Released"
  BY <1>1, Zenon DEF Evolves
<1>4. \A i \in LiveSlots : i \in Slots
  BY DEF LiveSlots
<1>5. \A id \in Issued : id \in Id
  BY DEF Issued
<1>6. \A id \in Issued' : Valid(id)' \/ id \in freed' \cap published'
  BY <1>1, <1>2, <1>5, Zenon DEF HistoryInv
<1>7. \A i \in LiveSlots' : /\ IdOf(i)' \in published' <=> req'[i].publish = "dispatched"
                            /\ req'[i].res = "Released" => IdOf(i)' \in freed'
  BY <1>1, <1>2, <1>3, <1>4, Zenon DEF HistoryInv
<1> QED
  BY <1>1, <1>2, <1>6, <1>7, Zenon DEF HistoryInv

\* Such a call moves no request to another target.
LEMMA ChangeQuota ==
    ASSUME SlotInv, QuotaInv, NEW new, NEW S, ChangeOK(new, S), Change(new, S)
    PROVE  QuotaInv'
<1>1. /\ UNCHANGED <<gen, retired>> /\ req' = new
      /\ \A i \in LiveSlots : Evolves(req[i], new[i], i \in S)
      /\ \A i \in Slots : req'[i] = None <=> req[i] = None
  BY ChangeFacts, Zenon
<1>2. LiveSlots' = LiveSlots
  BY <1>1, SameIds, Zenon
<1>3. \A i \in LiveSlots : req'[i].target = req[i].target
  BY <1>1, Zenon DEF Evolves
<1>4. \A x : TargetSlots(x)' = TargetSlots(x)
  BY <1>2, <1>3 DEF TargetSlots
<1> QED
  BY <1>4, Zenon DEF QuotaInv

\* A call that changes requests in place keeps the invariant.
LEMMA ChangeKeeps ==
    ASSUME IInv, QInv, NEW new, NEW S, ChangeOK(new, S), Change(new, S)
    PROVE  QInv'
<1>1. SlotInv /\ actions \in Seq(Action)
  <2>1. Offered \subseteq Action
    BY DEF Offered
  <2> QED
    BY <2>1, SeqWider DEF IInv
<1> QED
  BY <1>1, ChangeTargets, ChangeQueue, ChangeHistory, ChangeQuota, Zenon DEF QInv

-----------------------------------------------------------------------------
(* The calls that change requests in place                                 *)

\* apply_completion.
LEMMA CompletedEvolves ==
    ASSUME NEW r \in Request, NEW c
    PROVE  Evolves(r, Completed(r, c), TRUE)
<1> DEFINE stopped == IF c.released THEN DeviceStopped(r) ELSE r
           s == IF r.state = "CancelPending" THEN WithdrawCancel(stopped) ELSE stopped
           st == IF c.ok THEN "Completed" ELSE "Failed"
<1>1. Evolves(r, stopped, TRUE)
  BY ReleaseEvolves, EvolvesRefl, Zenon
<1>2. stopped \in Request
  BY <1>1, Zenon DEF Evolves
<1>3. Completed(r, c) = IF IsTerminal(r) THEN IF c.released THEN QueueRelease(stopped) ELSE r
                        ELSE FinishTerminal(s, st)
  BY DEF Completed
<1> HIDE DEF stopped
<1>4. Evolves(stopped, s, TRUE)
  BY <1>2, FlagsEvolve, EvolvesRefl, Zenon
<1>5. Evolves(r, s, TRUE) /\ s \in Request
  <2>1. Evolves(r, s, TRUE)
    BY <1>1, <1>4, EvolvesTrans, Zenon
  <2> QED
    BY <2>1, Zenon DEF Evolves
<1> HIDE DEF s
<1>6. st \in TerminalStates
  BY DEF TerminalStates
<1> HIDE DEF st
<1>7. Evolves(r, FinishTerminal(s, st), TRUE)
  BY <1>5, <1>6, FinishEvolves, EvolvesTrans, Zenon
<1>8. Evolves(r, QueueRelease(stopped), TRUE)
  BY <1>1, <1>2, ReleaseEvolves, EvolvesTrans, Zenon
<1> QED
  BY <1>3, <1>7, <1>8, EvolvesRefl, Zenon

\* apply_timeout.
LEMMA TimedOutEvolves ==
    ASSUME NEW r \in Request
    PROVE  Evolves(r, TimedOut(r), TRUE)
<1> DEFINE a == [r EXCEPT !.cancelRequested = TRUE]
           s == IF r.started THEN QueueCancel(a) ELSE r
<1>1. TimedOut(r) = FinishTerminal(s, "TimedOut") /\ "TimedOut" \in TerminalStates
  BY DEF TimedOut, TerminalStates
<1>2. Evolves(r, a, TRUE)
  BY FlagsEvolve, Zenon
<1>3. a \in Request
  BY <1>2, Zenon DEF Evolves
<1> HIDE DEF a
<1>4. Evolves(a, QueueCancel(a), TRUE)
  BY <1>3, FlagsEvolve, Zenon
<1>5. Evolves(r, s, TRUE)
  BY <1>2, <1>4, EvolvesTrans, EvolvesRefl, Zenon
<1>6. s \in Request
  BY <1>5, Zenon DEF Evolves
<1> HIDE DEF s
<1> QED
  BY <1>1, <1>5, <1>6, FinishEvolves, EvolvesTrans, Zenon

\* request_cancel.
LEMMA CancelRequestEvolves ==
    ASSUME NEW r \in Request, r.state \in {"Pending", "Active"}
    PROVE  Evolves(r, CancelRequest(r), TRUE)
<1> DEFINE a == [r EXCEPT !.cancelRequested = TRUE]
           s == [a EXCEPT !.state = "CancelPending"]
<1>1. CancelRequest(r) = IF r.state = "Pending" THEN FinishTerminal(a, "Canceled") ELSE QueueCancel(s)
  BY DEF CancelRequest
<1>2. Evolves(r, a, TRUE)
  BY FlagsEvolve, Zenon
<1>3. a \in Request /\ a.state = r.state
  BY Zenon DEF Request
<1>4. "Canceled" \in TerminalStates
  BY DEF TerminalStates
<1> HIDE DEF a
<1>5. Evolves(r, FinishTerminal(a, "Canceled"), TRUE)
  BY <1>2, <1>3, <1>4, FinishEvolves, EvolvesTrans, Zenon
<1>6. ASSUME r.state = "Active" PROVE Evolves(r, QueueCancel(s), TRUE)
  <2>1. /\ s \in Request /\ s.state = "CancelPending"
        /\ s.target = a.target /\ s.res = a.res /\ s.cancel = a.cancel
        /\ s.publish = a.publish /\ s.release = a.release
    BY <1>3 DEF Request, States
  <2> HIDE DEF s
  <2>2. Evolves(a, s, TRUE)
    BY <1>3, <1>6, <2>1 DEF Evolves, Busy, IsTerminal, TerminalStates, Draining
  <2>3. Evolves(s, QueueCancel(s), TRUE)
    BY <2>1, FlagsEvolve, Zenon
  <2>4. Evolves(r, s, TRUE)
    BY <1>2, <2>2, EvolvesTrans, Zenon
  <2> QED
    BY <2>3, <2>4, EvolvesTrans, Zenon
<1> QED
  BY <1>1, <1>5, <1>6, Zenon

\* terminate_matching.
LEMMA OwnerTerminatedEvolves ==
    ASSUME NEW r \in Request
    PROVE  Evolves(r, OwnerTerminated(r), TRUE)
<1> DEFINE a == [r EXCEPT !.cancelRequested = TRUE]
           s == IF r.state = "Pending" THEN a ELSE QueueCancel(a)
<1>1. OwnerTerminated(r) = FinishTerminal(s, "OwnerTerminated") /\ "OwnerTerminated" \in TerminalStates
  BY DEF OwnerTerminated, TerminalStates
<1>2. Evolves(r, a, TRUE)
  BY FlagsEvolve, Zenon
<1>3. a \in Request
  BY <1>2, Zenon DEF Evolves
<1> HIDE DEF a
<1>4. Evolves(a, QueueCancel(a), TRUE)
  BY <1>3, FlagsEvolve, Zenon
<1>5. Evolves(r, s, TRUE)
  BY <1>2, <1>4, EvolvesTrans, EvolvesRefl, Zenon
<1>6. s \in Request
  BY <1>5, Zenon DEF Evolves
<1> HIDE DEF s
<1> QED
  BY <1>1, <1>5, <1>6, FinishEvolves, EvolvesTrans, Zenon

\* fail_device.
LEMMA DeviceFailedEvolves ==
    ASSUME NEW r \in Request, NEW stopped
    PROVE  Evolves(r, DeviceFailed(r, stopped), TRUE)
<1> DEFINE a == WithdrawCancel(r)
           s == IF stopped THEN DeviceStopped(a) ELSE a
<1>1. DeviceFailed(r, stopped) = IF IsTerminal(r) THEN QueueRelease(s) ELSE FinishTerminal(s, "Failed")
  BY DEF DeviceFailed
<1>2. Evolves(r, a, TRUE)
  BY FlagsEvolve, Zenon
<1>3. a \in Request
  BY <1>2, Zenon DEF Evolves
<1> HIDE DEF a
<1>4. Evolves(a, DeviceStopped(a), TRUE)
  BY <1>3, ReleaseEvolves, Zenon
<1>5. Evolves(r, s, TRUE)
  BY <1>2, <1>4, EvolvesTrans, Zenon
<1>6. s \in Request /\ "Failed" \in TerminalStates
  BY <1>5, Zenon DEF Evolves, TerminalStates
<1> HIDE DEF s
<1>7. Evolves(s, QueueRelease(s), TRUE) /\ Evolves(s, FinishTerminal(s, "Failed"), TRUE)
  BY <1>6, ReleaseEvolves, FinishEvolves, Zenon
<1>8. Evolves(r, QueueRelease(s), TRUE) /\ Evolves(r, FinishTerminal(s, "Failed"), TRUE)
  BY <1>5, <1>7, EvolvesTrans, Zenon
<1> QED
  BY <1>1, <1>8, Zenon

\* A call that changes the requests of the slots in S.
LEMMA ChangeMany ==
    ASSUME SlotInv, NEW S \in SUBSET LiveSlots, NEW new, new = [i \in Slots |-> new[i]],
           \A i \in Slots \ S : new[i] = req[i],
           \A i \in S : Evolves(req[i], new[i], TRUE)
    PROVE  ChangeOK(new, S)
<1>1. \A i \in LiveSlots : i \in Slots /\ req[i] \in Request /\ req[i] # None
  BY DEF LiveSlots, SlotInv, SlotTypes
<1>2. ASSUME NEW i \in LiveSlots PROVE Evolves(req[i], new[i], i \in S)
  <2>1. CASE i \in S
    <3>1. Evolves(req[i], new[i], TRUE)
      BY <2>1, Zenon
    <3> QED
      BY <2>1, <3>1, Zenon DEF Evolves
  <2>2. CASE i \notin S
    BY <1>1, <2>2, EvolvesRefl, Zenon
  <2> QED
    BY <2>1, <2>2
<1>3. \A i \in Slots : new[i] \in Request \cup {None} /\ (req[i] = None => new[i] = None)
  <2>1. \A i \in LiveSlots : new[i] \in Request
    BY <1>2, Zenon DEF Evolves
  <2>2. \A i \in Slots : i \notin LiveSlots => req[i] = None /\ i \notin S
    BY DEF LiveSlots
  <2> QED
    BY <1>1, <2>1, <2>2, Zenon
<1> QED
  BY <1>2, <1>3, Zenon DEF ChangeOK

\* A call that changes one request, and settles its target or not.
LEMMA ChangeSingle ==
    ASSUME SlotInv, NEW i \in LiveSlots, NEW r, NEW S, S \subseteq {i}, Evolves(req[i], r, i \in S)
    PROVE  ChangeOK([req EXCEPT ![i] = r], S)
<1> DEFINE new == [req EXCEPT ![i] = r]
<1>1. \A j \in LiveSlots : j \in Slots /\ req[j] \in Request /\ req[j] # None
  BY DEF LiveSlots, SlotInv, SlotTypes
<1>2. r \in Request /\ req = [j \in Slots |-> req[j]]
  BY Zenon DEF Evolves, SlotInv, SlotTypes
<1>3. new = [j \in Slots |-> IF j = i THEN r ELSE req[j]]
  BY <1>2
<1> HIDE DEF new
<1>4. \A j \in Slots : new[j] = IF j = i THEN r ELSE req[j]
  BY <1>3, Zenon
<1>5. ASSUME NEW j \in LiveSlots PROVE Evolves(req[j], new[j], j \in S)
  <2>1. CASE j = i
    BY <1>1, <1>4, <2>1, Zenon
  <2>2. CASE j # i
    BY <1>1, <1>4, <2>2, EvolvesRefl, Zenon
  <2> QED
    BY <2>1, <2>2
<1>6. \A j \in Slots : new[j] \in Request \cup {None} /\ (req[j] = None => new[j] = None)
  BY <1>1, <1>2, <1>4, Zenon DEF SlotInv, SlotTypes
<1>7. new \in [Slots -> Request \cup {None}]
  BY <1>3, <1>4, <1>6, Zenon
<1>8. S \subseteq LiveSlots
  OBVIOUS
<1>9. ChangeOK(new, S)
  BY <1>5, <1>6, <1>7, <1>8, Zenon DEF ChangeOK
<1> QED
  BY <1>9 DEF new

\* mark_device_owned.
LEMMA MarkQueues ==
    ASSUME IInv, QInv, NEW id, MarkDeviceOwned(id)
    PROVE  QInv'
<1> DEFINE i == id.slot
           r == [req[i] EXCEPT !.res = "DeviceOwned"]
<1>1. Valid(id) /\ req[i].state \in {"Active", "CancelPending"} /\ Change([req EXCEPT ![i] = r], {})
  BY Zenon DEF MarkDeviceOwned, ChangeOne
<1>2. SlotInv /\ i \in LiveSlots /\ req[i] \in Request
  BY <1>1, LiveFacts, Zenon DEF IInv
<1>3. Evolves(req[i], r, i \in {})
  <2>1. PICK o : o = req[i]
    OBVIOUS
  <2>2. o \in Request /\ o.state \in {"Active", "CancelPending"}
    BY <1>1, <1>2, <2>1, Zenon
  <2>3. Evolves(o, [o EXCEPT !.res = "DeviceOwned"], FALSE)
    BY <2>2 DEF Evolves, Request, ResourceStates, Busy, Draining, IsTerminal, TerminalStates
  <2> QED
    BY <2>1, <2>3 DEF Evolves
<1> HIDE DEF r
<1>4. ChangeOK([req EXCEPT ![i] = r], {})
  BY <1>2, <1>3, ChangeSingle
<1> QED
  BY <1>1, <1>4, ChangeKeeps, Zenon

\* run_worker applies a completion.
LEMMA CompletionQueues ==
    ASSUME IInv, QInv, ApplyCompletion, Valid(Head(completions).id)
    PROVE  QInv'
<1> DEFINE c == Head(completions)
           i == c.id.slot
           S == IF IsTerminal(req[i]) /\ ~c.released THEN {} ELSE {i}
           r == Completed(req[i], c)
<1>1. Change([req EXCEPT ![i] = r], S)
  BY Zenon DEF ApplyCompletion, ChangeOne
<1>2. SlotInv /\ i \in LiveSlots /\ req[i] \in Request
  BY LiveFacts, Zenon DEF IInv
<1>3. Evolves(req[i], r, i \in S)
  <2>1. CASE IsTerminal(req[i]) /\ ~c.released
    <3>1. r = req[i]
      BY <2>1, Zenon DEF Completed
    <3> QED
      BY <1>2, <3>1, EvolvesRefl, Zenon
  <2>2. CASE ~(IsTerminal(req[i]) /\ ~c.released)
    <3>1. i \in S
      BY <2>2
    <3>2. Evolves(req[i], r, TRUE)
      BY <1>2, CompletedEvolves, Zenon
    <3> QED
      BY <3>1, <3>2, Zenon DEF Evolves
  <2> QED
    BY <2>1, <2>2
<1>4. S \subseteq {i}
  OBVIOUS
<1> HIDE DEF r, S, c
<1>5. ChangeOK([req EXCEPT ![i] = r], S)
  BY <1>2, <1>3, <1>4, ChangeSingle, Zenon
<1> QED
  BY <1>1, <1>5, ChangeKeeps, Zenon

\* run_worker expires a deadline.
LEMMA TimeoutQueues ==
    ASSUME IInv, QInv, ApplyTimeout
    PROVE  QInv'
<1> DEFINE i == First.id.slot
           applies == Valid(First.id) /\ ~IsTerminal(req[i])
           new == [req EXCEPT ![i] = IF applies THEN TimedOut(@) ELSE @]
<1>1. Change(new, IF applies THEN {i} ELSE {})
  BY Zenon DEF ApplyTimeout
<1>2. CASE applies
  <2> DEFINE r == TimedOut(req[i])
  <2>1. Change([req EXCEPT ![i] = r], {i})
    BY <1>1, <1>2, Zenon
  <2>2. SlotInv /\ i \in LiveSlots /\ req[i] \in Request
    BY <1>2, LiveFacts, Zenon DEF IInv
  <2>3. Evolves(req[i], r, i \in {i})
    <3>1. Evolves(req[i], r, TRUE)
      BY <2>2, TimedOutEvolves, Zenon
    <3> QED
      BY <3>1, Zenon DEF Evolves
  <2> HIDE DEF r
  <2>4. ChangeOK([req EXCEPT ![i] = r], {i})
    BY <2>2, <2>3, ChangeSingle
  <2> QED
    BY <2>1, <2>4, ChangeKeeps, Zenon
<1>3. CASE ~applies
  <2>1. SlotInv /\ req = [j \in Slots |-> req[j]]
    BY Zenon DEF IInv, SlotInv, SlotTypes
  <2>2. new = req
    BY <1>3, <2>1
  <2>3. Change(req, {})
    BY <1>1, <1>3, <2>2, Zenon
  <2>4. ChangeOK(req, {})
    <3>1. {} \in SUBSET LiveSlots /\ \A j \in {} : Evolves(req[j], req[j], TRUE)
      OBVIOUS
    <3> QED
      BY <2>1, <3>1, ChangeMany, Zenon
  <2> QED
    BY <2>3, <2>4, ChangeKeeps, Zenon
<1> QED
  BY <1>2, <1>3

\* cancel.
LEMMA CancelQueues ==
    ASSUME IInv, QInv, NEW id, Cancel(id)
    PROVE  QInv'
<1> DEFINE i == id.slot
           r == CancelRequest(req[i])
<1>1. Valid(id) /\ Cancelable(i) /\ Change([req EXCEPT ![i] = r], {i})
  BY Zenon DEF Cancel, ChangeOne
<1>2. SlotInv /\ i \in LiveSlots /\ req[i] \in Request /\ req[i].state \in {"Pending", "Active"}
  BY <1>1, LiveFacts, Zenon DEF IInv, Cancelable
<1>3. Evolves(req[i], r, i \in {i})
  <2>1. Evolves(req[i], r, TRUE)
    BY <1>2, CancelRequestEvolves, Zenon
  <2> QED
    BY <2>1, Zenon DEF Evolves
<1> HIDE DEF r
<1>4. ChangeOK([req EXCEPT ![i] = r], {i})
  BY <1>2, <1>3, ChangeSingle
<1> QED
  BY <1>1, <1>4, ChangeKeeps, Zenon

\* acknowledge_cancel.
LEMMA AcknowledgeCancelQueues ==
    ASSUME IInv, QInv, NEW id, NEW stopped, AcknowledgeCancel(id, stopped)
    PROVE  QInv'
<1> DEFINE i == id.slot
           d == IF stopped THEN DeviceStopped(req[i]) ELSE req[i]
           f == FinishTerminal(d, "Canceled")
           q == QueueRelease(d)
<1>1. /\ Valid(id)
      /\ \/ Change([req EXCEPT ![i] = f], {i})
         \/ Change([req EXCEPT ![i] = q], {})
  BY Zenon DEF AcknowledgeCancel, ChangeOne
<1>2. SlotInv /\ i \in LiveSlots /\ req[i] \in Request
  BY <1>1, LiveFacts, Zenon DEF IInv
<1>3. Evolves(req[i], d, TRUE) /\ Evolves(req[i], d, FALSE)
  BY <1>2, ReleaseEvolves, EvolvesRefl, Zenon
<1>4. d \in Request /\ "Canceled" \in TerminalStates
  BY <1>3, Zenon DEF Evolves, TerminalStates
<1> HIDE DEF d
<1>5. Evolves(d, f, TRUE) /\ Evolves(d, q, FALSE)
  BY <1>4, FinishEvolves, ReleaseEvolves, Zenon
<1>6. Evolves(req[i], f, TRUE) /\ Evolves(req[i], q, FALSE)
  BY <1>3, <1>5, EvolvesTrans, ZenonT(60)
<1> HIDE DEF f, q
<1>7. Evolves(req[i], f, i \in {i}) /\ Evolves(req[i], q, i \in {})
  BY <1>6 DEF Evolves
<1>8. ChangeOK([req EXCEPT ![i] = f], {i})
  BY <1>2, <1>7, ChangeSingle
<1>9. ChangeOK([req EXCEPT ![i] = q], {})
  BY <1>2, <1>7, ChangeSingle
<1> QED
  BY <1>1, <1>8, <1>9, ChangeKeeps, Zenon

\* acknowledge_drain.
LEMMA AcknowledgeDrainQueues ==
    ASSUME IInv, QInv, NEW id, AcknowledgeDrain(id)
    PROVE  QInv'
<1> DEFINE i == id.slot
           d == DeviceStopped(req[i])
           r == QueueRelease(d)
<1>1. Valid(id) /\ Change([req EXCEPT ![i] = r], {i})
  BY Zenon DEF AcknowledgeDrain, ChangeOne
<1>2. SlotInv /\ i \in LiveSlots /\ req[i] \in Request
  BY <1>1, LiveFacts, Zenon DEF IInv
<1>3. Evolves(req[i], d, TRUE)
  BY <1>2, ReleaseEvolves, Zenon
<1>4. d \in Request
  BY <1>3, Zenon DEF Evolves
<1> HIDE DEF d
<1>5. Evolves(req[i], r, TRUE)
  BY <1>3, <1>4, ReleaseEvolves, EvolvesTrans, Zenon
<1> HIDE DEF r
<1>6. Evolves(req[i], r, i \in {i})
  BY <1>5, Zenon DEF Evolves
<1>7. ChangeOK([req EXCEPT ![i] = r], {i})
  BY <1>2, <1>6, ChangeSingle
<1> QED
  BY <1>1, <1>7, ChangeKeeps, Zenon

\* terminate_thread and terminate_process.
LEMMA TerminateQueues ==
    ASSUME IInv, QInv, NEW M \in SUBSET LiveSlots, TerminateMatching(M)
    PROVE  QInv'
<1> DEFINE S == {i \in M : ~IsTerminal(req[i])}
           new == [i \in Slots |-> IF i \in S THEN OwnerTerminated(req[i]) ELSE req[i]]
<1>1. Change(new, S) /\ S \in SUBSET LiveSlots /\ SlotInv
  BY Zenon DEF TerminateMatching, IInv
<1>2. \A i \in LiveSlots : i \in Slots /\ req[i] \in Request
  BY <1>1 DEF LiveSlots, SlotInv, SlotTypes
<1> HIDE DEF S
<1>3. new = [i \in Slots |-> new[i]] /\ \A i \in Slots \ S : new[i] = req[i]
  BY Zenon
<1>4. \A i \in S : Evolves(req[i], new[i], TRUE)
  BY <1>1, <1>2, OwnerTerminatedEvolves, Zenon
<1> HIDE DEF new
<1>5. ChangeOK(new, S)
  BY <1>1, <1>3, <1>4, ChangeMany, Zenon
<1> QED
  BY <1>1, <1>5, ChangeKeeps, Zenon

\* fail_device.
LEMMA RemoveDeviceQueues ==
    ASSUME IInv, QInv, NEW d, NEW stopped, RemoveDevice(d, stopped)
    PROVE  QInv'
<1> DEFINE S == {i \in LiveSlots : req[i].device = d /\ (~IsTerminal(req[i]) \/ Draining(req[i]))}
           new == [i \in Slots |-> IF i \in S THEN DeviceFailed(req[i], stopped) ELSE req[i]]
<1>1. Change(new, S) /\ S \in SUBSET LiveSlots /\ SlotInv
  BY Zenon DEF RemoveDevice, IInv
<1>2. \A i \in LiveSlots : i \in Slots /\ req[i] \in Request
  BY <1>1 DEF LiveSlots, SlotInv, SlotTypes
<1> HIDE DEF S
<1>3. new = [i \in Slots |-> new[i]] /\ \A i \in Slots \ S : new[i] = req[i]
  BY Zenon
<1>4. \A i \in S : Evolves(req[i], new[i], TRUE)
  BY <1>1, <1>2, DeviceFailedEvolves, Zenon
<1> HIDE DEF new
<1>5. ChangeOK(new, S)
  BY <1>1, <1>3, <1>4, ChangeMany, Zenon
<1> QED
  BY <1>1, <1>5, ChangeKeeps, Zenon

\* begin_shutdown.
LEMMA ShutdownQueues ==
    ASSUME IInv, QInv, BeginShutdown
    PROVE  QInv'
<1> DEFINE S == {i \in Slots : Cancelable(i)}
           new == [i \in Slots |-> IF i \in S THEN CancelRequest(req[i]) ELSE req[i]]
<1>1. Change(new, S) /\ SlotInv
  BY Zenon DEF BeginShutdown, IInv
<1>2. /\ S \in SUBSET LiveSlots /\ S \in SUBSET Slots
      /\ \A i \in S : req[i].state \in {"Pending", "Active"} /\ req[i] \in Request
  BY <1>1 DEF LiveSlots, Cancelable, SlotInv, SlotTypes
<1> HIDE DEF S
<1>3. new = [i \in Slots |-> new[i]] /\ \A i \in Slots \ S : new[i] = req[i]
  BY Zenon
<1>4. \A i \in S : Evolves(req[i], new[i], TRUE)
  BY <1>2, CancelRequestEvolves, Zenon
<1> HIDE DEF new
<1>5. ChangeOK(new, S)
  BY <1>1, <1>2, <1>3, <1>4, ChangeMany, ZenonT(60)
<1> QED
  BY <1>1, <1>5, ChangeKeeps, Zenon

-----------------------------------------------------------------------------
(* Storing a request or retiring it                                        *)

\* What StoreOrRetire changes: the slot, and the table when the request retires.
LEMMA StoreFacts ==
    ASSUME SlotInv, NEW i \in LiveSlots, NEW r, StoreOrRetire(i, r)
    PROVE  /\ \A j \in Slots : j # i => gen'[j] = gen[j] /\ retired'[j] = retired[j] /\ req'[j] = req[j]
           /\ Retires(r) =>
                 /\ req'[i] = None
                 /\ targets' = [t \in Table |-> ForgetTarget(targets[t], IdOf(i), r.target)]
                 /\ \/ gen'[i] = gen[i] + 1 /\ ~retired'[i]
                    \/ gen'[i] = gen[i] /\ retired'[i]
           /\ ~Retires(r) => req'[i] = r /\ UNCHANGED <<gen, retired, targets>>
<1>0. i \in Slots /\ gen \in [Slots -> 1..MaxGen] /\ retired \in [Slots -> BOOLEAN]
      /\ req = [j \in Slots |-> req[j]]
  BY Zenon DEF LiveSlots, SlotInv, SlotTypes
<1>1. CASE Retires(r)
  <2>1. /\ req' = [req EXCEPT ![i] = None]
        /\ gen' = [gen EXCEPT ![i] = Advance(@).gen]
        /\ retired' = [retired EXCEPT ![i] = Advance(gen[i]).retired]
        /\ targets' = [t \in Table |-> ForgetTarget(targets[t], IdOf(i), r.target)]
    BY <1>1, Zenon DEF StoreOrRetire
  <2>2. gen'[i] = Advance(gen[i]).gen /\ retired'[i] = Advance(gen[i]).retired /\ req'[i] = None
    BY <1>0, <2>1
  <2>3. \/ gen'[i] = gen[i] + 1 /\ ~retired'[i]
        \/ gen'[i] = gen[i] /\ retired'[i]
    BY <2>2 DEF Advance
  <2>4. \A j \in Slots : j # i => gen'[j] = gen[j] /\ retired'[j] = retired[j] /\ req'[j] = req[j]
    BY <1>0, <2>1
  <2> QED
    BY <1>1, <2>1, <2>2, <2>3, <2>4, Zenon
<1>2. CASE ~Retires(r)
  <2>1. req' = [req EXCEPT ![i] = r] /\ UNCHANGED <<gen, retired, targets>>
    BY <1>2, Zenon DEF StoreOrRetire
  <2>2. req'[i] = r /\ \A j \in Slots : j # i => req'[j] = req[j]
    BY <1>0, <2>1
  <2> QED
    BY <1>2, <2>1, <2>2, Zenon
<1> QED
  BY <1>1, <1>2

\* The table does not see a request change whose target, state and hold on the
\* target stay.
LEMMA KeptTargets ==
    ASSUME TargetInv, UNCHANGED <<gen, retired, targets, cursor>>,
           \A i \in Slots : req'[i] = None <=> req[i] = None,
           \A i \in LiveSlots : /\ req'[i].target = req[i].target
                                /\ req'[i].state = req[i].state
                                /\ Busy(req'[i]) => Busy(req[i])
    PROVE  TargetInv'
<1>1. LiveSlots' = LiveSlots
  BY DEF LiveSlots
<1>2. ASSUME NEW t \in Table PROVE EntryOK(targets[t])'
  <2>1. EntryOK(targets[t])
    BY Zenon DEF TargetInv
  <2>2. \A id : Valid(id) => /\ id.slot \in Slots /\ ~retired'[id.slot] /\ gen'[id.slot] = id.gen
                             /\ req'[id.slot] # None
                             /\ req'[id.slot].target = req[id.slot].target
                             /\ req'[id.slot].state = req[id.slot].state
    BY Zenon DEF Valid, LiveSlots
  <2> QED
    BY <2>1, <2>2, ZenonT(60) DEF EntryOK, Valid
<1>3. ASSUME NEW i \in LiveSlots', req'[i].state = "Pending"
      PROVE  \E t \in Table : WaitsIn(i, targets[t])'
  BY <1>1, <1>3, Zenon DEF TargetInv, WaitsIn, IdOf
<1>4. ASSUME NEW i \in LiveSlots', Busy(req'[i])
      PROVE  \E t \in Table : ServedBy(i, targets[t])'
  BY <1>1, <1>4, Zenon DEF TargetInv, ServedBy, IdOf
<1>5. targets' \in [Table -> Entry] /\ cursor' \in Table /\ OneEntry'
  BY Zenon DEF TargetInv, OneEntry
<1> QED
  BY <1>2, <1>3, <1>4, <1>5, ZenonT(60) DEF TargetInv, Busy, Draining

\* A step that touches none of the variables of the invariant.
LEMMA FrozenQueues ==
    ASSUME QInv, UNCHANGED <<gen, retired, req, targets, cursor, actions, published, freed>>
    PROVE  QInv'
<1>1. LiveSlots' = LiveSlots /\ Issued' = Issued
  BY DEF LiveSlots, Issued
<1>2. TargetInv'
  BY KeptTargets, Zenon DEF QInv
<1>3. QuotaInv'
  BY <1>1, ZenonT(60) DEF QInv, QuotaInv, TargetSlots
<1>4. QueueInv'
  <2>1. \A id : Valid(id)' <=> Valid(id)
    BY Zenon DEF Valid
  <2> QED
    BY <1>1, <2>1 DEF QInv, QueueInv, Valid
<1>5. HistoryInv'
  BY <1>1, Zenon DEF QInv, HistoryInv, Valid, IdOf
<1> QED
  BY <1>2, <1>3, <1>4, <1>5, ZenonT(60) DEF QInv

\* try_retire forgets the target of a request that left, if it was its last.
LEMMA StoreTargets ==
    ASSUME SlotInv, TargetInv, NEW i \in LiveSlots, NEW r \in Request, StoreOrRetire(i, r), cursor' = cursor,
           r.target = req[i].target, r.state = req[i].state, Busy(r) => Busy(req[i])
    PROVE  TargetInv'
<1> DEFINE X == [t \in Table |-> IF targets[t].target = r.target THEN {IdOf(i)} ELSE {}]
<1>0. i \in Slots /\ IdOf(i).slot = i /\ r # None /\ req[i] # None
  BY IdFacts, NoneAssumption DEF LiveSlots
<1>1. \A j \in Slots : j # i => gen'[j] = gen[j] /\ retired'[j] = retired[j] /\ req'[j] = req[j]
  BY StoreFacts, Zenon
<1>2. CASE Retires(r)
  <2>1. req'[i] = None /\ targets' = [t \in Table |-> ForgetTarget(targets[t], IdOf(i), r.target)]
    BY <1>2, StoreFacts, ZenonT(60)
  <2>2. ASSUME NEW t \in Table PROVE Shrinks(targets[t], targets'[t], X[t], X[t])
    <3>1. targets[t] \in Entry
      BY Zenon DEF TargetInv
    <3> QED
      BY <2>1, <3>1, ForgottenEntry, Zenon
  <2>3. \A t \in Table : X[t] \subseteq {IdOf(i)} /\ (targets[t].target = r.target => IdOf(i) \in X[t])
    OBVIOUS
  <2> HIDE DEF X
  <2>4. ASSUME NEW t \in Table, NEW id \in Id, id \notin X[t], Valid(id), req[id.slot].target = targets[t].target
        PROVE  StillValid(id) /\ req'[id.slot] = req[id.slot]
    <3>1. id = IdOf(id.slot)
      BY <2>4 DEF Valid, IdOf, Id
    <3>2. id.slot # i
      BY <2>3, <2>4, <3>1, Zenon
    <3> QED
      BY <1>1, <2>4, <3>2, Zenon DEF StillValid, Valid
  <2>5. ASSUME NEW t \in Table, NEW n \in DOMAIN targets[t].queued, targets[t].queued[n] \notin X[t]
        PROVE  StillWaits(targets[t].queued[n])
    <3>1. targets[t] \in Entry /\ EntryOK(targets[t])
      BY Zenon DEF TargetInv
    <3>2. targets[t].queued[n] \in Id
      BY <3>1 DEF Entry
    <3> QED
      BY <2>4, <2>5, <3>1, <3>2, ZenonT(60) DEF EntryOK, StillWaits
  <2>6. ASSUME NEW t \in Table, targets[t].active # None, targets[t].active \notin X[t]
        PROVE  StillServed(targets[t].active)
    <3>1. targets[t] \in Entry /\ EntryOK(targets[t])
      BY Zenon DEF TargetInv
    <3>2. targets[t].active \in Id
      BY <2>6, <3>1 DEF Entry
    <3> QED
      BY <2>4, <2>6, <3>1, <3>2, Zenon DEF EntryOK, StillServed
  <2>7. ASSUME NEW j \in LiveSlots'
        PROVE  Carried(j) /\ req'[j] = req[j] /\ \A t \in Table : IdOf(j) \notin X[t]
    <3>1. j \in Slots /\ j # i
      BY <2>1, SMTT(30) DEF LiveSlots
    <3>2. req'[j] = req[j] /\ IdOf(j)' = IdOf(j) /\ j \in LiveSlots
      BY <1>1, <3>1 DEF LiveSlots, IdOf
    <3>3. IdOf(j) # IdOf(i)
      BY <1>0, <3>1, IdFacts, Zenon
    <3> QED
      BY <2>3, <3>2, <3>3, ZenonT(60) DEF Carried
  <2>8. targets' = [t \in Table |-> targets'[t]] /\ cursor' \in Table
    BY <2>1, Zenon DEF TargetInv
  <2> QED
    BY <2>2, <2>5, <2>6, <2>7, <2>8, ShrinkStep, Zenon
<1>3. CASE ~Retires(r)
  <2>1. req'[i] = r /\ UNCHANGED <<gen, retired, targets>>
    BY <1>3, StoreFacts, Zenon
  <2>2. \A j \in Slots : req'[j] = None <=> req[j] = None
    BY <1>0, <1>1, <2>1, Zenon
  <2>3. \A j \in LiveSlots : /\ req'[j].target = req[j].target
                             /\ req'[j].state = req[j].state
                             /\ Busy(req'[j]) => Busy(req[j])
    BY <1>1, <2>1, ZenonT(60) DEF LiveSlots
  <2> QED
    BY <2>1, <2>2, <2>3, KeptTargets, Zenon
<1> QED
  BY <1>2, <1>3, SMTT(30)

\* Retiring a request moves no other to its target.
LEMMA StoreQuota ==
    ASSUME SlotInv, QuotaInv, NEW i \in LiveSlots, NEW r, StoreOrRetire(i, r), r.target = req[i].target
    PROVE  QuotaInv'
<1>1. \A j \in Slots : j # i => req'[j] = req[j]
  BY StoreFacts, Zenon
<1>2. req'[i] = None \/ req'[i] = r
  BY StoreFacts, Zenon
<1>3. SUFFICES ASSUME NEW x \in Targets PROVE Cardinality(TargetSlots(x)') <= PerTarget
  BY Zenon DEF QuotaInv
<1>4. TargetSlots(x)' \subseteq TargetSlots(x)
  BY <1>1, <1>2 DEF TargetSlots, LiveSlots
<1>5. IsFiniteSet(TargetSlots(x))
  <2>1. IsFiniteSet(Slots)
    BY SlotsFinite
  <2>2. TargetSlots(x) \subseteq Slots
    BY DEF TargetSlots, LiveSlots
  <2> QED
    BY <2>1, <2>2, FS_Subset, Zenon
<1>6. /\ Cardinality(TargetSlots(x)') <= Cardinality(TargetSlots(x))
      /\ Cardinality(TargetSlots(x)) \in Nat /\ Cardinality(TargetSlots(x)') \in Nat
  BY <1>4, <1>5, FS_Subset, FS_CardinalityType, Zenon
<1>7. Cardinality(TargetSlots(x)) <= PerTarget /\ PerTarget \in Nat
  BY SizeAssumption DEF QuotaInv
<1> QED
  BY <1>6, <1>7

\* The flag of kind k of the request of slot j, after slot i was given r.
FlagWith(i, r, j, k) == IF j = i THEN Flag(r, k) ELSE Flag(req[j], k)

\* The queue s holds what is left of `actions` and fits the flags after slot i
\* was given r.
Fits(s, i, r) ==
    /\ \A m, n \in DOMAIN s : s[m].kind = s[n].kind /\ s[m].id.slot = s[n].id.slot => m = n
    /\ \A n \in DOMAIN s : /\ \E m \in DOMAIN actions : s[n] = actions[m]
                           /\ s[n].kind \in Kinds
                           /\ FlagWith(i, r, s[n].id.slot, s[n].kind) = "queued"
    /\ \A j \in LiveSlots, k \in Kinds : FlagWith(i, r, j, k) = "queued" =>
          \E n \in DOMAIN s : s[n].kind = k /\ s[n].id.slot = j

\* A queue that fits the request about to be stored fits the table afterwards.
LEMMA StoreQueue ==
    ASSUME SlotInv, QueueInv, NEW i \in LiveSlots, NEW r \in Request, StoreOrRetire(i, r),
           NEW s, actions' = s, Fits(s, i, r)
    PROVE  QueueInv'
<1>1. \A j \in Slots : j # i => gen'[j] = gen[j] /\ retired'[j] = retired[j] /\ req'[j] = req[j]
  BY StoreFacts, Zenon
<1>2. Retires(r) => req'[i] = None /\ \A k \in Kinds : Flag(r, k) # "queued"
  <2>1. Retires(r) => req'[i] = None
    BY StoreFacts, Zenon
  <2>2. Retires(r) => \A k \in Kinds : Flag(r, k) # "queued"
    BY DEF Retires, Flag, Kinds
  <2> QED
    BY <2>1, <2>2, Zenon
<1>3. ~Retires(r) => req'[i] = r /\ UNCHANGED <<gen, retired>> /\ r # None
  BY StoreFacts, NoneAssumption, ZenonT(60)
<1>4. ASSUME NEW x, \E n \in DOMAIN actions' : x = actions'[n]
      PROVE  /\ x.id.slot \in Slots /\ ~retired'[x.id.slot] /\ gen'[x.id.slot] = x.id.gen
             /\ req'[x.id.slot] # None
             /\ Flag(req'[x.id.slot], x.kind) = "queued"
  <2>0. PICK n \in DOMAIN s : s[n] = x
    BY <1>4
  <2>1. /\ \E m \in DOMAIN actions : x = actions[m]
        /\ x.kind \in Kinds /\ FlagWith(i, r, x.id.slot, x.kind) = "queued"
    BY <2>0, Zenon DEF Fits
  <2>2. Valid(x.id) /\ Flag(req[x.id.slot], x.kind) = "queued"
    BY <2>1, Zenon DEF QueueInv
  <2>3. CASE x.id.slot = i
    <3>1. ~Retires(r)
      BY <1>2, <2>1, <2>3, Zenon DEF FlagWith
    <3>2. Flag(r, x.kind) = "queued" /\ req'[i] = r /\ r # None /\ gen' = gen /\ retired' = retired
      BY <1>3, <2>1, <2>3, <3>1, Zenon DEF FlagWith
    <3> QED
      BY <2>2, <2>3, <3>2, Zenon DEF Valid
  <2>4. CASE x.id.slot # i
    <3>1. x.id.slot \in Slots
      BY <2>2, Zenon DEF Valid
    <3>2. /\ gen'[x.id.slot] = gen[x.id.slot] /\ retired'[x.id.slot] = retired[x.id.slot]
          /\ req'[x.id.slot] = req[x.id.slot]
      BY <1>1, <2>4, <3>1, Zenon
    <3> QED
      BY <2>2, <3>1, <3>2, Zenon DEF Valid
  <2> QED
    BY <2>3, <2>4
<1>5. ASSUME NEW j \in LiveSlots', NEW k \in Kinds, Flag(req'[j], k) = "queued"
      PROVE  \E n \in DOMAIN actions' : actions'[n].kind = k /\ actions'[n].id.slot = j
  <2>1. j \in Slots /\ req'[j] # None
    BY DEF LiveSlots
  <2>2. j \in LiveSlots
    BY <1>1, <2>1, Zenon DEF LiveSlots
  <2>3. FlagWith(i, r, j, k) = "queued"
    BY <1>1, <1>2, <1>3, <1>5, <2>1, Zenon DEF FlagWith
  <2>4. \E n \in DOMAIN s : s[n].kind = k /\ s[n].id.slot = j
    BY <2>2, <2>3, Zenon DEF Fits
  <2> QED
    BY <2>4
<1>6. \A n \in DOMAIN actions' : /\ Valid(actions[n].id)'
                                 /\ Flag(req'[actions'[n].id.slot], actions'[n].kind) = "queued"
  BY <1>4, Zenon DEF Valid
<1> QED
  BY <1>5, <1>6, Zenon DEF QueueInv, Fits

\* A slot is given up, and its generation advanced, only for a request that was
\* published and whose resources were freed.
LEMMA StoreHistory ==
    ASSUME SlotInv, HistoryInv, NEW i \in LiveSlots, NEW r \in Request, StoreOrRetire(i, r),
           published \subseteq published', published' \subseteq published \cup {IdOf(i)}, freed \subseteq freed',
           IdOf(i) \in published' <=> r.publish = "dispatched",
           r.res = "Released" => IdOf(i) \in freed'
    PROVE  HistoryInv'
<1>0. i \in Slots /\ req[i] # None /\ r # None /\ IdOf(i).slot = i
  BY IdFacts, NoneAssumption DEF LiveSlots
<1>1. \A j \in Slots : j # i => gen'[j] = gen[j] /\ retired'[j] = retired[j] /\ req'[j] = req[j]
  BY StoreFacts, Zenon
<1>2. Retires(r) => /\ req'[i] = None
                    /\ \/ gen'[i] = gen[i] + 1 /\ ~retired'[i]
                       \/ gen'[i] = gen[i] /\ retired'[i]
  BY StoreFacts, Zenon
<1>3. ~Retires(r) => req'[i] = r /\ UNCHANGED <<gen, retired>>
  BY StoreFacts, Zenon
<1>4. ASSUME NEW id \in Id PROVE id \in Issued' <=> id \in Issued
  <2>1. id.slot \in Slots /\ id.gen \in Nat /\ gen[id.slot] \in Nat
    BY SizeAssumption, SMTT(30) DEF Id, SlotInv, SlotTypes
  <2>2. CASE id.slot # i
    BY <1>1, <2>1, <2>2 DEF Issued
  <2>3. CASE id.slot = i /\ Retires(r)
    <3>1. id \in Issued <=> id.gen <= gen[i]
      BY <1>0, <2>1, <2>3, SMTT(30) DEF Issued
    <3>2. id \in Issued' <=> id.gen <= gen[i]
      BY <1>0, <1>2, <2>1, <2>3, SMTT(30) DEF Issued
    <3> QED
      BY <3>1, <3>2
  <2>4. CASE id.slot = i /\ ~Retires(r)
    BY <1>0, <1>3, <2>1, <2>4, SMTT(30) DEF Issued
  <2> QED
    BY <2>2, <2>3, <2>4
<1>5. Issued' = Issued /\ Issued \subseteq Id
  BY <1>4 DEF Issued
<1>6. IdOf(i) \in Issued
  <2>1. IdOf(i) \in Id /\ IdOf(i).gen = gen[i]
    BY <1>0, IdFacts, Zenon
  <2> QED
    BY <1>0, <2>1, Zenon DEF Issued
<1>7. published' \subseteq Issued'
  BY <1>5, <1>6, ZenonT(60) DEF HistoryInv
<1>8. ASSUME NEW j \in LiveSlots'
      PROVE  /\ IdOf(j)' \in published' <=> req'[j].publish = "dispatched"
             /\ req'[j].res = "Released" => IdOf(j)' \in freed'
  <2>1. j \in Slots /\ req'[j] # None
    BY DEF LiveSlots
  <2>2. CASE j = i
    <3>1. req'[j] = r /\ IdOf(j)' = IdOf(i)
      BY <1>2, <1>3, <2>1, <2>2, Zenon DEF IdOf
    <3> QED
      BY <3>1, Zenon
  <2>3. CASE j # i
    <3>1. req'[j] = req[j] /\ IdOf(j)' = IdOf(j) /\ j \in LiveSlots
      BY <1>1, <2>1, <2>3, Zenon DEF IdOf, LiveSlots
    <3>2. IdOf(j) # IdOf(i)
      BY <1>0, <2>1, <2>3, IdFacts, Zenon
    <3>3. /\ IdOf(j) \in published <=> req[j].publish = "dispatched"
          /\ req[j].res = "Released" => IdOf(j) \in freed
      BY <3>1, Zenon DEF HistoryInv
    <3> QED
      BY <3>1, <3>2, <3>3, Zenon
  <2> QED
    BY <2>2, <2>3, SMTT(30)
<1>9. ASSUME NEW id \in Issued' PROVE Valid(id)' \/ id \in freed' \cap published'
  <2>1. id \in Issued /\ id \in Id /\ id.slot \in Slots
    BY <1>5 DEF Id
  <2>2. Valid(id) \/ id \in freed' \cap published'
    BY <2>1, Zenon DEF HistoryInv
  <2>3. CASE Valid(id) /\ id.slot # i
    BY <1>1, <2>1, <2>3, Zenon DEF Valid
  <2>4. CASE Valid(id) /\ id.slot = i
    <3>1. id = IdOf(i)
      BY <2>1, <2>4 DEF Valid, IdOf, Id
    <3>2. CASE Retires(r)
      BY <3>1, <3>2, Zenon DEF Retires
    <3>3. CASE ~Retires(r)
      BY <1>0, <1>3, <2>1, <2>4, <3>3, ZenonT(60) DEF Valid
    <3> QED
      BY <3>2, <3>3
  <2> QED
    BY <2>2, <2>3, <2>4
<1> QED
  BY <1>7, <1>8, <1>9, ZenonT(60) DEF HistoryInv

\* next_action marks the flag of the action it hands out and no other.
LEMMA DispatchedRequest ==
    ASSUME NEW r \in Request, NEW k \in Kinds
    PROVE  /\ Dispatched(r, k) \in Request
           /\ Dispatched(r, k).target = r.target /\ Dispatched(r, k).state = r.state
           /\ Dispatched(r, k).res = r.res
           /\ Flag(Dispatched(r, k), k) = "dispatched"
           /\ \A l \in Kinds : l # k => Flag(Dispatched(r, k), l) = Flag(r, l)
<1>1. CASE k = "cancel"
  BY <1>1 DEF Dispatched, Flag, Kinds, Request, Flags
<1>2. CASE k = "publish"
  BY <1>2 DEF Dispatched, Flag, Kinds, Request, Flags
<1>3. CASE k = "release"
  BY <1>3 DEF Dispatched, Flag, Kinds, Request, Flags
<1> QED
  BY <1>1, <1>2, <1>3 DEF Kinds

\* next_action.
LEMMA NextActionQueues ==
    ASSUME IInv, QInv, NextAction
    PROVE  QInv'
<1> DEFINE q == actions
           a == Head(q)
           i == a.id.slot
           k == a.kind
           r == Dispatched(req[i], k)
<1>1. q # <<>> /\ actions' = Tail(q) /\ cursor' = cursor /\ freed' = freed
  BY Zenon DEF NextAction
<1>2. q \in Seq(Action) /\ SlotInv
  <2>1. Offered \subseteq Action
    BY DEF Offered
  <2> QED
    BY <2>1, SeqWider DEF IInv
<1>3. /\ Tail(q) \in Seq(Action) /\ 1 \in DOMAIN q /\ a = q[1]
      /\ \A n \in DOMAIN Tail(q) : n + 1 \in DOMAIN q /\ Tail(q)[n] = q[n + 1] /\ n + 1 # 1
      /\ \A n \in DOMAIN q : n # 1 => n - 1 \in DOMAIN Tail(q) /\ Tail(q)[n - 1] = q[n]
      /\ \A m, n \in DOMAIN Tail(q) : m + 1 = n + 1 => m = n
  BY <1>1, <1>2, TailPlaces, Zenon
<1>4. \A n \in DOMAIN q : /\ q[n] \in Action /\ q[n].kind \in Kinds
                          /\ Valid(q[n].id) /\ q[n].id.slot \in LiveSlots
                          /\ Flag(req[q[n].id.slot], q[n].kind) = "queued"
  <2>1. \A n \in DOMAIN q : q[n] \in Action
    BY <1>2
  <2>2. \A x \in Action : x.kind \in Kinds
    BY DEF Action, Kinds
  <2> QED
    BY <1>2, <2>1, <2>2, LiveFacts, ZenonT(60) DEF QInv, QueueInv
<1>5. \A m, n \in DOMAIN q : q[m].kind = q[n].kind /\ q[m].id.slot = q[n].id.slot => m = n
  BY Zenon DEF QInv, QueueInv
<1>6. \A j \in LiveSlots, l \in Kinds : Flag(req[j], l) = "queued" =>
          \E n \in DOMAIN q : q[n].kind = l /\ q[n].id.slot = j
  BY Zenon DEF QInv, QueueInv
<1>7. /\ a \in Action /\ k \in Kinds /\ Valid(a.id) /\ i \in LiveSlots /\ Flag(req[i], k) = "queued"
      /\ a.id = IdOf(i)
  <2>1. a \in Action /\ k \in Kinds /\ Valid(a.id) /\ i \in LiveSlots /\ Flag(req[i], k) = "queued"
    BY <1>3, <1>4, Zenon
  <2>2. a.id \in Id
    BY <2>1, SMTT(30) DEF Action
  <2>3. a.id = IdOf(i)
    BY <2>1, <2>2 DEF Valid, IdOf, Id
  <2> QED
    BY <2>1, <2>3, Zenon
<1>8. /\ StoreOrRetire(i, r)
      /\ published' = IF k = "publish" THEN published \cup {IdOf(i)} ELSE published
  BY <1>7, Zenon DEF NextAction
<1>9. /\ r \in Request /\ r.target = req[i].target /\ r.state = req[i].state /\ r.res = req[i].res
      /\ Flag(r, k) = "dispatched"
      /\ \A l \in Kinds : l # k => Flag(r, l) = Flag(req[i], l)
  <2>1. req[i] \in Request
    BY <1>2, <1>7, LiveFacts, Zenon
  <2> QED
    BY <1>7, <2>1, DispatchedRequest, Zenon
<1> HIDE DEF r, a, q
<1>10. TargetInv' /\ QuotaInv'
  <2>1. Busy(r) => Busy(req[i])
    BY <1>9, Zenon DEF Busy, Draining
  <2> QED
    BY <1>1, <1>2, <1>7, <1>8, <1>9, <2>1, StoreTargets, StoreQuota, Zenon DEF QInv
<1>11. QueueInv'
  <2> DEFINE s == Tail(q)
  <2> HIDE DEF s
  <2>0. /\ \A n \in DOMAIN s : n + 1 \in DOMAIN q /\ s[n] = q[n + 1] /\ n + 1 # 1
        /\ \A n \in DOMAIN q : n # 1 => n - 1 \in DOMAIN s /\ s[n - 1] = q[n]
        /\ \A m, n \in DOMAIN s : m + 1 = n + 1 => m = n
    BY <1>3, Zenon DEF s
  <2>1. ASSUME NEW m \in DOMAIN s, NEW n \in DOMAIN s, s[m].kind = s[n].kind, s[m].id.slot = s[n].id.slot
        PROVE  m = n
    <3>1. m + 1 = n + 1
      <4>1. m + 1 \in DOMAIN q /\ n + 1 \in DOMAIN q /\ s[m] = q[m + 1] /\ s[n] = q[n + 1]
        BY <2>0, Zenon
      <4> QED
        BY <1>5, <2>1, <4>1, ZenonT(60)
    <3> QED
      BY <2>0, <3>1, Zenon
  <2>2. ASSUME NEW n \in DOMAIN s
        PROVE  /\ \E m \in DOMAIN q : s[n] = q[m]
               /\ s[n].kind \in Kinds
               /\ FlagWith(i, r, s[n].id.slot, s[n].kind) = "queued"
    <3>1. PICK m \in DOMAIN q : s[n] = q[m] /\ m # 1
      BY <2>0, Zenon
    <3>2. q[m].id.slot = i => q[m].kind # k
      BY <1>3, <1>5, <3>1, Zenon
    <3>3. FlagWith(i, r, q[m].id.slot, q[m].kind) = "queued"
      BY <1>4, <1>9, <3>2, Zenon DEF FlagWith
    <3>4. q[m].kind \in Kinds
      BY <1>4, Zenon
    <3> QED
      BY <3>1, <3>3, <3>4, Zenon
  <2>3. ASSUME NEW j \in LiveSlots, NEW l \in Kinds, FlagWith(i, r, j, l) = "queued"
        PROVE  \E n \in DOMAIN s : s[n].kind = l /\ s[n].id.slot = j
    <3>1. Flag(req[j], l) = "queued" /\ ~(j = i /\ l = k)
      BY <1>9, <2>3 DEF FlagWith
    <3>2. PICK m \in DOMAIN q : q[m].kind = l /\ q[m].id.slot = j
      BY <1>6, <3>1, Zenon
    <3>3. m # 1
      BY <1>3, <3>1, <3>2, ZenonT(60)
    <3> QED
      BY <2>0, <3>2, <3>3, ZenonT(60)
  <2>4. Fits(s, i, r)
    BY <2>1, <2>2, <2>3, Zenon DEF Fits, q
  <2>5. actions' = s
    BY <1>1, Zenon DEF s
  <2> QED
    BY <1>2, <1>7, <1>8, <1>9, <2>4, <2>5, StoreQueue, ZenonT(60) DEF QInv
<1>12. HistoryInv'
  <2>1. IdOf(i) \in published' <=> r.publish = "dispatched"
    <3>1. IdOf(i) \in published <=> req[i].publish = "dispatched"
      BY <1>7, Zenon DEF QInv, HistoryInv
    <3>2. \A x : x.publish = Flag(x, "publish")
      BY DEF Flag
    <3>3. "publish" \in Kinds
      BY DEF Kinds
    <3>4. CASE k = "publish"
      BY <1>8, <1>9, <3>2, <3>4, ZenonT(60)
    <3>5. CASE k # "publish"
      BY <1>8, <1>9, <3>1, <3>2, <3>3, <3>5, Zenon
    <3> QED
      BY <3>4, <3>5
  <2>2. r.res = "Released" => IdOf(i) \in freed'
    BY <1>1, <1>7, <1>9, ZenonT(60) DEF QInv, HistoryInv
  <2>3. published \subseteq published' /\ published' \subseteq published \cup {IdOf(i)} /\ freed \subseteq freed'
    BY <1>1, <1>8
  <2> QED
    BY <1>2, <1>7, <1>8, <1>9, <2>1, <2>2, <2>3, StoreHistory, Zenon DEF QInv
<1> QED
  BY <1>10, <1>11, <1>12, Zenon DEF QInv

\* acknowledge_resource_release.
LEMMA AcknowledgeReleaseQueues ==
    ASSUME IInv, QInv, NEW id \in Id, AcknowledgeResourceRelease(id)
    PROVE  QInv'
<1> DEFINE i == id.slot
           r == [req[i] EXCEPT !.res = "Released"]
<1>1. /\ Valid(id) /\ StoreOrRetire(i, r) /\ freed' = freed \cup {id}
      /\ UNCHANGED <<cursor, actions, published>>
  BY Zenon DEF AcknowledgeResourceRelease
<1>2. SlotInv /\ i \in LiveSlots /\ req[i] \in Request /\ id = IdOf(i)
  <2>1. SlotInv /\ i \in LiveSlots /\ req[i] \in Request
    BY <1>1, LiveFacts, Zenon DEF IInv
  <2> QED
    BY <1>1, <2>1 DEF Valid, IdOf, Id
<1>3. /\ r \in Request /\ r.target = req[i].target /\ r.state = req[i].state
      /\ r.res = "Released" /\ r.publish = req[i].publish
      /\ \A l \in Kinds : Flag(r, l) = Flag(req[i], l)
  BY <1>2 DEF Request, ResourceStates, Flag, Kinds
<1> HIDE DEF r
<1>4. TargetInv' /\ QuotaInv'
  <2>1. Busy(r) => Busy(req[i])
    BY <1>3 DEF Busy, Draining
  <2> QED
    BY <1>1, <1>2, <1>3, <2>1, StoreTargets, StoreQuota, Zenon DEF QInv
<1>5. QueueInv'
  <2>1. actions \in Seq(Action)
    <3>1. Offered \subseteq Action
      BY DEF Offered
    <3> QED
      BY <3>1, SeqWider DEF IInv
  <2>2. \A n \in DOMAIN actions : actions[n].kind \in Kinds
    <3>1. \A n \in DOMAIN actions : actions[n] \in Action
      BY <2>1
    <3>2. \A x \in Action : x.kind \in Kinds
      BY DEF Action, Kinds
    <3> QED
      BY <3>1, <3>2, Zenon
  <2>3. \A j, l : l \in Kinds => FlagWith(i, r, j, l) = Flag(req[j], l)
    BY <1>3, Zenon DEF FlagWith
  <2>4. Fits(actions, i, r)
    <3>1. /\ \A m, n \in DOMAIN actions :
                actions[m].kind = actions[n].kind /\ actions[m].id.slot = actions[n].id.slot => m = n
          /\ \A n \in DOMAIN actions : Flag(req[actions[n].id.slot], actions[n].kind) = "queued"
          /\ \A j \in LiveSlots, k \in Kinds : Flag(req[j], k) = "queued" =>
                \E n \in DOMAIN actions : actions[n].kind = k /\ actions[n].id.slot = j
      BY DEF QInv, QueueInv
    <3>2. ASSUME NEW n \in DOMAIN actions
          PROVE  FlagWith(i, r, actions[n].id.slot, actions[n].kind) = "queued"
      <4>1. Flag(req[actions[n].id.slot], actions[n].kind) = "queued" /\ actions[n].kind \in Kinds
        BY <2>2, <3>1, Zenon
      <4> QED
        BY <2>3, <4>1, Zenon
    <3>3. ASSUME NEW j \in LiveSlots, NEW k \in Kinds, FlagWith(i, r, j, k) = "queued"
          PROVE  \E n \in DOMAIN actions : actions[n].kind = k /\ actions[n].id.slot = j
      <4>1. Flag(req[j], k) = "queued"
        BY <2>3, <3>3, Zenon
      <4> QED
        BY <3>1, <4>1, Zenon
    <3> QED
      BY <2>2, <3>1, <3>2, <3>3, ZenonT(60) DEF Fits
  <2>5. PICK s : s = actions
    OBVIOUS
  <2>6. Fits(s, i, r) /\ actions' = s
    BY <1>1, <2>4, <2>5, Zenon
  <2> QED
    BY <1>1, <1>2, <1>3, <2>6, StoreQueue, Zenon DEF QInv
<1>6. HistoryInv'
  <2>1. IdOf(i) \in published' <=> r.publish = "dispatched"
    BY <1>1, <1>2, <1>3, ZenonT(60) DEF QInv, HistoryInv
  <2>2. /\ IdOf(i) \in freed' /\ freed \subseteq freed'
        /\ published \subseteq published' /\ published' \subseteq published \cup {IdOf(i)}
    BY <1>1, <1>2
  <2> QED
    BY <1>1, <1>2, <1>3, <2>1, <2>2, StoreHistory, Zenon DEF QInv
<1> QED
  BY <1>4, <1>5, <1>6, Zenon DEF QInv
=============================================================================
