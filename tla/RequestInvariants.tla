-------------------------- MODULE RequestInvariants --------------------------
(***************************************************************************)
(* The inductive invariants of RequestRuntime: IInv for the life of the    *)
(* requests, QInv for the target table, the action queue and the histories.*)
(***************************************************************************)
EXTENDS RequestRuntime

\* A request and whether a device holds its buffers (h): the resource state says
\* so, and a release is under way exactly when the request is finished and free.
RequestOK(r, h) ==
    /\ h <=> Draining(r)
    /\ r.release # "idle" <=> IsTerminal(r) /\ ~Draining(r)
    /\ r.release # "idle" <=> r.res \in {"ReleasePending", "Released"}

SlotTypes ==
    /\ gen \in [Slots -> 1..MaxGen]
    /\ retired \in [Slots -> BOOLEAN]
    /\ req \in [Slots -> Request \cup {None}]
    /\ held \subseteq Id

SlotInv ==
    /\ SlotTypes
    /\ \A i \in Slots : retired[i] => req[i] = None /\ gen[i] = MaxGen
    /\ \A i \in Slots : req[i] # None => RequestOK(req[i], IdOf(i) \in held)
    /\ \A id \in held : Valid(id)

\* The actions that may wait in the queue: they name ids that were handed out,
\* and the release of a live request only if it is under way.
Offered ==
    {a \in Action : /\ a.id \in Issued
                    /\ a.kind = "release" /\ Valid(a.id) => req[a.id.slot].release # "idle"}

\* The inductive invariant.
IInv ==
    /\ SlotInv
    /\ actions \in Seq(Offered)
    /\ completions \in Seq(Completion)

-----------------------------------------------------------------------------
(* The target table                                                        *)

Entry == [target : Targets \cup {None}, active : Id \cup {None}, queued : Seq(Id)]

\* The target is taken: the request was started, or a device has its buffers.
Busy(r) == r.state \in {"Active", "CancelPending"} \/ Draining(r)

\* Request i waits in entry q, or is served by it.
WaitsIn(i, q) == q.target = req[i].target /\ \E n \in DOMAIN q.queued : q.queued[n] = IdOf(i)
ServedBy(i, q) == q.target = req[i].target /\ q.active = IdOf(i)

\* What a table entry holds are live requests of its target: waiting ones in the
\* FIFO, each once, and at most one that is not waiting.
EntryOK(q) ==
    /\ \A m, n \in DOMAIN q.queued : q.queued[m] = q.queued[n] => m = n
    /\ \A n \in DOMAIN q.queued :
          /\ Valid(q.queued[n])
          /\ req[q.queued[n].slot].state = "Pending"
          /\ req[q.queued[n].slot].target = q.target
    /\ q.active # None =>
          /\ Valid(q.active)
          /\ req[q.active.slot].state # "Pending"
          /\ req[q.active.slot].target = q.target

OneEntry == \A t, u \in Table : targets[t].target # None /\ targets[t].target = targets[u].target => t = u

TargetInv ==
    /\ targets \in [Table -> Entry]
    /\ cursor \in Table
    /\ OneEntry
    /\ \A t \in Table : EntryOK(targets[t])
    /\ \A i \in LiveSlots : req[i].state = "Pending" => \E t \in Table : WaitsIn(i, targets[t])
    /\ \A i \in LiveSlots : Busy(req[i]) => \E t \in Table : ServedBy(i, targets[t])

\* The quota of a target, which bounds its FIFO.
QuotaInv == \A x \in Targets : Cardinality(TargetSlots(x)) <= PerTarget

-----------------------------------------------------------------------------
(* The action queue and the histories                                      *)

Flag(r, k) == CASE k = "cancel" -> r.cancel [] k = "publish" -> r.publish [] k = "release" -> r.release
Kinds == {"cancel", "publish", "release"}

\* The action queue and the flags of the requests agree.
QueueInv ==
    /\ \A m, n \in DOMAIN actions :
          actions[m].kind = actions[n].kind /\ actions[m].id.slot = actions[n].id.slot => m = n
    /\ \A n \in DOMAIN actions :
          /\ Valid(actions[n].id)
          /\ Flag(req[actions[n].id.slot], actions[n].kind) = "queued"
    /\ \A i \in LiveSlots, k \in Kinds : Flag(req[i], k) = "queued" =>
          \E n \in DOMAIN actions : actions[n].kind = k /\ actions[n].id.slot = i

\* The histories and the flags of the requests agree.
HistoryInv ==
    /\ published \subseteq Issued
    /\ \A i \in LiveSlots : IdOf(i) \in published <=> req[i].publish = "dispatched"
    /\ \A i \in LiveSlots : req[i].res = "Released" => IdOf(i) \in freed
    /\ \A id \in Issued : Valid(id) \/ id \in freed \cap published

\* The inductive invariant of the queues.
QInv == TargetInv /\ QuotaInv /\ QueueInv /\ HistoryInv
=============================================================================
