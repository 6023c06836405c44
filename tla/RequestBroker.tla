---------------------------- MODULE RequestBroker ----------------------------
(***************************************************************************)
(* The request broker (crates/ginkgo-kernel/src/request_broker.rs): it owns *)
(* the request runtime and keeps, slot for slot, what the runtime does not  *)
(* know: the operation, the buffers, the progress of a chunked service and   *)
(* the information a client reads.  It numbers its slots itself and predicts *)
(* the id of a submission from its own table before the runtime assigns it.  *)
(* Each action is one call of the broker: the runtime's action, then what    *)
(* the broker does about it.                                                 *)
(***************************************************************************)
EXTENDS RequestRuntime

CONSTANTS
    Prepared    \* PreparedBrokerRequest: [submission, op, total]

VARIABLES
    broker      \* the slots: generation, retired, entry

brokerVars == <<vars, broker>>

ASSUME PreparedAssumption ==
    {p.submission : p \in Prepared} = Submissions

BrokerInit ==
    /\ Init
    /\ broker = [i \in Slots |-> [gen |-> 1, retired |-> FALSE, entry |-> None]]

\* entry, entry_mut
HasEntry(id) ==
    /\ broker[id.slot].gen = id.gen
    /\ broker[id.slot].entry # None
    /\ broker[id.slot].entry.id = id

EntryOf(id) == broker[id.slot].entry

\* The runtime still knows id after the step.
Survives(id) ==
    ~retired'[id.slot] /\ gen'[id.slot] = id.gen /\ req'[id.slot] # None

\* What the client reads of a request r; a completion counts only once the
\* request is terminal.
Informed(e, r) ==
    [e EXCEPT !.state = r.state,
              !.bytes = IF IsTerminal(r) /\ e.result # None THEN e.result ELSE 0]

\* synchronize_info for the slots in S against the runtime's new state.
Synchronized(slots, S) ==
    [i \in Slots |->
        IF i \in S /\ slots[i].entry # None /\ Survives(slots[i].entry.id)
        THEN [slots[i] EXCEPT !.entry = Informed(@, req'[i])]
        ELSE slots[i]]

SynchronizeInfo(id) == broker' = Synchronized(broker, {id.slot})
SynchronizeAll == broker' = Synchronized(broker, Slots)

-----------------------------------------------------------------------------
BrokerVacant == {i \in Slots : broker[i].entry = None /\ ~broker[i].retired}

\* install; the control was made for the id the broker expected.
Installed(p, i, id) ==
    [broker[i] EXCEPT !.entry =
        [id |-> id, control |-> [slot |-> i, gen |-> broker[i].gen], op |-> p.op,
         state |-> "Pending", bytes |-> 0, buffers |-> TRUE, offset |-> 0,
         ticket |-> FALSE, total |-> p.total, result |-> None,
         attempted |-> FALSE, releaseDispatched |-> FALSE]]

\* submit and submit_batch: the ids are the runtime's, the slots the broker's.
BrokerSubmit(b) ==
    LET taken == {i \in BrokerVacant : Rank(i, BrokerVacant) <= Len(b)}
        kth(k) == CHOOSE i \in VacantSlots : Rank(i, VacantSlots) = k
        k(i) == Rank(i, BrokerVacant)
    IN  /\ Cardinality(taken) = Len(b)
        /\ SubmitBatch([n \in DOMAIN b |-> b[n].submission])
        /\ broker' = [i \in Slots |-> IF i \in taken
                                      THEN Installed(b[k(i)], i, IdOf(kth(k(i))))
                                      ELSE broker[i]]

BrokerCancel(id) == Cancel(id) /\ SynchronizeInfo(id)

BrokerDispatch(id) ==
    /\ NextDispatch
    /\ id = (CHOOSE t \in ActiveIds(targets') : t \notin ActiveIds(targets))
    /\ SynchronizeInfo(id)

BrokerRequeue(id) == RequeueActive(id) /\ SynchronizeInfo(id)

\* record_completion on the slots `slots`; a request that is terminal already
\* keeps its result, and a full queue drops the report.
BrokerComplete(slots, id, ok, bytes) ==
    LET keeps == Valid(id) /\ ~IsTerminal(req[id.slot])
                 /\ HasEntry(id) /\ EntryOf(id).result = None
    IN  IF CompletionRoom
        THEN /\ RecordCompletion([id |-> id, ok |-> ok, released |-> TRUE])
             /\ broker' = IF keeps THEN [slots EXCEPT ![id.slot].entry.result = bytes] ELSE slots
        ELSE UNCHANGED vars /\ broker' = slots

\* advance_service_offset
CanAdvance(id, count) ==
    /\ Valid(id)
    /\ req[id.slot].state = "Active"
    /\ req[id.slot].res = "KernelOwned"
    /\ HasEntry(id)
    /\ EntryOf(id).offset + count <= EntryOf(id).total

\* run_worker: the information is synchronized when the worker returns.
BrokerWorkerStarts ==
    IF completions # <<>> \/ Due
    THEN RunWorker /\ UNCHANGED broker
    ELSE Ready /\ UNCHANGED vars /\ SynchronizeAll

BrokerWorkerSteps ==
    /\ ApplyCompletion \/ CompletionsDone \/ ApplyTimeout \/ WorkerReturns
    /\ IF worker'.phase = "idle" THEN SynchronizeAll ELSE UNCHANGED broker

\* acknowledge_cancel, whose error the callers ignore.
BrokerAcknowledgeCancel(id) ==
    IF Valid(id) /\ req[id.slot].cancelRequested
    THEN AcknowledgeCancel(id, TRUE) /\ SynchronizeInfo(id)
    ELSE UNCHANGED brokerVars

BrokerTerminate(p) == TerminateProcess(p) /\ SynchronizeAll
BrokerBeginShutdown == BeginShutdown /\ SynchronizeAll
BrokerResume == ResumeAfterShutdownCancel /\ UNCHANGED broker

-----------------------------------------------------------------------------
\* pop_action with publish_terminal, which synchronizes first and publishes an
\* entry once, and with the marking of a release.
PopAction ==
    LET a == Head(actions)
        i == a.id.slot
        popped(e) == CASE a.kind = "publish" -> [Informed(e, req[i]) EXCEPT !.attempted = TRUE]
                       [] a.kind = "release" -> [e EXCEPT !.releaseDispatched = TRUE]
                       [] OTHER -> e
    IN  /\ NextAction
        /\ broker' = IF HasEntry(a.id) /\ Survives(a.id)
                     THEN [broker EXCEPT ![i].entry = popped(@)] ELSE broker

\* retire_entry_if_runtime_did; the mutant forgets the generation.
Vacated_SameGeneration(slot) == [slot EXCEPT !.entry = None]

Vacated(slot) ==
    [slot EXCEPT !.entry = None,
                 !.gen = IF @ = MaxGen THEN @ ELSE @ + 1,
                 !.retired = slot.gen = MaxGen]

CanTake(id) ==
    /\ HasEntry(id)
    /\ EntryOf(id).releaseDispatched
    /\ EntryOf(id).buffers

TakeExternalResources(id) ==
    /\ CanTake(id)
    /\ AcknowledgeResourceRelease(id)
    /\ broker' = [broker EXCEPT ![id.slot] =
                     IF Survives(id) THEN [@ EXCEPT !.entry.buffers = FALSE] ELSE Vacated(@)]

-----------------------------------------------------------------------------
\* The broker's slots follow the runtime's: the same generations, the same
\* slots in use and retired, the control of a request carries the id the
\* runtime gave it, and while no worker turn is under way a client reads the
\* state the runtime has.  submit only asserts the first in debug builds.
BrokerMirrors ==
    \A i \in Slots :
        /\ broker[i].gen = gen[i]
        /\ broker[i].retired = retired[i]
        /\ broker[i].entry # None <=> req[i] # None
        /\ req[i] # None =>
              /\ broker[i].entry.id = IdOf(i)
              /\ broker[i].entry.control = IdOf(i)
              /\ Ready => broker[i].entry.state = req[i].state
              /\ broker[i].entry.buffers <=> req[i].res # "Released"
=============================================================================
