-------------------------- MODULE FilesystemRequests --------------------------
(***************************************************************************)
(* Filesystem requests from submission to release: the kernel tasks of       *)
(* crates/ginkgo-kernel/src/main.rs that move them between the request      *)
(* broker and the filesystem executor.                                       *)
(*                                                                         *)
(* The kernel runs one task at a time.  A poll of request_task is several    *)
(* steps here, kept together by `task`; every other call waits for it.  A    *)
(* bridge remembers for whom each executor job runs.  Threads, process       *)
(* creation, the write-back worker and the power task use the executor too.  *)
(***************************************************************************)
EXTENDS RequestBroker, FsExecutor

CONSTANTS
    Chunk,          \* FS_MAX_CHUNK_BYTES
    Background,     \* owners whose threads are of the Background class
    MaxOther        \* bound on the jobs of threads and of the kernel

VARIABLES
    executor,
    bridges,        \* filesystem_bridges, by job slot
    task,           \* where a poll of request_task, or a call of it, is
    due,            \* whether background service is due (the task's word 0)
    reserved,       \* other users of the executor that wait for a job
    others          \* jobs of other users so far

fsVars == <<executor, bridges, task, due, reserved, others>>
allVars == <<brokerVars, fsVars>>

\* FilesystemBridgeOwner: a request with what its job was for, or another user.
OtherPriority ==
    [o \in {"thread", "create", "writeback", "power"} |->
        CASE o = "writeback" -> "Kernel" [] o = "power" -> "Shutdown" [] OTHER -> "Normal"]

NoBridge == [owner |-> "none"]
ForRequest(id, job, amount) ==
    [owner |-> "request", request |-> id, job |-> job, requested |-> amount]
ForOther(o) == [owner |-> o]

IdleTask == [pc |-> "idle", id |-> None, next |-> "idle"]
At(pc, id) == [pc |-> pc, id |-> id, next |-> "idle"]
\* run_worker, then `next`.
Work(next) == [pc |-> "worker", id |-> None, next |-> next]
Free == task.pc = "idle" /\ Ready

FsInit ==
    /\ BrokerInit
    /\ executor = NewExecutor
    /\ bridges = [i \in JobSlots |-> NoBridge]
    /\ task = IdleTask
    /\ due = TRUE
    /\ reserved = {}
    /\ others = 0

\* enqueue_filesystem_job on the executor x with the bridges bs.
EnqueueJob(x, bs, priority, bridge) ==
    /\ executor' = Enqueue(x, priority)
    /\ bridges' = [bs EXCEPT ![NextJobId(x).slot] = bridge]

-----------------------------------------------------------------------------
(* request_task                                                             *)

PollRequests ==
    /\ Free
    /\ completions # <<>> \/ Due \/ actions # <<>> \/ \E t \in Table : Dispatchable(targets[t])
    /\ BrokerWorkerStarts
    /\ task' = At("dispatch", None)
    /\ UNCHANGED <<executor, bridges, due, reserved, others>>

WorkerSteps ==
    /\ BrokerWorkerSteps
    /\ UNCHANGED fsVars

Dispatch ==
    /\ task.pc = "dispatch"
    /\ Ready
    /\ IF \E t \in Table : Dispatchable(targets[t])
       THEN \E id \in Issued : BrokerDispatch(id) /\ task' = At("serve", id)
       ELSE task' = At("action", None) /\ UNCHANGED brokerVars
    /\ UNCHANGED <<executor, bridges, due, reserved, others>>

IsBackground(id) == req[id.slot].owner \in Background

\* The job of a dispatched request; a read or write that has nothing left to
\* do needs none.
JobOf(e) == CASE e.op = "io" -> ForRequest(e.id, "io", IF e.total - e.offset < Chunk
                                                      THEN e.total - e.offset ELSE Chunk)
              [] OTHER -> ForRequest(e.id, e.op, 0)
PriorityOf(e) == IF e.op = "sync" THEN "Kernel" ELSE "Normal"
NothingToDo(e) == e.op = "io" /\ e.offset >= e.total

CompleteNow(id, ok, bytes) ==
    /\ BrokerComplete(broker, id, ok, bytes)
    /\ task' = Work("action")
    /\ UNCHANGED <<executor, bridges>>

\* service_filesystem_request and service_filesystem_open_request, with
\* filesystem_enqueue_failure: the request gets a job, waits for room, or fails
\* because its buffers or its path cannot be used.
Serve ==
    LET id == task.id
        e == EntryOf(id)
    IN  /\ task.pc = "serve"
        /\ Ready
        /\ \/ /\ IsBackground(id) /\ ~due
              /\ BrokerRequeue(id)
              /\ task' = At("action", None)
              /\ UNCHANGED <<executor, bridges, due>>
           \/ /\ IsBackground(id) => due
              /\ due' = ~IsBackground(id) /\ due
              /\ \/ NothingToDo(e) /\ CompleteNow(id, TRUE, e.total)
                 \/ ~NothingToDo(e) /\ e.op # "sync" /\ CompleteNow(id, FALSE, e.offset)
                 \/ /\ ~NothingToDo(e)
                    /\ CanEnqueue(executor, PriorityOf(e))
                    /\ EnqueueJob(executor, bridges, PriorityOf(e), JobOf(e))
                    /\ task' = At("action", None)
                    /\ UNCHANGED brokerVars
                 \/ /\ ~NothingToDo(e)
                    /\ ~CanEnqueue(executor, PriorityOf(e))
                    /\ BrokerRequeue(id)
                    /\ task' = At("action", None)
                    /\ UNCHANGED <<executor, bridges>>
        /\ UNCHANGED <<reserved, others>>

\* One action ends the poll.
TakeAction ==
    /\ task.pc = "action"
    /\ Ready
    /\ IF actions = <<>>
       THEN task' = IdleTask /\ UNCHANGED brokerVars
       ELSE /\ PopAction
            /\ task' = IF Head(actions).kind = "publish" THEN IdleTask
                       ELSE At(Head(actions).kind, Head(actions).id)
    /\ UNCHANGED <<executor, bridges, due, reserved, others>>

BridgeOf(id) ==
    {i \in JobSlots : bridges[i].owner = "request" /\ bridges[i].request = id}

\* service_request_cancellation: a queued job is taken back at once, a running
\* one is marked, and without a job the cancellation is acknowledged.
CancelService ==
    LET id == task.id
        i == CHOOSE j \in BridgeOf(id) : TRUE
        job == [slot |-> i, gen |-> executor.slots[i].gen]
        x == CancelJob(executor, job)
    IN  /\ task.pc = "cancel"
        /\ Ready
        /\ IF BridgeOf(id) = {}
           THEN /\ BrokerAcknowledgeCancel(id)
                /\ task' = IdleTask
                /\ UNCHANGED <<executor, bridges>>
           ELSE IF JobState(x, job) = "Complete"
           THEN /\ executor' = TakeCompletion(x, job)
                /\ bridges' = [bridges EXCEPT ![i] = NoBridge]
                /\ IF HasEntry(id)
                   THEN BrokerAcknowledgeCancel(id) /\ task' = Work("idle")
                   ELSE UNCHANGED brokerVars /\ task' = IdleTask
           ELSE /\ executor' = x
                /\ task' = IdleTask
                /\ UNCHANGED <<brokerVars, bridges>>
        /\ UNCHANGED <<due, reserved, others>>

ReleaseService ==
    /\ task.pc = "release"
    /\ Ready
    /\ IF CanTake(task.id) THEN TakeExternalResources(task.id) ELSE UNCHANGED brokerVars
    /\ task' = IdleTask
    /\ UNCHANGED <<executor, bridges, due, reserved, others>>

RunBrokerWorker ==
    /\ task.pc = "worker"
    /\ BrokerWorkerStarts
    /\ task' = At(task.next, None)
    /\ UNCHANGED <<executor, bridges, due, reserved, others>>

-----------------------------------------------------------------------------
(* filesystem_executor_task                                                 *)

\* A poll in which the fiber yields; only the start of a job is visible.
StartJob ==
    /\ Free
    /\ executor.active = NoJob
    /\ Startable(executor) # {}
    /\ executor' = Start(executor)
    /\ UNCHANGED <<brokerVars, bridges, task, due, reserved, others>>

\* What a job may answer: an error, the bytes of a chunk, whether a sync is
\* durable, whether an opened file reached its client or a file that was just
\* created has to go again.
Answer(kind) == [kind |-> kind, count |-> 0]
Answers(bridge) ==
    {Answer("error")} \cup
    CASE bridge.job = "io"   -> [kind : {"bytes"}, count : 0..bridge.requested]
      [] bridge.job = "sync" -> {Answer("done"), Answer("pending")}
      [] bridge.job = "open" -> {Answer("done"), Answer("undo")}
      [] OTHER -> {}

\* complete_broker_filesystem_request
CompleteRequest(slots, id, ok, bytes) ==
    /\ BrokerComplete(slots, id, ok, bytes)
    /\ task' = Work("idle")

\* requeue_active, or the failure of a request that is no longer active.
RequeueRequest(slots, id, bytes) ==
    IF /\ Valid(id)
       /\ req[id.slot].state = "Active"
       /\ req[id.slot].res = "KernelOwned"
       /\ id \in ActiveIds(targets)
    THEN RequeueActive(id) /\ broker' = Synchronized(slots, {id.slot}) /\ UNCHANGED task
    ELSE CompleteRequest(slots, id, FALSE, bytes)

\* finish_filesystem_chunk: progress is only made by an active request, and a
\* short chunk ends it.
FinishChunk(id, count, requested) ==
    LET e == EntryOf(id)
        next == e.offset + count
        advanced == [broker EXCEPT ![id.slot].entry.offset = next]
    IN  IF ~CanAdvance(id, count) THEN CompleteRequest(broker, id, FALSE, e.offset)
        ELSE IF next >= e.total \/ count < requested
             THEN CompleteRequest(advanced, id, TRUE, next)
        ELSE RequeueRequest(advanced, id, next)

\* A file that was created in vain is unlinked by a job of its own, for which
\* the job that created it has made room.
Undoes_BeforeTaking(x) == CanEnqueue(executor, "Normal")

Undoes(x) == CanEnqueue(x, "Normal")

\* complete_filesystem_request_job, after the job was taken from the executor
\* (x) and its bridge removed (bs).
AnswerRequest(x, bs, bridge, answer) ==
    LET id == bridge.request
        ticketed == [broker EXCEPT ![id.slot].entry.ticket = TRUE]
    IN  /\ IF answer.kind = "undo" /\ Undoes(x)
           THEN EnqueueJob(x, bs, "Normal", ForRequest(id, "rollback", 0))
           ELSE executor' = x /\ bridges' = bs
        /\ CASE answer.kind = "error" -> CompleteRequest(broker, id, FALSE, EntryOf(id).offset)
             [] answer.kind = "done" ->
                    CompleteRequest(IF bridge.job = "sync" THEN ticketed ELSE broker, id, TRUE, 0)
             [] answer.kind = "pending" -> RequeueRequest(ticketed, id, 0)
             [] answer.kind = "undo" -> UNCHANGED <<brokerVars, task>>
             [] OTHER -> FinishChunk(id, answer.count, bridge.requested)

\* A poll in which the active job ends.
FinishJob(kinds) ==
    LET bridge == bridges[executor.active.slot]
        x == TakeCompletion(Finish(executor), executor.active)
        bs == [bridges EXCEPT ![executor.active.slot] = NoBridge]
    IN  /\ Free
        /\ executor.active # NoJob
        /\ reserved' = reserved \ {bridge.owner}
        /\ IF bridge.owner # "request" \/ ~HasEntry(bridge.request)
           THEN executor' = x /\ bridges' = bs /\ UNCHANGED <<brokerVars, task>>
           ELSE IF WasCanceled(executor)
           THEN /\ BrokerAcknowledgeCancel(bridge.request)
                /\ task' = Work("idle")
                /\ executor' = x /\ bridges' = bs
           ELSE \E answer \in Answers(bridge) :
                    answer.kind \in kinds /\ AnswerRequest(x, bs, bridge, answer)
        /\ UNCHANGED <<due, others>>

-----------------------------------------------------------------------------
(* Clients, the clock and the other users of the executor                   *)

PreparedBatches == UNION {[1..n -> Prepared] : n \in 1..MaxBatch}

SubmitRequests ==
    /\ Free
    /\ \E b \in PreparedBatches : BrokerSubmit(b)
    /\ UNCHANGED fsVars

CancelARequest ==
    /\ Free
    /\ \E id \in Issued : BrokerCancel(id)
    /\ UNCHANGED fsVars

ProcessEnds ==
    /\ Free
    /\ \E p \in Processes : BrokerTerminate(p)
    /\ UNCHANGED fsVars

\* The power task quiesces admission; its job waits until no request is left.
QuiesceRequests ==
    /\ Free
    /\ accepting
    /\ BrokerBeginShutdown
    /\ UNCHANGED fsVars

\* Admission reopens once no job of the power task is left.
ResumeRequests ==
    /\ Free
    /\ ~accepting
    /\ "power" \notin reserved
    /\ BrokerResume
    /\ UNCHANGED fsVars

MayUse(o) == o = "power" => ~accepting /\ live = 0

\* enqueue_for_thread, writeback_task and power_task.
OtherJob(o) ==
    /\ Free
    /\ others < MaxOther
    /\ o \notin reserved
    /\ MayUse(o)
    /\ CanEnqueue(executor, OtherPriority[o])
    /\ EnqueueJob(executor, bridges, OtherPriority[o], ForOther(o))
    /\ reserved' = reserved \cup {o}
    /\ others' = others + 1
    /\ UNCHANGED <<brokerVars, task, due>>

ClockTicks ==
    /\ Free
    /\ Tick
    /\ UNCHANGED <<broker, fsVars>>

BackgroundDue ==
    /\ ~due
    /\ due' = TRUE
    /\ UNCHANGED <<brokerVars, executor, bridges, task, reserved, others>>

-----------------------------------------------------------------------------
AnswerKinds == {"error", "done", "pending", "undo", "bytes"}

RequestTask ==
    \/ PollRequests
    \/ WorkerSteps
    \/ Dispatch
    \/ Serve
    \/ TakeAction
    \/ CancelService
    \/ ReleaseService
    \/ RunBrokerWorker

FsNext ==
    \/ RequestTask
    \/ StartJob
    \/ FinishJob(AnswerKinds)
    \/ SubmitRequests
    \/ CancelARequest
    \/ ProcessEnds
    \/ QuiesceRequests
    \/ ResumeRequests
    \/ \E o \in DOMAIN OtherPriority : OtherJob(o)
    \/ ClockTicks
    \/ BackgroundDue

\* Every task is polled again and again, a job of the filesystem answers (a
\* call on storage returns, whatever the disk does), and a sync is not told
\* for ever to come back (tickets drain).
FsSpec ==
    /\ FsInit /\ [][FsNext]_allVars
    /\ WF_allVars(RequestTask)
    /\ WF_allVars(BackgroundDue)
    /\ SF_allVars(PollRequests)
    /\ SF_allVars(StartJob)
    /\ SF_allVars(FinishJob(AnswerKinds \ {"pending"}))

-----------------------------------------------------------------------------
(* Properties                                                               *)

\* The executor's queues are exact, and its jobs and the bridges name each
\* other: every job has one bridge, no bridge outlives its job, no finished job
\* keeps its slot, and a user who waits for a job has one.  When the job that
\* shuts storage down runs, no request has a job left that could run after it.
JobsBridged ==
    /\ ExecutorExact(executor)
    /\ \A i \in JobSlots :
          /\ executor.slots[i].state # "Complete"
          /\ executor.slots[i].state # "Free" <=> bridges[i] # NoBridge
    /\ reserved = {bridges[i].owner : i \in JobSlots} \ {"request", "none"}
    /\ executor.active # NoJob /\ bridges[executor.active.slot].owner = "power"
          => \A i \in JobSlots : bridges[i].owner # "request"

\* The request a completion or the task itself is about to settle.
InHand(id) ==
    \/ task.pc \in {"serve", "cancel"} /\ task.id = id
    \/ \E n \in DOMAIN completions : completions[n].id = id
    \/ \E n \in DOMAIN actions : actions[n].kind = "cancel" /\ actions[n].id = id

\* A dispatched request is never forgotten: while it is active or being
\* canceled, one job runs for it or its next step is at hand.  The kernel drops
\* the errors of record_completion, of acknowledge_cancel and of the job that
\* undoes an open, so nothing else would finish it.  A transfer that completed
\* reports its whole progress, and one that failed no more.
NoneForgotten ==
    /\ \A i \in LiveSlots :
          /\ Cardinality(BridgeOf(IdOf(i))) <= 1
          /\ req[i].state \in {"Active", "CancelPending"} =>
                BridgeOf(IdOf(i)) # {} \/ InHand(IdOf(i))
          /\ req[i].state = "Pending" => BridgeOf(IdOf(i)) = {}
    /\ \A i \in Slots :
          LET e == broker[i].entry
          IN  e # None /\ e.attempted =>
                 /\ e.bytes <= e.offset
                 /\ e.state = "Completed" => e.bytes = e.offset

\* Every request ends: it is published, its buffers come back and its slot is
\* free again (a slot is empty between two requests).
RequestsEnd == \A i \in Slots : []<>(req[i] = None)
=============================================================================
