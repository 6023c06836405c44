----------------------------- MODULE StorageDisk -----------------------------
(* The storage owner (storage.rs) over the block queue and one driver. A call *)
(* runs on the filesystem fiber: it lends bounce pages to a request, runs the *)
(* device worker between yields until the request is complete, and stops the  *)
(* driver when a worker fails or the request is aborted. A driver that does   *)
(* not stop leaves the pages in quarantine and the transfer pending.          *)
(*                                                                            *)
(* A request of Requests also has pages, the bounce pages it takes, and       *)
(* chunks, the number of such requests a call of read_sectors or              *)
(* write_sectors issues in turn.                                              *)
EXTENDS AsyncBlock

CONSTANTS
    PoolSize,   \* STORAGE_BOUNCE_PAGES
    MaxLease,   \* the last generation of a page (u32::MAX), then 1 again
    Timeout,    \* io_timeout_ns
    Config      \* the driver's device: a member of Configs

Pool == 1..PoolSize

\* PendingTransfer: the request and the leases of its pages
Transfer == [id : Id, pages : SUBSET [index : Pool, gen : 1..MaxLease]]

ASSUME StorageAssumption ==
    /\ {PoolSize, MaxLease, Timeout} \subseteq Nat \ {0}
    /\ None \notin Transfer
    /\ Config \in Configs
    /\ \A r \in Requests : /\ r.pages \in 0..PoolSize /\ r.chunks \in Nat \ {0}
                           /\ r.deadline = Timeout

VARIABLES
    mode,     \* Bootstrap or Runtime
    q,        \* the AsyncBlockQueue
    hw,       \* the commands the hardware owns: [token, pages]
    pool,     \* the bounce pages: [state, gen, id, next]
    pending,  \* pending_transfer: a Transfer, or None
    fiber     \* the call in progress: where it is and what it needs there

vars == <<mode, q, hw, pool, pending, fiber>>

Disk == [index |-> 1, gen |-> 1]
Idle == [at |-> "Idle", call |-> "None", request |-> None, chunks |-> 0, failed |-> FALSE, timer |-> 0]
EmptyPage == [state |-> "Available", gen |-> 0, id |-> None, next |-> 1]

Init ==
    /\ mode = "Bootstrap"
    /\ q = Registered(NewQueue, Config)
    /\ hw = {}
    /\ pool = [p \in Pool |-> EmptyPage]
    /\ pending = None
    /\ fiber = Idle

-----------------------------------------------------------------------------
(* Bounce pages *)

Available == {p \in Pool : pool[p].state = "Available"}

\* acquire takes the first available pages, and their next generations.
First(S, n) == {p \in S : Cardinality({x \in S : x < p}) < n}
NextGeneration(g) == IF g = MaxLease THEN 1 ELSE g + 1
Leased(S) == [p \in Pool |-> IF p \in S THEN [pool[p] EXCEPT !.gen = pool[p].next, !.next = NextGeneration(@)]
                             ELSE pool[p]]
\* mark_submitted, and release_unsubmitted on every way out before it.
MarkSubmitted(S, id) ==
    [p \in Pool |-> IF p \in S THEN [Leased(S)[p] EXCEPT !.state = "Submitted", !.id = id] ELSE pool[p]]
ReleaseUnsubmitted(S) ==
    [p \in Pool |-> IF p \in S THEN [Leased(S)[p] EXCEPT !.gen = 0] ELSE pool[p]]

Owns(p, states) ==
    pool[p.index].state \in states /\ pool[p.index].gen = p.gen /\ pool[p.index].id = pending.id
Returned(S) == [p \in Pool |-> IF p \in S THEN [EmptyPage EXCEPT !.next = pool[p].next] ELSE pool[p]]
Indices(S) == {p.index : p \in S}

\* release_pending_pages stops at the first page that is not submitted.
ReleaseSubmitted ==
    LET bad == {p \in pending.pages : ~Owns(p, {"Submitted"})}
    IN  Returned({p.index : p \in {x \in pending.pages : \A y \in bad : x.index < y.index}})

\* quarantine_request
Quarantined ==
    [p \in Pool |-> IF pending # None /\ pool[p].state = "Submitted" /\ pool[p].id = pending.id
                    THEN [pool[p] EXCEPT !.state = "Quarantined"] ELSE pool[p]]

-----------------------------------------------------------------------------
(* Calls *)

\* activate_async
ActivateAsync ==
    /\ mode = "Bootstrap" /\ pending = None
    /\ mode' = "Runtime"
    /\ UNCHANGED <<q, hw, pool, pending, fiber>>

\* runtime_read, runtime_write and runtime_flush, chunk by chunk
Call(r) ==
    /\ mode = "Runtime" /\ fiber = Idle
    /\ fiber' = [Idle EXCEPT !.at = "Submit", !.call = "Transfer", !.request = r, !.chunks = r.chunks]
    /\ UNCHANGED <<mode, q, hw, pool, pending>>

\* submit_runtime_request up to its loop
CanSubmit == q.shutdown = "Running" /\ IsPresent(q, Disk) /\ Free(q) # {}
SubmitRequest ==
    LET r == fiber.request
        S == First(Available, r.pages)
        id == IdOf(q, Min(Free(q)))
    IN  /\ fiber.at = "Submit"
        /\ IF pending # None
           THEN fiber' = Idle /\ UNCHANGED <<q, pool, pending>>
           ELSE IF Cardinality(S) < r.pages \/ ~CanSubmit
           THEN /\ pool' = ReleaseUnsubmitted(S)
                /\ fiber' = Idle
                /\ UNCHANGED <<q, pending>>
           ELSE /\ q' = Submitted(q, Disk, r)
                /\ pool' = MarkSubmitted(S, id)
                /\ pending' = [id |-> id, pages |-> {[index |-> p, gen |-> pool[p].next] : p \in S}]
                /\ fiber' = [fiber EXCEPT !.at = "Complete", !.chunks = @ - 1]
        /\ UNCHANGED <<mode, hw>>

\* shutdown, up to its loop
Shutdown ==
    /\ mode = "Runtime" /\ fiber = Idle /\ pending = None
    /\ q' = IF q.shutdown = "Running" THEN ShutdownBegun(q) ELSE q
    /\ fiber' = [Idle EXCEPT !.at = "Check", !.call = "Shutdown", !.timer = Timeout]
    /\ UNCHANGED <<mode, hw, pool, pending>>

\* reset
ResetCall ==
    /\ mode = "Runtime" /\ fiber = Idle
    /\ fiber' = [Idle EXCEPT !.at = "Reset", !.call = "Reset", !.timer = Timeout]
    /\ UNCHANGED <<mode, q, hw, pool, pending>>

-----------------------------------------------------------------------------
(* run_device_worker, one driver call at a time *)

At(place) == fiber' = [fiber EXCEPT !.at = place]
WorkerFails == fiber' = [fiber EXCEPT !.at = "Check", !.failed = TRUE]

PollCompletion(c, status) ==
    /\ fiber.at = "Complete" /\ c \in hw
    /\ q' = Completed(q, c.token, status)
    /\ hw' = hw \ {c}
    /\ UNCHANGED <<mode, pool, pending, fiber>>

\* No completion is left, and the deadlines are checked; or the driver fails.
ExpireDeadlines ==
    /\ fiber.at = "Complete"
    /\ \/ q' = Expired(q) /\ At("Cancel")
       \/ q' = q /\ WorkerFails
    /\ UNCHANGED <<mode, hw, pool, pending>>

RequestCancel ==
    /\ fiber.at = "Cancel"
    /\ IF IsPresent(q, Disk) /\ Untold(q, Disk) # {}
       THEN q' = CancelTold(q, Disk) /\ (UNCHANGED fiber \/ WorkerFails)
       ELSE UNCHANGED q /\ At("Dispatch")
    /\ UNCHANGED <<mode, hw, pool, pending>>

\* The driver is not ready, fails, takes the command or refuses it.
PollReady ==
    LET r == IF IsPresent(q, Disk) THEN DispatchedOne(q, Disk.index) ELSE [q |-> q, token |-> None]
        lent == IF r.token.final THEN {} ELSE Indices(pending.pages)
    IN  /\ fiber.at = "Dispatch"
        /\ \/ At("Check") /\ UNCHANGED <<q, hw>>
           \/ WorkerFails /\ UNCHANGED <<q, hw>>
           \/ r.token = None /\ q' = r.q /\ At("Check") /\ UNCHANGED hw
           \/ r.token # None /\ q' = r.q /\ hw' = hw \union {[token |-> r.token, pages |-> lent]}
              /\ UNCHANGED fiber
           \/ r.token # None /\ q' = Completed(r.q, r.token, "IoError") /\ WorkerFails /\ UNCHANGED hw
        /\ UNCHANGED <<mode, pool, pending>>

-----------------------------------------------------------------------------
(* The loops between yields, and the recovery of the driver *)

State == q.slots[pending.id.slot].state
\* poll_request: CancelPending
IsAborted_Never == FALSE
IsAborted == q.slots[pending.id.slot].pending # None

\* finish_completion: pages that are not all submitted are quarantined, and the
\* transfer stays pending.
FinishCompletion_NotTaken(queue, ok) ==
    /\ q' = queue
    /\ pool' = ReleaseSubmitted /\ pending' = None
    /\ fiber' = Idle
FinishCompletion(queue, ok) ==
    /\ q' = Released(queue, pending.id.slot)
    /\ IF \A p \in pending.pages : Owns(p, {"Submitted"})
       THEN pool' = ReleaseSubmitted /\ pending' = None
       ELSE pool' = Quarantined /\ UNCHANGED pending
    /\ fiber' = IF ok /\ fiber.chunks > 0 THEN [fiber EXCEPT !.at = "Submit", !.failed = FALSE] ELSE Idle

BeginReset == fiber' = [fiber EXCEPT !.at = "Reset", !.timer = Timeout] /\ UNCHANGED <<q, pool, pending>>
Yield == fiber' = [fiber EXCEPT !.at = "Complete"] /\ UNCHANGED <<q, pool, pending>>

\* The loop of submit_runtime_request after the worker: a completion counts
\* even if the worker failed.
CheckTransfer_FirstCommand ==
    /\ fiber.at = "Check" /\ fiber.call = "Transfer"
    /\ IF State = "Terminal" THEN FinishCompletion(q, q.slots[pending.id.slot].outcome = "Success")
       ELSE IF q.slots[pending.id.slot].bytes > 0 THEN FinishCompletion(q, TRUE)
       ELSE IF fiber.failed \/ IsAborted THEN BeginReset
       ELSE Yield
    /\ UNCHANGED <<mode, hw>>
CheckTransfer ==
    /\ fiber.at = "Check" /\ fiber.call = "Transfer"
    /\ IF State = "Terminal" THEN FinishCompletion(q, q.slots[pending.id.slot].outcome = "Success")
       ELSE IF fiber.failed \/ IsAborted THEN BeginReset
       ELSE Yield
    /\ UNCHANGED <<mode, hw>>

\* The loop of shutdown
CheckShutdown ==
    /\ fiber.at = "Check" /\ fiber.call = "Shutdown"
    /\ IF fiber.failed THEN BeginReset
       ELSE IF q.shutdown = "Drained" THEN fiber' = Idle /\ UNCHANGED <<q, pool, pending>>
       ELSE IF fiber.timer = 0 THEN BeginReset
       ELSE Yield
    /\ UNCHANGED <<mode, hw>>

\* reap_pending_after_reset clears the transfer before it releases its pages.
ReapAfterReset(queue) ==
    /\ fiber' = Idle
    /\ IF pending = None THEN q' = queue /\ UNCHANGED <<pool, pending>>
       ELSE q' = Released(queue, pending.id.slot) /\ pool' = ReleaseSubmitted /\ pending' = None

\* poll_reset reports that DMA has stopped, and the device is removed.
ResetDone ==
    LET removed == Removed(q, Disk) IN
    /\ fiber.at = "Reset"
    /\ hw' = {}
    /\ IF ~IsPresent(q, Disk) THEN fiber' = Idle /\ UNCHANGED <<q, pool, pending>>
       ELSE IF fiber.call = "Reset" THEN ReapAfterReset(removed)
       ELSE IF fiber.call = "Shutdown" THEN fiber' = Idle /\ q' = removed /\ UNCHANGED <<pool, pending>>
       ELSE FinishCompletion(removed, FALSE)
    /\ UNCHANGED mode

\* The driver fails to stop, or the time is up: the hardware may go on.
ResetFailed ==
    /\ fiber.at = "Reset"
    /\ pool' = Quarantined
    /\ fiber' = Idle
    /\ UNCHANGED <<mode, q, hw, pending>>

\* force_shutdown_after_dma_stopped, with reap_pending_after_dma_stopped: the
\* platform has stopped the bus.
ForceShutdown ==
    LET forced == Forced(q)
        whole == \A p \in pending.pages : Owns(p, {"Submitted", "Quarantined"})
    IN  /\ fiber = Idle
        /\ hw' = {}
        /\ IF pending = None THEN q' = forced /\ UNCHANGED <<pool, pending>>
           ELSE /\ q' = Released(forced, pending.id.slot)
                /\ IF whole THEN pool' = Returned(Indices(pending.pages)) /\ pending' = None
                   ELSE UNCHANGED <<pool, pending>>
        /\ UNCHANGED <<mode, fiber>>

\* Time passes while the fiber has yielded.
Tick ==
    /\ fiber.at \in {"Check", "Reset"}
    /\ q' = WithSlots(q, [i \in LiveSlots(q) |-> [q.slots[i] EXCEPT !.deadline = OneLess(@)]])
    /\ fiber' = [fiber EXCEPT !.timer = OneLess(@)]
    /\ UNCHANGED <<mode, hw, pool, pending>>

\* What the fiber does by itself; the driver need not complete or stop.
Step ==
    \/ SubmitRequest \/ ExpireDeadlines \/ RequestCancel \/ PollReady
    \/ CheckTransfer \/ CheckShutdown
Driver ==
    \/ ResetDone \/ ResetFailed
    \/ \E c \in hw, s \in Statuses : PollCompletion(c, s)

Next ==
    \/ Step \/ Driver \/ Tick \/ ActivateAsync \/ Shutdown \/ ResetCall \/ ForceShutdown
    \/ \E r \in Requests : Call(r)

\* The executor resumes the fiber again and again, and time passes in between.
Fairness == WF_vars(Step) /\ WF_vars(fiber.timer = 0 /\ (ResetDone \/ ResetFailed)) /\ SF_vars(Tick)
Spec == Init /\ [][Next]_vars /\ Fairness

-----------------------------------------------------------------------------
(* Properties *)

\* The pages follow the rules of the abstract loan: a page returns to the pool
\* only when no command can reach it, whichever of completion, time-out, failed
\* worker, reset, failed reset and forced shutdown ends the transfer.
Loan == INSTANCE DmaLoan WITH
            Pages <- Pool,
            lent <- {p \in Pool : pool[p].state # "Available"},
            dma <- UNION {c.pages : c \in hw}
LoanKept == Loan!Spec

\* A call leaves nothing behind.  Between calls a transfer is pending only if
\* the driver could not be stopped, and then all its pages are in quarantine
\* under its own lease; no page is left submitted for a transfer that is over.
\* With none pending, no completion is forgotten in the queue, and nothing is in
\* the hardware but the final flush of a shutdown that failed.
NothingLeft ==
    /\ \A p \in Pool : pool[p].state = "Submitted" =>
          /\ pending # None /\ fiber.at \notin {"Idle", "Submit"}
          /\ pool[p].id = pending.id /\ [index |-> p, gen |-> pool[p].gen] \in pending.pages
    /\ fiber = Idle /\ pending # None => \A p \in pending.pages : Owns(p, {"Quarantined"})
    /\ fiber = Idle /\ pending = None =>
          /\ \A i \in Slots : q.slots[i].state \in {"Free", "Retired"}
          /\ \A c \in hw : c.token.final

\* Every call returns, also when the hardware never answers and never stops:
\* the deadline of the request and the timer of the reset bound it.
CallsReturn == fiber # Idle ~> fiber = Idle
=============================================================================
