------------------------------ MODULE WriteBack ------------------------------
(* The write-back block cache between RedoxFS and the disk (writeback.rs):   *)
(* accepted writes wait in cache entries, a flush request is a ticket on the *)
(* write sequence, and a worker writes dirty blocks back, lowest sequence    *)
(* first, flushing the disk whenever the oldest ticket has been reached.     *)
(*                                                                           *)
(* A call is broken at its backing operations and at its per-block steps;    *)
(* `call` holds its local variables. One call runs at a time, because every  *)
(* method takes the cache by exclusive reference.                            *)
(*                                                                           *)
(* The data of a block is the sequence number of the write it came from, so  *)
(* `data` is also last_sequence. An entry is found by its block: that the    *)
(* hash table finds it is LookupTable. Metrics are left out.                 *)
EXTENDS Integers, FiniteSets, Sequences, FiniteSetsExt

CONSTANTS
    NumBlocks,      \* size of the backing disk in blocks
    EntryCount,     \* entries.len()
    BatchBlocks,    \* writeback_batch_blocks
    ReadAhead,      \* READ_AHEAD_BLOCKS
    MaxSequence,    \* bound on write_sequence
    MaxFailures,    \* bound on the number of failing backing writes and flushes
    Transfers,      \* the numbers of blocks a caller reads or writes at once
    DrainSteps      \* the step limits a caller gives a drain

ASSUME SizesAssumption ==
    /\ NumBlocks \in Nat \ {0} /\ EntryCount \in Nat \ {0}
    /\ BatchBlocks \in Nat \ {0} /\ ReadAhead \in Nat
    /\ MaxSequence \in Nat /\ MaxFailures \in Nat
    /\ Transfers \subseteq Nat /\ DrainSteps \subseteq Nat

VARIABLES
    cache,      \* resident block -> [dirty, first (first_sequence), data]
    recency,    \* the resident blocks by last_used, oldest first
    tickets,    \* the ring of outstanding flush tickets
    written,    \* write_sequence
    requested,  \* requested_sequence
    durable,    \* durable_sequence
    async,      \* async_writeback_enabled
    quiesced,
    failure,    \* a sticky failure is recorded
    retry,      \* writeback_retry of the kernel's writeback task
    call,       \* the call in progress
    disk,       \* what the backing disk answers to a read
    media,      \* block -> the contents a power loss could leave on the medium
    log,        \* history: log[s] is the block of write s
    failures    \* number of backing operations that failed

cacheVars == <<cache, recency>>
ticketVars == <<tickets, requested>>
modeVars == <<async, quiesced>>
backing == <<cache, disk, media, durable, tickets, failure, failures>>
vars == <<cache, recency, tickets, written, requested, durable, async, quiesced,
          failure, retry, call, disk, media, log, failures>>

Blocks == 0..(NumBlocks - 1)
Sequence == 0..MaxSequence
Entry == [dirty : BOOLEAN, first : Sequence, data : Sequence]
TicketSlots == EntryCount + 1

Resident == DOMAIN cache
Dirty == {b \in Resident : cache[b].dirty}
Clean == Resident \ Dirty

Idle == [op |-> "idle"]

Init ==
    /\ cache = [b \in {} |-> 0]
    /\ recency = <<>>
    /\ tickets = <<>>
    /\ written = 0 /\ requested = 0 /\ durable = 0
    /\ async = FALSE /\ quiesced = FALSE /\ failure = FALSE /\ retry = FALSE
    /\ call = Idle
    /\ disk = [b \in Blocks |-> 0]
    /\ media = [b \in Blocks |-> {0}]
    /\ log = <<>>
    /\ failures = 0

-----------------------------------------------------------------------------
(* Backing operations *)

\* The oldest ticket has been reached: what is still dirty was written after it.
TicketReady ==
    tickets # <<>> /\ \A b \in Dirty : cache[b].first > Head(tickets)

\* Block b + 1 is the next dirty block in sequence order and may be written
\* back by the same transfer as b.
Follows(b) ==
    /\ b + 1 \in Dirty
    /\ cache[b + 1].first > cache[b].first
    /\ \A c \in Dirty : cache[c].first > cache[b].first => cache[c].first >= cache[b + 1].first
    /\ tickets # <<>> => cache[b + 1].first <= Head(tickets)

\* b has the lowest first_sequence of the dirty blocks.
Lowest(b) == b \in Dirty /\ \A c \in Dirty : cache[b].first <= cache[c].first

\* The blocks of one transfer: as many as follow each other, up to the batch.
IsRun(b, n) ==
    /\ Lowest(b)
    /\ n \in 1..BatchBlocks
    /\ \A k \in 0..(n - 2) : Follows(b + k)
    /\ n = BatchBlocks \/ ~Follows(b + n - 1)

\* The blocks `run` reach the disk but, before a flush, maybe not the medium.
Transfer(run, done) ==
    /\ disk' = [b \in Blocks |-> IF b \in done THEN cache[b].data ELSE disk[b]]
    /\ media' = [b \in Blocks |-> IF b \in run THEN media[b] \union {cache[b].data} ELSE media[b]]

Failed ==
    /\ failures < MaxFailures
    /\ failures' = failures + 1
    /\ failure' = TRUE

FlushBacking_Newest(ok) ==
    /\ TicketReady
    /\ IF ok THEN /\ durable' = requested
                  /\ tickets' = Tail(tickets)
                  /\ media' = [b \in Blocks |-> {disk[b]}]
                  /\ failure' = FALSE
                  /\ UNCHANGED failures
             ELSE Failed /\ UNCHANGED <<durable, tickets, media>>
    /\ UNCHANGED <<cache, disk>>
FlushBacking(ok) ==
    /\ TicketReady
    /\ IF ok THEN /\ durable' = Head(tickets)
                  /\ tickets' = Tail(tickets)
                  /\ media' = [b \in Blocks |-> {disk[b]}]
                  /\ failure' = FALSE
                  /\ UNCHANGED failures
             ELSE Failed /\ UNCHANGED <<durable, tickets, media>>
    /\ UNCHANGED <<cache, disk>>

WriteBackRun(ok) ==
    /\ ~TicketReady
    /\ \E b \in Dirty, n \in 1..BatchBlocks :
        /\ IsRun(b, n)
        /\ LET run == b..(b + n - 1) IN
           IF ok THEN /\ Transfer(run, run)
                      /\ cache' = [c \in Resident |-> IF c \in run THEN [cache[c] EXCEPT !.dirty = FALSE]
                                                      ELSE cache[c]]
                      /\ failure' = FALSE
                      /\ UNCHANGED failures
                 ELSE /\ \E done \in SUBSET run : Transfer(run, done)
                      /\ Failed
                      /\ UNCHANGED cache
    /\ UNCHANGED <<durable, tickets>>

\* One backing operation, from a state without a recorded failure.
BackingStep(ok) == FlushBacking(ok) \/ WriteBackRun(ok)
NothingToDo == tickets = <<>> /\ Dirty = {}

-----------------------------------------------------------------------------
(* Cache entries *)

Touch(r, b) == Append(SelectSeq(r, LAMBDA c : c # b), b)
Forget(r, b) == SelectSeq(r, LAMBDA c : c # b)

\* v is the least recently used clean block: the entry reusable_entry takes
\* when none is vacant.
Victim(v) ==
    \E i \in DOMAIN recency :
        /\ recency[i] = v
        /\ v \in Clean
        /\ \A j \in 1..(i - 1) : recency[j] \notin Clean

Vacant == Cardinality(Resident) < EntryCount

\* Block b takes a vacant entry or the victim's.
Insert(b, e) ==
    IF Vacant
    THEN /\ cache' = [c \in Resident \union {b} |-> IF c = b THEN e ELSE cache[c]]
         /\ recency' = Append(recency, b)
    ELSE \E v \in Clean :
         /\ Victim(v)
         /\ cache' = [c \in (Resident \ {v}) \union {b} |-> IF c = b THEN e ELSE cache[c]]
         /\ recency' = Append(Forget(recency, v), b)

-----------------------------------------------------------------------------
(* write_at *)

ReadOnly == quiesced \/ failure
Span(b, n) == b..(b + n - 1)

\* A write may not join an entry that an outstanding ticket covers.
Barred_OldestTicket(b, n) ==
    tickets # <<>> /\ \E c \in Span(b, n) \intersect Dirty : cache[c].first <= Head(tickets)
Barred(b, n) ==
    tickets # <<>> /\ \E c \in Span(b, n) \intersect Dirty : cache[c].first <= requested

\* The entries of cache c that a write of blocks `keep` may reuse.
Reusable_AnyClean(c, keep) == EntryCount - Cardinality({b \in DOMAIN c : c[b].dirty})
Reusable(c, keep) == EntryCount - Cardinality({b \in DOMAIN c : c[b].dirty \/ b \in keep})

NewEntries(b, n) == Cardinality(Span(b, n) \ Resident)

\* preflight_write up to its pressure loop.
WriteAt(b, n) ==
    /\ call = Idle
    /\ n > 0 /\ b + n <= NumBlocks
    /\ ~ReadOnly
    /\ n <= EntryCount
    /\ written + n <= MaxSequence
    /\ ~Barred(b, n)
    /\ call' = [op |-> "preflight", block |-> b, count |-> n, need |-> NewEntries(b, n),
                left |-> Max({0, NewEntries(b, n) - Reusable(cache, Span(b, n))})]
    /\ UNCHANGED <<cacheVars, ticketVars, written, durable, modeVars, failure, retry, disk, media,
                   log, failures>>

Short == Reusable(cache, Span(call.block, call.count)) < call.need

\* One turn of the pressure loop: a step that frees nothing, or fails, ends the call.
AfterPressure(ok) ==
    IF ok /\ Reusable(cache', Span(call.block, call.count)) > Reusable(cache, Span(call.block, call.count))
    THEN [call EXCEPT !.left = @ - 1] ELSE Idle
PressureStep(ok) ==
    /\ call.op = "preflight" /\ Short /\ call.left > 0
    /\ BackingStep(ok)
    /\ call' = AfterPressure(ok)
    /\ UNCHANGED <<recency, requested, written, modeVars, retry, log>>

\* Enough entries are reusable, or the loop has ended short of them.
PreflightEnd ==
    /\ call.op = "preflight"
    /\ ~Short \/ call.left = 0
    /\ call' = IF Short THEN Idle
               ELSE [op |-> "accept", block |-> call.block, count |-> call.count, at |-> 0]
    /\ UNCHANGED <<cacheVars, ticketVars, written, durable, modeVars, failure, retry, disk, media,
                   log, failures>>

Coalesced(e, s) == [dirty |-> TRUE, first |-> IF e.dirty THEN e.first ELSE s, data |-> s]

CanAccept(b) == b \in Resident \/ Vacant \/ Clean # {}

AcceptBlock ==
    LET b == call.block + call.at
        s == written + 1
    IN  /\ call.op = "accept"
        /\ written' = s
        /\ IF CanAccept(b)
           THEN /\ IF b \in Resident
                   THEN /\ cache' = [cache EXCEPT ![b] = Coalesced(cache[b], s)]
                        /\ recency' = Touch(recency, b)
                   ELSE Insert(b, [dirty |-> TRUE, first |-> s, data |-> s])
                /\ log' = Append(log, b)
                /\ call' = IF call.at + 1 = call.count THEN Idle ELSE [call EXCEPT !.at = @ + 1]
           ELSE call' = Idle /\ UNCHANGED <<cacheVars, log>>
        /\ UNCHANGED <<ticketVars, durable, modeVars, failure, retry, disk, media, failures>>

-----------------------------------------------------------------------------
(* Flush requests and drains *)

CanRequest == ~failure /\ (written = requested \/ Len(tickets) < TicketSlots)

\* request_durability: the ticket is `written` either way.
RequestDurability ==
    /\ CanRequest
    /\ requested' = written
    /\ tickets' = IF written = requested THEN tickets ELSE Append(tickets, written)

\* The caller goes on to drain its ticket in at most `steps` backing operations.
\* `sole` (history): a flush that found no older ticket outstanding.
Drain(ticket, steps, sole) ==
    [op |-> "drain", ticket |-> ticket, left |-> steps, sole |-> sole]

FlushBudget_Entries == EntryCount
FlushBudget == EntryCount + 1

Flush ==
    /\ call = Idle
    /\ RequestDurability
    /\ IF async THEN call' = Idle ELSE call' = Drain(written, FlushBudget, Len(tickets') <= 1)
    /\ UNCHANGED <<cacheVars, written, durable, modeVars, failure, retry, disk, media, log, failures>>

EnableAsyncWriteback ==
    /\ call = Idle
    /\ async' = TRUE
    /\ UNCHANGED <<cacheVars, ticketVars, written, durable, quiesced, failure, retry, call, disk,
                   media, log, failures>>

\* Writes stop even if the request for durability is refused.
Quiesce ==
    /\ call = Idle
    /\ quiesced' = TRUE
    /\ IF CanRequest THEN RequestDurability ELSE UNCHANGED ticketVars
    /\ UNCHANGED <<cacheVars, written, durable, async, failure, retry, call, disk, media, log, failures>>

ShutdownDrain(steps) ==
    /\ call = Idle
    /\ quiesced' = TRUE
    /\ IF CanRequest THEN RequestDurability /\ call' = Drain(written, steps, FALSE)
                     ELSE UNCHANGED <<ticketVars, call>>
    /\ UNCHANGED <<cacheVars, written, durable, async, failure, retry, disk, media, log, failures>>

ResumeAfterQuiesce ==
    /\ call = Idle
    /\ ~failure
    /\ quiesced' = FALSE
    /\ UNCHANGED <<cacheVars, ticketVars, written, durable, async, failure, retry, call, disk, media,
                   log, failures>>

\* wait_durable, and drain_ticket for a ticket issued earlier.
WaitDurable(ticket, steps) ==
    /\ call = Idle
    /\ ticket <= requested
    /\ call' = Drain(ticket, steps, FALSE)
    /\ UNCHANGED <<cacheVars, ticketVars, written, durable, modeVars, failure, retry, disk, media,
                   log, failures>>

DrainPending == call.op = "drain" /\ call.left > 0 /\ durable < call.ticket

DrainStep(ok) ==
    /\ DrainPending /\ ~failure
    /\ BackingStep(ok)
    /\ call' = IF ok THEN [call EXCEPT !.left = @ - 1] ELSE Idle
    /\ UNCHANGED <<recency, requested, written, modeVars, retry, log>>

\* The ticket is durable, the limit is reached, or a recorded failure refuses a step.
DrainEnd ==
    /\ call.op = "drain"
    /\ ~DrainPending \/ failure
    /\ call' = Idle
    /\ UNCHANGED <<cacheVars, ticketVars, written, durable, modeVars, failure, retry, disk, media,
                   log, failures>>

-----------------------------------------------------------------------------
(* The kernel's writeback task: one step per job, a retry after a failure *)

WorkerStep(ok) ==
    /\ call = Idle
    /\ ~failure \/ retry
    /\ BackingStep(ok)
    /\ retry' = ~ok
    /\ UNCHANGED <<recency, requested, written, modeVars, call, log>>

\* The step is refused because a failure is recorded: the next job is a retry.
WorkerRefused_Waits ==
    /\ call = Idle
    /\ failure /\ ~retry
    /\ UNCHANGED vars
WorkerRefused ==
    /\ call = Idle
    /\ failure /\ ~retry
    /\ retry' = TRUE
    /\ UNCHANGED <<cacheVars, ticketVars, written, durable, modeVars, failure, call, disk, media,
                   log, failures>>

\* A retry with nothing left to do clears the failure.
WorkerIdle ==
    /\ call = Idle
    /\ ~failure \/ retry
    /\ NothingToDo
    /\ failure' = FALSE
    /\ retry' = FALSE
    /\ UNCHANGED <<cacheVars, ticketVars, written, durable, modeVars, call, disk, media, log, failures>>

-----------------------------------------------------------------------------
(* read_at *)

ReadAt(b, n) ==
    /\ call = Idle
    /\ b + n <= NumBlocks
    /\ call' = [op |-> "read", block |-> b, count |-> n, buffer |-> <<>>, admit |-> <<>>]
    /\ UNCHANGED <<cacheVars, ticketVars, written, durable, modeVars, failure, retry, disk, media,
                   log, failures>>

NextRead == call.block + Len(call.buffer)
Reading == call.op = "read" /\ call.admit = <<>> /\ Len(call.buffer) < call.count

ReadHit ==
    /\ Reading
    /\ NextRead \in Resident
    /\ recency' = Touch(recency, NextRead)
    /\ call' = [call EXCEPT !.buffer = Append(@, cache[NextRead].data)]
    /\ UNCHANGED <<cache, ticketVars, written, durable, modeVars, failure, retry, disk, media, log,
                   failures>>

\* The missing blocks from the next one on, n of them.
IsMissRun_ToEnd(n) == n = call.count - Len(call.buffer)
IsMissRun(n) ==
    /\ n \in 1..(call.count - Len(call.buffer))
    /\ \A k \in 0..(n - 1) : NextRead + k \notin Resident
    /\ n = call.count - Len(call.buffer) \/ NextRead + n \in Resident

\* A single missing block is read together with its successors, which are
\* admitted before it.
AheadBlocks == Min({NumBlocks - NextRead, ReadAhead, EntryCount})
Admitted(n) ==
    IF n = 1 /\ AheadBlocks > 1
    THEN [k \in 1..AheadBlocks |-> IF k = AheadBlocks THEN NextRead ELSE NextRead + k]
    ELSE [k \in 1..n |-> NextRead + k - 1]

ReadMiss(ok) ==
    /\ Reading
    /\ NextRead \notin Resident
    /\ \E n \in 1..call.count :
        /\ IsMissRun(n)
        /\ call' = IF ok THEN [call EXCEPT !.buffer = @ \o [k \in 1..n |-> disk[NextRead + k - 1]],
                                           !.admit = Admitted(n)]
                         ELSE Idle
    /\ UNCHANGED <<cacheVars, ticketVars, written, durable, modeVars, failure, retry, disk, media,
                   log, failures>>

\* A block already resident keeps its entry: the copy read from disk may be old.
KeepsEntry(b) == b \in Resident \/ ~(Vacant \/ Clean # {})

AdmitClean ==
    LET b == Head(call.admit) IN
    /\ call.op = "read" /\ call.admit # <<>>
    /\ IF KeepsEntry(b) THEN UNCHANGED cacheVars
       ELSE Insert(b, [dirty |-> FALSE, first |-> 0, data |-> disk[b]])
    /\ call' = [call EXCEPT !.admit = Tail(@)]
    /\ UNCHANGED <<ticketVars, written, durable, modeVars, failure, retry, disk, media, log, failures>>

ReadEnd ==
    /\ call.op = "read" /\ call.admit = <<>> /\ Len(call.buffer) = call.count
    /\ call' = Idle
    /\ UNCHANGED <<cacheVars, ticketVars, written, durable, modeVars, failure, retry, disk, media,
                   log, failures>>

-----------------------------------------------------------------------------
Worker == (\E ok \in BOOLEAN : WorkerStep(ok)) \/ WorkerRefused \/ WorkerIdle

\* The steps of a call that has begun.
Continue ==
    \/ \E ok \in BOOLEAN : PressureStep(ok) \/ DrainStep(ok) \/ ReadMiss(ok)
    \/ PreflightEnd \/ AcceptBlock \/ DrainEnd \/ ReadHit \/ AdmitClean \/ ReadEnd

Next ==
    \/ \E b \in Blocks, n \in Transfers : WriteAt(b, n) \/ ReadAt(b, n)
    \/ Flush \/ EnableAsyncWriteback \/ Quiesce \/ ResumeAfterQuiesce
    \/ \E steps \in DrainSteps : ShutdownDrain(steps) \/ \E t \in Sequence : WaitDurable(t, steps)
    \/ Continue
    \/ Worker

Spec == Init /\ [][Next]_vars

\* A started call runs on, and the writeback task's job, queued behind other
\* filesystem jobs every 100 ms, gets its turn again and again.
FairSpec == Spec /\ WF_vars(Continue) /\ SF_vars(Worker)

-----------------------------------------------------------------------------
(* Properties *)

\* The last write to b that was accepted.
Latest(b) == Max({0} \union {s \in DOMAIN log : log[s] = b})

\* The cache hides the disk's age.  A read returns for each block the last
\* write accepted, although admitting the blocks of one miss may evict later
\* blocks of the same read.  A resident entry holds the last write accepted for
\* its block, and what is not resident is up to date on the disk, whatever was
\* evicted, read ahead, coalesced or left behind by a failed transfer.
ReadsLatest ==
    /\ \A b \in Blocks : Latest(b) = IF b \in Resident THEN cache[b].data ELSE disk[b]
    /\ call.op = "read" =>
          \A k \in DOMAIN call.buffer : call.buffer[k] = Latest(call.block + k - 1)

\* durable_sequence is honest: after a power loss at any moment every block
\* still holds the last write up to durable_sequence, or a later one.
DurableSurvives ==
    \A s \in 1..durable : \A v \in media[log[s]] : v >= s

\* A flush ticket is a barrier: as long as a ticket is outstanding, nothing
\* written after it can have reached the medium (writeback.rs, module comment).
Barrier ==
    \A b \in Blocks : \A v \in media[b] : \A i \in DOMAIN tickets : v <= tickets[i]

\* Once preflight_write has passed, accept_block finds an entry for every
\* block of the write: a write is taken whole or not at all, although accepting
\* one block may evict the clean entry of another block of the same write.
AcceptsWhole ==
    call.op = "accept" => CanAccept(call.block + call.at)

\* A synchronous flush that has no older ticket to wait for is never cut short
\* by its step limit of entries.len() + 1.
FlushSuffices ==
    call.op = "drain" /\ call.sole /\ durable < call.ticket
    => Cardinality({b \in Dirty : cache[b].first <= call.ticket}) + Len(tickets) <= call.left

\* Every flush ticket becomes durable, if the disk fails finitely often:
\* the worker retries after a failure and no call wedges it.
TicketsDrain == \A t \in Sequence : requested >= t ~> durable >= t
=============================================================================
