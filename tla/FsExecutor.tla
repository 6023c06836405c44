------------------------------ MODULE FsExecutor ------------------------------
(***************************************************************************)
(* The fixed-capacity filesystem executor                                   *)
(* (crates/ginkgo-kernel/src/fs_executor.rs): a table of generation-tagged  *)
(* job slots, three ready queues and the one job the filesystem fiber runs. *)
(* Each operator takes the executor record x and returns what the call      *)
(* leaves behind.  What a job does is in the modules that run it.           *)
(***************************************************************************)
EXTENDS Integers, Sequences, FiniteSets, SeqOps

CONSTANTS
    JobCapacity,        \* FS_JOB_CAPACITY
    NormalCapacity,     \* FS_NORMAL_JOB_CAPACITY: the rest is kept for the kernel
    MaxJobGeneration    \* where the generation of a job slot wraps (u32::MAX)

ASSUME ExecutorAssumption ==
    /\ {JobCapacity, NormalCapacity, MaxJobGeneration} \subseteq Nat \ {0}
    /\ NormalCapacity <= JobCapacity

NoJob == [slot |-> 0, gen |-> 0]
JobSlots == 1..JobCapacity
Priorities == {"Shutdown", "Kernel", "Normal"}

\* SchedulerState::new
NewExecutor ==
    [slots |-> [i \in JobSlots |-> [gen |-> 1, state |-> "Free", priority |-> "Normal",
                                    canceled |-> FALSE]],
     ready |-> [p \in Priorities |-> <<>>],
     active |-> NoJob,
     normal |-> 0]

FreeSlots(x) == {i \in JobSlots : x.slots[i].state = "Free"}

CanEnqueue(x, priority) ==
    /\ priority = "Normal" => x.normal # NormalCapacity
    /\ FreeSlots(x) # {}

\* The id the next accepted job gets.
NextJobId(x) ==
    LET i == CHOOSE i \in FreeSlots(x) : \A j \in FreeSlots(x) : i <= j
    IN  [slot |-> i, gen |-> x.slots[i].gen]

Enqueue(x, priority) ==
    LET id == NextJobId(x)
    IN  [x EXCEPT !.slots[id.slot].state = "Queued",
                  !.slots[id.slot].priority = priority,
                  !.slots[id.slot].canceled = FALSE,
                  !.ready[priority] = Append(@, id),
                  !.normal = IF priority = "Normal" THEN @ + 1 ELSE @]

\* slot_mut
IsJob(x, id) == x.slots[id.slot].gen = id.gen /\ x.slots[id.slot].state # "Free"

JobState(x, id) == IF IsJob(x, id) THEN x.slots[id.slot].state ELSE "Free"

\* The order in which next() tries the queued ids, and the first current one.
ReadyOrder_Reserved(x) == x.ready["Shutdown"] \o x.ready["Kernel"]

ReadyOrder(x) == x.ready["Shutdown"] \o x.ready["Kernel"] \o x.ready["Normal"]
Startable(x) == {n \in DOMAIN ReadyOrder(x) : JobState(x, ReadyOrder(x)[n]) = "Queued"}

Start(x) ==
    LET n == CHOOSE n \in Startable(x) : \A m \in Startable(x) : n <= m
        popped == {ReadyOrder(x)[m] : m \in 1..n}
        id == ReadyOrder(x)[n]
    IN  [x EXCEPT !.ready = [p \in Priorities |-> SelectSeq(@[p], LAMBDA e : e \notin popped)],
                  !.slots[id.slot].state = "Active",
                  !.active = id]

\* finish; a canceled job reports Canceled whatever it did.
Finish(x) == [x EXCEPT !.slots[x.active.slot].state = "Complete", !.active = NoJob]

WasCanceled(x) == x.slots[x.active.slot].canceled

\* cancel takes a queued job out of its queue and marks a running one.
CancelJob(x, id) ==
    CASE JobState(x, id) = "Queued" ->
             [x EXCEPT !.slots[id.slot].state = "Complete",
                       !.ready[x.slots[id.slot].priority] = SelectSeq(@, LAMBDA e : e # id)]
      [] JobState(x, id) = "Active" -> [x EXCEPT !.slots[id.slot].canceled = TRUE]
      [] OTHER -> x

\* take_completion of a complete job; the mutant keeps its share of the
\* normal capacity.
TakeCompletion_KeepsShare(x, id) ==
    [x EXCEPT !.slots[id.slot].state = "Free",
              !.slots[id.slot].canceled = FALSE,
              !.slots[id.slot].gen = IF @ = MaxJobGeneration THEN 1 ELSE @ + 1]

TakeCompletion(x, id) ==
    [x EXCEPT !.slots[id.slot].state = "Free",
              !.slots[id.slot].canceled = FALSE,
              !.slots[id.slot].gen = IF @ = MaxJobGeneration THEN 1 ELSE @ + 1,
              !.normal = IF x.slots[id.slot].priority = "Normal" THEN @ - 1 ELSE @]

\* The queues hold exactly the queued jobs, each once under its priority; the
\* active id is the active slot; the share of normal jobs is counted.
ExecutorExact(x) ==
    /\ \A p \in Priorities :
          /\ IsInjective(x.ready[p])
          /\ Range(x.ready[p]) =
                 {[slot |-> i, gen |-> x.slots[i].gen] :
                      i \in {j \in JobSlots : x.slots[j].state = "Queued"
                                               /\ x.slots[j].priority = p}}
    /\ \A i \in JobSlots : x.slots[i].state = "Active"
                               <=> x.active = [slot |-> i, gen |-> x.slots[i].gen]
    /\ x.normal = Cardinality({i \in JobSlots : x.slots[i].state # "Free"
                                                 /\ x.slots[i].priority = "Normal"})
=============================================================================
