--------------------------- MODULE PowerTransition ----------------------------
(***************************************************************************)
(* Orderly power-off and restart: the shared SystemPowerControl of          *)
(* crates/ginkgo-ipc/src/kernel.rs, the kernel's power_task                 *)
(* (crates/ginkgo-kernel/src/main.rs) that carries a request out, and the   *)
(* one filesystem job at a time that it waits for.                          *)
(*                                                                         *)
(* Clients ask and cancel at any time.  The task is polled between other    *)
(* tasks; a job it queued comes back in a later poll, possibly after the    *)
(* client changed its mind.  Requests, applications and the launch in       *)
(* flight are counts; deadlines are the flag `due`.                         *)
(***************************************************************************)
EXTENDS Naturals

CONSTANTS
    MaxSequence,    \* bound on the power requests made
    MaxLive,        \* bound on live asynchronous requests
    MaxApps         \* bound on running applications

VARIABLES
    state,          \* SystemPowerInfo.state
    sequence,       \* SystemPowerInfo.sequence
    due,            \* now_ns >= SystemPowerInfo.deadline_ns
    task,           \* the words 0, 3 and 4 of power_task's TaskState
    job,            \* power_job, by the kind of job in the executor
    completion,     \* power_completion
    accepting,      \* requests.is_accepting()
    launching,      \* ~launch_quiesced
    live,           \* live requests of the broker
    apps,           \* processes besides the desktop
    launch,         \* process_creation_pending: a launch waits for its file
    offline,        \* storage was shut down
    secured         \* history: shutdown jobs done in order, nothing in between

vars == <<state, sequence, due, task, job, completion, accepting, launching,
          live, apps, launch, offline, secured>>

PowerStates == {"Idle", "Requested", "Quiescing", "Synchronizing", "Committing",
                "Canceled", "Failed"}

ShutdownJobs == <<"CheckpointAndWait", "Quiesce", "ShutdownDrain">>
Jobs == {"CheckpointAndWait", "Quiesce", "ShutdownDrain", "Resume"}

\* The FsResult variant a job returns.
ResultOf(j) ==
    CASE j \in {"CheckpointAndWait", "Quiesce"} -> "Durability"
      [] j = "ShutdownDrain" -> "Drain"
      [] OTHER -> "Unit"

NoCompletion == [type |-> "none", ok |-> FALSE, complete |-> FALSE]

Init ==
    /\ state = "Idle" /\ sequence = 0 /\ due = FALSE
    /\ task = [sequence |-> 0, step |-> 0, resuming |-> FALSE]
    /\ job = "none" /\ completion = NoCompletion
    /\ accepting = TRUE /\ launching = TRUE
    /\ live = 0 /\ apps = 0 /\ launch = FALSE
    /\ offline = FALSE /\ secured = 0

-----------------------------------------------------------------------------
(* SystemPowerControl                                                       *)

system == <<accepting, launching, live, apps, launch, offline, secured>>
work == <<task, job, completion>>

Request ==
    /\ state \in {"Idle", "Canceled", "Failed"}
    /\ sequence < MaxSequence
    /\ state' = "Requested"
    /\ sequence' = sequence + 1
    /\ due' = FALSE
    /\ UNCHANGED <<work, system>>

Cancel ==
    /\ state = "Requested"
    /\ state' = "Canceled"
    /\ due' = TRUE
    /\ UNCHANGED <<sequence, work, system>>

DeadlinePasses ==
    /\ ~due
    /\ due' = TRUE
    /\ UNCHANGED <<state, sequence, work, system>>

\* SystemPowerControl::transition and fail; the deadline is the callee's.
Become(next, passed) == state' = next /\ due' = passed /\ UNCHANGED sequence

-----------------------------------------------------------------------------
(* power_task.  Every poll first notes a new sequence, which restarts the    *)
(* shutdown jobs at the first one; the word `resuming` is left alone.        *)

Noted ==
    IF task.sequence # sequence
    THEN [task EXCEPT !.sequence = sequence, !.step = 0] ELSE task

PollRequested ==
    /\ state = "Requested"
    /\ due
    /\ task' = Noted
    /\ \/ Become("Failed", TRUE) /\ launching' = TRUE /\ UNCHANGED accepting   \* no ACPI support
       \/ Become("Quiescing", FALSE) /\ launching' = FALSE /\ accepting' = FALSE
    /\ UNCHANGED <<job, completion, live, apps, launch, offline, secured>>

\* The mutant counts the desktop, which is never terminated.
Drained_WithDesktop == apps + 1 = 0 /\ live = 0

Drained == apps = 0 /\ live = 0

\* Applications are marked terminated; they leave in AppExits.
PollQuiescing ==
    /\ state = "Quiescing"
    /\ due
    /\ Drained
    /\ Become("Synchronizing", TRUE)
    /\ task' = [Noted EXCEPT !.step = 0]
    /\ completion' = NoCompletion
    /\ secured' = 0
    /\ UNCHANGED <<job, accepting, launching, live, apps, launch, offline>>

NothingPending == job = "none" /\ completion = NoCompletion

\* A full executor leaves everything to the next poll.
QueueShutdownJob ==
    /\ state = "Synchronizing"
    /\ NothingPending
    /\ task' = Noted
    /\ job' = ShutdownJobs[Noted.step + 1]
    /\ UNCHANGED <<state, sequence, due, completion, system>>

\* The mutant takes any success for the answer to the job of this step.
Answers_AnySuccess(step, c) == c.ok

Answers(step, c) ==
    \/ step = 0 /\ c.type = "Durability" /\ c.ok /\ c.complete
    \/ step = 1 /\ c.type = "Durability" /\ c.ok
    \/ step = 2 /\ c.type = "Drain" /\ c.ok /\ c.complete

TakeShutdownResult ==
    /\ state = "Synchronizing"
    /\ completion # NoCompletion
    /\ completion' = NoCompletion
    /\ IF ~Answers(Noted.step, completion)
       THEN Become("Failed", TRUE) /\ task' = Noted
       ELSE IF Noted.step < 2
       THEN task' = [Noted EXCEPT !.step = @ + 1] /\ UNCHANGED <<state, sequence, due>>
       ELSE task' = Noted /\ \/ Become("Committing", FALSE)
                             \/ Become("Failed", TRUE)   \* the firmware call failed
    /\ UNCHANGED <<job, system>>

PollCommitting ==
    /\ state = "Committing"
    /\ due
    /\ Become("Failed", TRUE)
    /\ task' = Noted
    /\ UNCHANGED <<job, completion, system>>

PollCanceled ==
    /\ state = "Canceled"
    /\ launching' = TRUE
    /\ IF job # "none"
       THEN task' = Noted /\ UNCHANGED <<job, completion, accepting>>
       ELSE IF ~Noted.resuming
       THEN /\ completion' = NoCompletion
            /\ job' = "Resume"
            /\ task' = [Noted EXCEPT !.resuming = TRUE]
            /\ UNCHANGED accepting
       ELSE IF completion = NoCompletion
       THEN task' = Noted /\ UNCHANGED <<job, completion, accepting>>
       ELSE /\ completion' = NoCompletion
            /\ task' = [Noted EXCEPT !.resuming = FALSE]
            /\ accepting' = TRUE
            /\ UNCHANGED job
    /\ UNCHANGED <<state, sequence, due, live, apps, launch, offline, secured>>

\* The poll of a state that waits.
PollWaiting ==
    /\ \/ state \in {"Idle", "Failed"}
       \/ state \in {"Requested", "Quiescing", "Committing"} /\ ~due
       \/ state = "Quiescing" /\ ~Drained
       \/ state = "Synchronizing" /\ job # "none" /\ completion = NoCompletion
    /\ task' = Noted
    /\ UNCHANGED <<state, sequence, due, job, completion, system>>

-----------------------------------------------------------------------------
(* The rest of the kernel                                                   *)

\* How far the shutdown jobs got once job j returned.
SecuredBy(j, ok, complete) ==
    CASE j = "Resume" -> 0
      [] j = "CheckpointAndWait" -> IF ok /\ complete THEN 1 ELSE 0
      [] j = "Quiesce" -> IF ok /\ secured = 1 THEN 2 ELSE 0
      [] OTHER -> IF ok /\ complete /\ secured = 2 THEN 3 ELSE 0

\* The executor finishes the job and complete_kernel_filesystem_job keeps the
\* result.  A drain that completes shuts the storage down.
JobReturns ==
    \E ok, complete \in BOOLEAN :
        /\ job # "none"
        /\ job' = "none"
        /\ completion' = [type |-> ResultOf(job), ok |-> ok, complete |-> complete]
        /\ offline' = (offline \/ (job = "ShutdownDrain" /\ ok /\ complete))
        /\ secured' = SecuredBy(job, ok, complete)
        /\ UNCHANGED <<state, sequence, due, task, accepting, launching, live, apps, launch>>

control == <<state, sequence, due>>

Submit ==
    /\ accepting
    /\ live < MaxLive
    /\ live' = live + 1
    /\ secured' = 0
    /\ UNCHANGED <<control, work, accepting, launching, apps, launch, offline>>

RequestEnds ==
    /\ live > 0
    /\ live' = live - 1
    /\ UNCHANGED <<control, work, accepting, launching, apps, launch, offline, secured>>

LaunchProgram ==
    /\ launching
    /\ ~launch
    /\ apps < MaxApps
    /\ launch' = TRUE
    /\ UNCHANGED <<control, work, accepting, launching, live, apps, offline, secured>>

\* complete_program_launch
LaunchReturns ==
    /\ launch
    /\ launch' = FALSE
    /\ apps' \in {apps, apps + 1}
    /\ UNCHANGED <<control, work, accepting, launching, live, offline, secured>>

AppExits ==
    /\ apps > 0
    /\ apps' = apps - 1
    /\ UNCHANGED <<control, work, accepting, launching, live, launch, offline, secured>>

PowerTask ==
    \/ PollRequested
    \/ PollQuiescing
    \/ QueueShutdownJob
    \/ TakeShutdownResult
    \/ PollCommitting
    \/ PollCanceled
    \/ PollWaiting

Next ==
    \/ Request
    \/ Cancel
    \/ DeadlinePasses
    \/ PowerTask
    \/ JobReturns
    \/ Submit
    \/ RequestEnds
    \/ LaunchProgram
    \/ LaunchReturns
    \/ AppExits

\* Tasks are polled in turn, jobs return, deadlines pass, requests drain, and
\* applications leave once they are told to.
Spec ==
    /\ Init
    /\ [][Next]_vars
    /\ WF_vars(PowerTask)
    /\ WF_vars(JobReturns)
    /\ WF_vars(DeadlinePasses)
    /\ WF_vars(~accepting /\ RequestEnds)
    /\ WF_vars(LaunchReturns)
    /\ WF_vars(state = "Quiescing" /\ due /\ AppExits)
-----------------------------------------------------------------------------
(* Properties                                                               *)

\* Type invariant of the transition.
TypeOK ==
    /\ state \in PowerStates /\ sequence \in Nat /\ due \in BOOLEAN
    /\ task \in [sequence : Nat, step : 0..2, resuming : BOOLEAN]
    /\ job \in Jobs \cup {"none"}
    /\ completion \in [type : {"none", "Durability", "Drain", "Unit"},
                       ok : BOOLEAN, complete : BOOLEAN]
    /\ accepting \in BOOLEAN /\ launching \in BOOLEAN
    /\ live \in Nat /\ apps \in Nat /\ launch \in BOOLEAN
    /\ offline \in BOOLEAN /\ secured \in 0..3

\* The firmware is called only after the checkpoint, the quiesce and the drain
\* of this very attempt succeeded in that order, with no request admitted since
\* and no resume in between, whatever was requested and canceled before.
CommitDurable ==
    state = "Committing" => secured = 3 /\ offline /\ ~accepting /\ ~launching /\ live = 0

\* A request to power off never hangs: it is canceled, it fails, or the
\* firmware call is made and either works or fails at its deadline.
TransitionEnds ==
    state \in {"Requested", "Quiescing", "Synchronizing"}
        ~> state \in {"Canceled", "Committing", "Failed"}

\* docs/storage.md on a failed commit: "GinkgoOS remains quiesced".
RemainsQuiesced == offline => ~accepting /\ ~launching
=============================================================================
