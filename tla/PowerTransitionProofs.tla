------------------------ MODULE PowerTransitionProofs -------------------------
(* Theorems about PowerTransition. *)
EXTENDS PowerTransition, TLAPS

\* Where the shutdown jobs of power_task are: at most one job or one result is
\* outstanding, a job left over from a cancellation can only be a resume at the
\* first step, and a result that answers a step means its job secured the step.
Progress ==
    /\ job # "none" => completion = NoCompletion
    /\ job = "Resume" => task.step = 0
    /\ job \in Jobs \ {"Resume"} => job = ShutdownJobs[task.step + 1]
    /\ completion = NoCompletion => secured = task.step
    /\ Answers(task.step, completion) => secured = task.step + 1
    /\ task.step = 2 /\ Answers(task.step, completion) => offline

\* The inductive invariant behind CommitDurable.
PowerInv ==
    /\ TypeOK
    /\ state \in {"Quiescing", "Synchronizing", "Committing"} =>
           ~accepting /\ ~launching /\ task.sequence = sequence
    /\ state \in {"Synchronizing", "Committing"} => live = 0
    /\ state = "Synchronizing" => Progress
    /\ state # "Synchronizing" => job \in {"none", "Resume"}
    /\ state = "Committing" => job = "none" /\ secured = 3 /\ offline

LEMMA NotedType == TypeOK => /\ Noted \in [sequence : Nat, step : 0..2, resuming : BOOLEAN]
                             /\ task.sequence = sequence => Noted = task
                             /\ Noted.sequence = sequence
  <1> SUFFICES ASSUME TypeOK
               PROVE  /\ Noted \in [sequence : Nat, step : 0..2, resuming : BOOLEAN]
                      /\ task.sequence = sequence => Noted = task
                      /\ Noted.sequence = sequence
    OBVIOUS
  <1>1. CASE task.sequence = sequence
    BY <1>1 DEF TypeOK, Noted
  <1>2. CASE task.sequence # sequence
    <2>1. Noted = [sequence |-> sequence, step |-> 0, resuming |-> task.resuming]
      BY <1>2, Zenon DEF TypeOK, Noted
    <2> QED
      BY <1>2, <2>1 DEF TypeOK
  <1> QED
    BY <1>1, <1>2

LEMMA NothingAnswers == \A s \in 0..2 : ~Answers(s, NoCompletion)
  BY DEF Answers, NoCompletion

\* The first poll of a shutdown starts with nothing secured.
LEMMA InitInv == Init => PowerInv
  <1> SUFFICES ASSUME Init
               PROVE  PowerInv
    OBVIOUS
  <1>1. task \in [sequence : Nat, step : 0..2, resuming : BOOLEAN]
    BY DEF Init
  <1>2. completion \in [type : {"none", "Durability", "Drain", "Unit"},
                        ok : BOOLEAN, complete : BOOLEAN]
    BY DEF Init, NoCompletion
  <1>3. TypeOK
    <2>1. /\ due \in BOOLEAN /\ accepting \in BOOLEAN /\ launching \in BOOLEAN
          /\ launch \in BOOLEAN /\ offline \in BOOLEAN
      BY Zenon DEF Init
    <2>2. /\ state \in PowerStates /\ job \in Jobs \cup {"none"}
          /\ sequence \in Nat /\ live \in Nat /\ apps \in Nat /\ secured \in 0..3
      BY DEF Init, PowerStates
    <2> QED
      BY <1>1, <1>2, <2>1, <2>2 DEF TypeOK
  <1> QED
    BY <1>3 DEF Init, PowerInv

\* Every step of the clients, the task, the executor and the rest of the kernel
\* keeps the invariant.
LEMMA NextInv == PowerInv /\ [Next]_vars => PowerInv'
  <1> SUFFICES ASSUME PowerInv, [Next]_vars
               PROVE  PowerInv'
    OBVIOUS
  <1>0. TypeOK
    BY DEF PowerInv
  <1>1. CASE Request
    <2>1. state' \in PowerStates /\ sequence' \in Nat
      BY <1>0, <1>1 DEF Request, TypeOK, PowerStates
    <2>2. due' \in BOOLEAN
      BY <1>1, Zenon DEF Request
    <2>3. TypeOK'
      BY <1>0, <1>1, <2>1, <2>2 DEF Request, work, system, TypeOK
    <2> QED
      BY <1>1, <2>3 DEF Request, work, system, PowerInv
  <1>2. CASE Cancel
    BY <1>2 DEF Cancel, work, system, PowerInv, TypeOK, PowerStates, Jobs
  <1>3. CASE DeadlinePasses
    BY <1>3 DEF DeadlinePasses, work, system, PowerInv, TypeOK, Progress, Answers
  <1>4. CASE PollRequested
    <2>1. /\ state' \in {"Failed", "Quiescing"} /\ due' \in BOOLEAN
          /\ launching' \in BOOLEAN /\ accepting' \in BOOLEAN
      BY <1>0, <1>4, Zenon DEF PollRequested, Become, TypeOK
    <2>2. task' \in [sequence : Nat, step : 0..2, resuming : BOOLEAN]
      BY <1>0, <1>4, NotedType DEF PollRequested
    <2>3. TypeOK'
      BY <1>0, <1>4, <2>1, <2>2 DEF PollRequested, Become, TypeOK, PowerStates
    <2>4. state' = "Quiescing" => ~accepting' /\ ~launching' /\ task'.sequence = sequence'
      BY <1>0, <1>4, NotedType DEF PollRequested, Become
    <2>5. job' \in {"none", "Resume"}
      BY <1>4 DEF PollRequested, PowerInv
    <2> QED
      BY <2>1, <2>3, <2>4, <2>5 DEF PowerInv
  <1>5. CASE PollQuiescing
    <2>1. /\ task' = [task EXCEPT !.step = 0] /\ task'.step = 0
          /\ completion' = NoCompletion /\ secured' = 0
      BY <1>0, <1>5, NotedType DEF PollQuiescing, PowerInv, TypeOK
    <2>2. Progress'
      BY <1>5, <2>1, NothingAnswers DEF PollQuiescing, PowerInv, Progress, Jobs, Answers, NoCompletion
    <2>3. TypeOK'
      <3>1. /\ task' \in [sequence : Nat, step : 0..2, resuming : BOOLEAN]
            /\ completion' \in [type : {"none", "Durability", "Drain", "Unit"},
                                ok : BOOLEAN, complete : BOOLEAN]
        BY <1>0, <2>1 DEF TypeOK, NoCompletion
      <3> QED
        BY <1>0, <1>5, <2>1, <3>1 DEF PollQuiescing, Become, TypeOK, PowerStates
    <2> QED
      BY <1>5, <2>1, <2>2, <2>3 DEF PollQuiescing, Drained, Become, PowerInv, TypeOK
  <1>6. CASE QueueShutdownJob
    <2>1. Noted = task
      BY <1>0, <1>6, NotedType DEF QueueShutdownJob, PowerInv
    <2>2. job' = ShutdownJobs[task.step + 1] /\ job' \in Jobs \ {"Resume"}
      BY <1>0, <1>6, <2>1 DEF QueueShutdownJob, TypeOK, ShutdownJobs, Jobs
    <2> QED
      BY <1>0, <1>6, <2>1, <2>2 DEF QueueShutdownJob, NothingPending, system, PowerInv, TypeOK,
                                    Progress, Answers, Jobs
  <1>7. CASE TakeShutdownResult
    <2>1. Noted = task /\ Progress /\ job = "none" /\ completion' = NoCompletion
      BY <1>0, <1>7, NotedType DEF TakeShutdownResult, PowerInv, Progress
    <2>2. CASE ~Answers(task.step, completion)
      BY <1>0, <1>7, <2>1, <2>2 DEF TakeShutdownResult, Become, system, PowerInv, TypeOK,
                                    PowerStates, NoCompletion
    <2>3. CASE Answers(task.step, completion) /\ task.step < 2
      <3>1. /\ task' = [task EXCEPT !.step = @ + 1] /\ task'.step = task.step + 1
            /\ task'.step \in 0..2 /\ secured = task.step + 1
            /\ UNCHANGED <<state, sequence, due, job>> /\ UNCHANGED system
        BY <1>0, <1>7, <2>1, <2>3 DEF TakeShutdownResult, Progress, TypeOK
      <3>2. Progress'
        BY <2>1, <3>1, NothingAnswers DEF Progress, Jobs, system, Answers, NoCompletion
      <3> QED
        BY <1>0, <1>7, <2>1, <3>1, <3>2 DEF TakeShutdownResult, system, PowerInv, TypeOK, NoCompletion
    <2>4. CASE Answers(task.step, completion) /\ ~(task.step < 2)
      <3>1. task.step = 2 /\ secured = 3 /\ offline
        BY <1>0, <2>1, <2>4 DEF Progress, TypeOK
      <3>2. TypeOK'
        <4>1. state' \in PowerStates /\ sequence' = sequence /\ task' = task
          BY <1>7, <2>1, <2>4 DEF TakeShutdownResult, Become, PowerStates
        <4>2. due' \in BOOLEAN
          BY <1>7, <2>1, <2>4, Zenon DEF TakeShutdownResult, Become
        <4>3. completion' \in [type : {"none", "Durability", "Drain", "Unit"},
                               ok : BOOLEAN, complete : BOOLEAN]
          BY <2>1 DEF NoCompletion
        <4> QED
          BY <1>0, <1>7, <4>1, <4>2, <4>3 DEF TakeShutdownResult, system, TypeOK
      <3> QED
        BY <1>7, <2>1, <2>4, <3>1, <3>2 DEF TakeShutdownResult, Become, system, PowerInv
    <2> QED
      BY <2>2, <2>3, <2>4
  <1>8. CASE PollCommitting
    BY <1>0, <1>8, NotedType DEF PollCommitting, Become, system, PowerInv, TypeOK, PowerStates
  <1>9. CASE PollCanceled
    <2>1. /\ task' \in [sequence : Nat, step : 0..2, resuming : BOOLEAN]
          /\ job' \in {"none", "Resume"}
      BY <1>0, <1>9, NotedType, Zenon DEF PollCanceled, PowerInv
    <2>2. completion' \in [type : {"none", "Durability", "Drain", "Unit"},
                           ok : BOOLEAN, complete : BOOLEAN]
      <3>1. completion' \in {completion, NoCompletion}
        BY <1>9 DEF PollCanceled
      <3>2. NoCompletion \in [type : {"none", "Durability", "Drain", "Unit"},
                               ok : BOOLEAN, complete : BOOLEAN]
        BY DEF NoCompletion
      <3> QED
        BY <1>0, <3>1, <3>2, Zenon DEF TypeOK
    <2>3. accepting' \in BOOLEAN
      BY <1>0, <1>9, Zenon DEF PollCanceled, TypeOK
    <2>4. TypeOK'
      BY <1>0, <1>9, <2>1, <2>2, <2>3 DEF PollCanceled, TypeOK, Jobs
    <2> QED
      BY <1>9, <2>1, <2>4 DEF PollCanceled, PowerInv
  <1>10. CASE PollWaiting
    BY <1>0, <1>10, NotedType DEF PollWaiting, system, PowerInv, TypeOK, Progress, Answers
  <1>11. CASE JobReturns
    <2> PICK ok \in BOOLEAN, complete \in BOOLEAN :
           /\ job # "none"
           /\ job' = "none"
           /\ completion' = [type |-> ResultOf(job), ok |-> ok, complete |-> complete]
           /\ offline' = (offline \/ (job = "ShutdownDrain" /\ ok /\ complete))
           /\ secured' = SecuredBy(job, ok, complete)
           /\ UNCHANGED <<state, sequence, due, task, accepting, launching, live, apps, launch>>
      BY <1>11 DEF JobReturns
    <2>1. TypeOK'
      BY <1>0 DEF TypeOK, ResultOf, SecuredBy, Jobs
    <2>2. ASSUME state = "Synchronizing" PROVE Progress'
      <3>1. job \in Jobs /\ secured = task.step /\ task.step \in 0..2
        BY <1>0, <2>2 DEF PowerInv, Progress, TypeOK
      <3>2. CASE job = "Resume"
        BY <2>2, <3>1, <3>2 DEF PowerInv, Progress, Answers, ResultOf, SecuredBy, NoCompletion, Jobs
      <3>3. CASE job # "Resume"
        <4>1. job = ShutdownJobs[task.step + 1]
          BY <2>2, <3>1, <3>3 DEF PowerInv, Progress
        <4> QED
          BY <3>1, <3>3, <4>1 DEF Progress, Answers, ResultOf, SecuredBy, ShutdownJobs,
                                  NoCompletion, Jobs
      <3> QED
        BY <3>2, <3>3
    <2> QED
      BY <2>1, <2>2 DEF PowerInv
  <1>12. CASE Submit
    BY <1>12 DEF Submit, control, work, PowerInv, TypeOK
  <1>13. CASE RequestEnds
    BY <1>13 DEF RequestEnds, control, work, PowerInv, TypeOK, Progress, Answers
  <1>14. CASE LaunchProgram
    BY <1>14 DEF LaunchProgram, control, work, PowerInv, TypeOK, Progress, Answers
  <1>15. CASE LaunchReturns
    <2>1. apps' \in Nat
      BY <1>0, <1>15 DEF LaunchReturns, TypeOK
    <2>2. launch' \in BOOLEAN
      BY <1>15, Zenon DEF LaunchReturns
    <2>3. TypeOK'
      BY <1>0, <1>15, <2>1, <2>2 DEF LaunchReturns, control, work, TypeOK
    <2> QED
      BY <1>15, <2>3 DEF LaunchReturns, control, work, PowerInv, Progress, Answers
  <1>16. CASE AppExits
    BY <1>16 DEF AppExits, control, work, PowerInv, TypeOK, Progress, Answers
  <1>17. CASE UNCHANGED vars
    BY <1>17 DEF vars, PowerInv, TypeOK, Progress, Answers
  <1> QED
    BY <1>1, <1>2, <1>3, <1>4, <1>5, <1>6, <1>7, <1>8, <1>9, <1>10, <1>11, <1>12, <1>13,
       <1>14, <1>15, <1>16, <1>17 DEF Next, PowerTask

\* However often power transitions were requested, canceled and failed before,
\* and whenever the jobs of earlier attempts return, the firmware is called only
\* behind the completed checkpoint, quiesce and drain of this attempt.
THEOREM CommitsDurable == Spec => []CommitDurable
  <1>1. PowerInv => CommitDurable
    BY DEF PowerInv, CommitDurable
  <1> QED
    BY <1>1, InitInv, NextInv, PTL DEF Spec
=============================================================================
