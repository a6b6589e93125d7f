--------------------------- MODULE JobPanicsProofs ---------------------------
(***************************************************************************)
(* Proofs about panics in the code of tasks, for every capacity, number of *)
(* threads, id bound and choice of detached tasks.                         *)
(*                                                                         *)
(* JobInv says where the job of each task can be while it is counted, and  *)
(* which status its slot has there.  Both answers follow: a job can leave  *)
(* the counts only past its publication, and a panic of a callable has no  *)
(* way to the place where a result is published.                           *)
(***************************************************************************)
EXTENDS JobPanics, RayonExecutorServiceStateProofs

InCall == {"calling", "dropping", "returned", "caught", "caught_again", "resumed"}
Handled == {"unwound", "unwound_again", "over"}

StagesFollowCounts ==
    /\ \A t \in running_tasks : at[t] \in InCall \union Handled
    /\ \A t \in cancelling : at[t] \in {"owned", "releasing"} \union Handled
    /\ \A t \in Detached : at[t] \notin InCall \ {"calling"}

SlotsFollowStages ==
    \A t \in TaskIds \ Detached :
        /\ next_task_id <= t => slot[t] = "none"
        /\ t \in queue => slot[t] = "Pending"
        /\ t \in running_tasks =>
              slot[t] \in IF at[t] \in InCall THEN {"Running"}
                          ELSE {"Succeeded", "Panicked"}
        /\ t \in cancelling =>
              slot[t] = IF at[t] = "owned" THEN "Pending" ELSE "Cancelled"

FaultsFollowStages ==
    \A t \in faulted :
        /\ t \notin queue \union cancelling
        /\ t \in TaskIds \ Detached /\ t < next_task_id
        /\ \/ slot[t] = "Panicked" /\ at[t] \in Handled \union {"none"}
           \/ slot[t] = "Running" /\ (aborted \/ at[t] \in {"caught", "caught_again", "resumed"})

JobInv ==
    /\ StateInv
    /\ TypeOK
    /\ StagesFollowCounts
    /\ SlotsFollowStages
    /\ FaultsFollowStages
    /\ OutcomePublished

-----------------------------------------------------------------------------
LEMMA StepsAreOfTheState ==
    JobInv /\ [Next]_vars => [StateNext]_stateVars
<1> SUFFICES ASSUME JobInv, Next PROVE [StateNext]_stateVars
  BY DEF vars
<1>1. CASE Admit \/ TakeNothing \/ Shutdown \/ Stop
  BY <1>1 DEF Admit, TakeNothing, Shutdown, Stop, StateNext
<1>2. CASE \E t \in queue : Take(t) \/ Claim(t)
  BY <1>2 DEF Take, Claim, StateNext
<1>3. CASE \E t \in running_tasks \union cancelling : Handle(t)
  BY <1>3
  DEF Handle, RunDetached, CallReturns, CallPanics, DropReturns, DropPanics,
      Replace, Forget, Publish, CancelJob, ReleaseTask, Contain, FinishRunning,
      FinishCancelling, StateNext
<1>4. QED
  BY <1>1, <1>2, <1>3 DEF Next

LEMMA NextKeepsTypes ==
    ASSUME JobInv, StateTypeOK', [Next]_vars
    PROVE  TypeOK'
<1>0. /\ TypeOK
      /\ queue \subseteq TaskIds /\ running_tasks \subseteq TaskIds
      /\ cancelling \subseteq TaskIds
  BY DEF JobInv, TypeOK, StateTypeOK
<1>1. CASE UNCHANGED vars \/ Admit \/ TakeNothing \/ Shutdown
  BY <1>0, <1>1
  DEF vars, Admit, TakeNothing, Shutdown, TypeOK
<1>2. CASE Stop
  BY <1>0, <1>2 DEF Stop, TypeOK, Stages
<1>3. ASSUME NEW t \in queue, Take(t) \/ Claim(t)
      PROVE  TypeOK'
  BY <1>0, <1>3 DEF Take, Claim, At, SetSlot, TypeOK, Stages
<1>4. ASSUME NEW t \in running_tasks \union cancelling, Handle(t)
      PROVE  TypeOK'
  <2>0. t \in TaskIds
    BY <1>0
  <2>1. CASE CallReturns(t) \/ DropReturns(t) \/ CallPanics(t)
    BY <1>0, <2>0, <2>1
    DEF CallReturns, DropReturns, CallPanics, At, Abort, Alive, TypeOK, Stages
  <2>2. CASE DropPanics(t)
    <3>1. t \notin Detached
      BY <1>4, <2>2 DEF DropPanics, JobInv, StagesFollowCounts, InCall
    <3>2. QED
      BY <1>0, <2>0, <2>2, <3>1
      DEF DropPanics, At, Abort, Alive, TypeOK, Stages
  <2>3. CASE RunDetached(t) \/ Publish(t) \/ ReleaseTask(t)
    BY <1>0, <2>0, <2>3
    DEF RunDetached, Publish, ReleaseTask, OverOrUnwound, At, SetSlot, Abort,
        Alive, TypeOK, Stages, Terminal
  <2>4. CASE Replace(t) \/ Forget(t) \/ Contain(t) \/ CancelJob(t)
    BY <1>0, <2>0, <2>4
    DEF Replace, Forget, Contain, CancelJob, Discard, At, SetSlot, Abort,
        Alive, TypeOK, Stages, Terminal
  <2>5. CASE FinishRunning(t) \/ FinishCancelling(t)
    BY <1>0, <2>0, <2>5
    DEF FinishRunning, FinishCancelling, At, TypeOK, Stages
  <2>6. QED
    BY <1>4, <2>1, <2>2, <2>3, <2>4, <2>5 DEF Handle
<1>5. QED
  BY <1>1, <1>2, <1>3, <1>4 DEF Next

-----------------------------------------------------------------------------
(* Steps of callers: a task enters the queue or moves to the counts.       *)

JobParts ==
    /\ StagesFollowCounts
    /\ SlotsFollowStages
    /\ FaultsFollowStages
    /\ OutcomePublished

LEMMA JobFacts ==
    ASSUME JobInv
    PROVE  /\ TypeOK /\ JobParts
           /\ queue \subseteq TaskIds /\ running_tasks \subseteq TaskIds
           /\ cancelling \subseteq TaskIds
           /\ queue \intersect running_tasks = {}
           /\ queue \intersect cancelling = {}
           /\ running_tasks \intersect cancelling = {}
           /\ \A t \in queue \union running_tasks \union cancelling :
                 t < next_task_id
           /\ next_task_id \in Nat
           /\ TaskIds \subseteq Nat
           /\ Detached \subseteq TaskIds
BY ConfigAssumption, DetachedAssumption
DEF JobInv, JobParts, StateInv, TypeOK, StateTypeOK, OwnershipConsistent,
    TaskIds

LEMMA AdmitKeepsJobs ==
    ASSUME JobInv, Admit
    PROVE  JobParts'
<1>0. /\ slot \in [TaskIds -> Terminal \union {"none", "Pending", "Running"}]
      /\ next_task_id \notin running_tasks \union cancelling
      /\ next_task_id \notin faulted
  BY JobFacts DEF TypeOK, JobParts, FaultsFollowStages
<1>1. /\ queue' = queue \union {next_task_id}
      /\ next_task_id' = next_task_id + 1
      /\ running_tasks' = running_tasks /\ cancelling' = cancelling
      /\ at' = at /\ faulted' = faulted /\ aborted' = aborted
      /\ \A t \in TaskIds : t # next_task_id => slot'[t] = slot[t]
      /\ next_task_id \in TaskIds \ Detached => slot'[next_task_id] = "Pending"
  BY <1>0 DEF Admit, admit
<1>2. StagesFollowCounts'
  BY <1>1, JobFacts DEF JobParts, StagesFollowCounts
<1>3. SlotsFollowStages'
  <2>1. \A t \in TaskIds : next_task_id' <= t => next_task_id <= t /\ t # next_task_id
    BY <1>1, JobFacts
  <2>2. QED
    BY <1>0, <1>1, <2>1, JobFacts DEF JobParts, SlotsFollowStages
<1>4. FaultsFollowStages'
  BY <1>0, <1>1, JobFacts DEF JobParts, FaultsFollowStages
<1>5. OutcomePublished'
  <2>1. \A t \in TaskIds : t < next_task_id' /\ t # next_task_id => t < next_task_id
    BY <1>1, JobFacts
  <2>2. QED
    BY <1>1, <2>1, JobFacts DEF JobParts, OutcomePublished
<1>6. QED
  BY <1>2, <1>3, <1>4, <1>5 DEF JobParts

LEMMA TakeKeepsJobs ==
    ASSUME JobInv, NEW t \in queue, Take(t) \/ Claim(t)
    PROVE  JobParts'
<1>0. TypeOK /\ JobParts /\ t \in TaskIds /\ t \notin faulted
  BY JobFacts DEF JobParts, FaultsFollowStages
<1>1. CASE Take(t)
  <2>1. StagesFollowCounts' /\ SlotsFollowStages'
    BY <1>0, <1>1, JobFacts
    DEF Take, take_next, At, SetSlot, TypeOK, JobParts, StagesFollowCounts,
        SlotsFollowStages, InCall, Handled
  <2>2. FaultsFollowStages' /\ OutcomePublished'
    BY <1>0, <1>1, JobFacts
    DEF Take, take_next, At, SetSlot, TypeOK, JobParts, FaultsFollowStages,
        OutcomePublished
  <2>3. QED
    BY <2>1, <2>2 DEF JobParts
<1>2. CASE Claim(t)
  BY <1>0, <1>2, JobFacts
  DEF Claim, cancel_pending_task, At, TypeOK, JobParts, StagesFollowCounts,
      SlotsFollowStages, FaultsFollowStages, OutcomePublished, InCall, Handled
<1>3. QED
  BY <1>1, <1>2

LEMMA StopKeepsJobs ==
    ASSUME JobInv, Stop
    PROVE  JobParts'
BY JobFacts
DEF Stop, stop, TypeOK, JobParts, StagesFollowCounts, SlotsFollowStages,
    FaultsFollowStages, OutcomePublished, InCall, Handled

(* What JobInv says of one task.                                           *)
TaskParts(t) ==
    /\ t \in running_tasks => at[t] \in InCall \union Handled
    /\ t \in cancelling => at[t] \in {"owned", "releasing"} \union Handled
    /\ t \in Detached => at[t] \notin InCall \ {"calling"}
    /\ t \notin Detached =>
          /\ t \in running_tasks =>
                slot[t] \in IF at[t] \in InCall THEN {"Running"}
                            ELSE {"Succeeded", "Panicked"}
          /\ t \in cancelling =>
                slot[t] = IF at[t] = "owned" THEN "Pending" ELSE "Cancelled"
    /\ t \in faulted =>
          /\ t \notin queue \union cancelling
          /\ t \in TaskIds \ Detached /\ t < next_task_id
          /\ \/ slot[t] = "Panicked" /\ at[t] \in Handled \union {"none"}
             \/ slot[t] = "Running" /\ (aborted \/ at[t] \in {"caught", "caught_again", "resumed"})

LEMMA HandlingKeepsJobs ==
    ASSUME JobInv, ~aborted, NEW t \in running_tasks \union cancelling,
           Handle(t), ~FinishRunning(t), ~FinishCancelling(t)
    PROVE  JobParts'
<1>0. TypeOK /\ JobParts /\ t \in TaskIds
  BY JobFacts
<1>1. /\ queue' = queue /\ running_tasks' = running_tasks
      /\ cancelling' = cancelling /\ next_task_id' = next_task_id
      /\ \A u \in TaskIds \ {t} : at'[u] = at[u] /\ slot'[u] = slot[u]
      /\ faulted' = faulted \/ faulted' = faulted \union {t}
  BY <1>0
  DEF Handle, RunDetached, CallReturns, CallPanics, DropReturns, DropPanics,
      Replace, Forget, Publish, CancelJob, ReleaseTask, Contain, OverOrUnwound, Abort,
      Alive, At, SetSlot, Discard, stateVars, TypeOK
<1>2. TaskParts(t)
  BY <1>0, JobFacts
  DEF JobParts, StagesFollowCounts, SlotsFollowStages, FaultsFollowStages,
      TaskParts
<1>3. t \notin queue /\ (t \in running_tasks => t \notin cancelling)
      /\ t < next_task_id
  BY JobFacts
<1>4. TaskParts(t)'
  <2>1. CASE CallReturns(t) \/ DropReturns(t)
    BY <1>0, <1>1, <1>2, <1>3, <2>1
    DEF CallReturns, DropReturns, At, TypeOK, TaskParts, InCall, Handled
  <2>2. CASE CallPanics(t) \/ DropPanics(t)
    BY <1>0, <1>1, <1>2, <1>3, <2>2
    DEF CallPanics, DropPanics, Abort, Alive, At, TypeOK, TaskParts, InCall,
        Handled
  <2>3. CASE RunDetached(t)
    BY <1>0, <1>1, <1>2, <1>3, <2>3
    DEF RunDetached, OverOrUnwound, Abort, Alive, At, TypeOK, TaskParts,
        InCall, Handled
  <2>4. CASE Replace(t) \/ Forget(t) \/ Contain(t)
    BY <1>0, <1>1, <1>2, <1>3, <2>4
    DEF Replace, Forget, Contain, Discard, Abort, Alive, At, TypeOK,
        TaskParts, InCall, Handled
  <2>5. CASE Publish(t)
    BY <1>0, <1>1, <1>2, <1>3, <2>5
    DEF Publish, OverOrUnwound, SetSlot, At, TypeOK, TaskParts, InCall,
        Handled
  <2>6. CASE CancelJob(t)
    BY <1>0, <1>1, <1>2, <1>3, <2>6
    DEF CancelJob, SetSlot, At, TypeOK, TaskParts, InCall, Handled
  <2>7. CASE ReleaseTask(t)
    BY <1>0, <1>1, <1>2, <1>3, <2>7
    DEF ReleaseTask, OverOrUnwound, Abort, Alive, At, TypeOK, TaskParts,
        InCall, Handled
  <2>8. QED
    BY <2>1, <2>2, <2>3, <2>4, <2>5, <2>6, <2>7 DEF Handle
<1>5. StagesFollowCounts' /\ SlotsFollowStages'
  BY <1>0, <1>1, <1>4, JobFacts
  DEF JobParts, StagesFollowCounts, SlotsFollowStages, TaskParts
<1>6. FaultsFollowStages'
  BY <1>0, <1>1, <1>4, JobFacts DEF JobParts, FaultsFollowStages, TaskParts
<1>7. OutcomePublished'
  BY <1>0, <1>1 DEF JobParts, OutcomePublished
<1>8. QED
  BY <1>5, <1>6, <1>7 DEF JobParts

(* The last step: what leaves the counts is past its publication.          *)
LEMMA FinishingKeepsJobs ==
    ASSUME JobInv, NEW t \in running_tasks \union cancelling,
           FinishRunning(t) \/ FinishCancelling(t)
    PROVE  JobParts'
<1>0. TypeOK /\ JobParts /\ t \in TaskIds
  BY JobFacts
<1>1. /\ queue' = queue /\ next_task_id' = next_task_id
      /\ running_tasks' \union cancelling' =
            (running_tasks \union cancelling) \ {t}
      /\ running_tasks' \subseteq running_tasks
      /\ cancelling' \subseteq cancelling
      /\ at' = [at EXCEPT ![t] = "none"] /\ at[t] = "over"
      /\ slot' = slot /\ faulted' = faulted /\ aborted' = aborted
  BY JobFacts
  DEF FinishRunning, finish_running, FinishCancelling, finish_cancelling, At
<1>2. t \notin Detached => slot[t] \in Terminal
  BY <1>0, <1>1
  DEF JobParts, SlotsFollowStages, Terminal, InCall
<1>3. StagesFollowCounts' /\ SlotsFollowStages'
  BY <1>0, <1>1, JobFacts
  DEF TypeOK, JobParts, StagesFollowCounts, SlotsFollowStages, InCall
<1>4. FaultsFollowStages'
  BY <1>0, <1>1, JobFacts
  DEF TypeOK, JobParts, FaultsFollowStages, Handled
<1>5. OutcomePublished'
  BY <1>0, <1>1, <1>2 DEF JobParts, OutcomePublished
<1>6. QED
  BY <1>3, <1>4, <1>5 DEF JobParts

LEMMA NextKeepsJobs ==
    ASSUME JobInv, [Next]_vars
    PROVE  JobParts'
<1>1. CASE UNCHANGED vars \/ TakeNothing \/ Shutdown
  <2>1. UNCHANGED <<queue, running_tasks, cancelling, next_task_id, at, slot,
                    faulted, aborted>>
    BY <1>1
    DEF vars, stateVars, TakeNothing, take_nothing, Shutdown, shutdown
  <2>2. QED
    BY <2>1, JobFacts
    DEF JobParts, StagesFollowCounts, SlotsFollowStages, FaultsFollowStages,
        OutcomePublished
<1>2. CASE Next
  BY <1>1, <1>2, AdmitKeepsJobs, StopKeepsJobs, TakeKeepsJobs,
     HandlingKeepsJobs, FinishingKeepsJobs
  DEF Next
<1>3. QED
  BY <1>1, <1>2

THEOREM JobInvariant == Spec => []JobInv
<1>1. Init => JobInv
  <2> SUFFICES ASSUME Init PROVE JobInv
    OBVIOUS
  <2>1. StateInv
    BY InitEstablishesStateInv DEF Init
  <2>2. TypeOK
    BY <2>1 DEF Init, StateInv, TypeOK, Stages
  <2>3. \A t \in TaskIds : ~(t < next_task_id)
    BY ConfigAssumption DEF Init, StateInit, TaskIds
  <2>4. QED
    BY <2>1, <2>2, <2>3, DetachedAssumption
    DEF Init, StateInit, JobInv, StagesFollowCounts, SlotsFollowStages,
        FaultsFollowStages, OutcomePublished, InCall
<1>2. JobInv /\ [Next]_vars => JobInv'
  <2> SUFFICES ASSUME JobInv, [Next]_vars PROVE JobInv'
    OBVIOUS
  <2>1. StateInv'
    BY StepsAreOfTheState, NextKeepsStateInv DEF JobInv
  <2>2. TypeOK'
    BY <2>1, NextKeepsTypes DEF StateInv
  <2>3. QED
    BY <2>1, <2>2, NextKeepsJobs DEF JobInv, JobParts
<1>3. QED
  BY <1>1, <1>2, PTL DEF Spec

(* No handle is left without an answer, whatever has panicked (run and     *)
(* cancel of CallableJob).                                                 *)
THEOREM OutcomesArePublished == Spec => []OutcomePublished
<1>1. JobInv => OutcomePublished
  BY DEF JobInv
<1>2. QED
  BY <1>1, JobInvariant, PTL

(* A panic of a callable or of its destructor is never reported as a       *)
(* result (run of CallableJob).                                            *)
THEOREM PanicsAreReported == Spec => []PanicReported
<1>1. JobInv => PanicReported
  BY DEF JobInv, FaultsFollowStages, PanicReported
<1>2. QED
  BY <1>1, JobInvariant, PTL

(* Whatever panics, the threads use the shared state by its rules: a job   *)
(* is finished by the thread that has it, once, in the way it was taken.   *)
(* All that is proved of the state holds beside panics too (run_one, stop, *)
(* cancel_task).                                                           *)
THEOREM PanicsKeepStateProtocol == Spec => StateSpec
<1>1. Init => StateInit
  BY DEF Init
<1>2. JobInv /\ [Next]_vars => [StateNext]_stateVars
  BY StepsAreOfTheState
<1>3. QED
  BY <1>1, <1>2, JobInvariant, PTL DEF Spec, StateSpec

-----------------------------------------------------------------------------
(* What the loop of a stop has left to cancel is still being cancelled.    *)
LEMMA JobsOfStopsAreCounted ==
    Spec => [](stop_jobs \subseteq cancelling)
<1>1. Init => stop_jobs \subseteq cancelling
  BY DEF Init
<1>2. stop_jobs \subseteq cancelling /\ [Next]_vars
        => (stop_jobs \subseteq cancelling)'
  <2> SUFFICES ASSUME stop_jobs \subseteq cancelling, [Next]_vars
               PROVE  stop_jobs' \subseteq cancelling'
    OBVIOUS
  <2>1. CASE Admit \/ TakeNothing \/ Shutdown \/ Stop \/ UNCHANGED vars
    BY <2>1
    DEF Admit, admit, TakeNothing, take_nothing, Shutdown, shutdown, Stop, stop,
        vars, stateVars
  <2>2. ASSUME NEW t \in queue, Take(t) \/ Claim(t)
        PROVE  stop_jobs' \subseteq cancelling'
    BY <2>2 DEF Take, take_next, Claim, cancel_pending_task
  <2>3. ASSUME NEW t \in running_tasks \union cancelling, Handle(t)
        PROVE  stop_jobs' \subseteq cancelling'
    <3>1. CASE FinishRunning(t)
      BY <3>1 DEF FinishRunning, finish_running
    <3>2. CASE FinishCancelling(t)
      BY <3>2 DEF FinishCancelling, finish_cancelling
    <3>3. CASE stop_jobs' = stop_jobs /\ UNCHANGED stateVars
      BY <3>3 DEF stateVars
    <3>4. QED
      BY <2>3, <3>1, <3>2, <3>3
      DEF Handle, RunDetached, CallReturns, CallPanics, DropReturns, DropPanics,
          Replace, Forget, Publish, CancelJob, ReleaseTask, Contain
  <2>4. QED
    BY <2>1, <2>2, <2>3 DEF Next
<1>3. QED
  BY <1>1, <1>2, PTL DEF Spec

(* No job waits for another outside a stop, and inside one there is always *)
(* a job that can go on: either all wait for their turn and any may begin, *)
(* or one has begun and its next step needs nobody (stop, cancel_task).    *)
THEOREM JobsAreNotHeldUp == Spec => []JobsGoOn
<1>1. JobInv /\ stop_jobs \subseteq cancelling => JobsGoOn
  <2> SUFFICES ASSUME JobInv, stop_jobs \subseteq cancelling
               PROVE  JobsGoOn
    OBVIOUS
  <2>1. \A t \in running_tasks \union cancelling : at[t] \in Stages \ {"none"}
    BY DEF JobInv, StagesFollowCounts, InCall, Handled, Stages
  <2>2. \A t \in (running_tasks \union cancelling) \ stop_jobs : CanHandle(t)
    BY <2>1 DEF CanHandle, Turn
  <2>3. ASSUME stop_jobs # {}
        PROVE  \E t \in stop_jobs \intersect cancelling : CanHandle(t)
    <3>1. CASE \A u \in stop_jobs : at[u] = "owned"
      BY <2>1, <2>3, <3>1 DEF CanHandle, Turn
    <3>2. CASE \E u \in stop_jobs : at[u] # "owned"
      BY <2>1, <3>2 DEF CanHandle
    <3>3. QED
      BY <3>1, <3>2
  <2>4. QED
    BY <2>2, <2>3 DEF JobsGoOn
<1>2. QED
  BY <1>1, JobInvariant, JobsOfStopsAreCounted, PTL

(* The catches and the discarded payloads form no loop: a job's thread     *)
(* needs at most eight more steps, panics included, and disturbs no other    *)
(* job (run and cancel of CallableJob and RunnableJob, run_one, stop).     *)
LEMMA HandlingIsAStepForward ==
    ASSUME JobInv, NEW t \in running_tasks \union cancelling, Handle(t)
    PROVE  \/ aborted'
           \/ /\ StepsLeft[at'[t]] < StepsLeft[at[t]]
              /\ \A u \in TaskIds \ {t} : at'[u] = at[u]
<1>0. t \in TaskIds /\ at \in [TaskIds -> Stages]
  BY JobFacts DEF TypeOK
<1>1. ASSUME NEW there \in Stages, At(t, there),
             StepsLeft[there] < StepsLeft[at[t]]
      PROVE  /\ StepsLeft[at'[t]] < StepsLeft[at[t]]
             /\ \A u \in TaskIds \ {t} : at'[u] = at[u]
  BY <1>0, <1>1 DEF At
<1>2. CASE RunDetached(t) \/ ReleaseTask(t)
  BY <1>1, <1>2
  DEF RunDetached, ReleaseTask, OverOrUnwound, Abort, StepsLeft, Stages
<1>3. CASE CallReturns(t) \/ DropReturns(t)
  BY <1>1, <1>3 DEF CallReturns, DropReturns, StepsLeft, Stages
<1>4. CASE CallPanics(t) \/ DropPanics(t)
  BY <1>1, <1>4 DEF CallPanics, DropPanics, Abort, StepsLeft, Stages
<1>5. CASE Replace(t) \/ Forget(t) \/ Contain(t)
  BY <1>1, <1>5
  DEF Replace, Forget, Contain, Discard, Abort, StepsLeft, Stages
<1>6. CASE Publish(t)
  BY <1>1, <1>6 DEF Publish, OverOrUnwound, StepsLeft, Stages
<1>7. CASE CancelJob(t)
  BY <1>1, <1>7 DEF CancelJob, StepsLeft, Stages
<1>8. CASE FinishRunning(t) \/ FinishCancelling(t)
  BY <1>1, <1>8 DEF FinishRunning, FinishCancelling, StepsLeft, Stages
<1>9. QED
  BY <1>2, <1>3, <1>4, <1>5, <1>6, <1>7, <1>8 DEF Handle

THEOREM JobsDoNotTurnBack == Spec => HandlingAdvances
<1>1. JobInv /\ [Next]_vars =>
         [\A t \in running_tasks \union cancelling :
             Handle(t) => \/ aborted'
                          \/ /\ StepsLeft[at'[t]] < StepsLeft[at[t]]
                             /\ \A u \in TaskIds \ {t} : at'[u] = at[u]]_vars
  BY HandlingIsAStepForward
<1>2. QED
  BY <1>1, JobInvariant, PTL DEF Spec, HandlingAdvances

-----------------------------------------------------------------------------
(* The contract.  What it sees of the methods of the state is known from   *)
(* RayonExecutorServiceStateProofs; here the results are added.            *)

phaseMap == [t \in TaskIds |-> PhaseOf(t)]
resultMap == [t \in TaskIds |-> ResultOf(t)]

LEMMA PhaseSets ==
    ASSUME StateInv
    PROVE  /\ Contract!In("Queued") = queue
           /\ Contract!In("Active") = running_tasks
           /\ Contract!In("New") = {t \in TaskIds : t >= next_task_id}
           /\ Contract!Unfinished = queue \union running_tasks \union cancelling
<1>1. /\ queue \subseteq TaskIds /\ running_tasks \subseteq TaskIds
      /\ cancelling \subseteq TaskIds
      /\ next_task_id \in Nat /\ TaskIds \subseteq Nat
  BY ConfigAssumption DEF StateInv, StateTypeOK, TaskIds
<1>2. /\ Contract!In("Queued") = queue
      /\ Contract!In("Active") = running_tasks
      /\ Contract!In("Withdrawn") = cancelling
      /\ Contract!In("New") = {t \in TaskIds : t >= next_task_id}
  BY <1>1, PhasesAreCollections DEF Contract!In
<1>3. QED
  BY <1>2 DEF Contract!Unfinished

LEMMA SameCardinality ==
    ASSUME NEW S
    PROVE  Contract!Cardinality(S) = Cardinality(S)
BY DEF Cardinality, Contract!Cardinality, IsFiniteSet, Contract!IsFiniteSet

(* The results before each place: none is published to a task that is not  *)
(* yet begun or withdrawn, and none before the publication.                *)
LEMMA NotYetFinal ==
    ASSUME JobInv, NEW t \in TaskIds \ Detached,
           \/ next_task_id <= t \/ t \in queue
           \/ t \in running_tasks /\ at[t] \in InCall
           \/ t \in cancelling /\ at[t] = "owned"
    PROVE  ResultOf(t) = "None"
BY DEF JobInv, SlotsFollowStages, ResultOf, Terminal

LEMMA AdmitAccepts ==
    ASSUME JobInv, Admit
    PROVE  next_task_id \in TaskIds /\ Contract!Accept(next_task_id)
<1> DEFINE n == next_task_id
<1>0. StateInv /\ admit /\ n \in Nat
  BY JobFacts DEF JobInv, Admit
<1>1. /\ n \in TaskIds
      /\ ObservedLifecycle = "Running" /\ ObservedLifecycle' = "Running"
      /\ \A t \in TaskIds : PhaseOf(t)' = IF t = n THEN "Queued" ELSE PhaseOf(t)
  BY <1>0, AdmitSeen
<1>2. Contract!First(Contract!In("New"), n)
  BY <1>0, <1>1, PhaseSets DEF Contract!First, TaskIds
<1>3. Cardinality(Contract!Unfinished) < TaskCapacity
  BY <1>0, AdmitSeen, OccupiedCounts, PhaseSets
<1>4. \A t \in TaskIds : ResultOf(t)' = ResultOf(t)
  <2>1. CASE n \in Detached
    BY <2>1 DEF Admit, ResultOf
  <2>2. CASE n \notin Detached
    <3>1. ResultOf(n) = "None"
      BY <1>0, <1>1, <2>2, NotYetFinal
    <3>2. slot \in [TaskIds -> Terminal \union {"none", "Pending", "Running"}]
      BY DEF JobInv, TypeOK
    <3>3. QED
      BY <1>1, <2>2, <3>1, <3>2 DEF Admit, ResultOf, Terminal
  <2>3. QED
    BY <2>1, <2>2
<1>5. phaseMap' = [phaseMap EXCEPT ![n] = "Queued"] /\ resultMap' = resultMap
  BY <1>1, <1>4 DEF phaseMap, resultMap
<1>6. QED
  BY <1>1, <1>2, <1>3, <1>5, SameCardinality
  DEF Contract!Accept, phaseMap, resultMap

LEMMA TakeBegins ==
    ASSUME JobInv, JobInv', NEW t \in queue, Take(t)
    PROVE  Contract!Begin(t)
<1>0. /\ StateInv /\ StateInv' /\ IdleReservation /\ take_next(t)
      /\ slot \in [TaskIds -> Terminal \union {"none", "Pending", "Running"}]
      /\ t \in TaskIds
  BY JobFacts DEF JobInv, TypeOK, Take
<1>1. /\ Oldest(t) /\ Cardinality(running_tasks) < NumThreads
      /\ ObservedLifecycle' = ObservedLifecycle
      /\ \A u \in TaskIds : PhaseOf(u)' = IF u = t THEN "Active" ELSE PhaseOf(u)
  BY <1>0, TakeSeen
<1>2. /\ Contract!First(Contract!In("Queued"), t)
      /\ Cardinality(Contract!In("Active")) < NumThreads
  BY <1>0, <1>1, PhaseSets DEF Oldest, Contract!First
<1>3. t \notin Detached => ResultOf(t) = "None"
  BY <1>0, NotYetFinal
<1>4. \A u \in TaskIds : ResultOf(u)' = ResultOf(u)
  BY <1>0, <1>3 DEF Take, SetSlot, ResultOf, Terminal
<1>5. phaseMap' = [phaseMap EXCEPT ![t] = "Active"] /\ resultMap' = resultMap
  BY <1>1, <1>4 DEF phaseMap, resultMap
<1>6. QED
  BY <1>0, <1>1, <1>2, <1>5, SameCardinality
  DEF Contract!Begin, phaseMap, resultMap

LEMMA ClaimWithdraws ==
    ASSUME JobInv, JobInv', NEW t \in queue, Claim(t)
    PROVE  Contract!Withdraw(t)
<1>0. /\ StateInv /\ StateInv' /\ cancel_pending_task(t) /\ slot' = slot
      /\ t \in TaskIds
  BY JobFacts DEF JobInv, Claim
<1>1. /\ ObservedLifecycle' = ObservedLifecycle
      /\ \A u \in TaskIds :
            PhaseOf(u)' = IF u = t THEN "Withdrawn" ELSE PhaseOf(u)
  BY <1>0, CancelSeen
<1>2. PhaseOf(t) = "Queued"
  BY <1>0, PhasesAreCollections
<1>3. phaseMap' = [phaseMap EXCEPT ![t] = "Withdrawn"] /\ resultMap' = resultMap
  BY <1>0, <1>1 DEF phaseMap, resultMap, ResultOf
<1>4. QED
  BY <1>0, <1>1, <1>2, <1>3 DEF Contract!Withdraw, phaseMap, resultMap

LEMMA StopCloses ==
    ASSUME JobInv, JobInv', Stop
    PROVE  Contract!CloseNow \/ UNCHANGED Contract!contractVars
<1>0. StateInv /\ StateInv' /\ stop /\ slot' = slot
  BY DEF JobInv, Stop
<1>1. /\ phaseMap' = [u \in TaskIds |-> IF phaseMap[u] = "Queued"
                                      THEN "Withdrawn" ELSE phaseMap[u]]
      /\ resultMap' = resultMap
  BY <1>0, StopSeen DEF phaseMap, resultMap, ResultOf
<1>2. CASE ObservedLifecycle # "Terminated"
  <2>1. ObservedLifecycle \in {"Running", "ShuttingDown", "Stopping"}
    BY <1>0, <1>2, StopSeen
  <2>2. ObservedLifecycle' = IF Contract!Unfinished = {}
                             THEN "Terminated" ELSE "Stopping"
    BY <1>0, StopSeen, PhaseSets
  <2>3. QED
    BY <1>1, <2>1, <2>2 DEF Contract!CloseNow, phaseMap, resultMap
<1>3. CASE ObservedLifecycle = "Terminated"
  <2>1. phaseMap' = phaseMap
    BY <1>0, <1>3, StopSeen DEF phaseMap
  <2>2. QED
    BY <1>0, <1>1, <1>3, <2>1, StopSeen
    DEF Contract!contractVars, phaseMap, resultMap
<1>4. QED
  BY <1>2, <1>3

LEMMA ShutdownCloses ==
    ASSUME JobInv, JobInv', Shutdown
    PROVE  Contract!CloseGracefully \/ UNCHANGED Contract!contractVars
<1>0. StateInv /\ StateInv' /\ shutdown /\ slot' = slot
  BY DEF JobInv, Shutdown
<1>1. phaseMap' = phaseMap /\ resultMap' = resultMap
  BY <1>0, ShutdownSeen DEF phaseMap, resultMap, ResultOf
<1>2. CASE ObservedLifecycle = "Running"
  <2>1. ObservedLifecycle' = IF Contract!Unfinished = {}
                             THEN "Terminated" ELSE "ShuttingDown"
    BY <1>0, <1>2, ShutdownSeen, PhaseSets
  <2>2. QED
    BY <1>1, <1>2, <2>1 DEF Contract!CloseGracefully, phaseMap, resultMap
<1>3. CASE ObservedLifecycle # "Running"
  BY <1>0, <1>1, <1>3, ShutdownSeen
  DEF Contract!contractVars, phaseMap, resultMap
<1>4. QED
  BY <1>2, <1>3

(* The steps of a job between two holds of the mutex: its publication, or  *)
(* nothing to be seen, however much of the task's code has panicked.       *)
LEMMA HandlingPublishes ==
    ASSUME JobInv, JobInv', NEW t \in running_tasks \union cancelling,
           Handle(t), ~FinishRunning(t), ~FinishCancelling(t)
    PROVE  \/ \E s \in Terminal : Contract!Publish(t, s)
           \/ UNCHANGED Contract!contractVars
<1>0. /\ StateInv /\ StateInv' /\ t \in TaskIds
      /\ slot \in [TaskIds -> Terminal \union {"none", "Pending", "Running"}]
      /\ \A u \in Detached : at[u] \notin InCall \ {"calling"}
      /\ t \in running_tasks => at[t] \in InCall \union Handled
      /\ t \in cancelling => at[t] \in {"owned", "releasing"} \union Handled
  BY JobFacts DEF JobInv, TypeOK, StagesFollowCounts
<1>1. UNCHANGED stateVars
  BY DEF Handle, RunDetached, CallReturns, CallPanics, DropReturns, DropPanics,
         Replace, Forget, Publish, CancelJob, ReleaseTask, Contain
<1>2. /\ \A u \in TaskIds : PhaseOf(u)' = PhaseOf(u)
      /\ ObservedLifecycle' = ObservedLifecycle
  BY <1>1 DEF PhaseOf, stateVars, ObservedLifecycle, IsTerminated, occupied
<1>3. CASE slot' = slot
  BY <1>2, <1>3 DEF Contract!contractVars, ResultOf
<1>4. ASSUME NEW s \in Terminal, SetSlot(t, s), ResultOf(t) = "None",
             \/ t \in running_tasks /\ s \in {"Succeeded", "Panicked"}
             \/ t \in cancelling /\ s = "Cancelled"
      PROVE  Contract!Publish(t, s)
  <2>1. \A u \in TaskIds : ResultOf(u)' = IF u = t THEN s ELSE ResultOf(u)
    BY <1>0, <1>4 DEF SetSlot, ResultOf
  <2>2. /\ t \in running_tasks => PhaseOf(t) = "Active"
        /\ t \in cancelling => PhaseOf(t) = "Withdrawn"
    BY <1>0, PhasesAreCollections
  <2>3. QED
    BY <1>0, <1>2, <1>4, <2>1, <2>2 DEF Contract!Publish
<1>5. CASE Publish(t)
  <2>1. t \in running_tasks /\ t \notin Detached /\ at[t] \in InCall
    BY <1>0, <1>5 DEF Publish, InCall, Handled
  <2>2. ResultOf(t) = "None"
    BY <1>0, <2>1, NotYetFinal
  <2>3. PICK s \in {"Succeeded", "Panicked"} : SetSlot(t, s)
    BY <1>5 DEF Publish
  <2>4. QED
    BY <1>4, <2>1, <2>2, <2>3 DEF Terminal
<1>6. CASE CancelJob(t)
  <2>1. t \in cancelling /\ at[t] = "owned"
    BY <1>0, <1>6 DEF CancelJob, InCall, Handled
  <2>2. CASE t \in Detached
    BY <1>3, <1>6, <2>2 DEF CancelJob
  <2>3. CASE t \notin Detached
    <3>1. ResultOf(t) = "None"
      BY <1>0, <2>1, <2>3, NotYetFinal
    <3>2. QED
      BY <1>4, <1>6, <2>1, <2>3, <3>1 DEF CancelJob, Terminal
  <2>4. QED
    BY <2>2, <2>3
<1>7. QED
  BY <1>3, <1>5, <1>6
  DEF Handle, RunDetached, CallReturns, CallPanics, DropReturns, DropPanics,
      Replace, Forget, ReleaseTask, Contain

LEMMA FinishingRetires ==
    ASSUME JobInv, JobInv', NEW t \in running_tasks \union cancelling,
           FinishRunning(t) \/ FinishCancelling(t)
    PROVE  t \in TaskIds /\ Contract!Retire(t)
<1>0. StateInv /\ StateInv' /\ at[t] = "over" /\ slot' = slot
  BY DEF JobInv, FinishRunning, FinishCancelling
<1>1. /\ running_tasks' = running_tasks \ {t}
      /\ cancelling' = cancelling \ {t}
      /\ UNCHANGED <<lifecycle, next_task_id, queue>>
  BY JobFacts
  DEF FinishRunning, finish_running, FinishCancelling, finish_cancelling
<1>2. /\ t \in TaskIds /\ PhaseOf(t) \in {"Active", "Withdrawn"}
      /\ \A u \in TaskIds : PhaseOf(u)' = IF u = t THEN "Done" ELSE PhaseOf(u)
  BY <1>0, <1>1, FinishSeen
<1>3. ObservedLifecycle' =
         IF ObservedLifecycle # "Running" /\ Contract!Unfinished = {t}
         THEN "Terminated" ELSE ObservedLifecycle
  BY <1>0, <1>1, FinishSeen, PhaseSets
<1>4. ResultOf(t) # "None" \/ t \in Detached
  BY <1>0, <1>2
  DEF JobInv, SlotsFollowStages, InCall, ResultOf, Terminal
<1>5. phaseMap' = [phaseMap EXCEPT ![t] = "Done"] /\ resultMap' = resultMap
  BY <1>0, <1>2 DEF phaseMap, resultMap, ResultOf
<1>6. QED
  BY <1>2, <1>3, <1>4, <1>5 DEF Contract!Retire, phaseMap, resultMap

LEMMA StepsAreContractSteps ==
    ASSUME JobInv, JobInv', [Next]_vars
    PROVE  [Contract!ContractNext]_(Contract!contractVars)
<1> USE DEF Contract!ContractNext
<1>1. CASE UNCHANGED vars \/ TakeNothing
  <2>1. UNCHANGED <<lifecycle, next_task_id, queue, running_tasks, cancelling,
                    slot>>
    BY <1>1 DEF vars, stateVars, TakeNothing, take_nothing
  <2>2. QED
    BY <2>1, UnseenStep DEF JobInv, Contract!contractVars, ResultOf
<1>2. CASE Admit \/ Shutdown \/ Stop
  BY <1>2, AdmitAccepts, ShutdownCloses, StopCloses
<1>3. ASSUME NEW t \in queue, Take(t) \/ Claim(t)
      PROVE  Contract!ContractNext
  <2>1. t \in TaskIds
    BY JobFacts
  <2>2. QED
    BY <1>3, <2>1, TakeBegins, ClaimWithdraws
<1>4. ASSUME NEW t \in running_tasks \union cancelling, Handle(t)
      PROVE  [Contract!ContractNext]_(Contract!contractVars)
  <2>1. t \in TaskIds /\ Terminal \subseteq Contract!Results \ {"None"}
    BY JobFacts DEF Terminal, Contract!Results
  <2>2. QED
    BY <1>4, <2>1, HandlingPublishes, FinishingRetires
<1>5. QED
  BY <1>1, <1>2, <1>3, <1>4 DEF Next

(* Whatever panics in the code of tasks, a user sees what the contract     *)
(* allows: one result per task, of the right kind and before its capacity  *)
(* returns, tasks in order, the lifecycle of a service that nobody         *)
(* disturbed (run and cancel of CallableJob and RunnableJob, run_one,      *)
(* stop, cancel_task).                                                     *)
THEOREM PanicsBreakNoPromise == Spec => PanicsKeepContract
<1>1. Init => Contract!ContractInit
  <2> SUFFICES ASSUME Init PROVE Contract!ContractInit
    OBVIOUS
  <2>1. ObservedLifecycle = "Running"
    BY DEF Init, StateInit, ObservedLifecycle, IsTerminated
  <2>2. \A t \in TaskIds : PhaseOf(t) = "New" /\ ResultOf(t) = "None"
    BY ConfigAssumption
    DEF Init, StateInit, PhaseOf, ResultOf, TaskIds, Terminal
  <2>3. QED
    BY <2>1, <2>2 DEF Contract!ContractInit
<1>2. JobInv /\ JobInv' /\ [Next]_vars
        => [Contract!ContractNext]_(Contract!contractVars)
  BY StepsAreContractSteps
<1>3. QED
  BY <1>1, <1>2, JobInvariant, PTL
  DEF Spec, PanicsKeepContract, Contract!ContractSafety

-----------------------------------------------------------------------------
(* What module ExecutorContractProofs proves of the contract, for the      *)
(* tasks of this module, the detached ones among them.                     *)
Kept == INSTANCE ExecutorContractProofs
    WITH Tasks <- TaskIds,
         observed <- ObservedLifecycle,
         phase <- [t \in TaskIds |-> PhaseOf(t)],
         result <- [t \in TaskIds |-> ResultOf(t)]

LEMMA ContractFitsJobs == Kept!ContractConstants
<1>1. IsFiniteSet(TaskIds)
  BY ConfigAssumption, FS_Interval DEF TaskIds
<1>2. Kept!IsFiniteSet(TaskIds)
  BY <1>1 DEF IsFiniteSet, Kept!IsFiniteSet
<1>3. QED
  BY <1>2, ConfigAssumption DEF Kept!ContractConstants, TaskIds

(* It is the contract of module JobPanics, name by name.                   *)
LEMMA SameWords ==
    /\ Kept!contractVars = Contract!contractVars
    /\ \A p : Kept!In(p) = Contract!In(p)
    /\ Kept!Unfinished = Contract!Unfinished
    /\ \A S, t : Kept!First(S, t) <=> Contract!First(S, t)
    /\ \A S : Kept!Cardinality(S) = Contract!Cardinality(S)
    /\ Kept!Results = Contract!Results
<1>1. /\ Kept!contractVars = Contract!contractVars
      /\ \A p : Kept!In(p) = Contract!In(p)
      /\ \A S, t : Kept!First(S, t) <=> Contract!First(S, t)
      /\ Kept!Results = Contract!Results
  BY DEF Kept!contractVars, Contract!contractVars, Kept!In, Contract!In,
         Kept!First, Contract!First, Kept!Results, Contract!Results
<1>2. Kept!Unfinished = Contract!Unfinished
  BY <1>1 DEF Kept!Unfinished, Contract!Unfinished
<1>3. \A S : Kept!Cardinality(S) = Contract!Cardinality(S)
  BY DEF Kept!Cardinality, Contract!Cardinality, Kept!IsFiniteSet,
         Contract!IsFiniteSet
<1>4. QED
  BY <1>1, <1>2, <1>3

LEMMA SameSteps ==
    /\ Contract!ContractInit => Kept!ContractInit
    /\ Contract!ContractNext => Kept!ContractNext
<1>1. Contract!ContractInit => Kept!ContractInit
  BY DEF Contract!ContractInit, Kept!ContractInit
<1>2. ASSUME NEW t \in TaskIds
      PROVE  /\ Contract!Accept(t) => Kept!Accept(t)
             /\ Contract!Begin(t) => Kept!Begin(t)
  BY SameWords
  DEF Contract!Accept, Kept!Accept, Contract!Begin, Kept!Begin
<1>3. ASSUME NEW t \in TaskIds
      PROVE  /\ Contract!Retire(t) => Kept!Retire(t)
             /\ Contract!Withdraw(t) => Kept!Withdraw(t)
             /\ \A s : Contract!Publish(t, s) => Kept!Publish(t, s)
  BY SameWords
  DEF Contract!Retire, Kept!Retire, Contract!Withdraw, Kept!Withdraw,
      Contract!Publish, Kept!Publish
<1>4. /\ Contract!CloseGracefully => Kept!CloseGracefully
      /\ Contract!CloseNow => Kept!CloseNow
  BY SameWords
  DEF Contract!CloseGracefully, Kept!CloseGracefully, Contract!CloseNow,
      Kept!CloseNow
<1>5. QED
  BY <1>1, <1>2, <1>3, <1>4, SameWords
  DEF Contract!ContractNext, Kept!ContractNext

(* User code that panics breaks none of the contract's promises: capacity  *)
(* and threads are respected, tasks keep their order, a result is what     *)
(* happened to its task and stays, every finished task has one unless it   *)
(* was detached, and the lifecycle ends exactly when it should.            *)
THEOREM PanickingJobsKeepPromises ==
    Spec => []Kept!Promises /\ Kept!NothingRevoked
<1>1. /\ Kept!ContractSafety => []Kept!Promises
      /\ Kept!ContractSafety => Kept!NothingRevoked
  BY Kept!ContractKeepsPromises, Kept!ContractRevokesNothing,
     ContractFitsJobs
<1>2. /\ Contract!ContractInit => Kept!ContractInit
      /\ [Contract!ContractNext]_(Contract!contractVars)
            => [Kept!ContractNext]_(Kept!contractVars)
  BY SameSteps DEF Contract!contractVars, Kept!contractVars
<1>3. Contract!ContractSafety => Kept!ContractSafety
  BY <1>2, PTL DEF Contract!ContractSafety, Kept!ContractSafety
<1>4. Spec => Contract!ContractSafety
  BY PanicsBreakNoPromise DEF PanicsKeepContract
<1>5. QED
  BY <1>1, <1>3, <1>4, PTL
=============================================================================
