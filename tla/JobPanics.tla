------------------------------ MODULE JobPanics ------------------------------
(***************************************************************************)
(* Panics in the code of a task: in its call, in its destructor, in what   *)
(* runs while its result is published, and in the destructor of a panic    *)
(* payload.  The job of a task (CallableJob, RunnableJob) and the loops    *)
(* that run or cancel jobs (run_one, stop, cancel_task) catch them, each   *)
(* at its own place, so that the result is published and the task leaves   *)
(* the counts of the state.  A panic during unwinding aborts the process,  *)
(* which nothing here can prevent.                                         *)
(***************************************************************************)
EXTENDS RayonExecutorServiceState

CONSTANT Detached  \* tasks of submit: they run without a result slot

ASSUME DetachedAssumption == Detached \subseteq TaskIds

VARIABLES
    at,         \* per task: how far the thread is that has its job
    slot,       \* per task: status of its result slot
    faulted,    \* tasks whose call or destructor has panicked in a run
    stop_jobs,  \* jobs the loop of a stop has still to cancel
    aborted     \* the process is gone

vars == <<stateVars, at, slot, faulted, stop_jobs, aborted>>

(* "caught" is the catch inside CallableJob, "unwound" the one around the  *)
(* job in run_one, stop and cancel_task; each holds a payload.  In the     *)
(* stages named again the destructor of that payload has panicked, too.    *)
Stages == {"none", "calling", "dropping", "returned", "caught",
           "caught_again", "resumed", "owned", "releasing", "unwound",
           "unwound_again", "over"}

Terminal == {"Succeeded", "Panicked", "Cancelled"}

At(t, stage) == at' = [at EXCEPT ![t] = stage]
SetSlot(t, status) == slot' = [slot EXCEPT ![t] = status]

(* Foreign code runs here; the job is over or a panic leaves it.           *)
OverOrUnwound(t) == \E stage \in {"over", "unwound"} : At(t, stage)

Abort == aborted' = TRUE /\ UNCHANGED at
Alive == aborted' = aborted

-----------------------------------------------------------------------------
Admit ==
    /\ admit
    /\ slot' = IF next_task_id \in Detached THEN slot
               ELSE [slot EXCEPT ![next_task_id] = "Pending"]
    /\ UNCHANGED <<at, faulted, stop_jobs, aborted>>

(* run_one up to the call; TaskRunner starts the slot of a callable.       *)
Take(t) ==
    /\ IdleReservation /\ take_next(t)
    /\ At(t, "calling")
    /\ IF t \in Detached THEN UNCHANGED slot ELSE SetSlot(t, "Running")
    /\ UNCHANGED <<faulted, stop_jobs, aborted>>

TakeNothing ==
    /\ IdleReservation /\ take_nothing
    /\ UNCHANGED <<at, slot, faulted, stop_jobs, aborted>>

(* A detached runnable: run_detached drops its result or its payload.      *)
RunDetached(t) ==
    /\ at[t] = "calling" /\ t \in Detached
    /\ (OverOrUnwound(t) /\ Alive) \/ Abort
    /\ UNCHANGED <<stateVars, slot, faulted, stop_jobs>>

CallReturns(t) ==
    /\ at[t] = "calling" /\ t \notin Detached
    /\ At(t, "dropping")
    /\ UNCHANGED <<stateVars, slot, faulted, stop_jobs, aborted>>

(* The callable is dropped by the unwinding.                               *)
CallPanics(t) ==
    /\ at[t] = "calling" /\ t \notin Detached
    /\ faulted' = faulted \union {t}
    /\ (At(t, "caught") /\ Alive) \/ Abort
    /\ UNCHANGED <<stateVars, slot, stop_jobs>>

DropReturns(t) ==
    /\ at[t] = "dropping"
    /\ At(t, "returned")
    /\ UNCHANGED <<stateVars, slot, faulted, stop_jobs, aborted>>

DropPanics_outside(t) ==
    /\ at[t] = "dropping"
    /\ faulted' = faulted \union {t}
    /\ At(t, "unwound")
    /\ SetSlot(t, "Succeeded")
    /\ UNCHANGED <<stateVars, stop_jobs, aborted>>

(* The destructor is inside the catch; the unwinding drops the result.     *)
DropPanics(t) ==
    /\ at[t] = "dropping"
    /\ faulted' = faulted \union {t}
    /\ (At(t, "caught") /\ Alive) \/ Abort
    /\ UNCHANGED <<stateVars, slot, stop_jobs>>

Discard_unprotected(t, stage, again) ==
    /\ \/ At(t, stage)
       \/ At(t, IF stage = "over" THEN "none" ELSE stage)
    /\ Alive

(* discard_panic_payload: the destructor of the payload returns, panics    *)
(* into a second catch, or aborts as a destructor may that panics twice.   *)
Discard(t, stage, again) ==
    \/ (At(t, stage) \/ At(t, again)) /\ Alive
    \/ Abort

(* The secondary payload is never dropped.                                 *)
Forget(t) ==
    /\ \/ at[t] = "caught_again" /\ At(t, "resumed")
       \/ at[t] = "unwound_again" /\ At(t, "over")
    /\ UNCHANGED <<stateVars, slot, faulted, stop_jobs, aborted>>

(* Inside the callable the payload is replaced by one without destructor.  *)
Replace(t) ==
    /\ at[t] = "caught"
    /\ Discard(t, "resumed", "caught_again")
    /\ UNCHANGED <<stateVars, slot, faulted, stop_jobs>>

(* TaskRunner publishes; if the handle is gone it drops the result, if     *)
(* somebody waits it calls a waker, and either may panic.                  *)
Publish(t) ==
    /\ at[t] \in {"returned", "resumed"}
    /\ SetSlot(t, IF at[t] = "returned" THEN "Succeeded" ELSE "Panicked")
    /\ OverOrUnwound(t)
    /\ UNCHANGED <<stateVars, faulted, stop_jobs, aborted>>

(* cancel_pending_task, called by cancel_task.                             *)
Claim(t) ==
    /\ cancel_pending_task(t)
    /\ At(t, "owned")
    /\ UNCHANGED <<slot, faulted, stop_jobs, aborted>>

Stop ==
    /\ stop
    /\ at' = [t \in TaskIds |-> IF t \in queue THEN "owned" ELSE at[t]]
    /\ stop_jobs' = stop_jobs \union queue
    /\ UNCHANGED <<slot, faulted, aborted>>

(* The loop of stop takes its jobs one by one; a handle has only one.      *)
Turn(t) == t \in stop_jobs => \A u \in stop_jobs : at[u] = "owned"

CancelJob_drops_first(t) ==
    /\ at[t] = "owned" /\ Turn(t)
    /\ \/ At(t, "unwound") /\ UNCHANGED slot
       \/ At(t, "releasing") /\ (IF t \in Detached THEN UNCHANGED slot
                                 ELSE SetSlot(t, "Cancelled"))
    /\ UNCHANGED <<stateVars, faulted, stop_jobs, aborted>>

CancelJob(t) ==
    /\ at[t] = "owned" /\ Turn(t)
    /\ At(t, "releasing")
    /\ IF t \in Detached THEN UNCHANGED slot ELSE SetSlot(t, "Cancelled")
    /\ UNCHANGED <<stateVars, faulted, stop_jobs, aborted>>

(* What follows the publication of a cancellation: the wakers of the slot  *)
(* and drop(task).  If both panic the second aborts.                       *)
ReleaseTask(t) ==
    /\ at[t] = "releasing"
    /\ (OverOrUnwound(t) /\ Alive) \/ Abort
    /\ UNCHANGED <<stateVars, slot, faulted, stop_jobs>>

(* The catch around the job in run_one, stop and cancel_task.              *)
Contain(t) ==
    /\ at[t] = "unwound"
    /\ Discard(t, "over", "unwound_again")
    /\ UNCHANGED <<stateVars, slot, faulted, stop_jobs>>

FinishRunning(t) ==
    /\ at[t] = "over" /\ t \in running_tasks
    /\ finish_running(t)
    /\ At(t, "none")
    /\ UNCHANGED <<slot, faulted, stop_jobs, aborted>>

FinishCancelling(t) ==
    /\ at[t] = "over" /\ t \in cancelling
    /\ finish_cancelling(t)
    /\ At(t, "none")
    /\ stop_jobs' = stop_jobs \ {t}
    /\ UNCHANGED <<slot, faulted, aborted>>

Shutdown == shutdown /\ UNCHANGED <<at, slot, faulted, stop_jobs, aborted>>

-----------------------------------------------------------------------------
Init ==
    /\ StateInit
    /\ at = [t \in TaskIds |-> "none"]
    /\ slot = [t \in TaskIds |-> "none"]
    /\ faulted = {}
    /\ stop_jobs = {}
    /\ aborted = FALSE

Handle(t) ==
    \/ RunDetached(t) \/ CallReturns(t) \/ CallPanics(t)
    \/ DropReturns(t) \/ DropPanics(t)
    \/ Replace(t) \/ Forget(t) \/ Publish(t)
    \/ CancelJob(t) \/ ReleaseTask(t) \/ Contain(t)
    \/ FinishRunning(t) \/ FinishCancelling(t)

Next ==
    /\ ~aborted
    /\ \/ Admit \/ TakeNothing \/ Shutdown \/ Stop
       \/ \E t \in queue : Take(t) \/ Claim(t)
       \/ \E t \in running_tasks \union cancelling : Handle(t)

Spec == Init /\ [][Next]_vars

(* The code of a task returns or panics; a thread that has a job goes on.  *)
FairSpec ==
    Spec /\ \A t \in TaskIds :
               WF_vars(~aborted /\ t \in running_tasks \union cancelling /\ Handle(t))

-----------------------------------------------------------------------------
TypeOK ==
    /\ StateTypeOK
    /\ at \in [TaskIds -> Stages]
    /\ slot \in [TaskIds -> Terminal \union {"none", "Pending", "Running"}]
    /\ faulted \in SUBSET (TaskIds \ Detached)
    /\ stop_jobs \in SUBSET TaskIds
    /\ aborted \in BOOLEAN

(* A task with a slot leaves the counts of the state only with a terminal  *)
(* status, whatever has panicked on the way: its handle is never left      *)
(* without an answer (run, cancel of CallableJob).                         *)
OutcomePublished ==
    \A t \in TaskIds \ Detached :
        t < next_task_id /\ t \notin queue \union running_tasks \union cancelling
            => slot[t] \in Terminal

(* A panic of the callable or of its destructor is reported as a panic,    *)
(* never as a result (run of CallableJob: the destructor runs inside the   *)
(* catch and before publication).                                          *)
PanicReported == \A t \in faulted : slot[t] \in {"Running", "Panicked"}

(* Every job a thread has taken leaves the counts, and behind a panicking  *)
(* one in a stop the others do, too (run_one, stop, cancel_task).          *)
JobsEnd ==
    \A t \in TaskIds :
        t \in running_tasks \union cancelling
            ~> aborted \/ t \notin running_tasks \union cancelling

(* What stands between a job and its end: its thread can always go on, but *)
(* for the jobs behind the first of a stop, and that one's thread can; each *)
(* step takes the job nearer to its end, whatever it leaves behind, unless *)
(* the process is gone (run_one, stop, cancel_task).                       *)
CanHandle(t) ==
    /\ at[t] \in Stages \ {"none"}
    /\ at[t] = "owned" => Turn(t)

JobsGoOn ==
    /\ \A t \in (running_tasks \union cancelling) \ stop_jobs : CanHandle(t)
    /\ stop_jobs # {} =>
          \E t \in stop_jobs \intersect cancelling : CanHandle(t)

StepsLeft ==
    [calling |-> 8, dropping |-> 7, caught |-> 6, caught_again |-> 5,
     returned |-> 4, resumed |-> 4, owned |-> 5, releasing |-> 4,
     unwound |-> 3, unwound_again |-> 2, over |-> 1, none |-> 0]

HandlingAdvances ==
    [][\A t \in running_tasks \union cancelling :
          Handle(t) => \/ aborted'
                       \/ /\ StepsLeft[at'[t]] < StepsLeft[at[t]]
                          /\ \A u \in TaskIds \ {t} : at'[u] = at[u]]_vars

-----------------------------------------------------------------------------
(* What a user sees of a task: the collection it is in and, if it has a    *)
(* handle, the result in its slot.                                         *)
ResultOf(t) == IF slot[t] \in Terminal THEN slot[t] ELSE "None"

Contract == INSTANCE ExecutorContract
    WITH Tasks <- TaskIds,
         observed <- ObservedLifecycle,
         phase <- [t \in TaskIds |-> PhaseOf(t)],
         result <- [t \in TaskIds |-> ResultOf(t)]

(* Panics break nothing that a user was promised: a result is published    *)
(* once, never for a task of another phase, and before the task gives its  *)
(* capacity back; the order of the tasks, the size of the pool and the     *)
(* lifecycle are those of a service whose tasks return (run and cancel of  *)
(* CallableJob and RunnableJob, run_one, stop, cancel_task).               *)
PanicsKeepContract == Contract!ContractSafety
=============================================================================
