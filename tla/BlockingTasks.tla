---------------------------- MODULE BlockingTasks ----------------------------
(***************************************************************************)
(* Tasks that block the worker they run on: on the result of another task  *)
(* of the same pool, or on the termination of their own service; and       *)
(* destructors of cancelled tasks that do the latter.  The documentation   *)
(* of RayonExecutorService warns that all three can wait in a circle.      *)
(*                                                                         *)
(* The programs of an execution keep one of two disciplines in what they   *)
(* let their tasks wait for:                                               *)
(*   "older"  a task waits only for tasks accepted before it;              *)
(*   "spare"  a task waits only for tasks accepted after it, and one       *)
(*            worker never waits.                                          *)
(* Either keeps the pool alive.  The first works because take_next takes   *)
(* the oldest job, the second because every free worker has a closure.     *)
(***************************************************************************)
EXTENDS RayonExecutorServiceState

VARIABLES
    discipline,  \* of all tasks, for the whole execution
    waits_for,   \* per task: the task whose result its worker waits for
    end_wait,    \* per task: its timed wait for termination and its answer
    unpublished, \* cancelled tasks whose job.cancel() is still to run
    stop_jobs    \* jobs the loop of a stop has still to cancel

waitVars == <<discipline, waits_for, end_wait>>
cancelVars == <<unpublished, stop_jobs>>
vars == <<stateVars, waitVars, cancelVars>>

(* A task that needs no worker any more, and one that has its result.      *)
OutOfPool(u) == u < next_task_id /\ u \notin queue \union running_tasks
Resolved(u) == OutOfPool(u) /\ u \notin unpublished

ResultWaiters == {t \in running_tasks : waits_for[t] # {}}
Blocked(t) == waits_for[t] # {} \/ end_wait[t] = "waiting"

Disciplined(t, u) ==
    \/ discipline = "older" /\ u < t
    \/ /\ discipline = "spare" /\ t < u
       /\ Cardinality(ResultWaiters) + 1 < NumThreads

-----------------------------------------------------------------------------
(* The steps of callers and workers.  A blocked task or destructor does    *)
(* not give its worker, or its place in `cancelling`, back.                *)

Admit == admit /\ UNCHANGED <<waitVars, cancelVars>>

TakeNext ==
    /\ IdleReservation
    /\ \E t \in queue : take_next(t)
    /\ UNCHANGED <<waitVars, cancelVars>>

TakeNothing ==
    IdleReservation /\ take_nothing /\ UNCHANGED <<waitVars, cancelVars>>

FinishRunning(t) ==
    /\ t \in running_tasks /\ ~Blocked(t)
    /\ finish_running(t)
    /\ UNCHANGED <<waitVars, cancelVars>>

CancelPending(t) ==
    /\ cancel_pending_task(t)
    /\ unpublished' = unpublished \union {t}
    /\ UNCHANGED <<waitVars, stop_jobs>>

Shutdown == shutdown /\ UNCHANGED <<waitVars, cancelVars>>

Stop ==
    /\ stop
    /\ unpublished' = unpublished \union queue
    /\ stop_jobs' = stop_jobs \union queue
    /\ UNCHANGED waitVars

(* The loop of a stop takes its jobs one by one: behind a destructor that  *)
(* blocks the others have no result.                                       *)
Turn(t) == t \in stop_jobs => stop_jobs \subseteq unpublished

(* job.cancel() publishes first, then the destructor runs.                 *)
PublishCancelled(t) ==
    /\ t \in unpublished /\ Turn(t)
    /\ unpublished' = unpublished \ {t}
    /\ UNCHANGED <<stateVars, waitVars, stop_jobs>>

FinishCancelling(t) ==
    /\ t \in cancelling \ unpublished /\ ~Blocked(t)
    /\ finish_cancelling(t)
    /\ stop_jobs' = stop_jobs \ {t}
    /\ UNCHANGED <<waitVars, unpublished>>

(* TaskHandle::get inside a task.                                          *)
AwaitResult(t, u) ==
    /\ t \in running_tasks /\ ~Blocked(t)
    /\ u < next_task_id /\ ~Resolved(u)
    /\ Disciplined(t, u)
    /\ waits_for' = [waits_for EXCEPT ![t] = {u}]
    /\ UNCHANGED <<stateVars, discipline, end_wait, cancelVars>>

ResultArrives(t) ==
    /\ waits_for[t] # {} /\ \A u \in waits_for[t] : Resolved(u)
    /\ waits_for' = [waits_for EXCEPT ![t] = {}]
    /\ UNCHANGED <<stateVars, discipline, end_wait, cancelVars>>

(* wait_termination_timeout inside a task or a destructor, once for each.  *)
AwaitEnd(t) ==
    /\ t \in running_tasks \union (cancelling \ unpublished) /\ ~Blocked(t)
    /\ end_wait[t] = "none"
    /\ end_wait' = [end_wait EXCEPT ![t] = "waiting"]
    /\ UNCHANGED <<stateVars, discipline, waits_for, cancelVars>>

(* The wait is over: termination, or the deadline without it.              *)
EndWaitReturns(t) ==
    /\ end_wait[t] = "waiting"
    /\ end_wait' = [end_wait EXCEPT ![t] = IF IsTerminated THEN "true" ELSE "false"]
    /\ UNCHANGED <<stateVars, discipline, waits_for, cancelVars>>

-----------------------------------------------------------------------------
Init ==
    /\ StateInit
    /\ discipline \in {"older", "spare"}
    /\ waits_for = [t \in TaskIds |-> {}]
    /\ end_wait = [t \in TaskIds |-> "none"]
    /\ unpublished = {}
    /\ stop_jobs = {}

Task(t) ==
    \/ FinishRunning(t)
    \/ PublishCancelled(t)
    \/ FinishCancelling(t)
    \/ ResultArrives(t)
    \/ EndWaitReturns(t)

Next ==
    \/ Admit \/ TakeNext \/ TakeNothing \/ Shutdown \/ Stop
    \/ \E t \in queue : CancelPending(t)
    \/ \E t \in TaskIds : Task(t) \/ AwaitEnd(t)
    \/ \E t, u \in TaskIds : AwaitResult(t, u)

Spec == Init /\ [][Next]_vars

(* Closures run; a task or destructor that is not blocked goes on.         *)
FairSpec ==
    /\ Spec
    /\ WF_vars(TakeNext)
    /\ \A t \in TaskIds : WF_vars(Task(t))

-----------------------------------------------------------------------------
TypeOK ==
    /\ StateTypeOK
    /\ discipline \in {"older", "spare"}
    /\ waits_for \in [TaskIds -> SUBSET TaskIds]
    /\ end_wait \in [TaskIds -> {"none", "waiting", "true", "false"}]
    /\ unpublished \in SUBSET TaskIds
    /\ stop_jobs \in SUBSET TaskIds

(* A task or a destructor that waits for the termination of its own        *)
(* service is never told that it has come: termination includes that task, *)
(* its cleanup too (wait_termination_timeout, occupied).                   *)
EndNeverSeenFromInside == \A t \in TaskIds : end_wait[t] # "true"

(* Tasks start in the order of acceptance, so an unfinished task that is   *)
(* older than a running one has a worker already (take_next, pop_first).   *)
StartedInOrder == \A t \in running_tasks, u \in queue : t < u

(* Under either discipline the pool is never stuck: while a task waits for *)
(* a result, some worker can go on, now or when a cancellation that needs  *)
(* no worker publishes, or a free one has a closure for the queue.         *)
PoolNotStuck ==
    ResultWaiters # {} =>
        \/ \E t \in running_tasks :
              waits_for[t] = {} \/ \A u \in waits_for[t] : OutOfPool(u)
        \/ queue # {} /\ IdleReservation

(* Every wait for a result ends.                                           *)
ResultsArrive == \A t \in TaskIds : waits_for[t] # {} ~> waits_for[t] = {}
=============================================================================
