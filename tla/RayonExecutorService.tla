------------------------ MODULE RayonExecutorService ------------------------
(***************************************************************************)
(* The executor service at work: threads that call it (submit, cancel,     *)
(* shutdown, stop, wait) and the closures of its Rayon pool, interleaved   *)
(* between their holds of the state mutex.  Everything a thread does       *)
(* between two such holds (spawning closures, running or cancelling a job, *)
(* reading a task's status) is an action of its own.                       *)
(*                                                                         *)
(* A caller is any thread: user code that runs inside a task or inside the *)
(* destructor of a cancelled one and calls the service is one of them.     *)
(* Every submission is taken to return a tracked handle; a detached or     *)
(* untracked one is a handle nobody uses.                                  *)
(***************************************************************************)
EXTENDS RayonExecutorServiceState

CONSTANT Workers  \* the threads of the Rayon pool

(* The state is built with the pool's own current_num_threads().           *)
ASSUME PoolAssumption ==
    /\ IsFiniteSet(Callers)
    /\ IsFiniteSet(Workers)
    /\ NumThreads = Cardinality(Workers)

VARIABLES
    pc,       \* where each caller is in its current call
    left,     \* closures its dispatch loop has still to spawn
    owned,    \* jobs it took out of the queue to cancel
    target,   \* the task its submission or cancellation is about
    answer,   \* what its last finished call returned
    spawned,  \* closures in the pool that no worker has picked up
    wpc,      \* where each worker is in run_one
    job,      \* the task whose job a worker holds
    slot      \* status of each task's result slot

callerVars == <<pc, left, owned, target, answer>>
poolVars == <<spawned, wpc, job>>
vars == <<stateVars, callerVars, poolVars, slot>>

NoTask == MaxTaskId

Completed == {"Succeeded", "Panicked"}
Terminal == Completed \union {"Cancelled"}

Answers == {"none", "Accepted", "Shutdown", "Saturated", "Exhausted",
            "Cancelled", "AlreadyRunning", "AlreadyFinished", "Stopped",
            "ShutDown", "Terminated", "TimedOut"}

Waiting == {"waiting", "waiting_for", "expired"}
CallerPCs == {"idle", "dispatching", "claimed", "cleaning", "absent",
              "absent_endpoint", "endpoint_cancel"} \union Waiting

(* Workers in these places hold a job, the one place more a reservation.   *)
Holding == {"taken", "running", "ran"}
WorkerPCs == Holding \union {"idle", "spawning"}

Goto(c, place) == pc' = [pc EXCEPT ![c] = place]
WorkerGoto(w, place) == wpc' = [wpc EXCEPT ![w] = place]
Answer(c, result) == answer' = [answer EXCEPT ![c] = result]
SetSlot(t, status) == slot' = [slot EXCEPT ![t] = status]

(* A call about task t goes to its next place, or returns; `target` is     *)
(* kept only where it matters to the call or to what it answered.          *)
Enters(c, t, place) ==
    /\ Goto(c, place)
    /\ Answer(c, "none")
    /\ target' = [target EXCEPT ![c] = t]

Returns(c, t, result) ==
    /\ Goto(c, "idle")
    /\ Answer(c, result)
    /\ target' = [target EXCEPT ![c] = t]

-----------------------------------------------------------------------------
(* The result slot of a task (qubit-executor): each transition is made     *)
(* only from Pending or Running, so a terminal status never changes.       *)

cancel_unstarted(t) ==
    slot' = [slot EXCEPT ![t] = IF @ = "Pending" THEN "Cancelled" ELSE @]

StatusAnswer(t) ==
    IF slot[t] \in {"Pending", "Running"}
    THEN "AlreadyRunning" ELSE "AlreadyFinished"

-----------------------------------------------------------------------------
(* Submission: admit, then dispatch the reserved closures one by one.      *)

ClosuresToSpawn_inclusive == DispatchCount + 1
ClosuresToSpawn == DispatchCount          \* for _ in 0..count

SubmitAccepted(c) ==
    /\ pc[c] = "idle"
    /\ admit
    /\ SetSlot(next_task_id, "Pending")       \* job.accept()
    /\ left' = [left EXCEPT ![c] = ClosuresToSpawn]
    /\ Enters(c, next_task_id, "dispatching")
    /\ UNCHANGED <<owned, poolVars>>

SubmitRefused(c) ==
    /\ pc[c] = "idle"
    /\ AdmitOutcome # "Accepted"
    /\ Returns(c, NoTask, AdmitOutcome)
    /\ UNCHANGED <<stateVars, left, owned, poolVars, slot>>

Dispatch(c) ==
    /\ pc[c] = "dispatching"
    /\ left[c] > 0
    /\ left' = [left EXCEPT ![c] = @ - 1]
    /\ spawned' = spawned + 1
    /\ UNCHANGED <<stateVars, pc, owned, target, answer, wpc, job, slot>>

ReturnHandle(c) ==
    /\ pc[c] = "dispatching"
    /\ left[c] = 0
    /\ Returns(c, NoTask, "Accepted")
    /\ UNCHANGED <<stateVars, left, owned, poolVars, slot>>

-----------------------------------------------------------------------------
(* Cancellation through a handle or through a cancellation endpoint.       *)

(* A task can be cancelled by anyone once its submission has returned.     *)
HandleExists(t) ==
    /\ t < next_task_id
    /\ \A c \in Callers : pc[c] = "dispatching" => target[c] # t

CancelOwned(c, t) ==
    /\ pc[c] = "idle"
    /\ HandleExists(t)
    /\ cancel_pending_task(t)
    /\ owned' = [owned EXCEPT ![c] = {t}]
    /\ Enters(c, t, "claimed")
    /\ UNCHANGED <<left, poolVars, slot>>

CancelInProgress(c, t) ==
    /\ pc[c] = "idle"
    /\ HandleExists(t)
    /\ CancelDisposition(t) = "InProgress"
    /\ Returns(c, t, "Cancelled")
    /\ UNCHANGED <<stateVars, left, owned, poolVars, slot>>

(* `place` is "absent" for a handle and "absent_endpoint" for an endpoint. *)
CancelAbsent(c, t, place) ==
    /\ pc[c] = "idle"
    /\ HandleExists(t)
    /\ CancelDisposition(t) = "Absent"
    /\ Enters(c, t, place)
    /\ UNCHANGED <<stateVars, left, owned, poolVars, slot>>

AnswerFromStatus_waits(c) ==
    /\ pc[c] = "absent"
    /\ slot[target[c]] \in Terminal
    /\ Returns(c, target[c], StatusAnswer(target[c]))
    /\ UNCHANGED <<stateVars, left, owned, poolVars, slot>>

AnswerFromStatus(c) ==
    /\ pc[c] = "absent"
    /\ Returns(c, target[c], StatusAnswer(target[c]))
    /\ UNCHANGED <<stateVars, left, owned, poolVars, slot>>

EndpointRunning(c) ==
    /\ pc[c] = "absent_endpoint"
    /\ target[c] \in running_tasks             \* is_running_task
    /\ Returns(c, target[c], "AlreadyRunning")
    /\ UNCHANGED <<stateVars, left, owned, poolVars, slot>>

EndpointNotRunning_unchecked(c) ==
    /\ pc[c] = "absent_endpoint"
    /\ Goto(c, "endpoint_cancel")
    /\ UNCHANGED <<stateVars, left, owned, target, answer, poolVars, slot>>

EndpointNotRunning(c) ==
    /\ pc[c] = "absent_endpoint"
    /\ target[c] \notin running_tasks
    /\ Goto(c, "endpoint_cancel")
    /\ UNCHANGED <<stateVars, left, owned, target, answer, poolVars, slot>>

(* The endpoint's fallback task.cancel() acts on the slot itself.          *)
EndpointCancel(c) ==
    /\ pc[c] = "endpoint_cancel"
    /\ cancel_unstarted(target[c])
    /\ Returns(c, target[c],
               IF slot[target[c]] = "Pending" THEN "Cancelled"
               ELSE StatusAnswer(target[c]))
    /\ UNCHANGED <<stateVars, left, owned, poolVars>>

-----------------------------------------------------------------------------
(* Lifecycle.                                                              *)

Shutdown(c) ==
    /\ pc[c] = "idle"
    /\ shutdown
    /\ Returns(c, NoTask, "ShutDown")
    /\ UNCHANGED <<left, owned, poolVars, slot>>

Stop(c) ==
    /\ pc[c] = "idle"
    /\ stop
    /\ owned' = [owned EXCEPT ![c] = queue]
    /\ IF queue = {} THEN Returns(c, NoTask, "Stopped")
       ELSE Enters(c, NoTask, "claimed")
    /\ UNCHANGED <<left, poolVars, slot>>

-----------------------------------------------------------------------------
(* job.cancel() and finish_cancelling, for the one job of a cancellation   *)
(* and for the jobs of a stop in the order of their ids.  The result is    *)
(* published first; then the captured values are dropped, for as long as   *)
(* they take, and even if a destructor panics the accounting follows.      *)

FirstOwned(c, t) == t \in owned[c] /\ \A u \in owned[c] : t <= u

CancelJob_unwinds(c) ==
    /\ pc[c] = "claimed"
    /\ \E t \in owned[c] : FirstOwned(c, t) /\ cancel_unstarted(t)
    /\ Goto(c, "cleaning") \/ Goto(c, "idle")
    /\ UNCHANGED <<stateVars, left, owned, target, answer, poolVars>>

CancelJob(c) ==
    /\ pc[c] = "claimed"
    /\ \E t \in owned[c] : FirstOwned(c, t) /\ cancel_unstarted(t)
    /\ Goto(c, "cleaning")
    /\ UNCHANGED <<stateVars, left, owned, target, answer, poolVars>>

FinishCancelling(c, t) ==
    /\ pc[c] = "cleaning"
    /\ FirstOwned(c, t)
    /\ finish_cancelling(t)
    /\ owned' = [owned EXCEPT ![c] = @ \ {t}]
    /\ IF owned[c] # {t}
       THEN Enters(c, target[c], "claimed")
       ELSE Returns(c, target[c],
                    IF target[c] = NoTask THEN "Stopped" ELSE "Cancelled")
    /\ UNCHANGED <<left, poolVars, slot>>

-----------------------------------------------------------------------------
(* Waiting for termination.                                                *)

WaitObserves(c) ==
    /\ pc[c] = "idle" \/ (pc[c] \in Waiting /\ c \notin parked)
    /\ IsTerminated
    /\ Returns(c, NoTask, "Terminated")
    /\ UNCHANGED <<stateVars, left, owned, poolVars, slot>>

(* From idle the call begins; from `place` the caller was woken too early. *)
WaitParks(c, place) ==
    /\ pc[c] \in {"idle", place} /\ c \notin parked
    /\ park(c)
    /\ Enters(c, NoTask, place)
    /\ UNCHANGED <<left, owned, poolVars, slot>>

WaitExpires(c) ==
    /\ pc[c] = "waiting_for"
    /\ unpark_on_timeout(c)
    /\ Enters(c, NoTask, "expired")
    /\ UNCHANGED <<left, owned, poolVars, slot>>

(* No time remains: the timeout was zero, expired, or ran out after a      *)
(* wake-up that came too early.                                            *)
WaitTimesOut(c) ==
    /\ pc[c] \in {"idle", "waiting_for", "expired"} /\ c \notin parked
    /\ ~IsTerminated
    /\ Returns(c, NoTask, "TimedOut")
    /\ UNCHANGED <<stateVars, left, owned, poolVars, slot>>

-----------------------------------------------------------------------------
(* run_one, on a worker of the pool.                                       *)

PickUp_polls(w) ==
    /\ wpc[w] = "idle"
    /\ spawned > 0
    /\ spawned' = IF queue = {} THEN spawned ELSE spawned - 1

(* The closure leaves the pool and takes the mutex; nothing it does in     *)
(* between is visible to another thread.                                   *)
PickUp(w) ==
    /\ wpc[w] = "idle"
    /\ spawned > 0
    /\ spawned' = spawned - 1

TakeNext(w, t) ==
    /\ PickUp(w)
    /\ take_next(t)
    /\ WorkerGoto(w, "taken")
    /\ job' = [job EXCEPT ![w] = t]
    /\ UNCHANGED <<callerVars, slot>>

TakeNothing(w) ==
    /\ PickUp(w)
    /\ take_nothing
    /\ UNCHANGED <<callerVars, wpc, job, slot>>

(* A task whose slot is no longer Pending is not started.                  *)
Start(w) ==
    /\ wpc[w] = "taken"
    /\ IF slot[job[w]] = "Pending"
       THEN SetSlot(job[w], "Running") /\ WorkerGoto(w, "running")
       ELSE WorkerGoto(w, "ran") /\ UNCHANGED slot
    /\ UNCHANGED <<stateVars, callerVars, spawned, job>>

(* User code returns, a value or an error, or panics; the result is        *)
(* published either way and no unwinding leaves run_one.                   *)
Complete_unwinds(w, status) ==
    /\ wpc[w] = "running"
    /\ SetSlot(job[w], status)
    /\ WorkerGoto(w, IF status = "Panicked" THEN "idle" ELSE "ran")
    /\ UNCHANGED <<stateVars, callerVars, spawned, job>>

Complete(w, status) ==
    /\ wpc[w] = "running"
    /\ SetSlot(job[w], status)
    /\ WorkerGoto(w, "ran")
    /\ UNCHANGED <<stateVars, callerVars, spawned, job>>

FinishRunning(w) ==
    /\ wpc[w] = "ran"
    /\ finish_running(job[w])
    /\ job' = [job EXCEPT ![w] = NoTask]
    /\ WorkerGoto(w, IF queue = {} THEN "idle" ELSE "spawning")
    /\ UNCHANGED <<callerVars, spawned, slot>>

SpawnSuccessor_lost(w) ==
    /\ wpc[w] = "spawning"
    /\ WorkerGoto(w, "idle")
    /\ UNCHANGED <<stateVars, callerVars, spawned, job, slot>>

SpawnSuccessor(w) ==
    /\ wpc[w] = "spawning"
    /\ spawned' = spawned + 1
    /\ WorkerGoto(w, "idle")
    /\ UNCHANGED <<stateVars, callerVars, job, slot>>

-----------------------------------------------------------------------------
Init ==
    /\ StateInit
    /\ pc = [c \in Callers |-> "idle"]
    /\ left = [c \in Callers |-> 0]
    /\ owned = [c \in Callers |-> {}]
    /\ target = [c \in Callers |-> NoTask]
    /\ answer = [c \in Callers |-> "none"]
    /\ spawned = 0
    /\ wpc = [w \in Workers |-> "idle"]
    /\ job = [w \in Workers |-> NoTask]
    /\ slot = [t \in TaskIds |-> "Unsubmitted"]

(* A caller starts a call, or goes on with the one it is in.               *)
Call(c) ==
    \/ SubmitAccepted(c)
    \/ SubmitRefused(c)
    \/ \E t \in TaskIds :
          \/ CancelOwned(c, t)
          \/ CancelInProgress(c, t)
          \/ CancelAbsent(c, t, "absent")
          \/ CancelAbsent(c, t, "absent_endpoint")
    \/ Shutdown(c)
    \/ Stop(c)

(* A wait may begin in any of these steps, from idle, or go on in it.      *)
Wait(c) ==
    \/ WaitObserves(c)
    \/ WaitParks(c, "waiting")
    \/ WaitParks(c, "waiting_for")
    \/ WaitExpires(c)
    \/ WaitTimesOut(c)

Continue(c) ==
    \/ Dispatch(c)
    \/ ReturnHandle(c)
    \/ AnswerFromStatus(c)
    \/ EndpointRunning(c)
    \/ EndpointNotRunning(c)
    \/ EndpointCancel(c)
    \/ CancelJob(c)
    \/ \E t \in TaskIds : FinishCancelling(c, t)

Work(w) ==
    \/ \E t \in TaskIds : TakeNext(w, t)
    \/ TakeNothing(w)
    \/ Start(w)
    \/ \E status \in Completed : Complete(w, status)
    \/ FinishRunning(w)
    \/ SpawnSuccessor(w)

Next ==
    \/ \E c \in Callers : Call(c) \/ Wait(c) \/ Continue(c)
    \/ \E w \in Workers : Work(w)

Spec == Init /\ [][Next]_vars

(* A thread inside a call goes on, the pool runs what was spawned, user    *)
(* code returns, and deadlines pass.  Nobody has to start a call.          *)
Fairness ==
    /\ \A c \in Callers :
          WF_vars(Continue(c) \/ (pc[c] \in Waiting /\ Wait(c)))
    /\ \A w \in Workers : WF_vars(Work(w))

FairSpec == Spec /\ Fairness

-----------------------------------------------------------------------------
TypeOK ==
    /\ StateTypeOK
    /\ pc \in [Callers -> CallerPCs]
    /\ left \in [Callers -> 0 .. NumThreads]
    /\ owned \in [Callers -> SUBSET TaskIds]
    /\ target \in [Callers -> TaskIds \union {NoTask}]
    /\ answer \in [Callers -> Answers]
    /\ spawned \in 0 .. NumThreads
    /\ wpc \in [Workers -> WorkerPCs]
    /\ job \in [Workers -> TaskIds \union {NoTask}]
    /\ slot \in [TaskIds -> Terminal \union {"Unsubmitted", "Pending", "Running"}]

Promised == {p \in Callers \X (1 .. NumThreads) : p[2] <= left[p[1]]}
Busy == {w \in Workers : wpc[w] # "idle"}

(* Every reservation counted in `scheduled` is exactly one closure: still  *)
(* to be spawned by the caller that reserved it, waiting in the pool, or   *)
(* on a worker.  None leaks and none is released twice, so the saturating  *)
(* subtractions never saturate (admit, dispatch, take_next, run_one).      *)
ReservationsConserved ==
    scheduled = Cardinality(Promised) + spawned + Cardinality(Busy)

(* The closures on their way meet the demand and no more: as many workers  *)
(* as there are tasks waiting for one and free for them have a closure     *)
(* coming, whoever still has to spawn it, and every closure that comes     *)
(* finds a worker without a job, so that no task waits for another one to  *)
(* end while a worker is free (admit, finish_running, build).              *)
Coming ==
    Cardinality(Promised) + spawned + Cardinality({w \in Busy : wpc[w] = "spawning"})
Free == {w \in Workers : wpc[w] \notin Holding}

ClosuresMeetDemand ==
    /\ Min2(Cardinality(queue), Cardinality(Free)) <= Coming
    /\ Coming <= Cardinality(Free)

(* The job of an accepted task has exactly one owner: the queue, the one   *)
(* worker that took it, or the one call that cancels it; when it has left  *)
(* all three its result is final.  Stops, cancellations and workers that   *)
(* race for a queued job never both get it.                                *)
SingleOwner ==
    /\ \A w \in Workers : job[w] # NoTask <=> wpc[w] \in Holding
    /\ \A w1, w2 \in Workers : w1 # w2 /\ job[w1] = job[w2] => job[w1] = NoTask
    /\ \A c1, c2 \in Callers : c1 # c2 => owned[c1] \intersect owned[c2] = {}
    /\ running_tasks = {job[w] : w \in Workers} \ {NoTask}
    /\ cancelling = UNION {owned[c] : c \in Callers}
    /\ \A t \in queue : slot[t] = "Pending"
    /\ \A t \in 0 .. next_task_id - 1 :
          t \notin queue \union running_tasks \union cancelling
             => slot[t] \in Terminal

(* Once the service reports termination, every accepted task has its final *)
(* result, no worker holds a job and no call still runs the destructors of *)
(* a cancelled one (lifecycle, occupied).                                  *)
TerminatedIsQuiescent ==
    IsTerminated =>
       /\ \A t \in TaskIds : slot[t] \in Terminal \union {"Unsubmitted"}
       /\ \A w \in Workers : wpc[w] \notin Holding
       /\ \A c \in Callers : owned[c] = {}

(* What a call answered stays true for good: a task reported cancelled     *)
(* never runs, one reported running or finished is never cancelled by a    *)
(* later call, a termination that a waiter observed is not revoked, and a  *)
(* refusal for shutdown is followed by no acceptance.                      *)
AnswersSound ==
    \A c \in Callers :
       LET t == target[c] IN
       /\ answer[c] = "Cancelled"
             => t \in cancelling \/ slot[t] = "Cancelled"
       /\ answer[c] = "AlreadyRunning"
             => t \in running_tasks \/ slot[t] \in Completed
       /\ answer[c] = "AlreadyFinished" => slot[t] \in Terminal
       /\ answer[c] = "Terminated" => IsTerminated
       /\ answer[c] = "Stopped" => lifecycle = "Stopping"
       /\ answer[c] \in {"Shutdown", "ShutDown"} => lifecycle # "Running"

(* The fallback of a cancellation endpoint never withdraws a task that a   *)
(* worker has taken and not started: when it reaches the result slot, the  *)
(* slot is final (cancellation_handle, is_running_task).                   *)
EndpointFallbackHarmless ==
    \A c \in Callers :
       pc[c] = "endpoint_cancel" => slot[target[c]] \in Terminal

-----------------------------------------------------------------------------
(* Every accepted task gets a final result, run or cancelled.              *)
AcceptedTasksComplete ==
    \A t \in TaskIds : slot[t] = "Pending" ~> slot[t] \in Terminal

(* A full service gets room again: neither a panic of user code nor a race *)
(* of cancellations keeps a task counted for ever.                         *)
CapacityReturns == occupied = TaskCapacity ~> occupied < TaskCapacity

(* A shutdown or a stop leads to termination.                              *)
ShutdownTerminates == lifecycle # "Running" ~> IsTerminated

(* Who waits for termination returns after a shutdown or a stop, and who   *)
(* waits with a timeout returns in any case.                               *)
WaitersReturn ==
    \A c \in Callers :
       /\ pc[c] = "waiting" /\ lifecycle # "Running" ~> pc[c] = "idle"
       /\ pc[c] = "waiting_for" ~> pc[c] = "idle"

-----------------------------------------------------------------------------
(* The service implements the contract of module ExecutorContract: the     *)
(* collection a task is in is its phase, a published slot is its result,   *)
(* and the lifecycle is the one derived from the counters.                 *)
ResultOf(t) == IF slot[t] \in Terminal THEN slot[t] ELSE "None"

Contract == INSTANCE ExecutorContract
    WITH Tasks <- TaskIds,
         Detached <- {},
         observed <- ObservedLifecycle,
         phase <- [t \in TaskIds |-> PhaseOf(t)],
         result <- [t \in TaskIds |-> ResultOf(t)]

(* Every behaviour of the service is one the contract allows, and under    *)
(* the fairness of threads and pool every accepted task makes the progress *)
(* the contract promises.                                                  *)
ImplementsContract == Contract!ContractSpec

(* The callers and closures keep the rules under which module              *)
(* RayonExecutorServiceState was checked: no closure takes a job without a *)
(* reservation, nobody finishes a task it does not own.                    *)
KeepsStateProtocol == StateSpec
=============================================================================
