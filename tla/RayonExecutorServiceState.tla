---------------------- MODULE RayonExecutorServiceState ----------------------
(***************************************************************************)
(* The state every clone of a RayonExecutorService shares: the record that *)
(* RayonExecutorServiceState keeps behind one mutex, and the condition     *)
(* variable `terminated` that goes with it.                                *)
(*                                                                         *)
(* Each method of the type takes the mutex once, so each is one action     *)
(* here, over the fields of the record under their own names.  StateNext   *)
(* composes the methods with the rules their callers must keep: only a     *)
(* scheduled closure takes a job, and only the owner of a task finishes    *)
(* it.  Module RayonExecutorService models those callers.                  *)
(*                                                                         *)
(* The asynchronous notifications the methods send after unlocking exist   *)
(* only with the feature async-wait, which is off by default; this module  *)
(* is the default build, where notify_async_changes does nothing.          *)
(***************************************************************************)
EXTENDS Naturals, FiniteSets

CONSTANTS
    TaskCapacity,  \* accepted tasks that may be unfinished at the same time
    NumThreads,    \* closures that may be scheduled at the same time
    MaxTaskId,     \* usize::MAX: the counter value from which no id is left
    Callers        \* threads that may wait for termination

(* The builder refuses a capacity of zero and a pool of zero threads.      *)
ASSUME ConfigAssumption ==
    /\ TaskCapacity \in Nat \ {0}
    /\ NumThreads \in Nat \ {0}
    /\ MaxTaskId \in Nat \ {0}

VARIABLES
    lifecycle,      \* "Terminated" is derived, never stored
    next_task_id,
    running,        \* a counter beside the set of the running tasks' ids
    running_tasks,
    scheduled,      \* closures spawned or promised and not yet released
    queue,          \* ids of the queued jobs: the keys of an ordered map
    cancelling,     \* ids of the jobs being cancelled outside the mutex
    parked          \* threads blocked on the condition variable

stateVars == <<lifecycle, next_task_id, running, running_tasks, scheduled,
               queue, cancelling, parked>>

TaskIds == 0 .. MaxTaskId - 1
Lifecycles == {"Running", "ShuttingDown", "Stopping"}

Min2(a, b) == IF a <= b THEN a ELSE b
saturating_sub(a, b) == IF b <= a THEN a - b ELSE 0

-----------------------------------------------------------------------------
(* What the methods read.  A name with a suffix is the definition below it *)
(* with a mistake a change to the code could make; the runs must notice.   *)

occupied_less_cleanup == Cardinality(queue) + running
occupied == Cardinality(queue) + running + Cardinality(cancelling)

IsTerminated == lifecycle # "Running" /\ occupied = 0

ObservedLifecycle == IF IsTerminated THEN "Terminated" ELSE lifecycle

(* Where an accepted task is, for a user: the collection that has its id.  *)
PhaseOf(t) ==
    IF t >= next_task_id THEN "New"
    ELSE IF t \in queue THEN "Queued"
    ELSE IF t \in running_tasks THEN "Active"
    ELSE IF t \in cancelling THEN "Withdrawn"
    ELSE "Done"

AdmitOutcome_one_too_many ==
    IF lifecycle # "Running" THEN "Shutdown"
    ELSE IF occupied > TaskCapacity THEN "Saturated"
    ELSE IF next_task_id = MaxTaskId THEN "Exhausted"
    ELSE "Accepted"

AdmitOutcome_unchecked_id ==
    IF lifecycle # "Running" THEN "Shutdown"
    ELSE IF occupied >= TaskCapacity THEN "Saturated"
    ELSE "Accepted"

(* The checks of admit, in its order.  "Exhausted" is the panic of         *)
(* checked_add; it unwinds with the record untouched.                      *)
AdmitOutcome ==
    IF lifecycle # "Running" THEN "Shutdown"
    ELSE IF occupied >= TaskCapacity THEN "Saturated"
    ELSE IF next_task_id = MaxTaskId THEN "Exhausted"
    ELSE "Accepted"

DispatchCount_before_insert ==
    Min2(Cardinality(queue), saturating_sub(NumThreads, scheduled))

(* Closures an admission reserves; the new job is already in the queue.    *)
DispatchCount ==
    Min2(Cardinality(queue \union {next_task_id}),
         saturating_sub(NumThreads, scheduled))

Oldest_reversed(t) == t \in queue /\ \A u \in queue : u <= t
Oldest(t) == t \in queue /\ \A u \in queue : t <= u

CancelDisposition_running(t) ==
    IF t \in queue THEN "Owned"
    ELSE IF t \in cancelling \union running_tasks THEN "InProgress"
    ELSE "Absent"

CancelDisposition(t) ==
    IF t \in queue THEN "Owned"
    ELSE IF t \in cancelling THEN "InProgress"
    ELSE "Absent"

-----------------------------------------------------------------------------
(* The methods.                                                            *)

notify_never == UNCHANGED parked

notify_if_terminated_locked ==
    parked' = IF IsTerminated' THEN {} ELSE parked

admit ==
    /\ AdmitOutcome = "Accepted"
    /\ queue' = queue \union {next_task_id}
    /\ next_task_id' = next_task_id + 1
    /\ scheduled' = scheduled + DispatchCount
    /\ UNCHANGED <<lifecycle, running, running_tasks, cancelling, parked>>

take_next_peeks(t) ==
    /\ Oldest(t)
    /\ running' = running + 1
    /\ running_tasks' = running_tasks \union {t}
    /\ UNCHANGED <<lifecycle, next_task_id, scheduled, queue, cancelling,
                   parked>>

take_next(t) ==
    /\ Oldest(t)
    /\ queue' = queue \ {t}
    /\ running' = running + 1
    /\ running_tasks' = running_tasks \union {t}
    /\ UNCHANGED <<lifecycle, next_task_id, scheduled, cancelling, parked>>

(* The branch of take_next that finds no job and gives the reservation up. *)
take_nothing ==
    /\ queue = {}
    /\ scheduled' = saturating_sub(scheduled, 1)
    /\ UNCHANGED <<lifecycle, next_task_id, running, running_tasks, queue,
                   cancelling>>
    /\ notify_if_terminated_locked

ReleaseIfIdle_always == saturating_sub(scheduled, 1)
ReleaseIfIdle == IF queue = {} THEN saturating_sub(scheduled, 1) ELSE scheduled

finish_running(t) ==
    /\ running_tasks' = running_tasks \ {t}
    /\ running' = saturating_sub(running, 1)
    /\ scheduled' = ReleaseIfIdle
    /\ UNCHANGED <<lifecycle, next_task_id, queue, cancelling>>
    /\ notify_if_terminated_locked

(* cancel_pending_task where it changes the record; the other dispositions *)
(* only report.                                                            *)
cancel_pending_task(t) ==
    /\ CancelDisposition(t) = "Owned"
    /\ queue' = queue \ {t}
    /\ cancelling' = cancelling \union {t}
    /\ UNCHANGED <<lifecycle, next_task_id, running, running_tasks, scheduled,
                   parked>>

finish_cancelling(t) ==
    /\ cancelling' = cancelling \ {t}
    /\ parked' = {}              \* notify_all, terminated or not
    /\ UNCHANGED <<lifecycle, next_task_id, running, running_tasks, scheduled,
                   queue>>

shutdown_softens ==
    /\ lifecycle' = "ShuttingDown"
    /\ UNCHANGED <<next_task_id, running, running_tasks, scheduled, queue,
                   cancelling>>
    /\ notify_if_terminated_locked

shutdown ==
    /\ lifecycle' = IF lifecycle = "Running" THEN "ShuttingDown" ELSE lifecycle
    /\ UNCHANGED <<next_task_id, running, running_tasks, scheduled, queue,
                   cancelling>>
    /\ notify_if_terminated_locked

stop_leaves_queue ==
    /\ lifecycle' = "Stopping"
    /\ cancelling' = cancelling \union queue
    /\ UNCHANGED <<next_task_id, running, running_tasks, scheduled, queue>>
    /\ notify_if_terminated_locked

stop ==
    /\ lifecycle' = "Stopping"
    /\ queue' = {}
    /\ cancelling' = cancelling \union queue
    /\ UNCHANGED <<next_task_id, running, running_tasks, scheduled>>
    /\ notify_if_terminated_locked

(* The two waits: the predicate is read and the thread parked under one    *)
(* hold of the mutex; a timed wait may also leave the wait set by itself.  *)
park(c) ==
    /\ ~IsTerminated
    /\ parked' = parked \union {c}
    /\ UNCHANGED <<lifecycle, next_task_id, running, running_tasks, scheduled,
                   queue, cancelling>>

unpark_on_timeout(c) ==
    /\ c \in parked
    /\ parked' = parked \ {c}
    /\ UNCHANGED <<lifecycle, next_task_id, running, running_tasks, scheduled,
                   queue, cancelling>>

-----------------------------------------------------------------------------
StateInit ==
    /\ lifecycle = "Running"
    /\ next_task_id = 0
    /\ running = 0
    /\ running_tasks = {}
    /\ scheduled = 0
    /\ queue = {}
    /\ cancelling = {}
    /\ parked = {}

(* A reservation that no running task uses belongs to a closure that has   *)
(* not taken a job yet: only such a closure calls take_next.               *)
IdleReservation == running < scheduled

StateNext ==
    \/ admit
    \/ IdleReservation /\ \E t \in queue : take_next(t)
    \/ IdleReservation /\ take_nothing
    \/ \E t \in running_tasks : finish_running(t)
    \/ \E t \in queue : cancel_pending_task(t)
    \/ \E t \in cancelling : finish_cancelling(t)
    \/ shutdown
    \/ stop
    \/ \E c \in Callers : park(c)
    \/ \E c \in Callers : unpark_on_timeout(c)

StateSpec == StateInit /\ [][StateNext]_stateVars

-----------------------------------------------------------------------------
StateTypeOK ==
    /\ lifecycle \in Lifecycles
    /\ next_task_id \in 0 .. MaxTaskId
    /\ running \in Nat
    /\ running_tasks \in SUBSET TaskIds
    /\ scheduled \in Nat
    /\ queue \in SUBSET TaskIds
    /\ cancelling \in SUBSET TaskIds
    /\ parked \in SUBSET Callers

(* Every accepted task is in at most one of the three collections, its id  *)
(* was handed out, and the counter `running` that finish_running decreases *)
(* and the set `running_tasks` that is_running_task reads never drift      *)
(* apart.                                                                  *)
OwnershipConsistent ==
    /\ queue \intersect running_tasks = {}
    /\ queue \intersect cancelling = {}
    /\ running_tasks \intersect cancelling = {}
    /\ \A t \in queue \union running_tasks \union cancelling :
          t < next_task_id
    /\ running = Cardinality(running_tasks)

(* Queued, running and cancelling tasks together never exceed the          *)
(* configured capacity, whatever admissions, stops, cancellations and      *)
(* completions interleave (admit, occupied).                               *)
CapacityRespected == occupied <= TaskCapacity

(* The reservations cover the work: as long as a thread is free, every     *)
(* queued and running task has a scheduled closure to run it; and the pool *)
(* is never promised more closures than it has threads.  It is the fact    *)
(* the debug_assert of admit and the hand-over in finish_running rely on.  *)
WorkIsReserved ==
    /\ running <= scheduled
    /\ scheduled <= NumThreads
    /\ Min2(NumThreads, running + Cardinality(queue)) <= scheduled

(* No thread sleeps on the condition variable of a terminated service:     *)
(* every method that can make the predicate true wakes the waiters         *)
(* (notify_if_terminated_locked).                                          *)
NoLostTerminationWakeup == IsTerminated => parked = {}

(* Termination is final, and no task is accepted once a shutdown or a stop *)
(* has begun (admit, shutdown, stop).                                      *)
ClosedForGood ==
    [][lifecycle # "Running" =>
          /\ lifecycle' # "Running"
          /\ next_task_id' = next_task_id
          /\ IsTerminated => IsTerminated']_stateVars

-----------------------------------------------------------------------------
(* The contract as far as the shared state alone can keep it: it knows     *)
(* where a task is and nothing of its result.                              *)
TaskLife == INSTANCE ExecutorContract
    WITH Tasks <- TaskIds,
         Detached <- TaskIds,
         observed <- ObservedLifecycle,
         phase <- [t \in TaskIds |-> PhaseOf(t)],
         result <- [t \in TaskIds |-> "None"]

(* Whoever calls the methods, a task goes through its life once and in one *)
(* direction, tasks start in order and on a free thread, a stop spares no  *)
(* queued task and is not taken back by a later shutdown, and the last     *)
(* task to end terminates a closed service (admit to finish_cancelling,    *)
(* shutdown, stop, lifecycle).                                             *)
StateKeepsContract == TaskLife!ContractSafety
=============================================================================
