-------------------- MODULE RayonExecutorServiceProgress --------------------
(***************************************************************************)
(* Why the service never gets stuck, as properties of states and steps.    *)
(*                                                                         *)
(* The liveness of module RayonExecutorService rests on three facts:       *)
(* whoever has something to do can do it (GoesOnIsEnabled), when nobody    *)
(* has, everything accepted is finished and every reservation is back      *)
(* (QuietIsClean), and no thread goes on without using up a finite stock   *)
(* of work (GoingOnSpendsWork), so that only new calls keep a service      *)
(* busy.  Fairness adds that a thread which can go on does.                *)
(***************************************************************************)
EXTENDS RayonExecutorService

(* A thread inside a call waits for nobody, except in the wait set of the  *)
(* condition variable; a worker goes on with its job or picks one up.      *)
CallerGoesOn(c) ==
    /\ pc[c] # "idle"
    /\ pc[c] \in Waiting => c \notin parked

WorkerGoesOn(w) == wpc[w] # "idle" \/ spawned > 0

GoOn(c) == Continue(c) \/ (pc[c] \in Waiting /\ Wait(c))

Quiet ==
    /\ \A c \in Callers : ~CallerGoesOn(c)
    /\ \A w \in Workers : ~WorkerGoesOn(w)

-----------------------------------------------------------------------------
(* The guards of the steps of a call that has begun, in the order of       *)
(* GoOn, and of those of a worker, in the order of Work.                   *)
CanGoOn(c) ==
    \/ pc[c] = "dispatching" /\ (left[c] > 0 \/ left[c] = 0)
    \/ pc[c] \in {"absent", "absent_endpoint", "endpoint_cancel"}
    \/ pc[c] \in {"claimed", "cleaning"} /\ \E t \in TaskIds : FirstOwned(c, t)
    \/ pc[c] \in Waiting /\ (c \notin parked \/ pc[c] = "waiting_for")

CanWork(w) ==
    \/ /\ wpc[w] = "idle" /\ spawned > 0
       /\ queue = {} \/ \E t \in TaskIds : Oldest(t)
    \/ wpc[w] \in Holding \union {"spawning"}

(* No call and no worker is held up: each has a step whose guard holds, as *)
(* a cancellation that goes on always owns a job to go on with, and a      *)
(* closure finds a front of the queue or an empty one (cancel, stop,       *)
(* dispatch, take_next).                                                   *)
NobodyIsHeldUp ==
    /\ \A c \in Callers : CallerGoesOn(c) => CanGoOn(c)
    /\ \A w \in Workers : WorkerGoesOn(w) => CanWork(w)

(* No step of a call or of a worker waits for another thread, but for the  *)
(* wait set: no status, destructor or reservation of somebody else holds   *)
(* up a cancellation, a stop or a worker (cancel, stop, run_one).  The     *)
(* guards above are those of the actions.                                  *)
GoesOnIsEnabled ==
    /\ NobodyIsHeldUp
    /\ \A c \in Callers : CanGoOn(c) <=> ENABLED GoOn(c)
    /\ \A w \in Workers : CanWork(w) <=> ENABLED Work(w)

(* When no thread has anything to do, no task is left behind: whatever was *)
(* accepted has its final result, the whole capacity and every reservation *)
(* is free again, and only waiters of an open service are parked.  A       *)
(* queued task that no closure will look at would break it, as would a     *)
(* reservation that nobody gives back or a waiter that nobody wakes        *)
(* (dispatch, take_next, finish_running, notify_if_terminated_locked).     *)
QuietIsClean ==
    Quiet =>
       /\ \A t \in 0 .. next_task_id - 1 : slot[t] \in Terminal
       /\ occupied = 0
       /\ scheduled = 0
       /\ parked # {} => lifecycle = "Running"

-----------------------------------------------------------------------------
(* The stock of work: the queued tasks, then the tasks that a worker or a  *)
(* cancelling call has, then the steps left to workers and to dispatch     *)
(* loops, then the closures in the pool, then the steps left to calls.     *)
(* What comes first may only be used up; a step that uses it may add to    *)
(* what follows, as a notify_all makes work for all waiters.               *)
InHand == running_tasks \union cancelling

WorkerStep == [idle |-> 0, ran |-> 1, running |-> 2, taken |-> 3, spawning |-> 1]
WorkerSteps == {s \in Workers \X (1 .. 3) : s[2] <= WorkerStep[wpc[s[1]]]}

(* A waiter has one step more when it is not parked.                       *)
CallStep == [idle |-> 0, dispatching |-> 1, claimed |-> 2, cleaning |-> 1,
             absent |-> 1, absent_endpoint |-> 2, endpoint_cancel |-> 1,
             waiting |-> 1, waiting_for |-> 2, expired |-> 0]
Unparked(c) == IF pc[c] \in Waiting /\ c \notin parked THEN 1 ELSE 0
CallSteps == {s \in Callers \X (1 .. 3) :
                 s[2] <= CallStep[pc[s[1]]] + Unparked(s[1])}

Fewer(S, T) == S \subseteq T /\ S # T

SpendsWork ==
    \/ Fewer(queue', queue)
    \/ queue' = queue /\ Fewer(InHand', InHand)
    \/ /\ UNCHANGED <<queue, InHand>>
       /\ \/ Fewer(Promised', Promised) /\ UNCHANGED WorkerSteps
          \/ Fewer(WorkerSteps', WorkerSteps) /\ UNCHANGED Promised
    \/ /\ UNCHANGED <<queue, InHand, Promised, WorkerSteps>>
       /\ spawned' < spawned
    \/ /\ UNCHANGED <<queue, InHand, Promised, WorkerSteps, spawned>>
       /\ Fewer(CallSteps', CallSteps)

(* No thread spins: each step in which a thread goes on with a call or a   *)
(* worker works uses up some of the stock, all of whose parts are finite.  *)
(* Closures that find no job do not come back, woken waiters that park     *)
(* again do so once for each task that ended, and a worker that hands over *)
(* to a successor has finished a task for it (run_one, wait_termination,   *)
(* wait_termination_for, dispatch).                                        *)
GoingOnSpendsWork ==
    [][(\E c \in Callers : GoOn(c)) \/ (\E w \in Workers : Work(w))
          => SpendsWork]_vars
=============================================================================
