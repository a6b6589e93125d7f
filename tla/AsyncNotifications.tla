------------------------- MODULE AsyncNotifications -------------------------
(***************************************************************************)
(* The feature async-wait: what the methods of the shared state publish    *)
(* after they have released the mutex, and the futures that wait for it.   *)
(*                                                                         *)
(* A method that may free capacity or end the service changes the record   *)
(* under the mutex, drops the guard, and only then advances the watch      *)
(* channels and calls the wakers registered with them, on its own thread.  *)
(* Between any two of these steps other threads run, so publications       *)
(* arrive late and out of order.  What the thread owes after them (the     *)
(* successor of a finished closure, the remaining jobs of a stop) is here  *)
(* too: it is lost if a panic unwinds out of the publication.              *)
(*                                                                         *)
(* A watch channel is modelled by what its receivers can tell apart: the   *)
(* boolean of termination_tx, and for capacity_tx the receivers that have  *)
(* not seen the last version.  The generation number is not kept: it wraps *)
(* around, but tokio compares versions, never values.                      *)
(***************************************************************************)
EXTENDS RayonExecutorServiceState

CONSTANTS
    Threads,     \* threads that call the service or run its closures
    Producers,   \* tasks in the retry loop over capacity_changes
    Awaiters,    \* tasks in await_termination
    Panicky,     \* futures whose waker panics
    Reentrant,   \* futures whose waker calls back into the service
    Careless     \* producers that mark hints as seen whenever they like

(* A pool has at least one thread.                                         *)
ASSUME NotificationAssumption ==
    /\ IsFiniteSet(Threads) /\ Threads # {}
    /\ Threads \intersect Awaiters = {}
    /\ Producers \intersect Awaiters = {}

VARIABLES
    holding,         \* the thread that holds the mutex between two steps
    pending,         \* per publisher: what it has still to publish
    waking,          \* per publisher: futures whose wakers it has still to call
    spawned,         \* closures in the pool that have not taken a job yet
    successor,       \* threads that have to spawn a successor closure
    jobs,            \* per thread: claimed jobs it has still to cancel
    place,           \* per future: where in its loop it is
    unseen,          \* producers whose receiver has an unseen version
    borrowed,        \* producers that hold a Ref, a read lock of capacity_tx
    termination_tx   \* the value of the termination channel

threadVars == <<holding, pending, waking, spawned, successor, jobs>>
futureVars == <<place, unseen, borrowed, termination_tx>>
vars == <<stateVars, threadVars, futureVars>>

Futures == Producers \union Awaiters

(* An awaiter that finds the service terminated publishes, too.            *)
Publishers == Threads \union Awaiters

Publishing(p) == pending[p] # {} \/ waking[p] # {}
Quiet(p) == p \notin holding /\ ~Publishing(p)
Free(p) == Quiet(p) /\ p \notin successor /\ jobs[p] = {}

MutexFree == holding = {}

-----------------------------------------------------------------------------
(* The methods of the state, followed by what they publish.                *)

IsTerminated_less_cleanup == lifecycle # "Running" /\ occupied_less_cleanup = 0

NotifyAfter_less_cleanup(p, channels) ==
    /\ MutexFree
    /\ holding' = {p}
    /\ pending' = [pending EXCEPT ![p] = channels \union
                     (IF IsTerminated_less_cleanup' THEN {"termination"} ELSE {})]
    /\ UNCHANGED <<waking, futureVars>>

(* The arguments of notify_async_changes are fixed under the mutex; the    *)
(* guard is dropped by the next step of the thread.                        *)
NotifyAfter(p, channels) ==
    /\ MutexFree
    /\ holding' = {p}
    /\ pending' = [pending EXCEPT ![p] = channels \union
                     (IF IsTerminated' THEN {"termination"} ELSE {})]
    /\ UNCHANGED <<waking, futureVars>>

(* Module RayonExecutorService has the spawns of dispatch as own steps.    *)
AdmitAndDispatch ==
    /\ admit
    /\ spawned' = spawned + DispatchCount
    /\ UNCHANGED <<holding, pending, waking, successor, jobs>>

Submit(p) ==
    /\ MutexFree /\ Free(p)
    /\ AdmitAndDispatch
    /\ UNCHANGED futureVars

TakeNext_unspawned ==
    /\ MutexFree
    /\ \E t \in queue : take_next(t)
    /\ UNCHANGED <<threadVars, futureVars>>

TakeNext ==
    /\ MutexFree /\ spawned > 0
    /\ \E t \in queue : take_next(t)
    /\ spawned' = spawned - 1
    /\ UNCHANGED <<holding, pending, waking, successor, jobs, futureVars>>

TakeNothing(p) ==
    /\ Free(p) /\ spawned > 0
    /\ take_nothing
    /\ spawned' = spawned - 1
    /\ NotifyAfter(p, {})
    /\ UNCHANGED <<successor, jobs>>

FinishRunning(p, t) ==
    /\ Free(p)
    /\ finish_running(t)
    /\ successor' = IF queue = {} THEN successor ELSE successor \union {p}
    /\ NotifyAfter(p, {"capacity"})
    /\ UNCHANGED <<spawned, jobs>>

CancelPending(p, t) ==
    /\ MutexFree /\ Free(p)
    /\ cancel_pending_task(t)
    /\ jobs' = [jobs EXCEPT ![p] = {t}]
    /\ UNCHANGED <<holding, pending, waking, spawned, successor, futureVars>>

FinishCancelling_silent(p, t) ==
    /\ t \in jobs[p] /\ Quiet(p)
    /\ finish_cancelling(t)
    /\ jobs' = [jobs EXCEPT ![p] = @ \ {t}]
    /\ NotifyAfter(p, {})
    /\ UNCHANGED <<spawned, successor>>

FinishCancelling(p, t) ==
    /\ t \in jobs[p] /\ Quiet(p)
    /\ finish_cancelling(t)
    /\ jobs' = [jobs EXCEPT ![p] = @ \ {t}]
    /\ NotifyAfter(p, {"capacity"})
    /\ UNCHANGED <<spawned, successor>>

Shutdown_hint_only(p) ==
    /\ MutexFree /\ Free(p)
    /\ shutdown
    /\ holding' = {p}
    /\ pending' = [pending EXCEPT ![p] = {"capacity"}]
    /\ UNCHANGED <<waking, spawned, successor, jobs, futureVars>>

Shutdown(p) ==
    /\ Free(p)
    /\ shutdown
    /\ NotifyAfter(p, {"capacity"})
    /\ UNCHANGED <<spawned, successor, jobs>>

Stop(p) ==
    /\ Free(p)
    /\ stop
    /\ jobs' = [jobs EXCEPT ![p] = queue]
    /\ NotifyAfter(p, {"capacity"})
    /\ UNCHANGED <<spawned, successor>>

-----------------------------------------------------------------------------
(* drop(inner), notify_async_changes, and the calls of the wakers.         *)

Unlock(p) ==
    /\ p \in holding /\ waking[p] = {}
    /\ holding' = {}
    /\ UNCHANGED <<stateVars, pending, waking, spawned, successor, jobs,
                   futureVars>>

MayPublish_locked(p) == TRUE
MayPublish(p) == p \notin holding

(* Wakers that sleep in a channel; one that is being called has left it.   *)
Registered(S) ==
    {a \in S : place[a] = "asleep" /\ \A p \in Publishers : a \notin waking[p]}

Subscribed == {a \in Producers : place[a] # "idle"}

(* send_modify waits for the readers of the channel, advances the version, *)
(* and takes the registered wakers.                                        *)
SendCapacity(p) ==
    /\ MayPublish(p)
    /\ "capacity" \in pending[p] /\ waking[p] = {}
    /\ borrowed = {}
    /\ pending' = [pending EXCEPT ![p] = @ \ {"capacity"}]
    /\ unseen' = Subscribed
    /\ waking' = [waking EXCEPT ![p] = Registered(Producers)]
    /\ UNCHANGED <<stateVars, holding, spawned, successor, jobs, place, borrowed,
                   termination_tx>>

SendTermination(p) ==
    /\ MayPublish(p)
    /\ pending[p] = {"termination"} /\ waking[p] = {}
    /\ pending' = [pending EXCEPT ![p] = {}]
    /\ termination_tx' = TRUE
    /\ waking' = [waking EXCEPT ![p] =
                    IF termination_tx THEN {} ELSE Registered(Awaiters)]
    /\ UNCHANGED <<stateVars, holding, spawned, successor, jobs, place, unseen,
                   borrowed>>

WakersLeft_unwinding(p, a) == IF a \in Panicky THEN {} ELSE waking[p] \ {a}

(* PanicIsolatingWake: a panic of one waker leaves the others to be called. *)
WakersLeft(p, a) == waking[p] \ {a}

Wake_uncaught(p, a) ==
    /\ a \in waking[p]
    /\ a \in Reentrant => MutexFree
    /\ place' = [place EXCEPT ![a] = "poll"]
    /\ waking' = [waking EXCEPT ![p] = WakersLeft_unwinding(p, a)]
    /\ pending' = [pending EXCEPT ![p] = IF a \in Panicky THEN {} ELSE @]
    /\ successor' = IF a \in Panicky THEN successor \ {p} ELSE successor
    /\ jobs' = [jobs EXCEPT ![p] = IF a \in Panicky THEN {} ELSE @]
    /\ UNCHANGED <<stateVars, holding, spawned, unseen, borrowed, termination_tx>>

(* The publisher calls one waker.  What a reentrant one does in the        *)
(* service is a step of another thread; that it must be able to take the   *)
(* mutex before it returns is the guard.                                   *)
Wake(p, a) ==
    /\ a \in waking[p]
    /\ a \in Reentrant => MutexFree
    /\ place' = [place EXCEPT ![a] = "poll"]
    /\ waking' = [waking EXCEPT ![p] = WakersLeft(p, a)]
    /\ UNCHANGED <<stateVars, holding, pending, spawned, successor, jobs, unseen,
                   borrowed, termination_tx>>

(* run_one after finish_running has returned true.                         *)
SpawnSuccessor(p) ==
    /\ p \in successor /\ Quiet(p)
    /\ successor' = successor \ {p}
    /\ spawned' = spawned + 1
    /\ UNCHANGED <<stateVars, holding, pending, waking, jobs, futureVars>>

-----------------------------------------------------------------------------
(* The retry loop: subscribe, submit, and after Saturated await changed(). *)

SubscribeCapacity(a) ==
    /\ MutexFree /\ place[a] = "idle"
    /\ place' = [place EXCEPT ![a] = "retry"]
    /\ unseen' = unseen \ {a}
    /\ UNCHANGED <<stateVars, threadVars, borrowed, termination_tx>>

(* The lock of the channel prefers a writer that waits for it.             *)
WriterWaits ==
    \E p \in Threads : "capacity" \in pending[p] /\ waking[p] = {} /\ MayPublish(p)

(* While it does not wait in changed() a task can use its receiver.        *)
HasReceiver(a) == place[a] \in {"retry", "saturated"}

MayMarkSeen_always(a) == TRUE

(* Nothing in the receiver keeps a task from marking the last version as   *)
(* seen after its attempt and then waiting for the next one: the hint that *)
(* it throws away may have been the last.  A careful task marks only if an *)
(* attempt follows; the careless ones are those that no property covers.   *)
MayMarkSeen(a) == place[a] = "retry" \/ a \in Careless

(* borrow, and with marks_seen borrow_and_update.                          *)
Borrow(a, marks_seen) ==
    /\ HasReceiver(a) /\ a \notin borrowed /\ ~WriterWaits
    /\ marks_seen => MayMarkSeen(a)
    /\ borrowed' = borrowed \union {a}
    /\ unseen' = IF marks_seen THEN unseen \ {a} ELSE unseen
    /\ UNCHANGED <<stateVars, threadVars, place, termination_tx>>

Release(a) ==
    /\ a \in borrowed
    /\ borrowed' = borrowed \ {a}
    /\ UNCHANGED <<stateVars, threadVars, place, unseen, termination_tx>>

(* mark_unchanged, and mark_changed, which makes changed() return at once. *)
Mark(a, seen) ==
    /\ HasReceiver(a) /\ a \notin borrowed
    /\ seen => MayMarkSeen(a)
    /\ unseen' = IF seen THEN unseen \ {a} ELSE unseen \union {a}
    /\ UNCHANGED <<stateVars, threadVars, place, borrowed, termination_tx>>

(* The loop ends and its receiver is dropped, any Ref before it.           *)
Leave(a) ==
    /\ place' = [place EXCEPT ![a] = "idle"]
    /\ unseen' = unseen \ {a}
    /\ borrowed' = borrowed \ {a}

RetryAccepted(a) ==
    /\ MutexFree /\ place[a] = "retry"
    /\ AdmitAndDispatch
    /\ Leave(a)
    /\ UNCHANGED termination_tx

RetryRefused(a) ==
    /\ MutexFree /\ place[a] = "retry"
    /\ AdmitOutcome \in {"Shutdown", "Exhausted"}
    /\ Leave(a)
    /\ UNCHANGED <<stateVars, threadVars, termination_tx>>

RetrySaturated(a) ==
    /\ MutexFree /\ place[a] = "retry"
    /\ AdmitOutcome = "Saturated"
    /\ place' = [place EXCEPT ![a] = "saturated"]
    /\ UNCHANGED <<stateVars, threadVars, unseen, borrowed, termination_tx>>

PollChanged_unmarked(a) ==
    /\ place[a] \in {"saturated", "poll"} /\ a \notin borrowed
    /\ place' = [place EXCEPT ![a] = IF a \in unseen THEN "retry" ELSE "asleep"]
    /\ UNCHANGED <<stateVars, threadVars, unseen, borrowed, termination_tx>>

(* changed(), begun after the attempt or polled again: compares the        *)
(* version and registers the waker in one step, as far as a sender can tell. *)
PollChanged(a) ==
    /\ place[a] \in {"saturated", "poll"} /\ a \notin borrowed
    /\ place' = [place EXCEPT ![a] = IF a \in unseen THEN "retry" ELSE "asleep"]
    /\ unseen' = unseen \ {a}
    /\ UNCHANGED <<stateVars, threadVars, borrowed, termination_tx>>

(* await_termination: subscribe, check under the mutex, repair, wait_for.  *)
AwaitTermination(a) ==
    /\ place[a] \in {"idle", "done"}
    /\ place' = [place EXCEPT ![a] = "check"]
    /\ UNCHANGED <<stateVars, threadVars, unseen, borrowed, termination_tx>>

CheckTermination_no_repair(a) ==
    /\ MutexFree /\ place[a] = "check"
    /\ place' = [place EXCEPT ![a] = "poll"]
    /\ UNCHANGED <<stateVars, threadVars, unseen, borrowed, termination_tx>>

CheckTermination(a) ==
    /\ MutexFree /\ place[a] = "check"
    /\ place' = [place EXCEPT ![a] = "poll"]
    /\ pending' = [pending EXCEPT ![a] =
                     IF IsTerminated THEN {"termination"} ELSE {}]
    /\ UNCHANGED <<stateVars, holding, waking, spawned, successor, jobs, unseen,
                   borrowed, termination_tx>>

PollTermination(a) ==
    /\ place[a] = "poll" /\ ~Publishing(a)
    /\ place' = [place EXCEPT ![a] = IF termination_tx THEN "done" ELSE "asleep"]
    /\ UNCHANGED <<stateVars, threadVars, unseen, borrowed, termination_tx>>

(* A task gives up: its future is dropped, which unregisters its waker.    *)
DropFuture(a) ==
    /\ place[a] \in {"saturated", "poll", "asleep"}
    /\ a \in Awaiters => ~Publishing(a)
    /\ Leave(a)
    /\ waking' = [p \in Publishers |-> waking[p] \ {a}]
    /\ UNCHANGED <<stateVars, holding, pending, spawned, successor, jobs,
                   termination_tx>>

-----------------------------------------------------------------------------
Init ==
    /\ StateInit
    /\ holding = {}
    /\ pending = [p \in Publishers |-> {}]
    /\ waking = [p \in Publishers |-> {}]
    /\ spawned = 0
    /\ successor = {}
    /\ jobs = [p \in Threads |-> {}]
    /\ place = [a \in Futures |-> "idle"]
    /\ unseen = {}
    /\ borrowed = {}
    /\ termination_tx = FALSE

Call(p) ==
    \/ Submit(p)
    \/ \E t \in queue : CancelPending(p, t)
    \/ Shutdown(p)
    \/ Stop(p)

Finish(t) == \E p \in Threads : FinishRunning(p, t)

(* What a thread or a polled awaiter does until it is done publishing.     *)
Publish(p) ==
    \/ SendTermination(p)
    \/ \E a \in Futures : Wake(p, a)

Continue(p) ==
    \/ Unlock(p)
    \/ SendCapacity(p)
    \/ Publish(p)
    \/ SpawnSuccessor(p)
    \/ \E t \in jobs[p] : FinishCancelling(p, t)

Retry(a) == RetryAccepted(a) \/ RetryRefused(a) \/ RetrySaturated(a)

Produce(a) ==
    \/ SubscribeCapacity(a)
    \/ \E marks_seen \in BOOLEAN : Borrow(a, marks_seen)
    \/ Release(a)
    \/ \E seen \in BOOLEAN : Mark(a, seen)
    \/ Retry(a)
    \/ PollChanged(a)
    \/ DropFuture(a)

Await(a) ==
    \/ AwaitTermination(a)
    \/ CheckTermination(a)
    \/ Publish(a)
    \/ PollTermination(a)
    \/ DropFuture(a)

Next ==
    \/ \E p \in Threads : Call(p) \/ TakeNothing(p) \/ Continue(p)
    \/ \E t \in running_tasks : Finish(t)
    \/ TakeNext
    \/ \E a \in Producers : Produce(a)
    \/ \E a \in Awaiters : Await(a)

Spec == Init /\ [][Next]_vars

(* Threads that are inside a call run on, wakers return, closures run,     *)
(* tasks end, and an executor polls a future whose waker has been called   *)
(* without a panic.  Nobody has to begin a call or to drop a Ref.  Callers *)
(* stop calling some day: the mutex does not promise a waiting thread its  *)
(* turn against callers that take it for ever.                             *)
Fairness ==
    /\ \A p \in Threads : WF_vars(Continue(p))
    /\ \A t \in TaskIds : WF_vars(t \in running_tasks /\ Finish(t))
    /\ WF_vars(TakeNext)
    /\ \A a \in Producers \ Panicky : WF_vars(Retry(a)) /\ WF_vars(PollChanged(a))
    /\ \A a \in Awaiters : WF_vars(CheckTermination(a)) /\ WF_vars(Publish(a))
    /\ \A a \in Awaiters \ Panicky : WF_vars(PollTermination(a))
    /\ <>[][~\E p \in Threads : Call(p)]_vars

FairSpec == Spec /\ Fairness

(* Readers that drop every Ref they borrow.                                *)
FairReadersSpec == FairSpec /\ \A a \in Producers : WF_vars(Release(a))

-----------------------------------------------------------------------------
Places == {"idle", "retry", "saturated", "check", "poll", "asleep", "done"}

TypeOK ==
    /\ StateTypeOK
    /\ holding \in SUBSET Threads
    /\ pending \in [Publishers -> SUBSET {"capacity", "termination"}]
    /\ waking \in [Publishers -> SUBSET Futures]
    /\ spawned \in Nat
    /\ successor \in SUBSET Threads
    /\ jobs \in [Threads -> SUBSET TaskIds]
    /\ place \in [Futures -> Places]
    /\ unseen \in SUBSET Producers
    /\ borrowed \in SUBSET Producers
    /\ termination_tx \in BOOLEAN

(* A careful producer asleep on a capacity notification while an attempt   *)
(* would no longer be Saturated has a publication or a call of its waker   *)
(* on the way: no order of completions, cleanups, publications and wakers  *)
(* loses the hint (subscribe before the first attempt, notify_async_changes*)
(* after every step that frees capacity or closes the service).            *)
ProducerNotForgotten ==
    \A a \in Producers \ Careless :
        place[a] = "asleep" /\ AdmitOutcome # "Saturated" =>
            \E p \in Publishers : "capacity" \in pending[p] \/ a \in waking[p]

(* The same for a task in await_termination, whichever of its subscription,*)
(* its check, the last completion and the publication came first.          *)
AwaiterNotForgotten ==
    \A a \in Awaiters :
        place[a] = "asleep" /\ IsTerminated =>
            \E p \in Publishers : "termination" \in pending[p] \/ a \in waking[p]

(* await_termination returns only when every accepted task has ended, its  *)
(* cleanup included, although the value is published without the mutex.    *)
AwaitedTerminationIsReal ==
    \A a \in Awaiters : place[a] = "done" => IsTerminated

(* Every claimed job has a thread that will finish it, and every closure   *)
(* that was promised runs a task, is in the pool, or is owed by a thread:  *)
(* what a publication interrupts is not lost (run_one, stop).              *)
NothingDropped ==
    /\ cancelling = UNION {jobs[p] : p \in Threads}
    /\ scheduled = running + Cardinality(successor) + spawned

(* The service is seen as the module of its state assumes it is used.      *)
KeepsStateProtocol == StateSpec

(* A careful producer does not sleep for ever: capacity comes back or the  *)
(* service closes, and either is published.                                *)
ProducersAwaken ==
    \A a \in Producers \ Careless : place[a] = "asleep" ~> place[a] # "asleep"

(* The publication of every thread ends, even if it calls wakers that call *)
(* back into the service (the guard is dropped before).                    *)
PublicationsEnd == \A p \in Threads : Publishing(p) ~> ~Publishing(p)

(* A queued task is taken, cancelled or stopped, even when the thread that *)
(* owes it a closure runs into a panicking waker first.                    *)
QueuedTasksLeave == \A t \in TaskIds : t \in queue ~> t \notin queue

(* Every await of a terminated service ends.                               *)
AwaitersComplete ==
    \A a \in Awaiters \ Panicky :
        IsTerminated /\ place[a] \in {"check", "poll", "asleep"}
            ~> place[a] \in {"done", "idle"}

(* An await that begins after termination depends on nobody else: it       *)
(* repairs the value itself, even if every publication hangs behind a      *)
(* reader of capacity_tx that keeps its Ref.                               *)
LateAwaiterCompletes ==
    \A a \in Awaiters \ Panicky :
        IsTerminated /\ place[a] = "check" ~> place[a] \in {"done", "idle"}
=============================================================================
