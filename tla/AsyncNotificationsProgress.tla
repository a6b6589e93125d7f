--------------------- MODULE AsyncNotificationsProgress ---------------------
(***************************************************************************)
(* Why notifications never get stuck, as properties of states and steps.   *)
(*                                                                         *)
(* Their liveness rests on two facts: if neither a thread, a closure nor a *)
(* publishing awaiter can take a step, everything is finished and nobody   *)
(* sleeps in vain (RestIsClean), and all that goes on without a new call   *)
(* of a user uses up a finite stock of work (NotifyingSpendsWork).         *)
(* Fairness adds that what can go on does.                                 *)
(***************************************************************************)
EXTENDS AsyncNotifications

(* The guards of the steps that threads, closures and publishing awaiters  *)
(* take: with the mutex, with wakers, with the channels and the Refs their *)
(* senders wait for, and with what a thread owes after a publication.      *)
CanUnlock == \E p \in holding : waking[p] = {}

CanWake ==
    \E p \in Publishers : \E a \in waking[p] : a \in Reentrant => MutexFree

CanSend(p) ==
    /\ MayPublish(p) /\ waking[p] = {}
    /\ \/ p \in Threads /\ "capacity" \in pending[p] /\ borrowed = {}
       \/ pending[p] = {"termination"}

CanSettle(p) ==
    /\ Quiet(p)
    /\ \/ p \in successor
       \/ MutexFree /\ jobs[p] # {}

CanTake ==
    /\ MutexFree /\ spawned > 0
    /\ \/ \E t \in queue : Oldest(t)
       \/ queue = {} /\ \E p \in Threads : Free(p)

CanFinish == MutexFree /\ running_tasks # {} /\ \E p \in Threads : Free(p)

CanGoOn ==
    \/ CanUnlock \/ CanWake \/ CanTake \/ CanFinish
    \/ \E p \in Publishers : CanSend(p)
    \/ \E p \in Threads : CanSettle(p)
    \/ borrowed # {}

(* When none of them has a step left, no accepted task is left behind,     *)
(* every reservation is back, no careful producer sleeps at all (there is  *)
(* room, or the service is closed, and it was told), and an awaiter sleeps *)
(* only before a shutdown; the end of a closed service is published.       *)
(* Threads that wait in a circle (a publisher under the mutex, a waker     *)
(* that calls back), a publication that is forgotten, a hint marked as     *)
(* seen after the attempt it was for and a closure that is not handed over *)
(* would all break it (notify_async_changes, PanicIsolatingWake, dispatch, *)
(* finish_running, CapacityChanges).                                       *)
RestIsClean ==
    ~CanGoOn =>
       /\ occupied = 0 /\ scheduled = 0
       /\ \A a \in Producers \ Careless : place[a] # "asleep"
       /\ lifecycle # "Running" =>
             termination_tx /\ \A a \in Awaiters : place[a] # "asleep"

-----------------------------------------------------------------------------
(* The stock of work.  A step uses up one part, may add to those after it, *)
(* and leaves those before it alone: a task that ends owes a closure and a *)
(* publication, a publication owes the calls of wakers, and a waker makes  *)
(* a future poll.  The hints that producers have not seen are a part of    *)
(* their own: only as many as there are make a producer try again.         *)
InHand == running_tasks \union cancelling

Checking == {a \in Awaiters : place[a] = "check"}

Channels == {"capacity", "termination"}
Unsent == {s \in Publishers \X Channels : s[2] \in pending[s[1]]}
Uncalled == {s \in Publishers \X Futures : s[2] \in waking[s[1]]}

FutureStep(a) ==
    IF place[a] = "retry" THEN 2
    ELSE IF place[a] \in {"saturated", "poll"} THEN 1 ELSE 0
FutureSteps == {s \in Futures \X (1 .. 2) : s[2] <= FutureStep(s[1])}

Stock ==
    <<Subscribed, queue, InHand, successor, 1 .. spawned, Checking, Unsent,
      Uncalled, holding, unseen, borrowed, FutureSteps>>

Fewer(S, T) == S \subseteq T /\ S # T

SpendsWork ==
    \E i \in 1 .. 12 :
        /\ Fewer(Stock'[i], Stock[i])
        /\ \A j \in 1 .. i - 1 : Stock'[j] = Stock[j]

(* The steps that nobody calls for: what threads, closures and futures do  *)
(* because of what has been called before.                                 *)
GoesOn ==
    \/ TakeNext
    \/ \E t \in running_tasks : Finish(t)
    \/ \E p \in Threads : TakeNothing(p) \/ Continue(p)
    \/ \E a \in Producers : Retry(a) \/ PollChanged(a) \/ Release(a)
    \/ \E a \in Awaiters :
          CheckTermination(a) \/ Publish(a) \/ PollTermination(a)

(* Notifications do not feed on themselves: the retry loop of the guide    *)
(* tries once for each hint and never spins on one it has seen, a waker    *)
(* that is called leaves nothing to call again, and a late repair of the   *)
(* termination value is published once (changed, notify_async_changes,     *)
(* subscribe_termination, run_one).                                        *)
NotifyingSpendsWork == [][GoesOn => SpendsWork]_vars
=============================================================================
