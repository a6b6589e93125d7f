---------------------- MODULE AsyncNotificationsProofs ----------------------
(***************************************************************************)
(* Proofs about the asynchronous notifications, for every finite set of    *)
(* threads, all sets of producers and awaiters, whichever wakers panic or  *)
(* call back, and every capacity, number of threads and id bound.          *)
(*                                                                         *)
(* The argument has two halves.  WorkInv: what threads owe (closures to    *)
(* spawn, jobs to cancel) accounts for the counts of the state, so every   *)
(* step is one of the shared state and its invariant carries over.         *)
(* NotifyInv: a chain without a gap leads from a change of the state to    *)
(* the place of a waiting future: the publication is pending, or it has    *)
(* marked the receiver, and then the waker is about to be called.          *)
(***************************************************************************)
EXTENDS AsyncNotificationsProgress, RayonExecutorServiceStateProofs

(* No claimed job is in the hands of two threads.                          *)
JobsApart ==
    \A p, q \in Threads : p # q => jobs[p] \intersect jobs[q] = {}

WorkInv == StateInv /\ TypeOK /\ NothingDropped /\ JobsApart

(* A waker that is to be called belongs to a sleeping future that has      *)
(* something to see when it is polled.                                     *)
WakersAsleep ==
    \A p \in Publishers : \A a \in waking[p] :
        /\ place[a] = "asleep"
        /\ a \in Producers => a \in unseen
        /\ a \in Awaiters => termination_tx

WakersApart ==
    \A p, q \in Publishers : p # q => waking[p] \intersect waking[q] = {}

(* An awaiter publishes only while it is being polled, and only the end.   *)
AwaitersPublish ==
    \A a \in Awaiters :
        /\ Publishing(a) => place[a] = "poll"
        /\ "capacity" \notin pending[a]

HintOnTheWay ==
    \A a \in Producers \ Careless :
        place[a] \in {"saturated", "poll", "asleep"} /\ AdmitOutcome # "Saturated" =>
            a \in unseen \/ \E p \in Publishers : "capacity" \in pending[p]

HintWakes ==
    \A a \in Producers :
        place[a] = "asleep" /\ a \in unseen =>
            \E p \in Publishers : a \in waking[p]

EndWakes ==
    \A a \in Awaiters :
        place[a] = "asleep" /\ termination_tx =>
            \E p \in Publishers : a \in waking[p]

EndPublished ==
    IsTerminated =>
        termination_tx \/ \E p \in Publishers : "termination" \in pending[p]

EndIsReal ==
    \/ termination_tx
    \/ \E p \in Publishers : "termination" \in pending[p]
    \/ \E a \in Awaiters : place[a] = "done"
    => IsTerminated

NotifyInv ==
    /\ WakersAsleep
    /\ WakersApart
    /\ AwaitersPublish
    /\ HintOnTheWay
    /\ HintWakes
    /\ EndWakes
    /\ EndPublished
    /\ EndIsReal

AsyncInv == WorkInv /\ NotifyInv

-----------------------------------------------------------------------------
(* Sets of threads are finite, so what they owe can be counted.            *)
LEMMA ThreadSets ==
    ASSUME NEW S \in SUBSET Threads
    PROVE  /\ IsFiniteSet(S)
           /\ Cardinality(S) \in Nat
           /\ \A p : p \notin S => Cardinality(S \union {p}) = Cardinality(S) + 1
           /\ \A p \in S : Cardinality(S \ {p}) = Cardinality(S) - 1
<1>1. IsFiniteSet(S)
  BY NotificationAssumption, FS_Subset
<1>2. QED
  BY <1>1, FS_CardinalityType, FS_AddElement, FS_RemoveElement

-----------------------------------------------------------------------------
(* Types.                                                                  *)

LEMMA NotifyKeepsTypes ==
    ASSUME TypeOK, NEW p \in Threads, NEW channels \in SUBSET {"capacity"},
           NotifyAfter(p, channels)
    PROVE  /\ holding' \in SUBSET Threads
           /\ pending' \in [Publishers -> SUBSET {"capacity", "termination"}]
           /\ waking' \in [Publishers -> SUBSET Futures]
           /\ place' \in [Futures -> Places]
           /\ unseen' \in SUBSET Producers
           /\ borrowed' \in SUBSET Producers
           /\ termination_tx' \in BOOLEAN
BY DEF TypeOK, NotifyAfter, futureVars, Publishers

LEMMA DispatchCountIsNat ==
    ASSUME StateTypeOK, StateTypeOK', admit
    PROVE  DispatchCount \in Nat
<1>1. Cardinality(queue \union {next_task_id}) \in Nat
  BY TaskSetFinite DEF admit, StateTypeOK
<1>2. saturating_sub(NumThreads, scheduled) \in Nat
  BY ConfigAssumption DEF saturating_sub, StateTypeOK
<1>3. QED
  BY <1>1, <1>2 DEF DispatchCount, Min2

LEMMA CallsKeepTypes ==
    ASSUME TypeOK, StateTypeOK', NEW p \in Threads, Call(p) \/ TakeNothing(p)
    PROVE  TypeOK'
<1>1. CASE Submit(p)
  BY <1>1, DispatchCountIsNat
  DEF Submit, AdmitAndDispatch, TypeOK, futureVars
<1>2. CASE \E t \in queue : CancelPending(p, t)
  BY <1>2 DEF CancelPending, TypeOK, StateTypeOK, futureVars
<1>3. CASE Shutdown(p)
  BY <1>3, NotifyKeepsTypes DEF Shutdown, TypeOK
<1>4. CASE Stop(p)
  BY <1>4, NotifyKeepsTypes DEF Stop, TypeOK, StateTypeOK
<1>5. CASE TakeNothing(p)
  <2>1. spawned' \in Nat
    BY <1>5 DEF TakeNothing, TypeOK
  <2>2. QED
    BY <1>5, <2>1, NotifyKeepsTypes DEF TakeNothing, TypeOK
<1>6. QED
  BY <1>1, <1>2, <1>3, <1>4, <1>5 DEF Call

LEMMA PublicationsKeepTypes ==
    ASSUME TypeOK, StateTypeOK', NEW p \in Publishers, Publish(p)
    PROVE  TypeOK'
<1>1. CASE SendTermination(p)
  BY <1>1 DEF SendTermination, TypeOK, Registered, Futures
<1>2. ASSUME NEW a \in Futures, Wake(p, a)
      PROVE  TypeOK'
  BY <1>2 DEF Wake, WakersLeft, TypeOK, Places
<1>3. QED
  BY <1>1, <1>2 DEF Publish

LEMMA ContinuationsKeepTypes ==
    ASSUME TypeOK, StateTypeOK', NEW p \in Threads, Continue(p)
    PROVE  TypeOK'
<1>1. CASE Unlock(p)
  BY <1>1 DEF Unlock, TypeOK, futureVars
<1>2. CASE SendCapacity(p)
  BY <1>2 DEF SendCapacity, TypeOK, Registered, Subscribed, Futures, Publishers
<1>3. CASE Publish(p)
  BY <1>3, PublicationsKeepTypes DEF Publishers
<1>4. CASE SpawnSuccessor(p)
  BY <1>4 DEF SpawnSuccessor, TypeOK, futureVars
<1>5. CASE \E t \in jobs[p] : FinishCancelling(p, t)
  BY <1>5, NotifyKeepsTypes DEF FinishCancelling, TypeOK
<1>6. QED
  BY <1>1, <1>2, <1>3, <1>4, <1>5 DEF Continue

LEMMA WorkersKeepTypes ==
    ASSUME TypeOK, StateTypeOK',
           TakeNext \/ \E t \in running_tasks : Finish(t)
    PROVE  TypeOK'
<1>1. CASE TakeNext
  <2>1. spawned' \in Nat
    BY <1>1 DEF TakeNext, TypeOK
  <2>2. QED
    BY <1>1, <2>1 DEF TakeNext, TypeOK, futureVars
<1>2. ASSUME NEW t \in running_tasks, NEW p \in Threads, FinishRunning(p, t)
      PROVE  TypeOK'
  BY <1>2, NotifyKeepsTypes DEF FinishRunning, TypeOK
<1>3. QED
  BY <1>1, <1>2 DEF Finish

LEMMA LeavingKeepsTypes ==
    ASSUME TypeOK, NEW a \in Futures, Leave(a)
    PROVE  /\ place' \in [Futures -> Places]
           /\ unseen' \in SUBSET Producers
           /\ borrowed' \in SUBSET Producers
BY DEF TypeOK, Leave, Places

LEMMA ProducersKeepTypes ==
    ASSUME TypeOK, StateTypeOK', NEW a \in Producers, Produce(a)
    PROVE  TypeOK'
<1> a \in Futures
  BY DEF Futures
<1>1. CASE SubscribeCapacity(a)
  BY <1>1 DEF SubscribeCapacity, TypeOK, Places, threadVars
<1>2. CASE \E marks_seen \in BOOLEAN : Borrow(a, marks_seen)
  BY <1>2 DEF Borrow, TypeOK, threadVars
<1>3. CASE Release(a)
  BY <1>3 DEF Release, TypeOK, threadVars
<1>4. CASE \E seen \in BOOLEAN : Mark(a, seen)
  BY <1>4 DEF Mark, TypeOK, threadVars
<1>5. CASE RetryAccepted(a)
  BY <1>5, DispatchCountIsNat, LeavingKeepsTypes
  DEF RetryAccepted, AdmitAndDispatch, TypeOK
<1>6. CASE RetryRefused(a)
  BY <1>6, LeavingKeepsTypes DEF RetryRefused, TypeOK, threadVars
<1>7. CASE RetrySaturated(a)
  BY <1>7 DEF RetrySaturated, TypeOK, Places, threadVars
<1>8. CASE PollChanged(a)
  BY <1>8 DEF PollChanged, TypeOK, Places, threadVars
<1>9. CASE DropFuture(a)
  BY <1>9, LeavingKeepsTypes DEF DropFuture, TypeOK
<1>10. QED
  BY <1>1, <1>2, <1>3, <1>4, <1>5, <1>6, <1>7, <1>8, <1>9 DEF Produce, Retry

LEMMA AwaitersKeepTypes ==
    ASSUME TypeOK, StateTypeOK', NEW a \in Awaiters, Await(a)
    PROVE  TypeOK'
<1> a \in Futures /\ a \in Publishers
  BY DEF Futures, Publishers
<1>1. CASE AwaitTermination(a)
  BY <1>1 DEF AwaitTermination, TypeOK, Places, threadVars
<1>2. CASE CheckTermination(a)
  BY <1>2 DEF CheckTermination, TypeOK, Places
<1>3. CASE Publish(a)
  BY <1>3, PublicationsKeepTypes
<1>4. CASE PollTermination(a)
  BY <1>4 DEF PollTermination, TypeOK, Places, threadVars
<1>5. CASE DropFuture(a)
  BY <1>5, LeavingKeepsTypes DEF DropFuture, TypeOK
<1>6. QED
  BY <1>1, <1>2, <1>3, <1>4, <1>5 DEF Await

LEMMA NextKeepsTypes ==
    ASSUME TypeOK, StateTypeOK', [Next]_vars
    PROVE  TypeOK'
<1>1. CASE UNCHANGED vars
  BY <1>1 DEF vars, threadVars, futureVars, TypeOK
<1>2. CASE Next
  BY <1>2, CallsKeepTypes, ContinuationsKeepTypes, WorkersKeepTypes,
     ProducersKeepTypes, AwaitersKeepTypes
  DEF Next
<1>3. QED
  BY <1>1, <1>2

-----------------------------------------------------------------------------
(* What threads owe.  Every lemma of this part also shows that the step is *)
(* one of the shared state.                                                *)

LEMMA ReservationFromSpawned ==
    ASSUME WorkInv, spawned > 0
    PROVE  IdleReservation
<1>1. Cardinality(successor) \in Nat
  BY ThreadSets DEF WorkInv, TypeOK
<1>2. QED
  BY <1>1 DEF WorkInv, TypeOK, StateTypeOK, NothingDropped, IdleReservation

LEMMA DispatchKeepsWork ==
    ASSUME WorkInv, AdmitAndDispatch
    PROVE  NothingDropped' /\ JobsApart' /\ StateNext
<1>1. StateNext
  BY DEF AdmitAndDispatch, StateNext
<1>2. StateInv'
  BY <1>1, NextKeepsStateInv DEF WorkInv
<1>3. DispatchCount \in Nat
  BY <1>2, DispatchCountIsNat DEF WorkInv, StateInv, AdmitAndDispatch
<1>4. Cardinality(successor) \in Nat
  BY ThreadSets DEF WorkInv, TypeOK
<1>5. scheduled' = running' + Cardinality(successor) + spawned'
  BY <1>3, <1>4
  DEF WorkInv, TypeOK, StateTypeOK, NothingDropped, AdmitAndDispatch, admit
<1>6. NothingDropped'
  BY <1>5 DEF WorkInv, NothingDropped, AdmitAndDispatch, admit
<1>7. QED
  BY <1>1, <1>6 DEF WorkInv, JobsApart, AdmitAndDispatch

LEMMA TakeNextKeepsWork ==
    ASSUME WorkInv, TakeNext
    PROVE  NothingDropped' /\ JobsApart' /\ StateNext
<1>1. StateNext
  BY ReservationFromSpawned DEF TakeNext, StateNext
<1>2. Cardinality(successor) \in Nat
  BY ThreadSets DEF WorkInv, TypeOK
<1>3. running' = running + 1 /\ spawned' = spawned - 1
  BY DEF TakeNext, take_next
<1>4. scheduled' = running' + Cardinality(successor) + spawned'
  BY <1>2, <1>3
  DEF WorkInv, TypeOK, StateTypeOK, NothingDropped, TakeNext, take_next
<1>5. NothingDropped'
  BY <1>4 DEF WorkInv, NothingDropped, TakeNext, take_next
<1>6. QED
  BY <1>1, <1>5 DEF WorkInv, JobsApart, TakeNext

LEMMA TakeNothingKeepsWork ==
    ASSUME WorkInv, NEW p \in Threads, TakeNothing(p)
    PROVE  NothingDropped' /\ JobsApart' /\ StateNext
<1>1. IdleReservation
  BY ReservationFromSpawned DEF TakeNothing
<1>2. StateNext
  BY <1>1 DEF TakeNothing, StateNext
<1>3. Cardinality(successor) \in Nat
  BY ThreadSets DEF WorkInv, TypeOK
<1>4. scheduled' = scheduled - 1
  BY <1>1
  DEF TakeNothing, take_nothing, saturating_sub, IdleReservation, WorkInv,
      TypeOK, StateTypeOK
<1>5. scheduled' = running' + Cardinality(successor) + spawned'
  BY <1>3, <1>4
  DEF WorkInv, TypeOK, StateTypeOK, NothingDropped, TakeNothing, take_nothing
<1>6. NothingDropped'
  BY <1>5 DEF WorkInv, NothingDropped, TakeNothing, take_nothing
<1>7. QED
  BY <1>2, <1>6 DEF WorkInv, JobsApart, TakeNothing

LEMMA FinishRunningKeepsWork ==
    ASSUME WorkInv, NEW t \in running_tasks, NEW p \in Threads,
           FinishRunning(p, t)
    PROVE  NothingDropped' /\ JobsApart' /\ StateNext
<1>1. StateNext
  BY DEF FinishRunning, StateNext
<1>2. /\ Cardinality(successor) \in Nat
      /\ p \notin successor
      /\ Cardinality(successor \union {p}) = Cardinality(successor) + 1
  BY ThreadSets DEF WorkInv, TypeOK, FinishRunning, Free
<1>3. running > 0
  <2>1. running_tasks \in SUBSET TaskIds /\ running = Cardinality(running_tasks)
    BY DEF WorkInv, StateInv, TypeOK, StateTypeOK, OwnershipConsistent
  <2>2. running # 0
    BY <2>1, TaskSetZero
  <2>3. QED
    BY <2>2 DEF WorkInv, TypeOK, StateTypeOK
<1>4. running' = running - 1
  BY <1>3
  DEF FinishRunning, finish_running, saturating_sub, WorkInv, TypeOK,
      StateTypeOK
<1>5. CASE queue = {}
  <2>1. scheduled' = scheduled - 1 /\ successor' = successor
    BY <1>2, <1>3, <1>5
    DEF FinishRunning, finish_running, ReleaseIfIdle, saturating_sub, WorkInv,
        TypeOK, StateTypeOK, NothingDropped
  <2>2. scheduled' = running' + Cardinality(successor') + spawned'
    BY <1>2, <1>3, <1>4, <2>1
    DEF WorkInv, TypeOK, StateTypeOK, NothingDropped, FinishRunning
  <2>3. QED
    BY <1>1, <2>2
    DEF WorkInv, NothingDropped, JobsApart, FinishRunning, finish_running
<1>6. CASE queue # {}
  <2>1. scheduled' = scheduled /\ successor' = successor \union {p}
    BY <1>6 DEF FinishRunning, finish_running, ReleaseIfIdle
  <2>2. scheduled' = running' + Cardinality(successor') + spawned'
    BY <1>2, <1>3, <1>4, <2>1
    DEF WorkInv, TypeOK, StateTypeOK, NothingDropped, FinishRunning
  <2>3. QED
    BY <1>1, <2>2
    DEF WorkInv, NothingDropped, JobsApart, FinishRunning, finish_running
<1>7. QED
  BY <1>5, <1>6

LEMMA SpawnSuccessorKeepsWork ==
    ASSUME WorkInv, NEW p \in Threads, SpawnSuccessor(p)
    PROVE  NothingDropped' /\ JobsApart'
<1>1. /\ Cardinality(successor) \in Nat
      /\ Cardinality(successor \ {p}) = Cardinality(successor) - 1
  BY ThreadSets DEF WorkInv, TypeOK, SpawnSuccessor
<1>2. scheduled' = running' + Cardinality(successor') + spawned'
  BY <1>1
  DEF WorkInv, TypeOK, StateTypeOK, NothingDropped, SpawnSuccessor, stateVars
<1>3. QED
  BY <1>2 DEF WorkInv, NothingDropped, JobsApart, SpawnSuccessor, stateVars

LEMMA CancelPendingKeepsWork ==
    ASSUME WorkInv, NEW p \in Threads, NEW t \in queue, CancelPending(p, t)
    PROVE  NothingDropped' /\ JobsApart' /\ StateNext
<1>1. StateNext
  BY DEF CancelPending, StateNext
<1>2. /\ jobs[p] = {}
      /\ jobs' = [jobs EXCEPT ![p] = {t}]
      /\ cancelling' = cancelling \union {t}
  BY DEF CancelPending, Free, cancel_pending_task
<1>3. \A q \in Threads : jobs'[q] = IF q = p THEN {t} ELSE jobs[q]
  BY <1>2 DEF WorkInv, TypeOK
<1>4. t \notin cancelling
  BY DEF WorkInv, StateInv, OwnershipConsistent
<1>5. cancelling' = UNION {jobs'[q] : q \in Threads}
  BY <1>2, <1>3 DEF WorkInv, NothingDropped
<1>6. JobsApart'
  BY <1>3, <1>4 DEF WorkInv, NothingDropped, JobsApart
<1>7. QED
  BY <1>1, <1>5, <1>6
  DEF WorkInv, NothingDropped, CancelPending, cancel_pending_task

LEMMA StopKeepsWork ==
    ASSUME WorkInv, NEW p \in Threads, Stop(p)
    PROVE  NothingDropped' /\ JobsApart' /\ StateNext
<1>1. StateNext
  BY DEF Stop, StateNext
<1>2. /\ jobs[p] = {}
      /\ jobs' = [jobs EXCEPT ![p] = queue]
      /\ cancelling' = cancelling \union queue
  BY DEF Stop, Free, stop
<1>3. \A q \in Threads : jobs'[q] = IF q = p THEN queue ELSE jobs[q]
  BY <1>2 DEF WorkInv, TypeOK
<1>4. queue \intersect cancelling = {}
  BY DEF WorkInv, StateInv, OwnershipConsistent
<1>5. cancelling' = UNION {jobs'[q] : q \in Threads}
  BY <1>2, <1>3 DEF WorkInv, NothingDropped
<1>6. JobsApart'
  BY <1>3, <1>4 DEF WorkInv, NothingDropped, JobsApart
<1>7. QED
  BY <1>1, <1>5, <1>6 DEF WorkInv, NothingDropped, Stop, stop

LEMMA FinishCancellingKeepsWork ==
    ASSUME WorkInv, NEW p \in Threads, NEW t \in jobs[p],
           FinishCancelling(p, t)
    PROVE  NothingDropped' /\ JobsApart' /\ StateNext
<1>1. t \in cancelling
  BY DEF WorkInv, NothingDropped
<1>2. StateNext
  BY <1>1 DEF FinishCancelling, StateNext
<1>3. \A q \in Threads : jobs'[q] = IF q = p THEN jobs[q] \ {t} ELSE jobs[q]
  BY DEF WorkInv, TypeOK, FinishCancelling
<1>4. \A q \in Threads : q # p => t \notin jobs[q]
  BY DEF WorkInv, JobsApart
<1>5. cancelling' = UNION {jobs'[q] : q \in Threads}
  BY <1>3, <1>4
  DEF WorkInv, NothingDropped, FinishCancelling, finish_cancelling
<1>6. JobsApart'
  BY <1>3 DEF WorkInv, JobsApart
<1>7. QED
  BY <1>2, <1>5, <1>6
  DEF WorkInv, NothingDropped, FinishCancelling, finish_cancelling

(* Steps that leave the state and what threads owe alone.                  *)
LEMMA OtherStepsKeepWork ==
    ASSUME WorkInv, UNCHANGED <<stateVars, spawned, successor, jobs>>
    PROVE  NothingDropped' /\ JobsApart'
BY DEF WorkInv, NothingDropped, JobsApart, stateVars

LEMMA CallsKeepWork ==
    ASSUME WorkInv, NEW p \in Threads, Call(p) \/ TakeNothing(p)
    PROVE  NothingDropped' /\ JobsApart' /\ StateNext
<1>1. CASE Submit(p)
  BY <1>1, DispatchKeepsWork DEF Submit
<1>2. CASE \E t \in queue : CancelPending(p, t)
  BY <1>2, CancelPendingKeepsWork
<1>3. CASE Shutdown(p)
  BY <1>3
  DEF Shutdown, shutdown, StateNext, WorkInv, NothingDropped, JobsApart
<1>4. CASE Stop(p)
  BY <1>4, StopKeepsWork
<1>5. CASE TakeNothing(p)
  BY <1>5, TakeNothingKeepsWork
<1>6. QED
  BY <1>1, <1>2, <1>3, <1>4, <1>5 DEF Call

LEMMA ContinuationsKeepWork ==
    ASSUME WorkInv, NEW p \in Threads, Continue(p)
    PROVE  NothingDropped' /\ JobsApart' /\ [StateNext]_stateVars
<1>1. CASE Unlock(p) \/ SendCapacity(p)
  BY <1>1, OtherStepsKeepWork DEF Unlock, SendCapacity
<1>2. CASE Publish(p)
  BY <1>2, OtherStepsKeepWork DEF Publish, SendTermination, Wake
<1>3. CASE SpawnSuccessor(p)
  BY <1>3, SpawnSuccessorKeepsWork DEF SpawnSuccessor
<1>4. CASE \E t \in jobs[p] : FinishCancelling(p, t)
  BY <1>4, FinishCancellingKeepsWork
<1>5. QED
  BY <1>1, <1>2, <1>3, <1>4 DEF Continue

LEMMA FuturesKeepWork ==
    ASSUME WorkInv,
           (\E a \in Producers : Produce(a)) \/ (\E a \in Awaiters : Await(a))
    PROVE  NothingDropped' /\ JobsApart' /\ [StateNext]_stateVars
<1>1. CASE \E a \in Producers : RetryAccepted(a)
  BY <1>1, DispatchKeepsWork DEF RetryAccepted
<1>2. ASSUME NEW a \in Producers, Produce(a), ~RetryAccepted(a)
      PROVE  UNCHANGED <<stateVars, spawned, successor, jobs>>
  BY <1>2
  DEF Produce, Retry, SubscribeCapacity, Borrow, Release, Mark, RetryRefused,
      RetrySaturated, PollChanged, DropFuture, threadVars
<1>3. ASSUME NEW a \in Awaiters, Await(a)
      PROVE  UNCHANGED <<stateVars, spawned, successor, jobs>>
  BY <1>3
  DEF Await, AwaitTermination, CheckTermination, Publish, SendTermination,
      Wake, PollTermination, DropFuture, threadVars
<1>4. QED
  BY <1>1, <1>2, <1>3, OtherStepsKeepWork

LEMMA NextKeepsWork ==
    WorkInv /\ [Next]_vars => WorkInv' /\ [StateNext]_stateVars
<1> SUFFICES ASSUME WorkInv, [Next]_vars
             PROVE  WorkInv' /\ [StateNext]_stateVars
  OBVIOUS
<1>1. NothingDropped' /\ JobsApart' /\ [StateNext]_stateVars
  <2>1. CASE UNCHANGED vars
    BY <2>1, OtherStepsKeepWork DEF vars, threadVars
  <2>2. CASE Next
    BY <2>2, CallsKeepWork, ContinuationsKeepWork, FinishRunningKeepsWork,
       TakeNextKeepsWork, FuturesKeepWork
    DEF Next, Finish
  <2>3. QED
    BY <2>1, <2>2
<1>2. StateInv'
  BY <1>1, NextKeepsStateInv DEF WorkInv
<1>3. TypeOK'
  BY <1>2, NextKeepsTypes DEF WorkInv, StateInv
<1>4. QED
  BY <1>1, <1>2, <1>3 DEF WorkInv

LEMMA InitEstablishesWork == Init => WorkInv
<1> SUFFICES ASSUME Init PROVE WorkInv
  OBVIOUS
<1>1. StateInv
  BY InitEstablishesStateInv DEF Init
<1>2. TypeOK
  BY <1>1 DEF Init, TypeOK, StateInv, Places
<1>3. NothingDropped
  BY FS_EmptySet DEF Init, StateInit, NothingDropped
<1>4. JobsApart
  BY DEF Init, JobsApart
<1>5. QED
  BY <1>1, <1>2, <1>3, <1>4 DEF WorkInv

THEOREM WorkInvariant == Spec => []WorkInv
<1>1. Init => WorkInv
  BY InitEstablishesWork
<1>2. WorkInv /\ [Next]_vars => WorkInv'
  BY NextKeepsWork
<1>3. QED
  BY <1>1, <1>2, PTL DEF Spec

(* Types, and with them that the ids never run past the last one.          *)
THEOREM TypeCorrect == Spec => []TypeOK
<1>1. WorkInv => TypeOK
  BY DEF WorkInv
<1>2. QED
  BY <1>1, WorkInvariant, PTL

(* Whatever a publication runs into, the job a thread has claimed and the  *)
(* closure it has promised are not lost (run_one, stop).                   *)
THEOREM NothingIsDropped == Spec => []NothingDropped
<1>1. WorkInv => NothingDropped
  BY DEF WorkInv
<1>2. QED
  BY <1>1, WorkInvariant, PTL

(* The build with notifications uses the shared state by its rules, so all *)
(* that is proved of the state holds in that build, too.                   *)
THEOREM NotifyingServiceKeepsStateProtocol == Spec => KeepsStateProtocol
<1>1. Init => StateInit
  BY DEF Init
<1>2. WorkInv /\ [Next]_vars => [StateNext]_stateVars
  BY NextKeepsWork
<1>3. QED
  BY <1>1, <1>2, WorkInvariant, PTL DEF Spec, KeepsStateProtocol, StateSpec

(* The contract in the build with notifications: futures, wakers and late  *)
(* publications do not change what becomes of the tasks, in which order    *)
(* they start, and when the service terminates (notify_async_changes).     *)
THEOREM NotifyingServiceKeepsContract == Spec => StateKeepsContract
BY NotifyingServiceKeepsStateProtocol, TasksLiveOnce, PTL DEF KeepsStateProtocol

-----------------------------------------------------------------------------
(* What the methods of the state do to the two conditions futures wait for.*)

(* The conditions look the same, or a refused attempt stays refused.       *)
SameForWaiters ==
    /\ AdmitOutcome' # "Saturated" => AdmitOutcome # "Saturated"
    /\ IsTerminated' <=> IsTerminated

LEMMA SameOccupied ==
    ASSUME lifecycle' = lifecycle, next_task_id' = next_task_id,
           occupied' = occupied
    PROVE  SameForWaiters
BY DEF SameForWaiters, AdmitOutcome, IsTerminated

LEMMA StutterIsSame ==
    ASSUME UNCHANGED stateVars
    PROVE  SameForWaiters
<1>1. occupied' = occupied
  BY DEF stateVars, occupied
<1>2. QED
  BY <1>1, SameOccupied DEF stateVars

LEMMA AdmitIsSame ==
    ASSUME admit
    PROVE  SameForWaiters
<1>1. AdmitOutcome # "Saturated" /\ lifecycle = "Running"
  BY DEF admit, AdmitOutcome
<1>2. QED
  BY <1>1 DEF SameForWaiters, admit, IsTerminated

LEMMA TakeNextIsSame ==
    ASSUME StateInv, NEW t \in queue, take_next(t)
    PROVE  SameForWaiters
<1>1. /\ Cardinality(queue \ {t}) = Cardinality(queue) - 1
      /\ Cardinality(queue) \in Nat
      /\ Cardinality(cancelling) \in Nat
      /\ running \in Nat
  BY TaskSetLeave, Sizes DEF StateInv, StateTypeOK
<1>2. occupied' = occupied
  BY <1>1 DEF take_next, occupied
<1>3. QED
  BY <1>2, SameOccupied DEF take_next

LEMMA TakeNothingIsSame ==
    ASSUME take_nothing
    PROVE  SameForWaiters
<1>1. occupied' = occupied
  BY DEF take_nothing, occupied
<1>2. QED
  BY <1>1, SameOccupied DEF take_nothing

LEMMA CancelIsSame ==
    ASSUME StateInv, NEW t \in queue, cancel_pending_task(t)
    PROVE  SameForWaiters
<1>1. t \notin cancelling
  BY DEF StateInv, OwnershipConsistent
<1>2. /\ Cardinality(queue \ {t}) = Cardinality(queue) - 1
      /\ Cardinality(cancelling \union {t}) = Cardinality(cancelling) + 1
      /\ Cardinality(queue) \in Nat
      /\ Cardinality(cancelling) \in Nat
      /\ running \in Nat
  BY <1>1, TaskSetLeave, TaskSetJoin, Sizes DEF StateInv, StateTypeOK, TaskIds
<1>3. occupied' = occupied
  BY <1>2 DEF cancel_pending_task, occupied
<1>4. QED
  BY <1>3, SameOccupied DEF cancel_pending_task

LEMMA TerminationStays ==
    ASSUME WorkInv, StateNext, IsTerminated
    PROVE  IsTerminated'
<1>1. CASE UNCHANGED stateVars
  BY <1>1, StutterIsSame DEF SameForWaiters
<1>2. QED
  BY <1>1, StepKeepsClosed DEF WorkInv, IsTerminated, stateVars

-----------------------------------------------------------------------------
(* Steps that publish nothing and leave the futures alone.                 *)
LEMMA SilentStepKeepsNotifyInv ==
    ASSUME NotifyInv, SameForWaiters,
           UNCHANGED <<pending, waking, place, unseen, termination_tx>>
    PROVE  NotifyInv'
<1>1. WakersAsleep' /\ WakersApart' /\ AwaitersPublish' /\ HintWakes' /\ EndWakes'
  BY DEF NotifyInv, WakersAsleep, WakersApart, AwaitersPublish, HintWakes,
         EndWakes, Publishing
<1>2. HintOnTheWay'
  BY DEF NotifyInv, HintOnTheWay, SameForWaiters
<1>3. EndPublished' /\ EndIsReal'
  BY DEF NotifyInv, EndPublished, EndIsReal, SameForWaiters
<1>4. QED
  BY <1>1, <1>2, <1>3 DEF NotifyInv

(* Methods that end with notify_async_changes: they announce capacity, or  *)
(* have changed nothing a producer waits for.                              *)
LEMMA NotifyKeepsNotifyInv ==
    ASSUME TypeOK, NotifyInv, NEW p \in Threads,
           NEW channels \in SUBSET {"capacity"},
           Quiet(p), NotifyAfter(p, channels),
           "capacity" \in channels \/ SameForWaiters,
           IsTerminated => IsTerminated'
    PROVE  NotifyInv'
<1> DEFINE sent == channels \union (IF IsTerminated' THEN {"termination"} ELSE {})
<1>1. /\ pending[p] = {} /\ waking[p] = {}
      /\ waking' = waking /\ place' = place /\ unseen' = unseen
      /\ termination_tx' = termination_tx
  BY DEF Quiet, Publishing, NotifyAfter, futureVars
<1>2. \A q \in Publishers : pending'[q] = IF q = p THEN sent ELSE pending[q]
  BY DEF TypeOK, NotifyAfter
<1>3. p \in Publishers /\ p \notin Awaiters
  BY NotificationAssumption DEF Publishers
<1>4. WakersAsleep' /\ WakersApart' /\ HintWakes' /\ EndWakes'
  BY <1>1 DEF NotifyInv, WakersAsleep, WakersApart, HintWakes, EndWakes
<1>5. AwaitersPublish'
  BY <1>1, <1>2, <1>3 DEF NotifyInv, AwaitersPublish, Publishing, Publishers
<1>6. HintOnTheWay'
  <2>1. CASE "capacity" \in channels
    BY <1>2, <1>3, <2>1 DEF HintOnTheWay
  <2>2. CASE SameForWaiters
    BY <1>1, <1>2, <2>2 DEF NotifyInv, HintOnTheWay, SameForWaiters
  <2>3. QED
    BY <2>1, <2>2
<1>7. EndPublished'
  BY <1>2, <1>3 DEF EndPublished
<1>8. EndIsReal'
  BY <1>1, <1>2 DEF NotifyInv, EndIsReal
<1>9. QED
  BY <1>4, <1>5, <1>6, <1>7, <1>8 DEF NotifyInv

LEMMA CallsKeepNotifyInv ==
    ASSUME AsyncInv, NEW p \in Threads, Call(p) \/ TakeNothing(p)
    PROVE  NotifyInv'
<1>0. /\ TypeOK /\ NotifyInv /\ StateInv
      /\ IsTerminated => IsTerminated'
  BY CallsKeepWork, TerminationStays DEF AsyncInv, WorkInv
<1>1. CASE Submit(p)
  BY <1>0, <1>1, AdmitIsSame, SilentStepKeepsNotifyInv
  DEF Submit, AdmitAndDispatch, futureVars
<1>2. CASE \E t \in queue : CancelPending(p, t)
  BY <1>0, <1>2, CancelIsSame, SilentStepKeepsNotifyInv
  DEF CancelPending, futureVars
<1>3. CASE Shutdown(p)
  BY <1>0, <1>3, NotifyKeepsNotifyInv DEF Shutdown, Free
<1>4. CASE Stop(p)
  BY <1>0, <1>4, NotifyKeepsNotifyInv DEF Stop, Free
<1>5. CASE TakeNothing(p)
  BY <1>0, <1>5, TakeNothingIsSame, NotifyKeepsNotifyInv
  DEF TakeNothing, Free
<1>6. QED
  BY <1>1, <1>2, <1>3, <1>4, <1>5 DEF Call

LEMMA WorkersKeepNotifyInv ==
    ASSUME AsyncInv, TakeNext \/ \E t \in running_tasks : Finish(t)
    PROVE  NotifyInv'
<1>0. TypeOK /\ NotifyInv /\ StateInv
  BY DEF AsyncInv, WorkInv
<1>1. CASE TakeNext
  BY <1>0, <1>1, TakeNextIsSame, SilentStepKeepsNotifyInv
  DEF TakeNext, futureVars
<1>2. ASSUME NEW t \in running_tasks, NEW p \in Threads, FinishRunning(p, t)
      PROVE  NotifyInv'
  <2>1. IsTerminated => IsTerminated'
    BY <1>2, FinishRunningKeepsWork, TerminationStays DEF AsyncInv
  <2>2. QED
    BY <1>0, <1>2, <2>1, NotifyKeepsNotifyInv DEF FinishRunning, Free
<1>3. QED
  BY <1>1, <1>2 DEF Finish

(* The send of a hint marks every subscribed receiver, so whoever sleeps   *)
(* now has something to see, and is called by this thread or already by    *)
(* another one.                                                            *)
LEMMA SendCapacityKeepsNotifyInv ==
    ASSUME AsyncInv, NEW p \in Threads, SendCapacity(p)
    PROVE  NotifyInv'
<1>0. /\ TypeOK /\ NotifyInv /\ p \in Publishers /\ p \notin Awaiters
      /\ Producers \intersect Awaiters = {}
  BY NotificationAssumption DEF AsyncInv, WorkInv, Publishers
<1>1. /\ waking[p] = {}
      /\ place' = place /\ termination_tx' = termination_tx
      /\ unseen' = Subscribed
      /\ AdmitOutcome' = AdmitOutcome /\ IsTerminated' = IsTerminated
  BY DEF SendCapacity, stateVars, AdmitOutcome, IsTerminated, occupied
<1>2. \A q \in Publishers :
         waking'[q] = IF q = p THEN Registered(Producers) ELSE waking[q]
  BY <1>0 DEF TypeOK, SendCapacity
<1>3. \A q \in Publishers :
         pending'[q] = IF q = p THEN pending[p] \ {"capacity"} ELSE pending[q]
  BY <1>0 DEF TypeOK, SendCapacity
<1>4. \A a \in Producers : place[a] # "idle" => a \in unseen'
  BY <1>1 DEF Subscribed
<1>5. WakersAsleep'
  BY <1>0, <1>1, <1>2, <1>4 DEF NotifyInv, WakersAsleep, Registered
<1>6. WakersApart'
  BY <1>0, <1>2 DEF NotifyInv, WakersApart, Registered
<1>7. AwaitersPublish'
  BY <1>0, <1>1, <1>2, <1>3
  DEF NotifyInv, AwaitersPublish, Publishing, Publishers
<1>8. HintOnTheWay'
  BY <1>1, <1>4 DEF HintOnTheWay
<1>9. HintWakes'
  BY <1>0, <1>1, <1>2 DEF HintWakes, Registered
<1>10. EndWakes'
  BY <1>0, <1>1, <1>2 DEF NotifyInv, EndWakes
<1>11. EndPublished' /\ EndIsReal'
  BY <1>0, <1>1, <1>3 DEF NotifyInv, EndPublished, EndIsReal
<1>12. QED
  BY <1>5, <1>6, <1>7, <1>8, <1>9, <1>10, <1>11 DEF NotifyInv

LEMMA SendTerminationKeepsNotifyInv ==
    ASSUME AsyncInv, NEW p \in Publishers, SendTermination(p)
    PROVE  NotifyInv'
<1>0. TypeOK /\ NotifyInv /\ Producers \intersect Awaiters = {}
  BY NotificationAssumption DEF AsyncInv, WorkInv
<1>1. /\ waking[p] = {} /\ pending[p] = {"termination"}
      /\ place' = place /\ unseen' = unseen /\ termination_tx' = TRUE
      /\ AdmitOutcome' = AdmitOutcome /\ IsTerminated' = IsTerminated
  BY DEF SendTermination, stateVars, AdmitOutcome, IsTerminated, occupied
<1>2. \A q \in Publishers :
         waking'[q] = IF q # p THEN waking[q]
                      ELSE IF termination_tx THEN {} ELSE Registered(Awaiters)
  BY DEF TypeOK, AsyncInv, WorkInv, SendTermination
<1>3. \A q \in Publishers : pending'[q] = IF q = p THEN {} ELSE pending[q]
  BY DEF TypeOK, AsyncInv, WorkInv, SendTermination
<1>4. WakersAsleep'
  BY <1>0, <1>1, <1>2 DEF NotifyInv, WakersAsleep, Registered
<1>5. WakersApart'
  BY <1>0, <1>2 DEF NotifyInv, WakersApart, Registered
<1>6. AwaitersPublish'
  BY <1>0, <1>1, <1>2, <1>3 DEF NotifyInv, AwaitersPublish, Publishing,
      Publishers
<1>7. HintOnTheWay'
  BY <1>0, <1>1, <1>3 DEF NotifyInv, HintOnTheWay
<1>8. HintWakes'
  BY <1>0, <1>1, <1>2 DEF NotifyInv, HintWakes
<1>9. EndWakes'
  BY <1>0, <1>1, <1>2 DEF NotifyInv, EndWakes, Registered
<1>10. EndPublished' /\ EndIsReal'
  BY <1>0, <1>1 DEF NotifyInv, EndPublished, EndIsReal
<1>11. QED
  BY <1>4, <1>5, <1>6, <1>7, <1>8, <1>9, <1>10 DEF NotifyInv

LEMMA WakeKeepsNotifyInv ==
    ASSUME AsyncInv, NEW p \in Publishers, NEW a \in Futures, Wake(p, a)
    PROVE  NotifyInv'
<1>0. TypeOK /\ NotifyInv /\ Producers \intersect Awaiters = {}
  BY NotificationAssumption DEF AsyncInv, WorkInv
<1>1. /\ a \in waking[p] /\ place[a] = "asleep"
      /\ a \in Producers => a \in unseen
      /\ pending' = pending /\ unseen' = unseen
      /\ termination_tx' = termination_tx
      /\ AdmitOutcome' = AdmitOutcome /\ IsTerminated' = IsTerminated
  BY <1>0
  DEF Wake, stateVars, AdmitOutcome, IsTerminated, occupied, NotifyInv,
      WakersAsleep
<1>2. \A q \in Publishers :
         waking'[q] = IF q = p THEN waking[p] \ {a} ELSE waking[q]
  BY <1>0 DEF TypeOK, Wake, WakersLeft
<1>3. \A b \in Futures : place'[b] = IF b = a THEN "poll" ELSE place[b]
  BY <1>0 DEF TypeOK, Wake
<1>4. \A q \in Publishers : a \notin waking'[q]
  BY <1>0, <1>1, <1>2 DEF NotifyInv, WakersApart
<1>5. \A b \in Futures, q \in Publishers :
         b # a => (b \in waking'[q] <=> b \in waking[q])
  BY <1>2
<1>6. \A q \in Publishers : waking[q] \subseteq Futures
  BY <1>0 DEF TypeOK
<1>7. WakersAsleep'
  BY <1>0, <1>1, <1>2, <1>3, <1>4, <1>6 DEF NotifyInv, WakersAsleep
<1>8. WakersApart'
  BY <1>0, <1>2 DEF NotifyInv, WakersApart
<1>9. AwaitersPublish'
  BY <1>0, <1>1, <1>2, <1>3
  DEF NotifyInv, AwaitersPublish, Publishing, Futures, Publishers
<1>10. HintOnTheWay'
  BY <1>0, <1>1, <1>3 DEF NotifyInv, HintOnTheWay, Futures
<1>11. HintWakes' /\ EndWakes'
  BY <1>0, <1>1, <1>3, <1>5 DEF NotifyInv, HintWakes, EndWakes, Futures
<1>12. EndPublished' /\ EndIsReal'
  BY <1>0, <1>1, <1>3 DEF NotifyInv, EndPublished, EndIsReal, Futures
<1>13. QED
  BY <1>7, <1>8, <1>9, <1>10, <1>11, <1>12 DEF NotifyInv

LEMMA ContinuationsKeepNotifyInv ==
    ASSUME AsyncInv, NEW p \in Threads, Continue(p)
    PROVE  NotifyInv'
<1>0. TypeOK /\ NotifyInv
  BY DEF AsyncInv, WorkInv
<1>1. CASE Unlock(p) \/ SpawnSuccessor(p)
  BY <1>0, <1>1, StutterIsSame, SilentStepKeepsNotifyInv
  DEF Unlock, SpawnSuccessor, futureVars
<1>2. CASE SendCapacity(p)
  BY <1>2, SendCapacityKeepsNotifyInv
<1>3. CASE Publish(p)
  BY <1>3, SendTerminationKeepsNotifyInv, WakeKeepsNotifyInv
  DEF Publish, Publishers
<1>4. ASSUME NEW t \in jobs[p], FinishCancelling(p, t)
      PROVE  NotifyInv'
  <2>1. IsTerminated => IsTerminated'
    BY <1>4, FinishCancellingKeepsWork, TerminationStays DEF AsyncInv
  <2>2. QED
    BY <1>0, <1>4, <2>1, NotifyKeepsNotifyInv DEF FinishCancelling
<1>5. QED
  BY <1>1, <1>2, <1>3, <1>4 DEF Continue

(* A producer that is awake moves on.  It goes to sleep only with nothing  *)
(* unseen; a careful one leaves an attempt for changed() only if it was    *)
(* Saturated, and does not mark a hint as seen between the two.            *)
LEMMA ProducerMoveKeepsNotifyInv ==
    ASSUME AsyncInv, NEW a \in Producers, SameForWaiters,
           UNCHANGED <<pending, waking, termination_tx>>,
           place[a] # "asleep",
           \A b \in Futures \ {a} : place'[b] = place[b],
           \A b \in Futures \ {a} : b \in unseen' <=> b \in unseen,
           place'[a] = "asleep" =>
               /\ place[a] \in {"saturated", "poll"}
               /\ a \notin unseen /\ a \notin unseen',
           a \notin Careless /\ place'[a] \in {"saturated", "poll"} =>
               \/ AdmitOutcome' = "Saturated"
               \/ place[a] = "saturated" /\ (a \in unseen => a \in unseen')
    PROVE  NotifyInv'
<1>0. TypeOK /\ NotifyInv /\ a \notin Awaiters
  BY NotificationAssumption DEF AsyncInv, WorkInv
<1>1. \A p \in Publishers : a \notin waking[p] /\ waking[p] \subseteq Futures
  BY <1>0 DEF TypeOK, NotifyInv, WakersAsleep
<1>2. WakersAsleep' /\ WakersApart'
  BY <1>0, <1>1 DEF NotifyInv, WakersAsleep, WakersApart
<1>3. AwaitersPublish'
  BY <1>0 DEF NotifyInv, AwaitersPublish, Publishing, Futures
<1>4. HintOnTheWay'
  <2>1. ASSUME NEW b \in Producers \ Careless, b # a,
               place'[b] \in {"saturated", "poll", "asleep"},
               AdmitOutcome' # "Saturated"
        PROVE  b \in unseen' \/ \E p \in Publishers : "capacity" \in pending'[p]
    BY <1>0, <2>1 DEF NotifyInv, HintOnTheWay, SameForWaiters, Futures
  <2>2. ASSUME a \notin Careless,
               place'[a] \in {"saturated", "poll", "asleep"},
               AdmitOutcome' # "Saturated"
        PROVE  a \in unseen' \/ \E p \in Publishers : "capacity" \in pending'[p]
    BY <1>0, <2>2 DEF NotifyInv, HintOnTheWay, SameForWaiters
  <2>3. QED
    BY <2>1, <2>2 DEF HintOnTheWay
<1>5. HintWakes' /\ EndWakes'
  BY <1>0 DEF NotifyInv, HintWakes, EndWakes, Futures
<1>6. EndPublished' /\ EndIsReal'
  BY <1>0 DEF NotifyInv, EndPublished, EndIsReal, SameForWaiters, Futures
<1>7. QED
  BY <1>2, <1>3, <1>4, <1>5, <1>6 DEF NotifyInv

LEMMA DropKeepsNotifyInv ==
    ASSUME AsyncInv, NEW a \in Futures, DropFuture(a)
    PROVE  NotifyInv'
<1>0. TypeOK /\ NotifyInv /\ Producers \intersect Awaiters = {}
  BY NotificationAssumption DEF AsyncInv, WorkInv
<1>1. /\ pending' = pending /\ termination_tx' = termination_tx
      /\ AdmitOutcome' = AdmitOutcome /\ IsTerminated' = IsTerminated
  BY DEF DropFuture, stateVars, AdmitOutcome, IsTerminated, occupied
<1>2. \A b \in Futures : place'[b] = IF b = a THEN "idle" ELSE place[b]
  BY <1>0 DEF TypeOK, DropFuture, Leave
<1>3. \A q \in Publishers : waking'[q] = waking[q] \ {a}
  BY DEF DropFuture
<1>4. unseen' = unseen \ {a}
  BY DEF DropFuture, Leave
<1>5. \A q \in Publishers : waking[q] \subseteq Futures
  BY <1>0 DEF TypeOK
<1>6. WakersAsleep' /\ WakersApart'
  BY <1>0, <1>1, <1>2, <1>3, <1>4, <1>5
  DEF NotifyInv, WakersAsleep, WakersApart
<1>7. AwaitersPublish'
  BY <1>0, <1>1, <1>2, <1>3
  DEF NotifyInv, AwaitersPublish, Publishing, DropFuture, Futures, Publishers
<1>8. HintOnTheWay'
  BY <1>0, <1>1, <1>2, <1>4 DEF NotifyInv, HintOnTheWay, Futures
<1>9. HintWakes' /\ EndWakes'
  BY <1>0, <1>1, <1>2, <1>3, <1>4 DEF NotifyInv, HintWakes, EndWakes, Futures
<1>10. EndPublished' /\ EndIsReal'
  BY <1>0, <1>1, <1>2 DEF NotifyInv, EndPublished, EndIsReal, Futures
<1>11. QED
  BY <1>6, <1>7, <1>8, <1>9, <1>10 DEF NotifyInv

LEMMA ProducersKeepNotifyInv ==
    ASSUME AsyncInv, NEW a \in Producers, Produce(a)
    PROVE  NotifyInv'
<1>0. TypeOK /\ NotifyInv /\ a \in Futures
  BY DEF AsyncInv, WorkInv, Futures
<1>1. CASE SubscribeCapacity(a)
  BY <1>0, <1>1, StutterIsSame, ProducerMoveKeepsNotifyInv
  DEF SubscribeCapacity, TypeOK, threadVars
<1>2. CASE \E marks_seen \in BOOLEAN : Borrow(a, marks_seen)
  BY <1>0, <1>2, StutterIsSame, ProducerMoveKeepsNotifyInv
  DEF Borrow, HasReceiver, MayMarkSeen, threadVars
<1>3. CASE Release(a)
  BY <1>0, <1>3, StutterIsSame, SilentStepKeepsNotifyInv
  DEF Release, threadVars
<1>4. CASE \E seen \in BOOLEAN : Mark(a, seen)
  BY <1>0, <1>4, StutterIsSame, ProducerMoveKeepsNotifyInv
  DEF Mark, HasReceiver, MayMarkSeen, threadVars
<1>5. CASE RetryAccepted(a)
  BY <1>0, <1>5, AdmitIsSame, ProducerMoveKeepsNotifyInv
  DEF RetryAccepted, AdmitAndDispatch, Leave, TypeOK
<1>6. CASE RetryRefused(a)
  BY <1>0, <1>6, StutterIsSame, ProducerMoveKeepsNotifyInv
  DEF RetryRefused, Leave, TypeOK, threadVars
<1>7. CASE RetrySaturated(a)
  <2>1. AdmitOutcome' = "Saturated"
    BY <1>7 DEF RetrySaturated, stateVars, AdmitOutcome, occupied
  <2>2. QED
    BY <1>0, <1>7, <2>1, StutterIsSame, ProducerMoveKeepsNotifyInv
    DEF RetrySaturated, TypeOK, threadVars
<1>8. CASE PollChanged(a)
  <2>1. place'[a] = IF a \in unseen THEN "retry" ELSE "asleep"
    BY <1>0, <1>8 DEF PollChanged, TypeOK
  <2>2. QED
    BY <1>0, <1>8, <2>1, StutterIsSame, ProducerMoveKeepsNotifyInv
    DEF PollChanged, TypeOK, threadVars
<1>9. CASE DropFuture(a)
  BY <1>0, <1>9, DropKeepsNotifyInv
<1>10. QED
  BY <1>1, <1>2, <1>3, <1>4, <1>5, <1>6, <1>7, <1>8, <1>9 DEF Produce, Retry

(* An awaiter that does not publish moves on.  It goes to sleep only       *)
(* before the value is published, and is done only after.                  *)
LEMMA AwaiterMoveKeepsNotifyInv ==
    ASSUME AsyncInv, NEW a \in Awaiters,
           UNCHANGED <<stateVars, pending, waking, unseen, termination_tx>>,
           place[a] # "asleep", ~Publishing(a),
           \A b \in Futures \ {a} : place'[b] = place[b],
           place'[a] = "asleep" => ~termination_tx,
           place'[a] = "done" => termination_tx
    PROVE  NotifyInv'
<1>0. TypeOK /\ NotifyInv /\ a \notin Producers
  BY NotificationAssumption DEF AsyncInv, WorkInv
<1>1. AdmitOutcome' = AdmitOutcome /\ IsTerminated' = IsTerminated
  BY DEF stateVars, AdmitOutcome, IsTerminated, occupied
<1>2. \A p \in Publishers : a \notin waking[p] /\ waking[p] \subseteq Futures
  BY <1>0 DEF TypeOK, NotifyInv, WakersAsleep
<1>3. WakersAsleep' /\ WakersApart'
  BY <1>0, <1>2 DEF NotifyInv, WakersAsleep, WakersApart
<1>4. AwaitersPublish'
  BY <1>0 DEF NotifyInv, AwaitersPublish, Publishing, Futures
<1>5. HintOnTheWay' /\ HintWakes'
  BY <1>0, <1>1 DEF NotifyInv, HintOnTheWay, HintWakes, Futures
<1>6. EndWakes'
  BY <1>0 DEF NotifyInv, EndWakes, Futures
<1>7. EndPublished' /\ EndIsReal'
  BY <1>0, <1>1 DEF NotifyInv, EndPublished, EndIsReal, Futures
<1>8. QED
  BY <1>3, <1>4, <1>5, <1>6, <1>7 DEF NotifyInv

(* The check under the mutex repairs the value only after the end.         *)
LEMMA CheckKeepsNotifyInv ==
    ASSUME AsyncInv, NEW a \in Awaiters, CheckTermination(a)
    PROVE  NotifyInv'
<1>0. /\ TypeOK /\ NotifyInv /\ a \notin Producers
      /\ a \in Publishers /\ a \in Futures
  BY NotificationAssumption DEF AsyncInv, WorkInv, Publishers, Futures
<1>1. /\ place[a] = "check"
      /\ waking' = waking /\ unseen' = unseen /\ termination_tx' = termination_tx
      /\ AdmitOutcome' = AdmitOutcome /\ IsTerminated' = IsTerminated
  BY DEF CheckTermination, stateVars, AdmitOutcome, IsTerminated, occupied
<1>2. /\ \A b \in Futures : place'[b] = IF b = a THEN "poll" ELSE place[b]
      /\ \A q \in Publishers :
            pending'[q] = IF q # a THEN pending[q]
                          ELSE IF IsTerminated THEN {"termination"} ELSE {}
  BY <1>0 DEF TypeOK, CheckTermination
<1>3. pending[a] = {} /\ waking[a] = {}
  BY <1>0, <1>1 DEF NotifyInv, AwaitersPublish, Publishing
<1>4. \A p \in Publishers : a \notin waking[p] /\ waking[p] \subseteq Futures
  BY <1>0, <1>1 DEF TypeOK, NotifyInv, WakersAsleep
<1>5. WakersAsleep' /\ WakersApart'
  BY <1>0, <1>1, <1>2, <1>4 DEF NotifyInv, WakersAsleep, WakersApart
<1>6. AwaitersPublish'
  BY <1>0, <1>1, <1>2
  DEF NotifyInv, AwaitersPublish, Publishing, Futures, Publishers
<1>7. HintOnTheWay'
  BY <1>0, <1>1, <1>2, <1>3 DEF NotifyInv, HintOnTheWay, Futures
<1>8. HintWakes' /\ EndWakes'
  BY <1>0, <1>1, <1>2 DEF NotifyInv, HintWakes, EndWakes, Futures
<1>9. EndPublished' /\ EndIsReal'
  BY <1>0, <1>1, <1>2, <1>3 DEF NotifyInv, EndPublished, EndIsReal, Futures
<1>10. QED
  BY <1>5, <1>6, <1>7, <1>8, <1>9 DEF NotifyInv

LEMMA AwaitersKeepNotifyInv ==
    ASSUME AsyncInv, NEW a \in Awaiters, Await(a)
    PROVE  NotifyInv'
<1>0. TypeOK /\ NotifyInv /\ a \in Futures /\ a \in Publishers
  BY DEF AsyncInv, WorkInv, Futures, Publishers
<1>1. CASE AwaitTermination(a)
  <2>1. place[a] # "asleep" /\ ~Publishing(a)
    BY <1>0, <1>1 DEF AwaitTermination, NotifyInv, AwaitersPublish
  <2>2. QED
    BY <1>0, <1>1, <2>1, AwaiterMoveKeepsNotifyInv
    DEF AwaitTermination, TypeOK, threadVars
<1>2. CASE CheckTermination(a)
  BY <1>2, CheckKeepsNotifyInv
<1>3. CASE Publish(a)
  BY <1>0, <1>3, SendTerminationKeepsNotifyInv, WakeKeepsNotifyInv
  DEF Publish
<1>4. CASE PollTermination(a)
  <2>1. place'[a] = IF termination_tx THEN "done" ELSE "asleep"
    BY <1>0, <1>4 DEF PollTermination, TypeOK
  <2>2. QED
    BY <1>0, <1>4, <2>1, AwaiterMoveKeepsNotifyInv
    DEF PollTermination, TypeOK, threadVars
<1>5. CASE DropFuture(a)
  BY <1>0, <1>5, DropKeepsNotifyInv
<1>6. QED
  BY <1>1, <1>2, <1>3, <1>4, <1>5 DEF Await

-----------------------------------------------------------------------------
LEMMA InitEstablishesAsyncInv == Init => AsyncInv
<1> SUFFICES ASSUME Init PROVE AsyncInv
  OBVIOUS
<1>1. ~IsTerminated
  BY DEF Init, StateInit, IsTerminated
<1>2. NotifyInv
  BY <1>1
  DEF Init, NotifyInv, WakersAsleep, WakersApart, AwaitersPublish, Publishing,
      HintOnTheWay, HintWakes, EndWakes, EndPublished, EndIsReal, Publishers,
      Futures
<1>3. QED
  BY <1>2, InitEstablishesWork DEF AsyncInv

LEMMA NextKeepsAsyncInv == AsyncInv /\ [Next]_vars => AsyncInv'
<1> SUFFICES ASSUME AsyncInv, [Next]_vars PROVE AsyncInv'
  OBVIOUS
<1>1. WorkInv'
  BY NextKeepsWork DEF AsyncInv
<1>2. NotifyInv'
  <2>1. CASE UNCHANGED vars
    BY <2>1, StutterIsSame, SilentStepKeepsNotifyInv
    DEF AsyncInv, vars, threadVars, futureVars
  <2>2. CASE Next
    BY <2>2, CallsKeepNotifyInv, ContinuationsKeepNotifyInv,
       WorkersKeepNotifyInv, ProducersKeepNotifyInv, AwaitersKeepNotifyInv
    DEF Next
  <2>3. QED
    BY <2>1, <2>2
<1>3. QED
  BY <1>1, <1>2 DEF AsyncInv

THEOREM AsyncInvariant == Spec => []AsyncInv
<1>1. Init => AsyncInv
  BY InitEstablishesAsyncInv
<1>2. AsyncInv /\ [Next]_vars => AsyncInv'
  BY NextKeepsAsyncInv
<1>3. QED
  BY <1>1, <1>2, PTL DEF Spec

(* No careful producer sleeps through the hint that would let its attempt  *)
(* in, however publications are delayed and ordered (capacity_changes,     *)
(* notify_async_changes).                                                  *)
THEOREM ProducersAreNotForgotten == Spec => []ProducerNotForgotten
<1>1. AsyncInv => ProducerNotForgotten
  BY DEF AsyncInv, NotifyInv, HintOnTheWay, HintWakes, ProducerNotForgotten
<1>2. QED
  BY <1>1, AsyncInvariant, PTL

(* No awaiter sleeps through termination, whichever of its subscription,   *)
(* its check and the publication came first (subscribe_termination).       *)
THEOREM AwaitersAreNotForgotten == Spec => []AwaiterNotForgotten
<1>1. AsyncInv => AwaiterNotForgotten
  BY DEF AsyncInv, NotifyInv, EndPublished, EndWakes, AwaiterNotForgotten
<1>2. QED
  BY <1>1, AsyncInvariant, PTL

(* The published end is the end: await_termination never returns early.    *)
THEOREM AwaitedTerminationIsTrue == Spec => []AwaitedTerminationIsReal
<1>1. AsyncInv => AwaitedTerminationIsReal
  BY DEF AsyncInv, NotifyInv, EndIsReal, AwaitedTerminationIsReal
<1>2. QED
  BY <1>1, AsyncInvariant, PTL

-----------------------------------------------------------------------------
(* Rest.  A thread takes the mutex with no waker left to call and calls    *)
(* none before it has dropped the guard.                                   *)
LockBeforeWakers == \A p \in holding : waking[p] = {}

LEMMA CallsKeepLockBeforeWakers ==
    ASSUME LockBeforeWakers, NEW p \in Threads, Call(p) \/ TakeNothing(p)
    PROVE  LockBeforeWakers'
BY DEF LockBeforeWakers, Call, Submit, AdmitAndDispatch, CancelPending,
       Shutdown, Stop, TakeNothing, NotifyAfter, Free, Quiet, Publishing,
       futureVars

LEMMA ContinuationsKeepLockBeforeWakers ==
    ASSUME TypeOK, LockBeforeWakers, NEW p \in Threads, Continue(p)
    PROVE  LockBeforeWakers'
<1>1. CASE Unlock(p)
  BY <1>1 DEF Unlock, LockBeforeWakers
<1>2. CASE SendCapacity(p) \/ SendTermination(p)
  BY <1>2
  DEF SendCapacity, SendTermination, MayPublish, LockBeforeWakers, TypeOK,
      Publishers
<1>3. ASSUME NEW a \in Futures, Wake(p, a)
      PROVE  LockBeforeWakers'
  BY <1>3 DEF Wake, WakersLeft, LockBeforeWakers, TypeOK
<1>4. CASE SpawnSuccessor(p)
  BY <1>4 DEF SpawnSuccessor, futureVars, LockBeforeWakers
<1>5. CASE \E t \in jobs[p] : FinishCancelling(p, t)
  BY <1>5
  DEF FinishCancelling, NotifyAfter, Quiet, Publishing, LockBeforeWakers,
      futureVars
<1>6. QED
  BY <1>1, <1>2, <1>3, <1>4, <1>5 DEF Continue, Publish

LEMMA FuturesKeepLockBeforeWakers ==
    ASSUME TypeOK, LockBeforeWakers,
           (\E a \in Producers : Produce(a)) \/ (\E a \in Awaiters : Await(a))
    PROVE  LockBeforeWakers'
<1>1. ASSUME NEW a \in Producers, Produce(a), ~DropFuture(a)
      PROVE  holding' = holding /\ waking' = waking
  BY <1>1
  DEF Produce, Retry, SubscribeCapacity, Borrow, Release, Mark, RetryAccepted,
      AdmitAndDispatch, RetryRefused, RetrySaturated, PollChanged, threadVars
<1>2. ASSUME NEW a \in Futures, DropFuture(a)
      PROVE  LockBeforeWakers'
  BY <1>2 DEF DropFuture, LockBeforeWakers, TypeOK, Publishers
<1>3. ASSUME NEW a \in Awaiters,
             AwaitTermination(a) \/ CheckTermination(a) \/ PollTermination(a)
      PROVE  holding' = holding /\ waking' = waking
  BY <1>3 DEF AwaitTermination, CheckTermination, PollTermination, threadVars
<1>4. ASSUME NEW a \in Awaiters, Publish(a)
      PROVE  LockBeforeWakers'
  <2>1. CASE SendTermination(a)
    BY <2>1 DEF SendTermination, MayPublish, LockBeforeWakers, TypeOK
  <2>2. ASSUME NEW b \in Futures, Wake(a, b)
        PROVE  LockBeforeWakers'
    BY <2>2 DEF Wake, WakersLeft, LockBeforeWakers, TypeOK
  <2>3. QED
    BY <1>4, <2>1, <2>2 DEF Publish
<1>5. QED
  BY <1>1, <1>2, <1>3, <1>4 DEF Produce, Await, Futures, LockBeforeWakers

LEMMA NextKeepsLockBeforeWakers ==
    ASSUME TypeOK, LockBeforeWakers, [Next]_vars
    PROVE  LockBeforeWakers'
<1>1. CASE TakeNext \/ UNCHANGED vars
  BY <1>1 DEF TakeNext, vars, threadVars, LockBeforeWakers
<1>2. ASSUME NEW t \in running_tasks, NEW p \in Threads, FinishRunning(p, t)
      PROVE  LockBeforeWakers'
  BY <1>2
  DEF FinishRunning, NotifyAfter, Free, Quiet, Publishing, LockBeforeWakers
<1>3. QED
  BY <1>1, <1>2, CallsKeepLockBeforeWakers, ContinuationsKeepLockBeforeWakers,
     FuturesKeepLockBeforeWakers
  DEF Next, Finish

(* If no step is left, no thread is in the middle of anything: whoever     *)
(* holds the mutex can drop it, and then nobody waits for anybody but for  *)
(* a reader that can drop its Ref.                                         *)
LEMMA NobodyIsBusy ==
    ASSUME AsyncInv, LockBeforeWakers, ~CanGoOn
    PROVE  /\ MutexFree
           /\ \A p \in Publishers : pending[p] = {} /\ waking[p] = {}
           /\ \A p \in Threads : Free(p)
<1>0. TypeOK /\ NotifyInv
  BY DEF AsyncInv, WorkInv
<1>1. MutexFree
  BY DEF CanGoOn, CanUnlock, LockBeforeWakers, MutexFree
<1>2. \A p \in Publishers : waking[p] = {}
  BY <1>1 DEF CanGoOn, CanWake
<1>3. \A p \in Publishers : pending[p] = {}
  <2> SUFFICES ASSUME NEW p \in Publishers, pending[p] # {} PROVE FALSE
    OBVIOUS
  <2>1. pending[p] \in SUBSET {"capacity", "termination"}
    BY <1>0 DEF TypeOK
  <2>2. MayPublish(p) /\ waking[p] = {} /\ borrowed = {}
    BY <1>1, <1>2 DEF MayPublish, MutexFree, CanGoOn
  <2>3. CASE "capacity" \in pending[p]
    <3>1. p \in Threads
      BY <1>0, <2>3 DEF NotifyInv, AwaitersPublish, Publishers
    <3>2. QED
      BY <2>2, <2>3, <3>1 DEF CanGoOn, CanSend
  <2>4. CASE "capacity" \notin pending[p]
    <3>1. pending[p] = {"termination"}
      BY <2>1, <2>4
    <3>2. QED
      BY <2>2, <3>1 DEF CanGoOn, CanSend
  <2>5. QED
    BY <2>3, <2>4
<1>4. \A p \in Threads : Quiet(p)
  BY <1>1, <1>2, <1>3 DEF Quiet, Publishing, MutexFree, Publishers
<1>5. \A p \in Threads : p \notin successor /\ jobs[p] = {}
  BY <1>1, <1>4 DEF CanGoOn, CanSettle
<1>6. QED
  BY <1>1, <1>2, <1>3, <1>4, <1>5 DEF Free

(* Then no closure is left in the pool and no task runs, so that by what   *)
(* threads owe and by the reservations nothing is left at all.             *)
LEMMA NothingIsLeft ==
    ASSUME AsyncInv, LockBeforeWakers, ~CanGoOn
    PROVE  occupied = 0 /\ scheduled = 0
<1>0. TypeOK /\ StateInv /\ StateTypeOK /\ NothingDropped
  BY DEF AsyncInv, WorkInv, TypeOK
<1>1. MutexFree /\ \E p \in Threads : Free(p)
  BY NobodyIsBusy, NotificationAssumption
<1>2. running_tasks = {}
  BY <1>1 DEF CanGoOn, CanFinish
<1>3. spawned = 0
  <2>1. \/ ~(\E t \in queue : Oldest(t)) /\ queue # {}
        \/ ~(spawned > 0)
    BY <1>1 DEF CanGoOn, CanTake
  <2>2. queue \in SUBSET Nat
    BY <1>0, ConfigAssumption DEF StateTypeOK, TaskIds
  <2>3. queue # {} => \E t \in queue : Oldest(t)
    BY <2>2, OldestExists DEF Oldest
  <2>4. QED
    BY <1>0, <2>1, <2>3 DEF TypeOK
<1>4. running = 0
  BY <1>0, <1>2, FS_EmptySet DEF StateInv, OwnershipConsistent
<1>5. successor = {} /\ cancelling = {}
  BY <1>0, NobodyIsBusy DEF Free, TypeOK, NothingDropped
<1>6. scheduled = 0
  BY <1>0, <1>3, <1>4, <1>5, FS_EmptySet DEF NothingDropped
<1>7. Cardinality(queue) = 0
  BY <1>0, <1>4, <1>6, Sizes, ConfigAssumption
  DEF StateInv, WorkIsReserved, Min2
<1>8. occupied = 0
  BY <1>4, <1>5, <1>7, FS_EmptySet DEF occupied
<1>9. QED
  BY <1>6, <1>8

(* Notifications come to rest only when everything accepted is finished,   *)
(* no hint is owed to anybody and the end of a closed service is published *)
(* (notify_async_changes, PanicIsolatingWake, dispatch, finish_running).   *)
THEOREM RestFindsNobodyWaiting == Spec => []RestIsClean
<1>1. ASSUME AsyncInv, LockBeforeWakers, ~CanGoOn
      PROVE  /\ occupied = 0 /\ scheduled = 0
             /\ \A a \in Producers \ Careless : place[a] # "asleep"
             /\ lifecycle # "Running" =>
                   termination_tx /\ \A a \in Awaiters : place[a] # "asleep"
  <2>1. occupied = 0 /\ scheduled = 0
    BY <1>1, NothingIsLeft
  <2>2. AdmitOutcome # "Saturated"
    BY <2>1, ConfigAssumption DEF AdmitOutcome
  <2>3. \A p \in Publishers : pending[p] = {} /\ waking[p] = {}
    BY <1>1, NobodyIsBusy
  <2>4. \A a \in Producers \ Careless : place[a] # "asleep"
    BY <1>1, <2>2, <2>3 DEF AsyncInv, NotifyInv, HintOnTheWay, HintWakes
  <2>5. lifecycle # "Running" => termination_tx
    BY <1>1, <2>1, <2>3 DEF IsTerminated, AsyncInv, NotifyInv, EndPublished
  <2>6. lifecycle # "Running" => \A a \in Awaiters : place[a] # "asleep"
    BY <1>1, <2>3, <2>5 DEF AsyncInv, NotifyInv, EndWakes
  <2>7. QED
    BY <2>1, <2>4, <2>5, <2>6
<1>2. AsyncInv /\ LockBeforeWakers => RestIsClean
  BY <1>1 DEF RestIsClean
<1>3. Init => LockBeforeWakers
  BY DEF Init, LockBeforeWakers
<1>4. AsyncInv /\ LockBeforeWakers /\ [Next]_vars => LockBeforeWakers'
  BY NextKeepsLockBeforeWakers DEF AsyncInv, WorkInv
<1>5. Spec => []LockBeforeWakers
  BY <1>3, <1>4, AsyncInvariant, PTL DEF Spec
<1>6. QED
  BY <1>2, <1>5, AsyncInvariant, PTL

-----------------------------------------------------------------------------
(* Work.  The parts of the stock in their order: a step that makes one of  *)
(* them fewer and leaves those before it alone spends work.                *)
LEMMA PartIsSpent ==
    ASSUME \/ Fewer(Subscribed', Subscribed)
           \/ /\ UNCHANGED Subscribed
              /\ Fewer(queue', queue)
           \/ /\ UNCHANGED <<Subscribed, queue>>
              /\ \/ Fewer(InHand', InHand)
                 \/ /\ UNCHANGED InHand
                    /\ \/ Fewer(successor', successor)
                       \/ /\ UNCHANGED successor
                          /\ spawned \in Nat /\ spawned' \in Nat
                          /\ spawned' < spawned
    PROVE  SpendsWork
<1>1. CASE Fewer(Subscribed', Subscribed)
  <2>1. Fewer(Stock'[1], Stock[1]) /\ \A j \in 1 .. 0 : Stock'[j] = Stock[j]
    BY <1>1 DEF Stock
  <2>2. QED
    BY <2>1 DEF SpendsWork
<1>2. CASE UNCHANGED Subscribed /\ Fewer(queue', queue)
  <2>1. Fewer(Stock'[2], Stock[2]) /\ \A j \in 1 .. 2 - 1 : Stock'[j] = Stock[j]
    BY <1>2 DEF Stock
  <2>2. QED
    BY <2>1 DEF SpendsWork
<1>3. CASE UNCHANGED <<Subscribed, queue>> /\ Fewer(InHand', InHand)
  <2>1. Fewer(Stock'[3], Stock[3]) /\ \A j \in 1 .. 3 - 1 : Stock'[j] = Stock[j]
    BY <1>3 DEF Stock
  <2>2. QED
    BY <2>1 DEF SpendsWork
<1>4. CASE UNCHANGED <<Subscribed, queue, InHand>> /\ Fewer(successor', successor)
  <2>1. Fewer(Stock'[4], Stock[4]) /\ \A j \in 1 .. 4 - 1 : Stock'[j] = Stock[j]
    BY <1>4 DEF Stock
  <2>2. QED
    BY <2>1 DEF SpendsWork
<1>5. CASE /\ UNCHANGED <<Subscribed, queue, InHand, successor>>
           /\ spawned \in Nat /\ spawned' \in Nat /\ spawned' < spawned
  <2>1. Fewer(1 .. spawned', 1 .. spawned)
    <3>1. spawned \in 1 .. spawned /\ spawned \notin 1 .. spawned'
      BY <1>5
    <3>2. 1 .. spawned' \subseteq 1 .. spawned
      BY <1>5
    <3>3. QED
      BY <3>1, <3>2 DEF Fewer
  <2>2. Stock'[5] = 1 .. spawned' /\ Stock[5] = 1 .. spawned
    BY DEF Stock
  <2>3. \A j \in 1 .. 5 - 1 : Stock'[j] = Stock[j]
    BY <1>5 DEF Stock
  <2>4. QED
    BY <2>1, <2>2, <2>3 DEF SpendsWork
<1>6. QED
  BY <1>1, <1>2, <1>3, <1>4, <1>5

(* The parts before those of a single notification.                        *)
WorkAlone == UNCHANGED <<Subscribed, queue, InHand, successor, spawned>>

LEMMA LatePartIsSpent ==
    ASSUME WorkAlone,
           \/ Fewer(Checking', Checking)
           \/ /\ UNCHANGED Checking
              /\ \/ Fewer(Unsent', Unsent)
                 \/ /\ UNCHANGED Unsent
                    /\ \/ Fewer(Uncalled', Uncalled)
                       \/ /\ UNCHANGED Uncalled
                          /\ \/ Fewer(holding', holding)
                             \/ /\ UNCHANGED holding
                                /\ Fewer(unseen', unseen)
                             \/ /\ UNCHANGED <<holding, unseen>>
                                /\ Fewer(borrowed', borrowed)
                             \/ /\ UNCHANGED <<holding, unseen, borrowed>>
                                /\ Fewer(FutureSteps', FutureSteps)
    PROVE  SpendsWork
<1>0. \A j \in 1 .. 5 : Stock'[j] = Stock[j]
  BY DEF Stock, WorkAlone
<1>1. CASE Fewer(Checking', Checking)
  <2>1. Fewer(Stock'[6], Stock[6]) /\ \A j \in 1 .. 6 - 1 : Stock'[j] = Stock[j]
    BY <1>0, <1>1 DEF Stock
  <2>2. QED
    BY <2>1 DEF SpendsWork
<1>2. CASE UNCHANGED Checking /\ Fewer(Unsent', Unsent)
  <2>1. Fewer(Stock'[7], Stock[7]) /\ \A j \in 1 .. 7 - 1 : Stock'[j] = Stock[j]
    BY <1>0, <1>2 DEF Stock
  <2>2. QED
    BY <2>1 DEF SpendsWork
<1>3. CASE UNCHANGED <<Checking, Unsent>> /\ Fewer(Uncalled', Uncalled)
  <2>1. Fewer(Stock'[8], Stock[8]) /\ \A j \in 1 .. 8 - 1 : Stock'[j] = Stock[j]
    BY <1>0, <1>3 DEF Stock
  <2>2. QED
    BY <2>1 DEF SpendsWork
<1>4. ASSUME UNCHANGED <<Checking, Unsent, Uncalled>>,
             \/ Fewer(holding', holding)
             \/ UNCHANGED holding /\ Fewer(unseen', unseen)
             \/ UNCHANGED <<holding, unseen>> /\ Fewer(borrowed', borrowed)
             \/ /\ UNCHANGED <<holding, unseen, borrowed>>
                /\ Fewer(FutureSteps', FutureSteps)
      PROVE  SpendsWork
  <2>0. \A j \in 1 .. 8 : Stock'[j] = Stock[j]
    BY <1>0, <1>4 DEF Stock
  <2>1. CASE Fewer(holding', holding)
    <3>1. Fewer(Stock'[9], Stock[9]) /\ \A j \in 1 .. 9 - 1 : Stock'[j] = Stock[j]
      BY <2>0, <2>1 DEF Stock
    <3>2. QED
      BY <3>1 DEF SpendsWork
  <2>2. CASE UNCHANGED holding /\ Fewer(unseen', unseen)
    <3>1. /\ Fewer(Stock'[10], Stock[10])
          /\ \A j \in 1 .. 10 - 1 : Stock'[j] = Stock[j]
      BY <2>0, <2>2 DEF Stock
    <3>2. QED
      BY <3>1 DEF SpendsWork
  <2>3. CASE UNCHANGED <<holding, unseen>> /\ Fewer(borrowed', borrowed)
    <3>1. /\ Fewer(Stock'[11], Stock[11])
          /\ \A j \in 1 .. 11 - 1 : Stock'[j] = Stock[j]
      BY <2>0, <2>3 DEF Stock
    <3>2. QED
      BY <3>1 DEF SpendsWork
  <2>4. CASE /\ UNCHANGED <<holding, unseen, borrowed>>
             /\ Fewer(FutureSteps', FutureSteps)
    <3>1. /\ Fewer(Stock'[12], Stock[12])
          /\ \A j \in 1 .. 12 - 1 : Stock'[j] = Stock[j]
      BY <2>0, <2>4 DEF Stock
    <3>2. QED
      BY <3>1 DEF SpendsWork
  <2>5. QED
    BY <1>4, <2>1, <2>2, <2>3, <2>4
<1>5. QED
  BY <1>1, <1>2, <1>3, <1>4

(* Steps that move no future leave the parts made of places alone.         *)
LEMMA PlacesKept ==
    ASSUME UNCHANGED place
    PROVE  UNCHANGED <<Subscribed, Checking, FutureSteps>>
BY DEF Subscribed, Checking, FutureSteps, FutureStep

LEMMA ClosuresSpend ==
    ASSUME AsyncInv,
           \/ TakeNext
           \/ \E t \in running_tasks : Finish(t)
           \/ \E p \in Threads : TakeNothing(p)
    PROVE  SpendsWork
<1>0. /\ spawned \in Nat
      /\ running_tasks \intersect cancelling = {}
  BY DEF AsyncInv, WorkInv, TypeOK, StateInv, OwnershipConsistent
<1>1. CASE TakeNext
  <2>1. PICK t \in queue : take_next(t)
    BY <1>1 DEF TakeNext
  <2>2. Fewer(queue', queue)
    BY <2>1 DEF take_next, Fewer
  <2>3. QED
    BY <1>1, <2>2, PlacesKept, PartIsSpent DEF TakeNext, futureVars
<1>2. ASSUME NEW t \in running_tasks, NEW p \in Threads, FinishRunning(p, t)
      PROVE  SpendsWork
  <2>1. UNCHANGED <<queue, cancelling>> /\ running_tasks' = running_tasks \ {t}
    BY <1>2 DEF FinishRunning, finish_running
  <2>2. Fewer(InHand', InHand)
    BY <1>0, <2>1 DEF InHand, Fewer
  <2>3. UNCHANGED place
    BY <1>2 DEF FinishRunning, NotifyAfter, futureVars
  <2>4. QED
    BY <2>1, <2>2, <2>3, PlacesKept, PartIsSpent
<1>3. ASSUME NEW p \in Threads, TakeNothing(p)
      PROVE  SpendsWork
  <2>1. UNCHANGED <<queue, InHand, successor, place>>
    BY <1>3 DEF TakeNothing, take_nothing, NotifyAfter, InHand, futureVars
  <2>2. spawned' \in Nat /\ spawned' < spawned
    BY <1>0, <1>3 DEF TakeNothing
  <2>3. QED
    BY <1>0, <2>1, <2>2, PlacesKept, PartIsSpent
<1>4. QED
  BY <1>1, <1>2, <1>3 DEF Finish

(* A waker that is called moves a sleeper, which is neither unsubscribed   *)
(* nor to be checked again.                                                *)
LEMMA PublicationsSpend ==
    ASSUME AsyncInv, NEW p \in Publishers,
           SendCapacity(p) \/ SendTermination(p) \/ \E a \in Futures : Wake(p, a)
    PROVE  SpendsWork
<1>0. TypeOK /\ NotifyInv
  BY DEF AsyncInv, WorkInv
<1>1. CASE SendTermination(p) \/ SendCapacity(p)
  <2>1. PICK c \in Channels :
            c \in pending[p] /\ pending' = [pending EXCEPT ![p] = @ \ {c}]
    <3>1. CASE SendTermination(p)
      BY <3>1 DEF SendTermination, Channels
    <3>2. CASE SendCapacity(p)
      BY <3>2 DEF SendCapacity, Channels
    <3>3. QED
      BY <1>1, <3>1, <3>2
  <2>2. Unsent' = Unsent \ {<<p, c>>} /\ <<p, c>> \in Unsent
    BY <1>0, <2>1 DEF Unsent, TypeOK
  <2>3. UNCHANGED <<stateVars, successor, spawned, place>>
    BY <1>1 DEF SendTermination, SendCapacity
  <2>4. WorkAlone /\ UNCHANGED Checking
    BY <2>3, PlacesKept DEF WorkAlone, stateVars, InHand
  <2>5. QED
    BY <2>2, <2>4, LatePartIsSpent DEF Fewer
<1>2. ASSUME NEW a \in Futures, Wake(p, a)
      PROVE  SpendsWork
  <2>1. place[a] = "asleep" /\ place' = [place EXCEPT ![a] = "poll"]
    BY <1>0, <1>2 DEF Wake, NotifyInv, WakersAsleep
  <2>2. UNCHANGED <<Subscribed, Checking>>
    BY <1>0, <2>1 DEF Subscribed, Checking, TypeOK, Futures
  <2>3. Uncalled' = Uncalled \ {<<p, a>>} /\ <<p, a>> \in Uncalled
    BY <1>0, <1>2 DEF Uncalled, Wake, WakersLeft, TypeOK
  <2>4. WorkAlone /\ UNCHANGED Unsent
    BY <1>2, <2>2 DEF Wake, WorkAlone, stateVars, InHand, Unsent
  <2>5. QED
    BY <2>2, <2>3, <2>4, LatePartIsSpent DEF Fewer
<1>3. QED
  BY <1>1, <1>2

(* What a thread owes after its publications is a closure or a job.        *)
LEMMA ContinuationsSpend ==
    ASSUME AsyncInv, NEW p \in Threads, Continue(p)
    PROVE  SpendsWork
<1>0. TypeOK /\ NothingDropped
  BY DEF AsyncInv, WorkInv
<1>1. CASE Unlock(p)
  <2>1. Fewer(holding', holding)
    BY <1>1 DEF Unlock, Fewer
  <2>2. UNCHANGED <<stateVars, pending, waking, spawned, successor, place>>
    BY <1>1 DEF Unlock, futureVars
  <2>3. WorkAlone /\ UNCHANGED <<Checking, Unsent, Uncalled>>
    BY <2>2, PlacesKept DEF WorkAlone, stateVars, InHand, Unsent, Uncalled
  <2>4. QED
    BY <2>1, <2>3, LatePartIsSpent
<1>2. CASE SendCapacity(p) \/ Publish(p)
  BY <1>2, PublicationsSpend DEF Publish, Publishers
<1>3. CASE SpawnSuccessor(p)
  <2>1. Fewer(successor', successor)
    BY <1>3 DEF SpawnSuccessor, Fewer
  <2>2. UNCHANGED <<queue, InHand, place>>
    BY <1>3 DEF SpawnSuccessor, stateVars, InHand, futureVars
  <2>3. QED
    BY <2>1, <2>2, PlacesKept, PartIsSpent
<1>4. ASSUME NEW t \in jobs[p], FinishCancelling(p, t)
      PROVE  SpendsWork
  <2>1. t \in cancelling /\ t \notin running_tasks
    BY <1>0 DEF NothingDropped, AsyncInv, WorkInv, StateInv, OwnershipConsistent
  <2>2. /\ UNCHANGED <<queue, running_tasks, place>>
        /\ cancelling' = cancelling \ {t}
    BY <1>4 DEF FinishCancelling, finish_cancelling, NotifyAfter, futureVars
  <2>3. Fewer(InHand', InHand)
    BY <2>1, <2>2 DEF InHand, Fewer
  <2>4. QED
    BY <2>2, <2>3, PlacesKept, PartIsSpent
<1>5. QED
  BY <1>1, <1>2, <1>3, <1>4 DEF Continue

(* A future that moves on without a hint has fewer steps ahead.            *)
LEMMA FutureAdvances ==
    ASSUME TypeOK, NEW a \in Futures, NEW there \in Places,
           place' = [place EXCEPT ![a] = there],
           \/ place[a] = "retry" /\ there = "saturated"
           \/ place[a] \in {"saturated", "poll"} /\ there \in {"asleep", "done"}
    PROVE  Fewer(FutureSteps', FutureSteps)
<1>1. \A b \in Futures : place'[b] = IF b = a THEN there ELSE place[b]
  BY DEF TypeOK
<1>2. \A b \in Futures : FutureStep(b) \in 0 .. 2 /\ FutureStep(b)' \in 0 .. 2
  BY DEF FutureStep
<1>3. \A b \in Futures : b # a => FutureStep(b)' = FutureStep(b)
  BY <1>1 DEF FutureStep
<1>4. FutureStep(a)' < FutureStep(a)
  BY <1>1 DEF FutureStep
<1>5. /\ FutureSteps = {s \in Futures \X (1 .. 2) : s[2] <= FutureStep(s[1])}
      /\ FutureSteps' = {s \in Futures \X (1 .. 2) : s[2] <= FutureStep(s[1])'}
  BY DEF FutureSteps, FutureStep
<1>6. FutureSteps' \subseteq FutureSteps
  BY <1>2, <1>3, <1>4, <1>5
<1>7. <<a, FutureStep(a)>> \in FutureSteps /\ <<a, FutureStep(a)>> \notin FutureSteps'
  BY <1>2, <1>4, <1>5
<1>8. QED
  BY <1>6, <1>7 DEF Fewer

(* The retry loop: an attempt that is not Saturated ends it, and it comes  *)
(* back to an attempt only for a hint it has not seen.                     *)
LEMMA ProducersSpend ==
    ASSUME AsyncInv, NEW a \in Producers,
           Retry(a) \/ PollChanged(a) \/ Release(a)
    PROVE  SpendsWork
<1>0. TypeOK /\ a \in Futures /\ a \notin Awaiters
  BY NotificationAssumption DEF AsyncInv, WorkInv, Futures
<1>1. CASE RetryAccepted(a) \/ RetryRefused(a)
  <2>1. place[a] = "retry" /\ place' = [place EXCEPT ![a] = "idle"]
    BY <1>1 DEF RetryAccepted, RetryRefused, Leave
  <2>2. Subscribed' = Subscribed \ {a} /\ a \in Subscribed
    BY <1>0, <2>1 DEF Subscribed, TypeOK, Futures
  <2>3. QED
    BY <2>2, PartIsSpent DEF Fewer
<1>2. CASE RetrySaturated(a)
  <2>1. Fewer(FutureSteps', FutureSteps)
    BY <1>0, <1>2, FutureAdvances DEF RetrySaturated, Places
  <2>2. UNCHANGED <<Subscribed, Checking>>
    BY <1>0, <1>2 DEF RetrySaturated, Subscribed, Checking, TypeOK, Futures
  <2>3. /\ WorkAlone
        /\ UNCHANGED <<Unsent, Uncalled, holding, unseen, borrowed>>
    BY <1>2, <2>2
    DEF RetrySaturated, threadVars, stateVars, WorkAlone, InHand, Unsent,
        Uncalled
  <2>4. QED
    BY <2>1, <2>2, <2>3, LatePartIsSpent
<1>3. CASE PollChanged(a)
  <2>1. UNCHANGED <<Subscribed, Checking>>
    BY <1>0, <1>3 DEF PollChanged, Subscribed, Checking, TypeOK, Futures
  <2>2. /\ WorkAlone
        /\ UNCHANGED <<Unsent, Uncalled, holding, borrowed>>
    BY <1>3, <2>1
    DEF PollChanged, threadVars, stateVars, WorkAlone, InHand, Unsent, Uncalled
  <2>3. CASE a \in unseen
    <3>1. Fewer(unseen', unseen)
      BY <1>3, <2>3 DEF PollChanged, Fewer
    <3>2. QED
      BY <2>1, <2>2, <3>1, LatePartIsSpent
  <2>4. CASE a \notin unseen
    <3>1. Fewer(FutureSteps', FutureSteps)
      BY <1>0, <1>3, <2>4, FutureAdvances DEF PollChanged, Places
    <3>2. unseen' = unseen
      BY <1>3, <2>4 DEF PollChanged
    <3>3. QED
      BY <2>1, <2>2, <3>1, <3>2, LatePartIsSpent
  <2>5. QED
    BY <2>3, <2>4
<1>4. CASE Release(a)
  <2>1. Fewer(borrowed', borrowed)
    BY <1>4 DEF Release, Fewer
  <2>2. UNCHANGED <<stateVars, threadVars, place, unseen>>
    BY <1>4 DEF Release
  <2>3. WorkAlone /\ UNCHANGED <<Checking, Unsent, Uncalled, holding>>
    BY <2>2, PlacesKept
    DEF threadVars, stateVars, WorkAlone, InHand, Unsent, Uncalled
  <2>4. QED
    BY <2>1, <2>2, <2>3, LatePartIsSpent
<1>5. QED
  BY <1>1, <1>2, <1>3, <1>4 DEF Retry

(* An awaiter checks once, repairs once, and polls once for each wake-up.  *)
LEMMA AwaitersSpend ==
    ASSUME AsyncInv, NEW a \in Awaiters,
           CheckTermination(a) \/ Publish(a) \/ PollTermination(a)
    PROVE  SpendsWork
<1>0. TypeOK /\ a \in Futures /\ a \notin Producers /\ a \in Publishers
  BY NotificationAssumption DEF AsyncInv, WorkInv, Futures, Publishers
<1>1. CASE CheckTermination(a)
  <2>1. place[a] = "check" /\ place' = [place EXCEPT ![a] = "poll"]
    BY <1>1 DEF CheckTermination
  <2>2. Subscribed' = Subscribed
    BY <1>0, <2>1 DEF Subscribed, TypeOK, Futures
  <2>3. Fewer(Checking', Checking)
    <3>1. Checking' = Checking \ {a} /\ a \in Checking
      BY <1>0, <2>1 DEF Checking, TypeOK, Futures
    <3>2. QED
      BY <3>1 DEF Fewer
  <2>4. WorkAlone
    BY <1>1, <2>2 DEF CheckTermination, stateVars, WorkAlone, InHand
  <2>5. QED
    BY <2>3, <2>4, LatePartIsSpent
<1>2. CASE Publish(a)
  BY <1>0, <1>2, PublicationsSpend DEF Publish
<1>3. CASE PollTermination(a)
  <2>1. Fewer(FutureSteps', FutureSteps)
    BY <1>0, <1>3, FutureAdvances DEF PollTermination, Places
  <2>2. UNCHANGED <<Subscribed, Checking>>
    BY <1>0, <1>3 DEF PollTermination, Subscribed, Checking, TypeOK, Futures
  <2>3. /\ WorkAlone
        /\ UNCHANGED <<Unsent, Uncalled, holding, unseen, borrowed>>
    BY <1>3, <2>2
    DEF PollTermination, threadVars, stateVars, WorkAlone, InHand, Unsent,
        Uncalled
  <2>4. QED
    BY <2>1, <2>2, <2>3, LatePartIsSpent
<1>4. QED
  BY <1>1, <1>2, <1>3

(* With finitely many futures every part of the stock is finite.           *)
LEMMA StockIsFinite ==
    ASSUME AsyncInv, IsFiniteSet(Futures)
    PROVE  \A i \in 1 .. 12 :
              /\ IsFiniteSet(Stock[i])
              /\ \A S : Fewer(S, Stock[i]) =>
                     Cardinality(S) < Cardinality(Stock[i])
<1>0. TypeOK
  BY DEF AsyncInv, WorkInv
<1>1. IsFiniteSet(queue) /\ IsFiniteSet(InHand)
  <2>1. queue \in SUBSET TaskIds /\ InHand \in SUBSET TaskIds
    BY <1>0 DEF TypeOK, StateTypeOK, InHand
  <2>2. QED
    BY <2>1, TaskSetFinite
<1>2. IsFiniteSet(successor) /\ IsFiniteSet(holding)
  BY <1>0, ThreadSets DEF TypeOK
<1>3. \A S : S \subseteq Futures => IsFiniteSet(S)
  BY FS_Subset
<1>4. /\ IsFiniteSet(Subscribed) /\ IsFiniteSet(Checking)
      /\ IsFiniteSet(unseen) /\ IsFiniteSet(borrowed)
  BY <1>0, <1>3 DEF TypeOK, Subscribed, Checking, Futures
<1>5. \A n \in Nat : IsFiniteSet(1 .. n)
  BY FS_Interval
<1>6. IsFiniteSet(1 .. spawned) /\ IsFiniteSet(1 .. 2)
  BY <1>0, <1>5 DEF TypeOK
<1>7. IsFiniteSet(Publishers) /\ IsFiniteSet(Channels)
  <2>1. IsFiniteSet(Awaiters)
    BY <1>3 DEF Futures
  <2>2. IsFiniteSet({"capacity"} \union {"termination"})
    BY FS_Singleton, FS_Union
  <2>3. Channels = {"capacity"} \union {"termination"}
    BY DEF Channels
  <2>4. QED
    BY <2>1, <2>2, <2>3, NotificationAssumption, FS_Union DEF Publishers
<1>8. IsFiniteSet(Unsent) /\ IsFiniteSet(Uncalled) /\ IsFiniteSet(FutureSteps)
  <2>1. /\ IsFiniteSet(Publishers \X Channels)
        /\ IsFiniteSet(Publishers \X Futures)
        /\ IsFiniteSet(Futures \X (1 .. 2))
    BY <1>6, <1>7, FS_Product
  <2>2. /\ Unsent \subseteq Publishers \X Channels
        /\ Uncalled \subseteq Publishers \X Futures
        /\ FutureSteps \subseteq Futures \X (1 .. 2)
    BY DEF Unsent, Uncalled, FutureSteps
  <2>3. QED
    BY <2>1, <2>2, FS_Subset
<1>9. \A i \in 1 .. 12 : IsFiniteSet(Stock[i])
  BY <1>1, <1>2, <1>4, <1>6, <1>8 DEF Stock
<1>10. ASSUME NEW T, IsFiniteSet(T), NEW S, Fewer(S, T)
       PROVE  Cardinality(S) < Cardinality(T)
  <2>1. /\ Cardinality(S) <= Cardinality(T)
        /\ Cardinality(S) = Cardinality(T) => S = T
        /\ IsFiniteSet(S)
    BY <1>10, FS_Subset DEF Fewer
  <2>2. Cardinality(S) \in Nat /\ Cardinality(T) \in Nat
    BY <1>10, <2>1, FS_CardinalityType
  <2>3. QED
    BY <1>10, <2>1, <2>2 DEF Fewer
<1>11. QED
  BY <1>9, <1>10

(* Notifications do not feed on themselves: what goes on without a new     *)
(* call uses up a finite stock of work (changed, notify_async_changes,     *)
(* subscribe_termination, run_one).                                        *)
THEOREM NotificationsDoNotSpin == Spec => NotifyingSpendsWork
<1>1. AsyncInv /\ [Next]_vars => [GoesOn => SpendsWork]_vars
  BY ClosuresSpend, ContinuationsSpend, ProducersSpend, AwaitersSpend DEF GoesOn
<1>2. QED
  BY <1>1, AsyncInvariant, PTL DEF Spec, NotifyingSpendsWork
=============================================================================
