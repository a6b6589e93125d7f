------------------------- MODULE BlockingTasksProofs -------------------------
(***************************************************************************)
(* Proofs about tasks that block their worker, for both disciplines and    *)
(* every capacity, number of threads and id bound.                         *)
(*                                                                         *)
(* The pool is not stuck: if each running task waited for an unfinished    *)
(* one, look at the oldest (or, with a spare worker, the newest) of them.  *)
(* The task it waits for is older than all running ones, so it has been    *)
(* started already; or it is newer, so it is queued, and the spare worker  *)
(* has a closure for it.                                                   *)
(***************************************************************************)
EXTENDS BlockingTasks, RayonExecutorServiceStateProofs

(* Who waits for the end is himself part of it.                            *)
EndWaitersUnfinished ==
    \A t \in TaskIds :
        end_wait[t] = "waiting" => t \in running_tasks \union cancelling

(* Only running tasks wait for results, of tasks the discipline allows.    *)
WaitsDisciplined ==
    \A t \in TaskIds : \A u \in waits_for[t] :
        /\ t \in running_tasks
        /\ u < next_task_id
        /\ IF discipline = "older" THEN u < t ELSE t < u

SpareWorker ==
    discipline = "spare" => Cardinality(ResultWaiters) < NumThreads

BlockingInv ==
    /\ StateInv
    /\ TypeOK
    /\ StartedInOrder
    /\ EndWaitersUnfinished
    /\ EndNeverSeenFromInside
    /\ WaitsDisciplined
    /\ SpareWorker

LEMMA StepsAreOfTheState ==
    BlockingInv /\ [Next]_vars => [StateNext]_stateVars
<1> SUFFICES ASSUME BlockingInv, Next PROVE [StateNext]_stateVars
  BY DEF vars
<1>1. CASE Admit \/ TakeNext \/ TakeNothing \/ Shutdown \/ Stop
  BY <1>1 DEF Admit, TakeNext, TakeNothing, Shutdown, Stop, StateNext
<1>2. CASE \E t \in queue : CancelPending(t)
  BY <1>2 DEF CancelPending, StateNext
<1>3. ASSUME NEW t \in TaskIds, Task(t) \/ AwaitEnd(t)
      PROVE  [StateNext]_stateVars
  BY <1>3
  DEF Task, FinishRunning, FinishCancelling, PublishCancelled, ResultArrives, EndWaitReturns,
      AwaitEnd, StateNext
<1>4. CASE \E t, u \in TaskIds : AwaitResult(t, u)
  BY <1>4 DEF AwaitResult
<1>5. QED
  BY <1>1, <1>2, <1>3, <1>4 DEF Next

LEMMA NextKeepsTypes ==
    ASSUME TypeOK, StateTypeOK', [Next]_vars
    PROVE  TypeOK'
<1>0. queue \in SUBSET TaskIds
  BY DEF TypeOK, StateTypeOK
<1>1. CASE \/ UNCHANGED vars \/ Admit \/ TakeNext \/ TakeNothing
           \/ Shutdown \/ Stop
  BY <1>0, <1>1
  DEF Admit, TakeNext, TakeNothing, Shutdown, Stop, waitVars, cancelVars,
      vars, TypeOK
<1>2. ASSUME NEW t \in queue, CancelPending(t)
      PROVE  TypeOK'
  BY <1>0, <1>2 DEF CancelPending, waitVars, cancelVars, TypeOK
<1>3. ASSUME NEW t \in TaskIds,
             FinishRunning(t) \/ FinishCancelling(t) \/ PublishCancelled(t)
      PROVE  TypeOK'
  BY <1>3
  DEF FinishRunning, FinishCancelling, PublishCancelled, waitVars,
      cancelVars, TypeOK
<1>4. ASSUME NEW t \in TaskIds,
             ResultArrives(t) \/ EndWaitReturns(t) \/ AwaitEnd(t)
      PROVE  TypeOK'
  BY <1>4
  DEF ResultArrives, EndWaitReturns, AwaitEnd, waitVars, cancelVars, TypeOK
<1>5. ASSUME NEW t \in TaskIds, NEW u \in TaskIds, AwaitResult(t, u)
      PROVE  TypeOK'
  BY <1>5 DEF AwaitResult, cancelVars, TypeOK
<1>6. QED
  BY <1>1, <1>2, <1>3, <1>4, <1>5 DEF Next, Task

(* A step of the state that starts no task only shrinks the two sets or    *)
(* adds the newest task to the queue.                                      *)
LEMMA NextKeepsOrder ==
    ASSUME BlockingInv, [Next]_vars
    PROVE  StartedInOrder'
<1>0. /\ queue \subseteq Nat /\ running_tasks \subseteq Nat
      /\ next_task_id \in Nat
      /\ \A t \in running_tasks : t < next_task_id
  BY ConfigAssumption
  DEF BlockingInv, StateInv, StateTypeOK, OwnershipConsistent, TaskIds
<1>1. CASE Admit
  BY <1>0, <1>1 DEF Admit, admit, BlockingInv, StartedInOrder
<1>2. CASE TakeNext
  <2>1. PICK t \in queue : take_next(t)
    BY <1>2 DEF TakeNext
  <2>2. \A u \in queue \ {t} : t < u
    BY <1>0, <2>1 DEF take_next, Oldest
  <2>3. QED
    BY <2>1, <2>2 DEF take_next, BlockingInv, StartedInOrder
<1>3. CASE TakeNothing \/ Shutdown \/ Stop
  BY <1>3
  DEF TakeNothing, take_nothing, Shutdown, Stop, shutdown, stop, BlockingInv,
      StartedInOrder
<1>4. CASE \E t \in queue : CancelPending(t)
  BY <1>4
  DEF CancelPending, cancel_pending_task, BlockingInv, StartedInOrder
<1>5. ASSUME NEW t \in TaskIds, Task(t) \/ AwaitEnd(t)
      PROVE  StartedInOrder'
  BY <1>5
  DEF Task, FinishRunning, finish_running, FinishCancelling,
      finish_cancelling, PublishCancelled, ResultArrives, EndWaitReturns, AwaitEnd,
      stateVars, BlockingInv, StartedInOrder
<1>6. CASE UNCHANGED vars \/ \E t, u \in TaskIds : AwaitResult(t, u)
  BY <1>6 DEF AwaitResult, vars, stateVars, BlockingInv, StartedInOrder
<1>7. QED
  BY <1>1, <1>2, <1>3, <1>4, <1>5, <1>6 DEF Next

LEMMA NextKeepsEndWaiters ==
    ASSUME BlockingInv, [Next]_vars
    PROVE  EndWaitersUnfinished' /\ EndNeverSeenFromInside'
<1>0. /\ EndWaitersUnfinished /\ EndNeverSeenFromInside
      /\ end_wait \in [TaskIds -> {"none", "waiting", "true", "false"}]
  BY DEF BlockingInv, TypeOK
<1>1. CASE Admit \/ TakeNext \/ TakeNothing \/ Shutdown \/ Stop
  BY <1>0, <1>1
  DEF Admit, admit, TakeNext, take_next, TakeNothing, take_nothing, Shutdown, Stop,
      shutdown, stop, waitVars, cancelVars, EndWaitersUnfinished, EndNeverSeenFromInside
<1>2. CASE \E t \in queue : CancelPending(t)
  BY <1>0, <1>2
  DEF CancelPending, cancel_pending_task, waitVars, cancelVars, EndWaitersUnfinished,
      EndNeverSeenFromInside
<1>3. ASSUME NEW t \in TaskIds, EndWaitReturns(t)
      PROVE  EndWaitersUnfinished' /\ EndNeverSeenFromInside'
  <2>1. ~IsTerminated
    BY <1>0, <1>3, TerminatedIsEmpty
    DEF EndWaitReturns, BlockingInv, EndWaitersUnfinished
  <2>2. QED
    BY <1>0, <1>3, <2>1
    DEF EndWaitReturns, stateVars, EndWaitersUnfinished,
        EndNeverSeenFromInside
<1>4. ASSUME NEW t \in TaskIds, FinishRunning(t) \/ FinishCancelling(t)
      PROVE  EndWaitersUnfinished' /\ EndNeverSeenFromInside'
  BY <1>0, <1>4
  DEF FinishRunning, finish_running, FinishCancelling, finish_cancelling,
      Blocked, waitVars, cancelVars, EndWaitersUnfinished, EndNeverSeenFromInside
<1>5. ASSUME NEW t \in TaskIds,
             PublishCancelled(t) \/ ResultArrives(t) \/ AwaitEnd(t)
      PROVE  EndWaitersUnfinished' /\ EndNeverSeenFromInside'
  BY <1>0, <1>5
  DEF PublishCancelled, ResultArrives, AwaitEnd, stateVars, waitVars, EndWaitersUnfinished,
      EndNeverSeenFromInside
<1>6. CASE UNCHANGED vars \/ \E t, u \in TaskIds : AwaitResult(t, u)
  BY <1>0, <1>6
  DEF AwaitResult, vars, stateVars, waitVars, cancelVars, EndWaitersUnfinished,
      EndNeverSeenFromInside
<1>7. QED
  BY <1>1, <1>2, <1>3, <1>4, <1>5, <1>6 DEF Next, Task

LEMMA NextKeepsWaitsDisciplined ==
    ASSUME BlockingInv, [Next]_vars
    PROVE  WaitsDisciplined'
<1>0. /\ WaitsDisciplined /\ waits_for \in [TaskIds -> SUBSET TaskIds]
      /\ TaskIds \in SUBSET Nat /\ next_task_id \in Nat
  BY ConfigAssumption DEF BlockingInv, TypeOK, StateTypeOK, TaskIds
<1>1. CASE Admit \/ TakeNext \/ TakeNothing \/ Shutdown \/ Stop
  <2>1. /\ running_tasks \subseteq running_tasks'
        /\ next_task_id' \in {next_task_id, next_task_id + 1}
        /\ waits_for' = waits_for /\ discipline' = discipline
    BY <1>1
    DEF Admit, admit, TakeNext, take_next, TakeNothing, take_nothing, Shutdown, Stop,
        shutdown, stop, waitVars, cancelVars
  <2>2. \A u \in TaskIds : u < next_task_id => u < next_task_id'
    BY <1>0, <2>1
  <2>3. QED
    BY <1>0, <2>1, <2>2 DEF WaitsDisciplined
<1>2. CASE \E t \in queue : CancelPending(t)
  BY <1>0, <1>2
  DEF CancelPending, cancel_pending_task, waitVars, cancelVars, WaitsDisciplined
<1>3. ASSUME NEW t \in TaskIds, FinishRunning(t) \/ FinishCancelling(t)
      PROVE  WaitsDisciplined'
  BY <1>0, <1>3
  DEF FinishRunning, finish_running, FinishCancelling, finish_cancelling,
      Blocked, waitVars, cancelVars, WaitsDisciplined
<1>4. ASSUME NEW t \in TaskIds,
             \/ PublishCancelled(t) \/ ResultArrives(t)
             \/ EndWaitReturns(t) \/ AwaitEnd(t)
      PROVE  WaitsDisciplined'
  BY <1>0, <1>4
  DEF PublishCancelled, ResultArrives, EndWaitReturns, AwaitEnd, stateVars,
      waitVars, WaitsDisciplined
<1>5. ASSUME NEW t \in TaskIds, NEW u \in TaskIds, AwaitResult(t, u)
      PROVE  WaitsDisciplined'
  <2>1. \A v \in TaskIds :
           waits_for'[v] = IF v = t THEN {u} ELSE waits_for[v]
    BY <1>0, <1>5 DEF AwaitResult
  <2>2. /\ running_tasks' = running_tasks /\ t \in running_tasks
        /\ next_task_id' = next_task_id /\ u < next_task_id
        /\ discipline' = discipline
        /\ IF discipline = "older" THEN u < t ELSE t < u
    BY <1>5 DEF AwaitResult, Disciplined, stateVars
  <2>3. QED
    BY <1>0, <2>1, <2>2 DEF WaitsDisciplined
<1>6. CASE UNCHANGED vars
  BY <1>0, <1>6 DEF vars, stateVars, waitVars, cancelVars, WaitsDisciplined
<1>7. QED
  BY <1>1, <1>2, <1>3, <1>4, <1>5, <1>6 DEF Next, Task

LEMMA WaitersAreTasks ==
    ASSUME BlockingInv
    PROVE  /\ ResultWaiters = {t \in TaskIds : waits_for[t] # {}}
           /\ ResultWaiters \in SUBSET running_tasks
BY DEF BlockingInv, StateInv, StateTypeOK, WaitsDisciplined, ResultWaiters

LEMMA FewerTasks ==
    ASSUME NEW S \in SUBSET TaskIds, NEW T \in SUBSET S
    PROVE  /\ Cardinality(T) \in Nat /\ Cardinality(S) \in Nat
           /\ Cardinality(T) <= Cardinality(S)
BY TaskSetFinite, FS_Subset

LEMMA NextKeepsSpareWorker ==
    ASSUME BlockingInv, [Next]_vars, WaitsDisciplined', StateTypeOK'
    PROVE  SpareWorker'
<1>0. /\ waits_for \in [TaskIds -> SUBSET TaskIds]
      /\ ResultWaiters = {t \in TaskIds : waits_for[t] # {}}
      /\ ResultWaiters' = {t \in TaskIds : waits_for'[t] # {}}
      /\ SpareWorker
  BY WaitersAreTasks
  DEF BlockingInv, TypeOK, StateTypeOK, WaitsDisciplined, ResultWaiters
<1>1. ASSUME NEW t \in TaskIds, NEW u \in TaskIds, AwaitResult(t, u)
      PROVE  SpareWorker'
  <2>1. /\ ResultWaiters' = ResultWaiters \union {t}
        /\ t \notin ResultWaiters
    BY <1>0, <1>1 DEF AwaitResult, Blocked
  <2>2. Cardinality(ResultWaiters') = Cardinality(ResultWaiters) + 1
    BY <1>0, <2>1, TaskSetJoin
  <2>3. QED
    BY <1>1, <2>2 DEF AwaitResult, Disciplined, SpareWorker
<1>2. ASSUME NEW t \in TaskIds, ResultArrives(t)
      PROVE  SpareWorker'
  <2>1. ResultWaiters' \in SUBSET ResultWaiters
    BY <1>0, <1>2 DEF ResultArrives
  <2>2. /\ Cardinality(ResultWaiters') <= Cardinality(ResultWaiters)
        /\ Cardinality(ResultWaiters') \in Nat
        /\ Cardinality(ResultWaiters) \in Nat
    BY <1>0, <2>1, FewerTasks
  <2>3. QED
    BY <1>0, <1>2, <2>2, ConfigAssumption DEF ResultArrives, SpareWorker
<1>3. CASE waits_for' = waits_for /\ discipline' = discipline
  BY <1>0, <1>3 DEF SpareWorker
<1>4. QED
  BY <1>1, <1>2, <1>3
  DEF Next, Task, Admit, TakeNext, TakeNothing, Shutdown, Stop, CancelPending,
      FinishRunning, FinishCancelling, PublishCancelled, EndWaitReturns,
      AwaitEnd, vars,
      waitVars, cancelVars

THEOREM BlockingInvariant == Spec => []BlockingInv
<1>1. Init => BlockingInv
  <2> SUFFICES ASSUME Init PROVE BlockingInv
    OBVIOUS
  <2>1. StateInv
    BY InitEstablishesStateInv DEF Init
  <2>2. SpareWorker
    <3>1. ResultWaiters = {}
      BY DEF Init, StateInit, ResultWaiters
    <3>2. QED
      BY <3>1, FS_EmptySet, ConfigAssumption DEF SpareWorker
  <2>3. QED
    BY <2>1, <2>2
    DEF Init, StateInit, BlockingInv, StateInv, TypeOK, StartedInOrder,
        EndWaitersUnfinished, EndNeverSeenFromInside, WaitsDisciplined
<1>2. BlockingInv /\ [Next]_vars => BlockingInv'
  <2> SUFFICES ASSUME BlockingInv, [Next]_vars PROVE BlockingInv'
    OBVIOUS
  <2>1. StateInv'
    BY StepsAreOfTheState, NextKeepsStateInv DEF BlockingInv
  <2>2. TypeOK'
    BY <2>1, NextKeepsTypes DEF BlockingInv, StateInv
  <2>3. QED
    BY <2>1, <2>2, NextKeepsOrder, NextKeepsEndWaiters,
       NextKeepsWaitsDisciplined, NextKeepsSpareWorker
    DEF BlockingInv, StateInv
<1>3. QED
  BY <1>1, <1>2, PTL DEF Spec

(* Types, and with them that the ids never run past the last one.          *)
THEOREM TypeCorrect == Spec => []TypeOK
<1>1. BlockingInv => TypeOK
  BY DEF BlockingInv
<1>2. QED
  BY <1>1, BlockingInvariant, PTL

(* A task that waits for the termination of its own service is never told  *)
(* that it has come (wait_termination_timeout).                            *)
THEOREM EndIsNotSeenFromInside == Spec => []EndNeverSeenFromInside
<1>1. BlockingInv => EndNeverSeenFromInside
  BY DEF BlockingInv
<1>2. QED
  BY <1>1, BlockingInvariant, PTL

(* Tasks start in the order of their acceptance (take_next).               *)
THEOREM TasksStartInOrder == Spec => []StartedInOrder
<1>1. BlockingInv => StartedInOrder
  BY DEF BlockingInv
<1>2. QED
  BY <1>1, BlockingInvariant, PTL

(* Blocked workers and destructors delay the steps of the shared state but *)
(* take none that its rules forbid, so the contract holds of a pool whose  *)
(* tasks block, too (take_next, finish_running, finish_cancelling).        *)
THEOREM BlockingServiceKeepsContract == Spec => StateKeepsContract
<1>1. Init => StateInit
  BY DEF Init
<1>2. BlockingInv /\ [Next]_vars => [StateNext]_stateVars
  BY StepsAreOfTheState
<1>3. Spec => StateSpec
  BY <1>1, <1>2, BlockingInvariant, PTL DEF Spec, StateSpec
<1>4. QED
  BY <1>3, TasksLiveOnce, PTL

-----------------------------------------------------------------------------
LEMMA NewestExists ==
    ASSUME NEW S \in SUBSET TaskIds, S # {}
    PROVE  \E m \in S : \A x \in S : x <= m
<1> DEFINE T == {MaxTaskId - x : x \in S}
<1>1. \A x \in S : x \in Nat /\ MaxTaskId - x \in Nat
  BY ConfigAssumption DEF TaskIds
<1>2. T \in SUBSET Nat /\ T # {}
  BY <1>1
<1>3. PICK k \in T : \A y \in T : k <= y
  <2> HIDE DEF T
  <2>1. QED
    BY <1>2, OldestExists
<1>4. PICK m \in S : k = MaxTaskId - m
  OBVIOUS
<1>5. \A x \in S : x <= m
  <2> TAKE x \in S
  <2>1. MaxTaskId - m <= MaxTaskId - x
    BY <1>3, <1>4
  <2>2. x \in Nat /\ m \in Nat /\ MaxTaskId \in Nat
    BY <1>1, ConfigAssumption
  <2> HIDE DEF T
  <2>3. QED
    BY <2>1, <2>2
<1>6. QED
  BY <1>5

(* Neither discipline lets the waits for results take the pool, whatever   *)
(* else is submitted, cancelled, stopped or waits for termination (the     *)
(* warning about blocking in the documentation of RayonExecutorService).   *)
THEOREM PoolIsNotStuck == Spec => []PoolNotStuck
<1>1. ASSUME BlockingInv, ResultWaiters # {},
             \A t \in running_tasks :
                waits_for[t] # {} /\ \E u \in waits_for[t] : ~OutOfPool(u)
      PROVE  queue # {} /\ IdleReservation
  <2>0. /\ running_tasks \in SUBSET TaskIds /\ running_tasks # {}
        /\ queue \in SUBSET TaskIds
        /\ waits_for \in [TaskIds -> SUBSET TaskIds]
        /\ TaskIds \in SUBSET Nat
    BY <1>1, ConfigAssumption
    DEF BlockingInv, TypeOK, StateTypeOK, ResultWaiters, TaskIds
  <2>1. CASE discipline = "older"
    <3>1. PICK m \in running_tasks : \A x \in running_tasks : m <= x
      BY <2>0, OldestExists
    <3>2. PICK u \in waits_for[m] : ~OutOfPool(u)
      BY <1>1
    <3>3. u < m /\ u \in Nat /\ m \in Nat
      BY <1>1, <2>0, <2>1 DEF BlockingInv, WaitsDisciplined
    <3>4. u \in queue \/ u \in running_tasks
      BY <1>1, <2>0, <3>2 DEF OutOfPool, BlockingInv, WaitsDisciplined
    <3>5. u \notin running_tasks
      BY <3>1, <3>3
    <3>6. u \notin queue
      <4>1. u \in queue => m < u
        BY <1>1 DEF BlockingInv, StartedInOrder
      <4>2. QED
        BY <3>3, <4>1
    <3>7. QED
      BY <3>4, <3>5, <3>6
  <2>2. CASE discipline = "spare"
    <3>1. PICK m \in running_tasks : \A x \in running_tasks : x <= m
      BY <2>0, NewestExists
    <3>2. PICK u \in waits_for[m] : ~OutOfPool(u)
      BY <1>1
    <3>3. m < u /\ u \in Nat /\ m \in Nat
      BY <1>1, <2>0, <2>2 DEF BlockingInv, WaitsDisciplined
    <3>4. u \in queue \/ u \in running_tasks
      BY <1>1, <2>0, <3>2 DEF OutOfPool, BlockingInv, WaitsDisciplined
    <3>5. u \notin running_tasks
      BY <3>1, <3>3
    <3>6. queue # {}
      BY <3>4, <3>5
    <3>7. /\ Cardinality(queue) \in Nat /\ Cardinality(queue) # 0
          /\ running \in Nat /\ scheduled \in Nat
      BY <1>1, <2>0, <3>6, TaskSetZero, TaskSetFinite
      DEF BlockingInv, TypeOK, StateTypeOK
    <3>8. ResultWaiters = running_tasks
      BY <1>1 DEF ResultWaiters
    <3>9. running < NumThreads
      BY <1>1, <2>2, <3>8
      DEF BlockingInv, StateInv, OwnershipConsistent, SpareWorker
    <3>10. Min2(NumThreads, running + Cardinality(queue)) <= scheduled
      BY <1>1 DEF BlockingInv, StateInv, WorkIsReserved
    <3>11. IdleReservation
      BY <3>7, <3>9, <3>10, ConfigAssumption DEF IdleReservation, Min2
    <3>12. QED
      BY <3>6, <3>11
  <2>3. QED
    BY <1>1, <2>1, <2>2 DEF BlockingInv, TypeOK
<1>2. BlockingInv => PoolNotStuck
  BY <1>1 DEF PoolNotStuck
<1>3. QED
  BY <1>2, BlockingInvariant, PTL
=============================================================================
