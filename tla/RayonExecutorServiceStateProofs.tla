------------------ MODULE RayonExecutorServiceStateProofs ------------------
(***************************************************************************)
(* Proofs about the shared state, for every capacity, number of threads,   *)
(* bound on the ids and set of waiting threads.                            *)
(*                                                                         *)
(* The invariant is the conjunction of the properties the runs check.      *)
(* None of its parts after the typing is inductive alone: the capacity     *)
(* needs the three collections to be disjoint, the reservations need the   *)
(* counter of running tasks to agree with their set, and the wake-up of    *)
(* waiters needs every count behind the termination predicate.             *)
(***************************************************************************)
EXTENDS RayonExecutorServiceState, FiniteSetTheorems, WellFoundedInduction, TLAPS

StateInv ==
    /\ StateTypeOK
    /\ OwnershipConsistent
    /\ CapacityRespected
    /\ WorkIsReserved
    /\ NoLostTerminationWakeup

(* A collection of task ids is finite, so its size is a number.            *)
LEMMA TaskSetFinite ==
    ASSUME NEW S \in SUBSET TaskIds
    PROVE  IsFiniteSet(S) /\ Cardinality(S) \in Nat
<1>1. IsFiniteSet(TaskIds)
  BY ConfigAssumption, FS_Interval DEF TaskIds
<1>2. IsFiniteSet(S)
  BY <1>1, FS_Subset
<1>3. QED
  BY <1>2, FS_CardinalityType

(* The size of a collection after one task joins or leaves it.             *)
LEMMA TaskSetJoin ==
    ASSUME NEW S \in SUBSET TaskIds, NEW t, t \notin S
    PROVE  Cardinality(S \union {t}) = Cardinality(S) + 1
BY TaskSetFinite, FS_AddElement

LEMMA TaskSetLeave ==
    ASSUME NEW S \in SUBSET TaskIds, NEW t \in S
    PROVE  Cardinality(S \ {t}) = Cardinality(S) - 1
BY TaskSetFinite, FS_RemoveElement

LEMMA TaskSetZero ==
    ASSUME NEW S \in SUBSET TaskIds
    PROVE  Cardinality(S) = 0 <=> S = {}
BY TaskSetFinite, FS_EmptySet

(* Tasks have an oldest one: the queue always has a front.                 *)
LEMMA OldestExists ==
    ASSUME NEW S \in SUBSET Nat, S # {}
    PROVE  \E m \in S : \A x \in S : m <= x
<1> DEFINE R == OpToRel(<, Nat)
<1>1. IsWellFoundedOn(R, Nat)
  BY NatLessThanWellFounded
<1>2. \A x, y \in Nat : x < y => <<x, y>> \in R
  BY DEF OpToRel
<1> HIDE DEF R
<1>3. PICK m \in S : \A y \in S : ~(<<y, m>> \in R)
  BY <1>1, WFMin
<1>4. \A x \in S : m <= x
  <2> TAKE x \in S
  <2>1. x \in Nat /\ m \in Nat /\ ~(x < m)
    BY <1>2, <1>3
  <2>2. QED
    BY <2>1
<1>5. QED
  BY <1>4

(* The sizes behind occupied are numbers.                                  *)
LEMMA Sizes ==
    ASSUME StateTypeOK
    PROVE  /\ Cardinality(queue) \in Nat
           /\ Cardinality(running_tasks) \in Nat
           /\ Cardinality(cancelling) \in Nat
           /\ occupied \in Nat
<1>1. /\ Cardinality(queue) \in Nat
      /\ Cardinality(running_tasks) \in Nat
      /\ Cardinality(cancelling) \in Nat
  BY TaskSetFinite DEF StateTypeOK
<1>2. QED
  BY <1>1 DEF StateTypeOK, occupied

-----------------------------------------------------------------------------
LEMMA InitEstablishesStateInv == StateInit => StateInv
<1> SUFFICES ASSUME StateInit PROVE StateInv
  OBVIOUS
<1> USE ConfigAssumption
<1>1. StateTypeOK
  BY DEF StateInit, StateTypeOK, Lifecycles
<1>2. Cardinality({}) = 0
  BY FS_EmptySet
<1>3. QED
  BY <1>1, <1>2
  DEF StateInit, StateInv, OwnershipConsistent, CapacityRespected, occupied,
      WorkIsReserved, Min2, NoLostTerminationWakeup

(* An admission: the count grows below the capacity, and the reservations  *)
(* grow with the work or reach the number of threads.                      *)
LEMMA AdmitKeepsStateInv == StateInv /\ admit => StateInv'
<1> SUFFICES ASSUME StateInv, admit PROVE StateInv'
  OBVIOUS
<1> USE ConfigAssumption DEF StateInv
<1>1. /\ lifecycle = "Running"
      /\ occupied < TaskCapacity
      /\ next_task_id # MaxTaskId
  <2>1. occupied \in Nat
    BY Sizes
  <2>2. QED
    BY <2>1 DEF admit, AdmitOutcome
<1>2. next_task_id \in TaskIds /\ next_task_id \notin queue
  BY <1>1 DEF StateTypeOK, TaskIds, OwnershipConsistent
<1>3. Cardinality(queue') = Cardinality(queue) + 1
  BY <1>2, TaskSetJoin DEF admit, StateTypeOK
<1>4. /\ DispatchCount \in Nat
      /\ scheduled + DispatchCount <= NumThreads
      /\ Min2(NumThreads, running + Cardinality(queue) + 1)
            <= scheduled + DispatchCount
  BY <1>3, Sizes
  DEF admit, DispatchCount, Min2, saturating_sub, WorkIsReserved, StateTypeOK
<1>5. StateTypeOK'
  BY <1>2, <1>4 DEF admit, StateTypeOK, TaskIds
<1>6. OwnershipConsistent'
  BY <1>2 DEF admit, OwnershipConsistent, StateTypeOK, TaskIds
<1>7. occupied' = occupied + 1
  BY <1>3, Sizes DEF admit, occupied, StateTypeOK
<1>8. CapacityRespected'
  BY <1>1, <1>7, Sizes DEF CapacityRespected, admit
<1>9. WorkIsReserved'
  BY <1>3, <1>4, Sizes DEF admit, WorkIsReserved, StateTypeOK, Min2
<1>10. NoLostTerminationWakeup'
  BY <1>1 DEF admit, NoLostTerminationWakeup, IsTerminated
<1>11. QED
  BY <1>5, <1>6, <1>8, <1>9, <1>10

(* A job changes hands: the number of unfinished tasks stays.              *)
LEMMA TakeNextKeepsStateInv ==
    ASSUME StateInv, IdleReservation, NEW t \in queue, take_next(t)
    PROVE  StateInv'
<1> USE ConfigAssumption DEF StateInv
<1>1. t \in TaskIds /\ t \notin running_tasks /\ t \notin cancelling
  BY DEF StateTypeOK, OwnershipConsistent
<1>2. /\ Cardinality(queue') = Cardinality(queue) - 1
      /\ Cardinality(running_tasks') = Cardinality(running_tasks) + 1
  BY <1>1, TaskSetLeave, TaskSetJoin DEF take_next, StateTypeOK
<1>3. StateTypeOK'
  BY <1>1 DEF take_next, StateTypeOK
<1>4. OwnershipConsistent'
  BY <1>1, <1>2 DEF take_next, OwnershipConsistent, StateTypeOK
<1>5. occupied' = occupied
  BY <1>2, Sizes DEF take_next, occupied, StateTypeOK
<1>6. CapacityRespected'
  BY <1>5 DEF CapacityRespected, take_next
<1>7. WorkIsReserved'
  BY <1>2, Sizes
  DEF take_next, WorkIsReserved, IdleReservation, StateTypeOK, Min2
<1>8. NoLostTerminationWakeup'
  BY <1>5 DEF take_next, NoLostTerminationWakeup, IsTerminated
<1>9. QED
  BY <1>3, <1>4, <1>6, <1>7, <1>8

(* A closure without a job releases its own reservation, never one that a  *)
(* running task needs.                                                     *)
LEMMA TakeNothingKeepsStateInv ==
    StateInv /\ IdleReservation /\ take_nothing => StateInv'
<1> SUFFICES ASSUME StateInv, IdleReservation, take_nothing PROVE StateInv'
  OBVIOUS
<1> USE ConfigAssumption DEF StateInv
<1>1. Cardinality(queue) = 0
  BY TaskSetZero DEF take_nothing, StateTypeOK
<1>2. StateTypeOK'
  BY DEF take_nothing, StateTypeOK, saturating_sub, notify_if_terminated_locked
<1>3. OwnershipConsistent'
  BY DEF take_nothing, OwnershipConsistent
<1>4. CapacityRespected'
  BY DEF take_nothing, CapacityRespected, occupied
<1>5. WorkIsReserved'
  BY <1>1, Sizes
  DEF take_nothing, WorkIsReserved, IdleReservation, StateTypeOK, Min2,
      saturating_sub
<1>6. NoLostTerminationWakeup'
  BY DEF take_nothing, NoLostTerminationWakeup, notify_if_terminated_locked
<1>7. QED
  BY <1>2, <1>3, <1>4, <1>5, <1>6

(* A finished task either hands its reservation to a queued one or         *)
(* releases it.                                                            *)
LEMMA FinishRunningKeepsStateInv ==
    ASSUME StateInv, NEW t \in running_tasks, finish_running(t)
    PROVE  StateInv'
<1> USE ConfigAssumption DEF StateInv
<1>1. /\ Cardinality(running_tasks') = Cardinality(running_tasks) - 1
      /\ running' = running - 1
      /\ running > 0
  <2>1. Cardinality(running_tasks') = Cardinality(running_tasks) - 1
    BY TaskSetLeave DEF finish_running, StateTypeOK
  <2>2. Cardinality(running_tasks) # 0
    BY TaskSetZero DEF StateTypeOK
  <2>3. QED
    BY <2>1, <2>2, Sizes
    DEF finish_running, OwnershipConsistent, StateTypeOK, saturating_sub
<1>2. queue = {} => Cardinality(queue) = 0
  BY TaskSetZero DEF StateTypeOK
<1>3. StateTypeOK'
  BY <1>1
  DEF finish_running, StateTypeOK, ReleaseIfIdle, saturating_sub,
      notify_if_terminated_locked
<1>4. OwnershipConsistent'
  BY <1>1 DEF finish_running, OwnershipConsistent
<1>5. CapacityRespected'
  BY <1>1, Sizes DEF finish_running, CapacityRespected, occupied, StateTypeOK
<1>6. WorkIsReserved'
  BY <1>1, <1>2, Sizes
  DEF finish_running, WorkIsReserved, StateTypeOK, Min2, ReleaseIfIdle,
      saturating_sub
<1>7. NoLostTerminationWakeup'
  BY DEF finish_running, NoLostTerminationWakeup, notify_if_terminated_locked
<1>8. QED
  BY <1>3, <1>4, <1>5, <1>6, <1>7

(* A claimed task keeps its place in the capacity until it is cleaned up.  *)
LEMMA CancelKeepsStateInv ==
    ASSUME StateInv, NEW t \in queue, cancel_pending_task(t)
    PROVE  StateInv'
<1> USE ConfigAssumption DEF StateInv
<1>1. t \in TaskIds /\ t \notin running_tasks /\ t \notin cancelling
  BY DEF StateTypeOK, OwnershipConsistent
<1>2. /\ Cardinality(queue') = Cardinality(queue) - 1
      /\ Cardinality(cancelling') = Cardinality(cancelling) + 1
  BY <1>1, TaskSetLeave, TaskSetJoin DEF cancel_pending_task, StateTypeOK
<1>3. StateTypeOK'
  BY <1>1 DEF cancel_pending_task, StateTypeOK
<1>4. OwnershipConsistent'
  BY <1>1 DEF cancel_pending_task, OwnershipConsistent, StateTypeOK
<1>5. occupied' = occupied
  BY <1>2, Sizes DEF cancel_pending_task, occupied, StateTypeOK
<1>6. CapacityRespected'
  BY <1>5 DEF CapacityRespected, cancel_pending_task
<1>7. WorkIsReserved'
  BY <1>2, Sizes DEF cancel_pending_task, WorkIsReserved, StateTypeOK, Min2
<1>8. NoLostTerminationWakeup'
  BY <1>5 DEF cancel_pending_task, NoLostTerminationWakeup, IsTerminated
<1>9. QED
  BY <1>3, <1>4, <1>6, <1>7, <1>8

LEMMA FinishCancellingKeepsStateInv ==
    ASSUME StateInv, NEW t \in cancelling, finish_cancelling(t)
    PROVE  StateInv'
<1> USE ConfigAssumption DEF StateInv
<1>1. Cardinality(cancelling') = Cardinality(cancelling) - 1
  BY TaskSetLeave DEF finish_cancelling, StateTypeOK
<1>2. StateTypeOK'
  BY DEF finish_cancelling, StateTypeOK
<1>3. OwnershipConsistent'
  BY DEF finish_cancelling, OwnershipConsistent
<1>4. CapacityRespected'
  BY <1>1, Sizes DEF finish_cancelling, CapacityRespected, occupied, StateTypeOK
<1>5. WorkIsReserved'
  BY DEF finish_cancelling, WorkIsReserved
<1>6. NoLostTerminationWakeup'
  BY DEF finish_cancelling, NoLostTerminationWakeup
<1>7. QED
  BY <1>2, <1>3, <1>4, <1>5, <1>6

LEMMA ShutdownKeepsStateInv == StateInv /\ shutdown => StateInv'
<1> SUFFICES ASSUME StateInv, shutdown PROVE StateInv'
  OBVIOUS
<1> USE DEF StateInv
<1>1. StateTypeOK'
  BY DEF shutdown, StateTypeOK, Lifecycles, notify_if_terminated_locked
<1>2. OwnershipConsistent' /\ CapacityRespected' /\ WorkIsReserved'
  BY DEF shutdown, OwnershipConsistent, CapacityRespected, occupied,
         WorkIsReserved
<1>3. NoLostTerminationWakeup'
  BY DEF shutdown, NoLostTerminationWakeup, notify_if_terminated_locked
<1>4. QED
  BY <1>1, <1>2, <1>3

(* A stop moves the whole queue: no task is lost from the count, and none  *)
(* is counted twice because the two collections are disjoint.              *)
LEMMA StopKeepsStateInv == StateInv /\ stop => StateInv'
<1> SUFFICES ASSUME StateInv, stop PROVE StateInv'
  OBVIOUS
<1> USE ConfigAssumption DEF StateInv
<1>1. Cardinality(queue') = 0
  BY FS_EmptySet DEF stop
<1>2. Cardinality(cancelling') = Cardinality(cancelling) + Cardinality(queue)
  <2>1. IsFiniteSet(cancelling) /\ IsFiniteSet(queue)
    BY TaskSetFinite DEF StateTypeOK
  <2>2. cancelling \intersect queue = {}
    BY DEF OwnershipConsistent
  <2>3. Cardinality(cancelling \union queue)
           = Cardinality(cancelling) + Cardinality(queue)
             - Cardinality(cancelling \intersect queue)
    BY <2>1, FS_Union
  <2>4. QED
    BY <2>2, <2>3, FS_EmptySet, Sizes DEF stop
<1>3. StateTypeOK'
  BY DEF stop, StateTypeOK, Lifecycles, notify_if_terminated_locked
<1>4. OwnershipConsistent'
  BY DEF stop, OwnershipConsistent
<1>5. CapacityRespected'
  BY <1>1, <1>2, Sizes DEF stop, CapacityRespected, occupied, StateTypeOK
<1>6. WorkIsReserved'
  BY <1>1, Sizes DEF stop, WorkIsReserved, StateTypeOK, Min2
<1>7. NoLostTerminationWakeup'
  BY DEF stop, NoLostTerminationWakeup, notify_if_terminated_locked
<1>8. QED
  BY <1>3, <1>4, <1>5, <1>6, <1>7

(* The waits touch only the wait set, and nobody parks on a terminated     *)
(* service.                                                                *)
LEMMA WaitsKeepStateInv ==
    ASSUME StateInv, NEW c \in Callers, park(c) \/ unpark_on_timeout(c)
    PROVE  StateInv'
<1> USE DEF StateInv
<1>1. StateTypeOK'
  BY DEF park, unpark_on_timeout, StateTypeOK
<1>2. OwnershipConsistent' /\ CapacityRespected' /\ WorkIsReserved'
  BY DEF park, unpark_on_timeout, OwnershipConsistent, CapacityRespected,
         occupied, WorkIsReserved
<1>3. IsTerminated' <=> IsTerminated
  BY DEF park, unpark_on_timeout, IsTerminated, occupied
<1>4. NoLostTerminationWakeup'
  BY <1>3 DEF park, unpark_on_timeout, NoLostTerminationWakeup
<1>5. QED
  BY <1>1, <1>2, <1>4

-----------------------------------------------------------------------------
LEMMA NextKeepsStateInv == StateInv /\ [StateNext]_stateVars => StateInv'
<1> SUFFICES ASSUME StateInv, [StateNext]_stateVars PROVE StateInv'
  OBVIOUS
<1>1. CASE admit
  BY <1>1, AdmitKeepsStateInv
<1>2. CASE IdleReservation /\ \E t \in queue : take_next(t)
  BY <1>2, TakeNextKeepsStateInv
<1>3. CASE IdleReservation /\ take_nothing
  BY <1>3, TakeNothingKeepsStateInv
<1>4. CASE \E t \in running_tasks : finish_running(t)
  BY <1>4, FinishRunningKeepsStateInv
<1>5. CASE \E t \in queue : cancel_pending_task(t)
  BY <1>5, CancelKeepsStateInv
<1>6. CASE \E t \in cancelling : finish_cancelling(t)
  BY <1>6, FinishCancellingKeepsStateInv
<1>7. CASE shutdown
  BY <1>7, ShutdownKeepsStateInv
<1>8. CASE stop
  BY <1>8, StopKeepsStateInv
<1>9. CASE \E c \in Callers : park(c) \/ unpark_on_timeout(c)
  BY <1>9, WaitsKeepStateInv
<1>10. CASE UNCHANGED stateVars
  BY <1>10
  DEF stateVars, StateInv, StateTypeOK, OwnershipConsistent,
      CapacityRespected, occupied, WorkIsReserved, NoLostTerminationWakeup,
      IsTerminated
<1>11. QED
  BY <1>1, <1>2, <1>3, <1>4, <1>5, <1>6, <1>7, <1>8, <1>9, <1>10
  DEF StateNext

THEOREM StateInvariant == StateSpec => []StateInv
<1>1. StateInit => StateInv
  BY InitEstablishesStateInv
<1>2. StateInv /\ [StateNext]_stateVars => StateInv'
  BY NextKeepsStateInv
<1>3. QED
  BY <1>1, <1>2, PTL DEF StateSpec

(* The state keeps its type: in particular the ids never run past the      *)
(* last one checked_add hands out.                                         *)
THEOREM StateTypeCorrect == StateSpec => []StateTypeOK
<1>1. StateInv => StateTypeOK
  BY DEF StateInv
<1>2. QED
  BY <1>1, StateInvariant, PTL

(* A task has one place, and the counter of running tasks is their number  *)
(* (take_next, finish_running, cancel_pending_task, stop).                 *)
THEOREM OwnershipHolds == StateSpec => []OwnershipConsistent
<1>1. StateInv => OwnershipConsistent
  BY DEF StateInv
<1>2. QED
  BY <1>1, StateInvariant, PTL

(* The capacity is never exceeded (admit, occupied).                       *)
THEOREM CapacityHolds == StateSpec => []CapacityRespected
<1>1. StateInv => CapacityRespected
  BY DEF StateInv
<1>2. QED
  BY <1>1, StateInvariant, PTL

(* Queued work never waits while a thread is left without a reservation,   *)
(* and the pool is never oversubscribed (the debug_assert of admit).       *)
THEOREM ReservationsCoverWork == StateSpec => []WorkIsReserved
<1>1. StateInv => WorkIsReserved
  BY DEF StateInv
<1>2. QED
  BY <1>1, StateInvariant, PTL

(* No waiter sleeps through termination (notify_if_terminated_locked).     *)
THEOREM TerminationWakesWaiters == StateSpec => []NoLostTerminationWakeup
<1>1. StateInv => NoLostTerminationWakeup
  BY DEF StateInv
<1>2. QED
  BY <1>1, StateInvariant, PTL

-----------------------------------------------------------------------------
(* Nothing is unfinished on a terminated service, so no method but those   *)
(* that leave the counts alone has anything to act on.                     *)
LEMMA TerminatedIsEmpty ==
    ASSUME StateInv, IsTerminated
    PROVE  queue = {} /\ running_tasks = {} /\ cancelling = {}
<1> USE DEF StateInv
<1>1. /\ Cardinality(queue) = 0
      /\ Cardinality(running_tasks) = 0
      /\ Cardinality(cancelling) = 0
  BY Sizes DEF IsTerminated, occupied, OwnershipConsistent
<1>2. QED
  BY <1>1, TaskSetZero DEF StateTypeOK

LEMMA StepKeepsClosed ==
    StateInv /\ [StateNext]_stateVars =>
       [lifecycle # "Running" =>
          /\ lifecycle' # "Running"
          /\ next_task_id' = next_task_id
          /\ IsTerminated => IsTerminated']_stateVars
<1> SUFFICES ASSUME StateInv, StateNext, lifecycle # "Running"
             PROVE  /\ lifecycle' # "Running"
                    /\ next_task_id' = next_task_id
                    /\ IsTerminated => IsTerminated'
  BY DEF stateVars
<1>1. ~admit
  BY DEF admit, AdmitOutcome
<1>2. lifecycle' # "Running" /\ next_task_id' = next_task_id
  BY <1>1
  DEF StateNext, take_next, take_nothing, finish_running, cancel_pending_task,
      finish_cancelling, shutdown, stop, park, unpark_on_timeout
<1>3. ASSUME IsTerminated PROVE IsTerminated'
  <2>1. queue = {} /\ running_tasks = {} /\ cancelling = {}
    BY <1>3, TerminatedIsEmpty
  <2>2. queue' = queue /\ running' = running /\ cancelling' = cancelling
    BY <1>1, <2>1
    DEF StateNext, take_next, take_nothing, cancel_pending_task,
        finish_cancelling, shutdown, stop, park, unpark_on_timeout
  <2>3. QED
    BY <1>2, <1>3, <2>2 DEF IsTerminated, occupied
<1>4. QED
  BY <1>2, <1>3

(* A closed service stays closed, accepts nothing more, and once it has    *)
(* terminated it stays terminated (admit, shutdown, stop, lifecycle).      *)
THEOREM TerminationIsFinal == StateSpec => ClosedForGood
<1>1. StateSpec => [](StateInv)
  BY StateInvariant
<1>2. StateInv /\ [StateNext]_stateVars =>
       [lifecycle # "Running" =>
          /\ lifecycle' # "Running"
          /\ next_task_id' = next_task_id
          /\ IsTerminated => IsTerminated']_stateVars
  BY StepKeepsClosed
<1>3. QED
  BY <1>1, <1>2, PTL DEF StateSpec, ClosedForGood

-----------------------------------------------------------------------------
(* What a user sees of a method: the phase of each task, the lifecycle it  *)
(* reads and how many tasks are unfinished.  These lemmas are what the     *)
(* refinements of module ExecutorContract share.                           *)

AllEmpty == queue = {} /\ running_tasks = {} /\ cancelling = {}

LEMMA PhasesAreCollections ==
    ASSUME StateInv, NEW t \in TaskIds
    PROVE  /\ PhaseOf(t) = "New" <=> next_task_id <= t
           /\ PhaseOf(t) = "Queued" <=> t \in queue
           /\ PhaseOf(t) = "Active" <=> t \in running_tasks
           /\ PhaseOf(t) = "Withdrawn" <=> t \in cancelling
BY ConfigAssumption
DEF StateInv, StateTypeOK, OwnershipConsistent, TaskIds, PhaseOf

(* The collections are apart, so their sizes add up.                       *)
LEMMA OccupiedCounts ==
    ASSUME StateInv
    PROVE  Cardinality(queue \union running_tasks \union cancelling) = occupied
<1>1. /\ IsFiniteSet(queue) /\ IsFiniteSet(running_tasks)
      /\ IsFiniteSet(cancelling)
  BY TaskSetFinite DEF StateInv, StateTypeOK
<1>2. /\ queue \intersect running_tasks = {}
      /\ (queue \union running_tasks) \intersect cancelling = {}
      /\ running = Cardinality(running_tasks)
  BY DEF StateInv, OwnershipConsistent
<1>3. ASSUME NEW S, NEW T, IsFiniteSet(S), IsFiniteSet(T), S \intersect T = {}
      PROVE  /\ IsFiniteSet(S \union T)
             /\ Cardinality(S \union T) = Cardinality(S) + Cardinality(T)
  <2>1. /\ IsFiniteSet(S \union T)
        /\ Cardinality(S \union T)
              = Cardinality(S) + Cardinality(T) - Cardinality(S \intersect T)
    BY <1>3, FS_Union
  <2>2. /\ Cardinality(S \intersect T) = 0
        /\ Cardinality(S) \in Nat /\ Cardinality(T) \in Nat
    BY <1>3, FS_EmptySet, FS_CardinalityType
  <2>3. QED
    BY <2>1, <2>2
<1>4. /\ IsFiniteSet(queue \union running_tasks)
      /\ Cardinality(queue \union running_tasks)
            = Cardinality(queue) + Cardinality(running_tasks)
  BY <1>1, <1>2, <1>3
<1>5. Cardinality((queue \union running_tasks) \union cancelling)
         = Cardinality(queue \union running_tasks) + Cardinality(cancelling)
  BY <1>1, <1>2, <1>3, <1>4
<1>6. QED
  BY <1>2, <1>4, <1>5 DEF occupied

LEMMA TerminatedByCollections ==
    StateInv => (IsTerminated <=> lifecycle # "Running" /\ AllEmpty)
<1> SUFFICES ASSUME StateInv
             PROVE  IsTerminated <=> lifecycle # "Running" /\ AllEmpty
  OBVIOUS
<1> USE DEF AllEmpty
<1>1. CASE IsTerminated
  <2>1. queue = {} /\ running_tasks = {} /\ cancelling = {}
    BY <1>1, TerminatedIsEmpty
  <2>2. QED
    BY <1>1, <2>1 DEF IsTerminated
<1>2. CASE lifecycle # "Running" /\ queue = {} /\ running_tasks = {}
              /\ cancelling = {}
  <2>1. Cardinality({}) = 0
    BY FS_EmptySet
  <2>2. running = 0
    BY <1>2, <2>1 DEF StateInv, OwnershipConsistent
  <2>3. QED
    BY <1>2, <2>1, <2>2 DEF IsTerminated, occupied
<1>3. QED
  BY <1>1, <1>2

(* The same of the state after a step.                                     *)
LEMMA TerminatedByCollectionsNext ==
    (StateInv => (IsTerminated <=> lifecycle # "Running" /\ AllEmpty))'
BY TerminatedByCollections, PTL

(* A step keeps the observed lifecycle if it keeps the stored one and does *)
(* not empty the collections.                                              *)
LEMMA ObservedKept ==
    ASSUME StateInv, StateInv', lifecycle' = lifecycle, AllEmpty' <=> AllEmpty
    PROVE  ObservedLifecycle' = ObservedLifecycle
BY TerminatedByCollections, TerminatedByCollectionsNext DEF ObservedLifecycle

(* A step that leaves the collections and the lifecycle alone is not seen. *)
LEMMA UnseenStep ==
    ASSUME StateInv, StateInv',
           UNCHANGED <<lifecycle, next_task_id, queue, running_tasks,
                       cancelling>>
    PROVE  /\ ObservedLifecycle' = ObservedLifecycle
           /\ \A t \in TaskIds : PhaseOf(t)' = PhaseOf(t)
BY ObservedKept DEF AllEmpty, PhaseOf

LEMMA AdmitSeen ==
    ASSUME StateInv, admit
    PROVE  /\ next_task_id \in TaskIds
           /\ ObservedLifecycle = "Running" /\ ObservedLifecycle' = "Running"
           /\ occupied < TaskCapacity
           /\ \A t \in TaskIds : PhaseOf(t)' =
                 IF t = next_task_id THEN "Queued" ELSE PhaseOf(t)
<1>0. /\ next_task_id \in Nat /\ occupied \in Nat
      /\ next_task_id \in 0 .. MaxTaskId
      /\ \A t \in queue \union running_tasks \union cancelling :
            t \in TaskIds /\ t < next_task_id
  BY Sizes DEF StateInv, StateTypeOK, OwnershipConsistent
<1>1. /\ lifecycle = "Running" /\ lifecycle' = "Running"
      /\ ~(occupied >= TaskCapacity) /\ next_task_id # MaxTaskId
      /\ queue' = queue \union {next_task_id}
      /\ next_task_id' = next_task_id + 1
      /\ UNCHANGED <<running_tasks, cancelling>>
  BY DEF admit, AdmitOutcome
<1>2. next_task_id \in TaskIds /\ occupied < TaskCapacity
  BY <1>0, <1>1, ConfigAssumption DEF TaskIds
<1>3. ObservedLifecycle = "Running" /\ ObservedLifecycle' = "Running"
  BY <1>1 DEF ObservedLifecycle, IsTerminated
<1>4. \A t \in TaskIds : PhaseOf(t)' =
         IF t = next_task_id THEN "Queued" ELSE PhaseOf(t)
  BY <1>0, <1>1, ConfigAssumption DEF PhaseOf, TaskIds
<1>5. QED
  BY <1>2, <1>3, <1>4

LEMMA TakeSeen ==
    ASSUME StateInv, StateInv', IdleReservation, NEW t, take_next(t)
    PROVE  /\ t \in TaskIds /\ Oldest(t)
           /\ Cardinality(running_tasks) < NumThreads
           /\ ObservedLifecycle' = ObservedLifecycle
           /\ \A u \in TaskIds : PhaseOf(u)' =
                 IF u = t THEN "Active" ELSE PhaseOf(u)
<1>0. /\ queue \subseteq TaskIds /\ next_task_id \in Nat
      /\ \A u \in queue : u < next_task_id
      /\ queue \intersect running_tasks = {}
  BY ConfigAssumption DEF StateInv, StateTypeOK, OwnershipConsistent
<1>1. /\ Oldest(t) /\ t \in queue
      /\ queue' = queue \ {t} /\ running_tasks' = running_tasks \union {t}
      /\ UNCHANGED <<lifecycle, next_task_id, cancelling>>
  BY DEF take_next, Oldest
<1>2. Cardinality(running_tasks) < NumThreads
  BY ConfigAssumption
  DEF IdleReservation, StateInv, StateTypeOK, WorkIsReserved,
      OwnershipConsistent
<1>3. ObservedLifecycle' = ObservedLifecycle
  BY <1>1, ObservedKept DEF AllEmpty
<1>4. \A u \in TaskIds : PhaseOf(u)' = IF u = t THEN "Active" ELSE PhaseOf(u)
  BY <1>0, <1>1, ConfigAssumption DEF PhaseOf, TaskIds
<1>5. QED
  BY <1>0, <1>1, <1>2, <1>3, <1>4

LEMMA CancelSeen ==
    ASSUME StateInv, StateInv', NEW t, cancel_pending_task(t)
    PROVE  /\ t \in TaskIds /\ t \in queue
           /\ ObservedLifecycle' = ObservedLifecycle
           /\ \A u \in TaskIds : PhaseOf(u)' =
                 IF u = t THEN "Withdrawn" ELSE PhaseOf(u)
<1>0. /\ queue \subseteq TaskIds /\ next_task_id \in Nat
      /\ \A u \in queue : u < next_task_id
      /\ queue \intersect running_tasks = {}
  BY ConfigAssumption DEF StateInv, StateTypeOK, OwnershipConsistent
<1>1. /\ t \in queue /\ queue' = queue \ {t}
      /\ cancelling' = cancelling \union {t}
      /\ UNCHANGED <<lifecycle, next_task_id, running_tasks>>
  BY DEF cancel_pending_task, CancelDisposition
<1>2. ObservedLifecycle' = ObservedLifecycle
  BY <1>1, ObservedKept DEF AllEmpty
<1>3. \A u \in TaskIds : PhaseOf(u)' = IF u = t THEN "Withdrawn" ELSE PhaseOf(u)
  BY <1>0, <1>1, ConfigAssumption DEF PhaseOf, TaskIds
<1>4. QED
  BY <1>0, <1>1, <1>2, <1>3

(* finish_running and finish_cancelling.                                   *)
LEMMA FinishSeen ==
    ASSUME StateInv, StateInv', NEW t \in running_tasks \union cancelling,
           running_tasks' = running_tasks \ {t},
           cancelling' = cancelling \ {t},
           UNCHANGED <<lifecycle, next_task_id, queue>>
    PROVE  /\ t \in TaskIds /\ PhaseOf(t) \in {"Active", "Withdrawn"}
           /\ ObservedLifecycle' =
                 IF /\ ObservedLifecycle # "Running"
                    /\ queue \union running_tasks \union cancelling = {t}
                 THEN "Terminated" ELSE ObservedLifecycle
           /\ \A u \in TaskIds : PhaseOf(u)' =
                 IF u = t THEN "Done" ELSE PhaseOf(u)
<1>0. /\ next_task_id \in Nat
      /\ t \in TaskIds /\ t < next_task_id
      /\ queue \intersect running_tasks = {}
      /\ queue \intersect cancelling = {}
      /\ running_tasks \intersect cancelling = {}
  BY ConfigAssumption DEF StateInv, StateTypeOK, OwnershipConsistent
<1>1. PhaseOf(t) \in {"Active", "Withdrawn"}
  BY <1>0, PhasesAreCollections
<1>2. \A u \in TaskIds : PhaseOf(u)' = IF u = t THEN "Done" ELSE PhaseOf(u)
  BY <1>0, ConfigAssumption DEF PhaseOf, TaskIds
<1>3. ~AllEmpty /\ (AllEmpty' <=> queue \union running_tasks \union cancelling = {t})
  BY <1>0 DEF AllEmpty
<1>4. /\ ObservedLifecycle = lifecycle
      /\ ObservedLifecycle' = IF lifecycle # "Running" /\ AllEmpty'
                              THEN "Terminated" ELSE lifecycle
  BY <1>3, TerminatedByCollections, TerminatedByCollectionsNext
  DEF ObservedLifecycle
<1>5. QED
  BY <1>0, <1>1, <1>2, <1>3, <1>4

LEMMA ShutdownSeen ==
    ASSUME StateInv, StateInv', shutdown
    PROVE  /\ \A t \in TaskIds : PhaseOf(t)' = PhaseOf(t)
           /\ IF ObservedLifecycle = "Running"
              THEN ObservedLifecycle' =
                      IF queue \union running_tasks \union cancelling = {}
                      THEN "Terminated" ELSE "ShuttingDown"
              ELSE ObservedLifecycle' = ObservedLifecycle
<1>0. /\ lifecycle' = IF lifecycle = "Running" THEN "ShuttingDown" ELSE lifecycle
      /\ UNCHANGED <<next_task_id, queue, running_tasks, cancelling>>
      /\ lifecycle \in Lifecycles
  BY DEF shutdown, StateInv, StateTypeOK
<1>1. \A t \in TaskIds : PhaseOf(t)' = PhaseOf(t)
  BY <1>0 DEF PhaseOf
<1>2. AllEmpty' <=> queue \union running_tasks \union cancelling = {}
  BY <1>0 DEF AllEmpty
<1>3. AllEmpty' <=> AllEmpty
  BY <1>0 DEF AllEmpty
<1>4. QED
  BY <1>0, <1>1, <1>2, <1>3, TerminatedByCollections,
     TerminatedByCollectionsNext
  DEF ObservedLifecycle, Lifecycles

LEMMA StopSeen ==
    ASSUME StateInv, StateInv', stop
    PROVE  /\ \A t \in TaskIds : PhaseOf(t)' =
                 IF PhaseOf(t) = "Queued" THEN "Withdrawn" ELSE PhaseOf(t)
           /\ ObservedLifecycle \in
                 {"Running", "ShuttingDown", "Stopping", "Terminated"}
           /\ ObservedLifecycle' =
                 IF queue \union running_tasks \union cancelling = {}
                 THEN "Terminated" ELSE "Stopping"
           /\ ObservedLifecycle = "Terminated" =>
                 /\ ObservedLifecycle' = "Terminated"
                 /\ \A t \in TaskIds : PhaseOf(t) # "Queued"
<1>0. /\ lifecycle \in Lifecycles /\ lifecycle' = "Stopping"
      /\ queue' = {} /\ cancelling' = cancelling \union queue
      /\ UNCHANGED <<next_task_id, running_tasks>>
      /\ queue \intersect running_tasks = {}
  BY DEF StateInv, StateTypeOK, OwnershipConsistent, stop
<1>1. \A t \in TaskIds : PhaseOf(t)' =
         IF PhaseOf(t) = "Queued" THEN "Withdrawn" ELSE PhaseOf(t)
  BY <1>0 DEF PhaseOf
<1>2. AllEmpty' <=> queue \union running_tasks \union cancelling = {}
  BY <1>0 DEF AllEmpty
<1>3. ObservedLifecycle' =
         IF queue \union running_tasks \union cancelling = {}
         THEN "Terminated" ELSE "Stopping"
  BY <1>0, <1>2, TerminatedByCollectionsNext DEF ObservedLifecycle
<1>4. ObservedLifecycle \in {"Running", "ShuttingDown", "Stopping", "Terminated"}
  BY <1>0 DEF ObservedLifecycle, Lifecycles
<1>5. ObservedLifecycle = "Terminated" => AllEmpty
  BY <1>0, TerminatedByCollections DEF ObservedLifecycle, Lifecycles
<1>6. AllEmpty => \A t \in TaskIds : PhaseOf(t) # "Queued"
  BY DEF AllEmpty, PhaseOf
<1>7. QED
  BY <1>1, <1>3, <1>4, <1>5, <1>6 DEF AllEmpty

-----------------------------------------------------------------------------
(* The shared state keeps the contract, results apart.                     *)

lifeMap == [t \in TaskIds |-> PhaseOf(t)]

LEMMA LifeSets ==
    ASSUME StateInv
    PROVE  /\ TaskLife!In("Queued") = queue
           /\ TaskLife!In("Active") = running_tasks
           /\ TaskLife!In("New") = {t \in TaskIds : t >= next_task_id}
           /\ TaskLife!Unfinished = queue \union running_tasks \union cancelling
<1>1. /\ queue \subseteq TaskIds /\ running_tasks \subseteq TaskIds
      /\ cancelling \subseteq TaskIds
      /\ next_task_id \in Nat /\ TaskIds \subseteq Nat
  BY ConfigAssumption DEF StateInv, StateTypeOK, TaskIds
<1>2. /\ TaskLife!In("Queued") = queue
      /\ TaskLife!In("Active") = running_tasks
      /\ TaskLife!In("Withdrawn") = cancelling
      /\ TaskLife!In("New") = {t \in TaskIds : t >= next_task_id}
  BY <1>1, PhasesAreCollections DEF TaskLife!In
<1>3. QED
  BY <1>2 DEF TaskLife!Unfinished

LEMMA LifeCardinality ==
    ASSUME NEW S
    PROVE  TaskLife!Cardinality(S) = Cardinality(S)
BY DEF Cardinality, TaskLife!Cardinality, IsFiniteSet, TaskLife!IsFiniteSet

LEMMA AdmitLives ==
    ASSUME StateInv, admit
    PROVE  TaskLife!ContractNext
<1> DEFINE n == next_task_id
<1>1. /\ n \in TaskIds /\ n \in Nat
      /\ ObservedLifecycle = "Running" /\ ObservedLifecycle' = "Running"
      /\ \A t \in TaskIds : PhaseOf(t)' = IF t = n THEN "Queued" ELSE PhaseOf(t)
  BY AdmitSeen, ConfigAssumption DEF StateInv, StateTypeOK
<1>2. TaskLife!First(TaskLife!In("New"), n)
  BY <1>1, LifeSets DEF TaskLife!First, TaskIds
<1>3. Cardinality(TaskLife!Unfinished) < TaskCapacity
  BY AdmitSeen, OccupiedCounts, LifeSets
<1>4. lifeMap' = [lifeMap EXCEPT ![n] = "Queued"]
  BY <1>1 DEF lifeMap
<1>5. TaskLife!Accept(n)
  BY <1>1, <1>2, <1>3, <1>4, LifeCardinality DEF TaskLife!Accept, lifeMap
<1>6. QED
  BY <1>1, <1>5 DEF TaskLife!ContractNext

LEMMA TakeLives ==
    ASSUME StateInv, StateInv', IdleReservation, NEW t \in queue, take_next(t)
    PROVE  TaskLife!ContractNext
<1>1. /\ t \in TaskIds /\ Oldest(t) /\ Cardinality(running_tasks) < NumThreads
      /\ ObservedLifecycle' = ObservedLifecycle
      /\ \A u \in TaskIds : PhaseOf(u)' = IF u = t THEN "Active" ELSE PhaseOf(u)
  BY TakeSeen
<1>2. /\ TaskLife!First(TaskLife!In("Queued"), t)
      /\ Cardinality(TaskLife!In("Active")) < NumThreads
  BY <1>1, LifeSets DEF Oldest, TaskLife!First
<1>3. lifeMap' = [lifeMap EXCEPT ![t] = "Active"]
  BY <1>1 DEF lifeMap
<1>4. TaskLife!Begin(t)
  BY <1>1, <1>2, <1>3, LifeCardinality DEF TaskLife!Begin, lifeMap
<1>5. QED
  BY <1>1, <1>4 DEF TaskLife!ContractNext

LEMMA CancelLives ==
    ASSUME StateInv, StateInv', NEW t \in queue, cancel_pending_task(t)
    PROVE  TaskLife!ContractNext
<1>1. /\ t \in TaskIds /\ ObservedLifecycle' = ObservedLifecycle
      /\ \A u \in TaskIds :
            PhaseOf(u)' = IF u = t THEN "Withdrawn" ELSE PhaseOf(u)
  BY CancelSeen
<1>2. PhaseOf(t) = "Queued"
  BY <1>1, PhasesAreCollections
<1>3. lifeMap' = [lifeMap EXCEPT ![t] = "Withdrawn"]
  BY <1>1 DEF lifeMap
<1>4. TaskLife!Withdraw(t)
  BY <1>1, <1>2, <1>3 DEF TaskLife!Withdraw, lifeMap
<1>5. QED
  BY <1>1, <1>4 DEF TaskLife!ContractNext

LEMMA FinishLives ==
    ASSUME StateInv, StateInv', NEW t \in running_tasks \union cancelling,
           \/ t \in running_tasks /\ finish_running(t)
           \/ t \in cancelling /\ finish_cancelling(t)
    PROVE  TaskLife!ContractNext
<1>1. /\ running_tasks' = running_tasks \ {t}
      /\ cancelling' = cancelling \ {t}
      /\ UNCHANGED <<lifecycle, next_task_id, queue>>
  BY DEF finish_running, finish_cancelling, StateInv, OwnershipConsistent
<1>2. /\ t \in TaskIds /\ PhaseOf(t) \in {"Active", "Withdrawn"}
      /\ \A u \in TaskIds : PhaseOf(u)' = IF u = t THEN "Done" ELSE PhaseOf(u)
  BY <1>1, FinishSeen
<1>3. ObservedLifecycle' =
         IF ObservedLifecycle # "Running" /\ TaskLife!Unfinished = {t}
         THEN "Terminated" ELSE ObservedLifecycle
  BY <1>1, FinishSeen, LifeSets
<1>4. lifeMap' = [lifeMap EXCEPT ![t] = "Done"]
  BY <1>2 DEF lifeMap
<1>5. TaskLife!Retire(t)
  BY <1>2, <1>3, <1>4 DEF TaskLife!Retire, lifeMap
<1>6. QED
  BY <1>2, <1>5 DEF TaskLife!ContractNext

LEMMA ShutdownLives ==
    ASSUME StateInv, StateInv', shutdown
    PROVE  TaskLife!CloseGracefully \/ UNCHANGED TaskLife!contractVars
<1>1. lifeMap' = lifeMap
  BY ShutdownSeen DEF lifeMap
<1>2. CASE ObservedLifecycle = "Running"
  <2>1. ObservedLifecycle' = IF TaskLife!Unfinished = {}
                             THEN "Terminated" ELSE "ShuttingDown"
    BY <1>2, ShutdownSeen, LifeSets
  <2>2. QED
    BY <1>1, <1>2, <2>1 DEF TaskLife!CloseGracefully, lifeMap
<1>3. CASE ObservedLifecycle # "Running"
  BY <1>1, <1>3, ShutdownSeen DEF TaskLife!contractVars, lifeMap
<1>4. QED
  BY <1>2, <1>3

LEMMA StopLives ==
    ASSUME StateInv, StateInv', stop
    PROVE  TaskLife!CloseNow \/ UNCHANGED TaskLife!contractVars
<1>1. lifeMap' = [t \in TaskIds |-> IF lifeMap[t] = "Queued"
                                   THEN "Withdrawn" ELSE lifeMap[t]]
  BY StopSeen DEF lifeMap
<1>2. CASE ObservedLifecycle # "Terminated"
  <2>1. /\ ObservedLifecycle \in {"Running", "ShuttingDown", "Stopping"}
        /\ ObservedLifecycle' = IF TaskLife!Unfinished = {}
                                THEN "Terminated" ELSE "Stopping"
    BY <1>2, StopSeen, LifeSets
  <2>2. QED
    BY <1>1, <2>1 DEF TaskLife!CloseNow, lifeMap
<1>3. CASE ObservedLifecycle = "Terminated"
  <2>1. lifeMap' = lifeMap
    BY <1>3, StopSeen DEF lifeMap
  <2>2. QED
    BY <1>3, <2>1, StopSeen DEF TaskLife!contractVars, lifeMap
<1>4. QED
  BY <1>2, <1>3

LEMMA StepsAreOfTaskLife ==
    ASSUME StateInv, StateInv', [StateNext]_stateVars
    PROVE  [TaskLife!ContractNext]_(TaskLife!contractVars)
<1>1. CASE \/ take_nothing \/ UNCHANGED stateVars
           \/ \E c \in Callers : park(c) \/ unpark_on_timeout(c)
  <2>1. UNCHANGED <<lifecycle, next_task_id, queue, running_tasks, cancelling>>
    BY <1>1 DEF take_nothing, stateVars, park, unpark_on_timeout
  <2>2. QED
    BY <2>1, UnseenStep DEF TaskLife!contractVars
<1>2. CASE shutdown \/ stop
  BY <1>2, ShutdownLives, StopLives DEF TaskLife!ContractNext
<1>3. QED
  BY <1>1, <1>2, AdmitLives, TakeLives, CancelLives, FinishLives DEF StateNext

(* Every use of the shared state under its rules keeps the contract, as    *)
(* far as it is not about results: one life for each task, starts in order *)
(* on a free thread, capacity, a lifecycle that only advances and ends     *)
(* with the last task (all methods of RayonExecutorServiceState).          *)
THEOREM TasksLiveOnce == StateSpec => StateKeepsContract
<1>1. StateInit => TaskLife!ContractInit
  <2> SUFFICES ASSUME StateInit PROVE TaskLife!ContractInit
    OBVIOUS
  <2>1. ObservedLifecycle = "Running"
    BY DEF StateInit, ObservedLifecycle, IsTerminated
  <2>2. \A t \in TaskIds : PhaseOf(t) = "New"
    BY ConfigAssumption DEF StateInit, PhaseOf, TaskIds
  <2>3. QED
    BY <2>1, <2>2 DEF TaskLife!ContractInit
<1>2. StateInv /\ StateInv' /\ [StateNext]_stateVars
        => [TaskLife!ContractNext]_(TaskLife!contractVars)
  BY StepsAreOfTaskLife
<1>3. QED
  BY <1>1, <1>2, StateInvariant, PTL
  DEF StateSpec, StateKeepsContract, TaskLife!ContractSafety
=============================================================================
