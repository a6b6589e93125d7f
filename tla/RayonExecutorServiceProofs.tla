--------------------- MODULE RayonExecutorServiceProofs ---------------------
(***************************************************************************)
(* Proofs about the composed service, for every finite set of callers,     *)
(* every pool, capacity and id bound.                                      *)
(*                                                                         *)
(* ServiceInv strengthens the checked invariants by the shape of the calls *)
(* (who has closures to spawn, who owns jobs, what an absent task can no   *)
(* longer be) and by the status each owner's task has.  With it a closure  *)
(* that takes a job is known to have a reservation and a call that         *)
(* finishes a task is known to own it, so every step of the service is a   *)
(* step of the shared state, whose own invariant then carries over.        *)
(***************************************************************************)
EXTENDS RayonExecutorServiceProgress, RayonExecutorServiceStateProofs

Holders == {w \in Workers : wpc[w] \in Holding}

(* Where a call may have closures to spawn or jobs to cancel, and that a   *)
(* task found absent never comes back to the queue.                        *)
CallsInShape ==
    \A c \in Callers :
       /\ left[c] > 0 => pc[c] = "dispatching"
       /\ owned[c] # {} <=> pc[c] \in {"claimed", "cleaning"}
       /\ pc[c] \in {"absent", "absent_endpoint", "endpoint_cancel"} =>
             /\ target[c] \in 0 .. next_task_id - 1
             /\ target[c] \notin queue
             /\ target[c] \notin cancelling
       /\ pc[c] = "endpoint_cancel" => target[c] \notin running_tasks

(* The status of a task that a worker or a cancelling call holds.          *)
SlotsFollowOwners ==
    /\ \A t \in TaskIds : next_task_id <= t => slot[t] = "Unsubmitted"
    /\ \A w \in Workers :
          /\ wpc[w] = "taken" => slot[job[w]] = "Pending"
          /\ wpc[w] = "running" => slot[job[w]] = "Running"
          /\ wpc[w] = "ran" => slot[job[w]] \in Completed
    /\ \A c \in Callers : \A t \in owned[c] :
          slot[t] = IF pc[c] = "cleaning" /\ FirstOwned(c, t)
                    THEN "Cancelled" ELSE "Pending"

(* A cancelling call is about the one job it took, or is a stop; an answer *)
(* about a task names one that was accepted.                               *)
TargetsInShape ==
    \A c \in Callers :
       /\ pc[c] \in {"claimed", "cleaning"} =>
             IF target[c] = NoTask
             THEN lifecycle = "Stopping" ELSE owned[c] = {target[c]}
       /\ answer[c] \in {"Cancelled", "AlreadyRunning", "AlreadyFinished"} =>
             target[c] \in 0 .. next_task_id - 1

HoldersCounted == running = Cardinality(Holders)

ServiceInv ==
    /\ StateInv
    /\ TypeOK
    /\ CallsInShape
    /\ TargetsInShape
    /\ ReservationsConserved
    /\ HoldersCounted
    /\ SingleOwner
    /\ SlotsFollowOwners
    /\ AnswersSound

-----------------------------------------------------------------------------
(* Sizes.                                                                  *)
LEMMA WorkerSetFinite ==
    ASSUME NEW S \in SUBSET Workers
    PROVE  IsFiniteSet(S) /\ Cardinality(S) \in Nat
BY PoolAssumption, FS_Subset, FS_CardinalityType

LEMMA WorkerSetJoin ==
    ASSUME NEW S \in SUBSET Workers, NEW w \in Workers, w \notin S
    PROVE  Cardinality(S \union {w}) = Cardinality(S) + 1
BY WorkerSetFinite, FS_AddElement

LEMMA WorkerSetLeave ==
    ASSUME NEW S \in SUBSET Workers, NEW w \in S
    PROVE  /\ Cardinality(S \ {w}) = Cardinality(S) - 1
           /\ Cardinality(S) > 0
<1>1. IsFiniteSet(S \ {w}) /\ Cardinality(S \ {w}) = Cardinality(S) - 1
  BY WorkerSetFinite, FS_RemoveElement
<1>2. Cardinality(S \ {w}) \in Nat /\ Cardinality(S) \in Nat
  BY <1>1, WorkerSetFinite, FS_CardinalityType
<1>3. QED
  BY <1>1, <1>2

LEMMA PromiseSetFinite ==
    ASSUME NEW S \in SUBSET (Callers \X (1 .. NumThreads))
    PROVE  IsFiniteSet(S) /\ Cardinality(S) \in Nat
<1>1. IsFiniteSet(1 .. NumThreads)
  BY ConfigAssumption, FS_Interval
<1>2. IsFiniteSet(Callers \X (1 .. NumThreads))
  BY <1>1, PoolAssumption, FS_Product
<1>3. QED
  BY <1>2, FS_Subset, FS_CardinalityType

(* A caller that had nothing to spawn promises k closures.                 *)
LEMMA PromiseMore ==
    ASSUME left \in [Callers -> 0 .. NumThreads],
           NEW c \in Callers, NEW k \in 0 .. NumThreads, left[c] = 0,
           left' = [left EXCEPT ![c] = k]
    PROVE  Cardinality(Promised') = Cardinality(Promised) + k
<1> DEFINE N == {c} \X (1 .. k)
<1>1. IsFiniteSet({c}) /\ Cardinality({c}) = 1
  BY FS_Singleton
<1>2. IsFiniteSet(1 .. k) /\ Cardinality(1 .. k) = k
  BY FS_Interval
<1>3. IsFiniteSet(N) /\ Cardinality(N) = k
  BY <1>1, <1>2, FS_Product
<1>4. IsFiniteSet(Promised) /\ Cardinality(Promised) \in Nat
  BY PromiseSetFinite DEF Promised
<1>5. Promised' = Promised \union N
  BY ConfigAssumption DEF Promised
<1>6. Promised \intersect N = {}
  BY DEF Promised
<1>7. Cardinality(Promised \union N)
         = Cardinality(Promised) + Cardinality(N) - Cardinality(Promised \intersect N)
  BY <1>3, <1>4, FS_Union
<1>8. QED
  BY <1>3, <1>4, <1>5, <1>6, <1>7, FS_EmptySet

(* A caller spawns one of the closures it promised.                        *)
LEMMA PromiseKept ==
    ASSUME left \in [Callers -> 0 .. NumThreads],
           NEW c \in Callers, left[c] > 0,
           left' = [left EXCEPT ![c] = @ - 1]
    PROVE  Cardinality(Promised') = Cardinality(Promised) - 1
<1>1. <<c, left[c]>> \in Promised
  BY DEF Promised
<1>2. Promised' = Promised \ {<<c, left[c]>>}
  BY ConfigAssumption DEF Promised
<1>3. IsFiniteSet(Promised)
  BY PromiseSetFinite DEF Promised
<1>4. QED
  BY <1>1, <1>2, <1>3, FS_RemoveElement

-----------------------------------------------------------------------------
(* The rules of the shared state.                                          *)

(* A closure in the pool is a reservation that no running task uses.       *)
LEMMA SpawnedIsIdleReservation ==
    ASSUME ServiceInv, spawned > 0
    PROVE  IdleReservation
<1>1. /\ Busy \in SUBSET Workers
      /\ Holders \in SUBSET Busy
  BY DEF Busy, Holders, Holding
<1>2. Cardinality(Holders) <= Cardinality(Busy)
  BY <1>1, WorkerSetFinite, FS_Subset
<1>3. Cardinality(Promised) \in Nat
  BY PromiseSetFinite DEF Promised
<1>4. Cardinality(Busy) \in Nat /\ Cardinality(Holders) \in Nat
  BY <1>1, WorkerSetFinite
<1>5. spawned \in Nat
  BY DEF ServiceInv, TypeOK
<1>6. QED
  BY <1>2, <1>3, <1>4, <1>5
  DEF ServiceInv, ReservationsConserved, HoldersCounted, IdleReservation

LEMMA CallKeepsProtocol ==
    ASSUME ServiceInv, NEW c \in Callers, Call(c) \/ Wait(c) \/ Continue(c)
    PROVE  [StateNext]_stateVars
<1>1. CASE SubmitAccepted(c) \/ Shutdown(c) \/ Stop(c)
  BY <1>1 DEF SubmitAccepted, Shutdown, Stop, StateNext
<1>2. CASE \E t \in TaskIds : CancelOwned(c, t)
  <2>1. PICK t \in TaskIds : cancel_pending_task(t)
    BY <1>2 DEF CancelOwned
  <2>2. t \in queue
    BY <2>1 DEF cancel_pending_task, CancelDisposition
  <2>3. QED
    BY <2>1, <2>2 DEF StateNext
<1>3. CASE \/ SubmitRefused(c)
           \/ \E t \in TaskIds : \/ CancelInProgress(c, t)
                                 \/ CancelAbsent(c, t, "absent")
                                 \/ CancelAbsent(c, t, "absent_endpoint")
           \/ WaitObserves(c) \/ WaitTimesOut(c)
           \/ Dispatch(c) \/ ReturnHandle(c) \/ AnswerFromStatus(c)
           \/ EndpointRunning(c) \/ EndpointNotRunning(c)
           \/ EndpointCancel(c) \/ CancelJob(c)
  BY <1>3
  DEF SubmitRefused, CancelInProgress, CancelAbsent, WaitObserves,
      WaitTimesOut, Dispatch, ReturnHandle, AnswerFromStatus, EndpointRunning,
      EndpointNotRunning, EndpointCancel, CancelJob
<1>4. CASE \/ WaitParks(c, "waiting") \/ WaitParks(c, "waiting_for")
           \/ WaitExpires(c)
  BY <1>4 DEF WaitParks, WaitExpires, StateNext
<1>5. CASE \E t \in TaskIds : FinishCancelling(c, t)
  <2>1. PICK t \in TaskIds : finish_cancelling(t) /\ t \in owned[c]
    BY <1>5 DEF FinishCancelling, FirstOwned
  <2>2. t \in cancelling
    BY <2>1 DEF ServiceInv, SingleOwner
  <2>3. QED
    BY <2>1, <2>2 DEF StateNext
<1>6. QED
  BY <1>1, <1>2, <1>3, <1>4, <1>5 DEF Call, Wait, Continue

LEMMA WorkKeepsProtocol ==
    ASSUME ServiceInv, NEW w \in Workers, Work(w)
    PROVE  [StateNext]_stateVars
<1>1. CASE \E t \in TaskIds : TakeNext(w, t)
  <2>1. PICK t \in TaskIds : take_next(t) /\ spawned > 0
    BY <1>1 DEF TakeNext, PickUp
  <2>2. t \in queue
    BY <2>1 DEF take_next, Oldest
  <2>3. QED
    BY <2>1, <2>2, SpawnedIsIdleReservation DEF StateNext
<1>2. CASE TakeNothing(w)
  BY <1>2, SpawnedIsIdleReservation DEF TakeNothing, PickUp, StateNext
<1>3. CASE Start(w) \/ (\E s \in Completed : Complete(w, s)) \/ SpawnSuccessor(w)
  BY <1>3 DEF Start, Complete, SpawnSuccessor
<1>4. CASE FinishRunning(w)
  <2>1. wpc[w] \in Holding /\ finish_running(job[w])
    BY <1>4 DEF FinishRunning, Holding
  <2>2. job[w] \in running_tasks
    BY <2>1 DEF ServiceInv, SingleOwner
  <2>3. QED
    BY <2>1, <2>2 DEF StateNext
<1>5. QED
  BY <1>1, <1>2, <1>3, <1>4 DEF Work

LEMMA StepsKeepProtocol ==
    ServiceInv /\ [Next]_vars => [StateNext]_stateVars
<1> SUFFICES ASSUME ServiceInv, Next PROVE [StateNext]_stateVars
  BY DEF vars
<1>1. QED
  BY CallKeepsProtocol, WorkKeepsProtocol DEF Next

LEMMA StateInvKept ==
    ServiceInv /\ [Next]_vars => StateInv'
BY StepsKeepProtocol, NextKeepsStateInv DEF ServiceInv

-----------------------------------------------------------------------------
(* Reservations.                                                           *)

(* What an admission promises fits the pool.                               *)
LEMMA ClosuresToSpawnType ==
    ASSUME ServiceInv
    PROVE  ClosuresToSpawn \in 0 .. NumThreads
<1>1. IsFiniteSet(queue)
  BY TaskSetFinite DEF ServiceInv, StateInv, StateTypeOK
<1>2. Cardinality(queue \union {next_task_id}) \in Nat
  BY <1>1, FS_AddElement, FS_CardinalityType
<1>3. QED
  BY <1>2, ConfigAssumption
  DEF ClosuresToSpawn, DispatchCount, Min2, saturating_sub, ServiceInv,
      StateInv, StateTypeOK

(* Each step that changes `scheduled` changes one of the three places a    *)
(* reservation can be in, and each hand-over moves it between two.         *)
LEMMA ReservationsKept ==
    ServiceInv /\ [Next]_vars => ReservationsConserved'
<1> SUFFICES ASSUME ServiceInv, [Next]_vars PROVE ReservationsConserved'
  OBVIOUS
<1> USE DEF ReservationsConserved
<1>0. /\ left \in [Callers -> 0 .. NumThreads]
      /\ wpc \in [Workers -> WorkerPCs]
      /\ spawned \in Nat
      /\ scheduled \in Nat
      /\ Cardinality(Promised) \in Nat
      /\ Cardinality(Busy) \in Nat
      /\ scheduled = Cardinality(Promised) + spawned + Cardinality(Busy)
  <2>1. Cardinality(Promised) \in Nat
    BY PromiseSetFinite DEF Promised
  <2>2. Cardinality(Busy) \in Nat
    BY WorkerSetFinite DEF Busy
  <2>3. QED
    BY <2>1, <2>2 DEF ServiceInv, TypeOK, StateInv, StateTypeOK
<1>1. ASSUME NEW c \in Callers, SubmitAccepted(c)
      PROVE  ReservationsConserved'
  <2>1. left[c] = 0
    BY <1>1, <1>0 DEF SubmitAccepted, ServiceInv, CallsInShape
  <2>2. ClosuresToSpawn \in 0 .. NumThreads
    BY ClosuresToSpawnType
  <2>3. Cardinality(Promised') = Cardinality(Promised) + ClosuresToSpawn
    BY <1>0, <1>1, <2>1, <2>2, PromiseMore DEF SubmitAccepted
  <2>4. Busy' = Busy /\ spawned' = spawned
    BY <1>1 DEF SubmitAccepted, poolVars, Busy
  <2>5. scheduled' = scheduled + ClosuresToSpawn
    BY <1>1 DEF SubmitAccepted, admit, ClosuresToSpawn
  <2>6. QED
    BY <1>0, <2>2, <2>3, <2>4, <2>5
<1>2. ASSUME NEW c \in Callers, Dispatch(c)
      PROVE  ReservationsConserved'
  <2>1. Cardinality(Promised') = Cardinality(Promised) - 1
    BY <1>0, <1>2, PromiseKept DEF Dispatch
  <2>2. Busy' = Busy /\ spawned' = spawned + 1 /\ scheduled' = scheduled
    BY <1>2 DEF Dispatch, stateVars, Busy
  <2>3. QED
    BY <1>0, <2>1, <2>2
<1>3. ASSUME NEW w \in Workers, NEW t \in TaskIds, TakeNext(w, t)
      PROVE  ReservationsConserved'
  <2>1. Busy' = Busy \union {w} /\ w \notin Busy
    BY <1>0, <1>3 DEF TakeNext, PickUp, WorkerGoto, Busy
  <2>2. Cardinality(Busy') = Cardinality(Busy) + 1
    BY <2>1, WorkerSetJoin DEF Busy
  <2>3. /\ Promised' = Promised
        /\ spawned > 0 /\ spawned' = spawned - 1
        /\ scheduled' = scheduled
    BY <1>3 DEF TakeNext, PickUp, take_next, callerVars, Promised
  <2>4. QED
    BY <1>0, <2>2, <2>3
<1>4. ASSUME NEW w \in Workers, TakeNothing(w)
      PROVE  ReservationsConserved'
  <2>1. Busy' = Busy /\ Promised' = Promised
    BY <1>4 DEF TakeNothing, callerVars, Busy, Promised
  <2>2. spawned > 0 /\ spawned' = spawned - 1
    BY <1>4 DEF TakeNothing, PickUp
  <2>3. scheduled' = scheduled - 1
    BY <1>0, <1>4, <2>2 DEF TakeNothing, take_nothing, saturating_sub
  <2>4. QED
    BY <1>0, <2>1, <2>2, <2>3
<1>5. ASSUME NEW w \in Workers,
             Start(w) \/ \E s \in Completed : Complete(w, s)
      PROVE  ReservationsConserved'
  <2>1. Busy' = Busy
    BY <1>0, <1>5 DEF Start, Complete, WorkerGoto, Busy
  <2>2. Promised' = Promised /\ spawned' = spawned /\ scheduled' = scheduled
    BY <1>5 DEF Start, Complete, callerVars, stateVars, Promised
  <2>3. QED
    BY <1>0, <2>1, <2>2
<1>6. ASSUME NEW w \in Workers, FinishRunning(w)
      PROVE  ReservationsConserved'
  <2>1. w \in Busy /\ Promised' = Promised /\ spawned' = spawned
    BY <1>6 DEF FinishRunning, Busy, callerVars, Promised
  <2>2. Cardinality(Busy) > 0 /\ Cardinality(Busy \ {w}) = Cardinality(Busy) - 1
    BY <2>1, WorkerSetLeave DEF Busy
  <2>3. CASE queue = {}
    <3>1. Busy' = Busy \ {w}
      BY <1>0, <1>6, <2>3 DEF FinishRunning, WorkerGoto, Busy
    <3>2. scheduled' = scheduled - 1
      BY <1>0, <1>6, <2>2, <2>3
      DEF FinishRunning, finish_running, ReleaseIfIdle, saturating_sub
    <3>3. QED
      BY <1>0, <2>1, <2>2, <3>1, <3>2
  <2>4. CASE queue # {}
    <3>1. Busy' = Busy
      BY <1>0, <1>6, <2>4 DEF FinishRunning, WorkerGoto, Busy
    <3>2. scheduled' = scheduled
      BY <1>6, <2>4 DEF FinishRunning, finish_running, ReleaseIfIdle
    <3>3. QED
      BY <1>0, <2>1, <3>1, <3>2
  <2>5. QED
    BY <2>3, <2>4
<1>7. ASSUME NEW w \in Workers, SpawnSuccessor(w)
      PROVE  ReservationsConserved'
  <2>1. w \in Busy /\ Busy' = Busy \ {w}
    BY <1>0, <1>7 DEF SpawnSuccessor, WorkerGoto, Busy
  <2>2. Cardinality(Busy') = Cardinality(Busy) - 1
    BY <2>1, WorkerSetLeave DEF Busy
  <2>3. /\ Promised' = Promised
        /\ spawned' = spawned + 1
        /\ scheduled' = scheduled
    BY <1>7 DEF SpawnSuccessor, callerVars, stateVars, Promised
  <2>4. QED
    BY <1>0, <2>2, <2>3
<1>8. ASSUME UNCHANGED <<scheduled, left, spawned, wpc>>
      PROVE  ReservationsConserved'
  BY <1>0, <1>8 DEF Promised, Busy
<1>9. ASSUME NEW c \in Callers, Call(c) \/ Wait(c) \/ Continue(c),
             ~SubmitAccepted(c), ~Dispatch(c)
      PROVE  UNCHANGED <<scheduled, left, spawned, wpc>>
  BY <1>9
  DEF Call, Wait, Continue, SubmitRefused, CancelOwned, CancelInProgress,
      CancelAbsent, Shutdown, Stop, WaitObserves, WaitParks, WaitExpires,
      WaitTimesOut, ReturnHandle, AnswerFromStatus, EndpointRunning,
      EndpointNotRunning, EndpointCancel, CancelJob, FinishCancelling,
      stateVars, poolVars, cancel_pending_task, shutdown, stop, park,
      unpark_on_timeout, finish_cancelling
<1>10. CASE UNCHANGED vars
  BY <1>8, <1>10 DEF vars, stateVars, callerVars, poolVars
<1>11. QED
  BY <1>1, <1>2, <1>3, <1>4, <1>5, <1>6, <1>7, <1>8, <1>9, <1>10
  DEF Next, Work

-----------------------------------------------------------------------------
(* The counter of running tasks is the number of workers that hold one.    *)
LEMMA HoldersKept ==
    ServiceInv /\ [Next]_vars => HoldersCounted'
<1> SUFFICES ASSUME ServiceInv, [Next]_vars PROVE HoldersCounted'
  OBVIOUS
<1> USE DEF HoldersCounted
<1>0. /\ wpc \in [Workers -> WorkerPCs]
      /\ running = Cardinality(Holders)
      /\ Holders \in SUBSET Workers
  BY DEF ServiceInv, TypeOK, Holders
<1>1. ASSUME NEW w \in Workers, NEW t \in TaskIds, TakeNext(w, t)
      PROVE  HoldersCounted'
  <2>1. Holders' = Holders \union {w} /\ w \notin Holders
    BY <1>0, <1>1 DEF TakeNext, PickUp, WorkerGoto, Holders, Holding
  <2>2. Cardinality(Holders') = Cardinality(Holders) + 1
    BY <1>0, <2>1, WorkerSetJoin
  <2>3. QED
    BY <1>0, <1>1, <2>2 DEF TakeNext, take_next
<1>2. ASSUME NEW w \in Workers,
             Start(w) \/ \E s \in Completed : Complete(w, s)
      PROVE  HoldersCounted'
  <2>1. Holders' = Holders
    BY <1>0, <1>2 DEF Start, Complete, WorkerGoto, Holders, Holding
  <2>2. running' = running
    BY <1>2 DEF Start, Complete, stateVars
  <2>3. QED
    BY <1>0, <2>1, <2>2
<1>3. ASSUME NEW w \in Workers, FinishRunning(w)
      PROVE  HoldersCounted'
  <2>1. Holders' = Holders \ {w} /\ w \in Holders
    BY <1>0, <1>3 DEF FinishRunning, WorkerGoto, Holders, Holding
  <2>2. Cardinality(Holders') = Cardinality(Holders) - 1 /\ Cardinality(Holders) > 0
    BY <1>0, <2>1, WorkerSetLeave
  <2>3. Cardinality(Holders) \in Nat
    BY <1>0, WorkerSetFinite
  <2>4. QED
    BY <1>0, <1>3, <2>2, <2>3 DEF FinishRunning, finish_running, saturating_sub
<1>4. ASSUME NEW w \in Workers, SpawnSuccessor(w)
      PROVE  HoldersCounted'
  <2>1. Holders' = Holders
    BY <1>0, <1>4 DEF SpawnSuccessor, WorkerGoto, Holders, Holding
  <2>2. QED
    BY <1>0, <1>4, <2>1 DEF SpawnSuccessor, stateVars
<1>5. ASSUME UNCHANGED <<running, wpc>> PROVE HoldersCounted'
  BY <1>0, <1>5 DEF Holders
<1>6. ASSUME NEW w \in Workers, TakeNothing(w)
      PROVE  UNCHANGED <<running, wpc>>
  BY <1>6 DEF TakeNothing, take_nothing
<1>7. ASSUME NEW c \in Callers, Call(c) \/ Wait(c) \/ Continue(c)
      PROVE  UNCHANGED <<running, wpc>>
  BY <1>7
  DEF Call, Wait, Continue, SubmitAccepted, SubmitRefused, CancelOwned,
      CancelInProgress, CancelAbsent, Shutdown, Stop, WaitObserves, WaitParks,
      WaitExpires, WaitTimesOut, Dispatch, ReturnHandle, AnswerFromStatus,
      EndpointRunning, EndpointNotRunning, EndpointCancel, CancelJob,
      FinishCancelling, stateVars, poolVars, admit, cancel_pending_task,
      shutdown, stop, park, unpark_on_timeout, finish_cancelling
<1>8. CASE UNCHANGED vars
  BY <1>5, <1>8 DEF vars, stateVars, poolVars
<1>9. QED
  BY <1>1, <1>2, <1>3, <1>4, <1>5, <1>6, <1>7, <1>8 DEF Next, Work

-----------------------------------------------------------------------------
(* Tasks nobody owns any more.                                             *)

LEMMA UnownedIsFinal ==
    ASSUME ServiceInv, NEW t \in 0 .. next_task_id - 1,
           t \notin queue, t \notin running_tasks, t \notin cancelling
    PROVE  slot[t] \in Terminal
BY DEF ServiceInv, SingleOwner

LEMMA FallbackSlotIsFinal ==
    ASSUME ServiceInv, NEW c \in Callers, pc[c] = "endpoint_cancel"
    PROVE  slot[target[c]] \in Terminal
<1>1. /\ target[c] \in 0 .. next_task_id - 1
      /\ target[c] \notin queue
      /\ target[c] \notin running_tasks
      /\ target[c] \notin cancelling
  BY DEF ServiceInv, CallsInShape
<1>2. QED
  BY <1>1, UnownedIsFinal

(* So the fallback of an endpoint changes nothing.                         *)
LEMMA FallbackChangesNoSlot ==
    ASSUME ServiceInv, NEW c \in Callers, EndpointCancel(c)
    PROVE  slot' = slot
<1>1. slot[target[c]] \in Terminal
  BY FallbackSlotIsFinal DEF EndpointCancel
<1>2. slot' = [slot EXCEPT ![target[c]] = slot[target[c]]]
  BY <1>1 DEF EndpointCancel, cancel_unstarted, Terminal, Completed
<1>3. QED
  BY <1>2 DEF ServiceInv, TypeOK

-----------------------------------------------------------------------------
(* Types.                                                                  *)

(* An admission finds an id that is left.                                  *)
LEMMA AdmittedId ==
    ASSUME ServiceInv, admit
    PROVE  /\ next_task_id \in TaskIds
           /\ next_task_id' = next_task_id + 1
           /\ next_task_id \notin queue \union running_tasks \union cancelling
<1>1. next_task_id # MaxTaskId
  BY DEF admit, AdmitOutcome
<1>2. next_task_id \in TaskIds
  BY <1>1, ConfigAssumption DEF TaskIds, ServiceInv, StateInv, StateTypeOK
<1>3. next_task_id \notin queue \union running_tasks \union cancelling
  BY <1>2 DEF TaskIds, ServiceInv, StateInv, OwnershipConsistent
<1>4. QED
  BY <1>2, <1>3 DEF admit

LEMMA TypeOKKept ==
    ServiceInv /\ [Next]_vars => TypeOK'
<1> SUFFICES ASSUME ServiceInv, [Next]_vars PROVE TypeOK'
  OBVIOUS
<1> DEFINE CallerTypes ==
      /\ pc \in [Callers -> CallerPCs]
      /\ left \in [Callers -> 0 .. NumThreads]
      /\ owned \in [Callers -> SUBSET TaskIds]
      /\ target \in [Callers -> TaskIds \union {NoTask}]
      /\ answer \in [Callers -> Answers]
<1> DEFINE PoolTypes ==
      /\ wpc \in [Workers -> WorkerPCs]
      /\ job \in [Workers -> TaskIds \union {NoTask}]
<1> DEFINE SlotType ==
      slot \in [TaskIds -> Terminal \union {"Unsubmitted", "Pending", "Running"}]
<1>0. StateTypeOK /\ CallerTypes /\ PoolTypes /\ SlotType /\ spawned \in Nat
  BY DEF ServiceInv, TypeOK
<1>1. StateTypeOK'
  BY StateInvKept DEF StateInv
<1>2. CallerTypes'
  <2> USE <1>0 DEF CallerPCs, Waiting, Answers
  <2>1. ASSUME NEW c \in Callers, SubmitAccepted(c)
        PROVE  CallerTypes'
    <3>1. next_task_id \in TaskIds /\ ClosuresToSpawn \in 0 .. NumThreads
      BY <2>1, AdmittedId, ClosuresToSpawnType DEF SubmitAccepted
    <3>2. QED
      BY <2>1, <3>1 DEF SubmitAccepted, Enters, Goto, Answer
  <2>2. ASSUME NEW c \in Callers, SubmitRefused(c)
        PROVE  CallerTypes'
    BY <2>2 DEF SubmitRefused, Returns, Goto, Answer, AdmitOutcome
  <2>3. ASSUME NEW c \in Callers, NEW t \in TaskIds,
               \/ CancelOwned(c, t) \/ CancelInProgress(c, t)
               \/ CancelAbsent(c, t, "absent")
               \/ CancelAbsent(c, t, "absent_endpoint")
        PROVE  CallerTypes'
    BY <2>3 DEF CancelOwned, CancelInProgress, CancelAbsent, Enters, Returns,
                Goto, Answer
  <2>4. ASSUME NEW c \in Callers, Shutdown(c) \/ Stop(c)
        PROVE  CallerTypes'
    BY <2>4 DEF Shutdown, Stop, Enters, Returns, Goto, Answer, StateTypeOK
  <2>5. ASSUME NEW c \in Callers, Wait(c)
        PROVE  CallerTypes'
    BY <2>5 DEF Wait, WaitObserves, WaitParks, WaitExpires, WaitTimesOut,
                Enters, Returns, Goto, Answer
  <2>6. ASSUME NEW c \in Callers, Dispatch(c) \/ ReturnHandle(c)
        PROVE  CallerTypes'
    <3>1. CASE Dispatch(c)
      <4>1. left[c] - 1 \in 0 .. NumThreads
        BY <3>1, ConfigAssumption DEF Dispatch
      <4>2. left' \in [Callers -> 0 .. NumThreads]
        BY <3>1, <4>1 DEF Dispatch
      <4>3. QED
        BY <3>1, <4>2 DEF Dispatch
    <3>2. CASE ReturnHandle(c)
      BY <3>2 DEF ReturnHandle, Returns, Goto, Answer
    <3>3. QED
      BY <2>6, <3>1, <3>2
  <2>7. ASSUME NEW c \in Callers,
               \/ AnswerFromStatus(c) \/ EndpointRunning(c)
               \/ EndpointNotRunning(c) \/ EndpointCancel(c)
        PROVE  CallerTypes'
    BY <2>7 DEF AnswerFromStatus, EndpointRunning, EndpointNotRunning,
                EndpointCancel, Returns, Goto, Answer, StatusAnswer
  <2>8. ASSUME NEW c \in Callers,
               CancelJob(c) \/ \E t \in TaskIds : FinishCancelling(c, t)
        PROVE  CallerTypes'
    BY <2>8 DEF CancelJob, FinishCancelling, Enters, Returns, Goto, Answer
  <2>9. ASSUME NEW w \in Workers, Work(w)
        PROVE  CallerTypes'
    BY <2>9 DEF Work, TakeNext, TakeNothing, Start, Complete, FinishRunning,
                SpawnSuccessor, callerVars
  <2>10. CASE UNCHANGED vars
    BY <2>10 DEF vars, callerVars
  <2>11. QED
    BY <2>1, <2>2, <2>3, <2>4, <2>5, <2>6, <2>7, <2>8, <2>9, <2>10
    DEF Next, Call, Continue
<1>3. PoolTypes'
  <2> USE <1>0 DEF WorkerPCs, Holding
  <2>1. ASSUME NEW w \in Workers, Work(w)
        PROVE  PoolTypes'
    BY <2>1 DEF Work, TakeNext, TakeNothing, Start, Complete, FinishRunning,
                SpawnSuccessor, WorkerGoto
  <2>2. ASSUME NEW c \in Callers, Call(c) \/ Wait(c) \/ Continue(c)
        PROVE  UNCHANGED <<wpc, job>>
    BY <2>2
    DEF Call, Wait, Continue, SubmitAccepted, SubmitRefused, CancelOwned,
        CancelInProgress, CancelAbsent, Shutdown, Stop, WaitObserves,
        WaitParks, WaitExpires, WaitTimesOut, Dispatch, ReturnHandle,
        AnswerFromStatus, EndpointRunning, EndpointNotRunning, EndpointCancel,
        CancelJob, FinishCancelling, poolVars
  <2>3. CASE UNCHANGED vars
    BY <2>3 DEF vars, poolVars
  <2>4. QED
    BY <2>1, <2>2, <2>3 DEF Next
<1>4. SlotType'
  <2> USE <1>0 DEF Terminal, Completed
  <2>1. ASSUME NEW c \in Callers,
               SubmitAccepted(c) \/ EndpointCancel(c) \/ CancelJob(c)
        PROVE  SlotType'
    BY <2>1 DEF SubmitAccepted, EndpointCancel, CancelJob, SetSlot,
                cancel_unstarted
  <2>2. ASSUME NEW c \in Callers, Call(c) \/ Wait(c) \/ Continue(c),
               ~SubmitAccepted(c), ~EndpointCancel(c), ~CancelJob(c)
        PROVE  slot' = slot
    BY <2>2
    DEF Call, Wait, Continue, SubmitRefused, CancelOwned, CancelInProgress,
        CancelAbsent, Shutdown, Stop, WaitObserves, WaitParks, WaitExpires,
        WaitTimesOut, Dispatch, ReturnHandle, AnswerFromStatus,
        EndpointRunning, EndpointNotRunning, FinishCancelling
  <2>3. ASSUME NEW w \in Workers, Work(w)
        PROVE  SlotType'
    BY <2>3 DEF Work, TakeNext, TakeNothing, Start, Complete, FinishRunning,
                SpawnSuccessor, SetSlot
  <2>4. CASE UNCHANGED vars
    BY <2>4 DEF vars
  <2>5. QED
    BY <2>1, <2>2, <2>3, <2>4 DEF Next
<1>5. (spawned \in 0 .. NumThreads)'
  <2>1. spawned' \in Nat
    <3>1. ASSUME NEW c \in Callers, Call(c) \/ Wait(c) \/ Continue(c)
          PROVE  spawned' \in {spawned, spawned + 1}
      BY <3>1
      DEF Call, Wait, Continue, SubmitAccepted, SubmitRefused, CancelOwned,
          CancelInProgress, CancelAbsent, Shutdown, Stop, WaitObserves,
          WaitParks, WaitExpires, WaitTimesOut, Dispatch, ReturnHandle,
          AnswerFromStatus, EndpointRunning, EndpointNotRunning,
          EndpointCancel, CancelJob, FinishCancelling, poolVars
    <3>2. ASSUME NEW w \in Workers, Work(w)
          PROVE  \/ spawned' \in {spawned, spawned + 1}
                 \/ spawned > 0 /\ spawned' = spawned - 1
      BY <3>2 DEF Work, TakeNext, TakeNothing, PickUp, Start, Complete,
                  FinishRunning, SpawnSuccessor
    <3>3. QED
      BY <1>0, <3>1, <3>2 DEF Next, vars, poolVars
  <2>2. /\ scheduled' \in Nat /\ scheduled' <= NumThreads
        /\ scheduled' = Cardinality(Promised') + spawned' + Cardinality(Busy')
    BY StateInvKept, ReservationsKept
    DEF StateInv, StateTypeOK, WorkIsReserved, ReservationsConserved
  <2>3. (Cardinality(Promised) \in Nat)'
    BY PromiseSetFinite DEF Promised
  <2>4. (Cardinality(Busy) \in Nat)'
    BY WorkerSetFinite DEF Busy
  <2>5. QED
    BY <2>1, <2>2, <2>3, <2>4, ConfigAssumption
<1>6. QED
  BY <1>1, <1>2, <1>3, <1>4, <1>5 DEF TypeOK

-----------------------------------------------------------------------------
(* The shape of the calls.                                                 *)

(* A task that was found absent stays absent: no step puts it back.        *)
LEMMA AbsentStaysAbsent ==
    ASSUME ServiceInv, [Next]_vars,
           NEW t \in 0 .. next_task_id - 1, t \notin queue, t \notin cancelling
    PROVE  /\ t \in 0 .. next_task_id' - 1
           /\ t \notin queue'
           /\ t \notin cancelling'
           /\ t \notin running_tasks => t \notin running_tasks'
<1> USE DEF ServiceInv, StateInv, StateTypeOK
<1>1. [StateNext]_stateVars
  BY StepsKeepProtocol
<1>2. CASE admit
  BY <1>2 DEF admit
<1>3. CASE \/ \E u \in queue : take_next(u) \/ cancel_pending_task(u)
           \/ \E u \in running_tasks : finish_running(u)
           \/ \E u \in cancelling : finish_cancelling(u)
  BY <1>3 DEF take_next, cancel_pending_task, finish_running, finish_cancelling
<1>4. CASE \/ take_nothing \/ shutdown \/ stop
           \/ \E c \in Callers : park(c) \/ unpark_on_timeout(c)
  BY <1>4 DEF take_nothing, shutdown, stop, park, unpark_on_timeout
<1>5. CASE UNCHANGED stateVars
  BY <1>5 DEF stateVars
<1>6. QED
  BY <1>1, <1>2, <1>3, <1>4, <1>5 DEF StateNext

(* A caller at d keeps its shape in a step that leaves its own variables   *)
(* alone.                                                                  *)
LEMMA OthersKeepShape ==
    ASSUME ServiceInv, [Next]_vars, NEW d \in Callers,
           pc'[d] = pc[d], left'[d] = left[d], owned'[d] = owned[d],
           target'[d] = target[d]
    PROVE  /\ left'[d] > 0 => pc'[d] = "dispatching"
           /\ owned'[d] # {} <=> pc'[d] \in {"claimed", "cleaning"}
           /\ pc'[d] \in {"absent", "absent_endpoint", "endpoint_cancel"} =>
                 /\ target'[d] \in 0 .. next_task_id' - 1
                 /\ target'[d] \notin queue'
                 /\ target'[d] \notin cancelling'
           /\ pc'[d] = "endpoint_cancel" => target'[d] \notin running_tasks'
<1>1. CallsInShape
  BY DEF ServiceInv
<1>2. CASE pc[d] \in {"absent", "absent_endpoint", "endpoint_cancel"}
  <2>1. /\ target[d] \in 0 .. next_task_id - 1
        /\ target[d] \notin queue
        /\ target[d] \notin cancelling
    BY <1>1, <1>2 DEF CallsInShape
  <2>2. /\ target[d] \in 0 .. next_task_id' - 1
        /\ target[d] \notin queue'
        /\ target[d] \notin cancelling'
        /\ target[d] \notin running_tasks => target[d] \notin running_tasks'
    BY <2>1, AbsentStaysAbsent
  <2>3. QED
    BY <1>1, <2>2 DEF CallsInShape
<1>3. CASE pc[d] \notin {"absent", "absent_endpoint", "endpoint_cancel"}
  BY <1>1, <1>3 DEF CallsInShape
<1>4. QED
  BY <1>2, <1>3

LEMMA CallsInShapeKept ==
    ServiceInv /\ [Next]_vars => CallsInShape'
<1> SUFFICES ASSUME ServiceInv, [Next]_vars PROVE CallsInShape'
  OBVIOUS
<1> DEFINE Shaped(d) ==
      /\ left[d] > 0 => pc[d] = "dispatching"
      /\ owned[d] # {} <=> pc[d] \in {"claimed", "cleaning"}
      /\ pc[d] \in {"absent", "absent_endpoint", "endpoint_cancel"} =>
            /\ target[d] \in 0 .. next_task_id - 1
            /\ target[d] \notin queue
            /\ target[d] \notin cancelling
      /\ pc[d] = "endpoint_cancel" => target[d] \notin running_tasks
<1>0. /\ pc \in [Callers -> CallerPCs]
      /\ left \in [Callers -> 0 .. NumThreads]
      /\ owned \in [Callers -> SUBSET TaskIds]
      /\ target \in [Callers -> TaskIds \union {NoTask}]
      /\ CallsInShape
      /\ next_task_id \in Nat
  BY ConfigAssumption DEF ServiceInv, TypeOK, StateInv, StateTypeOK
<1>1. ASSUME NEW c \in Callers, Call(c) \/ Wait(c) \/ Continue(c),
             NEW d \in Callers, d # c
      PROVE  Shaped(d)'
  <2>1. /\ pc'[d] = pc[d] /\ left'[d] = left[d] /\ owned'[d] = owned[d]
        /\ target'[d] = target[d]
    BY <1>0, <1>1
    DEF Call, Wait, Continue, SubmitAccepted, SubmitRefused, CancelOwned,
        CancelInProgress, CancelAbsent, Shutdown, Stop, WaitObserves,
        WaitParks, WaitExpires, WaitTimesOut, Dispatch, ReturnHandle,
        AnswerFromStatus, EndpointRunning, EndpointNotRunning, EndpointCancel,
        CancelJob, FinishCancelling, Enters, Returns, Goto, Answer
  <2>2. QED
    BY <2>1, OthersKeepShape
<1>2. ASSUME NEW c \in Callers, Call(c) PROVE Shaped(c)'
  <2>1. CASE SubmitAccepted(c)
    BY <1>0, <2>1 DEF SubmitAccepted, Enters, Goto, CallsInShape
  <2>2. CASE SubmitRefused(c) \/ Shutdown(c)
    BY <1>0, <2>2 DEF SubmitRefused, Shutdown, Returns, Goto, CallsInShape
  <2>3. CASE \E t \in TaskIds : CancelOwned(c, t)
    BY <1>0, <2>3 DEF CancelOwned, Enters, Goto, CallsInShape
  <2>4. CASE \E t \in TaskIds : CancelInProgress(c, t)
    BY <1>0, <2>4 DEF CancelInProgress, Returns, Goto, CallsInShape
  <2>5. CASE \E t \in TaskIds : \/ CancelAbsent(c, t, "absent")
                                \/ CancelAbsent(c, t, "absent_endpoint")
    <3>1. PICK t \in TaskIds : \/ CancelAbsent(c, t, "absent")
                               \/ CancelAbsent(c, t, "absent_endpoint")
      BY <2>5
    <3>2. t \in 0 .. next_task_id - 1 /\ t \notin queue /\ t \notin cancelling
      BY <1>0, <3>1 DEF CancelAbsent, HandleExists, CancelDisposition, TaskIds
    <3>3. /\ pc'[c] \in {"absent", "absent_endpoint"} /\ target'[c] = t
          /\ left'[c] = left[c] /\ owned'[c] = owned[c] /\ pc[c] = "idle"
          /\ UNCHANGED stateVars
      BY <1>0, <3>1 DEF CancelAbsent, Enters, Goto
    <3>4. QED
      BY <1>0, <3>2, <3>3 DEF CallsInShape, stateVars
  <2>6. CASE Stop(c)
    BY <1>0, <2>6 DEF Stop, Enters, Returns, Goto, CallsInShape
  <2>7. QED
    BY <1>2, <2>1, <2>2, <2>3, <2>4, <2>5, <2>6 DEF Call
<1>3. ASSUME NEW c \in Callers, Wait(c) PROVE Shaped(c)'
  BY <1>0, <1>3 DEF Wait, WaitObserves, WaitParks, WaitExpires, WaitTimesOut,
     Enters, Returns, Goto, Waiting, CallsInShape
<1>4. ASSUME NEW c \in Callers, Continue(c) PROVE Shaped(c)'
  <2>1. CASE Dispatch(c) \/ ReturnHandle(c)
    BY <1>0, <2>1 DEF Dispatch, ReturnHandle, Returns, Goto, CallsInShape
  <2>2. CASE AnswerFromStatus(c) \/ EndpointRunning(c) \/ EndpointCancel(c)
    BY <1>0, <2>2 DEF AnswerFromStatus, EndpointRunning, EndpointCancel,
       Returns, Goto, CallsInShape
  <2>3. CASE EndpointNotRunning(c)
    BY <1>0, <2>3 DEF EndpointNotRunning, Goto, CallsInShape, stateVars
  <2>4. CASE CancelJob(c)
    BY <1>0, <2>4 DEF CancelJob, Goto, CallsInShape
  <2>5. CASE \E t \in TaskIds : FinishCancelling(c, t)
    <3>1. PICK t \in TaskIds : FinishCancelling(c, t)
      BY <2>5
    <3>2. owned'[c] = owned[c] \ {t} /\ t \in owned[c] /\ left'[c] = left[c]
      BY <1>0, <3>1 DEF FinishCancelling, FirstOwned
    <3>3. pc'[c] = IF owned[c] # {t} THEN "claimed" ELSE "idle"
      BY <1>0, <3>1 DEF FinishCancelling, Enters, Returns, Goto
    <3>4. ~(left[c] > 0)
      BY <1>0, <3>1 DEF FinishCancelling, CallsInShape
    <3>5. QED
      BY <3>2, <3>3, <3>4
  <2>6. QED
    BY <1>4, <2>1, <2>2, <2>3, <2>4, <2>5 DEF Continue
<1>5. ASSUME NEW w \in Workers, Work(w), NEW d \in Callers PROVE Shaped(d)'
  <2>1. UNCHANGED callerVars
    BY <1>5 DEF Work, TakeNext, TakeNothing, Start, Complete, FinishRunning,
       SpawnSuccessor
  <2>2. QED
    BY <2>1, OthersKeepShape DEF callerVars
<1>6. CASE UNCHANGED vars
  BY <1>0, <1>6 DEF vars, callerVars, stateVars, CallsInShape
<1>7. QED
  BY <1>1, <1>2, <1>3, <1>4, <1>5, <1>6 DEF Next, CallsInShape

-----------------------------------------------------------------------------
(* Ownership of the jobs: the parts of SingleOwner.                        *)

WorkersOwn ==
    /\ \A w \in Workers : job[w] # NoTask <=> wpc[w] \in Holding
    /\ \A w1, w2 \in Workers : w1 # w2 /\ job[w1] = job[w2] => job[w1] = NoTask
    /\ running_tasks = {job[w] : w \in Workers} \ {NoTask}

CallersOwn ==
    /\ \A c1, c2 \in Callers : c1 # c2 => owned[c1] \intersect owned[c2] = {}
    /\ cancelling = UNION {owned[c] : c \in Callers}

CollectionsInSlots ==
    /\ \A t \in queue : slot[t] = "Pending"
    /\ \A t \in 0 .. next_task_id - 1 :
          t \notin queue \union running_tasks \union cancelling
             => slot[t] \in Terminal

LEMMA SingleOwnerParts ==
    SingleOwner <=> WorkersOwn /\ CallersOwn /\ CollectionsInSlots
BY DEF SingleOwner, WorkersOwn, CallersOwn, CollectionsInSlots

LEMMA NoTaskIsNoId == NoTask \notin TaskIds
BY ConfigAssumption DEF NoTask, TaskIds

LEMMA WorkersOwnKept ==
    ServiceInv /\ [Next]_vars => WorkersOwn'
<1> SUFFICES ASSUME ServiceInv, [Next]_vars PROVE WorkersOwn'
  OBVIOUS
<1>0. /\ wpc \in [Workers -> WorkerPCs]
      /\ job \in [Workers -> TaskIds \union {NoTask}]
      /\ WorkersOwn
      /\ queue \intersect running_tasks = {}
      /\ queue \in SUBSET TaskIds
  BY SingleOwnerParts
  DEF ServiceInv, TypeOK, StateInv, StateTypeOK, OwnershipConsistent
<1>1. ASSUME NEW w \in Workers, NEW t \in TaskIds, TakeNext(w, t)
      PROVE  WorkersOwn'
  <2>1. /\ wpc[w] = "idle" /\ wpc' = [wpc EXCEPT ![w] = "taken"]
        /\ job' = [job EXCEPT ![w] = t]
        /\ running_tasks' = running_tasks \union {t}
        /\ t \in queue
    BY <1>1 DEF TakeNext, PickUp, take_next, Oldest, WorkerGoto
  <2>2. job[w] = NoTask
    BY <1>0, <2>1 DEF WorkersOwn, Holding
  <2>3. t \notin running_tasks /\ t # NoTask
    BY <1>0, <2>1, NoTaskIsNoId
  <2>4. \A v \in Workers : job[v] # t
    BY <1>0, <2>3 DEF WorkersOwn
  <2>5. \A v \in Workers : job'[v] = IF v = w THEN t ELSE job[v]
    BY <1>0, <2>1
  <2>6. \A v \in Workers : wpc'[v] = IF v = w THEN "taken" ELSE wpc[v]
    BY <1>0, <2>1
  <2>7. (\A v \in Workers : job[v] # NoTask <=> wpc[v] \in Holding)'
    BY <1>0, <2>3, <2>5, <2>6 DEF WorkersOwn, Holding
  <2>8. (\A w1, w2 \in Workers :
            w1 # w2 /\ job[w1] = job[w2] => job[w1] = NoTask)'
    BY <1>0, <2>4, <2>5 DEF WorkersOwn
  <2>9. (running_tasks = {job[v] : v \in Workers} \ {NoTask})'
    BY <1>0, <2>1, <2>2, <2>3, <2>5 DEF WorkersOwn
  <2>10. QED
    BY <2>7, <2>8, <2>9 DEF WorkersOwn
<1>2. ASSUME NEW w \in Workers, FinishRunning(w)
      PROVE  WorkersOwn'
  <2>1. /\ wpc[w] = "ran" /\ job' = [job EXCEPT ![w] = NoTask]
        /\ running_tasks' = running_tasks \ {job[w]}
    BY <1>2 DEF FinishRunning, finish_running
  <2>2. \A v \in Workers : job'[v] = IF v = w THEN NoTask ELSE job[v]
    BY <1>0, <2>1
  <2>3. \A v \in Workers : v # w => wpc'[v] = wpc[v]
    BY <1>0, <1>2 DEF FinishRunning, WorkerGoto
  <2>4. wpc'[w] \notin Holding
    BY <1>0, <1>2 DEF FinishRunning, WorkerGoto, Holding
  <2>5. job[w] # NoTask /\ \A v \in Workers : v # w => job[v] # job[w]
    BY <1>0, <2>1 DEF WorkersOwn, Holding
  <2>6. (\A v \in Workers : job[v] # NoTask <=> wpc[v] \in Holding)'
    BY <1>0, <2>2, <2>3, <2>4 DEF WorkersOwn, Holding
  <2>7. (\A w1, w2 \in Workers :
            w1 # w2 /\ job[w1] = job[w2] => job[w1] = NoTask)'
    BY <1>0, <2>2 DEF WorkersOwn
  <2>8. (running_tasks = {job[v] : v \in Workers} \ {NoTask})'
    BY <1>0, <2>1, <2>2, <2>5 DEF WorkersOwn
  <2>9. QED
    BY <2>6, <2>7, <2>8 DEF WorkersOwn
<1>3. ASSUME NEW w \in Workers,
             \/ Start(w) \/ \E s \in Completed : Complete(w, s)
             \/ SpawnSuccessor(w)
      PROVE  WorkersOwn'
  <2>1. job' = job /\ running_tasks' = running_tasks
    BY <1>3 DEF Start, Complete, SpawnSuccessor, stateVars
  <2>2. \A v \in Workers : wpc'[v] \in Holding <=> wpc[v] \in Holding
    BY <1>0, <1>3 DEF Start, Complete, SpawnSuccessor, WorkerGoto, Holding
  <2>3. QED
    BY <1>0, <2>1, <2>2 DEF WorkersOwn
<1>4. ASSUME UNCHANGED <<wpc, job, running_tasks>> PROVE WorkersOwn'
  BY <1>0, <1>4 DEF WorkersOwn, Holding
<1>5. ASSUME NEW w \in Workers, TakeNothing(w)
      PROVE  UNCHANGED <<wpc, job, running_tasks>>
  BY <1>5 DEF TakeNothing, take_nothing
<1>6. ASSUME NEW c \in Callers, Call(c) \/ Wait(c) \/ Continue(c)
      PROVE  UNCHANGED <<wpc, job, running_tasks>>
  BY <1>6
  DEF Call, Wait, Continue, SubmitAccepted, SubmitRefused, CancelOwned,
      CancelInProgress, CancelAbsent, Shutdown, Stop, WaitObserves, WaitParks,
      WaitExpires, WaitTimesOut, Dispatch, ReturnHandle, AnswerFromStatus,
      EndpointRunning, EndpointNotRunning, EndpointCancel, CancelJob,
      FinishCancelling, stateVars, poolVars, admit, cancel_pending_task,
      shutdown, stop, park, unpark_on_timeout, finish_cancelling
<1>7. CASE UNCHANGED vars
  BY <1>4, <1>7 DEF vars, stateVars, poolVars
<1>8. QED
  BY <1>1, <1>2, <1>3, <1>4, <1>5, <1>6, <1>7 DEF Next, Work

(* A job leaves the queue for one call, and `cancelling` for none.         *)
LEMMA CallersOwnKept ==
    ServiceInv /\ [Next]_vars => CallersOwn'
<1> SUFFICES ASSUME ServiceInv, [Next]_vars PROVE CallersOwn'
  OBVIOUS
<1>0. /\ owned \in [Callers -> SUBSET TaskIds]
      /\ CallersOwn
      /\ queue \intersect cancelling = {}
      /\ \A c \in Callers : pc[c] = "idle" => owned[c] = {}
  BY SingleOwnerParts
  DEF ServiceInv, TypeOK, StateInv, StateTypeOK, OwnershipConsistent,
      CallsInShape
<1>1. ASSUME NEW c \in Callers, owned[c] = {}, NEW Q, Q \subseteq queue,
             owned' = [owned EXCEPT ![c] = Q], cancelling' = cancelling \union Q
      PROVE  CallersOwn'
  <2>1. \A d \in Callers : owned'[d] = IF d = c THEN Q ELSE owned[d]
    BY <1>0, <1>1
  <2>2. \A d \in Callers : owned[d] \intersect Q = {}
    BY <1>0, <1>1 DEF CallersOwn
  <2>3. (\A c1, c2 \in Callers : c1 # c2 => owned[c1] \intersect owned[c2] = {})'
    BY <1>0, <2>1, <2>2 DEF CallersOwn
  <2>4. (cancelling = UNION {owned[d] : d \in Callers})'
    BY <1>0, <1>1, <2>1 DEF CallersOwn
  <2>5. QED
    BY <2>3, <2>4 DEF CallersOwn
<1>2. ASSUME NEW c \in Callers, NEW t \in TaskIds, CancelOwned(c, t)
      PROVE  CallersOwn'
  <2>1. t \in queue /\ cancelling' = cancelling \union {t}
    BY <1>2 DEF CancelOwned, cancel_pending_task, CancelDisposition
  <2>2. QED
    BY <1>0, <1>1, <1>2, <2>1 DEF CancelOwned
<1>3. ASSUME NEW c \in Callers, Stop(c) PROVE CallersOwn'
  BY <1>0, <1>1, <1>3 DEF Stop, stop
<1>4. ASSUME NEW c \in Callers, NEW t \in TaskIds, FinishCancelling(c, t)
      PROVE  CallersOwn'
  <2>1. /\ t \in owned[c] /\ owned' = [owned EXCEPT ![c] = @ \ {t}]
        /\ cancelling' = cancelling \ {t}
    BY <1>4 DEF FinishCancelling, FirstOwned, finish_cancelling
  <2>2. \A d \in Callers : owned'[d] = owned[d] \ {t}
    BY <1>0, <2>1 DEF CallersOwn
  <2>3. (\A c1, c2 \in Callers : c1 # c2 => owned[c1] \intersect owned[c2] = {})'
    BY <1>0, <2>2 DEF CallersOwn
  <2>4. (cancelling = UNION {owned[d] : d \in Callers})'
    BY <1>0, <2>1, <2>2 DEF CallersOwn
  <2>5. QED
    BY <2>3, <2>4 DEF CallersOwn
<1>5. ASSUME UNCHANGED <<owned, cancelling>> PROVE CallersOwn'
  BY <1>0, <1>5 DEF CallersOwn
<1>6. ASSUME NEW c \in Callers, Call(c) \/ Wait(c) \/ Continue(c), ~Stop(c),
             ~(\E t \in TaskIds : CancelOwned(c, t) \/ FinishCancelling(c, t))
      PROVE  UNCHANGED <<owned, cancelling>>
  BY <1>6
  DEF Call, Wait, Continue, SubmitAccepted, SubmitRefused, CancelInProgress,
      CancelAbsent, Shutdown, WaitObserves, WaitParks, WaitExpires,
      WaitTimesOut, Dispatch, ReturnHandle, AnswerFromStatus, EndpointRunning,
      EndpointNotRunning, EndpointCancel, CancelJob, stateVars, admit, shutdown,
      park, unpark_on_timeout
<1>7. ASSUME NEW w \in Workers, Work(w)
      PROVE  UNCHANGED <<owned, cancelling>>
  BY <1>7
  DEF Work, TakeNext, TakeNothing, Start, Complete, FinishRunning,
      SpawnSuccessor, stateVars, callerVars, take_next, take_nothing,
      finish_running
<1>8. CASE UNCHANGED vars
  BY <1>5, <1>8 DEF vars, stateVars, callerVars
<1>9. QED
  BY <1>2, <1>3, <1>4, <1>5, <1>6, <1>7, <1>8 DEF Next

-----------------------------------------------------------------------------
(* The result slots.                                                       *)

SlotsInShape == CollectionsInSlots /\ SlotsFollowOwners

LEMMA FirstOwnedUnique ==
    ASSUME ServiceInv, NEW c \in Callers, NEW t, NEW u,
           FirstOwned(c, t), FirstOwned(c, u)
    PROVE  t = u
<1>1. /\ t \in TaskIds /\ u \in TaskIds /\ t <= u /\ u <= t
  BY DEF FirstOwned, ServiceInv, TypeOK
<1>2. QED
  BY <1>1 DEF TaskIds

(* Who owns a job: the three collections exclude each other, and so do the *)
(* owners inside the last two.                                             *)
LEMMA OwnersApart ==
    ASSUME ServiceInv
    PROVE  /\ \A w \in Workers : wpc[w] \in Holding =>
                 /\ job[w] \in running_tasks
                 /\ job[w] \in 0 .. next_task_id - 1
                 /\ job[w] \in TaskIds
                 /\ job[w] \notin queue \union cancelling
                 /\ \A v \in Workers : v # w => job[v] # job[w]
                 /\ \A c \in Callers : job[w] \notin owned[c]
           /\ \A c \in Callers : \A t \in owned[c] :
                 /\ t \in cancelling
                 /\ t \in 0 .. next_task_id - 1
                 /\ t \in TaskIds
                 /\ t \notin queue \union running_tasks
                 /\ \A d \in Callers : d # c => t \notin owned[d]
<1>1. /\ WorkersOwn /\ CallersOwn
      /\ queue \intersect running_tasks = {}
      /\ queue \intersect cancelling = {}
      /\ running_tasks \intersect cancelling = {}
      /\ running_tasks \in SUBSET TaskIds /\ cancelling \in SUBSET TaskIds
      /\ \A t \in running_tasks \union cancelling : t < next_task_id
      /\ next_task_id \in Nat
  BY SingleOwnerParts, ConfigAssumption
  DEF ServiceInv, StateInv, StateTypeOK, OwnershipConsistent
<1>2. \A t \in running_tasks \union cancelling : t \in 0 .. next_task_id - 1
  BY <1>1 DEF TaskIds
<1>3. \A w \in Workers : wpc[w] \in Holding => job[w] \in running_tasks
  BY <1>1 DEF WorkersOwn
<1>4. \A c \in Callers : \A t \in owned[c] : t \in cancelling
  BY <1>1 DEF CallersOwn
<1>5. \A w \in Workers : wpc[w] \in Holding =>
         \A v \in Workers : v # w => job[v] # job[w]
  BY <1>1 DEF WorkersOwn
<1>6. \A c \in Callers : \A t \in owned[c] :
         \A d \in Callers : d # c => t \notin owned[d]
  BY <1>1 DEF CallersOwn
<1>7. QED
  BY <1>1, <1>2, <1>3, <1>4, <1>5, <1>6

(* Nothing a slot depends on changes, except where a call is that owns no  *)
(* job.                                                                    *)
LEMMA SlotsUntouched ==
    ASSUME ServiceInv,
           UNCHANGED <<slot, queue, running_tasks, cancelling, next_task_id,
                       wpc, job, owned>>,
           \A c \in Callers : owned[c] # {} => pc'[c] = pc[c]
    PROVE  SlotsInShape'
<1>1. CollectionsInSlots /\ SlotsFollowOwners
  BY SingleOwnerParts DEF ServiceInv
<1>2. CollectionsInSlots'
  BY <1>1 DEF CollectionsInSlots
<1>3. (\A c \in Callers : \A t \in owned[c] :
          slot[t] = IF pc[c] = "cleaning" /\ FirstOwned(c, t)
                    THEN "Cancelled" ELSE "Pending")'
  BY <1>1 DEF SlotsFollowOwners, FirstOwned
<1>4. QED
  BY <1>1, <1>2, <1>3 DEF SlotsInShape, SlotsFollowOwners

LEMMA SubmitKeepsSlots ==
    ASSUME ServiceInv, NEW c \in Callers, SubmitAccepted(c)
    PROVE  SlotsInShape'
<1>0. /\ slot \in [TaskIds -> Terminal \union {"Unsubmitted", "Pending", "Running"}]
      /\ pc \in [Callers -> CallerPCs]
      /\ CollectionsInSlots /\ SlotsFollowOwners
      /\ next_task_id \in TaskIds /\ next_task_id' = next_task_id + 1
      /\ next_task_id \notin queue \union running_tasks \union cancelling
      /\ owned[c] = {}
  BY SingleOwnerParts, AdmittedId
  DEF ServiceInv, TypeOK, SubmitAccepted, CallsInShape
<1>1. /\ queue' = queue \union {next_task_id}
      /\ UNCHANGED <<running_tasks, cancelling, owned, wpc, job>>
      /\ pc' = [pc EXCEPT ![c] = "dispatching"]
      /\ \A t \in TaskIds :
            slot'[t] = IF t = next_task_id THEN "Pending" ELSE slot[t]
  BY <1>0 DEF SubmitAccepted, admit, SetSlot, Enters, Goto, poolVars
<1>2. queue \in SUBSET TaskIds
  BY DEF ServiceInv, StateInv, StateTypeOK
<1>3. CollectionsInSlots'
  <2>1. (\A t \in queue : slot[t] = "Pending")'
    BY <1>0, <1>1, <1>2 DEF CollectionsInSlots
  <2>2. ASSUME NEW t \in 0 .. next_task_id' - 1,
               t \notin (queue \union running_tasks \union cancelling)'
        PROVE  slot'[t] \in Terminal
    <3>1. t \in 0 .. next_task_id - 1 /\ t # next_task_id /\ t \in TaskIds
      <4>1. next_task_id \in queue' /\ next_task_id \in Nat
        BY <1>0, <1>1, ConfigAssumption DEF TaskIds
      <4>2. t # next_task_id
        BY <2>2, <4>1
      <4>3. QED
        BY <1>0, <2>2, <4>1, <4>2, ConfigAssumption DEF TaskIds
    <3>2. QED
      BY <1>0, <1>1, <2>2, <3>1 DEF CollectionsInSlots
  <2>3. QED
    BY <2>1, <2>2 DEF CollectionsInSlots, Terminal, Completed
<1>4. (\A t \in TaskIds : next_task_id <= t => slot[t] = "Unsubmitted")'
  BY <1>0, <1>1 DEF SlotsFollowOwners, TaskIds
<1>5. ASSUME NEW w \in Workers, wpc[w] \in Holding
      PROVE  slot'[job[w]] = slot[job[w]]
  BY <1>0, <1>1, <1>5, OwnersApart
<1>6. ASSUME NEW d \in Callers, NEW t \in owned[d]
      PROVE  slot'[t] = slot[t] /\ d # c
  BY <1>0, <1>1, <1>6, OwnersApart
<1>7. (\A w \in Workers :
          /\ wpc[w] = "taken" => slot[job[w]] = "Pending"
          /\ wpc[w] = "running" => slot[job[w]] = "Running"
          /\ wpc[w] = "ran" => slot[job[w]] \in Completed)'
  BY <1>0, <1>1, <1>5 DEF SlotsFollowOwners, Holding, Completed
<1>8. (\A d \in Callers : \A t \in owned[d] :
          slot[t] = IF pc[d] = "cleaning" /\ FirstOwned(d, t)
                    THEN "Cancelled" ELSE "Pending")'
  BY <1>0, <1>1, <1>6 DEF SlotsFollowOwners, FirstOwned
<1>9. QED
  BY <1>3, <1>4, <1>7, <1>8 DEF SlotsInShape, SlotsFollowOwners

(* Queued jobs move to a call that cancels them, none published yet.       *)
LEMMA WithdrawKeepsSlots ==
    ASSUME ServiceInv, NEW c \in Callers, NEW Q, Q \subseteq queue,
           pc[c] = "idle",
           queue' = queue \ Q, cancelling' = cancelling \union Q,
           owned' = [owned EXCEPT ![c] = Q],
           \A d \in Callers : d # c => pc'[d] = pc[d],
           pc'[c] # "cleaning",
           UNCHANGED <<slot, running_tasks, next_task_id, wpc, job>>
    PROVE  SlotsInShape'
<1>0. /\ owned \in [Callers -> SUBSET TaskIds]
      /\ CollectionsInSlots /\ SlotsFollowOwners
  BY SingleOwnerParts DEF ServiceInv, TypeOK
<1>1. CollectionsInSlots'
  BY <1>0 DEF CollectionsInSlots
<1>2. ASSUME NEW d \in Callers, NEW t \in owned'[d]
      PROVE  slot[t] = IF pc'[d] = "cleaning" /\ FirstOwned(d, t)'
                       THEN "Cancelled" ELSE "Pending"
  <2>1. CASE d = c
    BY <1>0, <1>2, <2>1 DEF CollectionsInSlots
  <2>2. CASE d # c
    BY <1>0, <1>2, <2>2 DEF SlotsFollowOwners, FirstOwned
  <2>3. QED
    BY <2>1, <2>2
<1>3. QED
  BY <1>0, <1>1, <1>2 DEF SlotsInShape, SlotsFollowOwners

LEMMA CancelJobKeepsSlots ==
    ASSUME ServiceInv, NEW c \in Callers, CancelJob(c)
    PROVE  SlotsInShape'
<1>0. /\ slot \in [TaskIds -> Terminal \union {"Unsubmitted", "Pending", "Running"}]
      /\ pc \in [Callers -> CallerPCs]
      /\ CollectionsInSlots /\ SlotsFollowOwners
      /\ next_task_id \in Nat
  BY SingleOwnerParts, ConfigAssumption
  DEF ServiceInv, TypeOK, StateInv, StateTypeOK
<1>1. PICK t \in owned[c] : FirstOwned(c, t) /\ cancel_unstarted(t)
  BY DEF CancelJob
<1>2. /\ t \in TaskIds /\ t \in cancelling
      /\ t \in 0 .. next_task_id - 1
      /\ t \notin queue \union running_tasks
      /\ \A d \in Callers : d # c => t \notin owned[d]
  BY OwnersApart
<1>3. slot[t] = "Pending"
  BY <1>0 DEF CancelJob, SlotsFollowOwners
<1>4. \A u \in TaskIds : slot'[u] = IF u = t THEN "Cancelled" ELSE slot[u]
  BY <1>0, <1>1, <1>2, <1>3 DEF cancel_unstarted
<1>5. /\ pc[c] = "claimed" /\ pc' = [pc EXCEPT ![c] = "cleaning"]
      /\ UNCHANGED <<queue, running_tasks, cancelling, next_task_id, owned,
                     wpc, job>>
  BY DEF CancelJob, Goto, stateVars, poolVars
<1>6. CollectionsInSlots'
  <2>1. queue \in SUBSET TaskIds /\ next_task_id <= MaxTaskId
    BY ConfigAssumption DEF ServiceInv, StateInv, StateTypeOK
  <2>2. \A u \in 0 .. next_task_id - 1 : u \in TaskIds
    BY <1>0, <2>1, ConfigAssumption DEF TaskIds
  <2>3. QED
    BY <1>0, <1>2, <1>4, <1>5, <2>1, <2>2 DEF CollectionsInSlots
<1>7. (\A u \in TaskIds : next_task_id <= u => slot[u] = "Unsubmitted")'
  BY <1>0, <1>2, <1>4, <1>5 DEF SlotsFollowOwners, TaskIds
<1>8. ASSUME NEW w \in Workers, wpc[w] \in Holding
      PROVE  slot'[job[w]] = slot[job[w]]
  BY <1>2, <1>4, <1>8, OwnersApart
<1>9. (\A w \in Workers :
          /\ wpc[w] = "taken" => slot[job[w]] = "Pending"
          /\ wpc[w] = "running" => slot[job[w]] = "Running"
          /\ wpc[w] = "ran" => slot[job[w]] \in Completed)'
  BY <1>0, <1>5, <1>8 DEF SlotsFollowOwners, Holding, Completed
<1>10. ASSUME NEW d \in Callers, NEW u \in owned[d]
       PROVE  slot'[u] = IF pc'[d] = "cleaning" /\ FirstOwned(d, u)
                         THEN "Cancelled" ELSE "Pending"
  <2>1. u \in TaskIds /\ slot'[u] = IF u = t THEN "Cancelled" ELSE slot[u]
    BY <1>4, <1>10, OwnersApart
  <2>2. CASE d # c
    <3>1. u # t /\ pc'[d] = pc[d]
      BY <1>0, <1>2, <1>5, <1>10, <2>2
    <3>2. QED
      BY <1>0, <1>10, <2>1, <3>1 DEF SlotsFollowOwners
  <2>3. CASE d = c /\ u = t
    BY <1>0, <1>1, <1>5, <2>1, <2>3
  <2>4. CASE d = c /\ u # t
    <3>1. ~FirstOwned(c, u)
      BY <1>1, <2>4, FirstOwnedUnique
    <3>2. slot[u] = "Pending"
      BY <1>0, <1>5, <1>10, <2>4 DEF SlotsFollowOwners
    <3>3. QED
      BY <2>1, <2>4, <3>1, <3>2
  <2>5. QED
    BY <2>2, <2>3, <2>4
<1>11. (\A d \in Callers : \A u \in owned[d] :
           slot[u] = IF pc[d] = "cleaning" /\ FirstOwned(d, u)
                     THEN "Cancelled" ELSE "Pending")'
  BY <1>5, <1>10 DEF FirstOwned
<1>12. QED
  BY <1>6, <1>7, <1>9, <1>11 DEF SlotsInShape, SlotsFollowOwners

LEMMA FinishCancellingKeepsSlots ==
    ASSUME ServiceInv, NEW c \in Callers, NEW t \in TaskIds,
           FinishCancelling(c, t)
    PROVE  SlotsInShape'
<1>0. /\ owned \in [Callers -> SUBSET TaskIds]
      /\ pc \in [Callers -> CallerPCs]
      /\ CollectionsInSlots /\ SlotsFollowOwners
  BY SingleOwnerParts DEF ServiceInv, TypeOK
<1>1. /\ pc[c] = "cleaning" /\ FirstOwned(c, t) /\ t \in owned[c]
      /\ cancelling' = cancelling \ {t}
      /\ owned' = [owned EXCEPT ![c] = @ \ {t}]
      /\ \A d \in Callers : d # c => pc'[d] = pc[d]
      /\ pc'[c] # "cleaning"
      /\ UNCHANGED <<slot, queue, running_tasks, next_task_id, wpc, job>>
  BY <1>0 DEF FinishCancelling, FirstOwned, finish_cancelling, Enters, Returns,
              Goto, poolVars
<1>2. slot[t] = "Cancelled"
  BY <1>0, <1>1 DEF SlotsFollowOwners
<1>3. CollectionsInSlots'
  BY <1>0, <1>1, <1>2 DEF CollectionsInSlots, Terminal
<1>4. ASSUME NEW d \in Callers, NEW u \in owned'[d]
      PROVE  slot[u] = IF pc'[d] = "cleaning" /\ FirstOwned(d, u)'
                       THEN "Cancelled" ELSE "Pending"
  <2>1. CASE d = c
    <3>1. u \in owned[c] /\ u # t
      BY <1>0, <1>1, <1>4, <2>1
    <3>2. ~FirstOwned(c, u)
      BY <1>1, <3>1, FirstOwnedUnique
    <3>3. slot[u] = "Pending"
      BY <1>0, <3>1, <3>2 DEF SlotsFollowOwners
    <3>4. QED
      BY <1>1, <2>1, <3>3
  <2>2. CASE d # c
    BY <1>0, <1>1, <1>4, <2>2 DEF SlotsFollowOwners, FirstOwned
  <2>3. QED
    BY <2>1, <2>2
<1>5. QED
  BY <1>0, <1>1, <1>3, <1>4 DEF SlotsInShape, SlotsFollowOwners

(* A step of a worker that changes no slot but that of the task it holds.  *)
LEMMA HolderSetsSlot ==
    ASSUME ServiceInv, NEW w \in Workers, wpc[w] \in {"taken", "running"},
           NEW s \in {"Running"} \union Completed,
           slot' = [slot EXCEPT ![job[w]] = s],
           wpc' = [wpc EXCEPT ![w] = IF s = "Running" THEN "running" ELSE "ran"],
           UNCHANGED <<stateVars, callerVars, job>>
    PROVE  SlotsInShape'
<1>0. /\ slot \in [TaskIds -> Terminal \union {"Unsubmitted", "Pending", "Running"}]
      /\ wpc \in [Workers -> WorkerPCs]
      /\ CollectionsInSlots /\ SlotsFollowOwners
      /\ queue \in SUBSET TaskIds
      /\ next_task_id \in 0 .. MaxTaskId
  BY SingleOwnerParts DEF ServiceInv, TypeOK, StateInv, StateTypeOK
<1> DEFINE t == job[w]
<1>1. /\ t \in running_tasks /\ t \in TaskIds
      /\ t \in 0 .. next_task_id - 1
      /\ t \notin queue \union cancelling
      /\ \A v \in Workers : v # w => job[v] # t
      /\ \A c \in Callers : t \notin owned[c]
  BY OwnersApart DEF Holding
<1>2. /\ \A u \in TaskIds : slot'[u] = IF u = t THEN s ELSE slot[u]
      /\ UNCHANGED <<queue, running_tasks, cancelling, next_task_id, owned, pc>>
  BY <1>0, <1>1 DEF stateVars, callerVars
<1>3. \A u \in 0 .. next_task_id - 1 : u \in TaskIds
  BY <1>0, ConfigAssumption DEF TaskIds
<1>4. CollectionsInSlots'
  BY <1>0, <1>1, <1>2, <1>3 DEF CollectionsInSlots
<1>5. (\A u \in TaskIds : next_task_id <= u => slot[u] = "Unsubmitted")'
  BY <1>0, <1>1, <1>2, ConfigAssumption DEF SlotsFollowOwners, TaskIds
<1>6. (\A v \in Workers :
          /\ wpc[v] = "taken" => slot[job[v]] = "Pending"
          /\ wpc[v] = "running" => slot[job[v]] = "Running"
          /\ wpc[v] = "ran" => slot[job[v]] \in Completed)'
  <2>1. ASSUME NEW v \in Workers, v # w, wpc[v] \in Holding
        PROVE  slot'[job[v]] = slot[job[v]]
    BY <1>1, <1>2, <2>1, OwnersApart
  <2>2. wpc'[w] = (IF s = "Running" THEN "running" ELSE "ran") /\ slot'[t] = s
    BY <1>0, <1>1, <1>2
  <2>3. QED
    BY <1>0, <2>1, <2>2 DEF SlotsFollowOwners, Holding, Completed
<1>7. ASSUME NEW d \in Callers, NEW u \in owned[d]
      PROVE  slot'[u] = slot[u]
  BY <1>1, <1>2, <1>7, OwnersApart
<1>8. (\A d \in Callers : \A u \in owned[d] :
          slot[u] = IF pc[d] = "cleaning" /\ FirstOwned(d, u)
                    THEN "Cancelled" ELSE "Pending")'
  BY <1>0, <1>2, <1>7 DEF SlotsFollowOwners, FirstOwned
<1>9. QED
  BY <1>4, <1>5, <1>6, <1>8 DEF SlotsInShape, SlotsFollowOwners

LEMMA WorkKeepsSlots ==
    ASSUME ServiceInv, NEW w \in Workers, Work(w)
    PROVE  SlotsInShape'
<1>0. /\ wpc \in [Workers -> WorkerPCs]
      /\ job \in [Workers -> TaskIds \union {NoTask}]
      /\ CollectionsInSlots /\ SlotsFollowOwners
  BY SingleOwnerParts DEF ServiceInv, TypeOK
<1>1. CASE \E t \in TaskIds : TakeNext(w, t)
  <2>1. PICK t \in TaskIds : TakeNext(w, t)
    BY <1>1
  <2>2. /\ t \in queue /\ wpc[w] = "idle"
        /\ queue' = queue \ {t} /\ running_tasks' = running_tasks \union {t}
        /\ wpc' = [wpc EXCEPT ![w] = "taken"] /\ job' = [job EXCEPT ![w] = t]
        /\ UNCHANGED <<slot, cancelling, next_task_id, owned, pc>>
    BY <2>1 DEF TakeNext, PickUp, take_next, Oldest, WorkerGoto, callerVars
  <2>3. CollectionsInSlots'
    BY <1>0, <2>2 DEF CollectionsInSlots
  <2>4. (\A v \in Workers :
            /\ wpc[v] = "taken" => slot[job[v]] = "Pending"
            /\ wpc[v] = "running" => slot[job[v]] = "Running"
            /\ wpc[v] = "ran" => slot[job[v]] \in Completed)'
    BY <1>0, <2>2 DEF SlotsFollowOwners, CollectionsInSlots
  <2>5. QED
    BY <1>0, <2>2, <2>3, <2>4 DEF SlotsInShape, SlotsFollowOwners, FirstOwned
<1>2. CASE TakeNothing(w)
  BY <1>2, SlotsUntouched DEF TakeNothing, take_nothing, callerVars
<1>3. CASE Start(w)
  <2>1. wpc[w] = "taken" /\ slot[job[w]] = "Pending"
    BY <1>0, <1>3 DEF Start, SlotsFollowOwners
  <2>2. /\ slot' = [slot EXCEPT ![job[w]] = "Running"]
        /\ wpc' = [wpc EXCEPT ![w] = "running"]
        /\ UNCHANGED <<stateVars, callerVars, job>>
    BY <1>3, <2>1 DEF Start, SetSlot, WorkerGoto
  <2>3. QED
    BY <2>1, <2>2, HolderSetsSlot
<1>4. CASE \E s \in Completed : Complete(w, s)
  <2>1. PICK s \in Completed : Complete(w, s)
    BY <1>4
  <2>2. s # "Running"
    BY DEF Completed
  <2>3. /\ wpc[w] = "running"
        /\ slot' = [slot EXCEPT ![job[w]] = s]
        /\ wpc' = [wpc EXCEPT ![w] = "ran"]
        /\ UNCHANGED <<stateVars, callerVars, job>>
    BY <2>1 DEF Complete, SetSlot, WorkerGoto
  <2>4. QED
    BY <2>2, <2>3, HolderSetsSlot
<1>5. CASE FinishRunning(w)
  <2>1. /\ wpc[w] = "ran"
        /\ wpc' = [wpc EXCEPT ![w] = IF queue = {} THEN "idle" ELSE "spawning"]
        /\ job' = [job EXCEPT ![w] = NoTask]
        /\ running_tasks' = running_tasks \ {job[w]}
        /\ UNCHANGED <<slot, queue, cancelling, next_task_id, owned, pc>>
    BY <1>5 DEF FinishRunning, finish_running, WorkerGoto, callerVars
  <2>2. slot[job[w]] \in Terminal
    BY <1>0, <2>1 DEF SlotsFollowOwners, Terminal
  <2>3. CollectionsInSlots'
    BY <1>0, <2>1, <2>2 DEF CollectionsInSlots
  <2>4. (\A v \in Workers :
            /\ wpc[v] = "taken" => slot[job[v]] = "Pending"
            /\ wpc[v] = "running" => slot[job[v]] = "Running"
            /\ wpc[v] = "ran" => slot[job[v]] \in Completed)'
    BY <1>0, <2>1 DEF SlotsFollowOwners
  <2>5. QED
    BY <1>0, <2>1, <2>3, <2>4 DEF SlotsInShape, SlotsFollowOwners, FirstOwned
<1>6. CASE SpawnSuccessor(w)
  <2>1. /\ wpc' = [wpc EXCEPT ![w] = "idle"]
        /\ UNCHANGED <<slot, queue, running_tasks, cancelling, next_task_id,
                       owned, pc, job>>
    BY <1>6 DEF SpawnSuccessor, WorkerGoto, stateVars, callerVars
  <2>2. CollectionsInSlots'
    BY <1>0, <2>1 DEF CollectionsInSlots
  <2>3. (\A v \in Workers :
            /\ wpc[v] = "taken" => slot[job[v]] = "Pending"
            /\ wpc[v] = "running" => slot[job[v]] = "Running"
            /\ wpc[v] = "ran" => slot[job[v]] \in Completed)'
    BY <1>0, <2>1 DEF SlotsFollowOwners
  <2>4. QED
    BY <1>0, <2>1, <2>2, <2>3 DEF SlotsInShape, SlotsFollowOwners, FirstOwned
<1>7. QED
  BY <1>1, <1>2, <1>3, <1>4, <1>5, <1>6 DEF Work

LEMMA SlotsKept ==
    ServiceInv /\ [Next]_vars => SlotsInShape'
<1> SUFFICES ASSUME ServiceInv, [Next]_vars PROVE SlotsInShape'
  OBVIOUS
<1>0. /\ pc \in [Callers -> CallerPCs]
      /\ \A c \in Callers : owned[c] # {} <=> pc[c] \in {"claimed", "cleaning"}
  BY DEF ServiceInv, TypeOK, CallsInShape
<1>1. ASSUME NEW c \in Callers, NEW t \in TaskIds, CancelOwned(c, t)
      PROVE  SlotsInShape'
  <2>1. /\ t \in queue /\ queue' = queue \ {t}
        /\ cancelling' = cancelling \union {t}
        /\ owned' = [owned EXCEPT ![c] = {t}] /\ pc[c] = "idle"
        /\ pc' = [pc EXCEPT ![c] = "claimed"]
        /\ UNCHANGED <<slot, running_tasks, next_task_id, wpc, job>>
    BY <1>1 DEF CancelOwned, cancel_pending_task, CancelDisposition, Enters,
                Goto, poolVars
  <2>2. /\ \A d \in Callers : d # c => pc'[d] = pc[d]
        /\ pc'[c] # "cleaning" /\ {t} \subseteq queue
    BY <1>0, <2>1
  <2>3. QED
    BY <2>1, <2>2, WithdrawKeepsSlots
<1>2. ASSUME NEW c \in Callers, Stop(c) PROVE SlotsInShape'
  <2>1. /\ queue' = {} /\ cancelling' = cancelling \union queue
        /\ owned' = [owned EXCEPT ![c] = queue] /\ pc[c] = "idle"
        /\ pc' = [pc EXCEPT ![c] = IF queue = {} THEN "idle" ELSE "claimed"]
        /\ UNCHANGED <<slot, running_tasks, next_task_id, wpc, job>>
    BY <1>2 DEF Stop, stop, Enters, Returns, Goto, poolVars
  <2>2. /\ \A d \in Callers : d # c => pc'[d] = pc[d]
        /\ pc'[c] # "cleaning" /\ queue \subseteq queue
        /\ queue' = queue \ queue
    BY <1>0, <2>1
  <2>3. QED
    BY <2>1, <2>2, WithdrawKeepsSlots
<1>3. ASSUME NEW c \in Callers, Call(c) \/ Wait(c) \/ Continue(c),
             ~SubmitAccepted(c), ~Stop(c), ~CancelJob(c),
             ~(\E t \in TaskIds : CancelOwned(c, t) \/ FinishCancelling(c, t))
      PROVE  SlotsInShape'
  <2>1. UNCHANGED <<queue, running_tasks, cancelling, next_task_id, wpc, job,
                    owned>>
    BY <1>3
    DEF Call, Wait, Continue, SubmitRefused, CancelInProgress, CancelAbsent,
        Shutdown, WaitObserves, WaitParks, WaitExpires, WaitTimesOut, Dispatch,
        ReturnHandle, AnswerFromStatus, EndpointRunning, EndpointNotRunning,
        EndpointCancel, stateVars, poolVars, shutdown, park, unpark_on_timeout
  <2>2. slot' = slot
    BY <1>3, FallbackChangesNoSlot
    DEF Call, Wait, Continue, SubmitRefused, CancelInProgress, CancelAbsent,
        Shutdown, WaitObserves, WaitParks, WaitExpires, WaitTimesOut, Dispatch,
        ReturnHandle, AnswerFromStatus, EndpointRunning, EndpointNotRunning
  <2>3. /\ pc[c] \notin {"claimed", "cleaning"}
        /\ \A d \in Callers : d # c => pc'[d] = pc[d]
    BY <1>0, <1>3
    DEF Call, Wait, Continue, SubmitRefused, CancelInProgress, CancelAbsent,
        Shutdown, WaitObserves, WaitParks, WaitExpires, WaitTimesOut, Dispatch,
        ReturnHandle, AnswerFromStatus, EndpointRunning, EndpointNotRunning,
        EndpointCancel, Enters, Returns, Goto, Waiting
  <2>4. QED
    BY <1>0, <2>1, <2>2, <2>3, SlotsUntouched
<1>4. CASE UNCHANGED vars
  BY <1>4, SlotsUntouched DEF vars, stateVars, callerVars, poolVars
<1>5. QED
  BY <1>1, <1>2, <1>3, <1>4, SubmitKeepsSlots, CancelJobKeepsSlots,
     FinishCancellingKeepsSlots, WorkKeepsSlots DEF Next

-----------------------------------------------------------------------------
(* Targets and answers.                                                    *)

(* The part of the shared state that only ever grows.                      *)
LEMMA NothingTakenBack ==
    ASSUME ServiceInv, [Next]_vars
    PROVE  /\ next_task_id \in Nat /\ next_task_id' \in Nat
           /\ next_task_id <= next_task_id'
           /\ lifecycle = "Stopping" => lifecycle' = "Stopping"
           /\ lifecycle # "Running" => lifecycle' # "Running"
           /\ IsTerminated => IsTerminated'
<1>1. [StateNext]_stateVars /\ StateInv /\ next_task_id \in Nat
  BY StepsKeepProtocol, ConfigAssumption DEF ServiceInv, StateInv, StateTypeOK
<1>2. CASE UNCHANGED stateVars
  BY <1>1, <1>2 DEF stateVars, IsTerminated, occupied
<1>3. CASE StateNext /\ ~UNCHANGED stateVars
  <2>1. lifecycle # "Running" =>
           lifecycle' # "Running" /\ (IsTerminated => IsTerminated')
    BY <1>1, <1>3, StepKeepsClosed
  <2>2. next_task_id' \in {next_task_id, next_task_id + 1}
    BY <1>3
    DEF StateNext, admit, take_next, take_nothing, finish_running,
        cancel_pending_task, finish_cancelling, shutdown, stop, park,
        unpark_on_timeout
  <2>3. lifecycle = "Stopping" => lifecycle' = "Stopping"
    BY <1>3
    DEF StateNext, admit, take_next, take_nothing, finish_running,
        cancel_pending_task, finish_cancelling, shutdown, stop, park,
        unpark_on_timeout
  <2>4. QED
    BY <1>1, <2>1, <2>2, <2>3 DEF IsTerminated
<1>4. QED
  BY <1>1, <1>2, <1>3

LEMMA TargetsInShapeKept ==
    ServiceInv /\ [Next]_vars => TargetsInShape'
<1> SUFFICES ASSUME ServiceInv, [Next]_vars PROVE TargetsInShape'
  OBVIOUS
<1> DEFINE Aimed(d) ==
      /\ pc[d] \in {"claimed", "cleaning"} =>
            IF target[d] = NoTask
            THEN lifecycle = "Stopping" ELSE owned[d] = {target[d]}
      /\ answer[d] \in {"Cancelled", "AlreadyRunning", "AlreadyFinished"} =>
            target[d] \in 0 .. next_task_id - 1
<1>0. /\ pc \in [Callers -> CallerPCs]
      /\ owned \in [Callers -> SUBSET TaskIds]
      /\ target \in [Callers -> TaskIds \union {NoTask}]
      /\ answer \in [Callers -> Answers]
      /\ TargetsInShape /\ CallsInShape
      /\ next_task_id \in Nat /\ next_task_id' \in Nat
      /\ next_task_id <= next_task_id'
      /\ lifecycle = "Stopping" => lifecycle' = "Stopping"
      /\ lifecycle = "Stopping" \/ lifecycle # "Stopping"
  BY NothingTakenBack DEF ServiceInv, TypeOK
<1>1. ASSUME NEW d \in Callers, pc'[d] = pc[d], owned'[d] = owned[d],
             target'[d] = target[d], answer'[d] = answer[d]
      PROVE  Aimed(d)'
  BY <1>0, <1>1 DEF TargetsInShape, NoTask
<1>2. ASSUME NEW c \in Callers, Call(c) \/ Wait(c) \/ Continue(c),
             NEW d \in Callers, d # c
      PROVE  Aimed(d)'
  <2>1. /\ pc'[d] = pc[d] /\ owned'[d] = owned[d]
        /\ target'[d] = target[d] /\ answer'[d] = answer[d]
    BY <1>0, <1>2
    DEF Call, Wait, Continue, SubmitAccepted, SubmitRefused, CancelOwned,
        CancelInProgress, CancelAbsent, Shutdown, Stop, WaitObserves,
        WaitParks, WaitExpires, WaitTimesOut, Dispatch, ReturnHandle,
        AnswerFromStatus, EndpointRunning, EndpointNotRunning, EndpointCancel,
        CancelJob, FinishCancelling, Enters, Returns, Goto, Answer
  <2>2. QED
    BY <1>1, <2>1
<1>3. ASSUME NEW c \in Callers,
             \/ SubmitAccepted(c) \/ SubmitRefused(c) \/ Shutdown(c)
             \/ ReturnHandle(c) \/ Wait(c)
             \/ \E t \in TaskIds : \/ CancelAbsent(c, t, "absent")
                                   \/ CancelAbsent(c, t, "absent_endpoint")
      PROVE  Aimed(c)'
  <2>1. /\ pc'[c] \notin {"claimed", "cleaning"}
        /\ answer'[c] \notin {"Cancelled", "AlreadyRunning", "AlreadyFinished"}
    BY <1>0, <1>3
    DEF SubmitAccepted, SubmitRefused, Shutdown, ReturnHandle, CancelAbsent,
        Wait, WaitObserves, WaitParks, WaitExpires, WaitTimesOut, Enters,
        Returns, Goto, Answer, AdmitOutcome
  <2>2. QED
    BY <2>1
<1>4. ASSUME NEW c \in Callers, Dispatch(c) PROVE Aimed(c)'
  BY <1>1, <1>4 DEF Dispatch
<1>5. ASSUME NEW c \in Callers, NEW t \in TaskIds,
             CancelOwned(c, t) \/ CancelInProgress(c, t)
      PROVE  Aimed(c)'
  <2>1. t \in 0 .. next_task_id - 1 /\ t # NoTask
    BY <1>0, <1>5, NoTaskIsNoId
    DEF CancelOwned, CancelInProgress, HandleExists, TaskIds
  <2>2. CASE CancelOwned(c, t)
    BY <1>0, <2>1, <2>2 DEF CancelOwned, Enters, Goto, Answer, NoTask
  <2>3. CASE CancelInProgress(c, t)
    <3>1. pc'[c] = "idle" /\ target'[c] = t
      BY <1>0, <2>3 DEF CancelInProgress, Returns, Goto
    <3>2. \A u \in 0 .. next_task_id - 1 : u \in 0 .. next_task_id' - 1
      BY NothingTakenBack
    <3>3. t \in 0 .. next_task_id' - 1
      BY <2>1, <3>2
    <3>4. QED
      BY <3>1, <3>3
  <2>4. QED
    BY <1>5, <2>2, <2>3
<1>6. ASSUME NEW c \in Callers, Stop(c) PROVE Aimed(c)'
  <2>1. /\ target'[c] = NoTask /\ lifecycle' = "Stopping"
        /\ answer'[c] \in {"Stopped", "none"}
    BY <1>0, <1>6 DEF Stop, stop, Enters, Returns, Answer
  <2>2. QED
    BY <2>1 DEF NoTask
<1>7. ASSUME NEW c \in Callers,
             \/ AnswerFromStatus(c) \/ EndpointRunning(c) \/ EndpointCancel(c)
      PROVE  Aimed(c)'
  <2>1. target[c] \in 0 .. next_task_id - 1
    BY <1>0, <1>7
    DEF AnswerFromStatus, EndpointRunning, EndpointCancel, CallsInShape
  <2>2. pc'[c] = "idle" /\ target'[c] = target[c]
    BY <1>0, <1>7
    DEF AnswerFromStatus, EndpointRunning, EndpointCancel, Returns, Goto
  <2>3. QED
    BY <1>0, <2>1, <2>2
<1>8. ASSUME NEW c \in Callers, EndpointNotRunning(c) \/ CancelJob(c)
      PROVE  Aimed(c)'
  <2>1. /\ pc'[c] \in {"endpoint_cancel", "cleaning"}
        /\ pc'[c] = "cleaning" => pc[c] = "claimed"
        /\ UNCHANGED <<owned, target, answer>>
    BY <1>0, <1>8 DEF EndpointNotRunning, CancelJob, Goto
  <2>2. QED
    BY <1>0, <2>1 DEF TargetsInShape, NoTask
<1>9. ASSUME NEW c \in Callers, NEW t \in TaskIds, FinishCancelling(c, t)
      PROVE  Aimed(c)'
  <2>1. /\ pc[c] = "cleaning" /\ t \in owned[c] /\ target'[c] = target[c]
        /\ pc'[c] = IF owned[c] # {t} THEN "claimed" ELSE "idle"
        /\ answer'[c] = IF owned[c] # {t} THEN "none"
                        ELSE IF target[c] = NoTask THEN "Stopped"
                        ELSE "Cancelled"
    BY <1>0, <1>9 DEF FinishCancelling, FirstOwned, Enters, Returns, Goto, Answer
  <2>2. CASE target[c] = NoTask
    BY <1>0, <2>1, <2>2 DEF TargetsInShape, NoTask
  <2>3. CASE target[c] # NoTask
    <3>1. owned[c] = {t} /\ t = target[c]
      BY <1>0, <2>1, <2>3 DEF TargetsInShape
    <3>2. t \in 0 .. next_task_id - 1
      BY <2>1, OwnersApart
    <3>3. QED
      BY <1>0, <2>1, <3>1, <3>2
  <2>4. QED
    BY <2>2, <2>3
<1>10. ASSUME NEW w \in Workers, Work(w), NEW d \in Callers PROVE Aimed(d)'
  <2>1. UNCHANGED callerVars
    BY <1>10 DEF Work, TakeNext, TakeNothing, Start, Complete, FinishRunning,
       SpawnSuccessor
  <2>2. QED
    BY <1>1, <2>1 DEF callerVars
<1>11. ASSUME UNCHANGED vars, NEW d \in Callers PROVE Aimed(d)'
  BY <1>1, <1>11 DEF vars, callerVars
<1>12. ASSUME NEW c \in Callers, Call(c) \/ Wait(c) \/ Continue(c)
       PROVE  Aimed(c)'
  BY <1>3, <1>4, <1>5, <1>6, <1>7, <1>8, <1>9, <1>12 DEF Call, Continue
<1>13. \A d \in Callers : Aimed(d)'
  BY <1>2, <1>10, <1>11, <1>12 DEF Next
<1>14. QED
  BY <1>13 DEF TargetsInShape

(* A published result is final: each step that sets a slot finds it        *)
(* unsubmitted, pending or running.                                        *)
LEMMA FinalSlotStays ==
    ASSUME ServiceInv, [Next]_vars, NEW t \in TaskIds, slot[t] \in Terminal
    PROVE  slot'[t] = slot[t]
<1>0. /\ slot \in [TaskIds -> Terminal \union {"Unsubmitted", "Pending", "Running"}]
      /\ SlotsFollowOwners
  BY DEF ServiceInv, TypeOK
<1>1. ASSUME NEW c \in Callers, SubmitAccepted(c) PROVE slot'[t] = slot[t]
  <2>1. next_task_id \in TaskIds
    BY <1>1, AdmittedId DEF SubmitAccepted
  <2>2. slot[next_task_id] = "Unsubmitted"
    BY <1>0, <2>1 DEF SlotsFollowOwners, TaskIds
  <2>3. QED
    BY <1>0, <1>1, <2>1, <2>2
    DEF SubmitAccepted, SetSlot, Terminal, Completed
<1>2. ASSUME NEW c \in Callers, CancelJob(c) PROVE slot'[t] = slot[t]
  BY <1>0, <1>2 DEF CancelJob, cancel_unstarted, Terminal, Completed
<1>3. ASSUME NEW c \in Callers, Call(c) \/ Wait(c) \/ Continue(c),
             ~SubmitAccepted(c), ~CancelJob(c)
      PROVE  slot' = slot
  BY <1>3, FallbackChangesNoSlot
  DEF Call, Wait, Continue, SubmitRefused, CancelOwned, CancelInProgress,
      CancelAbsent, Shutdown, Stop, WaitObserves, WaitParks, WaitExpires,
      WaitTimesOut, Dispatch, ReturnHandle, AnswerFromStatus,
      EndpointRunning, EndpointNotRunning, FinishCancelling
<1>4. ASSUME NEW w \in Workers, Work(w) PROVE slot'[t] = slot[t]
  <2>1. wpc[w] = "running" => slot[job[w]] = "Running"
    BY <1>0 DEF SlotsFollowOwners
  <2>2. QED
    BY <1>0, <1>4, <2>1
    DEF Work, TakeNext, TakeNothing, Start, Complete, FinishRunning,
        SpawnSuccessor, SetSlot, Terminal, Completed
<1>5. CASE UNCHANGED vars
  BY <1>5 DEF vars
<1>6. QED
  BY <1>1, <1>2, <1>3, <1>4, <1>5 DEF Next

(* A task that is being cancelled stays so until it is cancelled.          *)
LEMMA WithdrawnEndsCancelled ==
    ASSUME ServiceInv, [Next]_vars, NEW t \in cancelling
    PROVE  t \in cancelling' \/ slot'[t] = "Cancelled"
<1>1. CASE \E c \in Callers : FinishCancelling(c, t)
  BY <1>1
  DEF FinishCancelling, FirstOwned, ServiceInv, SlotsFollowOwners
<1>2. ASSUME NEW c \in Callers, NEW u \in TaskIds, FinishCancelling(c, u),
             u # t
      PROVE  t \in cancelling'
  BY <1>2 DEF FinishCancelling, finish_cancelling
<1>3. ASSUME NEW c \in Callers, Call(c) \/ Wait(c) \/ Continue(c),
             ~\E u \in TaskIds : FinishCancelling(c, u)
      PROVE  t \in cancelling'
  BY <1>3
  DEF Call, Wait, Continue, SubmitAccepted, SubmitRefused, CancelOwned,
      CancelInProgress, CancelAbsent, Shutdown, Stop, WaitObserves, WaitParks,
      WaitExpires, WaitTimesOut, Dispatch, ReturnHandle, AnswerFromStatus,
      EndpointRunning, EndpointNotRunning, EndpointCancel, CancelJob,
      stateVars, admit, cancel_pending_task, shutdown, stop, park,
      unpark_on_timeout
<1>4. ASSUME NEW w \in Workers, Work(w) PROVE t \in cancelling'
  BY <1>4
  DEF Work, TakeNext, TakeNothing, Start, Complete, FinishRunning,
      SpawnSuccessor, stateVars, take_next, take_nothing, finish_running
<1>5. CASE UNCHANGED vars
  BY <1>5 DEF vars, stateVars
<1>6. QED
  BY <1>1, <1>2, <1>3, <1>4, <1>5 DEF Next

(* A running task stays so until it is completed.                          *)
LEMMA RunningEndsCompleted ==
    ASSUME ServiceInv, [Next]_vars, NEW t \in running_tasks
    PROVE  t \in running_tasks' \/ slot'[t] \in Completed
<1>1. ASSUME NEW w \in Workers, FinishRunning(w), job[w] = t
      PROVE  slot'[t] \in Completed
  BY <1>1 DEF FinishRunning, ServiceInv, SlotsFollowOwners
<1>2. ASSUME NEW w \in Workers, FinishRunning(w), job[w] # t
      PROVE  t \in running_tasks'
  BY <1>2 DEF FinishRunning, finish_running
<1>3. ASSUME NEW w \in Workers, Work(w), ~FinishRunning(w)
      PROVE  t \in running_tasks'
  BY <1>3
  DEF Work, TakeNext, TakeNothing, Start, Complete, SpawnSuccessor, stateVars,
      take_next, take_nothing
<1>4. ASSUME NEW c \in Callers, Call(c) \/ Wait(c) \/ Continue(c)
      PROVE  t \in running_tasks'
  BY <1>4
  DEF Call, Wait, Continue, SubmitAccepted, SubmitRefused, CancelOwned,
      CancelInProgress, CancelAbsent, Shutdown, Stop, WaitObserves, WaitParks,
      WaitExpires, WaitTimesOut, Dispatch, ReturnHandle, AnswerFromStatus,
      EndpointRunning, EndpointNotRunning, EndpointCancel, CancelJob,
      FinishCancelling, stateVars, admit, cancel_pending_task, shutdown, stop,
      park, unpark_on_timeout, finish_cancelling
<1>5. CASE UNCHANGED vars
  BY <1>5 DEF vars, stateVars
<1>6. QED
  BY <1>1, <1>2, <1>3, <1>4, <1>5 DEF Next

(* What the status of an absent task shows: it runs, or it is final.       *)
LEMMA AbsentStatus ==
    ASSUME ServiceInv, NEW t \in 0 .. next_task_id - 1,
           t \notin queue, t \notin cancelling
    PROVE  /\ slot[t] \in {"Pending", "Running"} => t \in running_tasks
           /\ slot[t] \notin {"Pending", "Running"} => slot[t] \in Terminal
<1>1. CASE t \in running_tasks
  <2>1. PICK w \in Workers : job[w] = t /\ wpc[w] \in Holding
    BY <1>1, SingleOwnerParts DEF ServiceInv, WorkersOwn
  <2>2. slot[t] \in {"Pending", "Running"} \union Completed
    BY <2>1 DEF ServiceInv, SlotsFollowOwners, Holding
  <2>3. QED
    BY <1>1, <2>2 DEF Terminal
<1>2. CASE t \notin running_tasks
  BY <1>2, UnownedIsFinal DEF Terminal, Completed
<1>3. QED
  BY <1>1, <1>2

LEMMA AnswersSoundKept ==
    ServiceInv /\ [Next]_vars => AnswersSound'
<1> SUFFICES ASSUME ServiceInv, [Next]_vars PROVE AnswersSound'
  OBVIOUS
<1> DEFINE Sound(d) ==
      /\ answer[d] = "Cancelled"
            => target[d] \in cancelling \/ slot[target[d]] = "Cancelled"
      /\ answer[d] = "AlreadyRunning"
            => target[d] \in running_tasks \/ slot[target[d]] \in Completed
      /\ answer[d] = "AlreadyFinished" => slot[target[d]] \in Terminal
      /\ answer[d] = "Terminated" => IsTerminated
      /\ answer[d] = "Stopped" => lifecycle = "Stopping"
      /\ answer[d] \in {"Shutdown", "ShutDown"} => lifecycle # "Running"
<1>0. /\ pc \in [Callers -> CallerPCs]
      /\ target \in [Callers -> TaskIds \union {NoTask}]
      /\ answer \in [Callers -> Answers]
      /\ AnswersSound /\ TargetsInShape /\ CallsInShape
      /\ lifecycle = "Stopping" => lifecycle' = "Stopping"
      /\ lifecycle # "Running" => lifecycle' # "Running"
      /\ IsTerminated => IsTerminated'
  BY NothingTakenBack DEF ServiceInv, TypeOK
<1>1. \A t \in 0 .. next_task_id - 1 : t \in TaskIds
  BY ConfigAssumption DEF ServiceInv, StateInv, StateTypeOK, TaskIds
<1>2. ASSUME NEW d \in Callers, target'[d] = target[d], answer'[d] = answer[d]
      PROVE  Sound(d)'
  <2>1. CASE answer[d] = "Cancelled"
    <3>1. target[d] \in TaskIds
      BY <1>0, <1>1, <2>1 DEF TargetsInShape
    <3>2. target[d] \in cancelling \/ slot[target[d]] = "Cancelled"
      BY <1>0, <2>1 DEF AnswersSound
    <3>3. target[d] \in cancelling' \/ slot'[target[d]] = "Cancelled"
      BY <3>1, <3>2, WithdrawnEndsCancelled, FinalSlotStays DEF Terminal
    <3>4. QED
      BY <1>2, <2>1, <3>3
  <2>2. CASE answer[d] = "AlreadyRunning"
    <3>1. target[d] \in TaskIds
      BY <1>0, <1>1, <2>2 DEF TargetsInShape
    <3>2. target[d] \in running_tasks \/ slot[target[d]] \in Completed
      BY <1>0, <2>2 DEF AnswersSound
    <3>3. target[d] \in running_tasks' \/ slot'[target[d]] \in Completed
      BY <3>1, <3>2, RunningEndsCompleted, FinalSlotStays DEF Terminal
    <3>4. QED
      BY <1>2, <2>2, <3>3
  <2>3. CASE answer[d] = "AlreadyFinished"
    <3>1. target[d] \in TaskIds
      BY <1>0, <1>1, <2>3 DEF TargetsInShape
    <3>2. slot[target[d]] \in Terminal
      BY <1>0, <2>3 DEF AnswersSound
    <3>3. QED
      BY <1>2, <2>3, <3>1, <3>2, FinalSlotStays
  <2>4. CASE answer[d] \notin {"Cancelled", "AlreadyRunning", "AlreadyFinished"}
    BY <1>0, <1>2, <2>4 DEF AnswersSound
  <2>5. QED
    BY <2>1, <2>2, <2>3, <2>4
<1>3. ASSUME NEW c \in Callers, Call(c) \/ Wait(c) \/ Continue(c),
             NEW d \in Callers, d # c
      PROVE  Sound(d)'
  <2>1. target'[d] = target[d] /\ answer'[d] = answer[d]
    BY <1>0, <1>3
    DEF Call, Wait, Continue, SubmitAccepted, SubmitRefused, CancelOwned,
        CancelInProgress, CancelAbsent, Shutdown, Stop, WaitObserves,
        WaitParks, WaitExpires, WaitTimesOut, Dispatch, ReturnHandle,
        AnswerFromStatus, EndpointRunning, EndpointNotRunning, EndpointCancel,
        CancelJob, FinishCancelling, Enters, Returns, Answer
  <2>2. QED
    BY <1>2, <2>1
<1>4. ASSUME NEW c \in Callers,
             Dispatch(c) \/ EndpointNotRunning(c) \/ CancelJob(c)
      PROVE  Sound(c)'
  BY <1>2, <1>4 DEF Dispatch, EndpointNotRunning, CancelJob
<1>5. ASSUME NEW c \in Callers,
             \/ SubmitAccepted(c) \/ ReturnHandle(c) \/ WaitTimesOut(c)
             \/ WaitParks(c, "waiting") \/ WaitParks(c, "waiting_for")
             \/ WaitExpires(c)
             \/ \E t \in TaskIds : \/ CancelOwned(c, t)
                                   \/ CancelAbsent(c, t, "absent")
                                   \/ CancelAbsent(c, t, "absent_endpoint")
      PROVE  Sound(c)'
  <2>1. answer'[c] \in {"none", "Accepted", "TimedOut"}
    BY <1>0, <1>5
    DEF SubmitAccepted, ReturnHandle, WaitTimesOut, WaitParks, WaitExpires,
        CancelOwned, CancelAbsent, Enters, Returns, Answer
  <2>2. QED
    BY <2>1
<1>6. ASSUME NEW c \in Callers, SubmitRefused(c) \/ WaitObserves(c)
      PROVE  Sound(c)'
  <2>1. CASE SubmitRefused(c)
    <3>1. /\ answer'[c] \in {"Shutdown", "Saturated", "Exhausted"}
          /\ answer'[c] = "Shutdown" => lifecycle # "Running"
      BY <1>0, <2>1 DEF SubmitRefused, Returns, Answer, AdmitOutcome
    <3>2. QED
      BY <1>0, <3>1
  <2>2. CASE WaitObserves(c)
    <3>1. answer'[c] = "Terminated" /\ IsTerminated
      BY <1>0, <2>2 DEF WaitObserves, Returns, Answer
    <3>2. QED
      BY <1>0, <3>1
  <2>3. QED
    BY <1>6, <2>1, <2>2
<1>7. ASSUME NEW c \in Callers, Shutdown(c) \/ Stop(c) PROVE Sound(c)'
  <2>1. CASE Shutdown(c)
    <3>1. answer'[c] = "ShutDown" /\ lifecycle' # "Running"
      BY <1>0, <2>1 DEF Shutdown, shutdown, Returns, Answer
    <3>2. QED
      BY <3>1
  <2>2. CASE Stop(c)
    <3>1. answer'[c] \in {"Stopped", "none"} /\ lifecycle' = "Stopping"
      BY <1>0, <2>2 DEF Stop, stop, Enters, Returns, Answer
    <3>2. QED
      BY <3>1
  <2>3. QED
    BY <1>7, <2>1, <2>2
<1>8. ASSUME NEW c \in Callers, NEW t \in TaskIds, CancelInProgress(c, t)
      PROVE  Sound(c)'
  <2>1. /\ t \in cancelling /\ cancelling' = cancelling
        /\ target'[c] = t /\ answer'[c] = "Cancelled"
    BY <1>0, <1>8
    DEF CancelInProgress, CancelDisposition, Returns, Answer, stateVars
  <2>2. QED
    BY <2>1
<1>9. ASSUME NEW c \in Callers,
             \/ AnswerFromStatus(c) \/ EndpointRunning(c) \/ EndpointCancel(c)
      PROVE  Sound(c)'
  <2>1. /\ target[c] \in 0 .. next_task_id - 1
        /\ target[c] \notin queue /\ target[c] \notin cancelling
    BY <1>0, <1>9
    DEF AnswerFromStatus, EndpointRunning, EndpointCancel, CallsInShape
  <2>2. /\ target'[c] = target[c] /\ slot' = slot
        /\ running_tasks' = running_tasks
    BY <1>0, <1>9, FallbackChangesNoSlot
    DEF AnswerFromStatus, EndpointRunning, EndpointCancel, Returns, stateVars
  <2>3. \/ answer'[c] = "AlreadyRunning" /\ target[c] \in running_tasks
        \/ answer'[c] = "AlreadyFinished" /\ slot[target[c]] \in Terminal
    <3>1. CASE AnswerFromStatus(c)
      BY <1>0, <2>1, <3>1, AbsentStatus
      DEF AnswerFromStatus, StatusAnswer, Returns, Answer
    <3>2. CASE EndpointRunning(c)
      BY <1>0, <3>2 DEF EndpointRunning, Returns, Answer
    <3>3. CASE EndpointCancel(c)
      <4>1. slot[target[c]] \in Terminal
        BY <3>3, FallbackSlotIsFinal DEF EndpointCancel
      <4>2. answer'[c] = "AlreadyFinished"
        BY <1>0, <3>3, <4>1
        DEF EndpointCancel, StatusAnswer, Returns, Answer, Terminal, Completed
      <4>3. QED
        BY <4>1, <4>2
    <3>4. QED
      BY <1>9, <3>1, <3>2, <3>3
  <2>4. QED
    BY <2>2, <2>3
<1>10. ASSUME NEW c \in Callers, NEW t \in TaskIds, FinishCancelling(c, t)
       PROVE  Sound(c)'
  <2>1. /\ pc[c] = "cleaning" /\ FirstOwned(c, t) /\ t \in owned[c]
        /\ target'[c] = target[c] /\ slot' = slot
        /\ answer'[c] = IF owned[c] # {t} THEN "none"
                        ELSE IF target[c] = NoTask THEN "Stopped"
                        ELSE "Cancelled"
    BY <1>0, <1>10
    DEF FinishCancelling, FirstOwned, Enters, Returns, Answer
  <2>2. slot[t] = "Cancelled"
    BY <2>1 DEF ServiceInv, SlotsFollowOwners
  <2>3. IF target[c] = NoTask
        THEN lifecycle = "Stopping" ELSE owned[c] = {target[c]}
    BY <1>0, <2>1 DEF TargetsInShape
  <2>4. CASE target[c] = NoTask
    BY <1>0, <2>1, <2>3, <2>4
  <2>5. CASE target[c] # NoTask
    <3>1. target[c] = t
      BY <2>1, <2>3, <2>5
    <3>2. QED
      BY <2>1, <2>2, <2>5, <3>1
  <2>6. QED
    BY <2>4, <2>5
<1>11. ASSUME NEW w \in Workers, Work(w), NEW d \in Callers PROVE Sound(d)'
  <2>1. UNCHANGED callerVars
    BY <1>11 DEF Work, TakeNext, TakeNothing, Start, Complete, FinishRunning,
       SpawnSuccessor
  <2>2. QED
    BY <1>2, <2>1 DEF callerVars
<1>12. ASSUME UNCHANGED vars, NEW d \in Callers PROVE Sound(d)'
  BY <1>2, <1>12 DEF vars, callerVars
<1>13. ASSUME NEW c \in Callers, Call(c) \/ Wait(c) \/ Continue(c)
       PROVE  Sound(c)'
  BY <1>4, <1>5, <1>6, <1>7, <1>8, <1>9, <1>10, <1>13 DEF Call, Wait, Continue
<1>14. \A d \in Callers : Sound(d)'
  BY <1>3, <1>11, <1>12, <1>13 DEF Next
<1>15. QED
  BY <1>14 DEF AnswersSound

-----------------------------------------------------------------------------
LEMMA InitEstablishesServiceInv == Init => ServiceInv
<1> SUFFICES ASSUME Init PROVE ServiceInv
  OBVIOUS
<1> USE ConfigAssumption DEF Init, StateInit
<1>1. StateInv
  BY InitEstablishesStateInv
<1>2. TypeOK
  BY <1>1 DEF TypeOK, StateInv, CallerPCs, Answers, WorkerPCs, Terminal
<1>3. CallsInShape
  BY DEF CallsInShape
<1>4. TargetsInShape
  BY DEF TargetsInShape
<1>5. Promised = {} /\ Busy = {} /\ Holders = {}
  BY DEF Promised, Busy, Holders, Holding
<1>6. ReservationsConserved /\ HoldersCounted
  BY <1>5, FS_EmptySet DEF ReservationsConserved, HoldersCounted
<1>7. SingleOwner
  BY DEF SingleOwner, Holding
<1>8. SlotsFollowOwners
  BY DEF SlotsFollowOwners
<1>9. AnswersSound
  BY DEF AnswersSound
<1>10. QED
  BY <1>1, <1>2, <1>3, <1>4, <1>6, <1>7, <1>8, <1>9 DEF ServiceInv

LEMMA NextKeepsServiceInv == ServiceInv /\ [Next]_vars => ServiceInv'
<1> SUFFICES ASSUME ServiceInv, [Next]_vars PROVE ServiceInv'
  OBVIOUS
<1>1. SlotsInShape'
  BY SlotsKept
<1>2. SingleOwner'
  BY <1>1, SingleOwnerParts, WorkersOwnKept, CallersOwnKept
  DEF SlotsInShape, SingleOwner, WorkersOwn, CallersOwn, CollectionsInSlots
<1>3. SlotsFollowOwners'
  BY <1>1 DEF SlotsInShape
<1>4. QED
  BY <1>2, <1>3, StateInvKept, TypeOKKept, CallsInShapeKept,
     TargetsInShapeKept, ReservationsKept, HoldersKept, AnswersSoundKept
  DEF ServiceInv

-----------------------------------------------------------------------------
(* The inductive invariant of the service: everything below follows from   *)
(* it.  It names every place where a reservation, a job or a result can be *)
(* between two holds of the mutex.                                         *)
THEOREM ServiceInvariant == Spec => []ServiceInv
<1>1. Init => ServiceInv
  BY InitEstablishesServiceInv
<1>2. ServiceInv /\ [Next]_vars => ServiceInv'
  BY NextKeepsServiceInv
<1>3. QED
  BY <1>1, <1>2, PTL DEF Spec

(* The service keeps its type: the pool never holds more closures than it  *)
(* has threads, and no caller has more left to spawn (admit, dispatch).    *)
THEOREM ServiceTypeCorrect == Spec => []TypeOK
<1>1. ServiceInv => TypeOK
  BY DEF ServiceInv
<1>2. QED
  BY <1>1, ServiceInvariant, PTL

(* No reservation of a closure is lost or released twice (admit, dispatch, *)
(* take_next, finish_running).                                             *)
THEOREM ReservationsNeverLeak == Spec => []ReservationsConserved
<1>1. ServiceInv => ReservationsConserved
  BY DEF ServiceInv
<1>2. QED
  BY <1>1, ServiceInvariant, PTL

(* As many closures are on their way as there are waiting tasks that a     *)
(* worker is free for, and never more than there are free workers (admit,  *)
(* take_next, finish_running, build).                                      *)
THEOREM FreeWorkersAreUsed == Spec => []ClosuresMeetDemand
<1>1. ASSUME ServiceInv
      PROVE  /\ Min2(Cardinality(queue), Cardinality(Free)) <= Coming
             /\ Coming <= Cardinality(Free)
  <2> DEFINE Spawning == {w \in Busy : wpc[w] = "spawning"}
  <2>1. /\ Workers \in SUBSET Workers /\ Busy \in SUBSET Workers
        /\ Holders \in SUBSET Workers /\ Free \in SUBSET Workers
        /\ Spawning \in SUBSET Workers
    BY DEF Busy, Holders, Free
  <2>2. /\ IsFiniteSet(Holders) /\ Cardinality(Holders) \in Nat
        /\ IsFiniteSet(Free) /\ Cardinality(Free) \in Nat
        /\ IsFiniteSet(Spawning) /\ Cardinality(Spawning) \in Nat
        /\ Cardinality(Promised) \in Nat
    BY <2>1, WorkerSetFinite, PromiseSetFinite DEF Promised
  <2>3. Cardinality(Busy) = Cardinality(Holders) + Cardinality(Spawning)
    <3>1. Busy = Holders \union Spawning /\ Holders \intersect Spawning = {}
      BY <1>1 DEF ServiceInv, TypeOK, Busy, Holders, Holding, WorkerPCs
    <3>2. Cardinality(Holders \union Spawning)
             = Cardinality(Holders) + Cardinality(Spawning)
                  - Cardinality(Holders \intersect Spawning)
      BY <2>2, FS_Union
    <3>3. QED
      BY <2>2, <3>1, <3>2, FS_EmptySet
  <2>4. NumThreads = Cardinality(Holders) + Cardinality(Free)
    <3>1. Workers = Holders \union Free /\ Holders \intersect Free = {}
      BY DEF Holders, Free
    <3>2. Cardinality(Holders \union Free)
             = Cardinality(Holders) + Cardinality(Free)
                  - Cardinality(Holders \intersect Free)
      BY <2>2, FS_Union
    <3>3. QED
      BY <2>2, <3>1, <3>2, PoolAssumption, FS_EmptySet
  <2>5. /\ running = Cardinality(Holders)
        /\ scheduled = Cardinality(Promised) + spawned + Cardinality(Busy)
        /\ scheduled <= NumThreads
        /\ Min2(NumThreads, running + Cardinality(queue)) <= scheduled
        /\ spawned \in Nat /\ Cardinality(queue) \in Nat
    BY <1>1, TaskSetFinite
    DEF ServiceInv, HoldersCounted, ReservationsConserved, StateInv,
        WorkIsReserved, TypeOK, StateTypeOK
  <2>6. Coming = Cardinality(Promised) + spawned + Cardinality(Spawning)
    BY DEF Coming
  <2>7. QED
    BY <2>2, <2>3, <2>4, <2>5, <2>6 DEF Min2
<1>2. QED
  BY <1>1, ServiceInvariant, PTL DEF ClosuresMeetDemand

(* The queue, a worker and a cancelling call never share a job, and none   *)
(* loses it without a final result (take_next, cancel_pending_task, stop). *)
THEOREM JobsHaveOneOwner == Spec => []SingleOwner
<1>1. ServiceInv => SingleOwner
  BY DEF ServiceInv
<1>2. QED
  BY <1>1, ServiceInvariant, PTL

(* No later step contradicts what a call answered (cancel, submit, stop,   *)
(* shutdown, wait_termination).                                            *)
THEOREM AnswersStayTrue == Spec => []AnswersSound
<1>1. ServiceInv => AnswersSound
  BY DEF ServiceInv
<1>2. QED
  BY <1>1, ServiceInvariant, PTL

(* A terminated service is quiescent: no worker holds a job, no destructor *)
(* of a cancelled task runs, every result is final (lifecycle, occupied).  *)
THEOREM TerminationIsQuiescent == Spec => []TerminatedIsQuiescent
<1>1. ASSUME ServiceInv, IsTerminated
      PROVE  /\ \A t \in TaskIds : slot[t] \in Terminal \union {"Unsubmitted"}
             /\ \A w \in Workers : wpc[w] \notin Holding
             /\ \A c \in Callers : owned[c] = {}
  <2>1. queue = {} /\ running_tasks = {} /\ cancelling = {}
    BY <1>1, TerminatedIsEmpty DEF ServiceInv
  <2>2. ASSUME NEW t \in TaskIds
        PROVE  slot[t] \in Terminal \union {"Unsubmitted"}
    <3>1. CASE next_task_id <= t
      BY <1>1, <3>1 DEF ServiceInv, SlotsFollowOwners
    <3>2. CASE ~(next_task_id <= t)
      <4>1. t \in 0 .. next_task_id - 1
        BY <1>1, <3>2, ConfigAssumption
        DEF ServiceInv, StateInv, StateTypeOK, TaskIds
      <4>2. QED
        BY <1>1, <2>1, <4>1, UnownedIsFinal
    <3>3. QED
      BY <3>1, <3>2
  <2>3. \A w \in Workers : wpc[w] \notin Holding
    BY <1>1, <2>1, OwnersApart
  <2>4. \A c \in Callers : owned[c] = {}
    BY <1>1, <2>1, OwnersApart
  <2>5. QED
    BY <2>2, <2>3, <2>4
<1>2. ServiceInv => TerminatedIsQuiescent
  BY <1>1 DEF TerminatedIsQuiescent
<1>3. QED
  BY <1>2, ServiceInvariant, PTL

(* The fallback of a cancellation endpoint finds a final slot, so it never *)
(* withdraws a task that a worker is about to start (cancellation_handle). *)
THEOREM EndpointFallbackIsHarmless == Spec => []EndpointFallbackHarmless
<1>1. ServiceInv => EndpointFallbackHarmless
  BY FallbackSlotIsFinal DEF EndpointFallbackHarmless
<1>2. QED
  BY <1>1, ServiceInvariant, PTL

(* Every behaviour of the service is one of the shared state alone, so the *)
(* theorems about the state hold of the service too: callers and closures  *)
(* keep the rules the methods were proved under (run_one, cancel, stop).   *)
THEOREM ServiceKeepsStateProtocol == Spec => KeepsStateProtocol
<1>1. Init => StateInit
  BY DEF Init
<1>2. ServiceInv /\ [Next]_vars => [StateNext]_stateVars
  BY StepsKeepProtocol
<1>3. QED
  BY <1>1, <1>2, ServiceInvariant, PTL DEF Spec, KeepsStateProtocol, StateSpec

-----------------------------------------------------------------------------
(* The service never gets stuck and never spins: what of its liveness is a *)
(* matter of single states and single steps.                               *)

(* The queue has a front and the jobs of a cancelling call a first one.    *)
LEMMA TasksHaveAFirst ==
    ASSUME NEW S \in SUBSET TaskIds, S # {}
    PROVE  \E t \in S : \A u \in S : t <= u
<1>1. S \in SUBSET Nat
  BY ConfigAssumption DEF TaskIds
<1>2. QED
  BY <1>1, OldestExists

(* A call always has a step: a dispatch loop has closures left or not, a   *)
(* cancellation that goes on owns a job.                                   *)
LEMMA CallerIsNotHeldUp ==
    ASSUME ServiceInv, NEW c \in Callers, CallerGoesOn(c)
    PROVE  CanGoOn(c)
<1>0. /\ pc[c] \in CallerPCs
      /\ left[c] \in 0 .. NumThreads
      /\ owned[c] \in SUBSET TaskIds
  BY DEF ServiceInv, TypeOK
<1>1. CASE pc[c] = "dispatching"
  <2>1. left[c] > 0 \/ left[c] = 0
    BY <1>0, ConfigAssumption
  <2>2. QED
    BY <1>1, <2>1 DEF CanGoOn
<1>2. CASE pc[c] \in {"claimed", "cleaning"}
  <2>1. owned[c] # {}
    BY <1>2 DEF ServiceInv, CallsInShape
  <2>2. \E t \in TaskIds : FirstOwned(c, t)
    BY <1>0, <2>1, TasksHaveAFirst DEF FirstOwned
  <2>3. QED
    BY <1>2, <2>2 DEF CanGoOn
<1>3. CASE pc[c] \in Waiting
  BY <1>3 DEF CallerGoesOn, CanGoOn
<1>4. CASE pc[c] \in {"absent", "absent_endpoint", "endpoint_cancel"}
  BY <1>4 DEF CanGoOn
<1>5. QED
  BY <1>0, <1>1, <1>2, <1>3, <1>4 DEF CallerGoesOn, CallerPCs

LEMMA WorkerIsNotHeldUp ==
    ASSUME ServiceInv, NEW w \in Workers, WorkerGoesOn(w)
    PROVE  CanWork(w)
<1>0. wpc[w] \in WorkerPCs /\ queue \in SUBSET TaskIds
  BY DEF ServiceInv, TypeOK, StateTypeOK
<1>1. CASE wpc[w] = "idle"
  <2>1. queue = {} \/ \E t \in TaskIds : Oldest(t)
    BY <1>0, TasksHaveAFirst DEF Oldest
  <2>2. QED
    BY <1>1, <2>1 DEF WorkerGoesOn, CanWork
<1>2. CASE wpc[w] # "idle"
  BY <1>0, <1>2 DEF WorkerPCs, CanWork
<1>3. QED
  BY <1>1, <1>2

(* Whoever has something to do has a step whose guard holds (cancel, stop, *)
(* dispatch, take_next).                                                   *)
THEOREM WhoGoesOnIsNotHeldUp == Spec => []NobodyIsHeldUp
<1>1. ServiceInv => NobodyIsHeldUp
  BY CallerIsNotHeldUp, WorkerIsNotHeldUp DEF NobodyIsHeldUp
<1>2. QED
  BY <1>1, ServiceInvariant, PTL

-----------------------------------------------------------------------------
(* When nobody goes on, no place is left for a closure, a job or a task.   *)
LEMMA QuietPlaces ==
    ASSUME ServiceInv, Quiet
    PROVE  /\ Promised = {} /\ Busy = {} /\ Holders = {}
           /\ spawned = 0
           /\ \A c \in Callers : owned[c] = {}
<1>1. Workers # {}
  BY PoolAssumption, ConfigAssumption, FS_EmptySet
<1>2. \A w \in Workers : wpc[w] = "idle" /\ ~(spawned > 0)
  BY DEF Quiet, WorkerGoesOn
<1>3. spawned = 0
  BY <1>1, <1>2 DEF ServiceInv, TypeOK
<1>4. ASSUME NEW c \in Callers
      PROVE  pc[c] \notin {"dispatching", "claimed", "cleaning"}
  BY DEF Quiet, CallerGoesOn, Waiting
<1>5. \A c \in Callers : left[c] \in 0 .. NumThreads /\ ~(left[c] > 0)
  BY <1>4 DEF ServiceInv, CallsInShape, TypeOK
<1>6. Promised = {}
  BY <1>5, ConfigAssumption DEF Promised
<1>7. Busy = {} /\ Holders = {}
  BY <1>2 DEF Busy, Holders, Holding
<1>8. \A c \in Callers : owned[c] = {}
  BY <1>4 DEF ServiceInv, CallsInShape
<1>9. QED
  BY <1>3, <1>6, <1>7, <1>8

(* No closure is left, and as a free thread never leaves a queued task     *)
(* without one, no task is.                                                *)
LEMMA QuietCollections ==
    ASSUME ServiceInv, Quiet
    PROVE  /\ queue = {} /\ running_tasks = {} /\ cancelling = {}
           /\ scheduled = 0 /\ occupied = 0
<1>1. scheduled = 0
  BY QuietPlaces, FS_EmptySet DEF ServiceInv, ReservationsConserved
<1>2. /\ running \in Nat /\ Cardinality(queue) \in Nat
      /\ running <= 0
      /\ Min2(NumThreads, running + Cardinality(queue)) <= 0
      /\ running = Cardinality(running_tasks)
      /\ queue \in SUBSET TaskIds /\ running_tasks \in SUBSET TaskIds
  BY <1>1, Sizes
  DEF ServiceInv, StateInv, StateTypeOK, WorkIsReserved, OwnershipConsistent
<1>3. running = 0 /\ Cardinality(queue) = 0
  BY <1>2, ConfigAssumption DEF Min2
<1>4. queue = {} /\ running_tasks = {}
  BY <1>2, <1>3, TaskSetZero
<1>5. cancelling = {}
  BY QuietPlaces DEF ServiceInv, SingleOwner
<1>6. occupied = 0
  BY <1>3, <1>5, FS_EmptySet DEF occupied
<1>7. QED
  BY <1>1, <1>4, <1>5, <1>6

(* No task, reservation or waiter is left behind when nobody has anything  *)
(* to do (admit, dispatch, take_next, finish_running,                      *)
(* notify_if_terminated_locked).                                           *)
THEOREM NothingLeftBehind == Spec => []QuietIsClean
<1>1. ASSUME ServiceInv, Quiet
      PROVE  /\ \A t \in 0 .. next_task_id - 1 : slot[t] \in Terminal
             /\ occupied = 0
             /\ scheduled = 0
             /\ parked # {} => lifecycle = "Running"
  <2>1. \A t \in 0 .. next_task_id - 1 : slot[t] \in Terminal
    BY <1>1, QuietCollections, UnownedIsFinal
  <2>2. parked # {} => lifecycle = "Running"
    BY <1>1, QuietCollections
    DEF ServiceInv, StateInv, NoLostTerminationWakeup, IsTerminated
  <2>3. QED
    BY <1>1, <2>1, <2>2, QuietCollections
<1>2. ServiceInv => QuietIsClean
  BY <1>1 DEF QuietIsClean
<1>3. QED
  BY <1>2, ServiceInvariant, PTL

-----------------------------------------------------------------------------
(* Using up steps.                                                         *)

LEMMA WorkerStepType ==
    ASSUME NEW place \in WorkerPCs
    PROVE  WorkerStep[place] \in 0 .. 3
BY DEF WorkerPCs, Holding, WorkerStep

(* A worker that moves to a place with fewer steps ahead uses one up.      *)
LEMMA WorkerAdvances ==
    ASSUME wpc \in [Workers -> WorkerPCs],
           NEW w \in Workers, NEW place \in WorkerPCs,
           WorkerGoto(w, place), WorkerStep[place] < WorkerStep[wpc[w]]
    PROVE  Fewer(WorkerSteps', WorkerSteps)
<1>1. /\ wpc'[w] = place
      /\ \A v \in Workers : v # w => wpc'[v] = wpc[v]
  BY DEF WorkerGoto
<1>2. /\ WorkerStep[place] \in 0 .. 3
      /\ WorkerStep[wpc[w]] \in 0 .. 3
  BY WorkerStepType
<1>3. WorkerSteps' \subseteq WorkerSteps
  BY <1>1, <1>2 DEF WorkerSteps
<1>4. <<w, WorkerStep[wpc[w]]>> \in WorkerSteps
  BY <1>2 DEF WorkerSteps
<1>5. <<w, WorkerStep[wpc[w]]>> \notin WorkerSteps'
  BY <1>1, <1>2 DEF WorkerSteps
<1>6. QED
  BY <1>3, <1>4, <1>5 DEF Fewer

LEMMA CallStepType ==
    ASSUME pc \in [Callers -> CallerPCs], NEW c \in Callers
    PROVE  CallStep[pc[c]] + Unparked(c) \in 0 .. 3
BY DEF CallerPCs, Waiting, CallStep, Unparked

(* A caller that moves to a place with fewer steps ahead uses one up, if   *)
(* no other caller is woken.                                               *)
LEMMA CallAdvances ==
    ASSUME pc \in [Callers -> CallerPCs], pc' \in [Callers -> CallerPCs],
           NEW c \in Callers,
           \A d \in Callers : d # c =>
               pc'[d] = pc[d] /\ (d \in parked' <=> d \in parked),
           CallStep[pc'[c]] + Unparked(c)' < CallStep[pc[c]] + Unparked(c)
    PROVE  Fewer(CallSteps', CallSteps)
<1> DEFINE Ahead(d) == CallStep[pc[d]] + Unparked(d)
<1>1. \A d \in Callers : Ahead(d) \in 0 .. 3 /\ Ahead(d)' \in 0 .. 3
  BY CallStepType DEF CallerPCs, Waiting, CallStep, Unparked
<1>2. \A d \in Callers : d # c => Ahead(d)' = Ahead(d)
  BY DEF Unparked
<1>3. Ahead(c)' < Ahead(c)
  OBVIOUS
<1>4. /\ CallSteps = {s \in Callers \X (1 .. 3) : s[2] <= Ahead(s[1])}
      /\ CallSteps' = {s \in Callers \X (1 .. 3) : s[2] <= Ahead(s[1])'}
  BY DEF CallSteps
<1> HIDE DEF Ahead
<1>5. CallSteps' \subseteq CallSteps
  BY <1>1, <1>2, <1>3, <1>4
<1>6. <<c, Ahead(c)>> \in CallSteps /\ <<c, Ahead(c)>> \notin CallSteps'
  BY <1>1, <1>3, <1>4
<1>7. QED
  BY <1>5, <1>6 DEF Fewer

(* The same for a step of a call that changes neither the counts nor what  *)
(* workers and dispatch loops have still to do.                            *)
LEMMA CallStepSpends ==
    ASSUME ServiceInv, [Next]_vars, NEW c \in Callers,
           UNCHANGED <<queue, running_tasks, cancelling, left, wpc, spawned>>,
           \A d \in Callers : d # c =>
               pc'[d] = pc[d] /\ (d \in parked' <=> d \in parked),
           CallStep[pc'[c]] + Unparked(c)' < CallStep[pc[c]] + Unparked(c)
    PROVE  SpendsWork
<1>1. pc \in [Callers -> CallerPCs] /\ pc' \in [Callers -> CallerPCs]
  BY TypeOKKept DEF ServiceInv, TypeOK
<1>2. Fewer(CallSteps', CallSteps)
  BY <1>1, CallAdvances
<1>3. UNCHANGED <<queue, InHand, Promised, WorkerSteps, spawned>>
  BY DEF InHand, Promised, WorkerSteps
<1>4. QED
  BY <1>2, <1>3 DEF SpendsWork

-----------------------------------------------------------------------------
(* Each step that goes on with a call or works.                            *)

(* A worker's steps with its job, and the closure it spawns at the end.    *)
LEMMA WorkSpends ==
    ASSUME ServiceInv, NEW w \in Workers, Work(w)
    PROVE  SpendsWork
<1>0. /\ wpc \in [Workers -> WorkerPCs]
      /\ spawned \in Nat
  BY DEF ServiceInv, TypeOK
<1>1. ASSUME NEW t \in TaskIds, TakeNext(w, t) PROVE SpendsWork
  <2>1. t \in queue /\ queue' = queue \ {t}
    BY <1>1 DEF TakeNext, take_next, Oldest
  <2>2. QED
    BY <2>1 DEF SpendsWork, Fewer
<1>2. CASE TakeNothing(w)
  <2>1. spawned' < spawned
    BY <1>0, <1>2 DEF TakeNothing, PickUp
  <2>2. UNCHANGED <<queue, InHand, Promised, WorkerSteps>>
    BY <1>2
    DEF TakeNothing, take_nothing, callerVars, InHand, Promised, WorkerSteps
  <2>3. QED
    BY <2>1, <2>2 DEF SpendsWork
<1>3. CASE \/ Start(w) \/ SpawnSuccessor(w)
           \/ \E s \in Completed : Complete(w, s)
  <2>1. UNCHANGED <<queue, InHand, Promised>>
    BY <1>3
    DEF Start, Complete, SpawnSuccessor, stateVars, callerVars, InHand, Promised
  <2>2. PICK place \in WorkerPCs :
            WorkerGoto(w, place) /\ WorkerStep[place] < WorkerStep[wpc[w]]
    <3>1. CASE WorkerGoto(w, "running") /\ wpc[w] = "taken"
      BY <3>1 DEF WorkerPCs, Holding, WorkerStep
    <3>2. CASE WorkerGoto(w, "ran") /\ wpc[w] \in {"taken", "running"}
      BY <3>2 DEF WorkerPCs, Holding, WorkerStep
    <3>3. CASE WorkerGoto(w, "idle") /\ wpc[w] = "spawning"
      BY <3>3 DEF WorkerPCs, WorkerStep
    <3>4. QED
      BY <1>3, <3>1, <3>2, <3>3 DEF Start, Complete, SpawnSuccessor
  <2>3. Fewer(WorkerSteps', WorkerSteps)
    BY <1>0, <2>2, WorkerAdvances
  <2>4. QED
    BY <2>1, <2>3 DEF SpendsWork
<1>4. CASE FinishRunning(w)
  <2>1. job[w] \in running_tasks /\ job[w] \notin cancelling
    BY <1>4, OwnersApart DEF FinishRunning, Holding
  <2>2. /\ queue' = queue /\ cancelling' = cancelling
        /\ running_tasks' = running_tasks \ {job[w]}
    BY <1>4 DEF FinishRunning, finish_running
  <2>3. Fewer(InHand', InHand)
    BY <2>1, <2>2 DEF Fewer, InHand
  <2>4. QED
    BY <2>2, <2>3 DEF SpendsWork
<1>5. QED
  BY <1>1, <1>2, <1>3, <1>4 DEF Work

(* A dispatch loop uses up what was promised; the end of a cancellation    *)
(* uses up a task in hand, whoever it wakes.                               *)
LEMMA HandOffSpends ==
    ASSUME ServiceInv, NEW c \in Callers,
           Dispatch(c) \/ \E t \in TaskIds : FinishCancelling(c, t)
    PROVE  SpendsWork
<1>1. CASE Dispatch(c)
  <2>1. left \in [Callers -> 0 .. NumThreads]
    BY DEF ServiceInv, TypeOK
  <2>2. left[c] > 0 /\ left' = [left EXCEPT ![c] = @ - 1]
    BY <1>1 DEF Dispatch
  <2>3. <<c, left[c]>> \in Promised
    BY <2>1, <2>2 DEF Promised
  <2>4. Promised' = Promised \ {<<c, left[c]>>}
    BY <2>1, <2>2, ConfigAssumption DEF Promised
  <2>5. Fewer(Promised', Promised)
    BY <2>3, <2>4 DEF Fewer
  <2>6. UNCHANGED <<queue, InHand, WorkerSteps>>
    BY <1>1 DEF Dispatch, stateVars, InHand, WorkerSteps
  <2>7. QED
    BY <2>5, <2>6 DEF SpendsWork
<1>2. ASSUME NEW t \in TaskIds, FinishCancelling(c, t) PROVE SpendsWork
  <2>1. t \in owned[c]
    BY <1>2 DEF FinishCancelling, FirstOwned
  <2>2. t \in cancelling /\ t \notin running_tasks
    BY <2>1, OwnersApart
  <2>3. /\ queue' = queue /\ running_tasks' = running_tasks
        /\ cancelling' = cancelling \ {t}
    BY <1>2 DEF FinishCancelling, finish_cancelling
  <2>4. Fewer(InHand', InHand)
    BY <2>2, <2>3 DEF Fewer, InHand
  <2>5. QED
    BY <2>3, <2>4 DEF SpendsWork
<1>3. QED
  BY <1>1, <1>2

(* The steps in which a call only goes on to its next place.               *)
LEMMA PlaceSpends ==
    ASSUME ServiceInv, [Next]_vars, NEW c \in Callers,
           \/ ReturnHandle(c) \/ AnswerFromStatus(c) \/ EndpointRunning(c)
           \/ EndpointNotRunning(c) \/ EndpointCancel(c) \/ CancelJob(c)
    PROVE  SpendsWork
<1>0. pc \in [Callers -> CallerPCs]
  BY DEF ServiceInv, TypeOK
<1>1. /\ UNCHANGED <<queue, running_tasks, cancelling, parked>>
      /\ UNCHANGED <<left, wpc, spawned>>
  BY DEF ReturnHandle, AnswerFromStatus, EndpointRunning, EndpointNotRunning,
         EndpointCancel, CancelJob, stateVars, poolVars
<1>2. \/ /\ Goto(c, "idle")
         /\ pc[c] \in {"dispatching", "absent", "absent_endpoint",
                       "endpoint_cancel"}
      \/ Goto(c, "endpoint_cancel") /\ pc[c] = "absent_endpoint"
      \/ Goto(c, "cleaning") /\ pc[c] = "claimed"
  BY DEF ReturnHandle, AnswerFromStatus, EndpointRunning, EndpointNotRunning,
         EndpointCancel, CancelJob, Returns
<1>3. /\ \A d \in Callers : d # c =>
              pc'[d] = pc[d] /\ (d \in parked' <=> d \in parked)
      /\ CallStep[pc'[c]] + Unparked(c)' < CallStep[pc[c]] + Unparked(c)
  BY <1>0, <1>1, <1>2 DEF Goto, CallStep, Unparked, Waiting
<1>4. QED
  BY <1>1, <1>3, CallStepSpends

(* The steps of a wait that has begun: woken or not, it comes closer to    *)
(* its end, and to park again it must have been woken.                     *)
LEMMA WaitSpends ==
    ASSUME ServiceInv, [Next]_vars, NEW c \in Callers,
           pc[c] \in Waiting, Wait(c)
    PROVE  SpendsWork
<1>0. pc \in [Callers -> CallerPCs]
  BY DEF ServiceInv, TypeOK
<1>1. /\ UNCHANGED <<queue, running_tasks, cancelling, left, wpc, spawned>>
      /\ \A d \in Callers : d # c => (d \in parked' <=> d \in parked)
  BY DEF Wait, WaitObserves, WaitParks, WaitExpires, WaitTimesOut, park,
         unpark_on_timeout, stateVars, poolVars
<1>2. CASE WaitObserves(c) \/ WaitTimesOut(c)
  <2>1. c \notin parked /\ Goto(c, "idle")
    BY <1>2 DEF WaitObserves, WaitTimesOut, Returns, Waiting
  <2>2. QED
    BY <1>0, <1>1, <2>1, CallStepSpends DEF Goto, CallStep, Unparked, Waiting
<1>3. CASE WaitParks(c, "waiting") \/ WaitParks(c, "waiting_for")
  <2>1. c \notin parked /\ c \in parked' /\ pc' = pc
    BY <1>0, <1>3 DEF WaitParks, park, Enters, Goto, Waiting
  <2>2. QED
    BY <1>0, <1>1, <2>1, CallStepSpends DEF CallStep, Unparked, Waiting
<1>4. CASE WaitExpires(c)
  <2>1. /\ pc[c] = "waiting_for" /\ Goto(c, "expired")
        /\ c \in parked /\ c \notin parked'
    BY <1>4 DEF WaitExpires, unpark_on_timeout, Enters
  <2>2. QED
    BY <1>0, <1>1, <2>1, CallStepSpends DEF Goto, CallStep, Unparked, Waiting
<1>5. QED
  BY <1>2, <1>3, <1>4 DEF Wait

(* The stock of work is finite in all its parts, and to be fewer means to  *)
(* be counted less: it can be used up only so often.                       *)
LEMMA StockIsFinite ==
    ASSUME ServiceInv
    PROVE  /\ \A S \in {queue, InHand, Promised, WorkerSteps, CallSteps} :
                 /\ IsFiniteSet(S)
                 /\ \A T : Fewer(T, S) => Cardinality(T) < Cardinality(S)
           /\ spawned \in Nat
<1>1. IsFiniteSet(queue) /\ IsFiniteSet(InHand)
  <2>1. queue \in SUBSET TaskIds /\ InHand \in SUBSET TaskIds
    BY DEF ServiceInv, StateInv, StateTypeOK, InHand
  <2>2. QED
    BY <2>1, TaskSetFinite
<1>2. IsFiniteSet(Promised)
  BY PromiseSetFinite DEF Promised
<1>3. /\ IsFiniteSet(Workers \X (1 .. 3))
      /\ IsFiniteSet(Callers \X (1 .. 3))
  <2>1. \A n \in Nat : IsFiniteSet(1 .. n)
    BY FS_Interval
  <2>2. IsFiniteSet(1 .. 3)
    BY <2>1
  <2>3. QED
    BY <2>2, PoolAssumption, FS_Product
<1>4. /\ WorkerSteps \in SUBSET (Workers \X (1 .. 3))
      /\ CallSteps \in SUBSET (Callers \X (1 .. 3))
  BY DEF WorkerSteps, CallSteps
<1>5. IsFiniteSet(WorkerSteps) /\ IsFiniteSet(CallSteps)
  BY <1>3, <1>4, FS_Subset
<1>6. ASSUME NEW S, IsFiniteSet(S), NEW T, Fewer(T, S)
      PROVE  Cardinality(T) < Cardinality(S)
  <2>1. /\ Cardinality(T) <= Cardinality(S)
        /\ Cardinality(T) = Cardinality(S) => T = S
        /\ IsFiniteSet(T)
    BY <1>6, FS_Subset DEF Fewer
  <2>2. Cardinality(T) \in Nat /\ Cardinality(S) \in Nat
    BY <1>6, <2>1, FS_CardinalityType
  <2>3. QED
    BY <1>6, <2>1, <2>2 DEF Fewer
<1>7. spawned \in Nat
  BY DEF ServiceInv, TypeOK
<1>8. QED
  BY <1>1, <1>2, <1>5, <1>6, <1>7

(* No thread spins: what goes on uses up a finite stock of work (run_one,  *)
(* dispatch, cancel, wait_termination, wait_termination_for).              *)
THEOREM NothingSpins == Spec => GoingOnSpendsWork
<1>1. ServiceInv /\ [Next]_vars =>
          [(\E c \in Callers : GoOn(c)) \/ (\E w \in Workers : Work(w))
              => SpendsWork]_vars
  <2> SUFFICES ASSUME ServiceInv, [Next]_vars,
                      (\E c \in Callers : GoOn(c)) \/ (\E w \in Workers : Work(w))
               PROVE  SpendsWork
    OBVIOUS
  <2>1. ASSUME NEW c \in Callers, GoOn(c) PROVE SpendsWork
    BY <2>1, HandOffSpends, PlaceSpends, WaitSpends DEF GoOn, Continue
  <2>2. QED
    BY <2>1, WorkSpends
<1>2. QED
  BY <1>1, ServiceInvariant, PTL DEF Spec, GoingOnSpendsWork
=============================================================================
