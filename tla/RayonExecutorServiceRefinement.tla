------------------- MODULE RayonExecutorServiceRefinement -------------------
(***************************************************************************)
(* The proof that the service keeps the safety part of ExecutorContract:   *)
(* under the mapping of RayonExecutorService, its initial states are       *)
(* initial in the contract and each of its steps is a step of the contract *)
(* or changes nothing a user of the contract can see.                      *)
(***************************************************************************)
EXTENDS RayonExecutorServiceProofs

phaseMap == [t \in TaskIds |-> PhaseOf(t)]
resultMap == [t \in TaskIds |-> ResultOf(t)]

(* The collections of the service, as the phases of the contract.          *)
LEMMA PhaseSets ==
    ASSUME StateInv
    PROVE  /\ Contract!In("Queued") = queue
           /\ Contract!In("Active") = running_tasks
           /\ Contract!In("New") = {t \in TaskIds : t >= next_task_id}
           /\ Contract!Unfinished = queue \union running_tasks \union cancelling
<1>1. /\ queue \subseteq TaskIds /\ running_tasks \subseteq TaskIds
      /\ cancelling \subseteq TaskIds
      /\ next_task_id \in Nat /\ TaskIds \subseteq Nat
  BY ConfigAssumption DEF StateInv, StateTypeOK, TaskIds
<1>2. /\ Contract!In("Queued") = queue
      /\ Contract!In("Active") = running_tasks
      /\ Contract!In("Withdrawn") = cancelling
      /\ Contract!In("New") = {t \in TaskIds : t >= next_task_id}
  BY <1>1, PhasesAreCollections DEF Contract!In
<1>3. QED
  BY <1>2 DEF Contract!Unfinished

(* The contract's own instance of the standard module is that module.      *)
LEMMA SameCardinality ==
    ASSUME NEW S
    PROVE  Contract!Cardinality(S) = Cardinality(S)
BY DEF Cardinality, Contract!Cardinality, IsFiniteSet, Contract!IsFiniteSet

LEMMA InitIsContractInit == Init => Contract!ContractInit
<1> SUFFICES ASSUME Init PROVE Contract!ContractInit
  OBVIOUS
<1>1. ObservedLifecycle = "Running"
  BY DEF Init, StateInit, ObservedLifecycle, IsTerminated
<1>2. \A t \in TaskIds : PhaseOf(t) = "New" /\ ResultOf(t) = "None"
  BY ConfigAssumption
  DEF Init, StateInit, PhaseOf, ResultOf, TaskIds, Terminal, Completed
<1>3. QED
  BY <1>1, <1>2 DEF Contract!ContractInit

-----------------------------------------------------------------------------
(* The steps.  What the contract sees of the methods of the state is known *)
(* from RayonExecutorServiceStateProofs; here the results are added.       *)

(* A step that leaves the collections, the lifecycle and the published     *)
(* results alone is invisible to the contract.                             *)
LEMMA InvisibleStep ==
    ASSUME StateInv, StateInv',
           UNCHANGED <<lifecycle, next_task_id, queue, running_tasks,
                       cancelling>>,
           \A t \in TaskIds : ResultOf(t)' = ResultOf(t)
    PROVE  UNCHANGED Contract!contractVars
BY UnseenStep DEF Contract!contractVars

LEMMA SubmitAccepts ==
    ASSUME ServiceInv, NEW c \in Callers, SubmitAccepted(c)
    PROVE  next_task_id \in TaskIds /\ Contract!Accept(next_task_id)
<1> DEFINE n == next_task_id
<1>0. StateInv /\ admit /\ n \in Nat
  BY ConfigAssumption DEF ServiceInv, SubmitAccepted, StateInv, StateTypeOK
<1>1. /\ n \in TaskIds
      /\ ObservedLifecycle = "Running" /\ ObservedLifecycle' = "Running"
      /\ \A t \in TaskIds : PhaseOf(t)' = IF t = n THEN "Queued" ELSE PhaseOf(t)
  BY <1>0, AdmitSeen
<1>2. Contract!First(Contract!In("New"), n)
  BY <1>0, <1>1, PhaseSets DEF Contract!First, TaskIds
<1>3. Cardinality(Contract!Unfinished) < TaskCapacity
  BY <1>0, AdmitSeen, OccupiedCounts, PhaseSets
<1>4. \A t \in TaskIds : ResultOf(t)' = ResultOf(t)
  <2>1. /\ slot \in [TaskIds -> Terminal \union {"Unsubmitted", "Pending", "Running"}]
        /\ slot[n] = "Unsubmitted"
    BY <1>0, <1>1 DEF ServiceInv, TypeOK, SlotsFollowOwners
  <2>2. QED
    BY <2>1 DEF SubmitAccepted, SetSlot, ResultOf, Terminal, Completed
<1>5. phaseMap' = [phaseMap EXCEPT ![n] = "Queued"] /\ resultMap' = resultMap
  BY <1>1, <1>4 DEF phaseMap, resultMap
<1>6. QED
  BY <1>1, <1>2, <1>3, <1>5, SameCardinality
  DEF Contract!Accept, phaseMap, resultMap

LEMMA TakeBegins ==
    ASSUME ServiceInv, ServiceInv', NEW w \in Workers, NEW t \in TaskIds,
           TakeNext(w, t)
    PROVE  Contract!Begin(t)
<1>0. /\ StateInv /\ StateInv' /\ IdleReservation /\ take_next(t)
      /\ slot' = slot
  BY SpawnedIsIdleReservation DEF ServiceInv, TakeNext, PickUp
<1>1. /\ Oldest(t) /\ Cardinality(running_tasks) < NumThreads
      /\ ObservedLifecycle' = ObservedLifecycle
      /\ \A u \in TaskIds : PhaseOf(u)' = IF u = t THEN "Active" ELSE PhaseOf(u)
  BY <1>0, TakeSeen
<1>2. /\ Contract!First(Contract!In("Queued"), t)
      /\ Cardinality(Contract!In("Active")) < NumThreads
  BY <1>0, <1>1, PhaseSets DEF Oldest, Contract!First
<1>3. phaseMap' = [phaseMap EXCEPT ![t] = "Active"] /\ resultMap' = resultMap
  BY <1>0, <1>1 DEF phaseMap, resultMap, ResultOf
<1>4. QED
  BY <1>1, <1>2, <1>3, SameCardinality
  DEF Contract!Begin, phaseMap, resultMap

(* The holder of a task whose slot is not final publishes its result.      *)
LEMMA HolderPublishes ==
    ASSUME ServiceInv, NEW t \in TaskIds, NEW s, slot[t] \notin Terminal,
           \/ t \in running_tasks /\ s \in Completed
           \/ t \in cancelling /\ s = "Cancelled",
           UNCHANGED stateVars, slot' = [slot EXCEPT ![t] = s]
    PROVE  Contract!Publish(t, s)
<1>0. /\ StateInv
      /\ slot \in [TaskIds -> Terminal \union {"Unsubmitted", "Pending", "Running"}]
  BY DEF ServiceInv, TypeOK
<1>1. /\ t \in running_tasks => PhaseOf(t) = "Active"
      /\ t \in cancelling => PhaseOf(t) = "Withdrawn"
  BY <1>0, PhasesAreCollections
<1>2. /\ \A u \in TaskIds : PhaseOf(u)' = PhaseOf(u)
      /\ ObservedLifecycle' = ObservedLifecycle
  BY DEF PhaseOf, stateVars, ObservedLifecycle, IsTerminated, occupied
<1>3. /\ ResultOf(t) = "None"
      /\ \A u \in TaskIds : ResultOf(u)' = IF u = t THEN s ELSE ResultOf(u)
  BY <1>0 DEF ResultOf, Terminal, Completed
<1>4. QED
  BY <1>1, <1>2, <1>3 DEF Contract!Publish, Completed

LEMMA CompletePublishes ==
    ASSUME ServiceInv, NEW w \in Workers, NEW s \in Completed, Complete(w, s)
    PROVE  job[w] \in TaskIds /\ Contract!Publish(job[w], s)
<1>1. /\ job[w] \in running_tasks /\ job[w] \in TaskIds
      /\ slot[job[w]] \notin Terminal
  BY OwnersApart
  DEF Complete, Holding, ServiceInv, SlotsFollowOwners, Terminal, Completed
<1>2. UNCHANGED stateVars /\ slot' = [slot EXCEPT ![job[w]] = s]
  BY DEF Complete, SetSlot
<1>3. QED
  BY <1>1, <1>2, HolderPublishes

LEMMA CancelPublishes ==
    ASSUME ServiceInv, NEW c \in Callers, CancelJob(c)
    PROVE  \E t \in TaskIds : Contract!Publish(t, "Cancelled")
<1>1. PICK t \in owned[c] : FirstOwned(c, t) /\ cancel_unstarted(t)
  BY DEF CancelJob
<1>2. t \in cancelling /\ t \in TaskIds /\ slot[t] = "Pending"
  BY OwnersApart DEF CancelJob, ServiceInv, SlotsFollowOwners
<1>3. UNCHANGED stateVars /\ slot' = [slot EXCEPT ![t] = "Cancelled"]
  BY <1>1, <1>2 DEF CancelJob, cancel_unstarted
<1>4. QED
  BY <1>2, <1>3, HolderPublishes DEF Terminal, Completed

LEMMA CancelWithdraws ==
    ASSUME ServiceInv, ServiceInv', NEW c \in Callers, NEW t \in TaskIds,
           CancelOwned(c, t)
    PROVE  Contract!Withdraw(t)
<1>0. /\ StateInv /\ StateInv' /\ cancel_pending_task(t)
      /\ slot' = slot
  BY DEF ServiceInv, CancelOwned
<1>1. /\ t \in queue
      /\ ObservedLifecycle' = ObservedLifecycle
      /\ \A u \in TaskIds :
            PhaseOf(u)' = IF u = t THEN "Withdrawn" ELSE PhaseOf(u)
  BY <1>0, CancelSeen
<1>2. PhaseOf(t) = "Queued"
  BY <1>0, <1>1, PhasesAreCollections
<1>3. phaseMap' = [phaseMap EXCEPT ![t] = "Withdrawn"] /\ resultMap' = resultMap
  BY <1>0, <1>1 DEF phaseMap, resultMap, ResultOf
<1>4. QED
  BY <1>1, <1>2, <1>3 DEF Contract!Withdraw, phaseMap, resultMap

(* A task with its final result leaves `running_tasks` or `cancelling`.    *)
LEMMA LeavingRetires ==
    ASSUME ServiceInv, ServiceInv', NEW t \in running_tasks \union cancelling,
           slot[t] \in Terminal,
           running_tasks' = running_tasks \ {t},
           cancelling' = cancelling \ {t},
           UNCHANGED <<lifecycle, next_task_id, queue, slot>>
    PROVE  t \in TaskIds /\ Contract!Retire(t)
<1>0. StateInv /\ StateInv'
  BY DEF ServiceInv
<1>1. /\ t \in TaskIds /\ PhaseOf(t) \in {"Active", "Withdrawn"}
      /\ \A u \in TaskIds : PhaseOf(u)' = IF u = t THEN "Done" ELSE PhaseOf(u)
  BY <1>0, FinishSeen
<1>2. ObservedLifecycle' =
         IF ObservedLifecycle # "Running" /\ Contract!Unfinished = {t}
         THEN "Terminated" ELSE ObservedLifecycle
  BY <1>0, FinishSeen, PhaseSets
<1>3. ResultOf(t) # "None"
  BY DEF ResultOf, Terminal, Completed
<1>4. phaseMap' = [phaseMap EXCEPT ![t] = "Done"] /\ resultMap' = resultMap
  BY <1>1 DEF phaseMap, resultMap, ResultOf
<1>5. QED
  BY <1>1, <1>2, <1>3, <1>4 DEF Contract!Retire, phaseMap, resultMap

LEMMA FinishRetires ==
    ASSUME ServiceInv, ServiceInv', NEW w \in Workers, FinishRunning(w)
    PROVE  \E t \in TaskIds : Contract!Retire(t)
<1>1. /\ job[w] \in running_tasks /\ job[w] \notin cancelling
      /\ slot[job[w]] \in Terminal
  BY OwnersApart
  DEF FinishRunning, Holding, Terminal, ServiceInv, SlotsFollowOwners
<1>2. /\ running_tasks' = running_tasks \ {job[w]}
      /\ cancelling' = cancelling \ {job[w]}
      /\ UNCHANGED <<lifecycle, next_task_id, queue, slot>>
  BY <1>1 DEF FinishRunning, finish_running
<1>3. QED
  BY <1>1, <1>2, LeavingRetires

LEMMA FinishCancellingRetires ==
    ASSUME ServiceInv, ServiceInv', NEW c \in Callers, NEW t \in TaskIds,
           FinishCancelling(c, t)
    PROVE  Contract!Retire(t)
<1>1. /\ t \in cancelling /\ t \notin running_tasks
      /\ slot[t] \in Terminal
  <2>1. /\ pc[c] = "cleaning" /\ FirstOwned(c, t) /\ t \in owned[c]
    BY DEF FinishCancelling, FirstOwned
  <2>2. slot[t] = "Cancelled"
    BY <2>1 DEF ServiceInv, SlotsFollowOwners
  <2>3. QED
    BY <2>1, <2>2, OwnersApart DEF Terminal
<1>2. /\ running_tasks' = running_tasks \ {t}
      /\ cancelling' = cancelling \ {t}
      /\ UNCHANGED <<lifecycle, next_task_id, queue, slot>>
  BY <1>1 DEF FinishCancelling, finish_cancelling
<1>3. QED
  BY <1>1, <1>2, LeavingRetires

LEMMA ShutdownCloses ==
    ASSUME ServiceInv, ServiceInv', NEW c \in Callers, Shutdown(c)
    PROVE  Contract!CloseGracefully \/ UNCHANGED Contract!contractVars
<1>0. StateInv /\ StateInv' /\ shutdown /\ slot' = slot
  BY DEF ServiceInv, Shutdown
<1>1. phaseMap' = phaseMap /\ resultMap' = resultMap
  BY <1>0, ShutdownSeen DEF phaseMap, resultMap, ResultOf
<1>2. CASE ObservedLifecycle = "Running"
  <2>1. ObservedLifecycle' = IF Contract!Unfinished = {}
                             THEN "Terminated" ELSE "ShuttingDown"
    BY <1>0, <1>2, ShutdownSeen, PhaseSets
  <2>2. QED
    BY <1>1, <1>2, <2>1 DEF Contract!CloseGracefully, phaseMap, resultMap
<1>3. CASE ObservedLifecycle # "Running"
  BY <1>0, <1>1, <1>3, ShutdownSeen
  DEF Contract!contractVars, phaseMap, resultMap
<1>4. QED
  BY <1>2, <1>3

LEMMA StopCloses ==
    ASSUME ServiceInv, ServiceInv', NEW c \in Callers, Stop(c)
    PROVE  Contract!CloseNow \/ UNCHANGED Contract!contractVars
<1>0. StateInv /\ StateInv' /\ stop /\ slot' = slot
  BY DEF ServiceInv, Stop
<1>1. /\ phaseMap' = [u \in TaskIds |-> IF phaseMap[u] = "Queued"
                                      THEN "Withdrawn" ELSE phaseMap[u]]
      /\ resultMap' = resultMap
  BY <1>0, StopSeen DEF phaseMap, resultMap, ResultOf
<1>2. CASE ObservedLifecycle # "Terminated"
  <2>1. ObservedLifecycle \in {"Running", "ShuttingDown", "Stopping"}
    BY <1>0, <1>2, StopSeen
  <2>2. ObservedLifecycle' = IF Contract!Unfinished = {}
                             THEN "Terminated" ELSE "Stopping"
    BY <1>0, StopSeen, PhaseSets
  <2>3. QED
    BY <1>1, <2>1, <2>2 DEF Contract!CloseNow, phaseMap, resultMap
<1>3. CASE ObservedLifecycle = "Terminated"
  <2>1. phaseMap' = phaseMap
    BY <1>0, <1>3, StopSeen DEF phaseMap
  <2>2. QED
    BY <1>0, <1>1, <1>3, <2>1, StopSeen
    DEF Contract!contractVars, phaseMap, resultMap
<1>4. QED
  BY <1>2, <1>3

(* The steps between two holds of the mutex that publish nothing.          *)
LEMMA QuietCalls ==
    ASSUME ServiceInv, ServiceInv', NEW c \in Callers,
           \/ SubmitRefused(c) \/ Wait(c) \/ Dispatch(c) \/ ReturnHandle(c)
           \/ \E t \in TaskIds : \/ CancelInProgress(c, t)
                                 \/ CancelAbsent(c, t, "absent")
                                 \/ CancelAbsent(c, t, "absent_endpoint")
           \/ AnswerFromStatus(c) \/ EndpointRunning(c) \/ EndpointNotRunning(c)
           \/ EndpointCancel(c)
    PROVE  UNCHANGED Contract!contractVars
<1>1. UNCHANGED <<lifecycle, next_task_id, queue, running_tasks, cancelling>>
  BY DEF SubmitRefused, Wait, WaitObserves, WaitParks, WaitExpires,
         WaitTimesOut, Dispatch, ReturnHandle, CancelInProgress, CancelAbsent,
         AnswerFromStatus, EndpointRunning, EndpointNotRunning,
         EndpointCancel, stateVars, park, unpark_on_timeout
<1>2. slot' = slot
  BY FallbackChangesNoSlot
  DEF SubmitRefused, Wait, WaitObserves, WaitParks, WaitExpires,
      WaitTimesOut, Dispatch, ReturnHandle, CancelInProgress, CancelAbsent,
      AnswerFromStatus, EndpointRunning, EndpointNotRunning
<1>3. \A t \in TaskIds : ResultOf(t)' = ResultOf(t)
  BY <1>2 DEF ResultOf
<1>4. QED
  BY <1>1, <1>3, InvisibleStep DEF ServiceInv

LEMMA QuietWork ==
    ASSUME ServiceInv, ServiceInv', NEW w \in Workers,
           TakeNothing(w) \/ Start(w) \/ SpawnSuccessor(w)
    PROVE  UNCHANGED Contract!contractVars
<1>1. UNCHANGED <<lifecycle, next_task_id, queue, running_tasks, cancelling>>
  BY DEF TakeNothing, take_nothing, Start, SpawnSuccessor, stateVars
<1>2. \A t \in TaskIds : ResultOf(t)' = ResultOf(t)
  <2>1. slot \in [TaskIds -> Terminal \union {"Unsubmitted", "Pending", "Running"}]
    BY DEF ServiceInv, TypeOK
  <2>2. QED
    BY <2>1 DEF TakeNothing, Start, SpawnSuccessor, SetSlot, ResultOf,
                Terminal, Completed
<1>3. QED
  BY <1>1, <1>2, InvisibleStep DEF ServiceInv

LEMMA StepsAreContractSteps ==
    ASSUME ServiceInv, ServiceInv', [Next]_vars
    PROVE  [Contract!ContractNext]_(Contract!contractVars)
<1> USE DEF Contract!ContractNext
<1>1. ASSUME NEW c \in Callers, Call(c) \/ Wait(c) \/ Continue(c)
      PROVE  [Contract!ContractNext]_(Contract!contractVars)
  <2>1. CASE SubmitAccepted(c)
    BY <2>1, SubmitAccepts
  <2>2. CASE \E t \in TaskIds : CancelOwned(c, t)
    BY <2>2, CancelWithdraws
  <2>3. CASE CancelJob(c)
    <3>1. "Cancelled" \in Contract!Results \ {"None"}
      BY DEF Contract!Results
    <3>2. QED
      BY <2>3, <3>1, CancelPublishes
  <2>4. CASE \E t \in TaskIds : FinishCancelling(c, t)
    BY <2>4, FinishCancellingRetires
  <2>5. CASE Shutdown(c) \/ Stop(c)
    BY <2>5, ShutdownCloses, StopCloses
  <2>6. QED
    BY <1>1, <2>1, <2>2, <2>3, <2>4, <2>5, QuietCalls DEF Call, Continue
<1>2. ASSUME NEW w \in Workers, Work(w)
      PROVE  [Contract!ContractNext]_(Contract!contractVars)
  <2>1. CASE \E t \in TaskIds : TakeNext(w, t)
    BY <2>1, TakeBegins
  <2>2. CASE \E s \in Completed : Complete(w, s)
    <3>1. Completed \subseteq Contract!Results \ {"None"}
      BY DEF Completed, Contract!Results
    <3>2. QED
      BY <2>2, <3>1, CompletePublishes
  <2>3. CASE FinishRunning(w)
    BY <2>3, FinishRetires
  <2>4. QED
    BY <1>2, <2>1, <2>2, <2>3, QuietWork DEF Work
<1>3. CASE UNCHANGED vars
  <2>1. UNCHANGED <<lifecycle, next_task_id, queue, running_tasks, cancelling>>
    BY <1>3 DEF vars, stateVars
  <2>2. \A t \in TaskIds : ResultOf(t)' = ResultOf(t)
    BY <1>3 DEF vars, ResultOf
  <2>3. QED
    BY <2>1, <2>2, InvisibleStep DEF ServiceInv
<1>4. QED
  BY <1>1, <1>2, <1>3 DEF Next

-----------------------------------------------------------------------------
(* Every behaviour of the service is one the contract allows: tasks start  *)
(* in the order of their admission and within the pool's size, a result is *)
(* published once and before its capacity returns, a stop withdraws all    *)
(* that has not begun, and the last unfinished task terminates a closed    *)
(* service.                                                                *)
THEOREM ServiceKeepsContract == Spec => Contract!ContractSafety
<1>1. Init => Contract!ContractInit
  BY InitIsContractInit
<1>2. ServiceInv /\ ServiceInv' /\ [Next]_vars
        => [Contract!ContractNext]_(Contract!contractVars)
  BY StepsAreContractSteps
<1>3. QED
  BY <1>1, <1>2, ServiceInvariant, PTL DEF Spec, Contract!ContractSafety

-----------------------------------------------------------------------------
(* What module ExecutorContractProofs proves of the contract, for the      *)
(* tasks of this service.                                                  *)
Kept == INSTANCE ExecutorContractProofs
    WITH Tasks <- TaskIds,
         Detached <- {},
         observed <- ObservedLifecycle,
         phase <- [t \in TaskIds |-> PhaseOf(t)],
         result <- [t \in TaskIds |-> ResultOf(t)]

LEMMA ContractFitsService == Kept!ContractConstants
<1>1. IsFiniteSet(TaskIds)
  BY ConfigAssumption, FS_Interval DEF TaskIds
<1>2. Kept!IsFiniteSet(TaskIds)
  BY <1>1 DEF IsFiniteSet, Kept!IsFiniteSet
<1>3. QED
  BY <1>2, ConfigAssumption DEF Kept!ContractConstants, TaskIds

(* It is the contract of module RayonExecutorService, name by name.        *)
LEMMA SameWords ==
    /\ Kept!contractVars = Contract!contractVars
    /\ \A p : Kept!In(p) = Contract!In(p)
    /\ Kept!Unfinished = Contract!Unfinished
    /\ \A S, t : Kept!First(S, t) <=> Contract!First(S, t)
    /\ \A S : Kept!Cardinality(S) = Contract!Cardinality(S)
    /\ Kept!Results = Contract!Results
<1>1. /\ Kept!contractVars = Contract!contractVars
      /\ \A p : Kept!In(p) = Contract!In(p)
      /\ \A S, t : Kept!First(S, t) <=> Contract!First(S, t)
      /\ Kept!Results = Contract!Results
  BY DEF Kept!contractVars, Contract!contractVars, Kept!In, Contract!In,
         Kept!First, Contract!First, Kept!Results, Contract!Results
<1>2. Kept!Unfinished = Contract!Unfinished
  BY <1>1 DEF Kept!Unfinished, Contract!Unfinished
<1>3. \A S : Kept!Cardinality(S) = Contract!Cardinality(S)
  BY DEF Kept!Cardinality, Contract!Cardinality, Kept!IsFiniteSet,
         Contract!IsFiniteSet
<1>4. QED
  BY <1>1, <1>2, <1>3

LEMMA SameSteps ==
    /\ Contract!ContractInit => Kept!ContractInit
    /\ Contract!ContractNext => Kept!ContractNext
<1>1. Contract!ContractInit => Kept!ContractInit
  BY DEF Contract!ContractInit, Kept!ContractInit
<1>2. ASSUME NEW t \in TaskIds
      PROVE  /\ Contract!Accept(t) => Kept!Accept(t)
             /\ Contract!Begin(t) => Kept!Begin(t)
  BY SameWords
  DEF Contract!Accept, Kept!Accept, Contract!Begin, Kept!Begin
<1>3. ASSUME NEW t \in TaskIds
      PROVE  /\ Contract!Retire(t) => Kept!Retire(t)
             /\ Contract!Withdraw(t) => Kept!Withdraw(t)
             /\ \A s : Contract!Publish(t, s) => Kept!Publish(t, s)
  BY SameWords
  DEF Contract!Retire, Kept!Retire, Contract!Withdraw, Kept!Withdraw,
      Contract!Publish, Kept!Publish
<1>4. /\ Contract!CloseGracefully => Kept!CloseGracefully
      /\ Contract!CloseNow => Kept!CloseNow
  BY SameWords
  DEF Contract!CloseGracefully, Kept!CloseGracefully, Contract!CloseNow,
      Kept!CloseNow
<1>5. QED
  BY <1>1, <1>2, <1>3, <1>4, SameWords
  DEF Contract!ContractNext, Kept!ContractNext

(* What the contract promises, the service keeps: for every pool, capacity *)
(* and set of callers no more tasks are unfinished than the capacity       *)
(* admits or active than there are threads, no task overtakes a queued one *)
(* of a smaller id, a result is what happened to its task, and the service *)
(* is terminated exactly when it is closed with nothing unfinished.  A     *)
(* result stays, a closed service accepts nothing and stays closed, a stop *)
(* is not softened and after termination no task moves.                    *)
THEOREM ServiceKeepsPromises ==
    Spec => []Kept!Promises /\ Kept!NothingRevoked
<1>1. /\ Kept!ContractSafety => []Kept!Promises
      /\ Kept!ContractSafety => Kept!NothingRevoked
  BY Kept!ContractKeepsPromises, Kept!ContractRevokesNothing,
     ContractFitsService
<1>2. /\ Contract!ContractInit => Kept!ContractInit
      /\ [Contract!ContractNext]_(Contract!contractVars)
            => [Kept!ContractNext]_(Kept!contractVars)
  BY SameSteps DEF Contract!contractVars, Kept!contractVars
<1>3. Contract!ContractSafety => Kept!ContractSafety
  BY <1>2, PTL DEF Contract!ContractSafety, Kept!ContractSafety
<1>4. QED
  BY <1>1, <1>3, ServiceKeepsContract, PTL
=============================================================================
