----------------------- MODULE ExecutorContractProofs -----------------------
(***************************************************************************)
(* What the contract promises, proved of the contract alone, for every     *)
(* finite set of tasks, whichever of them are detached, every capacity and *)
(* every number of threads.  Whatever keeps the contract keeps these       *)
(* promises; module RayonExecutorServiceRefinement draws the conclusion    *)
(* for the service.                                                        *)
(***************************************************************************)
EXTENDS ExecutorContract, FiniteSetTheorems, TLAPS

(* Tasks are ordered by their ids.                                         *)
ContractConstants ==
    /\ Tasks \in SUBSET Nat /\ IsFiniteSet(Tasks)
    /\ TaskCapacity \in Nat
    /\ NumThreads \in Nat

-----------------------------------------------------------------------------
LEMMA TasksCounted ==
    ASSUME ContractConstants, NEW S \in SUBSET Tasks
    PROVE  /\ IsFiniteSet(S) /\ Cardinality(S) \in Nat
           /\ \A R \in SUBSET S : Cardinality(R) <= Cardinality(S)
           /\ \A t \in Tasks : Cardinality(S \union {t}) <= Cardinality(S) + 1
<1>1. IsFiniteSet(S)
  BY FS_Subset DEF ContractConstants
<1>2. Cardinality(S) \in Nat
  BY <1>1, FS_CardinalityType
<1>3. \A t \in Tasks :
         Cardinality(S \union {t}) = IF t \in S THEN Cardinality(S)
                                                ELSE Cardinality(S) + 1
  BY <1>1, FS_AddElement
<1>4. \A t \in Tasks : Cardinality(S \union {t}) <= Cardinality(S) + 1
  BY <1>2, <1>3
<1>5. \A R \in SUBSET S : Cardinality(R) <= Cardinality(S)
  BY <1>1, FS_Subset
<1>6. QED
  BY <1>1, <1>2, <1>4, <1>5

LEMMA InIsTasks ==
    /\ \A p : In(p) \in SUBSET Tasks
    /\ Unfinished \in SUBSET Tasks
BY DEF In, Unfinished

(* Moving one task to another phase.                                       *)
LEMMA OneTaskMoves ==
    ASSUME ContractTypeOK, NEW t \in Tasks, NEW there \in Phases,
           phase' = [phase EXCEPT ![t] = there]
    PROVE  /\ phase' \in [Tasks -> Phases]
           /\ \A u \in Tasks : phase'[u] = IF u = t THEN there ELSE phase[u]
BY DEF ContractTypeOK

-----------------------------------------------------------------------------
(* One lemma for each of the promises.                                     *)
LEMMA TypesKept ==
    ASSUME ContractTypeOK, [ContractNext]_contractVars
    PROVE  ContractTypeOK'
<1>1. ASSUME NEW t \in Tasks,
             \/ Accept(t) \/ Begin(t) \/ Retire(t) \/ Withdraw(t)
             \/ \E outcome \in Results \ {"None"} : Publish(t, outcome)
      PROVE  ContractTypeOK'
  BY <1>1
  DEF ContractTypeOK, Accept, Begin, Retire, Withdraw, Publish, Phases
<1>2. CASE CloseGracefully \/ CloseNow
  BY <1>2 DEF CloseGracefully, CloseNow, ContractTypeOK, Phases
<1>3. CASE UNCHANGED contractVars
  BY <1>3 DEF contractVars, ContractTypeOK
<1>4. QED
  BY <1>1, <1>2, <1>3 DEF ContractNext

(* Only an acceptance adds an unfinished task and only a beginning an      *)
(* active one.                                                             *)
LEMMA BoundsKept ==
    ASSUME ContractConstants, ContractTypeOK, WithinBounds,
           [ContractNext]_contractVars
    PROVE  WithinBounds'
<1>0. /\ TaskCapacity \in Nat /\ NumThreads \in Nat
      /\ Cardinality(Unfinished) \in Nat /\ Cardinality(In("Active")) \in Nat
      /\ Unfinished' \in SUBSET Tasks /\ In("Active")' \in SUBSET Tasks
      /\ Cardinality(Unfinished') \in Nat
      /\ Cardinality(In("Active")') \in Nat
  BY InIsTasks, TasksCounted DEF ContractConstants, In, Unfinished
<1>1. ASSUME NEW t \in Tasks, Accept(t)
      PROVE  WithinBounds'
  <2>1. \A u \in Tasks : phase'[u] = IF u = t THEN "Queued" ELSE phase[u]
    BY <1>1, OneTaskMoves DEF Accept, Phases
  <2>2. Unfinished' = Unfinished \union {t} /\ In("Active")' \subseteq In("Active")
    BY <2>1 DEF Unfinished, In
  <2>3. Cardinality(Unfinished') <= Cardinality(Unfinished) + 1
    BY <2>2, InIsTasks, TasksCounted
  <2>4. Cardinality(In("Active")') <= Cardinality(In("Active"))
    BY <2>2, InIsTasks, TasksCounted
  <2>5. QED
    BY <1>0, <1>1, <2>3, <2>4 DEF WithinBounds, Accept
<1>2. ASSUME NEW t \in Tasks, Begin(t)
      PROVE  WithinBounds'
  <2>1. \A u \in Tasks : phase'[u] = IF u = t THEN "Active" ELSE phase[u]
    BY <1>2, OneTaskMoves DEF Begin, Phases
  <2>2. phase[t] = "Queued"
    BY <1>2 DEF Begin, First, In
  <2>3. Unfinished' = Unfinished /\ In("Active")' = In("Active") \union {t}
    BY <2>1, <2>2 DEF Unfinished, In
  <2>4. Cardinality(In("Active")') <= Cardinality(In("Active")) + 1
    BY <2>3, InIsTasks, TasksCounted
  <2>5. QED
    BY <1>0, <1>2, <2>3, <2>4 DEF WithinBounds, Begin
<1>3. ASSUME Unfinished' \subseteq Unfinished, In("Active")' \subseteq In("Active")
      PROVE  WithinBounds'
  <2>1. /\ Cardinality(Unfinished') <= Cardinality(Unfinished)
        /\ Cardinality(In("Active")') <= Cardinality(In("Active"))
    BY <1>3, InIsTasks, TasksCounted
  <2>2. QED
    BY <1>0, <2>1 DEF WithinBounds
<1>4. ASSUME NEW t \in Tasks,
             \/ Retire(t) \/ Withdraw(t)
             \/ \E outcome \in Results \ {"None"} : Publish(t, outcome)
      PROVE  WithinBounds'
  <2>1. CASE Retire(t)
    <3>1. \A u \in Tasks : phase'[u] = IF u = t THEN "Done" ELSE phase[u]
      BY <2>1, OneTaskMoves DEF Retire, Phases
    <3>2. QED
      BY <3>1, <1>3 DEF Unfinished, In
  <2>2. CASE Withdraw(t)
    <3>1. \A u \in Tasks : phase'[u] = IF u = t THEN "Withdrawn" ELSE phase[u]
      BY <2>2, OneTaskMoves DEF Withdraw, Phases
    <3>2. QED
      BY <2>2, <3>1, <1>3 DEF Withdraw, Unfinished, In
  <2>3. CASE \E outcome \in Results \ {"None"} : Publish(t, outcome)
    BY <2>3, <1>3 DEF Publish, Unfinished, In
  <2>4. QED
    BY <1>4, <2>1, <2>2, <2>3
<1>5. CASE CloseGracefully \/ CloseNow \/ UNCHANGED contractVars
  <2>1. \A u \in Tasks :
           phase'[u] # phase[u] => phase[u] = "Queued" /\ phase'[u] = "Withdrawn"
    BY <1>5 DEF CloseGracefully, CloseNow, contractVars
  <2>2. QED
    BY <2>1, <1>3 DEF Unfinished, In
<1>6. QED
  BY <1>1, <1>2, <1>4, <1>5 DEF ContractNext

(* What happens to the phase and the result of one task in a step.         *)
LEMMA TaskSteps ==
    ASSUME ContractTypeOK, [ContractNext]_contractVars, NEW t \in Tasks
    PROVE  \/ phase'[t] = phase[t] /\ result'[t] = result[t]
           \/ /\ phase[t] = "New" /\ phase'[t] = "Queued"
              /\ result'[t] = result[t]
              /\ First(In("New"), t)
           \/ /\ phase[t] = "Queued" /\ phase'[t] = "Active"
              /\ result'[t] = result[t]
              /\ First(In("Queued"), t)
           \/ /\ phase[t] = "Queued" /\ phase'[t] = "Withdrawn"
              /\ result'[t] = result[t]
           \/ /\ phase[t] \in {"Active", "Withdrawn"} /\ phase'[t] = "Done"
              /\ result'[t] = result[t]
              /\ result[t] # "None" \/ t \in Detached
           \/ /\ phase'[t] = phase[t]
              /\ result[t] = "None"
              /\ \/ phase[t] = "Active" /\ result'[t] \in Ran
                 \/ phase[t] = "Withdrawn" /\ result'[t] = "Cancelled"
<1>1. ASSUME NEW u \in Tasks, Accept(u) \/ Begin(u)
      PROVE  /\ phase'[t] = IF t # u THEN phase[t]
                            ELSE IF Accept(u) THEN "Queued" ELSE "Active"
             /\ result' = result
             /\ Accept(u) => phase[u] = "New" /\ First(In("New"), u)
             /\ Begin(u) => phase[u] = "Queued" /\ First(In("Queued"), u)
  BY <1>1 DEF ContractTypeOK, Accept, Begin, First, In
<1>2. ASSUME NEW u \in Tasks, Retire(u) \/ Withdraw(u)
      PROVE  /\ phase'[t] = IF t # u THEN phase[t]
                            ELSE IF Retire(u) THEN "Done" ELSE "Withdrawn"
             /\ result' = result
  BY <1>2 DEF ContractTypeOK, Retire, Withdraw
<1>3. ASSUME NEW u \in Tasks, NEW outcome \in Results \ {"None"},
             Publish(u, outcome)
      PROVE  /\ phase' = phase
             /\ result'[t] = IF t = u THEN outcome ELSE result[t]
  BY <1>3 DEF ContractTypeOK, Publish
<1>4. ASSUME NEW u \in Tasks,
             \/ Accept(u) \/ Begin(u) \/ Retire(u) \/ Withdraw(u)
             \/ \E outcome \in Results \ {"None"} : Publish(u, outcome),
             t # u
      PROVE  phase'[t] = phase[t] /\ result'[t] = result[t]
  BY <1>1, <1>2, <1>3, <1>4
<1>5. ASSUME Retire(t) \/ Withdraw(t)
      PROVE  \/ /\ phase[t] = "Queued" /\ phase'[t] = "Withdrawn"
                /\ result'[t] = result[t]
             \/ /\ phase[t] \in {"Active", "Withdrawn"} /\ phase'[t] = "Done"
                /\ result'[t] = result[t]
                /\ result[t] # "None" \/ t \in Detached
  BY <1>5 DEF ContractTypeOK, Retire, Withdraw
<1>6. ASSUME NEW outcome \in Results \ {"None"}, Publish(t, outcome)
      PROVE  /\ phase'[t] = phase[t]
             /\ result[t] = "None"
             /\ \/ phase[t] = "Active" /\ result'[t] \in Ran
                \/ phase[t] = "Withdrawn" /\ result'[t] = "Cancelled"
  BY <1>3, <1>6 DEF Publish, Ran
<1>7. CASE CloseGracefully \/ CloseNow \/ UNCHANGED contractVars
  BY <1>7 DEF CloseGracefully, CloseNow, contractVars
<1>8. QED
  BY <1>1, <1>4, <1>5, <1>6, <1>7 DEF ContractNext

(* A task is accepted after all earlier ones and begins when no earlier    *)
(* one is queued.                                                          *)
LEMMA OrderKept ==
    ASSUME ContractConstants, ContractTypeOK, ResultsAreTrue,
           FirstComeFirstServed, [ContractNext]_contractVars
    PROVE  FirstComeFirstServed'
<1> SUFFICES ASSUME NEW t \in Tasks, NEW u \in Tasks, t < u
             PROVE  /\ phase'[t] = "New" => phase'[u] = "New"
                    /\ phase'[t] = "Queued" =>
                          phase'[u] # "Active" /\ result'[u] \notin Ran
  BY DEF FirstComeFirstServed
<1>0. t \in Nat /\ u \in Nat /\ ~(u <= t)
  BY DEF ContractConstants
<1>1. /\ First(In("New"), u) => phase[t] # "New"
      /\ First(In("Queued"), u) => phase[t] # "Queued"
  BY <1>0 DEF First, In
<1>2. /\ phase[t] = "New" => phase[u] = "New"
      /\ phase[t] = "Queued" => phase[u] # "Active" /\ result[u] \notin Ran
  BY DEF FirstComeFirstServed
<1>3. phase[u] = "New" => result[u] \notin Ran
  BY DEF ResultsAreTrue
<1>4. phase'[t] = "New" => phase[t] = "New"
  BY TaskSteps
<1>5. phase'[t] = "New" => phase'[u] = "New"
  BY <1>1, <1>2, <1>4, TaskSteps
<1>6. ASSUME phase'[t] = "Queued"
      PROVE  phase'[u] # "Active" /\ result'[u] \notin Ran
  <2>1. phase[t] \in {"New", "Queued"}
    BY <1>6, TaskSteps
  <2>2. phase[u] # "Active" /\ result[u] \notin Ran
    BY <1>2, <1>3, <2>1
  <2>3. ~(phase[u] = "Queued" /\ First(In("Queued"), u))
    BY <1>1, <1>2, <2>1
  <2>4. QED
    BY <2>2, <2>3, TaskSteps DEF Ran
<1>7. QED
  BY <1>5, <1>6

LEMMA ResultsKept ==
    ASSUME ContractTypeOK, ResultsAreTrue, [ContractNext]_contractVars
    PROVE  ResultsAreTrue'
<1> SUFFICES ASSUME NEW t \in Tasks
             PROVE  /\ result'[t] \in Ran => phase'[t] \in {"Active", "Done"}
                    /\ result'[t] = "Cancelled" =>
                          phase'[t] \in {"Withdrawn", "Done"}
                    /\ phase'[t] = "Done" =>
                          result'[t] # "None" \/ t \in Detached
  BY DEF ResultsAreTrue
<1>1. /\ result[t] \in Ran => phase[t] \in {"Active", "Done"}
      /\ result[t] = "Cancelled" => phase[t] \in {"Withdrawn", "Done"}
      /\ phase[t] = "Done" => result[t] # "None" \/ t \in Detached
  BY DEF ResultsAreTrue
<1>2. "Cancelled" \notin Ran /\ "None" \notin Ran
  BY DEF Ran
<1>3. QED
  BY <1>1, <1>2, TaskSteps

(* A service terminates when it is closed with nothing unfinished or the   *)
(* last unfinished task is retired, and once closed it accepts nothing.    *)
LEMMA EndKept ==
    ASSUME ContractTypeOK, EndIsExact, [ContractNext]_contractVars
    PROVE  EndIsExact'
<1>1. ASSUME NEW t \in Tasks, Accept(t) \/ Begin(t)
      PROVE  EndIsExact'
  <2>1. CASE Accept(t)
    BY <2>1 DEF Accept, EndIsExact
  <2>2. CASE Begin(t)
    <3>1. \A u \in Tasks : phase'[u] = IF u = t THEN "Active" ELSE phase[u]
      BY <2>2, OneTaskMoves DEF Begin, Phases
    <3>2. phase[t] = "Queued" /\ observed' = observed
      BY <2>2 DEF Begin, First, In
    <3>3. Unfinished' = Unfinished /\ In("Queued")' \subseteq In("Queued")
      BY <3>1, <3>2 DEF Unfinished, In
    <3>4. QED
      BY <3>2, <3>3 DEF EndIsExact
  <2>3. QED
    BY <1>1, <2>1, <2>2
<1>2. ASSUME NEW t \in Tasks, Withdraw(t)
      PROVE  EndIsExact'
  <2>1. \A u \in Tasks : phase'[u] = IF u = t THEN "Withdrawn" ELSE phase[u]
    BY <1>2, OneTaskMoves DEF Withdraw, Phases
  <2>2. Unfinished' = Unfinished /\ In("Queued")' \subseteq In("Queued")
    BY <1>2, <2>1 DEF Withdraw, Unfinished, In
  <2>3. QED
    BY <1>2, <2>2 DEF Withdraw, EndIsExact
<1>3. ASSUME NEW t \in Tasks, Retire(t)
      PROVE  EndIsExact'
  <2>1. \A u \in Tasks : phase'[u] = IF u = t THEN "Done" ELSE phase[u]
    BY <1>3, OneTaskMoves DEF Retire, Phases
  <2>2. /\ Unfinished' = Unfinished \ {t} /\ t \in Unfinished
        /\ In("Queued")' = In("Queued")
    BY <1>3, <2>1 DEF Retire, Unfinished, In
  <2>3. Unfinished' = {} <=> Unfinished = {t}
    BY <2>2
  <2>4. QED
    BY <1>3, <2>2, <2>3 DEF Retire, EndIsExact
<1>4. ASSUME NEW t \in Tasks, NEW outcome \in Results, Publish(t, outcome)
      PROVE  EndIsExact'
  BY <1>4 DEF Publish, EndIsExact, Unfinished, In
<1>5. CASE CloseGracefully
  BY <1>5 DEF CloseGracefully, EndIsExact, Unfinished, In
<1>6. CASE CloseNow
  <2>1. \A u \in Tasks :
           phase'[u] = IF phase[u] = "Queued" THEN "Withdrawn" ELSE phase[u]
    BY <1>6 DEF CloseNow
  <2>2. Unfinished' = Unfinished /\ In("Queued")' = {}
    BY <2>1 DEF Unfinished, In
  <2>3. QED
    BY <1>6, <2>2 DEF CloseNow, EndIsExact
<1>7. CASE UNCHANGED contractVars
  BY <1>7 DEF contractVars, EndIsExact, Unfinished, In
<1>8. QED
  BY <1>1, <1>2, <1>3, <1>4, <1>5, <1>6, <1>7 DEF ContractNext

-----------------------------------------------------------------------------
LEMMA PromisesHoldAtFirst ==
    ASSUME ContractConstants, ContractInit
    PROVE  Promises
<1>1. ContractTypeOK
  BY DEF ContractInit, ContractTypeOK, Phases, Results
<1>2. Unfinished = {} /\ In("Active") = {}
  BY DEF ContractInit, Unfinished, In
<1>3. WithinBounds
  BY <1>2, FS_EmptySet DEF WithinBounds, ContractConstants
<1>4. FirstComeFirstServed /\ ResultsAreTrue /\ EndIsExact
  BY DEF ContractInit, FirstComeFirstServed, ResultsAreTrue, EndIsExact, Ran
<1>5. QED
  BY <1>1, <1>3, <1>4 DEF Promises

LEMMA PromisesKept ==
    ASSUME ContractConstants, Promises, [ContractNext]_contractVars
    PROVE  Promises'
BY TypesKept, BoundsKept, OrderKept, ResultsKept, EndKept DEF Promises

(* Whatever keeps the contract never has more unfinished tasks than its    *)
(* capacity or more active ones than its threads, serves first come first, *)
(* reports nothing of a task that did not happen to it, and is terminated  *)
(* exactly when it is closed with nothing unfinished.                      *)
THEOREM ContractKeepsPromises ==
    ASSUME ContractConstants
    PROVE  ContractSafety => []Promises
<1>1. ContractInit => Promises
  BY PromisesHoldAtFirst
<1>2. Promises /\ [ContractNext]_contractVars => Promises'
  BY PromisesKept
<1>3. QED
  BY <1>1, <1>2, PTL DEF ContractSafety

-----------------------------------------------------------------------------
(* Nothing new is accepted once the service is closed, and nothing is left *)
(* to move once it is terminated.                                          *)
LEMMA StepRevokesNothing ==
    ASSUME Promises, [ContractNext]_contractVars
    PROVE  /\ \A t \in Tasks : result[t] # "None" => result'[t] = result[t]
           /\ observed # "Running" =>
                 observed' # "Running" /\ In("New")' = In("New")
           /\ observed = "Stopping" => observed' \in {"Stopping", "Terminated"}
           /\ observed = "Terminated" =>
                 observed' = "Terminated" /\ phase' = phase
<1>0. ContractTypeOK /\ EndIsExact
  BY DEF Promises
<1>1. \A t \in Tasks : result[t] # "None" => result'[t] = result[t]
  BY <1>0, TaskSteps
<1>2. ASSUME observed # "Running"
      PROVE  /\ In("New")' = In("New") /\ observed' # "Running"
             /\ observed = "Stopping" => observed' \in {"Stopping", "Terminated"}
  <2>1. /\ observed' # "Running"
        /\ observed = "Stopping" => observed' \in {"Stopping", "Terminated"}
        /\ \A t \in Tasks : ~Accept(t)
    BY <1>2 DEF ContractNext, Accept, Begin, Publish, Retire, Withdraw,
                CloseGracefully, CloseNow, contractVars
  <2>2. \A t \in Tasks : phase'[t] = "New" <=> phase[t] = "New"
    <3> SUFFICES ASSUME NEW t \in Tasks
                 PROVE  phase'[t] = "New" <=> phase[t] = "New"
      OBVIOUS
    <3>1. phase'[t] = "New" => phase[t] = "New"
      BY <1>0, TaskSteps
    <3>2. ASSUME phase[t] = "New", phase'[t] # "New"
          PROVE  FALSE
      <4>1. PICK u \in Tasks : Begin(u) \/ Retire(u) \/ Withdraw(u) \/ CloseNow
        BY <2>1, <3>2
        DEF ContractNext, Publish, CloseGracefully, contractVars
      <4>2. QED
        BY <1>0, <3>2, <4>1
        DEF Begin, Retire, Withdraw, CloseNow, First, In, ContractTypeOK
    <3>3. QED
      BY <3>1, <3>2
  <2>3. QED
    BY <2>1, <2>2 DEF In
<1>3. ASSUME observed = "Terminated"
      PROVE  observed' = "Terminated" /\ phase' = phase
  <2>1. Unfinished = {}
    BY <1>0, <1>3 DEF EndIsExact
  <2>2. \A t \in Tasks : phase[t] \notin {"Queued", "Active", "Withdrawn"}
    BY <2>1 DEF Unfinished, In
  <2>3. \A t \in Tasks : ~Accept(t) /\ ~Begin(t) /\ ~Retire(t) /\ ~Withdraw(t)
    BY <1>3, <2>2 DEF Accept, Begin, Retire, Withdraw, First, In
  <2>4. QED
    BY <1>3, <2>3
    DEF ContractNext, Publish, CloseGracefully, CloseNow, contractVars
<1>4. QED
  BY <1>1, <1>2, <1>3

(* A result once reported stays, a closed service stays closed and accepts *)
(* nothing, a stop is not softened, and after termination no task moves.   *)
THEOREM ContractRevokesNothing ==
    ASSUME ContractConstants
    PROVE  ContractSafety => NothingRevoked
<1>1. Promises /\ [ContractNext]_contractVars =>
         [/\ \A t \in Tasks : result[t] # "None" => result'[t] = result[t]
          /\ observed # "Running" =>
                observed' # "Running" /\ In("New")' = In("New")
          /\ observed = "Stopping" => observed' \in {"Stopping", "Terminated"}
          /\ observed = "Terminated" =>
                observed' = "Terminated" /\ phase' = phase]_contractVars
  BY StepRevokesNothing
<1>2. QED
  BY <1>1, ContractKeepsPromises, PTL DEF ContractSafety, NothingRevoked
=============================================================================
