-------------------------- MODULE ExecutorContract --------------------------
(***************************************************************************)
(* What a RayonExecutorService promises to its users, without its queue,   *)
(* counters, closures or threads: the life of each accepted task, the      *)
(* capacity, the order in which tasks start, and the lifecycle a caller    *)
(* observes.  Module RayonExecutorService is checked to implement it, and  *)
(* module JobPanics to keep its safety whatever user code does.            *)
(***************************************************************************)
EXTENDS Naturals, FiniteSets

CONSTANTS
    Tasks,         \* ids of the tasks that may be accepted, in order
    Detached,      \* those of them that have no handle to report a result
    TaskCapacity,  \* tasks that may be unfinished at the same time
    NumThreads     \* tasks that may be active at the same time

VARIABLES
    observed,  \* the lifecycle a caller reads
    phase,     \* where each task is
    result     \* what its handle reports

contractVars == <<observed, phase, result>>

Phases == {"New", "Queued", "Active", "Withdrawn", "Done"}
Results == {"None", "Succeeded", "Panicked", "Cancelled"}

In(p) == {t \in Tasks : phase[t] = p}
Unfinished == In("Queued") \union In("Active") \union In("Withdrawn")

First(S, t) == t \in S /\ \A u \in S : t <= u

-----------------------------------------------------------------------------
ContractInit ==
    /\ observed = "Running"
    /\ phase = [t \in Tasks |-> "New"]
    /\ result = [t \in Tasks |-> "None"]

(* Tasks are accepted in the order of their ids, while there is room.      *)
Accept(t) ==
    /\ observed = "Running"
    /\ First(In("New"), t)
    /\ Cardinality(Unfinished) < TaskCapacity
    /\ phase' = [phase EXCEPT ![t] = "Queued"]
    /\ UNCHANGED <<observed, result>>

(* The oldest queued task starts when a thread is free.                    *)
Begin(t) ==
    /\ First(In("Queued"), t)
    /\ Cardinality(In("Active")) < NumThreads
    /\ phase' = [phase EXCEPT ![t] = "Active"]
    /\ UNCHANGED <<observed, result>>

(* A result is published once, before the task gives its capacity back.    *)
Publish(t, outcome) ==
    /\ result[t] = "None"
    /\ \/ phase[t] = "Active" /\ outcome \in {"Succeeded", "Panicked"}
       \/ phase[t] = "Withdrawn" /\ outcome = "Cancelled"
    /\ result' = [result EXCEPT ![t] = outcome]
    /\ UNCHANGED <<observed, phase>>

(* The last unfinished task of a closed service terminates it.             *)
Retire(t) ==
    /\ phase[t] \in {"Active", "Withdrawn"}
    /\ result[t] # "None" \/ t \in Detached
    /\ phase' = [phase EXCEPT ![t] = "Done"]
    /\ observed' = IF observed # "Running" /\ Unfinished = {t}
                   THEN "Terminated" ELSE observed
    /\ UNCHANGED result

(* Only a task that has not begun can be withdrawn.                        *)
Withdraw(t) ==
    /\ phase[t] = "Queued"
    /\ phase' = [phase EXCEPT ![t] = "Withdrawn"]
    /\ UNCHANGED <<observed, result>>

CloseGracefully ==
    /\ observed = "Running"
    /\ observed' = IF Unfinished = {} THEN "Terminated" ELSE "ShuttingDown"
    /\ UNCHANGED <<phase, result>>

(* A stop withdraws everything that has not begun, at once.                *)
CloseNow ==
    /\ observed \in {"Running", "ShuttingDown", "Stopping"}
    /\ observed' = IF Unfinished = {} THEN "Terminated" ELSE "Stopping"
    /\ phase' = [t \in Tasks |->
                    IF phase[t] = "Queued" THEN "Withdrawn" ELSE phase[t]]
    /\ UNCHANGED result

ContractNext ==
    \/ \E t \in Tasks :
          \/ Accept(t)
          \/ Begin(t)
          \/ \E outcome \in Results \ {"None"} : Publish(t, outcome)
          \/ Retire(t)
          \/ Withdraw(t)
    \/ CloseGracefully
    \/ CloseNow

(* Accepted tasks make progress; accepting and closing are up to the user. *)
Progress(t) ==
    Begin(t) \/ Retire(t) \/ \E outcome \in Results \ {"None"} : Publish(t, outcome)

ContractSafety == ContractInit /\ [][ContractNext]_contractVars

ContractSpec ==
    /\ ContractSafety
    /\ \A t \in Tasks : WF_contractVars(Progress(t))

-----------------------------------------------------------------------------
(* What a user may conclude from the contract.                             *)
ContractTypeOK ==
    /\ observed \in {"Running", "ShuttingDown", "Stopping", "Terminated"}
    /\ phase \in [Tasks -> Phases]
    /\ result \in [Tasks -> Results]

(* No more tasks are unfinished than the capacity admits, or active than   *)
(* there are threads, although a stop withdraws tasks that keep their      *)
(* place until they are dropped (admit, run_one, stop).                    *)
WithinBounds ==
    /\ Cardinality(Unfinished) <= TaskCapacity
    /\ Cardinality(In("Active")) <= NumThreads

(* While a task waits in the queue no later one has begun to run.          *)
Ran == {"Succeeded", "Panicked"}

FirstComeFirstServed ==
    \A t, u \in Tasks : t < u =>
        /\ phase[t] = "New" => phase[u] = "New"
        /\ phase[t] = "Queued" => phase[u] # "Active" /\ result[u] \notin Ran

(* A result says what became of the task: one that ran was never           *)
(* withdrawn, a cancelled one never ran, and a task that has given its     *)
(* capacity back has its result, unless nobody can ask for it.             *)
ResultsAreTrue ==
    \A t \in Tasks :
        /\ result[t] \in Ran => phase[t] \in {"Active", "Done"}
        /\ result[t] = "Cancelled" => phase[t] \in {"Withdrawn", "Done"}
        /\ phase[t] = "Done" => result[t] # "None" \/ t \in Detached

(* A closed service is terminated exactly when nothing is unfinished, and  *)
(* a stopped one has nothing left that could begin.                        *)
EndIsExact ==
    /\ observed # "Running" => (observed = "Terminated" <=> Unfinished = {})
    /\ observed = "Stopping" => In("Queued") = {}

Promises ==
    ContractTypeOK /\ WithinBounds /\ FirstComeFirstServed /\ ResultsAreTrue
        /\ EndIsExact

(* What has been said is not taken back: results do not change, a closed   *)
(* service accepts nothing, does not open again or soften a stop, and      *)
(* after the end nothing moves any more.                                   *)
NothingRevoked ==
    [][/\ \A t \in Tasks : result[t] # "None" => result'[t] = result[t]
       /\ observed # "Running" => observed' # "Running" /\ In("New")' = In("New")
       /\ observed = "Stopping" => observed' \in {"Stopping", "Terminated"}
       /\ observed = "Terminated" =>
             observed' = "Terminated" /\ phase' = phase]_contractVars
=============================================================================
