--------------------- MODULE RayonExecutorServiceBuilder ---------------------
(***************************************************************************)
(* The builder: its setters in any order, build on a clone of it at any    *)
(* time, and the services built so far.  The other modules assume of their *)
(* constants what holds here of every service that is built.  The thread   *)
(* name prefix is left out.                                                *)
(***************************************************************************)
EXTENDS Naturals

CONSTANTS
    Values,                 \* what setters are called with
    AvailableParallelism,   \* 0 if it cannot be detected
    MaxPoolThreads          \* rayon's max_num_threads()

ASSUME BuilderAssumption ==
    /\ Values \subseteq Nat
    /\ AvailableParallelism \in Nat
    /\ MaxPoolThreads \in Nat \ {0}

VARIABLES
    num_threads,
    stack_size,      \* a set with at most one element
    task_capacity,
    services,        \* the services that were built
    error            \* what the last build refused, or "none"

builderVars == <<num_threads, stack_size, task_capacity>>
vars == <<builderVars, services, error>>

DefaultCapacity == 1024

default_rayon_thread_count == IF AvailableParallelism = 0 THEN 1 ELSE AvailableParallelism

Errors == {"ZeroThreadCount", "ZeroStackSize", "ZeroTaskCapacity", "BuildFailed"}

(* Threads of a Rayon pool: more than the maximum are not created, and     *)
(* zero means Rayon's own default.                                         *)
PoolThreads(n) ==
    IF n = 0 THEN default_rayon_thread_count
    ELSE IF n <= MaxPoolThreads THEN n ELSE MaxPoolThreads

-----------------------------------------------------------------------------
set_num_threads(n) ==
    /\ num_threads' = n
    /\ UNCHANGED <<stack_size, task_capacity, services, error>>

set_stack_size(n) ==
    /\ stack_size' = {n}
    /\ UNCHANGED <<num_threads, task_capacity, services, error>>

set_task_capacity(n) ==
    /\ task_capacity' = n
    /\ UNCHANGED <<num_threads, stack_size, services, error>>

Check_threads_in_rayon ==
    CASE 0 \in stack_size -> "ZeroStackSize"
      [] task_capacity = 0 /\ 0 \notin stack_size -> "ZeroTaskCapacity"
      [] OTHER -> "none"

(* The checks of build, in its order.                                      *)
Check ==
    IF num_threads = 0 THEN "ZeroThreadCount"
    ELSE IF 0 \in stack_size THEN "ZeroStackSize"
    ELSE IF task_capacity = 0 THEN "ZeroTaskCapacity"
    ELSE "none"

BuildRefused ==
    /\ Check # "none"
    /\ error' = Check
    /\ UNCHANGED <<builderVars, services>>

(* Rayon may fail to start the threads.                                    *)
BuildFailed ==
    /\ Check = "none"
    /\ error' = "BuildFailed"
    /\ UNCHANGED <<builderVars, services>>

(* A service has one thread count, the one its pool reports: the state     *)
(* reads it from the pool that was built.                                  *)
BuildOk ==
    /\ Check = "none"
    /\ error' = "none"
    /\ services' = services \union
         {[asked |-> num_threads, pool |-> PoolThreads(num_threads),
           capacity |-> task_capacity]}
    /\ UNCHANGED builderVars

-----------------------------------------------------------------------------
Init ==
    /\ num_threads = default_rayon_thread_count
    /\ stack_size = {}
    /\ task_capacity = DefaultCapacity
    /\ services = {}
    /\ error = "none"

Next ==
    \/ \E n \in Values :
          set_num_threads(n) \/ set_stack_size(n) \/ set_task_capacity(n)
    \/ BuildRefused \/ BuildFailed \/ BuildOk

Spec == Init /\ [][Next]_vars

-----------------------------------------------------------------------------
(* Nobody gets a pool whose size was not asked for: a zero never reaches   *)
(* Rayon, which would take its own default (build).                        *)
NoUnaskedPool ==
    \A s \in services : s.pool \in 1 .. s.asked
=============================================================================
