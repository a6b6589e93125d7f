------------------ MODULE RayonExecutorServiceBuilderProofs ------------------
(* What the other modules assume of their constants holds of every service *)
(* that is built, for all values the setters may be called with.           *)
EXTENDS RayonExecutorServiceBuilder, TLAPS

Service == [asked : Nat, pool : Nat, capacity : Nat]

BuilderInv ==
    /\ num_threads \in Nat
    /\ task_capacity \in Nat
    /\ services \subseteq Service
    /\ \A s \in services : s.capacity > 0 /\ s.pool \in 1 .. s.asked

LEMMA PoolSize ==
    ASSUME NEW n \in Nat, n # 0
    PROVE  PoolThreads(n) \in 1 .. n
BY BuilderAssumption DEF PoolThreads

LEMMA BuildKeepsInv ==
    ASSUME BuilderInv, BuildOk
    PROVE  BuilderInv'
<1>1. num_threads # 0 /\ task_capacity # 0
  BY DEF BuildOk, Check
<1>2. PoolThreads(num_threads) \in 1 .. num_threads
  BY <1>1, PoolSize DEF BuilderInv
<1> DEFINE new == [asked |-> num_threads, pool |-> PoolThreads(num_threads),
                   capacity |-> task_capacity]
<1>3. new \in Service /\ new.capacity > 0 /\ new.pool \in 1 .. new.asked
  BY <1>1, <1>2 DEF BuilderInv, Service
<1>4. services' = services \union {new}
  BY DEF BuildOk
<1> HIDE DEF new
<1>5. QED
  BY <1>3, <1>4 DEF BuilderInv, BuildOk, builderVars

THEOREM BuilderInvariant == Spec => []BuilderInv
<1>1. Init => BuilderInv
  BY BuilderAssumption
  DEF Init, BuilderInv, default_rayon_thread_count, DefaultCapacity
<1>2. BuilderInv /\ [Next]_vars => BuilderInv'
  <2> SUFFICES ASSUME BuilderInv, [Next]_vars PROVE BuilderInv'
    OBVIOUS
  <2>1. CASE BuildOk
    BY <2>1, BuildKeepsInv
  <2>2. CASE BuildRefused \/ BuildFailed \/ UNCHANGED vars
    BY <2>2 DEF BuildRefused, BuildFailed, vars, builderVars, BuilderInv
  <2>3. ASSUME NEW n \in Values,
               set_num_threads(n) \/ set_stack_size(n) \/ set_task_capacity(n)
        PROVE  BuilderInv'
    BY <2>3, BuilderAssumption
    DEF set_num_threads, set_stack_size, set_task_capacity, BuilderInv
  <2>4. QED
    BY <2>1, <2>2, <2>3 DEF Next
<1>3. QED
  BY <1>1, <1>2, PTL DEF Spec

(* No pool is larger than was asked for, and none is empty (build).        *)
THEOREM PoolsAreAskedFor == Spec => []NoUnaskedPool
<1>1. BuilderInv => NoUnaskedPool
  BY DEF BuilderInv, NoUnaskedPool
<1>2. QED
  BY <1>1, BuilderInvariant, PTL
=============================================================================
