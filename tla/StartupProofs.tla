---------------------------- MODULE StartupProofs ----------------------------
(* Startup, for every width of unsigned int, machine and command line. *)
EXTENDS Startup, TLAPS

USE StartupAssumption

(* The loop counters agree with the place in the loop, no allocation is    *)
(* seen before it exists, and a worker that has not started has seen none. *)
LoopInv ==
    /\ phase \notin Constructing => size = 0 /\ started = 0
    /\ phase = "push" => size = started
    /\ phase = "spawn" => size = started + 1
    /\ phase = "running" => size = thread_count /\ started = thread_count
    /\ storage <= size /\ size <= capacity
    /\ capacity > 0 => storage > 0
    /\ phase \in Constructing => thread_count = ChooseThreadCount(hardware, inputThreadCount)
    /\ \A w \in WorkerIds : w >= started => seen[w] = Nothing

StartupInv == TypeOK /\ LoopInv /\ LoneWorkerReadsSafely

(* The chosen thread count is at least one and fits unsigned int. *)
LEMMA ThreadCountType ==
    ASSUME NEW hw \in 0 .. UIntMax, NEW desired \in 0 .. UIntMax
    PROVE  /\ ChooseThreadCount(hw, desired) \in 1 .. UIntMax
           /\ hw > 0 => ChooseThreadCount(hw, desired) <= AtLeast(1, hw - 1)
           /\ desired \in 1 .. AvailableThreads(hw) =>
                 ChooseThreadCount(hw, desired) = desired
  BY DEF ChooseThreadCount, OptimalThreads, AvailableThreads, AtLeast, AtMost,
         UnsignedDecrement

(* A vector never grows to less than it must hold. *)
LEMMA GrownIsEnough ==
    ASSUME NEW cap \in Nat, NEW n \in Nat
    PROVE  Grown(cap, n) \in Nat /\ Grown(cap, n) >= n + 1
  BY DEF Grown, AtLeast

(* The first state satisfies the invariant. *)
LEMMA InitInv == Init => StartupInv
  BY DEF Init, StartupInv, TypeOK, LoopInv, LoneWorkerReadsSafely, Phases, Constructing,
         Nothing, Wild, WorkerIds

(* Every step of ReadInput, the constructor and the workers keeps it. *)
LEMMA NextInv == StartupInv /\ [Next]_vars => StartupInv'
<1> SUFFICES ASSUME StartupInv, [Next]_vars PROVE StartupInv'
  OBVIOUS
<1> USE DEF StartupInv, TypeOK, LoopInv, LoneWorkerReadsSafely, Phases, Constructing,
            Nothing, Wild, WorkerIds, counts, vector
<1>1. CASE ReadInput
  BY <1>1 DEF ReadInput, IntMax
<1>2. CASE Construct
  <2>1. thread_count' \in 1 .. UIntMax /\ hardware' \in 0 .. UIntMax
    BY <1>2, ThreadCountType DEF Construct
  <2> QED
    BY <1>2, <2>1 DEF Construct
<1>3. CASE PushQueue
  <2>1. capacity' \in Nat /\ size' <= capacity'
    <3>1. capacity \in Nat /\ size \in Nat
      OBVIOUS
    <3>2. Grown(capacity, size) \in Nat /\ Grown(capacity, size) >= size + 1
      BY <3>1, GrownIsEnough
    <3> QED
      BY <1>3, <3>1, <3>2 DEF PushQueue
  <2>2. storage' \in 0 .. thread_count /\ storage' <= size' /\ storage' > 0
    BY <1>3 DEF PushQueue, MoreWorkers
  <2> QED
    BY <1>3, <2>1, <2>2 DEF PushQueue, MoreWorkers
<1>4. CASE SpawnWorker
  BY <1>4 DEF SpawnWorker
<1>5. CASE ConstructorReturns
  BY <1>5 DEF ConstructorReturns, MoreWorkers
<1>6. ASSUME NEW w \in WorkerIds, LoadArray(w) PROVE StartupInv'
  BY <1>6 DEF LoadArray
<1>7. ASSUME NEW w \in WorkerIds, LoadElement(w) PROVE StartupInv'
  BY <1>7 DEF LoadElement
<1>8. CASE UNCHANGED vars
  BY <1>8 DEF vars
<1> QED
  BY <1>1, <1>2, <1>3, <1>4, <1>5, <1>6, <1>7, <1>8 DEF Next

(* The invariant of the start-up holds in every reachable state. *)
THEOREM StartupInvariant == Spec => []StartupInv
  BY InitInv, NextInv, PTL DEF Spec

(* ThreadCountFits in every reachable state: the constructor never starts  *)
(* zero workers, nor more than the hardware has to spare if it reports any *)
(* (JobSystem.cpp:13-65).                                                  *)
THEOREM ThreadCountAlwaysFits == Spec => []ThreadCountFits
<1>1. StartupInv => ThreadCountFits
  <2>1. SUFFICES ASSUME StartupInv, phase \in Constructing
                 PROVE  LET chosen == ChooseThreadCount(hardware, inputThreadCount)
                        IN  /\ chosen >= 1
                            /\ hardware > 0 => chosen <= AtLeast(1, hardware - 1)
                            /\ inputThreadCount \in 1 .. AvailableThreads(hardware) =>
                                  chosen = inputThreadCount
    BY DEF StartupInv, LoopInv, ThreadCountFits
  <2>2. hardware \in 0 .. UIntMax /\ inputThreadCount \in 0 .. UIntMax
    BY <2>1 DEF StartupInv, TypeOK
  <2> QED
    BY <2>2, ThreadCountType
<1> QED
  BY <1>1, StartupInvariant, PTL

(* IndexInRange in every reachable state: each thread_id is an index of    *)
(* the vector of queues.                                                   *)
THEOREM IndexAlwaysInRange == Spec => []IndexInRange
<1>1. StartupInv => IndexInRange
  BY DEF StartupInv, TypeOK, LoopInv, IndexInRange, Phases, Constructing
<1> QED
  BY <1>1, StartupInvariant, PTL

(* With one worker GetQueue never reads a freed array: the growth of the   *)
(* vector happens before the worker starts.                                *)
THEOREM LoneWorkerAlwaysReadsSafely == Spec => []LoneWorkerReadsSafely
<1>1. StartupInv => LoneWorkerReadsSafely
  BY DEF StartupInv
<1> QED
  BY <1>1, StartupInvariant, PTL
=============================================================================
