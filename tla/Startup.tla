------------------------------- MODULE Startup -------------------------------
(***************************************************************************)
(* From main() to a running job system: ReadInput turns the command line   *)
(* into a desired thread count, the constructor of JobSystem turns it into *)
(* thread_count, and its loop appends one queue to the vector "queues" and *)
(* starts one worker at a time, while the workers already started read the *)
(* same vector in GetQueue without any lock.                               *)
(***************************************************************************)
EXTENDS Naturals

CONSTANTS UIntMax,       \* the largest unsigned int
          HardwareValues,\* what std::thread::hardware_concurrency() may return
          Arguments      \* the numbers the user may type as argv[1]

ASSUME StartupAssumption ==
    /\ UIntMax \in Nat /\ UIntMax >= 3
    /\ HardwareValues \subseteq 0 .. UIntMax
    /\ Arguments \subseteq 0 .. UIntMax

VARIABLES
    phase,             \* what main_runner does next, or how the process ended
    inputThreadCount,  \* the value ReadInput returned
    hardware,          \* the value hardware_concurrency() returned
    thread_count,      \* the constructor's local variable
    size, capacity,    \* queues.size() and queues.capacity()
    storage,           \* which allocation holds the vector's elements
    started,           \* how many workers were started; their ids are below it
    seen               \* the allocation each worker has loaded inside GetQueue

counts == <<inputThreadCount, hardware, thread_count>>
vector == <<size, capacity, storage>>
vars == <<phase, counts, vector, started, seen>>

Constructing == {"push", "spawn", "running"}
Phases == {"read", "construct", "exit1", "terminated"} \cup Constructing

Nothing == 0          \* allocations are numbered from 1; 0 is "none"
WorkerIds == 0 .. UIntMax
Wild == UIntMax + 2   \* a worker that has read an element of a freed array

-----------------------------------------------------------------------------
(* The constructor's choice of a thread count.                             *)

AtLeast(a, b) == IF a < b THEN b ELSE a
AtMost(a, b) == IF a < b THEN a ELSE b

UnsignedDecrement(n) == IF n = 0 THEN UIntMax ELSE n - 1

(* Mutation: no thread is left to main_runner. *)
AllHardwareThreads(hw) == AtLeast(1, hw)
AvailableThreads(hw) == AtLeast(1, UnsignedDecrement(hw))
OptimalThreads(hw) == AtMost(AvailableThreads(hw), 3)

ChooseThreadCount(hw, desired) ==
    IF desired > 0 /\ desired <= AvailableThreads(hw) THEN desired ELSE OptimalThreads(hw)

(* The capacity of a vector that has to grow (MSVC: by half). *)
Grown(cap, n) == AtLeast(cap + cap \div 2, n + 1)

Init ==
    /\ phase = "read"
    /\ inputThreadCount = 0 /\ hardware = 0 /\ thread_count = 0
    /\ size = 0 /\ capacity = 0 /\ storage = Nothing
    /\ started = 0
    /\ seen = [w \in WorkerIds |-> Nothing]

(* ReadInput: no argument, a positive int, a number that is not positive   *)
(* or text that is no number (both exit(1)), or a number that is no int:   *)
(* nobody catches the std::out_of_range of std::stoi.                      *)
IntMax == UIntMax \div 2

ReadInput ==
    /\ phase = "read"
    /\ \/ phase' = "construct" /\ inputThreadCount' = 0
       \/ phase' = "construct" /\ inputThreadCount' \in Arguments \cap 1 .. IntMax
       \/ phase' = "exit1" /\ UNCHANGED inputThreadCount
       \/ /\ \E n \in Arguments : n > IntMax
          /\ phase' = "terminated" /\ UNCHANGED inputThreadCount
    /\ UNCHANGED <<hardware, thread_count, vector, started, seen>>

Construct ==
    /\ phase = "construct"
    /\ hardware' \in HardwareValues
    /\ thread_count' = ChooseThreadCount(hardware', inputThreadCount)
    /\ phase' = "push"
    /\ UNCHANGED <<inputThreadCount, vector, started, seen>>

(* Mutation: one turn of the loop too many. *)
MoreWorkersInclusive == started <= thread_count
MoreWorkers == started < thread_count

(* queues.push_back(queue): a full vector moves to a new array and frees   *)
(* the old one.                                                            *)
PushQueue ==
    /\ phase = "push" /\ MoreWorkers
    /\ size' = size + 1
    /\ IF size < capacity
       THEN UNCHANGED <<capacity, storage>>
       ELSE capacity' = Grown(capacity, size) /\ storage' = storage + 1
    /\ phase' = "spawn"
    /\ UNCHANGED <<counts, started, seen>>

SpawnWorker ==
    /\ phase = "spawn"
    /\ started' = started + 1
    /\ phase' = "push"
    /\ UNCHANGED <<counts, vector, seen>>

ConstructorReturns ==
    /\ phase = "push" /\ ~MoreWorkers
    /\ phase' = "running"
    /\ UNCHANGED <<counts, vector, started, seen>>

(* GetQueue: queues[thread_id] loads the address of the array, then the    *)
(* element.                                                                *)
LoadArray(w) ==
    /\ phase \in Constructing
    /\ w < started /\ seen[w] = Nothing
    /\ seen' = [seen EXCEPT ![w] = storage]
    /\ UNCHANGED <<phase, counts, vector, started>>

LoadElement(w) ==
    /\ phase \in Constructing
    /\ seen[w] \notin {Nothing, Wild}
    /\ seen' = [seen EXCEPT ![w] = IF seen[w] = storage THEN Nothing ELSE Wild]
    /\ UNCHANGED <<phase, counts, vector, started>>

Next ==
    \/ ReadInput \/ Construct \/ PushQueue \/ SpawnWorker \/ ConstructorReturns
    \/ \E w \in WorkerIds : LoadArray(w) \/ LoadElement(w)

Spec == Init /\ [][Next]_vars

-----------------------------------------------------------------------------
(* Values every variable may take; the loop never goes past thread_count.  *)
TypeOK ==
    /\ phase \in Phases
    /\ inputThreadCount \in 0 .. UIntMax
    /\ hardware \in 0 .. UIntMax
    /\ thread_count \in 0 .. UIntMax
    /\ size \in 0 .. thread_count
    /\ capacity \in Nat
    /\ storage \in 0 .. thread_count
    /\ started \in 0 .. thread_count
    /\ seen \in [WorkerIds -> 0 .. Wild]

(* The number of workers is at least one, is what the user asked for if    *)
(* the hardware has that many threads to spare, and is never more than it  *)
(* has to spare whenever it reports any (JobSystem.cpp:13-65).             *)
ThreadCountFits ==
    phase \in Constructing =>
        /\ thread_count >= 1
        /\ hardware > 0 => thread_count <= AtLeast(1, hardware - 1)
        /\ inputThreadCount \in 1 .. AvailableThreads(hardware) =>
              thread_count = inputThreadCount

(* Every thread_id is an index of the vector from the moment its worker    *)
(* starts, and in the end there is one queue for each of thread_count      *)
(* workers: GetQueue never indexes out of range.                           *)
IndexInRange ==
    /\ started <= size /\ size <= capacity
    /\ phase = "running" => started = thread_count /\ size = thread_count

(* A lone worker never meets a vector that grows: the race of GetQueue     *)
(* with push_back needs a second worker.                                   *)
LoneWorkerReadsSafely ==
    thread_count = 1 => \A w \in WorkerIds : seen[w] \in {Nothing, storage}

-----------------------------------------------------------------------------
(* What comments in the code say and the code does not keep.               *)

(* "using max function because hardware_concurrency might return 0"        *)
(* (JobSystem.cpp:14): unknown hardware counts as one available thread.    *)
UnknownHardwareIsOneThread ==
    phase = "push" /\ hardware = 0 => thread_count = 1

(* "capped by the maximum amount of hardware threads" (main.cpp:42): a     *)
(* desired count above the available threads gives the available threads.  *)
DesiredCountIsCapped ==
    phase = "push" /\ hardware > 0 /\ inputThreadCount > AvailableThreads(hardware)
        => thread_count = AvailableThreads(hardware)
=============================================================================
