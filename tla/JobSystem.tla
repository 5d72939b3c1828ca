------------------------------ MODULE JobSystem ------------------------------
(***************************************************************************)
(* The job system of JobSystem.cpp and JobQueue.cpp together with the      *)
(* "main_runner" thread of main.cpp that drives it: ThreadCount workers,   *)
(* each with a queue of its own, the reference-counted Job objects, and    *)
(* the two condition variables everybody sleeps on.                        *)
(*                                                                         *)
(* One action is one step that another thread can tell apart: one access   *)
(* to an atomic, one critical section, one notification.  The client side  *)
(* of main_runner is open: in a frame it may create any of Jobs, declare   *)
(* any dependency of MayDepend and add the jobs in any order, under the    *)
(* rule of JobSystem.h:18 (dependencies first, AddJob after).              *)
(***************************************************************************)
EXTENDS Integers, SequencesExt

CONSTANTS Jobs,         \* the Job objects a frame may create
          NullJob,      \* nullptr
          ThreadCount,  \* thread_count, computed by the constructor
          MaxDependents,\* MAX_DEPENDENT_COUNT
          MayDepend     \* pairs <<dependent, dependency>> a client may declare

ASSUME ConstantsAssumption ==
    /\ IsFiniteSet(Jobs)
    /\ NullJob \notin Jobs
    /\ ThreadCount \in Nat \ {0}
    /\ MaxDependents \in Nat \ {0}
    /\ MayDepend \subseteq Jobs \X Jobs

Workers == 0 .. ThreadCount - 1   \* thread ids, and the indices of their queues
NoQueue == -1                     \* Job::queue = nullptr

VARIABLES
    isRunning,            \* the atomic<bool> of main(), shared by everyone
    stopped,              \* JobSystem::stopped, a plain bool
    jobsToDo,             \* JobSystem::jobsToDo
    current_queue_index,  \* JobSystem::current_queue_index
    deque,                \* JobQueue::deque; the last element is the private end
    life,                 \* stage of each Job object: see Stages
    queue,                \* Job::queue
    dependencyCount,      \* Job::dependencyCount
    dependents,           \* Job::dependents[0 .. dependentCount-1]
    released,             \* the loop index of ~Job, per job being destroyed
    wpc,                  \* where each worker is
    wjob,                 \* the worker's local job pointer
    mpc,                  \* where main_runner is
    mjob,                 \* the job main_runner is adding
    wakeIndex,            \* the loop index of WakeAll
    handles,              \* the Job* locals of the current UpdateParallel call
    process               \* "up", "exited" by exit(1), "crashed" by a wild pointer

control == <<isRunning, stopped, process>>
jobVars == <<life, queue, dependencyCount, dependents, released>>
workerVars == <<wpc, wjob>>
mainLocals == <<mjob, wakeIndex, handles, current_queue_index>>
mainVars == <<mpc, mainLocals>>
vars == <<control, jobsToDo, deque, jobVars, workerVars, mainVars>>

(***************************************************************************)
(* The memory of a Job holds no object ("absent": not allocated yet, or    *)
(* returned by delete), a "live" one, or a "dying" one whose destructor is *)
(* running.                                                                *)
(***************************************************************************)
Stages == {"absent", "live", "dying"}

WorkerStates ==
    {"loop", "avail", "pred", "block", "asleep", "check", "pop1", "can1",
     "repush1", "rand", "steal", "restow", "pop2", "can2", "repush2", "exec",
     "dtor", "dtorTest", "dtorNotify", "dec", "zero", "notifyAll", "exit", "done"}

MainStates ==
    {"loop", "build", "addQueue", "addPush", "addNotify", "pred", "block",
     "asleep", "stop", "stopped", "wake", "join", "done"}

(* The worker states in which wjob points to a job the worker owns. *)
Holding == {"can1", "repush1", "restow", "can2", "repush2", "exec",
            "dtor", "dtorTest", "dtorNotify", "dec"}

Init ==
    /\ isRunning = TRUE
    /\ stopped = FALSE
    /\ jobsToDo = 0
    /\ current_queue_index = 0
    /\ deque = [q \in Workers |-> <<>>]
    /\ life = [j \in Jobs |-> "absent"]
    /\ queue = [j \in Jobs |-> NoQueue]
    /\ dependencyCount = [j \in Jobs |-> 0]
    /\ dependents = [j \in Jobs |-> <<>>]
    /\ released = [j \in Jobs |-> 0]
    /\ wpc = [w \in Workers |-> "loop"]
    /\ wjob = [w \in Workers |-> NullJob]
    /\ mpc = "loop"
    /\ mjob = NullJob
    /\ wakeIndex = 0
    /\ handles = {}
    /\ process = "up"

-----------------------------------------------------------------------------
(* Shared helpers.                                                         *)

(***************************************************************************)
(* JobQueue::mutex of queue q is held across two steps only by AddJob,     *)
(* between push_back and the end of the lock_guard.  A worker's own        *)
(* critical sections are single steps: all it does inside them is touch    *)
(* its deque, and the only thread its notify_one could wake is itself.     *)
(***************************************************************************)
Locked(q) == mpc = "addNotify" /\ current_queue_index = q

(* notify_one on the condition variable of queue q, if q is not null: only *)
(* the worker of the queue waits there.                                    *)
NotifyOne(pc, q) ==
    IF q # NoQueue /\ pc[q] = "asleep" THEN [pc EXCEPT ![q] = "pred"] ELSE pc

(* notify_all on allJobsDoneConditionalVariable: only main_runner waits. *)
NotifyMain(pc) == IF pc = "asleep" THEN "pred" ELSE pc

(* Reading the unsynchronised bool "stopped": once written, a reader may   *)
(* still see the old value.                                                *)
StoppedReads == IF stopped THEN BOOLEAN ELSE {FALSE}

(* A job main_runner has created and not yet handed to AddJob. *)
Fresh(j) == j \in handles /\ life[j] = "live" /\ queue[j] = NoQueue

(* The memory of job j with its default member values, at a given stage. *)
Place(j, stage) ==
    /\ life' = [life EXCEPT ![j] = stage]
    /\ queue' = [queue EXCEPT ![j] = NoQueue]
    /\ dependencyCount' = [dependencyCount EXCEPT ![j] = 0]
    /\ dependents' = [dependents EXCEPT ![j] = <<>>]
    /\ released' = [released EXCEPT ![j] = 0]

(* A thread of a process that is up stands at a state. *)
At(w, state) == process = "up" /\ wpc[w] = state
MainAt(state) == process = "up" /\ mpc = state

Goto(w, state) == wpc' = [wpc EXCEPT ![w] = state]

(* A step of worker w, or of main_runner, that only moves on. *)
Move(w, state) ==
    Goto(w, state) /\ UNCHANGED <<control, jobsToDo, deque, jobVars, wjob, mainVars>>
MainMove(state) ==
    mpc' = state /\ UNCHANGED <<control, jobsToDo, deque, jobVars, workerVars, mainLocals>>

-----------------------------------------------------------------------------
(* The worker thread: Worker, WaitForAvailableJobs, WaitForJob.            *)

(* Mutation: the loop runs until JoinJobs has set "stopped". *)
WorkerLoopUntilStopped(w) ==
    /\ At(w, "loop")
    /\ Move(w, IF ~stopped THEN "avail" ELSE "exit")
WorkerLoop(w) ==
    /\ At(w, "loop")
    /\ Move(w, IF isRunning THEN "avail" ELSE "exit")

WaitForAvailableJobs(w) ==
    /\ At(w, "avail")
    /\ \E s \in StoppedReads : Move(w, IF s THEN "check" ELSE "pred")

(* The predicate of WaitForJob, read without JobQueue::mutex.  Its two     *)
(* reads are one step: the deque can only have grown since isRunning was   *)
(* read, so a FALSE outcome is one that held at the first read already.    *)
WaitForJobPredicate(w) ==
    /\ At(w, "pred")
    /\ Move(w, IF ~isRunning \/ deque[w] # <<>> THEN "check" ELSE "block")

(* conditionalVariable.wait starts to block; until here a notification     *)
(* finds nobody.                                                           *)
WaitForJobBlock(w) ==
    /\ At(w, "block")
    /\ Move(w, "asleep")

WaitForJobSpurious(w) ==
    /\ At(w, "asleep")
    /\ Move(w, "pred")

CheckStopped(w) ==
    /\ At(w, "check")
    /\ \E s \in StoppedReads : Move(w, IF s THEN "loop" ELSE "pop1")

(* Mutation: a worker that leaves wakes nobody. *)
WorkerExitSilently(w) == At(w, "exit") /\ Move(w, "done")

(* Worker has left its loop: it wakes main_runner and returns. *)
WorkerExit(w) ==
    /\ At(w, "exit")
    /\ Goto(w, "done")
    /\ mpc' = NotifyMain(mpc)
    /\ UNCHANGED <<control, jobsToDo, deque, jobVars, wjob, mainLocals>>

-----------------------------------------------------------------------------
(* TryToWorkJob, called twice per round (1: before, 2: after StealJob).    *)

GetJob(w, pop, can, empty) ==
    /\ At(w, pop)
    /\ ~Locked(w)
    /\ IF deque[w] = <<>>
       THEN /\ Goto(w, empty)
            /\ UNCHANGED <<deque, wjob>>
       ELSE /\ Goto(w, can)
            /\ wjob' = [wjob EXCEPT ![w] = Last(deque[w])]
            /\ deque' = [deque EXCEPT ![w] = Front(deque[w])]
    /\ UNCHANGED <<control, jobsToDo, jobVars, mainVars>>

(* Mutation: one unresolved dependency is let through. *)
BlockedByTwo(j) == dependencyCount[j] > 1
Blocked(j) == dependencyCount[j] > 0

CanExecuteJob(w, can, repush) ==
    /\ At(w, can)
    /\ Move(w, IF Blocked(wjob[w]) THEN repush ELSE "exec")

(* Mutation: the job that cannot run yet is dropped. *)
PushAgainForgotten(w, repush, after) ==
    /\ At(w, repush)
    /\ wjob' = [wjob EXCEPT ![w] = NullJob]
    /\ Goto(w, after)
    /\ UNCHANGED <<control, jobsToDo, deque, jobVars, mainVars>>

PushAgain(w, repush, after) ==
    /\ At(w, repush)
    /\ ~Locked(w)
    /\ deque' = [deque EXCEPT ![w] = Append(deque[w], wjob[w])]
    /\ wjob' = [wjob EXCEPT ![w] = NullJob]
    /\ Goto(w, after)
    /\ UNCHANGED <<control, jobsToDo, jobVars, mainVars>>

TryToWorkJob(w) ==
    \/ GetJob(w, "pop1", "can1", "rand")
    \/ CanExecuteJob(w, "can1", "repush1")
    \/ PushAgain(w, "repush1", "rand")
    \/ GetJob(w, "pop2", "can2", "loop")
    \/ CanExecuteJob(w, "can2", "repush2")
    \/ PushAgain(w, "repush2", "loop")

-----------------------------------------------------------------------------
(* StealJob: a random index decides whether to steal, but the queue that   *)
(* is stolen from is the worker's own.                                     *)

StealFrom(w, randomIndex) ==
    /\ At(w, "rand")
    /\ Move(w, IF randomIndex # w THEN "steal" ELSE "pop2")

Steal(w) ==
    /\ At(w, "steal")
    /\ ~Locked(w)
    /\ IF deque[w] = <<>>
       THEN /\ Goto(w, "pop2")
            /\ UNCHANGED <<deque, wjob>>
       ELSE /\ Goto(w, "restow")
            /\ wjob' = [wjob EXCEPT ![w] = Head(deque[w])]
            /\ deque' = [deque EXCEPT ![w] = Tail(deque[w])]
    /\ UNCHANGED <<control, jobsToDo, jobVars, mainVars>>

(* Mutation: the stolen job is not put anywhere. *)
StealPushForgotten(w) ==
    /\ At(w, "restow")
    /\ wjob' = [wjob EXCEPT ![w] = NullJob]
    /\ Goto(w, "pop2")
    /\ UNCHANGED <<control, jobsToDo, deque, jobVars, mainVars>>

StealPush(w) ==
    /\ At(w, "restow")
    /\ ~Locked(w)
    /\ queue' = [queue EXCEPT ![wjob[w]] = w]
    /\ deque' = [deque EXCEPT ![w] = Append(deque[w], wjob[w])]
    /\ wjob' = [wjob EXCEPT ![w] = NullJob]
    /\ Goto(w, "pop2")
    /\ UNCHANGED <<control, jobsToDo, life, dependencyCount, dependents, released, mainVars>>

StealJob(w) ==
    \/ \E randomIndex \in Workers : StealFrom(w, randomIndex)
    \/ Steal(w)
    \/ StealPush(w)

-----------------------------------------------------------------------------
(* Execute and Finish.  A job function is running while wpc[w] = "exec".   *)

ExecuteReturn(w) ==
    /\ At(w, "exec")
    /\ Goto(w, "dtor")
    /\ life' = [life EXCEPT ![wjob[w]] = "dying"]
    /\ UNCHANGED <<control, jobsToDo, deque, queue, dependencyCount, dependents, released, wjob, mainVars>>

(* Mutation: the loop of ~Job stops one dependent early. *)
DependentsButOneLeft(j) == released[j] < Len(dependents[j]) - 1
DependentsLeft(j) == released[j] < Len(dependents[j])

(* dependents[i]->dependencyCount--, for the next i of the loop in ~Job. *)
DtorDecrement(w) ==
    LET j == wjob[w]
        i == released[j] + 1
        d == dependents[j][i]
    IN  /\ At(w, "dtor")
        /\ DependentsLeft(j)
        /\ dependencyCount' = [dependencyCount EXCEPT ![d] = @ - 1]
        /\ released' = [released EXCEPT ![j] = i]
        /\ Goto(w, "dtorTest")
        /\ UNCHANGED <<control, jobsToDo, deque, life, queue, dependents, wjob, mainVars>>

(* The dependent whose count the destructor decremented last. *)
LastReleased(w) == dependents[wjob[w]][released[wjob[w]]]

(* dependents[i]->dependencyCount == 0, a second access to the dependent.  *)
(* If another worker has freed it by now the value read is arbitrary.      *)
DtorTest(w) ==
    LET d == LastReleased(w)
    IN  /\ At(w, "dtorTest")
        /\ \E zero \in IF life[d] = "absent" THEN BOOLEAN ELSE {dependencyCount[d] = 0} :
              Move(w, IF zero THEN "dtorNotify" ELSE "dtor")

(* dependents[i]->queue->NotifyOne() unless the pointer is null. *)
DtorNotify(w) ==
    LET d == LastReleased(w)
    IN  /\ At(w, "dtorNotify")
        /\ life[d] # "absent"
        /\ wpc' = NotifyOne([wpc EXCEPT ![w] = "dtor"], queue[d])
        /\ UNCHANGED <<control, jobsToDo, deque, jobVars, wjob, mainVars>>

(* The same access when the dependent has been freed: its memory may read  *)
(* as any queue, as null, or as a wild pointer.                            *)
DtorNotifyFreed(w) ==
    /\ At(w, "dtorNotify")
    /\ life[LastReleased(w)] = "absent"
    /\ \/ /\ \E q \in Workers \cup {NoQueue} :
                wpc' = NotifyOne([wpc EXCEPT ![w] = "dtor"], q)
          /\ UNCHANGED process
       \/ process' = "crashed" /\ UNCHANGED wpc
    /\ UNCHANGED <<isRunning, stopped, jobsToDo, deque, jobVars, wjob, mainVars>>

(* The loop of ~Job is over and delete returns the memory: nothing of the  *)
(* object is left.                                                         *)
DtorReturn(w) ==
    LET j == wjob[w]
    IN  /\ At(w, "dtor")
        /\ ~DependentsLeft(j)
        /\ Place(j, "absent")
        /\ Goto(w, "dec")
        /\ UNCHANGED <<control, jobsToDo, deque, wjob, mainVars>>

(* Mutation: Finish does not count the job off. *)
FinishUncounted(w) ==
    /\ At(w, "dec")
    /\ wjob' = [wjob EXCEPT ![w] = NullJob]
    /\ Goto(w, "zero")
    /\ UNCHANGED <<control, jobsToDo, deque, jobVars, mainVars>>

FinishDecrement(w) ==
    /\ At(w, "dec")
    /\ jobsToDo' = jobsToDo - 1
    /\ wjob' = [wjob EXCEPT ![w] = NullJob]
    /\ Goto(w, "zero")
    /\ UNCHANGED <<control, deque, jobVars, mainVars>>

(* Mutation: Finish notifies before the last job, not after it. *)
OneJobLeft == jobsToDo = 1
NoJobLeft == jobsToDo = 0

FinishTest(w) ==
    /\ At(w, "zero")
    /\ Move(w, IF NoJobLeft THEN "notifyAll" ELSE "loop")

FinishNotify(w) ==
    /\ At(w, "notifyAll")
    /\ Goto(w, "loop")
    /\ mpc' = NotifyMain(mpc)
    /\ UNCHANGED <<control, jobsToDo, deque, jobVars, wjob, mainLocals>>

Finish(w) ==
    \/ DtorDecrement(w) \/ DtorTest(w) \/ DtorNotify(w) \/ DtorNotifyFreed(w)
    \/ DtorReturn(w) \/ FinishDecrement(w) \/ FinishTest(w) \/ FinishNotify(w)

-----------------------------------------------------------------------------
(* main_runner: the frame loop, and the client calls of UpdateParallel.    *)

FrameLoop ==
    /\ MainAt("loop")
    /\ IF isRunning
       THEN mpc' = "build" /\ handles' = {}
       ELSE mpc' = "stop" /\ UNCHANGED handles
    /\ UNCHANGED <<control, jobsToDo, deque, jobVars, workerVars, mjob, wakeIndex, current_queue_index>>

CreateJob(j) ==
    /\ MainAt("build")
    /\ j \notin handles
    /\ handles' = handles \cup {j}
    /\ Place(j, "live")
    /\ UNCHANGED <<control, jobsToDo, deque, workerVars, mpc, mjob, wakeIndex, current_queue_index>>

(* AddDependency; a full dependents array ends the process with exit(1). *)
AddDependency(dependent, dependency) ==
    /\ MainAt("build")
    /\ Fresh(dependent) /\ Fresh(dependency)
    /\ IF Len(dependents[dependency]) > MaxDependents - 1
       THEN process' = "exited" /\ UNCHANGED <<dependencyCount, dependents>>
       ELSE /\ dependents' = [dependents EXCEPT ![dependency] = Append(@, dependent)]
            /\ dependencyCount' = [dependencyCount EXCEPT ![dependent] = @ + 1]
            /\ UNCHANGED process
    /\ UNCHANGED <<isRunning, stopped, jobsToDo, deque, life, queue, released, workerVars, mainVars>>

AddJobCount(j) ==
    /\ MainAt("build")
    /\ Fresh(j)
    /\ jobsToDo' = jobsToDo + 1
    /\ mjob' = j
    /\ mpc' = "addQueue"
    /\ UNCHANGED <<control, deque, jobVars, workerVars, wakeIndex, handles, current_queue_index>>

(* Mutation: no wrap around. *)
NextQueueUnbounded(i) == i + 1
NextQueue(i) == (i + 1) % ThreadCount

(* Mutation: Job::queue is the queue of the next job. *)
AddJobNextQueue ==
    /\ MainAt("addQueue")
    /\ queue' = [queue EXCEPT ![mjob] = NextQueue(current_queue_index)]
    /\ mpc' = "addPush"
    /\ UNCHANGED <<control, jobsToDo, deque, life, dependencyCount, dependents, released, workerVars, mainLocals>>

AddJobQueue ==
    /\ MainAt("addQueue")
    /\ queue' = [queue EXCEPT ![mjob] = current_queue_index]
    /\ mpc' = "addPush"
    /\ UNCHANGED <<control, jobsToDo, deque, life, dependencyCount, dependents, released, workerVars, mainLocals>>

AddJobPush ==
    /\ MainAt("addPush")
    /\ deque' = [deque EXCEPT ![current_queue_index] = Append(@, mjob)]
    /\ mpc' = "addNotify"
    /\ UNCHANGED <<control, jobsToDo, jobVars, workerVars, mainLocals>>

(* notify_one, then the lock_guard releases the queue, then the index moves. *)
AddJobNotify ==
    /\ MainAt("addNotify")
    /\ wpc' = NotifyOne(wpc, current_queue_index)
    /\ current_queue_index' = NextQueue(current_queue_index)
    /\ mjob' = NullJob
    /\ mpc' = "build"
    /\ UNCHANGED <<control, jobsToDo, deque, jobVars, wjob, wakeIndex, handles>>

-----------------------------------------------------------------------------
(* WaitForAllJobs, called once every created job has been added.           *)

WaitForAllJobs ==
    /\ MainAt("build")
    /\ \A j \in Jobs : ~Fresh(j)
    /\ MainMove("pred")

(* Mutation: the frame ends with a job still to do. *)
AllJobsButOneDone == ~isRunning \/ jobsToDo <= 1
AllJobsDone == ~isRunning \/ jobsToDo = 0

(* One step for both reads: while main_runner waits, jobsToDo only falls. *)
AllJobsDonePredicate ==
    /\ MainAt("pred")
    /\ MainMove(IF AllJobsDone THEN "loop" ELSE "block")

AllJobsDoneBlock ==
    /\ MainAt("block")
    /\ MainMove("asleep")

AllJobsDoneSpurious ==
    /\ MainAt("asleep")
    /\ MainMove("pred")

-----------------------------------------------------------------------------
(* JoinJobs, and the user's quit on the process's first thread.            *)

JoinJobsStopRunning ==
    /\ MainAt("stop")
    /\ isRunning' = FALSE
    /\ mpc' = "stopped"
    /\ UNCHANGED <<stopped, process, jobsToDo, deque, jobVars, workerVars, mainLocals>>

JoinJobsSetStopped ==
    /\ MainAt("stopped")
    /\ stopped' = TRUE
    /\ mpc' = "wake"
    /\ UNCHANGED <<isRunning, process, jobsToDo, deque, jobVars, workerVars, mainLocals>>

WakeAll ==
    /\ MainAt("wake")
    /\ wpc' = NotifyOne(wpc, wakeIndex)
    /\ wakeIndex' = wakeIndex + 1
    /\ mpc' = IF wakeIndex' < ThreadCount THEN "wake" ELSE "join"
    /\ UNCHANGED <<control, jobsToDo, deque, jobVars, wjob, mjob, handles, current_queue_index>>

(* The join loop passes when every worker has returned. *)
JoinWorkers ==
    /\ MainAt("join")
    /\ \A w \in Workers : wpc[w] = "done"
    /\ MainMove("done")

UserQuit ==
    /\ process = "up" /\ isRunning
    /\ isRunning' = FALSE
    /\ UNCHANGED <<stopped, process, jobsToDo, deque, jobVars, workerVars, mainVars>>

-----------------------------------------------------------------------------
WorkerStep(w) ==
    \/ WorkerLoop(w) \/ WaitForAvailableJobs(w) \/ WaitForJobPredicate(w)
    \/ WaitForJobBlock(w) \/ CheckStopped(w) \/ WorkerExit(w)
    \/ TryToWorkJob(w) \/ StealJob(w) \/ ExecuteReturn(w) \/ Finish(w)

BuildStep ==
    \/ \E j \in Jobs : CreateJob(j) \/ AddJobCount(j)
    \/ \E d \in MayDepend : AddDependency(d[1], d[2])
    \/ WaitForAllJobs

MainStep ==
    \/ FrameLoop \/ BuildStep
    \/ AddJobQueue \/ AddJobPush \/ AddJobNotify
    \/ AllJobsDonePredicate \/ AllJobsDoneBlock
    \/ JoinJobsStopRunning \/ JoinJobsSetStopped \/ WakeAll \/ JoinWorkers

SpuriousWakeup ==
    \/ \E w \in Workers : WaitForJobSpurious(w)
    \/ AllJobsDoneSpurious

(* The process has ended, in whatever way. *)
Ended == process # "up" \/ mpc = "done"

Terminated == Ended /\ UNCHANGED vars

Next ==
    \/ \E w \in Workers : WorkerStep(w)
    \/ MainStep
    \/ SpuriousWakeup
    \/ UserQuit
    \/ Terminated

Spec == Init /\ [][Next]_vars

(***************************************************************************)
(* Fairness.  The operating system runs every thread that can run, job     *)
(* functions return (they busy-wait for a fixed time) and rand() draws an  *)
(* index other than the worker's own again and again.  Nothing is assumed  *)
(* of spurious wake-ups or of the user.                                    *)
(***************************************************************************)
ForeignIndex(w) == \E randomIndex \in Workers \ {w} : StealFrom(w, randomIndex)

Fairness ==
    /\ WF_vars(MainStep)
    /\ \A w \in Workers : WF_vars(WorkerStep(w)) /\ SF_vars(ForeignIndex(w))

FairSpec == Spec /\ Fairness
-----------------------------------------------------------------------------
(***************************************************************************)
(* Properties.                                                             *)
(***************************************************************************)

(* Values every variable may take.  That the two counters stay natural is  *)
(* that the unsigned counters of the code never wrap below zero.           *)
TypeOK ==
    /\ isRunning \in BOOLEAN
    /\ stopped \in BOOLEAN
    /\ jobsToDo \in Nat
    /\ current_queue_index \in Workers
    /\ deque \in [Workers -> Seq(Jobs)]
    /\ life \in [Jobs -> Stages]
    /\ queue \in [Jobs -> Workers \cup {NoQueue}]
    /\ dependencyCount \in [Jobs -> Nat]
    /\ dependents \in [Jobs -> Seq(Jobs)]
    /\ released \in [Jobs -> Nat]
    /\ wpc \in [Workers -> WorkerStates]
    /\ wjob \in [Workers -> Jobs \cup {NullJob}]
    /\ mpc \in MainStates
    /\ mjob \in Jobs \cup {NullJob}
    /\ wakeIndex \in 0 .. ThreadCount
    /\ handles \in SUBSET Jobs
    /\ process \in {"up", "exited", "crashed"}

(* The job function has returned. *)
Executed(j) == j \in handles /\ life[j] # "live"

(* The jobs of this frame that j was declared to depend on. *)
Dependencies(j) == {d \in handles : j \in ToSet(dependents[d])}

(* While a job function runs (JobSystem::Execute), the function of every   *)
(* job it depends on has returned: the guarantee of AddDependency.         *)
DependencyOrder ==
    \A w \in Workers : wpc[w] = "exec" =>
        \A d \in Dependencies(wjob[w]) : Executed(d)

(* Handed to AddJob (counted in jobsToDo) and not yet counted off by Finish. *)
Outstanding(j) ==
    \/ mpc = "addQueue" /\ mjob = j
    \/ queue[j] # NoQueue
    \/ \E w \in Workers : wpc[w] = "dec" /\ wjob[w] = j

(* The <<job, index>> entries of dependents arrays that still hold j back. *)
Pending(j) ==
    {e \in Jobs \X (1 .. MaxDependents) :
        /\ e[2] \in released[e[1]] + 1 .. Len(dependents[e[1]])
        /\ dependents[e[1]][e[2]] = j}

(* dependencyCount of a job of this frame is the number of its dependencies *)
(* still to be released, over every interleaving of the destructors.       *)
DependencyCountExact ==
    \A j \in Jobs : dependencyCount[j] = Cardinality(Pending(j))

(* jobsToDo counts exactly the jobs added and not finished, so the         *)
(* predicate of WaitForAllJobs means what its comment says.                *)
JobsToDoExact == jobsToDo = Cardinality({j \in Jobs : Outstanding(j)})

(* The places at worker w that refer to job j: the indices of its deque     *)
(* where j is, and 0 for its local job pointer.                            *)
PlacesAt(w, j) ==
    {i \in DOMAIN deque[w] : deque[w][i] = j}
        \cup {i \in {0} : wpc[w] \in Holding /\ wjob[w] = j}

(* A job that was pushed and is not finished is in exactly one place, and  *)
(* any other job in none: no pop, steal and push-again loses a job or      *)
(* gives it to two workers.                                                *)
InOnePlace ==
    \A j \in Jobs :
        IF Outstanding(j) /\ ~(mjob = j /\ mpc \in {"addQueue", "addPush"})
        THEN \E w \in Workers :
                /\ \E i \in PlacesAt(w, j) : PlacesAt(w, j) = {i}
                /\ \A v \in Workers \ {w} : PlacesAt(v, j) = {}
        ELSE \A w \in Workers : PlacesAt(w, j) = {}

(* Job::queue is the queue the job is stored in (JobQueue.h:86), also while *)
(* its worker holds it: the queue that ~Job notifies is the right one.     *)
QueuePointerExact ==
    /\ \A w \in Workers : \A i \in DOMAIN deque[w] : queue[deque[w][i]] = w
    /\ \A w \in Workers : wpc[w] \in Holding \ {"dec"} => queue[wjob[w]] = w

(* When the frame loop goes round while the program runs, WaitForAllJobs   *)
(* has waited for everything: every job of the frame is freed and no queue *)
(* or worker has one left (main.cpp:185).                                  *)
FrameBarrier ==
    mpc = "loop" /\ isRunning =>
        /\ \A j \in Jobs : life[j] = "absent"
        /\ \A w \in Workers : deque[w] = <<>> /\ wpc[w] \notin Holding

(* A thread asleep although the condition it waits for already holds. *)
Stranded ==
    \/ mpc = "asleep" /\ (~isRunning \/ jobsToDo = 0)
    \/ \E w \in Workers : wpc[w] = "asleep" /\ (~isRunning \/ deque[w] # <<>>)

(* If no thread has a step left but a spurious wake-up or the user's quit, *)
(* some thread sleeps although its condition holds: the condition          *)
(* variables are the only way this system hangs.                           *)
HangMeansStranded ==
    /\ process = "up" /\ mpc \in {"asleep", "join"}
    /\ \A w \in Workers : wpc[w] \in {"asleep", "done"}
    /\ ~(mpc = "join" /\ \A w \in Workers : wpc[w] = "done")
    => Stranded

(* Once isRunning is false, a worker that finishes a job starts no other:  *)
(* it goes on to leave Worker, so quitting costs it the job it is in.      *)
Finishing == {"dec", "zero", "notifyAll", "loop"}
StopIsPrompt ==
    [][\A w \in Workers :
          ~isRunning /\ wpc[w] \in Finishing => wpc'[w] \in Finishing \cup {"exit"}]_vars

(* A thread about to sleep on a predicate that has meanwhile become true:  *)
(* the notification that goes with the change may already be over.         *)
StaleBlock ==
    \/ mpc = "block" /\ (~isRunning \/ jobsToDo = 0)
    \/ \E w \in Workers : wpc[w] = "block" /\ (~isRunning \/ deque[w] # <<>>)

(* WaitForAllJobs returns, in every run in which no thread goes to sleep   *)
(* on a stale predicate.                                                   *)
FrameEndsUnlessStale == <>StaleBlock \/ (mpc = "pred" ~> mpc = "loop" \/ Ended)

(* After the user quits, main_runner gets through JoinJobs and returns, in *)
(* every run in which no thread goes to sleep on a stale predicate.        *)
QuitEndsUnlessStale == <>StaleBlock \/ (~isRunning ~> Ended)
-----------------------------------------------------------------------------
(***************************************************************************)
(* What comments in the code say and the code does not keep.               *)
(***************************************************************************)

(* "From this point it will be worked at some point (if dependencies are   *)
(* met)" (JobSystem.h:21): a job in a queue that waits for no dependency   *)
(* is executed or the user quits, even in the runs in which no thread goes *)
(* to sleep on a stale predicate.                                          *)
AddedJobsAreWorked ==
    <>StaleBlock \/ \A j \in Jobs :
        (\E w \in Workers : j \in ToSet(deque[w])) /\ dependencyCount[j] = 0
            ~> Executed(j) \/ ~isRunning \/ Ended

(* "If we have no more jobs notify. (So frame can end.)"                   *)
(* (JobSystem.cpp:246): once every job is done, WaitForAllJobs returns,    *)
(* also when the user does not quit.                                       *)
WaitForAllJobsReturns ==
    mpc \in {"pred", "block", "asleep"} /\ jobsToDo = 0 ~> mpc = "loop" \/ ~isRunning

(* "Stops the system and waits for all workers to join" (JobSystem.h:15):  *)
(* the wait comes to an end.                                               *)
JoinJobsReturns == mpc = "stop" ~> Ended

(* "If dependent is workable notify the queue" (JobQueue.h:56): the job    *)
(* that ~Job tests and notifies still exists.                              *)
DependentExists ==
    \A w \in Workers :
        wpc[w] \in {"dtorTest", "dtorNotify"} => life[LastReleased(w)] # "absent"

(* "Use a random index to acces another queue" (JobSystem.cpp:196): a job  *)
(* in the hands of StealJob was stored in another worker's queue.          *)
StealsFromAnotherQueue ==
    \A w \in Workers : wpc[w] = "restow" => queue[wjob[w]] # w
=============================================================================
