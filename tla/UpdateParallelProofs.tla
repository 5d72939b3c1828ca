------------------------ MODULE UpdateParallelProofs ------------------------
(***************************************************************************)
(* UpdateParallel, for every script: it is a client of the job system, and *)
(* one that declares what main.cpp's comments ask for gets their order.    *)
(***************************************************************************)
EXTENDS UpdateParallel, JobSystemProofs

USE ConstantsAssumption

-----------------------------------------------------------------------------
(* Every step of the script is a step of the job system.                   *)

LineInv == line \in Nat \ {0}

(* A call of the script is one an open client may make. *)
LEMMA MakeCallIsBuildStep ==
    ASSUME DepInv, LineInv, MakeCall
    PROVE  BuildStep
<1>1. line \in DOMAIN Script
  BY ScriptAssumption DEF MakeCall, LineInv
<1>2. CASE Script[line].call = "CreateJob" /\ CreateJob(Script[line].job)
  <2>1. Script[line].job \in Jobs
    BY <1>1, <1>2, ScriptAssumption DEF JobsOf
  <2> QED
    BY <1>2, <2>1 DEF BuildStep
<1>3. CASE /\ Script[line].call = "AddDependency"
           /\ AddDependency(Script[line].dependent, Script[line].dependency)
  <2> DEFINE d == <<Script[line].dependent, Script[line].dependency>>
  <2>1. d \in MayDepend
    BY <1>1, <1>3, ScriptAssumption DEF DependenciesOf
  <2>2. AddDependency(d[1], d[2])
    BY <1>3
  <2> QED
    BY <2>1, <2>2 DEF BuildStep
<1>4. CASE Script[line].call = "AddJob" /\ AddJobCount(Script[line].job)
  <2>1. Script[line].job \in Jobs
    BY <1>4 DEF AddJobCount, Fresh, DepInv, Inv, TypeInv
  <2> QED
    BY <1>4, <2>1 DEF BuildStep
<1> QED
  BY <1>2, <1>3, <1>4 DEF MakeCall

(* A step of the frame is one of the job system, and the line goes up or   *)
(* back to the first.                                                      *)
LEMMA FrameStepIsStep ==
    ASSUME DepInv, LineInv, [FrameNext]_frameVars
    PROVE  [Next]_vars /\ LineInv'
<1>1. CASE Frame
  <2>1. CASE MakeCall
    BY <2>1, MakeCallIsBuildStep DEF Next, MainStep, LineInv, MakeCall
  <2>2. CASE StartFrame \/ AllCallsMade
    BY <2>2 DEF StartFrame, AllCallsMade, Next, MainStep, BuildStep, LineInv
  <2> QED
    BY <1>1, <2>1, <2>2 DEF Frame, Next, MainStep, LineInv
<1>2. CASE \E w \in Workers : WorkerStep(w) /\ UNCHANGED line
  BY <1>2 DEF Next, LineInv
<1>3. CASE (SpuriousWakeup \/ UserQuit \/ Terminated) /\ UNCHANGED line
  BY <1>3 DEF Next, LineInv
<1>4. CASE UNCHANGED frameVars
  BY <1>4 DEF frameVars, LineInv
<1> QED
  BY <1>1, <1>2, <1>3, <1>4 DEF FrameNext

(* The frame script starts the job system at its start. *)
LEMMA FrameInitIsInit == FrameInit => Init /\ DepInv /\ LineInv
  BY DepInitInv DEF FrameInit, LineInv

(* UpdateParallel (main.cpp) is a client of the job system whatever its    *)
(* script says, so that every invariant of JobSystem holds of it.          *)
THEOREM FrameIsJobSystem == FrameSpec => Spec
<1>1. DepInv /\ LineInv /\ [FrameNext]_frameVars => [Next]_vars /\ DepInv' /\ LineInv'
  BY FrameStepIsStep, DepNextInv
<1> QED
  BY <1>1, FrameInitIsInit, PTL DEF FrameSpec, Spec

-----------------------------------------------------------------------------
(***************************************************************************)
(* The inductive invariant for the order.                                  *)
(***************************************************************************)

(* AddJob has been called for j, and its destructor is not over. *)
Added(j) == queue[j] # NoQueue \/ (mpc = "addQueue" /\ mjob = j)

(* y, of this frame, has returned or still holds x back. *)
HeldBack(x, y) == y \in handles /\ (life[y] = "live" => x \in ToSet(dependents[y]))

(* What the calls made so far have declared still counts. *)
CallsInv ==
    process = "up" =>
       \A i \in DOMAIN Script :
          i < line /\ Script[i].call = "AddDependency" =>
             HeldBack(Script[i].dependent, Script[i].dependency)

(* A job is added after all it needs was declared. *)
AddedInv ==
    \A j \in Jobs : Added(j) =>
       \A d \in JobsOf(Script) : Needs(j, d) => HeldBack(j, d)

FrameInv == DepInv /\ LineInv /\ handles \subseteq JobsOf(Script) /\ CallsInv /\ AddedInv

(* What nearly every step leaves as it is: jobs of the frame stay in it,   *)
(* do not come back to life, lose no dependent, and no other job is added. *)
Kept ==
    /\ handles \subseteq handles'
    /\ \A y \in handles : life'[y] = "live" =>
          life[y] = "live" /\ ToSet(dependents[y]) \subseteq ToSet(dependents'[y])
    /\ process' = "up" => process = "up"

NoneAdded == \A j \in Jobs : Added(j)' => Added(j)

(* Nothing is declared, and the process does not give up. *)
NoneDeclared ==
    /\ \A y \in handles : life'[y] = "live" => dependents'[y] = dependents[y]
    /\ process' = "exited" => process = "exited"
    /\ mpc' \in {"build"} \cup Adding => mpc \in {"build"} \cup Adding

(* Then a dependency that was released or held back is so still. *)
LEMMA HeldBackStays ==
    ASSUME Kept, NEW x, NEW y, HeldBack(x, y)
    PROVE  HeldBack(x, y)'
  BY DEF Kept, HeldBack

(* The calls up to the line stay declared. *)
LEMMA CallsStay ==
    ASSUME CallsInv, Kept
    PROVE  process' = "up" =>
              \A i \in DOMAIN Script :
                 i < line /\ Script[i].call = "AddDependency" =>
                    HeldBack(Script[i].dependent, Script[i].dependency)'
  BY HeldBackStays DEF CallsInv, Kept

(* Added jobs keep what was declared for them. *)
LEMMA AddedStay ==
    ASSUME AddedInv, Kept, NoneAdded
    PROVE  AddedInv'
  BY HeldBackStays DEF AddedInv, NoneAdded

(***************************************************************************)
(* The steps of JobSystem.                                                 *)
(***************************************************************************)
(* A step that touches neither jobs nor handles. *)
LEMMA QuietKeeps ==
    ASSUME UNCHANGED <<handles, life, dependents, queue, mjob>>,
           process' \in {"up", "exited"} => process' = process,
           mpc' = "addQueue" => mpc = "addQueue",
           mpc' \in {"build"} \cup Adding => mpc \in {"build"} \cup Adding
    PROVE  Kept /\ NoneAdded /\ NoneDeclared
  BY DEF Kept, NoneAdded, NoneDeclared, Added

(* Placing a job that is not alive in this frame afterwards. *)
LEMMA PlaceKeeps ==
    ASSUME TypeInv, NEW job \in Jobs, NEW stage, Place(job, stage),
           stage # "live" \/ job \notin handles,
           handles \subseteq handles', UNCHANGED <<process, mpc, mjob>>
    PROVE  Kept /\ NoneAdded /\ NoneDeclared
<1>1. \A k \in Jobs : /\ life'[k] = IF k = job THEN stage ELSE life[k]
                      /\ queue'[k] = IF k = job THEN NoQueue ELSE queue[k]
                      /\ dependents'[k] = IF k = job THEN <<>> ELSE dependents[k]
  BY DEF TypeInv, Place
<1>2. Kept
  BY <1>1 DEF TypeInv, Kept
<1>3. NoneAdded /\ NoneDeclared
  BY <1>1 DEF TypeInv, NoneAdded, NoneDeclared, Added
<1> QED
  BY <1>2, <1>3

(* A worker adds no job and declares nothing. *)
LEMMA WorkerKeeps ==
    ASSUME DepInv, NEW w \in Workers, WorkerStep(w) \/ WaitForJobSpurious(w)
    PROVE  Kept /\ NoneAdded /\ NoneDeclared /\ handles' = handles
<1> USE DEF Adding, Move, Goto, At, control, jobVars, mainVars, mainLocals
<1>1. CASE \/ WorkerLoop(w) \/ WaitForAvailableJobs(w) \/ WaitForJobPredicate(w)
           \/ WaitForJobBlock(w) \/ CheckStopped(w) \/ WaitForJobSpurious(w)
  BY <1>1, QuietKeeps
  DEF WorkerLoop, WaitForAvailableJobs, WaitForJobPredicate, WaitForJobBlock, CheckStopped,
      WaitForJobSpurious
<1>2. CASE WorkerExit(w)
  BY <1>2, QuietKeeps DEF WorkerExit, NotifyMain
<1>3. CASE TryToWorkJob(w)
  BY <1>3, QuietKeeps DEF TryToWorkJob, GetJob, CanExecuteJob, PushAgain
<1>4. CASE StealJob(w)
  <2>1. CASE StealPush(w)
    <3>1. /\ queue' = [queue EXCEPT ![wjob[w]] = w] /\ queue[wjob[w]] = w
          /\ UNCHANGED <<handles, life, dependents, mjob, process, mpc>>
      BY <2>1 DEF StealPush, DepInv, Inv, Pointers, HoldInv, Carrying
    <3>2. queue' = queue
      BY <3>1 DEF DepInv, Inv, TypeInv
    <3> QED
      BY <3>1, <3>2, QuietKeeps
  <2> QED
    BY <1>4, <2>1, QuietKeeps DEF StealJob, StealFrom, Steal
<1>5. CASE ExecuteReturn(w)
  <2>1. /\ life' = [life EXCEPT ![wjob[w]] = "dying"]
        /\ UNCHANGED <<handles, dependents, queue, mjob, process, mpc>>
    BY <1>5 DEF ExecuteReturn
  <2>2. \A y \in handles : life'[y] = "live" => life[y] = "live"
    BY <2>1 DEF DepInv, Inv, TypeInv
  <2> QED
    BY <2>1, <2>2 DEF Kept, NoneAdded, NoneDeclared, Added
<1>6. CASE Finish(w)
  <2>1. CASE DtorReturn(w)
    <3>1. wjob[w] \in Jobs /\ Place(wjob[w], "absent") /\ UNCHANGED <<handles, process, mpc, mjob>>
      BY <2>1 DEF DtorReturn, DepInv, Inv, TypeInv, Pointers, HoldInv, Holding
    <3> QED
      BY <3>1, PlaceKeeps DEF DepInv, Inv
  <2>2. CASE DtorDecrement(w) \/ DtorTest(w) \/ DtorNotify(w) \/ DtorNotifyFreed(w)
    BY <2>2, QuietKeeps DEF DtorDecrement, DtorTest, DtorNotify, DtorNotifyFreed
  <2>3. CASE FinishDecrement(w) \/ FinishTest(w) \/ FinishNotify(w)
    BY <2>3, QuietKeeps DEF FinishDecrement, FinishTest, FinishNotify, NotifyMain
  <2> QED
    BY <1>6, <2>1, <2>2, <2>3 DEF Finish
<1> QED
  BY <1>1, <1>2, <1>3, <1>4, <1>5, <1>6 DEF WorkerStep

(* Nor do the steps of main_runner that are not calls of the script. *)
LEMMA MainKeeps ==
    ASSUME DepInv,
           \/ WaitForAllJobs \/ AddJobQueue \/ AddJobPush \/ AddJobNotify
           \/ AllJobsDonePredicate \/ AllJobsDoneBlock \/ AllJobsDoneSpurious
           \/ JoinJobsStopRunning \/ JoinJobsSetStopped \/ WakeAll \/ JoinWorkers
           \/ UserQuit \/ UNCHANGED vars \/ (FrameLoop /\ ~isRunning)
    PROVE  Kept /\ NoneAdded /\ NoneDeclared /\ handles' = handles
<1> USE DEF Adding, MainMove, MainAt, control, jobVars, workerVars, mainVars, mainLocals
<1>1. CASE AddJobQueue
  <2>1. /\ mpc = "addQueue" /\ mpc' = "addPush"
        /\ queue' = [queue EXCEPT ![mjob] = current_queue_index]
        /\ UNCHANGED <<handles, life, dependents, mjob, process>>
    BY <1>1 DEF AddJobQueue
  <2>2. NoneAdded
    BY <2>1 DEF NoneAdded, Added, DepInv, Inv, TypeInv
  <2> QED
    BY <2>1, <2>2 DEF Kept, NoneDeclared, Adding
<1>2. CASE AddJobNotify
  BY <1>2 DEF AddJobNotify, Kept, NoneAdded, NoneDeclared, Added, Adding
<1>3. CASE \/ WaitForAllJobs \/ AddJobPush \/ AllJobsDonePredicate \/ AllJobsDoneBlock
           \/ AllJobsDoneSpurious \/ UNCHANGED vars \/ (FrameLoop /\ ~isRunning)
  BY <1>3, QuietKeeps
  DEF WaitForAllJobs, AddJobPush, AllJobsDonePredicate, AllJobsDoneBlock,
      AllJobsDoneSpurious, vars, FrameLoop
<1>4. CASE JoinJobsStopRunning \/ JoinJobsSetStopped \/ WakeAll \/ JoinWorkers \/ UserQuit
  BY <1>4, QuietKeeps DEF JoinJobsStopRunning, JoinJobsSetStopped, WakeAll, JoinWorkers, UserQuit
<1> QED
  BY <1>1, <1>2, <1>3, <1>4

(***************************************************************************)
(* The calls of the script, and the start of a frame.                      *)
(***************************************************************************)
(* A frame starts when the last one has left nothing behind. *)
LEMMA StartFrameOrder ==
    ASSUME FrameInv, StartFrame
    PROVE  handles' \subseteq JobsOf(Script) /\ CallsInv' /\ AddedInv'
<1>1. CallsInv'
  BY ScriptAssumption DEF StartFrame, CallsInv
<1>2. CASE isRunning
  <2>1. /\ handles' = {} /\ mpc' = "build"
        /\ \A j \in Jobs : queue'[j] = NoQueue
    BY <1>2
    DEF StartFrame, FrameLoop, MainAt, jobVars, FrameInv, DepInv, Inv, FrameBarrier, Pointers, JobsInv
  <2>2. AddedInv'
    BY <2>1 DEF AddedInv, Added
  <2> QED
    BY <1>1, <2>1, <2>2
<1>3. CASE ~isRunning
  BY <1>1, <1>3, MainKeeps, AddedStay DEF StartFrame, FrameInv
<1> QED
  BY <1>2, <1>3

(* CreateJob puts an empty job in the frame. *)
LEMMA CreateJobOrder ==
    ASSUME FrameInv, MakeCall, Script[line].call = "CreateJob", CreateJob(Script[line].job)
    PROVE  handles' \subseteq JobsOf(Script) /\ CallsInv' /\ AddedInv'
<1>1. line \in DOMAIN Script /\ line' = line + 1
  BY ScriptAssumption DEF MakeCall, FrameInv, LineInv
<1>2. Script[line].job \in JobsOf(Script) /\ Script[line].job \in Jobs
  BY <1>1, ScriptAssumption DEF JobsOf
<1>3. Kept /\ NoneAdded /\ handles' = handles \cup {Script[line].job}
  <2>1. /\ Place(Script[line].job, "live") /\ Script[line].job \notin handles
        /\ handles' = handles \cup {Script[line].job}
        /\ UNCHANGED <<process, mpc, mjob>>
    BY DEF CreateJob, control
  <2> QED
    BY <1>2, <2>1, PlaceKeeps DEF FrameInv, DepInv, Inv
<1>4. CallsInv'
  BY <1>1, <1>3, CallsStay, ScriptAssumption DEF FrameInv, LineInv, CallsInv
<1> QED
  BY <1>2, <1>3, <1>4, AddedStay DEF FrameInv

(* AddDependency makes the call at the line count, unless it ends the      *)
(* process.                                                                *)
LEMMA AddDependencyOrder ==
    ASSUME FrameInv, MakeCall, Script[line].call = "AddDependency",
           AddDependency(Script[line].dependent, Script[line].dependency)
    PROVE  handles' \subseteq JobsOf(Script) /\ CallsInv' /\ AddedInv'
<1>1. line \in DOMAIN Script /\ line' = line + 1
  BY ScriptAssumption DEF MakeCall, FrameInv, LineInv
<1> PICK x, y : x = Script[line].dependent /\ y = Script[line].dependency
  OBVIOUS
<1>2. /\ process = "up" /\ x \in handles /\ y \in handles /\ x \in Jobs /\ y \in Jobs
      /\ UNCHANGED <<handles, life, queue, mpc, mjob>>
      /\ \/ dependents' = dependents /\ process' = "exited"
         \/ dependents' = [dependents EXCEPT ![y] = Append(dependents[y], x)]
  BY DEF AddDependency, MainAt, Fresh, mainVars, mainLocals, FrameInv, DepInv, Inv, TypeInv
<1>3. ToSet(Append(dependents[y], x)) = ToSet(dependents[y]) \cup {x}
  <2>1. dependents[y] \in Seq(Jobs)
    BY <1>2 DEF FrameInv, DepInv, Inv, TypeInv
  <2> QED
    BY <1>2, <2>1, PushBack
<1>4. Kept /\ NoneAdded
  <2>1. \A k \in Jobs : ToSet(dependents[k]) \subseteq ToSet(dependents'[k])
    BY <1>2, <1>3 DEF FrameInv, DepInv, Inv, TypeInv
  <2> QED
    BY <1>2, <2>1 DEF Kept, NoneAdded, Added, FrameInv, DepInv, Inv, TypeInv
<1>5. process' = "up" => HeldBack(x, y)'
  <2>1. ASSUME process' = "up" PROVE dependents'[y] = Append(dependents[y], x)
    BY <1>2, <2>1 DEF FrameInv, DepInv, Inv, TypeInv
  <2> QED
    BY <1>2, <1>3, <2>1 DEF HeldBack
<1>6. CallsInv'
  <2> SUFFICES ASSUME process' = "up", NEW i \in DOMAIN Script, i < line + 1,
                      Script[i].call = "AddDependency"
               PROVE  HeldBack(Script[i].dependent, Script[i].dependency)'
    BY <1>1 DEF CallsInv
  <2>1. i < line \/ i = line
    BY ScriptAssumption DEF FrameInv, LineInv
  <2> QED
    BY <1>4, <1>5, <2>1, CallsStay DEF FrameInv
<1> QED
  BY <1>2, <1>4, <1>6, AddedStay DEF FrameInv

(* AddJob finds everything declared. *)
LEMMA AddJobOrder ==
    ASSUME FrameInv, Declares(Script), MakeCall,
           Script[line].call = "AddJob", AddJobCount(Script[line].job)
    PROVE  handles' \subseteq JobsOf(Script) /\ CallsInv' /\ AddedInv'
<1>1. line \in DOMAIN Script /\ line' = line + 1
  BY ScriptAssumption DEF MakeCall, FrameInv, LineInv
<1>2. /\ mpc' = "addQueue" /\ mjob' = Script[line].job /\ process = "up"
      /\ UNCHANGED <<process, handles, life, queue, dependents>>
  BY DEF AddJobCount, MainAt, control, jobVars
<1>3. CallsInv'
  BY <1>1, <1>2, ScriptAssumption DEF FrameInv, LineInv, CallsInv, HeldBack
<1>4. ASSUME NEW d \in JobsOf(Script), Needs(Script[line].job, d)
      PROVE  HeldBack(Script[line].job, d)
  <2>1. PICK i \in 1 .. line - 1 : Script[i] = Depend(Script[line].job, d)
    BY <1>1, <1>4 DEF Declares
  <2>2. i \in DOMAIN Script /\ i < line
    BY <1>1, ScriptAssumption DEF FrameInv, LineInv
  <2>3. /\ Script[i].call = "AddDependency"
        /\ Script[i].dependent = Script[line].job /\ Script[i].dependency = d
    BY <2>1 DEF Depend
  <2> QED
    BY <1>2, <2>2, <2>3 DEF FrameInv, CallsInv
<1>5. ASSUME NEW j \in Jobs, Added(j)' PROVE Added(j) \/ j = Script[line].job
  BY <1>2, <1>5 DEF Added
<1>6. AddedInv'
  BY <1>2, <1>4, <1>5 DEF FrameInv, AddedInv, HeldBack
<1> QED
  BY <1>2, <1>3, <1>6 DEF FrameInv

(* The invariant is inductive. *)
LEMMA FrameNextInv ==
    ASSUME FrameInv, Declares(Script), [FrameNext]_frameVars
    PROVE  FrameInv'
<1>1. DepInv' /\ LineInv'
  BY FrameStepIsStep, DepNextInv DEF FrameInv
<1> SUFFICES handles' \subseteq JobsOf(Script) /\ CallsInv' /\ AddedInv'
  BY <1>1 DEF FrameInv
<1>2. CASE StartFrame
  BY <1>2, StartFrameOrder
<1>3. CASE MakeCall
  BY <1>3, CreateJobOrder, AddDependencyOrder, AddJobOrder DEF MakeCall
<1>4. CASE line' = line /\ Kept /\ NoneAdded /\ handles' = handles
  BY <1>4, CallsStay, AddedStay DEF FrameInv, CallsInv
<1>5. ASSUME Frame, ~StartFrame, ~MakeCall
      PROVE  line' = line /\ Kept /\ NoneAdded /\ handles' = handles
  BY <1>5, MainKeeps DEF Frame, AllCallsMade, FrameInv
<1>6. ASSUME \E w \in Workers : WorkerStep(w) /\ UNCHANGED line
      PROVE  line' = line /\ Kept /\ NoneAdded /\ handles' = handles
  BY <1>6, WorkerKeeps DEF FrameInv
<1>7. ASSUME ((SpuriousWakeup \/ UserQuit \/ Terminated) /\ UNCHANGED line) \/ UNCHANGED frameVars
      PROVE  line' = line /\ Kept /\ NoneAdded /\ handles' = handles
  BY <1>7, WorkerKeeps, MainKeeps DEF SpuriousWakeup, Terminated, frameVars, FrameInv
<1> QED
  BY <1>2, <1>3, <1>4, <1>5, <1>6, <1>7 DEF FrameNext

(* Nothing is declared or added at the start. *)
LEMMA FrameInitInv == FrameInit => FrameInv
  BY FrameInitIsInit, ScriptAssumption
  DEF FrameInit, Init, FrameInv, CallsInv, AddedInv, Added

(* A running job was added, so what it needs was declared for it. *)
LEMMA OrderFollows == FrameInv => DocumentedOrder
<1> SUFFICES ASSUME FrameInv, NEW w \in Workers, wpc[w] = "exec",
                    NEW d \in handles, Needs(wjob[w], d)
             PROVE  Executed(d)
  BY DEF DocumentedOrder
<1>1. wjob[w] \in Jobs /\ Added(wjob[w])
  BY WorkerFacts
  DEF FrameInv, DepInv, Inv, TypeInv, Pointers, HoldInv, Holding, Carrying, Added
<1>2. HeldBack(wjob[w], d)
  BY <1>1 DEF FrameInv, AddedInv
<1>3. d \in Dependencies(wjob[w]) => Executed(d)
  BY DependencyOrderFollows DEF FrameInv, DependencyOrder
<1> QED
  BY <1>2, <1>3 DEF HeldBack, Dependencies, Executed

(* No update function of UpdateParallel starts before those it is          *)
(* documented to depend on have returned, for every script that declares   *)
(* these dependencies before it adds a job, however many frames and        *)
(* particle jobs it has and whatever order it adds them in.                *)
THEOREM DocumentedOrderAlwaysKept ==
    ASSUME Declares(Script)
    PROVE  FrameSpec => []DocumentedOrder
<1>1. FrameInv /\ [FrameNext]_frameVars => FrameInv'
  BY FrameNextInv
<1> QED
  BY <1>1, FrameInitInv, OrderFollows, PTL DEF FrameSpec

-----------------------------------------------------------------------------
(***************************************************************************)
(* The room in Job::dependents.                                            *)
(***************************************************************************)
(* The calls made so far that give d a dependent. *)
CallsBefore(d, n) == {i \in CallsOn(Script, d) : i < n}

(* While a frame is built, a job's dependents are the calls that made them. *)
RoomInv ==
    /\ process # "exited"
    /\ mpc \in {"build"} \cup Adding =>
          \A d \in handles : life[d] = "live" =>
             Len(dependents[d]) <= Cardinality(CallsBefore(d, line))

BuildInv == DepInv /\ LineInv /\ handles \subseteq JobsOf(Script) /\ RoomInv

(* There are finitely many calls. *)
LEMMA CallsFinite ==
    ASSUME NEW d, NEW n \in Nat
    PROVE  /\ IsFiniteSet(CallsOn(Script, d)) /\ Cardinality(CallsOn(Script, d)) \in Nat
           /\ IsFiniteSet(CallsBefore(d, n)) /\ Cardinality(CallsBefore(d, n)) \in Nat
<1>1. IsFiniteSet(1 .. Len(Script))
  BY FS_Interval, ScriptAssumption
<1>2. /\ CallsOn(Script, d) \subseteq 1 .. Len(Script)
      /\ CallsBefore(d, n) \subseteq 1 .. Len(Script)
  BY ScriptAssumption DEF CallsOn, CallsBefore
<1> QED
  BY <1>1, <1>2, FS_Subset, FS_CardinalityType

(* The next call adds itself, if it is one of them. *)
LEMMA CallsNext ==
    ASSUME NEW d, NEW n \in DOMAIN Script
    PROVE  /\ n \notin CallsOn(Script, d) =>
                 Cardinality(CallsBefore(d, n + 1)) = Cardinality(CallsBefore(d, n))
           /\ n \in CallsOn(Script, d) =>
                 /\ Cardinality(CallsBefore(d, n + 1)) = Cardinality(CallsBefore(d, n)) + 1
                 /\ Cardinality(CallsBefore(d, n + 1)) <= Cardinality(CallsOn(Script, d))
<1>1. n \in Nat /\ CallsOn(Script, d) \subseteq Nat /\ n + 1 \in Nat
  BY ScriptAssumption DEF CallsOn
<1>2. CASE n \notin CallsOn(Script, d)
  <2>1. CallsBefore(d, n + 1) = CallsBefore(d, n)
    BY <1>1, <1>2 DEF CallsBefore
  <2> QED
    BY <1>2, <2>1
<1>3. CASE n \in CallsOn(Script, d)
  <2>1. /\ CallsBefore(d, n + 1) = CallsBefore(d, n) \cup {n}
        /\ n \notin CallsBefore(d, n)
        /\ CallsBefore(d, n + 1) \subseteq CallsOn(Script, d)
    BY <1>1, <1>3 DEF CallsBefore
  <2>2. Cardinality(CallsBefore(d, n + 1)) = Cardinality(CallsBefore(d, n)) + 1
    BY <1>1, <2>1, CallsFinite, FS_AddElement
  <2>3. Cardinality(CallsBefore(d, n + 1)) <= Cardinality(CallsOn(Script, d))
    BY <1>1, <2>1, CallsFinite, FS_Subset
  <2> QED
    BY <1>3, <2>2, <2>3
<1> QED
  BY <1>2, <1>3

(* A step that declares nothing and makes no call. *)
LEMMA RoomStays ==
    ASSUME BuildInv, NoneDeclared, handles' = handles, line' = line, Kept
    PROVE  RoomInv'
  BY DEF BuildInv, RoomInv, NoneDeclared, Kept, CallsBefore

(* CreateJob starts with no dependent. *)
LEMMA CreateJobRoom ==
    ASSUME BuildInv, MakeCall, Script[line].call = "CreateJob", CreateJob(Script[line].job)
    PROVE  handles' \subseteq JobsOf(Script) /\ RoomInv'
<1>1. line \in DOMAIN Script /\ line \in Nat /\ line' = line + 1
  BY ScriptAssumption DEF MakeCall, BuildInv, LineInv
<1>2. PICK job \in Jobs : job = Script[line].job /\ job \in JobsOf(Script)
  BY <1>1, ScriptAssumption DEF JobsOf
<1>3. /\ Place(job, "live") /\ job \notin handles /\ handles' = handles \cup {job}
      /\ mpc = "build" /\ UNCHANGED <<process, mpc, mjob>>
  BY <1>2 DEF CreateJob, MainAt, control
<1>4. NoneDeclared /\ Kept
  BY <1>3, PlaceKeeps DEF BuildInv, DepInv, Inv
<1>5. Len(dependents'[job]) = 0
  <2>1. dependents'[job] = <<>>
    BY <1>3 DEF Place, BuildInv, DepInv, Inv, TypeInv
  <2> QED
    BY <2>1, EmptySeq
<1>6. ASSUME NEW d \in handles', life'[d] = "live"
      PROVE  Len(dependents'[d]) <= Cardinality(CallsBefore(d, line + 1))
  <2>1. Cardinality(CallsBefore(d, line + 1)) = Cardinality(CallsBefore(d, line))
    <3>1. line \notin CallsOn(Script, d)
      BY DEF CallsOn
    <3> QED
      BY <1>1, <3>1, CallsNext
  <2>2. CASE d = job
    <3>1. Cardinality(CallsBefore(d, line + 1)) \in Nat
      BY <1>1, CallsFinite
    <3> QED
      BY <1>5, <2>2, <3>1
  <2>3. CASE d \in handles
    BY <1>3, <1>4, <1>6, <2>1, <2>3 DEF BuildInv, RoomInv, NoneDeclared, Kept
  <2> QED
    BY <1>3, <2>2, <2>3
<1>7. RoomInv'
  BY <1>1, <1>3, <1>6 DEF BuildInv, RoomInv, CallsBefore
<1> QED
  BY <1>2, <1>3, <1>7 DEF BuildInv

(* AddDependency finds room. *)
LEMMA AddDependencyRoom ==
    ASSUME BuildInv, HasRoom(Script), MakeCall, Script[line].call = "AddDependency",
           AddDependency(Script[line].dependent, Script[line].dependency)
    PROVE  handles' \subseteq JobsOf(Script) /\ RoomInv'
<1>1. line \in DOMAIN Script /\ line \in Nat /\ line' = line + 1
  BY ScriptAssumption DEF MakeCall, BuildInv, LineInv
<1>2. PICK x, y : x = Script[line].dependent /\ y = Script[line].dependency
  OBVIOUS
<1>3. /\ mpc = "build" /\ process = "up" /\ x \in Jobs /\ y \in Jobs
      /\ y \in handles /\ life[y] = "live" /\ y \in JobsOf(Script)
      /\ UNCHANGED <<handles, life, mpc>>
  BY <1>2 DEF AddDependency, MainAt, Fresh, mainVars, mainLocals, BuildInv, DepInv, Inv, TypeInv
<1>4. dependents[y] \in Seq(Jobs) /\ Len(dependents[y]) \in Nat
  BY <1>3, LenProperties DEF BuildInv, DepInv, Inv, TypeInv
<1>5. /\ Cardinality(CallsBefore(y, line)) + 1 = Cardinality(CallsBefore(y, line + 1))
      /\ Cardinality(CallsBefore(y, line + 1)) <= MaxDependents
      /\ Len(dependents[y]) <= Cardinality(CallsBefore(y, line))
  <2>1. line \in CallsOn(Script, y)
    BY <1>1, <1>2 DEF CallsOn
  <2>2. /\ Cardinality(CallsBefore(y, line)) \in Nat /\ Cardinality(CallsOn(Script, y)) \in Nat
        /\ Cardinality(CallsBefore(y, line + 1)) \in Nat
    BY <1>1, CallsFinite
  <2>3. Cardinality(CallsOn(Script, y)) <= MaxDependents
    BY <1>3 DEF HasRoom
  <2>4. Len(dependents[y]) <= Cardinality(CallsBefore(y, line))
    BY <1>3 DEF BuildInv, RoomInv
  <2> QED
    BY <1>1, <2>1, <2>2, <2>3, <2>4, CallsNext
<1>6. ~(Len(dependents[y]) > MaxDependents - 1)
  BY <1>1, <1>4, <1>5, CallsFinite
<1>7. dependents' = [dependents EXCEPT ![y] = Append(dependents[y], x)] /\ process' = process
  BY <1>2, <1>6 DEF AddDependency
<1>8. ASSUME NEW d \in handles, life[d] = "live"
      PROVE  Len(dependents'[d]) <= Cardinality(CallsBefore(d, line + 1))
  <2>1. CASE d = y
    <3>1. Len(Append(dependents[y], x)) = Len(dependents[y]) + 1
      BY <1>3, <1>4, AppendProperties
    <3>2. Cardinality(CallsBefore(y, line)) \in Nat
      BY <1>1, CallsFinite
    <3> QED
      BY <1>3, <1>4, <1>5, <1>7, <2>1, <3>1, <3>2 DEF BuildInv, DepInv, Inv, TypeInv
  <2>2. CASE d # y
    <3>1. line \notin CallsOn(Script, d)
      BY <1>2, <2>2 DEF CallsOn
    <3>2. Len(dependents[d]) <= Cardinality(CallsBefore(d, line))
      BY <1>3, <1>8 DEF BuildInv, RoomInv
    <3> QED
      BY <1>1, <1>7, <2>2, <3>1, <3>2, CallsNext DEF BuildInv, DepInv, Inv, TypeInv
  <2> QED
    BY <2>1, <2>2
<1> QED
  BY <1>1, <1>3, <1>7, <1>8 DEF BuildInv, RoomInv, CallsBefore

(* AddJob declares nothing. *)
LEMMA AddJobRoom ==
    ASSUME BuildInv, MakeCall, Script[line].call = "AddJob", AddJobCount(Script[line].job)
    PROVE  handles' \subseteq JobsOf(Script) /\ RoomInv'
<1>1. line \in DOMAIN Script /\ line' = line + 1
  BY ScriptAssumption DEF MakeCall, BuildInv, LineInv
<1>2. mpc = "build" /\ UNCHANGED <<process, handles, life, dependents>>
  BY DEF AddJobCount, MainAt, control, jobVars
<1>3. \A d : Cardinality(CallsBefore(d, line + 1)) = Cardinality(CallsBefore(d, line))
  <2>1. \A d : line \notin CallsOn(Script, d)
    BY DEF CallsOn
  <2> QED
    BY <1>1, <2>1, CallsNext
<1> QED
  BY <1>1, <1>2, <1>3 DEF BuildInv, RoomInv, CallsBefore

(* The invariant is inductive. *)
LEMMA BuildNextInv ==
    ASSUME BuildInv, HasRoom(Script), [FrameNext]_frameVars
    PROVE  BuildInv'
<1>1. DepInv' /\ LineInv'
  BY FrameStepIsStep, DepNextInv DEF BuildInv
<1> SUFFICES handles' \subseteq JobsOf(Script) /\ RoomInv'
  BY <1>1 DEF BuildInv
<1>2. CASE StartFrame
  BY <1>2 DEF StartFrame, FrameLoop, MainAt, control, BuildInv, RoomInv, Adding
<1>3. CASE MakeCall
  BY <1>3, CreateJobRoom, AddDependencyRoom, AddJobRoom DEF MakeCall
<1>4. CASE line' = line /\ Kept /\ NoneDeclared /\ handles' = handles
  BY <1>4, RoomStays DEF BuildInv
<1>5. ASSUME Frame, ~StartFrame, ~MakeCall
      PROVE  line' = line /\ Kept /\ NoneDeclared /\ handles' = handles
  BY <1>5, MainKeeps DEF Frame, AllCallsMade, BuildInv
<1>6. ASSUME \E w \in Workers : WorkerStep(w) /\ UNCHANGED line
      PROVE  line' = line /\ Kept /\ NoneDeclared /\ handles' = handles
  BY <1>6, WorkerKeeps DEF BuildInv
<1>7. ASSUME ((SpuriousWakeup \/ UserQuit \/ Terminated) /\ UNCHANGED line) \/ UNCHANGED frameVars
      PROVE  line' = line /\ Kept /\ NoneDeclared /\ handles' = handles
  BY <1>7, WorkerKeeps, MainKeeps DEF SpuriousWakeup, Terminated, frameVars, BuildInv
<1> QED
  BY <1>2, <1>3, <1>4, <1>5, <1>6, <1>7 DEF FrameNext

(* The exit(1) of AddDependency is never reached, for every script that    *)
(* asks for at most MAX_DEPENDENT_COUNT dependents of a job.               *)
THEOREM AddDependencyNeverExits ==
    ASSUME HasRoom(Script)
    PROVE  FrameSpec => [](process # "exited")
<1>1. BuildInv /\ [FrameNext]_frameVars => BuildInv'
  BY BuildNextInv
<1>2. FrameInit => BuildInv
  BY FrameInitIsInit DEF FrameInit, Init, BuildInv, RoomInv, Adding
<1>3. BuildInv => process # "exited"
  BY DEF BuildInv, RoomInv
<1> QED
  BY <1>1, <1>2, <1>3, PTL DEF FrameSpec
=============================================================================
