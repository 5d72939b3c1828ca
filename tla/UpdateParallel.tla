---------------------------- MODULE UpdateParallel ----------------------------
(***************************************************************************)
(* main.cpp on top of the job system: UpdateParallel makes its calls in a  *)
(* fixed order, so main_runner follows a script instead of the open client *)
(* of JobSystem.  Every step is a step of JobSystem, whose properties this *)
(* module inherits; what it adds is the frame's own job graph.             *)
(***************************************************************************)
EXTENDS JobSystem

CONSTANTS Script       \* the calls of one UpdateParallel, in program order

VARIABLE line          \* the call main_runner makes next

frameVars == <<vars, line>>

-----------------------------------------------------------------------------
(* The calls of UpdateParallel.  A job is named by its update function,    *)
(* the simultaneous frame it belongs to and, for particles, its number.    *)

Create(j) == [call |-> "CreateJob", job |-> j]
Depend(dependent, dependency) ==
    [call |-> "AddDependency", dependent |-> dependent, dependency |-> dependency]
Add(j) == [call |-> "AddJob", job |-> j]

Job(function, frame) == <<function, frame, 0>>
Particles(frame, i) == <<"Particles", frame, i>>

(* One turn of the particle loop: the job is added at once. *)
ParticleCalls(frame, i) ==
    << Create(Particles(frame, i)),
       Depend(Particles(frame, i), Job("Collision", frame)),
       Depend(Job("Rendering", frame), Particles(frame, i)),
       Add(Particles(frame, i)) >>

(* Mutation: nothing makes GameElements wait for Physics. *)
DependenciesWithoutGameElements(frame) ==
    LET J(function) == Job(function, frame)
    IN  << Depend(J("Physics"), J("Input")),
           Depend(J("Collision"), J("Physics")),
           Depend(J("Animation"), J("Collision")),
           Depend(J("Rendering"), J("Animation")),
           Depend(J("Rendering"), J("GameElements")) >>

FixedDependencies(frame) ==
    LET J(function) == Job(function, frame)
    IN  << Depend(J("Physics"), J("Input")),
           Depend(J("Collision"), J("Physics")),
           Depend(J("Animation"), J("Collision")),
           Depend(J("GameElements"), J("Physics")),
           Depend(J("Rendering"), J("Animation")),
           Depend(J("Rendering"), J("GameElements")) >>

FrameCalls(frame, particleJobCount) ==
    LET created == <<"Input", "Physics", "Collision", "Animation", "GameElements",
                     "Rendering", "Sound">>
        added == <<"Rendering", "Physics", "Animation", "Input", "Collision",
                   "GameElements", "Sound">>
    IN  [k \in 1 .. 7 |-> Create(Job(created[k], frame))]
        \o FixedDependencies(frame)
        \o FlattenSeq([i \in 1 .. particleJobCount |-> ParticleCalls(frame, i)])
        \o [k \in 1 .. 7 |-> Add(Job(added[k], frame))]

(* SIMULATENOUS_FRAME_COUNT frames of PARTICLE_JOB_COUNT particle jobs. *)
UpdateParallelCalls(simultaneousFrameCount, particleJobCount) ==
    FlattenSeq([f \in 1 .. simultaneousFrameCount |-> FrameCalls(f, particleJobCount)])

(* What a script creates and declares: values for Jobs and MayDepend. *)
JobsOf(script) == {script[k].job : k \in {i \in DOMAIN script : script[i].call = "CreateJob"}}
DependenciesOf(script) ==
    {<<script[k].dependent, script[k].dependency>> :
        k \in {i \in DOMAIN script : script[i].call = "AddDependency"}}

(* The jobs and the dependencies of the script are jobs and dependencies   *)
(* the job system is told about.                                           *)
ASSUME ScriptAssumption ==
    /\ Len(Script) \in Nat
    /\ DOMAIN Script = 1 .. Len(Script)
    /\ JobsOf(Script) \subseteq Jobs
    /\ DependenciesOf(Script) \subseteq MayDepend

(* A script that asks for no more dependents of a job than there is room   *)
(* for in Job::dependents.                                                 *)
CallsOn(script, d) ==
    {i \in DOMAIN script : script[i].call = "AddDependency" /\ script[i].dependency = d}
HasRoom(script) ==
    \A d \in JobsOf(script) : Cardinality(CallsOn(script, d)) <= MaxDependents

(* UpdateSerial runs one frame's functions in this order. *)
UpdateSerial ==
    <<"Input", "Physics", "Collision", "Animation", "Particles", "GameElements",
      "Rendering", "Sound">>

-----------------------------------------------------------------------------
FrameInit == Init /\ line = 1

StartFrame == FrameLoop /\ line' = 1

MakeCall ==
    /\ line <= Len(Script)
    /\ LET c == Script[line]
       IN  \/ c.call = "CreateJob" /\ CreateJob(c.job)
           \/ c.call = "AddDependency" /\ AddDependency(c.dependent, c.dependency)
           \/ c.call = "AddJob" /\ AddJobCount(c.job)
    /\ line' = line + 1

AllCallsMade == line > Len(Script) /\ WaitForAllJobs /\ UNCHANGED line

Frame ==
    \/ StartFrame \/ MakeCall \/ AllCallsMade
    \/ /\ \/ AddJobQueue \/ AddJobPush \/ AddJobNotify
          \/ AllJobsDonePredicate \/ AllJobsDoneBlock
          \/ JoinJobsStopRunning \/ JoinJobsSetStopped \/ WakeAll \/ JoinWorkers
       /\ UNCHANGED line

FrameNext ==
    \/ Frame
    \/ \E w \in Workers : WorkerStep(w) /\ UNCHANGED line
    \/ (SpuriousWakeup \/ UserQuit \/ Terminated) /\ UNCHANGED line

FrameSpec == FrameInit /\ [][FrameNext]_frameVars

FrameFairness ==
    /\ WF_frameVars(Frame)
    /\ \A w \in Workers :
          /\ WF_frameVars(WorkerStep(w) /\ UNCHANGED line)
          /\ SF_frameVars(ForeignIndex(w) /\ UNCHANGED line)

FairFrameSpec == FrameSpec /\ FrameFairness

-----------------------------------------------------------------------------
(* The dependencies main.cpp:93-100 asks for beside each update function.  *)
Required ==
    { <<"Physics", "Input">>, <<"Collision", "Physics">>, <<"Animation", "Collision">>,
      <<"Particles", "Collision">>, <<"GameElements", "Physics">>,
      <<"Rendering", "Animation">>, <<"Rendering", "Particles">>,
      <<"Rendering", "GameElements">> }

Needs(j, d) == j[2] = d[2] /\ <<j[1], d[1]>> \in Required

(* A script that asks for the documented order: before it adds a job, it   *)
(* has declared every dependency the comments ask for.                     *)
Declares(script) ==
    \A k \in DOMAIN script : script[k].call = "AddJob" =>
        \A d \in JobsOf(script) : Needs(script[k].job, d) =>
            \E i \in 1 .. k - 1 : script[i] = Depend(script[k].job, d)

(* While an update function runs, every function it is documented to       *)
(* depend on (main.cpp:93-100) has returned for the same frame.            *)
DocumentedOrder ==
    \A w \in Workers : wpc[w] = "exec" =>
        \A j \in handles : Needs(wjob[w], j) => Executed(j)

=============================================================================
