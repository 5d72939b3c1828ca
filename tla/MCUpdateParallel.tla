-------------------------- MODULE MCUpdateParallel --------------------------
(* A small frame for the progress properties: Input and Collision in one   *)
(* queue, Sound and Physics in the other, the blocked jobs on top.         *)
EXTENDS UpdateParallel, TaskGraphRefinement

SmallFrame ==
    LET J(function) == Job(function, 1)
    IN  << Create(J("Input")), Create(J("Physics")), Create(J("Collision")), Create(J("Sound")),
           Depend(J("Physics"), J("Input")), Depend(J("Collision"), J("Physics")),
           Add(J("Input")), Add(J("Sound")), Add(J("Collision")), Add(J("Physics")) >>
SmallJobs == JobsOf(SmallFrame)
SmallDependencies == DependenciesOf(SmallFrame)

(* The proof of DocumentedOrder is about scripts that declare what they    *)
(* need: the frames of main.cpp do, with any settings tried here.          *)
ASSUME FramesDeclare ==
    \A simultaneousFrameCount \in 1 .. 3, particleJobCount \in 0 .. 12 :
        Declares(UpdateParallelCalls(simultaneousFrameCount, particleJobCount))

(* They ask for too many dependents of Collision from 13 particle jobs on. *)
ASSUME FramesHaveRoom ==
    \A simultaneousFrameCount \in 1 .. 3, particleJobCount \in 0 .. 14 :
        HasRoom(UpdateParallelCalls(simultaneousFrameCount, particleJobCount))
            <=> particleJobCount < MaxDependents

(* UpdateSerial calls the functions in an order the dependencies allow. *)
ASSUME SerialFollowsDependencies ==
    \A i, k \in DOMAIN UpdateSerial :
        <<UpdateSerial[k], UpdateSerial[i]>> \in Required => i < k
=============================================================================
