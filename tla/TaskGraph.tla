------------------------------ MODULE TaskGraph ------------------------------
(***************************************************************************)
(* What the job system promises its client, with no threads, queues or     *)
(* counters in it: a frame creates tasks, declares which of them wait for  *)
(* which, and hands them over; a task runs once, after the tasks it waits  *)
(* for have run; the next frame starts when nothing of this one is left.   *)
(***************************************************************************)
CONSTANTS Tasks,
          MayDepend    \* pairs <<dependent, dependency>> a client may declare

VARIABLES
    stage,    \* how far each task has come
    waits     \* the tasks each task still waits for

graphVars == <<stage, waits>>

TaskStages == {"none", "created", "added", "running", "done"}

TaskInit ==
    /\ stage = [t \in Tasks |-> "none"]
    /\ waits = [t \in Tasks |-> {}]

Create(t) ==
    /\ stage[t] = "none"
    /\ stage' = [stage EXCEPT ![t] = "created"]
    /\ UNCHANGED waits

(* Both tasks still belong to the client: AddJob comes after. *)
Depend(dependent, dependency) ==
    /\ stage[dependent] = "created" /\ stage[dependency] = "created"
    /\ waits' = [waits EXCEPT ![dependent] = @ \cup {dependency}]
    /\ UNCHANGED stage

Add(t) ==
    /\ stage[t] = "created"
    /\ stage' = [stage EXCEPT ![t] = "added"]
    /\ UNCHANGED waits

Start(t) ==
    /\ stage[t] = "added"
    /\ waits[t] = {}
    /\ stage' = [stage EXCEPT ![t] = "running"]
    /\ UNCHANGED waits

Complete(t) ==
    /\ stage[t] = "running"
    /\ stage' = [stage EXCEPT ![t] = "done"]
    /\ waits' = [u \in Tasks |-> waits[u] \ {t}]

NextFrame ==
    /\ \A t \in Tasks : stage[t] \in {"none", "done"}
    /\ stage' = [t \in Tasks |-> "none"]
    /\ waits' = [t \in Tasks |-> {}]

TaskNext ==
    \/ \E t \in Tasks : Create(t) \/ Add(t) \/ Start(t) \/ Complete(t)
    \/ \E t, u \in Tasks : <<t, u>> \in MayDepend /\ Depend(t, u)
    \/ NextFrame

TaskSpec == TaskInit /\ [][TaskNext]_graphVars
-----------------------------------------------------------------------------
(* Values the two variables may take. *)
TaskTypeOK ==
    /\ stage \in [Tasks -> TaskStages]
    /\ waits \in [Tasks -> SUBSET Tasks]

(* A task waits only for tasks of its frame that have not run yet, and a   *)
(* task that has started waits for none: the meaning of AddDependency.     *)
WaitsForUnfinished ==
    \A t \in Tasks :
        /\ \A d \in waits[t] : stage[d] \notin {"none", "done"}
        /\ stage[t] \in {"none", "running", "done"} => waits[t] = {}
=============================================================================
