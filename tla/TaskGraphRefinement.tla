------------------------- MODULE TaskGraphRefinement -------------------------
(* JobSystem implements TaskGraph: the refinement mapping. *)
EXTENDS JobSystem

(* How far the client sees job j: Executed is "the function has returned". *)
StageOf(j) ==
    CASE j \notin handles -> "none"
      [] Executed(j) -> "done"
      [] Fresh(j) -> "created"
      [] \E w \in Workers : wpc[w] = "exec" /\ wjob[w] = j -> "running"
      [] OTHER -> "added"

(* The jobs that will still decrement dependencyCount of j, or have begun  *)
(* to: a dying job no longer counts, since its function has returned.      *)
WaitsOf(j) == {d \in Jobs : life[d] = "live" /\ j \in ToSet(dependents[d])}

Graph == INSTANCE TaskGraph WITH
    Tasks <- Jobs,
    stage <- [j \in Jobs |-> StageOf(j)],
    waits <- [j \in Jobs |-> WaitsOf(j)]

(* Every behaviour of the workers, queues and counters is one of the task  *)
(* graph: each job of a frame runs exactly once, after the functions of    *)
(* all its dependencies, and frames do not overlap.                        *)
ImplementsTaskGraph == Graph!TaskSpec
=============================================================================
