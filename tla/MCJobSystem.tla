---------------------------- MODULE MCJobSystem ----------------------------
(* Small instances of JobSystem: two or three jobs, all acyclic choices of *)
(* dependencies among them or one pair only, frames without end.           *)
EXTENDS TaskGraphRefinement

CONSTANTS a, b, c

AllJobs == {a, b, c}
Acyclic == {<<b, a>>, <<c, a>>, <<c, b>>}
OnePair == {<<c, a>>}
TwoJobs == {a, c}
=============================================================================
