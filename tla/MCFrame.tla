------------------------------- MODULE MCFrame -------------------------------
(* The frame the repository builds by default (Settings.h: one             *)
(* simultaneous frame, one particle job).                                  *)
EXTENDS UpdateParallel

DefaultFrame == UpdateParallelCalls(1, 1)
DefaultJobs == JobsOf(DefaultFrame)
DefaultDependencies == DependenciesOf(DefaultFrame)

(* Bound: quitting is left to the runs of JobSystem. *)
BeforeQuit == isRunning
=============================================================================
