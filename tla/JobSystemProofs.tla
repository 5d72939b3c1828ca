--------------------------- MODULE JobSystemProofs ---------------------------
(***************************************************************************)
(* The safety properties of JobSystem, for every number of workers and any *)
(* finite set of jobs.                                                     *)
(***************************************************************************)
EXTENDS TaskGraphRefinement, FiniteSetTheorems, SequenceTheorems, TLAPS

USE ConstantsAssumption

-----------------------------------------------------------------------------
(* Facts about the sequence operators of the deques.                       *)

(* push_back: one element more, and no duplicate if it was not there. *)
LEMMA PushBack ==
    ASSUME NEW S, NEW s \in Seq(S), NEW e \in S
    PROVE  /\ Append(s, e) \in Seq(S)
           /\ ToSet(Append(s, e)) = ToSet(s) \cup {e}
           /\ IsInjective(s) /\ e \notin ToSet(s) => IsInjective(Append(s, e))
<1> DEFINE t == Append(s, e)
<1>1. /\ t \in Seq(S) /\ Len(t) = Len(s) + 1 /\ Len(s) \in Nat
      /\ DOMAIN t = 1 .. Len(s) + 1 /\ DOMAIN s = 1 .. Len(s)
      /\ \A i \in 1 .. Len(s) : t[i] = s[i]
      /\ t[Len(s) + 1] = e
  BY AppendProperties, LenProperties
<1> HIDE DEF t
<1>2. ToSet(t) = ToSet(s) \cup {e}
  BY <1>1, SMT DEF ToSet
<1>3. IsInjective(s) /\ e \notin ToSet(s) => IsInjective(t)
  BY <1>1, SMT DEF ToSet, IsInjective
<1> QED
  BY <1>1, <1>2, <1>3 DEF t

(* pop_back: the last element goes, the rest stays. *)
LEMMA PopBack ==
    ASSUME NEW S, NEW s \in Seq(S), s # <<>>
    PROVE  /\ Front(s) \in Seq(S) /\ Last(s) \in S
           /\ Last(s) \in ToSet(s)
           /\ IsInjective(s) => /\ ToSet(Front(s)) = ToSet(s) \ {Last(s)}
                                /\ IsInjective(Front(s))
<1> DEFINE t == SubSeq(s, 1, Len(s) - 1)
<1>1. Len(s) \in Nat \ {0} /\ DOMAIN s = 1 .. Len(s) /\ \A i \in 1 .. Len(s) : s[i] \in S
  BY EmptySeq, LenProperties, ElementOfSeq
<1>2. /\ t \in Seq(S) /\ Len(t) = Len(s) - 1
      /\ \A i \in 1 .. Len(s) - 1 : t[i] = s[i]
  <2>1. 1 \in Int /\ Len(s) - 1 \in Int /\ \A i \in 1 .. Len(s) - 1 : s[i] \in S
    BY <1>1
  <2> QED
    BY <1>1, <2>1, SubSeqProperties
<1>3. DOMAIN t = 1 .. Len(s) - 1
  BY <1>2, LenProperties
<1> HIDE DEF t
<1>4. Last(s) \in S /\ Last(s) \in ToSet(s)
  BY <1>1, SMT DEF Last, ToSet
<1>5. ASSUME IsInjective(s) PROVE ToSet(t) = ToSet(s) \ {Last(s)}
  BY <1>1, <1>2, <1>3, <1>5, SMT DEF Last, ToSet, IsInjective
<1>6. ASSUME IsInjective(s) PROVE IsInjective(t)
  BY <1>1, <1>2, <1>3, <1>6, SMT DEF IsInjective
<1> QED
  BY <1>2, <1>4, <1>5, <1>6 DEF t, Front

(* pop_front: the first element goes, the rest stays. *)
LEMMA PopFront ==
    ASSUME NEW S, NEW s \in Seq(S), s # <<>>
    PROVE  /\ Tail(s) \in Seq(S) /\ Head(s) \in S
           /\ Head(s) \in ToSet(s)
           /\ IsInjective(s) => /\ ToSet(Tail(s)) = ToSet(s) \ {Head(s)}
                                /\ IsInjective(Tail(s))
<1> DEFINE t == Tail(s)
<1>1. Len(s) \in Nat \ {0} /\ DOMAIN s = 1 .. Len(s)
  BY EmptySeq, LenProperties
<1>2. /\ t \in Seq(S) /\ Len(t) = Len(s) - 1 /\ DOMAIN t = 1 .. Len(s) - 1
      /\ \A i \in 1 .. Len(s) - 1 : t[i] = s[i + 1]
      /\ Head(s) = s[1] /\ Head(s) \in S
  BY HeadTailProperties, LenProperties, <1>1
<1> HIDE DEF t
<1>4. Head(s) \in ToSet(s)
  BY <1>1, <1>2, SMT DEF ToSet
<1>5. ASSUME IsInjective(s) PROVE ToSet(t) = ToSet(s) \ {s[1]}
  <2>1. ToSet(t) \subseteq ToSet(s) \ {s[1]}
    <3>1. SUFFICES ASSUME NEW i \in DOMAIN t PROVE t[i] \in ToSet(s) \ {s[1]}
      BY DEF ToSet
    <3>2. i + 1 \in DOMAIN s /\ i + 1 # 1 /\ 1 \in DOMAIN s /\ t[i] = s[i + 1]
      BY <1>1, <1>2
    <3> QED
      BY <1>5, <3>2 DEF ToSet, IsInjective
  <2>2. ASSUME NEW i \in DOMAIN s, i # 1 PROVE s[i] \in ToSet(t)
    <3>1. i - 1 \in DOMAIN t /\ t[i - 1] = s[i]
      BY <1>1, <1>2, <2>2
    <3> QED
      BY <3>1 DEF ToSet
  <2> QED
    BY <2>1, <2>2 DEF ToSet
<1>6. ASSUME IsInjective(s) PROVE IsInjective(t)
  <2>1. SUFFICES ASSUME NEW i \in DOMAIN t, NEW k \in DOMAIN t, t[i] = t[k]
                 PROVE  i = k
    BY DEF IsInjective
  <2>2. i + 1 \in DOMAIN s /\ k + 1 \in DOMAIN s /\ s[i + 1] = s[k + 1]
    BY <1>1, <1>2, <2>1
  <2>3. i + 1 = k + 1
    BY <1>6, <2>2 DEF IsInjective
  <2> QED
    BY <1>2, <2>3
<1> QED
  BY <1>2, <1>4, <1>5, <1>6 DEF t

(* An empty deque has no element, any other has one. *)
LEMMA EmptyDeque ==
    ASSUME NEW S, NEW s \in Seq(S)
    PROVE  s = <<>> <=> ToSet(s) = {}
<1>1. Len(s) \in Nat /\ DOMAIN s = 1 .. Len(s) /\ (s # <<>> => Len(s) # 0)
  BY LenProperties, EmptySeq
<1>2. s # <<>> => s[1] \in ToSet(s)
  BY <1>1, SMT DEF ToSet
<1>3. s = <<>> => DOMAIN s = {}
  BY EmptySeq, <1>1
<1> QED
  BY <1>2, <1>3, Zenon DEF ToSet

-----------------------------------------------------------------------------
(***************************************************************************)
(* The inductive invariant.  It says where the pointers are: which worker  *)
(* holds which job at which stage of its life, what the deques contain,    *)
(* and what is left of a job when it is gone.                              *)
(***************************************************************************)
Carrying == {"can1", "repush1", "restow", "can2", "repush2", "exec"}
Destroying == {"dtor", "dtorTest", "dtorNotify"}
Adding == {"addQueue", "addPush", "addNotify"}
Waiting == {"pred", "block", "asleep"}
Quitting == {"stopped", "wake", "join", "done"}

(* TypeOK, with counters that might go below zero. *)
TypeInv ==
    /\ isRunning \in BOOLEAN
    /\ stopped \in BOOLEAN
    /\ jobsToDo \in Int
    /\ current_queue_index \in Workers
    /\ deque \in [Workers -> Seq(Jobs)]
    /\ life \in [Jobs -> Stages]
    /\ queue \in [Jobs -> Workers \cup {NoQueue}]
    /\ dependencyCount \in [Jobs -> Int]
    /\ dependents \in [Jobs -> Seq(Jobs)]
    /\ released \in [Jobs -> Nat]
    /\ wpc \in [Workers -> WorkerStates]
    /\ wjob \in [Workers -> Jobs \cup {NullJob}]
    /\ mpc \in MainStates
    /\ mjob \in Jobs \cup {NullJob}
    /\ wakeIndex \in 0 .. ThreadCount
    /\ handles \in SUBSET Jobs
    /\ process \in {"up", "exited", "crashed"}

(* A worker's local pointer, and the job it points to. *)
HoldInv ==
    \A w \in Workers :
        /\ wpc[w] \in Holding <=> wjob[w] # NullJob
        /\ wpc[w] \in Carrying => life[wjob[w]] = "live" /\ queue[wjob[w]] = w
        /\ wpc[w] \in Destroying => life[wjob[w]] = "dying" /\ queue[wjob[w]] = w
        /\ wpc[w] = "dec" => life[wjob[w]] = "absent" /\ wjob[w] \in handles

(* No job is counted off by two workers. *)
DecInv ==
    \A v, w \in Workers :
        wpc[v] = "dec" /\ wpc[w] = "dec" /\ wjob[v] = wjob[w] => v = w

(* What a deque holds is there once, alive, and not its worker's job too. *)
DequesInv ==
    \A w \in Workers :
        /\ IsInjective(deque[w])
        /\ \A j \in ToSet(deque[w]) : life[j] = "live" /\ queue[j] = w /\ wjob[w] # j

(* A job with a queue can be reached from the worker of the queue. *)
JobsInv ==
    \A j \in Jobs :
        /\ life[j] = "absent" => queue[j] = NoQueue
        /\ j \notin handles => life[j] = "absent"
        /\ life[j] = "live" /\ queue[j] # NoQueue =>
              \/ j \in ToSet(deque[queue[j]])
              \/ wjob[queue[j]] = j
              \/ mpc = "addPush" /\ mjob = j
        /\ life[j] = "dying" => queue[j] # NoQueue /\ wjob[queue[j]] = j

(* The job in the hands of AddJob. *)
AddInv ==
    /\ mpc \in Adding <=> mjob # NullJob
    /\ mpc = "addQueue" => Fresh(mjob)
    /\ mpc = "addPush" =>
          /\ life[mjob] = "live" /\ mjob \in handles
          /\ queue[mjob] = current_queue_index
          /\ mjob \notin ToSet(deque[current_queue_index])
          /\ wjob[current_queue_index] # mjob

(* WaitForAllJobs is called when every created job has been added. *)
WaitInv == mpc \in Waiting => \A j \in Jobs : ~Fresh(j)

(* Nobody leaves before the quit, and WakeAll counts its way through. *)
ControlInv ==
    /\ \A w \in Workers : wpc[w] \in {"exit", "done"} => ~isRunning
    /\ mpc \in Quitting => ~isRunning
    /\ mpc \notin {"wake", "join", "done"} => wakeIndex = 0
    /\ mpc = "wake" => wakeIndex < ThreadCount

Pointers == HoldInv /\ DecInv /\ DequesInv /\ JobsInv /\ AddInv /\ JobsToDoExact
Inv == TypeInv /\ Pointers /\ WaitInv /\ FrameBarrier /\ ControlInv

(* The index of a queue is never null; the next one is an index again. *)
LEMMA WorkerFacts ==
    /\ 0 \in Workers /\ NoQueue \notin Workers
    /\ \A w \in Workers : w + 1 \in 0 .. ThreadCount /\ NextQueue(w) \in Workers
<1>1. 0 \in Workers /\ NoQueue \notin Workers
  BY DEF Workers, NoQueue
<1>2. ASSUME NEW i \in Int, NEW n \in Nat \ {0} PROVE i % n \in 0 .. n - 1
  OBVIOUS
<1>3. ASSUME NEW w \in Workers
      PROVE  w + 1 \in 0 .. ThreadCount /\ NextQueue(w) \in Workers
  <2>1. w + 1 \in Int /\ w + 1 \in 0 .. ThreadCount
    BY DEF Workers
  <2> QED
    BY <1>2, <2>1 DEF Workers, NextQueue
<1> QED
  BY <1>1, <1>3

(* Jobs that stay outstanding and a counter that stays agree still. *)
LEMMA CountStays ==
    ASSUME JobsToDoExact, jobsToDo' = jobsToDo,
           \A j \in Jobs : Outstanding(j)' <=> Outstanding(j)
    PROVE  JobsToDoExact'
  BY DEF JobsToDoExact

(* Deques hold jobs. *)
LEMMA DequeElements ==
    ASSUME TypeInv
    PROVE  \A w \in Workers : \A j \in ToSet(deque[w]) : j \in Jobs /\ j # NullJob
<1> SUFFICES ASSUME NEW w \in Workers, NEW i \in DOMAIN deque[w]
             PROVE  deque[w][i] \in Jobs
  BY DEF ToSet
<1>1. deque[w] \in Seq(Jobs)
  BY DEF TypeInv
<1> QED
  BY <1>1, LenProperties, ElementOfSeq

(* Default member values have the types of the members. *)
LEMMA PlaceType ==
    ASSUME TypeInv, NEW job \in Jobs, NEW stage \in Stages, Place(job, stage)
    PROVE  /\ life' \in [Jobs -> Stages]
           /\ queue' \in [Jobs -> Workers \cup {NoQueue}]
           /\ dependencyCount' \in [Jobs -> Int]
           /\ dependents' \in [Jobs -> Seq(Jobs)]
           /\ released' \in [Jobs -> Nat]
<1>1. <<>> \in Seq(Jobs)
  BY EmptySeq
<1>2. dependents' \in [Jobs -> Seq(Jobs)]
  BY <1>1 DEF TypeInv, Place
<1> QED
  BY <1>2 DEF TypeInv, Place

(* A notification moves a sleeping worker, and nobody else. *)
LEMMA NotifyOneMoves ==
    ASSUME NEW pc \in [Workers -> WorkerStates], NEW q
    PROVE  /\ NotifyOne(pc, q) \in [Workers -> WorkerStates]
           /\ \A w \in Workers :
                 \/ NotifyOne(pc, q)[w] = pc[w]
                 \/ pc[w] = "asleep" /\ NotifyOne(pc, q)[w] = "pred"
  BY DEF NotifyOne, WorkerStates

(***************************************************************************)
(* Steps that move threads but no pointer.                                 *)
(***************************************************************************)
SameRole(p, q) ==
    /\ p \in Carrying <=> q \in Carrying
    /\ p \in Destroying <=> q \in Destroying
    /\ p = "dec" <=> q = "dec"

(* The pointers stay right if every thread stays in its role. *)
LEMMA QuietPointers ==
    ASSUME TypeInv, Pointers,
           UNCHANGED <<jobsToDo, deque, life, queue, wjob, mjob, handles, current_queue_index>>,
           wpc' \in [Workers -> WorkerStates],
           \A w \in Workers : SameRole(wpc[w], wpc'[w]),
           mpc' = mpc \/ (mpc \notin Adding /\ mpc' \notin Adding)
    PROVE  Pointers'
<1>1. HoldInv'
  BY DEF Pointers, HoldInv, SameRole, Holding, Carrying, Destroying
<1>2. DecInv'
  BY DEF Pointers, DecInv, SameRole
<1>3. DequesInv'
  BY DEF Pointers, DequesInv
<1>4. JobsInv'
  BY DEF Pointers, JobsInv, Adding
<1>5. AddInv'
  BY DEF Pointers, AddInv, Adding, Fresh
<1>6. JobsToDoExact'
  <2>1. ASSUME NEW j \in Jobs PROVE Outstanding(j)' <=> Outstanding(j)
    BY DEF Outstanding, SameRole, Adding
  <2> QED
    BY <2>1, CountStays DEF Pointers
<1> QED
  BY <1>1, <1>2, <1>3, <1>4, <1>5, <1>6 DEF Pointers

(***************************************************************************)
(* Worker steps that move no pointer: at most a sleeper is woken.          *)
(***************************************************************************)
MayWakeMain == mpc' = mpc \/ (mpc = "asleep" /\ mpc' = "pred")

(* A worker step that touches no pointer preserves the invariant. *)
LEMMA QuietWorkerStep ==
    ASSUME Inv, TypeInv', MayWakeMain,
           UNCHANGED <<jobsToDo, deque, life, queue, wjob, mjob, handles, current_queue_index>>,
           UNCHANGED <<isRunning, wakeIndex>>,
           \A w \in Workers : SameRole(wpc[w], wpc'[w]),
           \A w \in Workers :
              wpc'[w] \in {"exit", "done"} => wpc[w] \in {"exit", "done"} \/ ~isRunning
    PROVE  Inv'
<1> USE DEF MayWakeMain
<1>1. Pointers'
  BY QuietPointers DEF Inv, TypeInv, Adding
<1>2. WaitInv'
  BY DEF Inv, WaitInv, Fresh, Waiting
<1>3. FrameBarrier'
  BY DEF Inv, FrameBarrier, SameRole, Holding, Carrying, Destroying
<1>4. ControlInv'
  BY DEF Inv, ControlInv, Quitting
<1> QED
  BY <1>1, <1>2, <1>3, <1>4 DEF Inv

(* Move within a role preserves the invariant. *)
LEMMA MoveInv ==
    ASSUME Inv, NEW w \in Workers, NEW state \in WorkerStates, Move(w, state),
           SameRole(wpc[w], state),
           state \in {"exit", "done"} => wpc[w] \in {"exit", "done"} \/ ~isRunning
    PROVE  Inv'
<1>1. UNCHANGED <<control, jobsToDo, deque, jobVars, wjob, mainVars>>
      /\ wpc' = [wpc EXCEPT ![w] = state]
  BY DEF Move, Goto
<1>2. TypeInv'
  BY <1>1 DEF Inv, TypeInv, control, jobVars, mainVars, mainLocals
<1>3. \A v \in Workers : wpc'[v] = IF v = w THEN state ELSE wpc[v]
  BY <1>1 DEF Inv, TypeInv
<1> QED
  BY <1>1, <1>2, <1>3, QuietWorkerStep
     DEF control, jobVars, mainVars, mainLocals, SameRole, MayWakeMain

(* A worker with a job in its deque or its hands ends no frame: the parts  *)
(* of the invariant about main_runner survive its steps.                   *)
LEMMA BusyWorkerStep ==
    ASSUME Inv, NEW w \in Workers, deque[w] # <<>> \/ wpc[w] \in Holding,
           UNCHANGED <<isRunning, mpc, wakeIndex>>,
           \A j \in Jobs : Fresh(j)' => Fresh(j),
           \A v \in Workers : wpc'[v] \in {"exit", "done"} => wpc[v] \in {"exit", "done"}
    PROVE  WaitInv' /\ FrameBarrier' /\ ControlInv'
<1>1. WaitInv'
  BY DEF Inv, WaitInv
<1>2. FrameBarrier'
  BY DEF Inv, FrameBarrier
<1>3. ControlInv'
  BY DEF Inv, ControlInv
<1> QED
  BY <1>1, <1>2, <1>3

(***************************************************************************)
(* Worker steps that move a pointer.                                       *)
(***************************************************************************)
(* pop_back and pop_front: a job goes from a deque to its worker. *)
LEMMA TakeJobInv ==
    ASSUME Inv, NEW w \in Workers, wpc[w] \notin Holding,
           NEW j \in ToSet(deque[w]), NEW rest \in Seq(Jobs),
           ToSet(rest) = ToSet(deque[w]) \ {j}, IsInjective(rest),
           NEW state \in Carrying,
           deque' = [deque EXCEPT ![w] = rest],
           wjob' = [wjob EXCEPT ![w] = j],
           wpc' = [wpc EXCEPT ![w] = state],
           UNCHANGED <<control, jobsToDo, jobVars, mainVars>>
    PROVE  Inv'
<1> USE DEF control, jobVars, mainVars, mainLocals
<1>1. /\ j \in Jobs /\ j # NullJob /\ deque[w] # <<>>
      /\ life[j] = "live" /\ queue[j] = w
      /\ state \in WorkerStates /\ state \in Holding
  <2>1. deque[w] \in Seq(Jobs)
    BY DEF Inv, TypeInv
  <2>2. \A i \in DOMAIN deque[w] : deque[w][i] \in Jobs
    BY <2>1, LenProperties, ElementOfSeq
  <2>3. j \in Jobs /\ deque[w] # <<>>
    BY <2>1, <2>2, EmptyDeque DEF ToSet
  <2> QED
    BY <2>3 DEF Inv, Pointers, DequesInv, Carrying, WorkerStates, Holding
<1>2. TypeInv'
  BY <1>1 DEF Inv, TypeInv
<1>3. /\ \A v \in Workers : wpc'[v] = IF v = w THEN state ELSE wpc[v]
      /\ \A v \in Workers : wjob'[v] = IF v = w THEN j ELSE wjob[v]
      /\ \A v \in Workers : deque'[v] = IF v = w THEN rest ELSE deque[v]
      /\ wjob[w] = NullJob
  BY <1>1 DEF Inv, TypeInv, Pointers, HoldInv
<1>4. HoldInv'
  BY <1>1, <1>3 DEF Inv, Pointers, HoldInv, Carrying, Destroying
<1>5. DecInv'
  BY <1>3 DEF Inv, Pointers, DecInv, Carrying
<1>6. DequesInv'
  BY <1>1, <1>3 DEF Inv, Pointers, DequesInv
<1>7. JobsInv'
  <2> SUFFICES ASSUME NEW k \in Jobs
               PROVE  /\ life[k] = "absent" => queue[k] = NoQueue
                      /\ k \notin handles => life[k] = "absent"
                      /\ life[k] = "live" /\ queue[k] # NoQueue =>
                            \/ k \in ToSet(deque'[queue[k]])
                            \/ wjob'[queue[k]] = k
                            \/ mpc = "addPush" /\ mjob = k
                      /\ life[k] = "dying" => queue[k] # NoQueue /\ wjob'[queue[k]] = k
    BY DEF JobsInv
  <2>1. queue[k] # NoQueue => queue[k] \in Workers
    BY DEF Inv, TypeInv
  <2> QED
    BY <1>1, <1>3, <2>1 DEF Inv, Pointers, JobsInv
<1>8. AddInv'
  <2>1. mpc = "addPush" => mjob # j
    BY <1>1 DEF Inv, TypeInv, Pointers, AddInv
  <2> QED
    BY <1>1, <1>3, <2>1 DEF Inv, TypeInv, Pointers, AddInv, Fresh
<1>9. JobsToDoExact'
  <2>1. ASSUME NEW k \in Jobs PROVE Outstanding(k)' <=> Outstanding(k)
    BY <1>3 DEF Outstanding, Holding, Carrying
  <2> QED
    BY <2>1, CountStays DEF Inv, Pointers
<1>10. WaitInv' /\ FrameBarrier' /\ ControlInv'
  <2>1. \A k \in Jobs : Fresh(k)' => Fresh(k)
    BY DEF Fresh
  <2>2. \A v \in Workers : wpc'[v] \in {"exit", "done"} => wpc[v] \in {"exit", "done"}
    BY <1>3 DEF Carrying
  <2> QED
    BY <1>1, <2>1, <2>2, BusyWorkerStep
<1> QED
  BY <1>2, <1>4, <1>5, <1>6, <1>7, <1>8, <1>9, <1>10 DEF Inv, Pointers

(* push_back by a worker: its job goes to its deque. *)
LEMMA PutJobInv ==
    ASSUME Inv, NEW w \in Workers, wpc[w] \in Carrying,
           NEW state \in WorkerStates \ Holding, state \notin {"exit", "done"},
           deque' = [deque EXCEPT ![w] = Append(deque[w], wjob[w])],
           wjob' = [wjob EXCEPT ![w] = NullJob],
           wpc' = [wpc EXCEPT ![w] = state],
           UNCHANGED <<control, jobsToDo, jobVars, mainVars>>
    PROVE  Inv'
<1> DEFINE job == wjob[w]
<1> USE DEF control, jobVars, mainVars, mainLocals
<1>1. /\ job \in Jobs /\ job # NullJob /\ wpc[w] \in Holding
      /\ life[job] = "live" /\ queue[job] = w /\ deque[w] \in Seq(Jobs)
      /\ job \notin ToSet(deque[w])
  BY DEF Inv, TypeInv, Pointers, HoldInv, DequesInv, Holding, Carrying
<1>2. /\ Append(deque[w], job) \in Seq(Jobs)
      /\ ToSet(Append(deque[w], job)) = ToSet(deque[w]) \cup {job}
      /\ IsInjective(Append(deque[w], job))
  BY <1>1, PushBack DEF Inv, Pointers, DequesInv
<1>3. TypeInv'
  BY <1>2 DEF Inv, TypeInv
<1>4. /\ \A v \in Workers : wpc'[v] = IF v = w THEN state ELSE wpc[v]
      /\ \A v \in Workers : wjob'[v] = IF v = w THEN NullJob ELSE wjob[v]
      /\ \A v \in Workers : deque'[v] = IF v = w THEN Append(deque[w], job) ELSE deque[v]
  BY <1>1 DEF Inv, TypeInv
<1> HIDE DEF job
<1>5. HoldInv'
  BY <1>1, <1>4 DEF Inv, Pointers, HoldInv, Carrying, Destroying, Holding
<1>6. DecInv'
  BY <1>4 DEF Inv, Pointers, DecInv, Holding
<1>7. DequesInv'
  <2>1. \A v \in Workers : \A j \in ToSet(deque[v]) : j # NullJob
    BY DequeElements DEF Inv
  <2> QED
    <3> SUFFICES ASSUME NEW v \in Workers
                 PROVE  /\ IsInjective(deque'[v])
                        /\ \A j \in ToSet(deque'[v]) :
                              life[j] = "live" /\ queue[j] = v /\ wjob'[v] # j
      BY DEF DequesInv
    <3>1. CASE v = w
      BY <1>1, <1>2, <1>4, <2>1, <3>1 DEF Inv, Pointers, DequesInv
    <3>2. CASE v # w
      BY <1>4, <3>2 DEF Inv, Pointers, DequesInv
    <3> QED
      BY <3>1, <3>2
<1>8. JobsInv'
  <2> SUFFICES ASSUME NEW k \in Jobs
               PROVE  /\ life[k] = "absent" => queue[k] = NoQueue
                      /\ k \notin handles => life[k] = "absent"
                      /\ life[k] = "live" /\ queue[k] # NoQueue =>
                            \/ k \in ToSet(deque'[queue[k]])
                            \/ wjob'[queue[k]] = k
                            \/ mpc = "addPush" /\ mjob = k
                      /\ life[k] = "dying" => queue[k] # NoQueue /\ wjob'[queue[k]] = k
    BY DEF JobsInv
  <2>1. queue[k] # NoQueue => queue[k] \in Workers
    BY DEF Inv, TypeInv
  <2> QED
    BY <1>1, <1>2, <1>4, <2>1 DEF Inv, Pointers, JobsInv, job
<1>9. AddInv'
  BY <1>1, <1>2, <1>4 DEF Inv, TypeInv, Pointers, AddInv, Adding, Fresh, job
<1>10. JobsToDoExact'
  <2>1. ASSUME NEW k \in Jobs PROVE Outstanding(k)' <=> Outstanding(k)
    BY <1>4 DEF Outstanding, Holding, Carrying
  <2> QED
    BY <2>1, CountStays DEF Inv, Pointers
<1>11. WaitInv' /\ FrameBarrier' /\ ControlInv'
  <2>1. \A k \in Jobs : Fresh(k)' => Fresh(k)
    BY DEF Fresh
  <2>2. \A v \in Workers : wpc'[v] \in {"exit", "done"} => wpc[v] \in {"exit", "done"}
    BY <1>4
  <2> QED
    BY <1>1, <2>1, <2>2, BusyWorkerStep
<1> QED
  BY <1>3, <1>5, <1>6, <1>7, <1>8, <1>9, <1>10, <1>11 DEF Inv, Pointers

(* The job function returns and the destructor starts. *)
LEMMA ExecuteReturnInv ==
    ASSUME Inv, NEW w \in Workers, ExecuteReturn(w)
    PROVE  Inv'
<1> DEFINE job == wjob[w]
<1> USE DEF control, mainVars, mainLocals
<1>1. /\ wpc[w] = "exec" /\ wpc' = [wpc EXCEPT ![w] = "dtor"]
      /\ life' = [life EXCEPT ![job] = "dying"]
      /\ UNCHANGED <<control, jobsToDo, deque, queue, dependencyCount, dependents, released, wjob, mainVars>>
  BY DEF ExecuteReturn, At, Goto
<1>2. /\ job \in Jobs /\ job # NullJob /\ wpc[w] \in Holding
      /\ life[job] = "live" /\ queue[job] = w /\ w # NoQueue
      /\ \A v \in Workers : job \notin ToSet(deque[v])
      /\ \A v \in Workers : wjob[v] = job => v = w
  <2>1. /\ job \in Jobs /\ job # NullJob /\ wpc[w] \in Holding
        /\ life[job] = "live" /\ queue[job] = w /\ w # NoQueue
    BY <1>1, WorkerFacts DEF Inv, TypeInv, Pointers, HoldInv, Holding, Carrying
  <2>2. \A v \in Workers : job \notin ToSet(deque[v])
    BY <2>1 DEF Inv, Pointers, DequesInv
  <2>3. \A v \in Workers : wjob[v] = job => v = w
    BY <2>1 DEF Inv, Pointers, HoldInv, Holding, Carrying, Destroying
  <2> QED
    BY <2>1, <2>2, <2>3
<1>3. TypeInv'
  BY <1>1 DEF Inv, TypeInv, Stages, WorkerStates
<1>4. /\ \A v \in Workers : wpc'[v] = IF v = w THEN "dtor" ELSE wpc[v]
      /\ \A j \in Jobs : life'[j] = IF j = job THEN "dying" ELSE life[j]
  BY <1>1, <1>2 DEF Inv, TypeInv
<1>5. HoldInv'
  <2> SUFFICES ASSUME NEW v \in Workers
               PROVE  /\ wpc'[v] \in Holding <=> wjob[v] # NullJob
                      /\ wpc'[v] \in Carrying => life'[wjob[v]] = "live" /\ queue[wjob[v]] = v
                      /\ wpc'[v] \in Destroying => life'[wjob[v]] = "dying" /\ queue[wjob[v]] = v
                      /\ wpc'[v] = "dec" => life'[wjob[v]] = "absent" /\ wjob[v] \in handles
    BY <1>1 DEF HoldInv
  <2>1. CASE v = w
    BY <1>1, <1>2, <1>4, <2>1 DEF Holding, Carrying, Destroying
  <2>2. CASE v # w
    <3>1. wjob[v] # job /\ (wjob[v] # NullJob => wjob[v] \in Jobs)
      BY <1>2, <2>2 DEF Inv, TypeInv
    <3>2. wpc'[v] = wpc[v] /\ (wpc[v] \in Holding => life'[wjob[v]] = life[wjob[v]])
      BY <1>4, <2>2, <3>1 DEF Inv, Pointers, HoldInv
    <3> QED
      BY <3>1, <3>2 DEF Inv, Pointers, HoldInv, Holding, Carrying, Destroying
  <2> QED
    BY <2>1, <2>2
<1>6. DecInv'
  BY <1>1, <1>4 DEF Inv, Pointers, DecInv
<1>7. DequesInv'
  BY <1>1, <1>2 DEF Inv, TypeInv, Pointers, DequesInv
<1>8. JobsInv'
  BY <1>1, <1>2, <1>4 DEF Inv, TypeInv, Pointers, JobsInv
<1>9. AddInv'
  <2>1. mpc \in {"addQueue", "addPush"} => mjob \in Jobs /\ mjob # job
    BY <1>2 DEF Inv, TypeInv, Pointers, AddInv, Adding, Fresh
  <2> QED
    BY <1>1, <1>4, <2>1 DEF Inv, TypeInv, Pointers, AddInv, Fresh
<1>10. JobsToDoExact'
  <2>1. ASSUME NEW k \in Jobs PROVE Outstanding(k)' <=> Outstanding(k)
    BY <1>1, <1>4 DEF Outstanding
  <2> QED
    BY <1>1, <2>1, CountStays DEF Inv, Pointers
<1>11. WaitInv' /\ FrameBarrier' /\ ControlInv'
  <2>1. \A k \in Jobs : Fresh(k)' => Fresh(k)
    BY <1>1, <1>4 DEF Fresh
  <2>2. \A v \in Workers : wpc'[v] \in {"exit", "done"} => wpc[v] \in {"exit", "done"}
    BY <1>4
  <2> QED
    BY <1>1, <1>2, <2>1, <2>2, BusyWorkerStep
<1> QED
  BY <1>3, <1>5, <1>6, <1>7, <1>8, <1>9, <1>10, <1>11 DEF Inv, Pointers

(* The destructor is over and the memory is returned. *)
LEMMA DtorReturnInv ==
    ASSUME Inv, NEW w \in Workers, DtorReturn(w)
    PROVE  Inv'
<1> DEFINE job == wjob[w]
<1> USE DEF control, mainVars, mainLocals
<1>1. /\ wpc[w] = "dtor" /\ wpc' = [wpc EXCEPT ![w] = "dec"]
      /\ Place(job, "absent")
      /\ UNCHANGED <<control, jobsToDo, deque, wjob, mainVars>>
  BY DEF DtorReturn, At, Goto
<1>2. /\ job \in Jobs /\ job # NullJob /\ wpc[w] \in Holding
      /\ life[job] = "dying" /\ queue[job] = w /\ w # NoQueue /\ job \in handles
      /\ \A v \in Workers : job \notin ToSet(deque[v])
      /\ \A v \in Workers : wjob[v] = job => v = w
  <2>1. /\ job \in Jobs /\ job # NullJob /\ wpc[w] \in Holding
        /\ life[job] = "dying" /\ queue[job] = w /\ w # NoQueue
    BY <1>1, WorkerFacts DEF Inv, TypeInv, Pointers, HoldInv, Holding, Destroying
  <2>2. \A v \in Workers : job \notin ToSet(deque[v])
    BY <2>1 DEF Inv, Pointers, DequesInv
  <2>3. \A v \in Workers : wjob[v] = job => v = w
    BY <2>1 DEF Inv, Pointers, HoldInv, Holding, Carrying, Destroying
  <2>4. job \in handles
    BY <2>1 DEF Inv, Pointers, JobsInv
  <2> QED
    BY <2>1, <2>2, <2>3, <2>4
<1>3. TypeInv'
  <2>1. "absent" \in Stages
    BY DEF Stages
  <2> QED
    BY <1>1, <1>2, <2>1, PlaceType DEF Inv, TypeInv, WorkerStates
<1>4. /\ \A v \in Workers : wpc'[v] = IF v = w THEN "dec" ELSE wpc[v]
      /\ \A j \in Jobs : life'[j] = IF j = job THEN "absent" ELSE life[j]
      /\ \A j \in Jobs : queue'[j] = IF j = job THEN NoQueue ELSE queue[j]
  BY <1>1, <1>2 DEF Inv, TypeInv, Place
<1>5. HoldInv'
  <2> SUFFICES ASSUME NEW v \in Workers
               PROVE  /\ wpc'[v] \in Holding <=> wjob[v] # NullJob
                      /\ wpc'[v] \in Carrying => life'[wjob[v]] = "live" /\ queue'[wjob[v]] = v
                      /\ wpc'[v] \in Destroying => life'[wjob[v]] = "dying" /\ queue'[wjob[v]] = v
                      /\ wpc'[v] = "dec" => life'[wjob[v]] = "absent" /\ wjob[v] \in handles
    BY <1>1 DEF HoldInv
  <2>1. CASE v = w
    BY <1>1, <1>2, <1>4, <2>1 DEF Holding, Carrying, Destroying
  <2>2. CASE v # w
    <3>1. wjob[v] # job /\ (wjob[v] # NullJob => wjob[v] \in Jobs)
      BY <1>2, <2>2 DEF Inv, TypeInv
    <3>2. /\ wpc'[v] = wpc[v]
          /\ wpc[v] \in Holding => life'[wjob[v]] = life[wjob[v]] /\ queue'[wjob[v]] = queue[wjob[v]]
      BY <1>4, <2>2, <3>1 DEF Inv, Pointers, HoldInv
    <3> QED
      BY <3>1, <3>2 DEF Inv, Pointers, HoldInv, Holding, Carrying, Destroying
  <2> QED
    BY <2>1, <2>2
<1>6. DecInv'
  BY <1>1, <1>2, <1>4 DEF Inv, Pointers, DecInv
<1>7. DequesInv'
  <2> SUFFICES ASSUME NEW v \in Workers
               PROVE  /\ IsInjective(deque[v])
                      /\ \A j \in ToSet(deque[v]) : life'[j] = "live" /\ queue'[j] = v /\ wjob[v] # j
    BY <1>1 DEF DequesInv
  <2>1. \A j \in ToSet(deque[v]) : j \in Jobs /\ j # job
    BY <1>2, DequeElements DEF Inv
  <2> QED
    BY <1>4, <2>1 DEF Inv, Pointers, DequesInv
<1>8. JobsInv'
  BY <1>1, <1>2, <1>4 DEF Inv, TypeInv, Pointers, JobsInv
<1>9. AddInv'
  <2>1. mpc \in {"addQueue", "addPush"} => mjob \in Jobs /\ mjob # job
    BY <1>2 DEF Inv, TypeInv, Pointers, AddInv, Adding, Fresh
  <2> QED
    BY <1>1, <1>4, <2>1 DEF Inv, TypeInv, Pointers, AddInv, Fresh
<1>10. JobsToDoExact'
  <2>1. ASSUME NEW k \in Jobs PROVE Outstanding(k)' <=> Outstanding(k)
    <3>1. CASE k = job
      BY <1>1, <1>2, <1>4, <3>1 DEF Outstanding
    <3>2. CASE k # job
      BY <1>1, <1>4, <3>2 DEF Outstanding
    <3> QED
      BY <3>1, <3>2
  <2> QED
    BY <1>1, <2>1, CountStays DEF Inv, Pointers
<1>11. WaitInv' /\ FrameBarrier' /\ ControlInv'
  <2>1. \A k \in Jobs : Fresh(k)' => Fresh(k)
    BY <1>1, <1>4 DEF Fresh
  <2>2. \A v \in Workers : wpc'[v] \in {"exit", "done"} => wpc[v] \in {"exit", "done"}
    BY <1>4
  <2> QED
    BY <1>1, <1>2, <2>1, <2>2, BusyWorkerStep
<1> QED
  BY <1>3, <1>5, <1>6, <1>7, <1>8, <1>9, <1>10, <1>11 DEF Inv, Pointers

(* A job fewer to do, and the counter one less. *)
LEMMA CountDown ==
    ASSUME JobsToDoExact, NEW job \in Jobs, Outstanding(job), ~Outstanding(job)',
           jobsToDo' = jobsToDo - 1,
           \A j \in Jobs \ {job} : Outstanding(j)' <=> Outstanding(j)
    PROVE  JobsToDoExact'
<1> DEFINE Out == {j \in Jobs : Outstanding(j)}
<1>1. {j \in Jobs : Outstanding(j)'} = Out \ {job} /\ job \in Out
  OBVIOUS
<1>2. IsFiniteSet(Out)
  BY FS_Subset
<1>3. Cardinality(Out \ {job}) = Cardinality(Out) - 1
  BY <1>1, <1>2, FS_RemoveElement
<1> QED
  BY <1>1, <1>3 DEF JobsToDoExact

(* A job more to do, and the counter one more. *)
LEMMA CountUp ==
    ASSUME JobsToDoExact, NEW job \in Jobs, ~Outstanding(job), Outstanding(job)',
           jobsToDo' = jobsToDo + 1,
           \A j \in Jobs \ {job} : Outstanding(j)' <=> Outstanding(j)
    PROVE  JobsToDoExact'
<1> DEFINE Out == {j \in Jobs : Outstanding(j)}
<1>1. {j \in Jobs : Outstanding(j)'} = Out \cup {job} /\ job \notin Out
  OBVIOUS
<1>2. IsFiniteSet(Out)
  BY FS_Subset
<1>3. Cardinality(Out \cup {job}) = Cardinality(Out) + 1
  BY <1>1, <1>2, FS_AddElement
<1> QED
  BY <1>1, <1>3 DEF JobsToDoExact

(* Finish counts the job off. *)
LEMMA FinishDecrementInv ==
    ASSUME Inv, NEW w \in Workers, FinishDecrement(w)
    PROVE  Inv'
<1> DEFINE job == wjob[w]
<1> USE DEF control, jobVars, mainVars, mainLocals
<1>1. /\ wpc[w] = "dec" /\ wpc' = [wpc EXCEPT ![w] = "zero"]
      /\ wjob' = [wjob EXCEPT ![w] = NullJob]
      /\ jobsToDo' = jobsToDo - 1
      /\ UNCHANGED <<control, deque, jobVars, mainVars>>
  BY DEF FinishDecrement, At, Goto
<1>2. /\ job \in Jobs /\ job # NullJob /\ wpc[w] \in Holding
      /\ life[job] = "absent" /\ queue[job] = NoQueue
  BY <1>1 DEF Inv, TypeInv, Pointers, HoldInv, JobsInv, Holding
<1>3. TypeInv'
  BY <1>1 DEF Inv, TypeInv, WorkerStates
<1>4. /\ \A v \in Workers : wpc'[v] = IF v = w THEN "zero" ELSE wpc[v]
      /\ \A v \in Workers : wjob'[v] = IF v = w THEN NullJob ELSE wjob[v]
  BY <1>1, <1>2 DEF Inv, TypeInv
<1>5. HoldInv'
  BY <1>1, <1>4 DEF Inv, Pointers, HoldInv, Carrying, Destroying, Holding
<1>6. DecInv'
  BY <1>4 DEF Inv, Pointers, DecInv
<1>7. DequesInv'
  <2>1. \A v \in Workers : \A j \in ToSet(deque[v]) : j # NullJob
    BY DequeElements DEF Inv
  <2> QED
    BY <1>1, <1>4, <2>1 DEF Inv, Pointers, DequesInv
<1>8. JobsInv'
  <2> SUFFICES ASSUME NEW k \in Jobs
               PROVE  /\ life[k] = "absent" => queue[k] = NoQueue
                      /\ k \notin handles => life[k] = "absent"
                      /\ life[k] = "live" /\ queue[k] # NoQueue =>
                            \/ k \in ToSet(deque[queue[k]])
                            \/ wjob'[queue[k]] = k
                            \/ mpc = "addPush" /\ mjob = k
                      /\ life[k] = "dying" => queue[k] # NoQueue /\ wjob'[queue[k]] = k
    BY <1>1 DEF JobsInv
  <2>1. queue[k] # NoQueue => queue[k] \in Workers
    BY DEF Inv, TypeInv
  <2> QED
    BY <1>1, <1>2, <1>4, <2>1 DEF Inv, Pointers, JobsInv
<1>9. AddInv'
  BY <1>1, <1>2, <1>4 DEF Inv, TypeInv, Pointers, AddInv, Adding, Fresh
<1>10. JobsToDoExact'
  <2> SUFFICES ASSUME NEW k \in Jobs, k = job PROVE JobsToDoExact'
    BY <1>2
  <2>1. Outstanding(k)
    BY <1>1 DEF Outstanding
  <2>2. ~Outstanding(k)'
    <3>1. ~(mpc' = "addQueue" /\ mjob' = k)
      BY <1>1, <1>2 DEF Inv, Pointers, AddInv, Fresh
    <3>2. ~\E v \in Workers : wpc'[v] = "dec" /\ wjob'[v] = k
      BY <1>1, <1>4 DEF Inv, Pointers, DecInv
    <3> QED
      BY <1>1, <1>2, <3>1, <3>2 DEF Outstanding
  <2>3. \A j \in Jobs \ {k} : Outstanding(j)' <=> Outstanding(j)
    BY <1>1, <1>4 DEF Outstanding
  <2> QED
    BY <1>1, <1>2, <2>1, <2>2, <2>3, CountDown DEF Inv, Pointers
<1>11. WaitInv' /\ FrameBarrier' /\ ControlInv'
  <2>1. \A k \in Jobs : Fresh(k)' => Fresh(k)
    BY <1>1 DEF Fresh
  <2>2. \A v \in Workers : wpc'[v] \in {"exit", "done"} => wpc[v] \in {"exit", "done"}
    BY <1>4
  <2> QED
    BY <1>1, <1>2, <2>1, <2>2, BusyWorkerStep
<1> QED
  BY <1>3, <1>5, <1>6, <1>7, <1>8, <1>9, <1>10, <1>11 DEF Inv, Pointers

(***************************************************************************)
(* The steps of main_runner.                                               *)
(***************************************************************************)
(* A step of main_runner that touches no pointer and is not in AddJob. *)
LEMMA QuietMainStep ==
    ASSUME Inv, NEW state \in MainStates \ Adding, mpc \notin Adding, mpc' = state,
           UNCHANGED <<process, jobsToDo, deque, jobVars, workerVars, mainLocals>>,
           isRunning' \in BOOLEAN, isRunning' => isRunning, stopped' \in BOOLEAN,
           state \in Waiting => mpc \in Waiting \/ \A j \in Jobs : ~Fresh(j),
           state = "loop" /\ isRunning' => FrameBarrier',
           state \in Quitting => ~isRunning',
           state = "wake" => mpc = "stopped",
           state # "wake" /\ state \notin {"join", "done"} => mpc \notin {"wake", "join", "done"}
    PROVE  Inv'
<1> USE DEF jobVars, workerVars, mainLocals
<1>1. TypeInv'
  BY DEF Inv, TypeInv
<1>2. Pointers'
  <2>1. \A w \in Workers : SameRole(wpc[w], wpc'[w])
    BY DEF SameRole
  <2> QED
    BY <2>1, QuietPointers DEF Inv, TypeInv
<1>3. WaitInv'
  BY DEF Inv, WaitInv, Fresh
<1>4. FrameBarrier'
  BY DEF FrameBarrier
<1>5. ControlInv'
  BY DEF Inv, ControlInv, Quitting
<1> QED
  BY <1>1, <1>2, <1>3, <1>4, <1>5 DEF Inv

(* When no job is left to do and none is still to be added, none is left   *)
(* anywhere: what WaitForAllJobs relies on.                                *)
LEMMA NothingLeft ==
    ASSUME Inv, mpc \in Waiting, jobsToDo = 0
    PROVE  /\ \A j \in Jobs : life[j] = "absent"
           /\ \A w \in Workers : deque[w] = <<>> /\ wpc[w] \notin Holding
<1>1. \A j \in Jobs : ~Outstanding(j)
  <2> DEFINE Out == {j \in Jobs : Outstanding(j)}
  <2>1. IsFiniteSet(Out) /\ Cardinality(Out) = 0
    BY FS_Subset DEF Inv, Pointers, JobsToDoExact
  <2>2. Out = {}
    BY <2>1, FS_EmptySet
  <2> QED
    BY <2>2
<1>2. \A j \in Jobs : queue[j] = NoQueue
  BY <1>1 DEF Outstanding
<1>3. \A j \in Jobs : life[j] = "absent"
  BY <1>2 DEF Inv, TypeInv, WaitInv, Pointers, JobsInv, Fresh, Stages
<1>4. \A w \in Workers : wpc[w] # "dec"
  BY <1>1 DEF Outstanding, Inv, TypeInv, Pointers, HoldInv, Holding
<1>5. ASSUME NEW w \in Workers PROVE wpc[w] \notin Holding
  <2>1. wpc[w] \in Holding => wjob[w] \in Jobs
    BY DEF Inv, TypeInv, Pointers, HoldInv
  <2> QED
    BY <1>3, <1>4, <2>1 DEF Inv, Pointers, HoldInv, Holding, Carrying, Destroying
<1>6. ASSUME NEW w \in Workers PROVE deque[w] = <<>>
  <2>1. ToSet(deque[w]) = {}
    BY <1>3, DequeElements DEF Inv, Pointers, DequesInv
  <2> QED
    BY <2>1, EmptyDeque DEF Inv, TypeInv
<1> QED
  BY <1>3, <1>5, <1>6

(* The steps of the frame loop, of WaitForAllJobs and of JoinJobs. *)
LEMMA LoopStepsInv ==
    ASSUME Inv, \/ FrameLoop \/ WaitForAllJobs
                \/ AllJobsDonePredicate \/ AllJobsDoneBlock \/ AllJobsDoneSpurious
                \/ JoinJobsStopRunning \/ JoinJobsSetStopped \/ JoinWorkers
    PROVE  Inv'
<1> USE DEF MainAt, MainMove, control, mainLocals, Adding, Waiting, Quitting, MainStates
<1>1. CASE FrameLoop /\ isRunning
  <2> USE <1>1 DEF FrameLoop, jobVars, workerVars
  <2>1. /\ mpc = "loop" /\ mpc' = "build" /\ handles' = {}
        /\ \A j \in Jobs : life[j] = "absent"
        /\ \A w \in Workers : deque[w] = <<>> /\ wpc[w] \notin Holding
    BY DEF Inv, FrameBarrier
  <2>2. TypeInv'
    BY <2>1 DEF Inv, TypeInv
  <2>3. HoldInv' /\ DecInv' /\ DequesInv' /\ JobsInv' /\ AddInv'
    BY <2>1 DEF Inv, Pointers, HoldInv, DecInv, DequesInv, JobsInv, AddInv, Holding, Fresh
  <2>4. JobsToDoExact'
    <3>1. ASSUME NEW j \in Jobs PROVE Outstanding(j)' <=> Outstanding(j)
      BY <2>1 DEF Outstanding
    <3> QED
      BY <3>1, CountStays DEF Inv, Pointers
  <2>5. WaitInv' /\ FrameBarrier' /\ ControlInv'
    BY <2>1 DEF Inv, WaitInv, FrameBarrier, ControlInv
  <2> QED
    BY <2>2, <2>3, <2>4, <2>5 DEF Inv, Pointers
<1>2. CASE FrameLoop /\ ~isRunning
  BY <1>2, QuietMainStep DEF FrameLoop, Inv, TypeInv
<1>3. CASE WaitForAllJobs
  BY <1>3, QuietMainStep DEF WaitForAllJobs, Inv, TypeInv
<1>4. CASE AllJobsDonePredicate
  <2>1. CASE isRunning /\ jobsToDo = 0
    <3>1. FrameBarrier'
      BY <1>4, <2>1, NothingLeft DEF AllJobsDonePredicate, FrameBarrier, jobVars, workerVars
    <3> QED
      BY <1>4, <2>1, <3>1, QuietMainStep DEF AllJobsDonePredicate, Inv, TypeInv
  <2>2. CASE ~(isRunning /\ jobsToDo = 0)
    BY <1>4, <2>2, QuietMainStep, SMTT(30) DEF AllJobsDonePredicate, AllJobsDone, Inv, TypeInv
  <2> QED
    BY <2>1, <2>2
<1>5. CASE AllJobsDoneBlock
  BY <1>5, QuietMainStep DEF AllJobsDoneBlock, Inv, TypeInv
<1>6. CASE AllJobsDoneSpurious
  BY <1>6, QuietMainStep DEF AllJobsDoneSpurious, Inv, TypeInv
<1>7. CASE JoinJobsStopRunning
  <2>1. isRunning' \in BOOLEAN /\ ~isRunning'
    BY <1>7 DEF JoinJobsStopRunning
  <2>2. /\ mpc = "stop" /\ mpc' = "stopped" /\ stopped' = stopped /\ stopped \in BOOLEAN
        /\ UNCHANGED <<process, jobsToDo, deque, jobVars, workerVars, mainLocals>>
    BY <1>7 DEF JoinJobsStopRunning, Inv, TypeInv
  <2> QED
    BY <2>1, <2>2, QuietMainStep
<1>8. CASE JoinJobsSetStopped
  BY <1>8, QuietMainStep DEF JoinJobsSetStopped, Inv, TypeInv, ControlInv
<1>9. CASE JoinWorkers
  BY <1>9, QuietMainStep DEF JoinWorkers, Inv, TypeInv, ControlInv
<1> QED
  BY <1>1, <1>2, <1>3, <1>4, <1>5, <1>6, <1>7, <1>8, <1>9

(* WakeAll wakes one worker after the other, each with an index in range. *)
LEMMA WakeAllInv ==
    ASSUME Inv, WakeAll
    PROVE  Inv'
<1> USE DEF control, jobVars, mainLocals
<1>1. /\ mpc = "wake" /\ wpc' = NotifyOne(wpc, wakeIndex) /\ wakeIndex' = wakeIndex + 1
      /\ mpc' = IF wakeIndex' < ThreadCount THEN "wake" ELSE "join"
      /\ UNCHANGED <<control, jobsToDo, deque, jobVars, wjob, mjob, handles, current_queue_index>>
  BY DEF WakeAll, MainAt
<1>2. wakeIndex \in Nat /\ wakeIndex < ThreadCount
  BY <1>1 DEF Inv, TypeInv, ControlInv
<1>3. /\ wpc' \in [Workers -> WorkerStates]
      /\ \A w \in Workers : wpc'[w] = wpc[w] \/ (wpc[w] = "asleep" /\ wpc'[w] = "pred")
  BY <1>1, NotifyOneMoves, ZenonT(30) DEF Inv, TypeInv
<1>4. TypeInv'
  BY <1>1, <1>2, <1>3 DEF Inv, TypeInv, MainStates
<1>5. Pointers'
  <2>1. \A w \in Workers : SameRole(wpc[w], wpc'[w])
    BY <1>3 DEF SameRole, Carrying, Destroying
  <2>2. mpc \notin Adding /\ mpc' \notin Adding
    BY <1>1 DEF Adding
  <2> QED
    BY <1>1, <1>3, <2>1, <2>2, QuietPointers DEF Inv
<1>6. WaitInv' /\ FrameBarrier'
  BY <1>1 DEF WaitInv, FrameBarrier, Waiting
<1>7. ControlInv'
  BY <1>1, <1>2, <1>3 DEF Inv, ControlInv, Quitting
<1> QED
  BY <1>4, <1>5, <1>6, <1>7 DEF Inv

(* The user's quit changes the flag only. *)
LEMMA UserQuitInv ==
    ASSUME Inv, UserQuit
    PROVE  Inv'
<1>1. /\ isRunning' \in BOOLEAN /\ ~isRunning'
      /\ UNCHANGED <<stopped, process, jobsToDo, deque, jobVars, workerVars, mainVars>>
  BY DEF UserQuit
<1> USE DEF jobVars, workerVars, mainVars, mainLocals
<1>2. TypeInv'
  BY <1>1 DEF Inv, TypeInv
<1>3. Pointers'
  <2>1. \A w \in Workers : SameRole(wpc[w], wpc'[w])
    BY <1>1 DEF SameRole
  <2> QED
    BY <1>1, <2>1, QuietPointers DEF Inv, TypeInv
<1>4. WaitInv' /\ FrameBarrier' /\ ControlInv'
  BY <1>1 DEF Inv, WaitInv, Fresh, FrameBarrier, ControlInv
<1> QED
  BY <1>2, <1>3, <1>4 DEF Inv

(* A Job is created where none was: its memory was free. *)
LEMMA CreateJobInv ==
    ASSUME Inv, NEW job \in Jobs, CreateJob(job)
    PROVE  Inv'
<1> USE DEF control, workerVars
<1>1. /\ mpc = "build" /\ job \notin handles /\ handles' = handles \cup {job}
      /\ Place(job, "live")
      /\ UNCHANGED <<control, jobsToDo, deque, workerVars, mpc, mjob, wakeIndex, current_queue_index>>
  BY DEF CreateJob, MainAt
<1>2. /\ life[job] = "absent" /\ queue[job] = NoQueue
      /\ \A w \in Workers : job \notin ToSet(deque[w]) /\ wjob[w] # job
  <2>1. life[job] = "absent" /\ queue[job] = NoQueue
    BY <1>1 DEF Inv, Pointers, JobsInv
  <2>2. ASSUME NEW w \in Workers PROVE job \notin ToSet(deque[w]) /\ wjob[w] # job
    BY <1>1, <2>1 DEF Inv, Pointers, HoldInv, DequesInv, Holding, Carrying, Destroying
  <2> QED
    BY <2>1, <2>2
<1>3. TypeInv'
  <2>1. "live" \in Stages
    BY DEF Stages
  <2> QED
    BY <1>1, <2>1, PlaceType DEF Inv, TypeInv
<1>4. /\ \A j \in Jobs : life'[j] = IF j = job THEN "live" ELSE life[j]
      /\ \A j \in Jobs : queue'[j] = IF j = job THEN NoQueue ELSE queue[j]
      /\ mjob = NullJob /\ mpc \notin Adding
  BY <1>1 DEF Inv, TypeInv, Pointers, AddInv, Adding, Place
<1>5. HoldInv'
  <2> SUFFICES ASSUME NEW v \in Workers
               PROVE  /\ wpc[v] \in Holding <=> wjob[v] # NullJob
                      /\ wpc[v] \in Carrying => life'[wjob[v]] = "live" /\ queue'[wjob[v]] = v
                      /\ wpc[v] \in Destroying => life'[wjob[v]] = "dying" /\ queue'[wjob[v]] = v
                      /\ wpc[v] = "dec" => life'[wjob[v]] = "absent" /\ wjob[v] \in handles'
    BY <1>1 DEF HoldInv
  <2>1. wjob[v] # NullJob => life'[wjob[v]] = life[wjob[v]] /\ queue'[wjob[v]] = queue[wjob[v]]
    BY <1>2, <1>4 DEF Inv, TypeInv
  <2> QED
    BY <1>1, <2>1 DEF Inv, Pointers, HoldInv, Holding, Carrying, Destroying
<1>6. DecInv'
  BY <1>1 DEF Inv, Pointers, DecInv
<1>7. DequesInv'
  <2> SUFFICES ASSUME NEW v \in Workers
               PROVE  /\ IsInjective(deque[v])
                      /\ \A j \in ToSet(deque[v]) : life'[j] = "live" /\ queue'[j] = v /\ wjob[v] # j
    BY <1>1 DEF DequesInv
  <2>1. \A j \in ToSet(deque[v]) : j \in Jobs /\ j # job
    BY <1>2, DequeElements DEF Inv
  <2> QED
    BY <1>4, <2>1 DEF Inv, Pointers, DequesInv
<1>8. JobsInv'
  BY <1>1, <1>4 DEF Inv, Pointers, JobsInv
<1>9. AddInv'
  BY <1>1, <1>4 DEF AddInv, Adding
<1>10. JobsToDoExact'
  <2>1. ASSUME NEW k \in Jobs PROVE Outstanding(k)' <=> Outstanding(k)
    BY <1>1, <1>2, <1>4 DEF Outstanding
  <2> QED
    BY <1>1, <2>1, CountStays DEF Inv, Pointers
<1>11. WaitInv' /\ FrameBarrier' /\ ControlInv'
  BY <1>1 DEF Inv, WaitInv, FrameBarrier, ControlInv, Waiting
<1> QED
  BY <1>3, <1>5, <1>6, <1>7, <1>8, <1>9, <1>10, <1>11 DEF Inv, Pointers

(* AddDependency touches the graph only. *)
LEMMA AddDependencyInv ==
    ASSUME Inv, NEW x \in Jobs, NEW y \in Jobs, AddDependency(x, y)
    PROVE  Inv'
<1> USE DEF workerVars, mainVars, mainLocals
<1>1. /\ mpc = "build" /\ process' \in {"up", "exited", "crashed"}
      /\ dependents' \in [Jobs -> Seq(Jobs)] /\ dependencyCount' \in [Jobs -> Int]
      /\ UNCHANGED <<isRunning, stopped, jobsToDo, deque, life, queue, released, workerVars, mainVars>>
  <2>1. Append(dependents[y], x) \in Seq(Jobs)
    BY AppendProperties DEF Inv, TypeInv
  <2>2. /\ mpc = "build" /\ (process' = process \/ process' = "exited")
        /\ UNCHANGED <<isRunning, stopped, jobsToDo, deque, life, queue, released, workerVars, mainVars>>
    BY DEF AddDependency, MainAt
  <2>3. \/ UNCHANGED <<dependents, dependencyCount>>
        \/ /\ dependents' = [dependents EXCEPT ![y] = Append(dependents[y], x)]
           /\ dependencyCount' = [dependencyCount EXCEPT ![x] = dependencyCount[x] + 1]
    BY DEF AddDependency
  <2>4. dependents' \in [Jobs -> Seq(Jobs)] /\ dependencyCount' \in [Jobs -> Int]
    <3>1. dependents \in [Jobs -> Seq(Jobs)] /\ dependencyCount \in [Jobs -> Int]
      BY DEF Inv, TypeInv
    <3>2. dependents' \in [Jobs -> Seq(Jobs)]
      BY <2>1, <2>3, <3>1
    <3>3. dependencyCount' \in [Jobs -> Int]
      BY <2>3, <3>1
    <3> QED
      BY <3>2, <3>3
  <2> QED
    BY <2>2, <2>4 DEF Inv, TypeInv
<1>2. TypeInv'
  BY <1>1 DEF Inv, TypeInv
<1>3. Pointers'
  <2>1. \A w \in Workers : SameRole(wpc[w], wpc'[w])
    BY <1>1 DEF SameRole
  <2> QED
    BY <1>1, <2>1, QuietPointers DEF Inv, TypeInv
<1>4. WaitInv' /\ FrameBarrier' /\ ControlInv'
  BY <1>1 DEF Inv, WaitInv, FrameBarrier, ControlInv, Waiting
<1> QED
  BY <1>2, <1>3, <1>4 DEF Inv

(***************************************************************************)
(* AddJob: count, Job::queue, push_back, notification.                     *)
(***************************************************************************)
(* The counter moves first, and the job is outstanding from then on. *)
LEMMA AddJobCountInv ==
    ASSUME Inv, NEW job \in Jobs, AddJobCount(job)
    PROVE  Inv'
<1> USE DEF control, jobVars, workerVars
<1>1. /\ mpc = "build" /\ mpc' = "addQueue" /\ mjob' = job /\ jobsToDo' = jobsToDo + 1
      /\ Fresh(job)
      /\ UNCHANGED <<control, deque, jobVars, workerVars, wakeIndex, handles, current_queue_index>>
  BY DEF AddJobCount, MainAt
<1>2. TypeInv'
  BY <1>1 DEF Inv, TypeInv, MainStates
<1>3. HoldInv' /\ DecInv' /\ DequesInv'
  BY <1>1 DEF Inv, Pointers, HoldInv, DecInv, DequesInv
<1>4. JobsInv'
  BY <1>1 DEF Inv, Pointers, JobsInv
<1>5. AddInv'
  BY <1>1 DEF AddInv, Adding, Fresh
<1>6. JobsToDoExact'
  <2>1. ~Outstanding(job)
    BY <1>1 DEF Outstanding, Fresh, Inv, Pointers, HoldInv
  <2>2. Outstanding(job)'
    BY <1>1 DEF Outstanding
  <2>3. \A j \in Jobs \ {job} : Outstanding(j)' <=> Outstanding(j)
    BY <1>1 DEF Outstanding
  <2> QED
    BY <1>1, <2>1, <2>2, <2>3, CountUp DEF Inv, Pointers
<1>7. WaitInv' /\ FrameBarrier' /\ ControlInv'
  BY <1>1 DEF Inv, WaitInv, FrameBarrier, ControlInv, Waiting, Quitting
<1> QED
  BY <1>2, <1>3, <1>4, <1>5, <1>6, <1>7 DEF Inv, Pointers

(* job->queue is set while nobody else knows the job. *)
LEMMA AddJobQueueInv ==
    ASSUME Inv, AddJobQueue
    PROVE  Inv'
<1> USE DEF control, workerVars, mainLocals
<1>1. /\ mpc = "addQueue" /\ mpc' = "addPush"
      /\ queue' = [queue EXCEPT ![mjob] = current_queue_index]
      /\ UNCHANGED <<control, jobsToDo, deque, life, dependencyCount, dependents, released, workerVars, mainLocals>>
  BY DEF AddJobQueue, MainAt
<1>2. /\ mjob \in Jobs /\ mjob \in handles /\ life[mjob] = "live" /\ queue[mjob] = NoQueue
      /\ current_queue_index \in Workers /\ current_queue_index # NoQueue
      /\ \A w \in Workers : mjob \notin ToSet(deque[w]) /\ wjob[w] # mjob
  <2>1. /\ mjob \in Jobs /\ mjob \in handles /\ life[mjob] = "live" /\ queue[mjob] = NoQueue
        /\ current_queue_index \in Workers /\ current_queue_index # NoQueue
    BY <1>1, WorkerFacts DEF Inv, TypeInv, Pointers, AddInv, Adding, Fresh
  <2>2. ASSUME NEW w \in Workers PROVE mjob \notin ToSet(deque[w]) /\ wjob[w] # mjob
    BY <2>1, WorkerFacts DEF Inv, Pointers, HoldInv, DequesInv, Holding, Carrying, Destroying
  <2> QED
    BY <2>1, <2>2
<1>3. TypeInv'
  BY <1>1, <1>2 DEF Inv, TypeInv, MainStates
<1>4. \A j \in Jobs : queue'[j] = IF j = mjob THEN current_queue_index ELSE queue[j]
  BY <1>1, <1>2 DEF Inv, TypeInv
<1>5. HoldInv'
  <2> SUFFICES ASSUME NEW v \in Workers, wpc[v] \in Holding
               PROVE  queue'[wjob[v]] = queue[wjob[v]]
    BY <1>1 DEF Inv, Pointers, HoldInv, Holding, Carrying, Destroying
  <2> QED
    BY <1>2, <1>4 DEF Inv, TypeInv, Pointers, HoldInv
<1>6. DecInv'
  BY <1>1 DEF Inv, Pointers, DecInv
<1>7. DequesInv'
  <2>1. \A v \in Workers : \A j \in ToSet(deque[v]) : j \in Jobs /\ j # mjob
    BY <1>2, DequeElements DEF Inv
  <2> QED
    BY <1>1, <1>4, <2>1 DEF Inv, Pointers, DequesInv
<1>8. JobsInv'
  BY <1>1, <1>2, <1>4 DEF Inv, Pointers, JobsInv
<1>9. AddInv'
  BY <1>1, <1>2, <1>4 DEF AddInv, Adding
<1>10. JobsToDoExact'
  <2>1. ASSUME NEW k \in Jobs PROVE Outstanding(k)' <=> Outstanding(k)
    <3>1. CASE k = mjob
      BY <1>1, <1>2, <1>4, <3>1 DEF Outstanding
    <3>2. CASE k # mjob
      BY <1>1, <1>4, <3>2 DEF Outstanding
    <3> QED
      BY <3>1, <3>2
  <2> QED
    BY <1>1, <2>1, CountStays DEF Inv, Pointers
<1>11. WaitInv' /\ FrameBarrier' /\ ControlInv'
  BY <1>1 DEF Inv, WaitInv, FrameBarrier, ControlInv, Waiting, Quitting
<1> QED
  BY <1>3, <1>5, <1>6, <1>7, <1>8, <1>9, <1>10, <1>11 DEF Inv, Pointers

(* push_back by AddJob: the job is in the deque its pointer names. *)
LEMMA AddJobPushInv ==
    ASSUME Inv, AddJobPush
    PROVE  Inv'
<1> DEFINE q == current_queue_index
<1> USE DEF control, jobVars, workerVars, mainLocals
<1>1. /\ mpc = "addPush" /\ mpc' = "addNotify"
      /\ deque' = [deque EXCEPT ![q] = Append(deque[q], mjob)]
      /\ UNCHANGED <<control, jobsToDo, jobVars, workerVars, mainLocals>>
  BY DEF AddJobPush, MainAt
<1>2. /\ mjob \in Jobs /\ mjob # NullJob /\ life[mjob] = "live" /\ queue[mjob] = q
      /\ q \in Workers /\ mjob \notin ToSet(deque[q]) /\ wjob[q] # mjob
      /\ deque[q] \in Seq(Jobs)
  BY <1>1 DEF Inv, TypeInv, Pointers, AddInv, Adding
<1>3. /\ Append(deque[q], mjob) \in Seq(Jobs)
      /\ ToSet(Append(deque[q], mjob)) = ToSet(deque[q]) \cup {mjob}
      /\ IsInjective(Append(deque[q], mjob))
  BY <1>2, PushBack DEF Inv, Pointers, DequesInv
<1>4. TypeInv'
  BY <1>1, <1>3 DEF Inv, TypeInv, MainStates
<1>5. \A v \in Workers : deque'[v] = IF v = q THEN Append(deque[q], mjob) ELSE deque[v]
  BY <1>1, <1>2 DEF Inv, TypeInv
<1>6. HoldInv' /\ DecInv'
  BY <1>1 DEF Inv, Pointers, HoldInv, DecInv
<1>7. DequesInv'
  <2> SUFFICES ASSUME NEW v \in Workers
               PROVE  /\ IsInjective(deque'[v])
                      /\ \A j \in ToSet(deque'[v]) :
                            life[j] = "live" /\ queue[j] = v /\ wjob[v] # j
    BY <1>1 DEF DequesInv
  <2>1. CASE v = q
    BY <1>2, <1>3, <1>5, <2>1 DEF Inv, Pointers, DequesInv
  <2>2. CASE v # q
    BY <1>5, <2>2 DEF Inv, Pointers, DequesInv
  <2> QED
    BY <2>1, <2>2
<1>8. JobsInv'
  <2> SUFFICES ASSUME NEW k \in Jobs
               PROVE  /\ life[k] = "absent" => queue[k] = NoQueue
                      /\ k \notin handles => life[k] = "absent"
                      /\ life[k] = "live" /\ queue[k] # NoQueue =>
                            k \in ToSet(deque'[queue[k]]) \/ wjob[queue[k]] = k
                      /\ life[k] = "dying" => queue[k] # NoQueue /\ wjob[queue[k]] = k
    BY <1>1 DEF JobsInv
  <2>1. queue[k] # NoQueue => queue[k] \in Workers
    BY DEF Inv, TypeInv
  <2> QED
    BY <1>2, <1>3, <1>5, <2>1 DEF Inv, Pointers, JobsInv
<1>9. AddInv'
  BY <1>1, <1>2 DEF AddInv, Adding
<1>10. JobsToDoExact'
  <2>1. ASSUME NEW k \in Jobs PROVE Outstanding(k)' <=> Outstanding(k)
    BY <1>1 DEF Outstanding
  <2> QED
    BY <1>1, <2>1, CountStays DEF Inv, Pointers
<1>11. WaitInv' /\ FrameBarrier' /\ ControlInv'
  BY <1>1 DEF Inv, WaitInv, FrameBarrier, ControlInv, Waiting, Quitting
<1> QED
  BY <1>4, <1>6, <1>7, <1>8, <1>9, <1>10, <1>11 DEF Inv, Pointers

(* The notification, and the next queue's turn. *)
LEMMA AddJobNotifyInv ==
    ASSUME Inv, AddJobNotify
    PROVE  Inv'
<1> USE DEF control, jobVars
<1>1. /\ mpc = "addNotify" /\ mpc' = "build" /\ mjob' = NullJob
      /\ wpc' = NotifyOne(wpc, current_queue_index)
      /\ current_queue_index' = NextQueue(current_queue_index)
      /\ UNCHANGED <<control, jobsToDo, deque, jobVars, wjob, wakeIndex, handles>>
  BY DEF AddJobNotify, MainAt
<1>2. /\ wpc' \in [Workers -> WorkerStates]
      /\ \A w \in Workers : wpc'[w] = wpc[w] \/ (wpc[w] = "asleep" /\ wpc'[w] = "pred")
  BY <1>1, NotifyOneMoves, ZenonT(30) DEF Inv, TypeInv
<1>3. TypeInv'
  BY <1>1, <1>2, WorkerFacts DEF Inv, TypeInv, MainStates
<1>4. \A w \in Workers : SameRole(wpc[w], wpc'[w])
  BY <1>2 DEF SameRole, Carrying, Destroying
<1>5. HoldInv' /\ DecInv' /\ DequesInv'
  BY <1>1, <1>4 DEF Inv, Pointers, HoldInv, DecInv, DequesInv, SameRole, Holding, Carrying, Destroying
<1>6. JobsInv' /\ AddInv'
  BY <1>1 DEF Inv, Pointers, JobsInv, AddInv, Adding
<1>7. JobsToDoExact'
  <2>1. ASSUME NEW k \in Jobs PROVE Outstanding(k)' <=> Outstanding(k)
    BY <1>1, <1>4 DEF Outstanding, SameRole
  <2> QED
    BY <1>1, <2>1, CountStays DEF Inv, Pointers
<1>8. WaitInv' /\ FrameBarrier' /\ ControlInv'
  BY <1>1, <1>2 DEF Inv, WaitInv, FrameBarrier, ControlInv, Waiting, Quitting
<1> QED
  BY <1>3, <1>5, <1>6, <1>7, <1>8 DEF Inv, Pointers

(***************************************************************************)
(* The steps of a worker.                                                  *)
(***************************************************************************)
(* A worker's way to its queue and through the wait. *)
LEMMA WaitStepsInv ==
    ASSUME Inv, NEW w \in Workers,
           \/ WorkerLoop(w) \/ WaitForAvailableJobs(w) \/ WaitForJobPredicate(w)
           \/ WaitForJobBlock(w) \/ WaitForJobSpurious(w) \/ CheckStopped(w)
    PROVE  Inv'
<1> USE DEF At, WorkerStates, SameRole, Carrying, Destroying
<1>1. CASE WorkerLoop(w)
  BY <1>1, MoveInv DEF WorkerLoop
<1>2. CASE WaitForAvailableJobs(w)
  BY <1>2, MoveInv DEF WaitForAvailableJobs
<1>3. CASE WaitForJobPredicate(w)
  BY <1>3, MoveInv DEF WaitForJobPredicate
<1>4. CASE WaitForJobBlock(w)
  BY <1>4, MoveInv DEF WaitForJobBlock
<1>5. CASE WaitForJobSpurious(w)
  BY <1>5, MoveInv DEF WaitForJobSpurious
<1>6. CASE CheckStopped(w)
  BY <1>6, MoveInv DEF CheckStopped
<1> QED
  BY <1>1, <1>2, <1>3, <1>4, <1>5, <1>6

(* The two notifications of main_runner. *)
LEMMA NotifyMainInv ==
    ASSUME Inv, NEW w \in Workers, WorkerExit(w) \/ FinishNotify(w)
    PROVE  Inv'
<1>1. PICK state \in {"loop", "done"} :
         /\ wpc' = [wpc EXCEPT ![w] = state]
         /\ wpc[w] \in {"exit", "notifyAll"} /\ (state = "done" => wpc[w] = "exit")
         /\ mpc' = NotifyMain(mpc)
         /\ UNCHANGED <<control, jobsToDo, deque, jobVars, wjob, mainLocals>>
  BY DEF WorkerExit, FinishNotify, At, Goto
<1> USE DEF control, jobVars, mainLocals
<1>2. MayWakeMain /\ mpc' \in MainStates
  BY <1>1 DEF MayWakeMain, NotifyMain, MainStates, Inv, TypeInv
<1>3. TypeInv'
  BY <1>1, <1>2 DEF Inv, TypeInv, WorkerStates
<1>4. \A v \in Workers : wpc'[v] = IF v = w THEN state ELSE wpc[v]
  BY <1>1 DEF Inv, TypeInv
<1>5. \A v \in Workers : SameRole(wpc[v], wpc'[v])
  BY <1>1, <1>4 DEF SameRole, Carrying, Destroying
<1>6. \A v \in Workers : wpc'[v] \in {"exit", "done"} => wpc[v] \in {"exit", "done"}
  BY <1>1, <1>4
<1> QED
  BY <1>1, <1>2, <1>3, <1>5, <1>6, QuietWorkerStep

(* GetJob, CanExecuteJob and PushAgain, before and after StealJob. *)
LEMMA GetJobInv ==
    ASSUME Inv, NEW w \in Workers,
           NEW pop \in {"pop1", "pop2"}, NEW can \in {"can1", "can2"},
           NEW empty \in {"rand", "loop"}, GetJob(w, pop, can, empty)
    PROVE  Inv'
<1>1. CASE deque[w] = <<>>
  <2>1. Move(w, empty)
    BY <1>1 DEF GetJob, Move
  <2> QED
    BY <2>1, MoveInv DEF GetJob, At, WorkerStates, SameRole, Carrying, Destroying
<1>2. CASE deque[w] # <<>>
  <2>1. /\ Last(deque[w]) \in ToSet(deque[w]) /\ Front(deque[w]) \in Seq(Jobs)
        /\ ToSet(Front(deque[w])) = ToSet(deque[w]) \ {Last(deque[w])}
        /\ IsInjective(Front(deque[w]))
    <3>1. deque[w] \in Seq(Jobs) /\ IsInjective(deque[w])
      BY DEF Inv, TypeInv, Pointers, DequesInv
    <3> QED
      BY <1>2, <3>1, PopBack
  <2>2. wpc[w] \notin Holding /\ can \in Carrying
    BY DEF GetJob, At, Holding, Carrying
  <2>3. /\ deque' = [deque EXCEPT ![w] = Front(deque[w])]
        /\ wjob' = [wjob EXCEPT ![w] = Last(deque[w])]
        /\ wpc' = [wpc EXCEPT ![w] = can]
        /\ UNCHANGED <<control, jobsToDo, jobVars, mainVars>>
    BY <1>2 DEF GetJob, Goto
  <2> QED
    BY <2>1, <2>2, <2>3, TakeJobInv
<1> QED
  BY <1>1, <1>2

(* CanExecuteJob only reads: the job stays in the worker's hands. *)
LEMMA CanExecuteJobInv ==
    ASSUME Inv, NEW w \in Workers, NEW can \in {"can1", "can2"},
           NEW repush \in {"repush1", "repush2"}, CanExecuteJob(w, can, repush)
    PROVE  Inv'
  BY MoveInv DEF CanExecuteJob, At, WorkerStates, SameRole, Carrying, Destroying

(* TryToWorkJob puts a blocked job back into the queue it came from. *)
LEMMA PushAgainInv ==
    ASSUME Inv, NEW w \in Workers, NEW repush \in {"repush1", "repush2"},
           NEW after \in {"rand", "loop"}, PushAgain(w, repush, after)
    PROVE  Inv'
<1>1. wpc[w] \in Carrying /\ after \in WorkerStates \ Holding /\ after \notin {"exit", "done"}
  BY DEF PushAgain, At, Carrying, WorkerStates, Holding
<1> QED
  BY <1>1, PutJobInv DEF PushAgain, Goto

(* StealJob, on the worker's own queue. *)
LEMMA StealInv ==
    ASSUME Inv, NEW w \in Workers, Steal(w)
    PROVE  Inv'
<1>1. CASE deque[w] = <<>>
  <2>1. Move(w, "pop2")
    BY <1>1 DEF Steal, Move
  <2> QED
    BY <2>1, MoveInv DEF Steal, At, WorkerStates, SameRole, Carrying, Destroying
<1>2. CASE deque[w] # <<>>
  <2>1. /\ Head(deque[w]) \in ToSet(deque[w]) /\ Tail(deque[w]) \in Seq(Jobs)
        /\ ToSet(Tail(deque[w])) = ToSet(deque[w]) \ {Head(deque[w])}
        /\ IsInjective(Tail(deque[w]))
    BY <1>2, PopFront DEF Inv, TypeInv, Pointers, DequesInv
  <2>2. wpc[w] \notin Holding /\ "restow" \in Carrying
    BY DEF Steal, At, Holding, Carrying
  <2>3. /\ deque' = [deque EXCEPT ![w] = Tail(deque[w])]
        /\ wjob' = [wjob EXCEPT ![w] = Head(deque[w])]
        /\ wpc' = [wpc EXCEPT ![w] = "restow"]
        /\ UNCHANGED <<control, jobsToDo, jobVars, mainVars>>
    BY <1>2 DEF Steal, Goto
  <2> QED
    BY <2>1, <2>2, <2>3, TakeJobInv
<1> QED
  BY <1>1, <1>2

(* StealJob puts the stolen job into the worker's own queue again. *)
LEMMA StealPushInv ==
    ASSUME Inv, NEW w \in Workers, StealPush(w)
    PROVE  Inv'
<1>1. wpc[w] \in Carrying /\ "pop2" \in WorkerStates \ Holding
  BY DEF StealPush, At, Carrying, WorkerStates, Holding
<1>2. queue' = queue
  <2>1. queue[wjob[w]] = w /\ queue' = [queue EXCEPT ![wjob[w]] = w]
    BY <1>1 DEF StealPush, Inv, Pointers, HoldInv
  <2> QED
    BY <2>1 DEF Inv, TypeInv
<1>3. UNCHANGED <<control, jobsToDo, jobVars, mainVars>>
  BY <1>2 DEF StealPush, jobVars
<1> QED
  BY <1>1, <1>3, PutJobInv DEF StealPush, Goto

(* The random index moves no job. *)
LEMMA StealFromInv ==
    ASSUME Inv, NEW w \in Workers, NEW randomIndex \in Workers, StealFrom(w, randomIndex)
    PROVE  Inv'
  BY MoveInv DEF StealFrom, At, WorkerStates, SameRole, Carrying, Destroying

(* The loop of ~Job: counts and notifications, on dependents that may be   *)
(* gone already.                                                           *)
LEMMA DtorDecrementInv ==
    ASSUME Inv, NEW w \in Workers, DtorDecrement(w)
    PROVE  Inv'
<1> DEFINE job == wjob[w]
           i == released[job] + 1
           d == dependents[job][i]
<1> USE DEF control, mainVars, mainLocals
<1>1. /\ wpc[w] = "dtor" /\ wpc' = [wpc EXCEPT ![w] = "dtorTest"]
      /\ dependencyCount' = [dependencyCount EXCEPT ![d] = dependencyCount[d] - 1]
      /\ released' = [released EXCEPT ![job] = i]
      /\ UNCHANGED <<control, jobsToDo, deque, life, queue, dependents, wjob, mainVars>>
  BY DEF DtorDecrement, At, Goto
<1>2. job \in Jobs /\ i \in 1 .. Len(dependents[job]) /\ d \in Jobs
  <2>1. job \in Jobs
    BY <1>1 DEF Inv, TypeInv, Pointers, HoldInv, Holding
  <2>2. dependents[job] \in Seq(Jobs) /\ released[job] \in Nat
    BY <2>1 DEF Inv, TypeInv
  <2>3. i \in 1 .. Len(dependents[job])
    BY <2>2, LenProperties DEF DtorDecrement, DependentsLeft
  <2> QED
    BY <2>1, <2>2, <2>3, ElementOfSeq
<1>3. TypeInv'
  <2>1. dependencyCount' \in [Jobs -> Int]
    <3>1. ASSUME NEW k \in Jobs PROVE [dependencyCount EXCEPT ![k] = @ - 1] \in [Jobs -> Int]
      BY DEF Inv, TypeInv
    <3> QED
      BY <1>1, <1>2, <3>1
  <2>2. released' \in [Jobs -> Nat]
    BY <1>1, <1>2, SMTT(30) DEF Inv, TypeInv
  <2> QED
    BY <1>1, <2>1, <2>2 DEF Inv, TypeInv, WorkerStates
<1>4. \A v \in Workers : wpc'[v] = IF v = w THEN "dtorTest" ELSE wpc[v]
  BY <1>1 DEF Inv, TypeInv
<1>5. \A v \in Workers : SameRole(wpc[v], wpc'[v])
  BY <1>1, <1>4 DEF SameRole, Carrying, Destroying
<1>6. \A v \in Workers : wpc'[v] \in {"exit", "done"} => wpc[v] \in {"exit", "done"}
  BY <1>4
<1> QED
  BY <1>1, <1>3, <1>5, <1>6, QuietWorkerStep DEF MayWakeMain

(* The second read of a dependent's counter changes nothing. *)
LEMMA DtorTestInv ==
    ASSUME Inv, NEW w \in Workers, DtorTest(w)
    PROVE  Inv'
  BY MoveInv DEF DtorTest, At, WorkerStates, SameRole, Carrying, Destroying

(* A destructor's notification wakes a worker at most, or crashes. *)
LEMMA DtorNotifyInv ==
    ASSUME Inv, NEW w \in Workers, DtorNotify(w) \/ DtorNotifyFreed(w)
    PROVE  Inv'
<1> DEFINE pc == [wpc EXCEPT ![w] = "dtor"]
<1> USE DEF jobVars, mainVars, mainLocals
<1>1. PICK q : /\ wpc[w] = "dtorNotify"
               /\ wpc' = NotifyOne(pc, q) \/ wpc' = wpc
               /\ process' \in {process, "crashed"}
               /\ UNCHANGED <<isRunning, stopped, jobsToDo, deque, jobVars, wjob, mainVars>>
  BY DEF DtorNotify, DtorNotifyFreed, At, control
<1>2. pc \in [Workers -> WorkerStates]
  BY DEF Inv, TypeInv, WorkerStates
<1>3. \A v \in Workers : pc[v] = IF v = w THEN "dtor" ELSE wpc[v]
  BY DEF Inv, TypeInv
<1> HIDE DEF pc
<1>4. wpc' \in [Workers -> WorkerStates]
  BY <1>1, <1>2, NotifyOneMoves DEF Inv, TypeInv
<1>5. \A v \in Workers : \/ wpc'[v] = wpc[v]
                         \/ v = w /\ wpc'[v] = "dtor"
                         \/ wpc[v] = "asleep" /\ wpc'[v] = "pred"
  BY <1>1, <1>2, <1>3, NotifyOneMoves
<1>6. TypeInv'
  BY <1>1, <1>4 DEF Inv, TypeInv
<1>7. \A v \in Workers : SameRole(wpc[v], wpc'[v])
  BY <1>1, <1>5 DEF SameRole, Carrying, Destroying
<1>8. \A v \in Workers : wpc'[v] \in {"exit", "done"} => wpc[v] \in {"exit", "done"}
  BY <1>1, <1>5
<1> QED
  BY <1>1, <1>6, <1>7, <1>8, QuietWorkerStep DEF MayWakeMain

(* The test of jobsToDo after a job changes nothing. *)
LEMMA FinishTestInv ==
    ASSUME Inv, NEW w \in Workers, FinishTest(w)
    PROVE  Inv'
  BY MoveInv DEF FinishTest, At, WorkerStates, SameRole, Carrying, Destroying

-----------------------------------------------------------------------------
(* The invariant holds initially, after every step and so forever.         *)

(* The constructor leaves empty queues, no job and no thread waiting. *)
LEMMA InitInv == Init => Inv
<1> SUFFICES ASSUME Init PROVE Inv
  OBVIOUS
<1> USE DEF Init
<1>1. \A w \in Workers : deque[w] = <<>> /\ deque[w] \in Seq(Jobs) /\ ToSet(deque[w]) = {}
  BY EmptySeq, EmptyDeque
<1>2. IsInjective(<<>>)
  BY DEF IsInjective
<1>3. TypeInv
  <2>1. deque \in [Workers -> Seq(Jobs)] /\ dependents \in [Jobs -> Seq(Jobs)]
    BY EmptySeq
  <2> QED
    BY <2>1, WorkerFacts DEF TypeInv, Stages, WorkerStates, MainStates
<1>4. HoldInv /\ DecInv /\ JobsInv /\ AddInv /\ WaitInv /\ ControlInv
  BY DEF HoldInv, DecInv, JobsInv, AddInv, WaitInv, ControlInv, Holding, Carrying,
         Destroying, Adding, Waiting, Quitting
<1>5. DequesInv
  BY <1>1, <1>2 DEF DequesInv
<1>6. JobsToDoExact
  <2>1. {j \in Jobs : Outstanding(j)} = {}
    BY DEF Outstanding
  <2> QED
    BY <2>1, FS_EmptySet DEF JobsToDoExact
<1>7. FrameBarrier
  BY DEF FrameBarrier, Holding
<1> QED
  BY <1>3, <1>4, <1>5, <1>6, <1>7 DEF Inv, Pointers

(* Every step of a worker keeps the invariant. *)
LEMMA WorkerStepInv ==
    ASSUME Inv, NEW w \in Workers, WorkerStep(w)
    PROVE  Inv'
<1>1. CASE \/ WorkerLoop(w) \/ WaitForAvailableJobs(w) \/ WaitForJobPredicate(w)
           \/ WaitForJobBlock(w) \/ CheckStopped(w)
  BY <1>1, WaitStepsInv
<1>2. CASE WorkerExit(w) \/ FinishNotify(w)
  BY <1>2, NotifyMainInv
<1>3. CASE TryToWorkJob(w)
  BY <1>3, GetJobInv, CanExecuteJobInv, PushAgainInv DEF TryToWorkJob
<1>4. CASE StealJob(w)
  BY <1>4, StealFromInv, StealInv, StealPushInv DEF StealJob
<1>5. CASE ExecuteReturn(w)
  BY <1>5, ExecuteReturnInv
<1>6. CASE Finish(w)
  BY <1>6, <1>2, DtorDecrementInv, DtorTestInv, DtorNotifyInv, DtorReturnInv,
     FinishDecrementInv, FinishTestInv DEF Finish
<1> QED
  BY <1>1, <1>2, <1>3, <1>4, <1>5, <1>6 DEF WorkerStep

(* Every step of main_runner keeps the invariant. *)
LEMMA MainStepInv ==
    ASSUME Inv, MainStep
    PROVE  Inv'
<1>1. CASE BuildStep
  <2>1. ASSUME NEW d \in MayDepend, AddDependency(d[1], d[2]) PROVE Inv'
    <3>1. d[1] \in Jobs /\ d[2] \in Jobs
      OBVIOUS
    <3> QED
      BY <2>1, <3>1, AddDependencyInv
  <2> QED
    BY <1>1, <2>1, CreateJobInv, AddJobCountInv, LoopStepsInv DEF BuildStep
<1>2. CASE AddJobQueue \/ AddJobPush \/ AddJobNotify
  BY <1>2, AddJobQueueInv, AddJobPushInv, AddJobNotifyInv
<1>3. CASE WakeAll
  BY <1>3, WakeAllInv
<1> QED
  BY <1>1, <1>2, <1>3, LoopStepsInv DEF MainStep

(* A stuttering step keeps the invariant. *)
LEMMA StutterInv ==
    ASSUME Inv, UNCHANGED vars
    PROVE  Inv'
<1> USE DEF vars, control, jobVars, workerVars, mainVars, mainLocals
<1>1. TypeInv' /\ WaitInv' /\ FrameBarrier' /\ ControlInv'
  BY DEF Inv, TypeInv, WaitInv, Fresh, FrameBarrier, ControlInv
<1>2. \A w \in Workers : SameRole(wpc[w], wpc'[w])
  BY DEF SameRole
<1>3. Pointers'
  BY <1>2, QuietPointers DEF Inv, TypeInv
<1> QED
  BY <1>1, <1>3 DEF Inv

(* The invariant is inductive. *)
LEMMA NextInv == Inv /\ [Next]_vars => Inv'
<1> SUFFICES ASSUME Inv, [Next]_vars PROVE Inv'
  OBVIOUS
<1>1. ASSUME NEW w \in Workers, WorkerStep(w) PROVE Inv'
  BY <1>1, WorkerStepInv
<1>2. CASE MainStep
  BY <1>2, MainStepInv
<1>3. CASE SpuriousWakeup
  BY <1>3, WaitStepsInv, LoopStepsInv DEF SpuriousWakeup
<1>4. CASE UserQuit
  BY <1>4, UserQuitInv
<1>5. CASE UNCHANGED vars
  BY <1>5, StutterInv
<1> QED
  BY <1>1, <1>2, <1>3, <1>4, <1>5 DEF Next, Terminated

(* The invariant holds in every reachable state, for every number of       *)
(* workers and any finite set of jobs.                                     *)
THEOREM JobSystemInvariant == Spec => []Inv
  BY InitInv, NextInv, PTL DEF Spec

-----------------------------------------------------------------------------
(* The properties that follow from the invariant.                          *)

(* jobsToDo is exact in every reachable state (AddJob, Finish). *)
THEOREM JobsToDoAlwaysExact == Spec => []JobsToDoExact
<1>1. Inv => JobsToDoExact
  BY DEF Inv, Pointers
<1> QED
  BY <1>1, JobSystemInvariant, PTL

(* The frame loop never goes round with a job of the last frame left       *)
(* (WaitForAllJobs, main.cpp:185).                                         *)
THEOREM FrameBarrierAlwaysHolds == Spec => []FrameBarrier
<1>1. Inv => FrameBarrier
  BY DEF Inv
<1> QED
  BY <1>1, JobSystemInvariant, PTL

(* Job::queue is the queue the job is stored in, whatever is popped,       *)
(* stolen and pushed again.                                                *)
THEOREM QueuePointerAlwaysExact == Spec => []QueuePointerExact
<1>1. Inv => QueuePointerExact
  BY DEF Inv, Pointers, DequesInv, HoldInv, Holding, Carrying, Destroying,
         QueuePointerExact, ToSet
<1> QED
  BY <1>1, JobSystemInvariant, PTL

(* A pushed job that is not finished is in exactly one place, whatever the *)
(* number of workers.                                                      *)
LEMMA InOnePlaceFollows == Inv => InOnePlace
<1> SUFFICES ASSUME Inv, NEW j \in Jobs
             PROVE  IF Outstanding(j) /\ ~(mjob = j /\ mpc \in {"addQueue", "addPush"})
                    THEN \E w \in Workers :
                            /\ \E i \in PlacesAt(w, j) : PlacesAt(w, j) = {i}
                            /\ \A v \in Workers \ {w} : PlacesAt(v, j) = {}
                    ELSE \A w \in Workers : PlacesAt(w, j) = {}
  BY DEF InOnePlace
<1> DEFINE Held(w) == wpc[w] \in Holding /\ wjob[w] = j
<1>1. ASSUME NEW w \in Workers
      PROVE  /\ PlacesAt(w, j) = {} <=> j \notin ToSet(deque[w]) /\ ~Held(w)
             /\ j \in ToSet(deque[w]) /\ ~Held(w) =>
                   \E i \in PlacesAt(w, j) : PlacesAt(w, j) = {i}
             /\ j \notin ToSet(deque[w]) /\ Held(w) =>
                   \E i \in PlacesAt(w, j) : PlacesAt(w, j) = {i}
  <2>1. IsInjective(deque[w])
    BY DEF Inv, Pointers, DequesInv
  <2>2. j \notin ToSet(deque[w]) => {i \in DOMAIN deque[w] : deque[w][i] = j} = {}
    BY DEF ToSet
  <2>3. j \in ToSet(deque[w]) =>
           \E i \in DOMAIN deque[w] : {k \in DOMAIN deque[w] : deque[w][k] = j} = {i}
    BY <2>1 DEF ToSet, IsInjective
  <2>4. ~Held(w) => {i \in {0} : wpc[w] \in Holding /\ wjob[w] = j} = {}
    OBVIOUS
  <2>5. Held(w) => {i \in {0} : wpc[w] \in Holding /\ wjob[w] = j} = {0}
    OBVIOUS
  <2> QED
    BY <2>2, <2>3, <2>4, <2>5 DEF PlacesAt
<1>2. ASSUME NEW w \in Workers
      PROVE  /\ j \in ToSet(deque[w]) => life[j] = "live" /\ queue[j] = w /\ ~Held(w)
             /\ Held(w) => /\ j \notin ToSet(deque[w])
                           /\ \/ life[j] # "absent" /\ queue[j] = w
                              \/ life[j] = "absent" /\ wpc[w] = "dec"
  BY DEF Inv, Pointers, DequesInv, HoldInv, Holding, Carrying, Destroying
<1>3. ASSUME NEW w \in Workers, j \in ToSet(deque[w]) \/ Held(w), NEW v \in Workers \ {w}
      PROVE  j \notin ToSet(deque[v]) /\ ~Held(v)
  BY <1>2, <1>3 DEF Inv, Pointers, DecInv
<1>4. CASE Outstanding(j) /\ ~(mjob = j /\ mpc \in {"addQueue", "addPush"})
  <2>1. PICK w \in Workers : j \in ToSet(deque[w]) \/ Held(w)
    <3>1. CASE \E w \in Workers : wpc[w] = "dec" /\ wjob[w] = j
      BY <3>1 DEF Holding
    <3>2. CASE queue[j] # NoQueue
      <4>1. queue[j] \in Workers
        BY <3>2 DEF Inv, TypeInv
      <4>2. j \in ToSet(deque[queue[j]]) \/ wjob[queue[j]] = j
        BY <1>4, <3>2 DEF Inv, TypeInv, Stages, Pointers, JobsInv
      <4>3. wjob[queue[j]] = j => Held(queue[j])
        BY <4>1 DEF Inv, Pointers, HoldInv
      <4> QED
        BY <4>1, <4>2, <4>3
    <3> QED
      BY <1>4, <3>1, <3>2 DEF Outstanding
  <2>2. \A v \in Workers \ {w} : PlacesAt(v, j) = {}
    BY <1>1, <1>3, <2>1
  <2>3. \E i \in PlacesAt(w, j) : PlacesAt(w, j) = {i}
    BY <1>1, <1>2, <2>1
  <2> QED
    BY <1>4, <2>2, <2>3
<1>5. CASE ~(Outstanding(j) /\ ~(mjob = j /\ mpc \in {"addQueue", "addPush"}))
  <2>1. ASSUME NEW w \in Workers PROVE j \notin ToSet(deque[w]) /\ ~Held(w)
    <3>1. CASE ~Outstanding(j)
      BY <1>2, <3>1, WorkerFacts DEF Outstanding
    <3>2. CASE mjob = j /\ mpc = "addQueue"
      BY <1>2, <3>2, WorkerFacts DEF Inv, Pointers, AddInv, Fresh
    <3>3. CASE mjob = j /\ mpc = "addPush"
      BY <1>2, <3>3 DEF Inv, Pointers, AddInv
    <3> QED
      BY <1>5, <3>1, <3>2, <3>3
  <2> QED
    BY <1>1, <1>5, <2>1
<1> QED
  BY <1>4, <1>5

(* No job is ever lost or doubled on its way from Push to delete (Pop,     *)
(* Steal, Push, Finish).                                                   *)
THEOREM JobsAlwaysInOnePlace == Spec => []InOnePlace
  BY InOnePlaceFollows, JobSystemInvariant, PTL

(* A hang is always a lost wake-up: the condition variables are the only   *)
(* way this system stops for good.                                         *)
THEOREM HangAlwaysMeansStranded == Spec => []HangMeansStranded
<1>1. ASSUME Inv, process = "up", mpc \in {"asleep", "join"},
             \A w \in Workers : wpc[w] \in {"asleep", "done"},
             ~(mpc = "join" /\ \A w \in Workers : wpc[w] = "done")
      PROVE  Stranded
  <2>1. CASE mpc = "join"
    BY <1>1, <2>1 DEF Stranded, Inv, ControlInv, Quitting
  <2>2. CASE mpc = "asleep" /\ (~isRunning \/ jobsToDo = 0)
    BY <2>2 DEF Stranded
  <2>3. CASE mpc = "asleep" /\ isRunning /\ jobsToDo # 0
    <3>1. \A w \in Workers : wpc[w] = "asleep"
      BY <1>1, <2>3 DEF Inv, ControlInv
    <3>2. PICK j \in Jobs : Outstanding(j)
      <4>1. CASE \A j \in Jobs : ~Outstanding(j)
        <5>1. {j \in Jobs : Outstanding(j)} = {}
          BY <4>1
        <5> QED
          BY <1>1, <2>3, <5>1, FS_EmptySet DEF Inv, Pointers, JobsToDoExact
      <4> QED
        BY <4>1
    <3>3. queue[j] # NoQueue /\ queue[j] \in Workers
      BY <1>1, <2>3, <3>1, <3>2 DEF Outstanding, Inv, TypeInv
    <3>4. wjob[queue[j]] # j
      BY <1>1, <3>1, <3>3 DEF Inv, Pointers, HoldInv, Holding
    <3>5. j \in ToSet(deque[queue[j]])
      BY <1>1, <2>3, <3>3, <3>4 DEF Inv, TypeInv, Stages, Pointers, JobsInv
    <3>6. deque[queue[j]] # <<>>
      BY <1>1, <3>3, <3>5, EmptyDeque DEF Inv, TypeInv
    <3> QED
      BY <3>1, <3>3, <3>6 DEF Stranded
  <2> QED
    BY <1>1, <2>1, <2>2, <2>3
<1>2. Inv => HangMeansStranded
  BY <1>1 DEF HangMeansStranded
<1> QED
  BY <1>2, JobSystemInvariant, PTL


(* Once isRunning is false no step of any thread brings a worker that is   *)
(* done with a job back to popping one.                                    *)
LEMMA QuitterStops ==
    ASSUME Inv, [Next]_vars, ~isRunning,
           NEW w \in Workers, wpc[w] \in Finishing
    PROVE  wpc'[w] \in Finishing \cup {"exit"}
<1> USE DEF Finishing
<1>1. wpc \in [Workers -> WorkerStates] /\ queue \in [Jobs -> Workers \cup {NoQueue}]
  BY DEF Inv, TypeInv
<1>2. ASSUME NEW q, NEW pc \in [Workers -> WorkerStates], pc[w] \in Finishing
      PROVE  NotifyOne(pc, q)[w] = pc[w]
  BY <1>2 DEF NotifyOne
<1>3. ASSUME NEW v \in Workers, WorkerStep(v), v = w PROVE wpc'[w] \in Finishing \cup {"exit"}
  BY <1>1, <1>3
  DEF WorkerStep, WorkerLoop, WaitForAvailableJobs, WaitForJobPredicate, WaitForJobBlock,
      CheckStopped, WorkerExit, TryToWorkJob, GetJob, CanExecuteJob, PushAgain, StealJob,
      StealFrom, Steal, StealPush, ExecuteReturn, Finish, DtorDecrement, DtorTest,
      DtorNotify, DtorNotifyFreed, DtorReturn, FinishDecrement, FinishTest, FinishNotify,
      At, Move, Goto
<1>4. ASSUME NEW v \in Workers, WorkerStep(v), v # w PROVE wpc'[w] = wpc[w]
  <2>1. CASE DtorNotify(v) \/ DtorNotifyFreed(v)
    <3> DEFINE pc == [wpc EXCEPT ![v] = "dtor"]
    <3>1. pc \in [Workers -> WorkerStates] /\ pc[w] = wpc[w]
      BY <1>1, <1>4 DEF WorkerStates
    <3>2. wpc' = wpc \/ \E q : wpc' = NotifyOne(pc, q)
      BY <2>1 DEF DtorNotify, DtorNotifyFreed
    <3> HIDE DEF pc
    <3> QED
      BY <1>2, <3>1, <3>2
  <2>2. CASE ~(DtorNotify(v) \/ DtorNotifyFreed(v))
    BY <1>1, <1>4, <2>2
    DEF WorkerStep, WorkerLoop, WaitForAvailableJobs, WaitForJobPredicate, WaitForJobBlock,
        CheckStopped, WorkerExit, TryToWorkJob, GetJob, CanExecuteJob, PushAgain, StealJob,
        StealFrom, Steal, StealPush, ExecuteReturn, Finish, DtorDecrement, DtorTest,
        DtorReturn, FinishDecrement, FinishTest, FinishNotify, Move, Goto
  <2> QED
    BY <2>1, <2>2
<1>5. ASSUME MainStep PROVE wpc'[w] = wpc[w]
  <2>1. CASE AddJobNotify \/ WakeAll
    BY <1>1, <1>2, <2>1 DEF AddJobNotify, WakeAll
  <2>2. CASE ~(AddJobNotify \/ WakeAll)
    BY <1>5, <2>2
    DEF MainStep, FrameLoop, BuildStep, CreateJob, AddDependency, AddJobCount, WaitForAllJobs,
        AddJobQueue, AddJobPush, AllJobsDonePredicate, AllJobsDoneBlock, JoinJobsStopRunning,
        JoinJobsSetStopped, JoinWorkers, MainMove, workerVars
  <2> QED
    BY <2>1, <2>2
<1>6. ASSUME SpuriousWakeup PROVE wpc'[w] = wpc[w]
  BY <1>1, <1>6 DEF SpuriousWakeup, WaitForJobSpurious, AllJobsDoneSpurious, At, Move, Goto,
                    MainMove, workerVars
<1>7. UserQuit \/ UNCHANGED vars => wpc' = wpc
  BY DEF UserQuit, vars, workerVars
<1> QED
  BY <1>3, <1>4, <1>5, <1>6, <1>7 DEF Next, Terminated

(* Quitting costs a worker at most the job it is in (Worker's loop test).  *)
THEOREM StopIsAlwaysPrompt == Spec => StopIsPrompt
<1>1. Inv /\ [Next]_vars =>
         [\A w \in Workers :
            ~isRunning /\ wpc[w] \in Finishing => wpc'[w] \in Finishing \cup {"exit"}]_vars
  BY QuitterStops
<1> QED
  BY <1>1, JobSystemInvariant, PTL DEF Spec, StopIsPrompt

-----------------------------------------------------------------------------
(* The dependency counts: the reference counting that decides when a job may *)
(* run, for every number of workers and every graph.                         *)

(***************************************************************************)
(* The inductive invariant on top of Inv.  A freed job has no dependent    *)
(* and no dependency left, the loop of ~Job starts at the first dependent, *)
(* and a job that runs or is destroyed waits for nobody.                   *)
(***************************************************************************)
GraphInv ==
    \A j \in Jobs :
        /\ life[j] = "absent" => dependents[j] = <<>> /\ dependencyCount[j] = 0
        /\ life[j] # "dying" => released[j] = 0
        /\ released[j] <= Len(dependents[j])
        /\ Len(dependents[j]) <= MaxDependents

Running == {"exec"} \cup Destroying

RunInv == \A w \in Workers : wpc[w] \in Running => dependencyCount[wjob[w]] = 0

DepInv == Inv /\ GraphInv /\ RunInv /\ DependencyCountExact

(* Membership in Pending, entry by entry. *)
LEMMA PendingEntry ==
    ASSUME NEW j \in Jobs, NEW k \in Jobs, NEW i \in 1 .. MaxDependents
    PROVE  <<k, i>> \in Pending(j) <=>
              i \in released[k] + 1 .. Len(dependents[k]) /\ dependents[k][i] = j
  BY DEF Pending

(* The same, to tell what Pending is after a step. *)
LEMMA PendingNext ==
    ASSUME NEW j \in Jobs, NEW T \in SUBSET (Jobs \X (1 .. MaxDependents)),
           \A k \in Jobs : \A i \in 1 .. MaxDependents :
              <<k, i>> \in T <=> /\ i \in released'[k] + 1 .. Len(dependents'[k])
                                 /\ dependents'[k][i] = j
    PROVE  Pending(j)' = T
<1> DEFINE U == Pending(j)'
<1>1. U \in SUBSET (Jobs \X (1 .. MaxDependents))
  BY DEF Pending
<1>2. \A k \in Jobs : \A i \in 1 .. MaxDependents : <<k, i>> \in U <=> <<k, i>> \in T
  BY DEF Pending
<1> HIDE DEF U
<1>3. U = T
  <2>1. ASSUME NEW e \in Jobs \X (1 .. MaxDependents) PROVE e \in U <=> e \in T
    <3>1. PICK k \in Jobs, i \in 1 .. MaxDependents : e = <<k, i>>
      OBVIOUS
    <3> QED
      BY <1>2, <3>1
  <2> QED
    BY <1>1, <2>1
<1> QED
  BY <1>3 DEF U

(* A pending entry is a job and a position in its dependents array. *)
LEMMA PendingSubset ==
    ASSUME NEW j \in Jobs
    PROVE  Pending(j) \in SUBSET (Jobs \X (1 .. MaxDependents))
  BY DEF Pending

(* There are finitely many pending entries, so they can be counted. *)
LEMMA PendingFinite ==
    ASSUME NEW j \in Jobs
    PROVE  IsFiniteSet(Pending(j)) /\ Cardinality(Pending(j)) \in Nat
<1>1. IsFiniteSet(Jobs \X (1 .. MaxDependents))
  <2>1. IsFiniteSet(1 .. MaxDependents)
    BY FS_Interval
  <2> QED
    BY <2>1, FS_Product
<1>2. Pending(j) \in SUBSET (Jobs \X (1 .. MaxDependents))
  BY PendingSubset
<1> QED
  BY <1>1, <1>2, FS_Subset, FS_CardinalityType

(* A job with a pending entry has a positive count, and one with a count   *)
(* of zero has none.                                                       *)
LEMMA PendingPositive ==
    ASSUME DependencyCountExact, NEW j \in Jobs
    PROVE  dependencyCount[j] \in Nat /\ (dependencyCount[j] = 0 <=> Pending(j) = {})
  BY PendingFinite, FS_EmptySet DEF DependencyCountExact

(* Nothing changes in the graph if none of its variables does. *)
LEMMA GraphStays ==
    ASSUME GraphInv, DependencyCountExact,
           UNCHANGED <<life, dependencyCount, dependents, released>>
    PROVE  GraphInv' /\ DependencyCountExact'
  BY DEF GraphInv, DependencyCountExact, Pending

(***************************************************************************)
(* The steps that change the graph.                                        *)
(***************************************************************************)
(* AddDependency adds one entry, for the dependent. *)
LEMMA AddDependencyGraph ==
    ASSUME DepInv, NEW x \in Jobs, NEW y \in Jobs, AddDependency(x, y)
    PROVE  GraphInv' /\ RunInv' /\ DependencyCountExact'
<1>1. /\ dependents \in [Jobs -> Seq(Jobs)] /\ dependencyCount \in [Jobs -> Int]
      /\ released \in [Jobs -> Nat] /\ life \in [Jobs -> Stages]
      /\ wpc \in [Workers -> WorkerStates]
  BY DEF DepInv, Inv, TypeInv
<1>2. /\ Fresh(x) /\ Fresh(y)
      /\ UNCHANGED <<life, released, wpc, wjob>>
  BY DEF AddDependency, workerVars
<1>3. PICK n \in Nat : n = Len(dependents[y])
  BY <1>1, LenProperties
<1>4. CASE UNCHANGED <<dependents, dependencyCount>>
  BY <1>2, <1>4, GraphStays DEF DepInv, RunInv
<1>5. CASE /\ n <= MaxDependents - 1
           /\ dependents' = [dependents EXCEPT ![y] = Append(dependents[y], x)]
           /\ dependencyCount' = [dependencyCount EXCEPT ![x] = dependencyCount[x] + 1]
  <2>1. PICK longer : /\ longer = Append(dependents[y], x)
                      /\ Len(longer) = n + 1 /\ n + 1 \in 1 .. MaxDependents
                      /\ \A i \in 1 .. n : longer[i] = dependents[y][i]
                      /\ longer[n + 1] = x
    <3>1. dependents[y] \in Seq(Jobs) /\ n + 1 \in 1 .. MaxDependents
      BY <1>1, <1>3, <1>5
    <3>2. PICK longer \in Seq(Jobs) : longer = Append(dependents[y], x)
      BY <3>1, AppendProperties
    <3>3. /\ Len(longer) = n + 1 /\ longer[n + 1] = x
          /\ \A i \in 1 .. n : longer[i] = dependents[y][i]
      BY <1>3, <3>1, <3>2, AppendProperties
    <3> QED
      BY <3>1, <3>2, <3>3
  <2>2. \A k \in Jobs : dependents'[k] = IF k = y THEN longer ELSE dependents[k]
    BY <1>1, <1>5, <2>1
  <2>3. \A k \in Jobs : dependencyCount'[k] = IF k = x THEN dependencyCount[x] + 1 ELSE dependencyCount[k]
    BY <1>1, <1>5
  <2>4. released[y] = 0 /\ life[y] = "live" /\ life[x] = "live"
    BY <1>2 DEF Fresh, DepInv, GraphInv
  <2>5. GraphInv'
    <3> SUFFICES ASSUME NEW k \in Jobs
                 PROVE  /\ life[k] = "absent" => dependents'[k] = <<>> /\ dependencyCount'[k] = 0
                        /\ life[k] # "dying" => released[k] = 0
                        /\ released[k] <= Len(dependents'[k])
                        /\ Len(dependents'[k]) <= MaxDependents
      BY <1>2 DEF GraphInv
    <3>1. life[k] = "absent" => k # x /\ k # y
      BY <2>4
    <3>2. CASE k = y
      <4>1. dependents'[k] = longer
        BY <2>2, <3>2
      <4>2. Len(dependents'[k]) = n + 1 /\ n + 1 <= MaxDependents /\ n + 1 >= 0
        BY <1>3, <2>1, <4>1
      <4> QED
        BY <2>4, <3>1, <3>2, <4>2
    <3>3. CASE k # y
      BY <2>2, <2>3, <3>1, <3>3 DEF DepInv, GraphInv
    <3> QED
      BY <3>2, <3>3
  <2>6. RunInv'
    <3> SUFFICES ASSUME NEW w \in Workers, wpc[w] \in Running
                 PROVE  dependencyCount'[wjob[w]] = 0
      BY <1>2 DEF RunInv
    <3>1. wjob[w] \in Jobs /\ wjob[w] # x
      BY <1>2, WorkerFacts
      DEF Fresh, DepInv, Inv, TypeInv, Pointers, HoldInv, Running, Carrying, Destroying, Holding
    <3> QED
      BY <2>3, <3>1 DEF DepInv, RunInv
  <2>7. Pending(x)' = Pending(x) \cup {<<y, n + 1>>} /\ <<y, n + 1>> \notin Pending(x)
    <3>1. /\ Pending(x) \cup {<<y, n + 1>>} \in SUBSET (Jobs \X (1 .. MaxDependents))
          /\ <<y, n + 1>> \notin Pending(x)
      BY <1>3, <2>1, PendingSubset, PendingEntry
    <3>2. ASSUME NEW k \in Jobs, NEW i \in 1 .. MaxDependents
          PROVE  <<k, i>> \in Pending(x) \cup {<<y, n + 1>>} <=>
                    /\ i \in released'[k] + 1 .. Len(dependents'[k])
                    /\ dependents'[k][i] = x
      <4>1. <<k, i>> \in Pending(x) <=>
               i \in released[k] + 1 .. Len(dependents[k]) /\ dependents[k][i] = x
        BY PendingEntry
      <4>2. CASE k = y
        <5>1. released'[k] = 0 /\ released[k] = 0 /\ dependents'[k] = longer
          BY <1>2, <2>2, <2>4, <4>2
        <5>2. i \in Nat /\ (i \in 1 .. n + 1 <=> i \in 1 .. n \/ i = n + 1)
          BY <1>3
        <5> QED
          BY <1>3, <2>1, <4>1, <4>2, <5>1, <5>2
      <4>3. CASE k # y
        BY <1>2, <2>2, <4>1, <4>3
      <4> QED
        BY <4>2, <4>3
    <3> QED
      BY <3>1, <3>2, PendingNext
  <2>8. ASSUME NEW k \in Jobs, k # x PROVE Pending(k)' = Pending(k)
    <3>1. ASSUME NEW l \in Jobs, NEW i \in 1 .. MaxDependents
          PROVE  <<l, i>> \in Pending(k) <=>
                    /\ i \in released'[l] + 1 .. Len(dependents'[l])
                    /\ dependents'[l][i] = k
      <4>1. <<l, i>> \in Pending(k) <=>
               i \in released[l] + 1 .. Len(dependents[l]) /\ dependents[l][i] = k
        BY PendingEntry
      <4>2. CASE l = y
        <5>1. released'[l] = 0 /\ released[l] = 0 /\ dependents'[l] = longer
          BY <1>2, <2>2, <2>4, <4>2
        <5>2. i \in Nat /\ (i \in 1 .. n + 1 <=> i \in 1 .. n \/ i = n + 1)
          BY <1>3
        <5> QED
          BY <1>3, <2>1, <2>8, <4>1, <4>2, <5>1, <5>2
      <4>3. CASE l # y
        BY <1>2, <2>2, <4>1, <4>3
      <4> QED
        BY <4>2, <4>3
    <3> QED
      BY <3>1, PendingSubset, PendingNext
  <2>9. DependencyCountExact'
    <3>1. dependencyCount'[x] = Cardinality(Pending(x)')
      <4>1. IsFiniteSet(Pending(x)) /\ dependencyCount[x] = Cardinality(Pending(x))
        BY PendingFinite DEF DepInv, DependencyCountExact
      <4>2. Cardinality(Pending(x) \cup {<<y, n + 1>>}) = Cardinality(Pending(x)) + 1
        BY <2>7, <4>1, FS_AddElement
      <4> QED
        BY <2>3, <2>7, <4>1, <4>2
    <3>2. ASSUME NEW k \in Jobs, k # x PROVE dependencyCount'[k] = Cardinality(Pending(k)')
      BY <2>3, <2>8, <3>2 DEF DepInv, DependencyCountExact
    <3> QED
      BY <3>1, <3>2 DEF DependencyCountExact
  <2> QED
    BY <2>5, <2>6, <2>9
<1>6. \/ UNCHANGED <<dependents, dependencyCount>>
      \/ /\ ~(n > MaxDependents - 1)
         /\ dependents' = [dependents EXCEPT ![y] = Append(dependents[y], x)]
         /\ dependencyCount' = [dependencyCount EXCEPT ![x] = dependencyCount[x] + 1]
  BY <1>3 DEF AddDependency
<1> QED
  BY <1>4, <1>5, <1>6

(* ~Job takes one entry away, that of the dependent it counts down. *)
LEMMA DtorDecrementGraph ==
    ASSUME DepInv, NEW w \in Workers, DtorDecrement(w)
    PROVE  GraphInv' /\ RunInv' /\ DependencyCountExact'
<1>1. /\ dependents \in [Jobs -> Seq(Jobs)] /\ dependencyCount \in [Jobs -> Int]
      /\ released \in [Jobs -> Nat] /\ wpc \in [Workers -> WorkerStates]
  BY DEF DepInv, Inv, TypeInv
<1>2. PICK job \in Jobs : job = wjob[w] /\ wpc[w] = "dtor" /\ life[job] = "dying"
  BY DEF DtorDecrement, At, DepInv, Inv, TypeInv, Pointers, HoldInv, Holding, Destroying
<1>3. PICK i \in Nat : i = released[job] + 1
  BY <1>1
<1>4. /\ i \in 1 .. Len(dependents[job]) /\ i \in 1 .. MaxDependents
      /\ dependents[job][i] \in Jobs
  <2>1. released[job] < Len(dependents[job])
    BY <1>2 DEF DtorDecrement, DependentsLeft
  <2>2. Len(dependents[job]) \in Nat /\ Len(dependents[job]) <= MaxDependents
    BY <1>1, LenProperties DEF DepInv, GraphInv
  <2>3. i \in 1 .. Len(dependents[job])
    BY <1>1, <1>3, <2>1, <2>2
  <2> QED
    BY <1>1, <2>2, <2>3, ElementOfSeq
<1>5. PICK d \in Jobs : d = dependents[job][i]
  BY <1>4
<1>6. /\ dependencyCount' = [dependencyCount EXCEPT ![d] = dependencyCount[d] - 1]
      /\ released' = [released EXCEPT ![job] = i]
      /\ wpc' = [wpc EXCEPT ![w] = "dtorTest"]
      /\ UNCHANGED <<life, dependents, wjob>>
  BY <1>2, <1>3, <1>5 DEF DtorDecrement, Goto
<1>7. /\ \A k \in Jobs : dependencyCount'[k] = IF k = d THEN dependencyCount[d] - 1 ELSE dependencyCount[k]
      /\ \A k \in Jobs : released'[k] = IF k = job THEN i ELSE released[k]
      /\ \A v \in Workers : wpc'[v] = IF v = w THEN "dtorTest" ELSE wpc[v]
  BY <1>1, <1>6
<1>8. <<job, i>> \in Pending(d) /\ dependencyCount[d] # 0
  <2>1. <<job, i>> \in Pending(d)
    BY <1>1, <1>3, <1>4, <1>5, PendingEntry
  <2> QED
    BY <2>1, PendingPositive DEF DepInv
<1>9. GraphInv'
  <2> SUFFICES ASSUME NEW k \in Jobs
               PROVE  /\ life[k] = "absent" => dependents[k] = <<>> /\ dependencyCount'[k] = 0
                      /\ life[k] # "dying" => released'[k] = 0
                      /\ released'[k] <= Len(dependents[k])
                      /\ Len(dependents[k]) <= MaxDependents
    BY <1>6 DEF GraphInv
  <2> QED
    BY <1>2, <1>4, <1>7, <1>8 DEF DepInv, GraphInv
<1>10. RunInv'
  <2> SUFFICES ASSUME NEW v \in Workers, wpc'[v] \in Running
               PROVE  dependencyCount'[wjob[v]] = 0
    BY <1>6 DEF RunInv
  <2>1. wpc[v] \in Running
    BY <1>2, <1>7 DEF Running, Destroying
  <2>2. wjob[v] \in Jobs /\ dependencyCount[wjob[v]] = 0
    BY <2>1 DEF DepInv, RunInv, Inv, TypeInv, Pointers, HoldInv, Running, Destroying, Holding
  <2> QED
    BY <1>7, <1>8, <2>2
<1>11. Pending(d)' = Pending(d) \ {<<job, i>>}
  <2>1. ASSUME NEW k \in Jobs, NEW m \in 1 .. MaxDependents
        PROVE  <<k, m>> \in Pending(d) \ {<<job, i>>} <=>
                  /\ m \in released'[k] + 1 .. Len(dependents'[k])
                  /\ dependents'[k][m] = d
    <3>1. <<k, m>> \in Pending(d) <=>
             m \in released[k] + 1 .. Len(dependents[k]) /\ dependents[k][m] = d
      BY PendingEntry
    <3>2. CASE k = job
      BY <1>1, <1>3, <1>6, <1>7, <3>1, <3>2, LenProperties, SMTT(30)
    <3>3. CASE k # job
      BY <1>6, <1>7, <3>1, <3>3
    <3> QED
      BY <3>2, <3>3
  <2> QED
    BY <2>1, PendingSubset, PendingNext
<1>12. ASSUME NEW k \in Jobs, k # d PROVE Pending(k)' = Pending(k)
  <2>1. ASSUME NEW l \in Jobs, NEW m \in 1 .. MaxDependents
        PROVE  <<l, m>> \in Pending(k) <=>
                  /\ m \in released'[l] + 1 .. Len(dependents'[l])
                  /\ dependents'[l][m] = k
    <3>1. <<l, m>> \in Pending(k) <=>
             m \in released[l] + 1 .. Len(dependents[l]) /\ dependents[l][m] = k
      BY PendingEntry
    <3>2. CASE l = job
      BY <1>1, <1>3, <1>5, <1>6, <1>7, <1>12, <3>1, <3>2, LenProperties, SMTT(30)
    <3>3. CASE l # job
      BY <1>6, <1>7, <3>1, <3>3
    <3> QED
      BY <3>2, <3>3
  <2> QED
    BY <2>1, PendingSubset, PendingNext
<1>13. DependencyCountExact'
  <2>1. dependencyCount'[d] = Cardinality(Pending(d)')
    <3>1. IsFiniteSet(Pending(d)) /\ dependencyCount[d] = Cardinality(Pending(d))
      BY PendingFinite DEF DepInv, DependencyCountExact
    <3>2. Cardinality(Pending(d) \ {<<job, i>>}) = Cardinality(Pending(d)) - 1
      BY <1>8, <3>1, FS_RemoveElement
    <3> QED
      BY <1>7, <1>11, <3>1, <3>2
  <2>2. ASSUME NEW k \in Jobs, k # d PROVE dependencyCount'[k] = Cardinality(Pending(k)')
    BY <1>7, <1>12, <2>2 DEF DepInv, DependencyCountExact
  <2> QED
    BY <2>1, <2>2 DEF DependencyCountExact
<1> QED
  BY <1>9, <1>10, <1>13

(* A memory without pending entries before and after takes nothing away. *)
LEMMA PlaceGraph ==
    ASSUME DepInv, NEW job \in Jobs, NEW stage \in Stages, Place(job, stage),
           released[job] >= Len(dependents[job]), dependencyCount[job] = 0
    PROVE  /\ GraphInv' /\ DependencyCountExact'
           /\ dependencyCount' = dependencyCount
<1>1. /\ dependents \in [Jobs -> Seq(Jobs)] /\ dependencyCount \in [Jobs -> Int]
      /\ released \in [Jobs -> Nat] /\ life \in [Jobs -> Stages]
  BY DEF DepInv, Inv, TypeInv
<1>2. dependencyCount' = dependencyCount
  BY <1>1 DEF Place
<1>3. /\ \A k \in Jobs : life'[k] = IF k = job THEN stage ELSE life[k]
      /\ \A k \in Jobs : dependents'[k] = IF k = job THEN <<>> ELSE dependents[k]
      /\ \A k \in Jobs : released'[k] = IF k = job THEN 0 ELSE released[k]
  BY <1>1 DEF Place
<1>4. Len(<<>>) = 0
  BY EmptySeq
<1>5. GraphInv'
  BY <1>2, <1>3, <1>4 DEF DepInv, GraphInv
<1>6. ASSUME NEW j \in Jobs PROVE Pending(j)' = Pending(j)
  <2>1. ASSUME NEW k \in Jobs, NEW i \in 1 .. MaxDependents
        PROVE  <<k, i>> \in Pending(j) <=>
                  /\ i \in released'[k] + 1 .. Len(dependents'[k])
                  /\ dependents'[k][i] = j
    <3>1. <<k, i>> \in Pending(j) <=>
             i \in released[k] + 1 .. Len(dependents[k]) /\ dependents[k][i] = j
      BY PendingEntry
    <3>2. CASE k = job
      <4>1. <<k, i>> \notin Pending(j)
        BY <1>1, <3>1, <3>2, LenProperties
      <4>2. Len(dependents'[k]) = 0 /\ released'[k] = 0
        BY <1>3, <1>4, <3>2
      <4> QED
        BY <4>1, <4>2
    <3>3. CASE k # job
      BY <1>3, <3>1, <3>3
    <3> QED
      BY <3>2, <3>3
  <2> QED
    BY <2>1, PendingSubset, PendingNext
<1>7. DependencyCountExact'
  BY <1>2, <1>6 DEF DepInv, DependencyCountExact
<1> QED
  BY <1>2, <1>5, <1>7

(* A new job has no edges. *)
LEMMA CreateJobGraph ==
    ASSUME DepInv, NEW job \in Jobs, CreateJob(job)
    PROVE  GraphInv' /\ RunInv' /\ DependencyCountExact'
<1>1. /\ Place(job, "live") /\ "live" \in Stages /\ life[job] = "absent"
      /\ UNCHANGED <<wpc, wjob>>
  BY DEF CreateJob, Stages, workerVars, DepInv, Inv, Pointers, JobsInv
<1>2. released[job] >= Len(dependents[job]) /\ dependencyCount[job] = 0
  <2>1. dependents[job] = <<>> /\ released[job] = 0 /\ dependencyCount[job] = 0
    BY <1>1 DEF DepInv, GraphInv
  <2> QED
    BY <2>1, EmptySeq
<1>3. GraphInv' /\ DependencyCountExact' /\ dependencyCount' = dependencyCount
  BY <1>1, <1>2, PlaceGraph
<1> QED
  BY <1>1, <1>3 DEF DepInv, RunInv

(* delete takes away a job whose dependents are all released. *)
LEMMA DtorReturnGraph ==
    ASSUME DepInv, NEW w \in Workers, DtorReturn(w)
    PROVE  GraphInv' /\ RunInv' /\ DependencyCountExact'
<1>1. PICK job \in Jobs : job = wjob[w] /\ wpc[w] = "dtor"
  BY DEF DtorReturn, At, DepInv, Inv, TypeInv, Pointers, HoldInv, Holding
<1>2. /\ Place(job, "absent") /\ "absent" \in Stages
      /\ wpc' = [wpc EXCEPT ![w] = "dec"] /\ wjob' = wjob
  BY <1>1 DEF DtorReturn, Goto, Stages
<1>3. released[job] >= Len(dependents[job])
  <2>1. released[job] \in Nat /\ Len(dependents[job]) \in Nat
    BY LenProperties DEF DepInv, Inv, TypeInv
  <2>2. ~(released[job] < Len(dependents[job]))
    BY <1>1 DEF DtorReturn, DependentsLeft
  <2> QED
    BY <2>1, <2>2
<1>4. dependencyCount[job] = 0
  BY <1>1 DEF DepInv, RunInv, Running, Destroying
<1>5. GraphInv' /\ DependencyCountExact' /\ dependencyCount' = dependencyCount
  BY <1>2, <1>3, <1>4, PlaceGraph
<1>6. \A v \in Workers : wpc'[v] \in Running => wpc[v] \in Running
  BY <1>2 DEF DepInv, Inv, TypeInv, Running, Destroying
<1> QED
  BY <1>2, <1>5, <1>6 DEF DepInv, RunInv

(* A job returns after its dependencies have: their entries are released. *)
LEMMA ExecuteReturnGraph ==
    ASSUME DepInv, NEW w \in Workers, ExecuteReturn(w)
    PROVE  GraphInv' /\ RunInv' /\ DependencyCountExact'
<1>1. PICK job \in Jobs : job = wjob[w] /\ wpc[w] = "exec" /\ life[job] = "live"
  BY DEF ExecuteReturn, At, DepInv, Inv, TypeInv, Pointers, HoldInv, Holding, Carrying
<1>2. /\ life' = [life EXCEPT ![job] = "dying"]
      /\ wpc' = [wpc EXCEPT ![w] = "dtor"]
      /\ UNCHANGED <<dependencyCount, dependents, released, wjob>>
  BY <1>1 DEF ExecuteReturn, Goto
<1>3. \A k \in Jobs : life'[k] = IF k = job THEN "dying" ELSE life[k]
  BY <1>2 DEF DepInv, Inv, TypeInv
<1>4. GraphInv'
  BY <1>1, <1>2, <1>3 DEF DepInv, GraphInv
<1>5. \A v \in Workers : wpc'[v] \in Running => wpc[v] \in Running
  BY <1>1, <1>2 DEF DepInv, Inv, TypeInv, Running
<1>6. RunInv' /\ DependencyCountExact'
  BY <1>2, <1>5 DEF DepInv, RunInv, DependencyCountExact, Pending
<1> QED
  BY <1>4, <1>6

(***************************************************************************)
(* The steps that leave the graph alone: no worker starts a job but by     *)
(* CanExecuteJob, which has seen a count of zero.                          *)
(***************************************************************************)
LEMMA QuietGraph ==
    ASSUME DepInv, UNCHANGED <<life, dependencyCount, dependents, released>>,
           \A v \in Workers : wpc'[v] \in Running =>
              /\ wjob'[v] = wjob[v]
              /\ wpc[v] \in Running \/ dependencyCount[wjob[v]] = 0
    PROVE  GraphInv' /\ RunInv' /\ DependencyCountExact'
  BY GraphStays DEF DepInv, RunInv

(* A worker that moves to a state in which it holds nothing, or only its   *)
(* job's memory, starts nothing.                                           *)
LEMMA IdleMoveGraph ==
    ASSUME DepInv, NEW w \in Workers, NEW state, state \notin Running,
           wpc' = [wpc EXCEPT ![w] = state],
           \A v \in Workers \ {w} : wjob'[v] = wjob[v],
           UNCHANGED <<life, dependencyCount, dependents, released>>
    PROVE  GraphInv' /\ RunInv' /\ DependencyCountExact'
<1>1. \A v \in Workers : wpc'[v] = IF v = w THEN state ELSE wpc[v]
  BY DEF DepInv, Inv, TypeInv
<1> QED
  BY <1>1, QuietGraph

(* Steps that leave jobs, handles and running functions alone. *)
LEMMA IdleStepsGraph ==
    ASSUME DepInv, NEW w \in Workers,
           \/ WorkerLoop(w) \/ WaitForAvailableJobs(w) \/ WaitForJobPredicate(w)
           \/ WaitForJobBlock(w) \/ WaitForJobSpurious(w) \/ CheckStopped(w)
           \/ WorkerExit(w) \/ FinishNotify(w) \/ FinishTest(w) \/ FinishDecrement(w)
           \/ StealJob(w)
           \/ GetJob(w, "pop1", "can1", "rand") \/ GetJob(w, "pop2", "can2", "loop")
           \/ PushAgain(w, "repush1", "rand") \/ PushAgain(w, "repush2", "loop")
    PROVE  GraphInv' /\ RunInv' /\ DependencyCountExact'
<1> USE DEF Move, Goto, jobVars, Running, Destroying
<1>1. PICK state :
         /\ state \notin Running
         /\ wpc' = [wpc EXCEPT ![w] = state]
         /\ UNCHANGED <<life, dependencyCount, dependents, released>>
         /\ wjob' = wjob \/ \E j : wjob' = [wjob EXCEPT ![w] = j]
  <2>1. CASE \/ WorkerLoop(w) \/ WaitForAvailableJobs(w) \/ WaitForJobPredicate(w)
             \/ WaitForJobBlock(w) \/ WaitForJobSpurious(w) \/ CheckStopped(w)
    BY <2>1 DEF WorkerLoop, WaitForAvailableJobs, WaitForJobPredicate, WaitForJobBlock,
                WaitForJobSpurious, CheckStopped
  <2>2. CASE WorkerExit(w) \/ FinishNotify(w) \/ FinishTest(w) \/ FinishDecrement(w)
    BY <2>2 DEF WorkerExit, FinishNotify, FinishTest, FinishDecrement
  <2>3. CASE StealJob(w)
    BY <2>3 DEF StealJob, StealFrom, Steal, StealPush
  <2>4. CASE GetJob(w, "pop1", "can1", "rand") \/ GetJob(w, "pop2", "can2", "loop")
    BY <2>4 DEF GetJob
  <2>5. CASE PushAgain(w, "repush1", "rand") \/ PushAgain(w, "repush2", "loop")
    BY <2>5 DEF PushAgain
  <2> QED
    BY <2>1, <2>2, <2>3, <2>4, <2>5
<1>2. \A v \in Workers \ {w} : wjob'[v] = wjob[v]
  BY <1>1 DEF DepInv, Inv, TypeInv
<1> QED
  BY <1>1, <1>2, IdleMoveGraph

(* The one way to start a job. *)
LEMMA CanExecuteJobGraph ==
    ASSUME DepInv, NEW w \in Workers, NEW can \in {"can1", "can2"},
           NEW repush \in {"repush1", "repush2"}, CanExecuteJob(w, can, repush)
    PROVE  GraphInv' /\ RunInv' /\ DependencyCountExact'
<1>1. wjob[w] \in Jobs
  BY DEF CanExecuteJob, At, DepInv, Inv, TypeInv, Pointers, HoldInv, Holding
<1>2. ~Blocked(wjob[w]) => dependencyCount[wjob[w]] = 0
  BY <1>1, PendingPositive DEF DepInv, Blocked
<1>3. /\ wpc' = [wpc EXCEPT ![w] = IF Blocked(wjob[w]) THEN repush ELSE "exec"]
      /\ wjob' = wjob /\ UNCHANGED <<life, dependencyCount, dependents, released>>
  BY DEF CanExecuteJob, Move, Goto, jobVars
<1>4. \A v \in Workers :
         wpc'[v] = IF v = w THEN (IF Blocked(wjob[w]) THEN repush ELSE "exec") ELSE wpc[v]
  BY <1>3 DEF DepInv, Inv, TypeInv
<1>5. ASSUME NEW v \in Workers, wpc'[v] \in Running
      PROVE  wpc[v] \in Running \/ dependencyCount[wjob[v]] = 0
  BY <1>2, <1>4, <1>5 DEF Running, Destroying
<1> QED
  BY <1>3, <1>5, QuietGraph

(* The destructor's test and notification leave the graph alone. *)
LEMMA DtorStepsGraph ==
    ASSUME DepInv, NEW w \in Workers, DtorTest(w) \/ DtorNotify(w) \/ DtorNotifyFreed(w)
    PROVE  GraphInv' /\ RunInv' /\ DependencyCountExact'
<1>1. /\ wpc[w] \in Running /\ wjob' = wjob
      /\ UNCHANGED <<life, dependencyCount, dependents, released>>
  BY DEF DtorTest, DtorNotify, DtorNotifyFreed, Move, At, Running, Destroying, jobVars
<1>2. \/ \E state : wpc' = [wpc EXCEPT ![w] = state]
      \/ \E q : wpc' = NotifyOne([wpc EXCEPT ![w] = "dtor"], q)
      \/ wpc' = wpc
  <2>1. CASE DtorTest(w)
    BY <2>1 DEF DtorTest, Move, Goto
  <2>2. CASE DtorNotify(w)
    BY <2>2 DEF DtorNotify
  <2>3. CASE DtorNotifyFreed(w)
    BY <2>3 DEF DtorNotifyFreed
  <2> QED
    BY <2>1, <2>2, <2>3
<1>3. [wpc EXCEPT ![w] = "dtor"] \in [Workers -> WorkerStates]
  BY DEF DepInv, Inv, TypeInv, WorkerStates
<1>4. ASSUME NEW v \in Workers, v # w, wpc'[v] \in Running PROVE wpc[v] \in Running
  <2>1. CASE wpc' = wpc \/ \E state : wpc' = [wpc EXCEPT ![w] = state]
    BY <1>4, <2>1 DEF DepInv, Inv, TypeInv
  <2>2. CASE \E q : wpc' = NotifyOne([wpc EXCEPT ![w] = "dtor"], q)
    <3>1. wpc'[v] # "pred"
      BY <1>4 DEF Running, Destroying
    <3>2. wpc'[v] = [wpc EXCEPT ![w] = "dtor"][v]
      <4>1. PICK q : wpc' = NotifyOne([wpc EXCEPT ![w] = "dtor"], q)
        BY <2>2
      <4>2. ASSUME NEW pc \in [Workers -> WorkerStates], wpc' = NotifyOne(pc, q)
            PROVE  wpc'[v] = pc[v]
        BY <3>1, <4>2, NotifyOneMoves
      <4> QED
        BY <1>3, <4>1, <4>2
    <3> QED
      BY <1>4, <3>2 DEF DepInv, Inv, TypeInv
  <2> QED
    BY <1>2, <2>1, <2>2
<1> QED
  BY <1>1, <1>4, QuietGraph

(* The steps of main_runner that build no graph. *)
LEMMA MainStepsGraph ==
    ASSUME DepInv,
           \/ FrameLoop \/ WaitForAllJobs \/ AllJobsDonePredicate \/ AllJobsDoneBlock
           \/ AllJobsDoneSpurious \/ JoinJobsStopRunning \/ JoinJobsSetStopped
           \/ WakeAll \/ JoinWorkers \/ UserQuit \/ UNCHANGED vars
           \/ AddJobQueue \/ AddJobPush \/ AddJobNotify \/ \E j \in Jobs : AddJobCount(j)
    PROVE  GraphInv' /\ RunInv' /\ DependencyCountExact'
<1> USE DEF MainMove, jobVars, workerVars
<1>1. /\ UNCHANGED <<life, dependencyCount, dependents, released, wjob>>
      /\ wpc' = wpc \/ \E q : wpc' = NotifyOne(wpc, q)
  <2>1. CASE \/ FrameLoop \/ WaitForAllJobs \/ AllJobsDonePredicate \/ AllJobsDoneBlock
             \/ AllJobsDoneSpurious \/ JoinJobsStopRunning \/ JoinJobsSetStopped
             \/ JoinWorkers \/ UserQuit
    BY <2>1 DEF FrameLoop, WaitForAllJobs, AllJobsDonePredicate, AllJobsDoneBlock,
                AllJobsDoneSpurious, JoinJobsStopRunning, JoinJobsSetStopped, JoinWorkers, UserQuit
  <2>2. CASE AddJobQueue \/ AddJobPush \/ \E j \in Jobs : AddJobCount(j)
    BY <2>2 DEF AddJobQueue, AddJobPush, AddJobCount
  <2>3. CASE WakeAll \/ AddJobNotify
    BY <2>3 DEF WakeAll, AddJobNotify
  <2>4. CASE UNCHANGED vars
    BY <2>4 DEF vars
  <2> QED
    BY <2>1, <2>2, <2>3, <2>4
<1>2. \A v \in Workers : wpc'[v] \in Running => wpc[v] \in Running
  <2>1. wpc \in [Workers -> WorkerStates]
    BY DEF DepInv, Inv, TypeInv
  <2>2. \A v \in Workers : wpc'[v] = wpc[v] \/ wpc'[v] = "pred"
    BY <1>1, <2>1, NotifyOneMoves
  <2> QED
    BY <2>2 DEF Running, Destroying
<1> QED
  BY <1>1, <1>2, QuietGraph

-----------------------------------------------------------------------------
(* There is no graph at the start. *)
LEMMA DepInitInv == Init => DepInv
<1> SUFFICES ASSUME Init PROVE DepInv
  OBVIOUS
<1>1. GraphInv /\ RunInv
  BY EmptySeq DEF Init, GraphInv, RunInv, Running, Destroying
<1>2. ASSUME NEW j \in Jobs PROVE Pending(j) = {}
  <2>1. ASSUME NEW k \in Jobs, NEW i \in 1 .. MaxDependents PROVE <<k, i>> \notin Pending(j)
    BY PendingEntry, EmptySeq DEF Init
  <2> QED
    BY <2>1, PendingSubset
<1>3. DependencyCountExact
  BY <1>2, FS_EmptySet DEF Init, DependencyCountExact
<1> QED
  BY <1>1, <1>3, InitInv DEF DepInv

(* The invariant with the graph is inductive. *)
LEMMA DepNextInv == DepInv /\ [Next]_vars => DepInv'
<1> SUFFICES ASSUME DepInv, [Next]_vars PROVE GraphInv' /\ RunInv' /\ DependencyCountExact'
  BY NextInv DEF DepInv
<1>1. ASSUME NEW w \in Workers, WorkerStep(w)
      PROVE  GraphInv' /\ RunInv' /\ DependencyCountExact'
  <2>1. CASE TryToWorkJob(w)
    BY <2>1, IdleStepsGraph, CanExecuteJobGraph DEF TryToWorkJob
  <2>2. CASE Finish(w)
    BY <2>2, IdleStepsGraph, DtorDecrementGraph, DtorStepsGraph, DtorReturnGraph DEF Finish
  <2> QED
    BY <1>1, <2>1, <2>2, IdleStepsGraph, ExecuteReturnGraph DEF WorkerStep
<1>2. CASE MainStep
  <2>1. ASSUME NEW d \in MayDepend, AddDependency(d[1], d[2])
        PROVE  GraphInv' /\ RunInv' /\ DependencyCountExact'
    <3>1. d[1] \in Jobs /\ d[2] \in Jobs
      OBVIOUS
    <3> QED
      BY <2>1, <3>1, AddDependencyGraph
  <2> QED
    BY <1>2, <2>1, CreateJobGraph, MainStepsGraph DEF MainStep, BuildStep
<1>3. CASE SpuriousWakeup
  BY <1>3, IdleStepsGraph, MainStepsGraph DEF SpuriousWakeup
<1>4. CASE UserQuit \/ UNCHANGED vars
  BY <1>4, MainStepsGraph
<1> QED
  BY <1>1, <1>2, <1>3, <1>4 DEF Next, Terminated

(* The dependency graph is well formed and counted in every reachable      *)
(* state (AddDependency, ~Job, CanExecuteJob).                             *)
THEOREM DependencyInvariant == Spec => []DepInv
  BY DepInitInv, DepNextInv, PTL DEF Spec

-----------------------------------------------------------------------------
(* The properties that follow.                                             *)

(* TypeOK in every reachable state; above all, the unsigned counters       *)
(* jobsToDo and dependencyCount never wrap below zero.                     *)
THEOREM TypeAlwaysOK == Spec => []TypeOK
<1>1. ASSUME DepInv PROVE TypeOK
  <2>1. jobsToDo \in Nat
    <3>1. IsFiniteSet({j \in Jobs : Outstanding(j)})
      BY FS_Subset
    <3> QED
      BY <1>1, <3>1, FS_CardinalityType DEF DepInv, Inv, Pointers, JobsToDoExact
  <2>2. dependencyCount \in [Jobs -> Nat]
    <3>1. \A j \in Jobs : dependencyCount[j] \in Nat
      BY <1>1, PendingPositive DEF DepInv
    <3> QED
      BY <1>1, <3>1 DEF DepInv, Inv, TypeInv
  <2> QED
    BY <1>1, <2>1, <2>2 DEF DepInv, Inv, TypeInv, TypeOK
<1> QED
  BY <1>1, DependencyInvariant, PTL

(* dependencyCount is exact over every interleaving of AddDependency and   *)
(* the destructors.                                                        *)
THEOREM DependencyCountAlwaysExact == Spec => []DependencyCountExact
<1>1. DepInv => DependencyCountExact
  BY DEF DepInv
<1> QED
  BY <1>1, DependencyInvariant, PTL

(* A job that runs has a count of zero, so no entry is left for it. *)
LEMMA DependencyOrderFollows == DepInv => DependencyOrder
<1>1. ASSUME DepInv, NEW w \in Workers, wpc[w] = "exec", NEW d \in Dependencies(wjob[w])
      PROVE  Executed(d)
  <2>1. PICK job \in Jobs : job = wjob[w] /\ dependencyCount[job] = 0
    BY <1>1 DEF DepInv, RunInv, Running, Inv, TypeInv, Pointers, HoldInv, Holding
  <2>2. d \in handles /\ d \in Jobs /\ job \in ToSet(dependents[d])
    BY <1>1, <2>1 DEF Dependencies, DepInv, Inv, TypeInv
  <2>3. PICK i \in DOMAIN dependents[d] : dependents[d][i] = job
    BY <2>2 DEF ToSet
  <2>4. i \in 1 .. Len(dependents[d]) /\ Len(dependents[d]) \in Nat /\ i \in 1 .. MaxDependents
    <3>1. dependents[d] \in Seq(Jobs) /\ Len(dependents[d]) <= MaxDependents
      BY <1>1, <2>2 DEF DepInv, GraphInv, Inv, TypeInv
    <3> QED
      BY <2>3, <3>1, LenProperties
  <2>5. CASE life[d] = "live"
    <3>1. released[d] = 0
      BY <1>1, <2>2, <2>5 DEF DepInv, GraphInv
    <3>2. <<d, i>> \in Pending(job)
      BY <2>2, <2>3, <2>4, <3>1, PendingEntry
    <3> QED
      BY <1>1, <2>1, <3>2, PendingPositive DEF DepInv
  <2> QED
    BY <2>2, <2>5 DEF Executed
<1> QED
  BY <1>1 DEF DependencyOrder

(* No job function starts before those of all its dependencies have        *)
(* returned: the guarantee of AddDependency, for every graph.              *)
THEOREM DependencyOrderAlwaysKept == Spec => []DependencyOrder
  BY DependencyOrderFollows, DependencyInvariant, PTL

-----------------------------------------------------------------------------
(* JobSystem implements TaskGraph, for every number of workers and jobs.     *)

(* A worker is in the job function of j. *)
IsRun(j) == \E w \in Workers : wpc[w] = "exec" /\ wjob[w] = j

(* The refinement mapping as a table whose cases exclude one another. *)
StageTable ==
    \A j \in Jobs :
        /\ j \notin handles => StageOf(j) = "none"
        /\ j \in handles /\ life[j] # "live" => StageOf(j) = "done"
        /\ Fresh(j) => StageOf(j) = "created"
        /\ IsRun(j) => StageOf(j) = "running" /\ life[j] = "live" /\ j \in handles /\ ~Fresh(j)
        /\ j \in handles /\ life[j] = "live" /\ ~Fresh(j) /\ ~IsRun(j) => StageOf(j) = "added"

(* What a job's place in the code says about its abstract stage. *)
LEMMA StageCases == DepInv => StageTable
<1> SUFFICES ASSUME DepInv, NEW j \in Jobs
             PROVE  /\ j \notin handles => StageOf(j) = "none"
                    /\ j \in handles /\ life[j] # "live" => StageOf(j) = "done"
                    /\ Fresh(j) => StageOf(j) = "created"
                    /\ IsRun(j) => /\ StageOf(j) = "running" /\ life[j] = "live"
                                   /\ j \in handles /\ ~Fresh(j)
                    /\ j \in handles /\ life[j] = "live" /\ ~Fresh(j) /\ ~IsRun(j) =>
                          StageOf(j) = "added"
  BY DEF StageTable
<1>1. IsRun(j) => life[j] = "live" /\ j \in handles /\ ~Fresh(j)
  BY WorkerFacts DEF IsRun, Fresh, DepInv, Inv, Pointers, HoldInv, JobsInv, Carrying
<1> QED
  BY <1>1 DEF StageOf, Executed, Fresh, IsRun

(* The same after a step. *)
LEMMA StageCasesNext == DepInv' => StageTable'
  BY StageCases, PTL

(* The abstract variables, and their values after a step. *)
StageMap == [j \in Jobs |-> StageOf(j)]
WaitsMap == [j \in Jobs |-> WaitsOf(j)]

(* How the mapping reads after a step. *)
LEMMA MapsNext ==
    /\ StageMap' = [j \in Jobs |-> StageOf(j)'] /\ StageMap = [j \in Jobs |-> StageOf(j)]
    /\ WaitsMap' = [j \in Jobs |-> WaitsOf(j)'] /\ WaitsMap = [j \in Jobs |-> WaitsOf(j)]
  BY DEF StageMap, WaitsMap

(***************************************************************************)
(* Steps the client does not see.                                          *)
(***************************************************************************)
(* The mapping depends on the handles, on the life, queue and dependents   *)
(* of the jobs, and on who is in a job function.                           *)
LEMMA InvisibleStep ==
    ASSUME DepInv, DepInv', UNCHANGED <<handles, dependents>>,
           \A j \in Jobs : life'[j] = "live" <=> life[j] = "live",
           \A j \in Jobs : Fresh(j)' <=> Fresh(j),
           \A j \in Jobs : IsRun(j)' <=> IsRun(j)
    PROVE  UNCHANGED <<StageMap, WaitsMap>>
<1>1. ASSUME NEW j \in Jobs PROVE StageOf(j)' = StageOf(j)
  BY StageCases, StageCasesNext DEF StageTable
<1>2. ASSUME NEW j \in Jobs PROVE WaitsOf(j)' = WaitsOf(j)
  BY DEF WaitsOf
<1> QED
  BY <1>1, <1>2, MapsNext

(* Who is in a job function does not change when no worker enters or       *)
(* leaves one.                                                             *)
LEMMA SameRuns ==
    ASSUME \A w \in Workers : /\ wpc'[w] = "exec" <=> wpc[w] = "exec"
                              /\ wpc[w] = "exec" => wjob'[w] = wjob[w]
    PROVE  \A j \in Jobs : IsRun(j)' <=> IsRun(j)
  BY DEF IsRun

(* A worker that only moves on takes no abstract step. *)
LEMMA WorkerMovesInvisible ==
    ASSUME DepInv, DepInv', NEW w \in Workers, NEW state, state # "exec", wpc[w] # "exec",
           wpc' = [wpc EXCEPT ![w] = state],
           wjob' = wjob \/ \E j : wjob' = [wjob EXCEPT ![w] = j],
           UNCHANGED <<handles, life, queue, dependents>>
    PROVE  UNCHANGED <<StageMap, WaitsMap>>
<1>1. \A v \in Workers : /\ wpc'[v] = IF v = w THEN state ELSE wpc[v]
                         /\ v # w => wjob'[v] = wjob[v]
  BY DEF DepInv, Inv, TypeInv
<1>2. \A j \in Jobs : IsRun(j)' <=> IsRun(j)
  BY <1>1, SameRuns
<1>3. \A j \in Jobs : Fresh(j)' <=> Fresh(j)
  BY DEF Fresh
<1> QED
  BY <1>2, <1>3, InvisibleStep

(* Notifications take no abstract step. *)
LEMMA NotifiesInvisible ==
    ASSUME DepInv, DepInv', UNCHANGED <<handles, life, queue, dependents, wjob>>,
           wpc' = wpc \/ \E q : wpc' = NotifyOne(wpc, q)
    PROVE  UNCHANGED <<StageMap, WaitsMap>>
<1>1. wpc \in [Workers -> WorkerStates]
  BY DEF DepInv, Inv, TypeInv
<1>2. \A w \in Workers : wpc'[w] = wpc[w] \/ (wpc[w] = "asleep" /\ wpc'[w] = "pred")
  BY <1>1, NotifyOneMoves
<1>3. \A j \in Jobs : IsRun(j)' <=> IsRun(j)
  BY <1>2, SameRuns
<1>4. \A j \in Jobs : Fresh(j)' <=> Fresh(j)
  BY DEF Fresh
<1> QED
  BY <1>3, <1>4, InvisibleStep

(* Everything a worker does but to start a job and to return from it. *)
LEMMA WorkerInvisible ==
    ASSUME DepInv, DepInv', NEW w \in Workers,
           \/ WorkerLoop(w) \/ WaitForAvailableJobs(w) \/ WaitForJobPredicate(w)
           \/ WaitForJobBlock(w) \/ WaitForJobSpurious(w) \/ CheckStopped(w)
           \/ WorkerExit(w) \/ StealJob(w) \/ Finish(w)
           \/ GetJob(w, "pop1", "can1", "rand") \/ GetJob(w, "pop2", "can2", "loop")
           \/ PushAgain(w, "repush1", "rand") \/ PushAgain(w, "repush2", "loop")
    PROVE  UNCHANGED <<StageMap, WaitsMap>>
<1> USE DEF Move, Goto, At, jobVars, mainVars, mainLocals
<1>1. CASE \/ WorkerLoop(w) \/ WaitForAvailableJobs(w) \/ WaitForJobPredicate(w)
           \/ WaitForJobBlock(w) \/ WaitForJobSpurious(w) \/ CheckStopped(w)
  BY <1>1, WorkerMovesInvisible
     DEF WorkerLoop, WaitForAvailableJobs, WaitForJobPredicate, WaitForJobBlock,
         WaitForJobSpurious, CheckStopped
<1>2. CASE WorkerExit(w) \/ FinishNotify(w) \/ FinishTest(w) \/ FinishDecrement(w)
  BY <1>2, WorkerMovesInvisible DEF WorkerExit, FinishNotify, FinishTest, FinishDecrement
<1>3. CASE GetJob(w, "pop1", "can1", "rand") \/ GetJob(w, "pop2", "can2", "loop")
  BY <1>3, WorkerMovesInvisible DEF GetJob
<1>4. CASE PushAgain(w, "repush1", "rand") \/ PushAgain(w, "repush2", "loop")
  BY <1>4, WorkerMovesInvisible DEF PushAgain
<1>5. CASE StealJob(w)
  <2>1. CASE StealPush(w)
    <3>1. queue' = queue
      BY <2>1 DEF StealPush, DepInv, Inv, TypeInv, Pointers, HoldInv, Carrying
    <3> QED
      BY <2>1, <3>1, WorkerMovesInvisible DEF StealPush
  <2>2. CASE Steal(w) \/ \E randomIndex \in Workers : StealFrom(w, randomIndex)
    BY <2>2, WorkerMovesInvisible DEF Steal, StealFrom
  <2> QED
    BY <1>5, <2>1, <2>2 DEF StealJob
<1>6. CASE DtorDecrement(w) \/ DtorTest(w)
  BY <1>6, WorkerMovesInvisible DEF DtorDecrement, DtorTest
<1>7. CASE DtorNotify(w) \/ DtorNotifyFreed(w)
  <2> DEFINE pc == [wpc EXCEPT ![w] = "dtor"]
  <2>1. /\ wpc[w] = "dtorNotify" /\ UNCHANGED <<handles, life, queue, dependents, wjob>>
        /\ wpc' = wpc \/ \E q : wpc' = NotifyOne(pc, q)
    <3>1. CASE DtorNotify(w)
      BY <3>1 DEF DtorNotify
    <3>2. CASE DtorNotifyFreed(w)
      BY <3>2 DEF DtorNotifyFreed
    <3> QED
      BY <1>7, <3>1, <3>2
  <2>2. pc \in [Workers -> WorkerStates]
    BY DEF DepInv, Inv, TypeInv, WorkerStates
  <2>3. \A v \in Workers : pc[v] = IF v = w THEN "dtor" ELSE wpc[v]
    BY DEF DepInv, Inv, TypeInv
  <2> HIDE DEF pc
  <2>4. \A v \in Workers : wpc'[v] = "exec" <=> wpc[v] = "exec"
    BY <2>1, <2>2, <2>3, NotifyOneMoves
  <2>5. \A j \in Jobs : IsRun(j)' <=> IsRun(j)
    BY <2>1, <2>4, SameRuns
  <2>6. \A j \in Jobs : Fresh(j)' <=> Fresh(j)
    BY <2>1 DEF Fresh
  <2> QED
    BY <2>1, <2>5, <2>6, InvisibleStep
<1>8. CASE DtorReturn(w)
  <2>1. PICK job \in Jobs : job = wjob[w] /\ wpc[w] = "dtor" /\ life[job] = "dying"
    BY <1>8 DEF DtorReturn, DepInv, Inv, TypeInv, Pointers, HoldInv, Holding, Destroying
  <2>2. /\ life' = [life EXCEPT ![job] = "absent"]
        /\ queue' = [queue EXCEPT ![job] = NoQueue]
        /\ dependents' = [dependents EXCEPT ![job] = <<>>]
        /\ wpc' = [wpc EXCEPT ![w] = "dec"]
        /\ UNCHANGED <<handles, wjob>>
    BY <1>8, <2>1 DEF DtorReturn, Place
  <2>3. /\ \A j \in Jobs : life'[j] = IF j = job THEN "absent" ELSE life[j]
        /\ \A j \in Jobs : queue'[j] = IF j = job THEN NoQueue ELSE queue[j]
        /\ \A j \in Jobs : dependents'[j] = IF j = job THEN <<>> ELSE dependents[j]
        /\ \A v \in Workers : wpc'[v] = IF v = w THEN "dec" ELSE wpc[v]
    BY <2>2 DEF DepInv, Inv, TypeInv
  <2>4. \A j \in Jobs : IsRun(j)' <=> IsRun(j)
    BY <2>1, <2>2, <2>3, SameRuns
  <2>5. \A j \in Jobs : Fresh(j)' <=> Fresh(j)
    BY <2>1, <2>2, <2>3 DEF Fresh
  <2>6. ASSUME NEW j \in Jobs PROVE StageOf(j)' = StageOf(j)
    BY <2>1, <2>2, <2>3, <2>4, <2>5, StageCases, StageCasesNext DEF StageTable
  <2>7. ASSUME NEW j \in Jobs PROVE WaitsOf(j)' = WaitsOf(j)
    BY <2>1, <2>3 DEF WaitsOf
  <2> QED
    BY <2>6, <2>7, MapsNext
<1> QED
  BY <1>1, <1>2, <1>3, <1>4, <1>5, <1>6, <1>7, <1>8 DEF Finish

(* Everything main_runner does but to create, to declare, to hand over and *)
(* to begin a frame.                                                       *)
LEMMA MainInvisible ==
    ASSUME DepInv, DepInv',
           \/ WaitForAllJobs \/ AllJobsDonePredicate \/ AllJobsDoneBlock
           \/ AllJobsDoneSpurious \/ JoinJobsStopRunning \/ JoinJobsSetStopped
           \/ WakeAll \/ JoinWorkers \/ UserQuit \/ UNCHANGED vars
           \/ AddJobPush \/ AddJobNotify \/ \E j \in Jobs : AddJobCount(j)
           \/ FrameLoop /\ ~isRunning
    PROVE  UNCHANGED <<StageMap, WaitsMap>>
<1> DEFINE Still == /\ UNCHANGED <<handles, life, queue, dependents, wjob>>
                    /\ wpc' = wpc \/ \E q : wpc' = NotifyOne(wpc, q)
<1>1. Still
  <2>1. CASE \/ WaitForAllJobs \/ AllJobsDonePredicate \/ AllJobsDoneBlock
             \/ AllJobsDoneSpurious \/ JoinJobsStopRunning \/ JoinJobsSetStopped
             \/ JoinWorkers \/ UserQuit
    BY <2>1 DEF WaitForAllJobs, AllJobsDonePredicate, AllJobsDoneBlock,
                AllJobsDoneSpurious, JoinJobsStopRunning, JoinJobsSetStopped, JoinWorkers, UserQuit,
                MainMove, jobVars, workerVars, mainVars, mainLocals
  <2>2. CASE AddJobPush \/ \E j \in Jobs : AddJobCount(j)
    BY <2>2 DEF AddJobPush, AddJobCount, jobVars, workerVars, mainLocals
  <2>3. CASE WakeAll \/ AddJobNotify
    BY <2>3 DEF WakeAll, AddJobNotify, jobVars
  <2>4. CASE UNCHANGED vars
    BY <2>4 DEF vars, jobVars, workerVars, mainVars, mainLocals
  <2>5. CASE FrameLoop /\ ~isRunning
    BY <2>5 DEF FrameLoop, jobVars, workerVars
  <2> HIDE DEF Still
  <2> QED
    BY <2>1, <2>2, <2>3, <2>4, <2>5
<1> QED
  BY <1>1, NotifiesInvisible

(***************************************************************************)
(* Steps the client sees.                                                  *)
(***************************************************************************)
Implemented == [Graph!TaskNext]_(Graph!graphVars)

(* A stuttering step maps to a stuttering step. *)
LEMMA UnchangedMaps ==
    ASSUME UNCHANGED <<StageMap, WaitsMap>>
    PROVE  Implemented
  BY DEF Implemented, Graph!graphVars, StageMap, WaitsMap

(* CreateJob implements the creation of a task. *)
LEMMA CreateStep ==
    ASSUME DepInv, DepInv', NEW job \in Jobs, CreateJob(job)
    PROVE  Implemented
<1>1. /\ handles' = handles \cup {job} /\ job \notin handles
      /\ life' = [life EXCEPT ![job] = "live"]
      /\ queue' = [queue EXCEPT ![job] = NoQueue]
      /\ dependents' = [dependents EXCEPT ![job] = <<>>]
      /\ UNCHANGED <<wpc, wjob>>
  BY DEF CreateJob, Place, workerVars
<1>2. life[job] = "absent"
  BY <1>1 DEF DepInv, Inv, Pointers, JobsInv
<1>3. /\ \A j \in Jobs : life'[j] = IF j = job THEN "live" ELSE life[j]
      /\ \A j \in Jobs : queue'[j] = IF j = job THEN NoQueue ELSE queue[j]
      /\ \A j \in Jobs : dependents'[j] = IF j = job THEN <<>> ELSE dependents[j]
  BY <1>1 DEF DepInv, Inv, TypeInv
<1>4. \A j \in Jobs : IsRun(j)' <=> IsRun(j)
  BY <1>1, SameRuns
<1>5. StageOf(job) = "none" /\ StageOf(job)' = "created"
  BY <1>1, <1>3, StageCases, StageCasesNext DEF StageTable, Fresh
<1>6. ASSUME NEW j \in Jobs, j # job PROVE StageOf(j)' = StageOf(j)
  <2>1. (Fresh(j)' <=> Fresh(j)) /\ (j \in handles' <=> j \in handles) /\ life'[j] = life[j]
    BY <1>1, <1>3, <1>6 DEF Fresh
  <2> QED
    BY <1>4, <2>1, StageCases, StageCasesNext DEF StageTable
<1>7. ASSUME NEW j \in Jobs PROVE WaitsOf(j)' = WaitsOf(j)
  <2>1. ToSet(<<>>) = {}
    BY EmptyDeque, EmptySeq
  <2> QED
    BY <1>2, <1>3, <2>1 DEF WaitsOf
<1>8. StageMap[job] = "none" /\ StageMap' = [StageMap EXCEPT ![job] = "created"]
  BY <1>5, <1>6, MapsNext
<1>9. WaitsMap' = WaitsMap
  BY <1>7, MapsNext
<1> QED
  BY <1>8, <1>9 DEF Implemented, Graph!TaskNext, Graph!Create, StageMap, WaitsMap

(* AddDependency implements an edge of the task graph. *)
LEMMA DependStep ==
    ASSUME DepInv, DepInv', NEW x \in Jobs, NEW y \in Jobs, <<x, y>> \in MayDepend,
           AddDependency(x, y)
    PROVE  Implemented
<1>1. Fresh(x) /\ Fresh(y) /\ UNCHANGED <<handles, life, queue, wpc, wjob>>
  BY DEF AddDependency, workerVars, mainVars, mainLocals
<1>2. \A j \in Jobs : (IsRun(j)' <=> IsRun(j)) /\ (Fresh(j)' <=> Fresh(j))
  BY <1>1, SameRuns DEF Fresh
<1>3. CASE dependents' = dependents
  BY <1>1, <1>2, <1>3, InvisibleStep, UnchangedMaps
<1>4. CASE dependents' = [dependents EXCEPT ![y] = Append(dependents[y], x)]
  <2>1. ToSet(Append(dependents[y], x)) = ToSet(dependents[y]) \cup {x}
    BY PushBack, SMTT(30) DEF DepInv, Inv, TypeInv
  <2>2. \A j \in Jobs :
           ToSet(dependents'[j]) = IF j = y THEN ToSet(dependents[y]) \cup {x} ELSE ToSet(dependents[j])
    BY <1>4, <2>1 DEF DepInv, Inv, TypeInv
  <2>3. ASSUME NEW j \in Jobs PROVE StageOf(j)' = StageOf(j)
    BY <1>1, <1>2, StageCases, StageCasesNext DEF StageTable
  <2>4. ASSUME NEW j \in Jobs
        PROVE  WaitsOf(j)' = IF j = x THEN WaitsOf(x) \cup {y} ELSE WaitsOf(j)
    BY <1>1, <2>2 DEF WaitsOf, Fresh
  <2>5. StageMap[x] = "created" /\ StageMap[y] = "created"
    BY <1>1, StageCases, MapsNext DEF StageTable
  <2>6. StageMap' = StageMap /\ WaitsMap' = [WaitsMap EXCEPT ![x] = WaitsMap[x] \cup {y}]
    BY <2>3, <2>4, MapsNext
  <2> QED
    BY <2>5, <2>6 DEF Implemented, Graph!TaskNext, Graph!Depend, StageMap, WaitsMap
<1> QED
  BY <1>3, <1>4 DEF AddDependency

(* Setting Job::queue in AddJob implements handing a task over. *)
LEMMA AddStep ==
    ASSUME DepInv, DepInv', AddJobQueue
    PROVE  Implemented
<1>1. /\ mpc = "addQueue" /\ queue' = [queue EXCEPT ![mjob] = current_queue_index]
      /\ UNCHANGED <<handles, life, dependents, wpc, wjob>>
  BY DEF AddJobQueue, MainAt, workerVars, mainLocals
<1>2. PICK job \in Jobs : job = mjob /\ Fresh(job)
  BY <1>1 DEF DepInv, Inv, TypeInv, Pointers, AddInv, Adding
<1>3. \A j \in Jobs : queue'[j] = IF j = job THEN current_queue_index ELSE queue[j]
  BY <1>1, <1>2 DEF DepInv, Inv, TypeInv
<1>4. \A j \in Jobs : IsRun(j)' <=> IsRun(j)
  BY <1>1, SameRuns
<1>5. StageOf(job) = "created" /\ StageOf(job)' = "added"
  <2>1. ~IsRun(job)
    BY <1>2, StageCases DEF StageTable
  <2>2. ~Fresh(job)' /\ job \in handles' /\ life'[job] = "live"
    BY <1>1, <1>2, <1>3, WorkerFacts DEF Fresh, DepInv, Inv, TypeInv
  <2> QED
    BY <1>2, <1>4, <2>1, <2>2, StageCases, StageCasesNext DEF StageTable
<1>6. ASSUME NEW j \in Jobs, j # job PROVE StageOf(j)' = StageOf(j)
  <2>1. Fresh(j)' <=> Fresh(j)
    BY <1>1, <1>3, <1>6 DEF Fresh
  <2> QED
    BY <1>1, <1>4, <2>1, StageCases, StageCasesNext DEF StageTable
<1>7. ASSUME NEW j \in Jobs PROVE WaitsOf(j)' = WaitsOf(j)
  BY <1>1 DEF WaitsOf
<1>8. StageMap[job] = "created" /\ StageMap' = [StageMap EXCEPT ![job] = "added"]
  BY <1>5, <1>6, MapsNext
<1>9. WaitsMap' = WaitsMap
  BY <1>7, MapsNext
<1> QED
  BY <1>8, <1>9 DEF Implemented, Graph!TaskNext, Graph!Add, StageMap, WaitsMap

(* A job that may run waits for no task: the count stands for the waits. *)
LEMMA NoWaits ==
    ASSUME DepInv, NEW job \in Jobs, dependencyCount[job] = 0
    PROVE  WaitsOf(job) = {}
<1>1. SUFFICES ASSUME NEW d \in Jobs, life[d] = "live", job \in ToSet(dependents[d])
               PROVE  FALSE
  BY DEF WaitsOf
<1>2. PICK i \in DOMAIN dependents[d] : dependents[d][i] = job
  BY <1>1 DEF ToSet
<1>3. i \in 1 .. Len(dependents[d]) /\ i \in 1 .. MaxDependents /\ released[d] = 0
  <2>1. dependents[d] \in Seq(Jobs) /\ Len(dependents[d]) <= MaxDependents /\ released[d] = 0
    BY <1>1 DEF DepInv, GraphInv, Inv, TypeInv
  <2> QED
    BY <1>2, <2>1, LenProperties
<1>4. <<d, i>> \in Pending(job)
  BY <1>2, <1>3, PendingEntry
<1> QED
  BY <1>4, PendingPositive DEF DepInv

(* CanExecuteJob implements the start of a task when it lets a job run. *)
LEMMA StartStep ==
    ASSUME DepInv, DepInv', NEW w \in Workers, NEW can \in {"can1", "can2"},
           NEW repush \in {"repush1", "repush2"}, CanExecuteJob(w, can, repush)
    PROVE  Implemented
<1>1. PICK job \in Jobs : job = wjob[w] /\ wpc[w] = can /\ life[job] = "live" /\ queue[job] = w
  BY SMTT(30) DEF CanExecuteJob, At, DepInv, Inv, TypeInv, Pointers, HoldInv, Holding, Carrying
<1>2. UNCHANGED <<handles, life, queue, dependents, wjob>>
  BY DEF CanExecuteJob, Move, jobVars, mainVars, mainLocals
<1>3. CASE Blocked(job)
  BY <1>1, <1>2, <1>3, WorkerMovesInvisible, UnchangedMaps DEF CanExecuteJob, Move, Goto
<1>4. CASE ~Blocked(job)
  <2>1. \A v \in Workers : wpc'[v] = IF v = w THEN "exec" ELSE wpc[v]
    BY <1>1, <1>4 DEF CanExecuteJob, Move, Goto, DepInv, Inv, TypeInv
  <2>2. \A v \in Workers : v # w => wjob[v] # job
    BY <1>1 DEF DepInv, Inv, Pointers, HoldInv, Holding, Carrying, Destroying
  <2>3. IsRun(job)' /\ ~IsRun(job)
    BY <1>1, <1>2, <2>1, <2>2 DEF IsRun
  <2>4. ASSUME NEW j \in Jobs, j # job PROVE IsRun(j)' <=> IsRun(j)
    BY <1>1, <1>2, <2>1, <2>4 DEF IsRun
  <2>5. \A j \in Jobs : Fresh(j)' <=> Fresh(j)
    BY <1>2 DEF Fresh
  <2>6. StageOf(job) = "added" /\ StageOf(job)' = "running"
    <3>1. job \in handles /\ ~Fresh(job)
      BY <1>1, WorkerFacts DEF Fresh, DepInv, Inv, Pointers, JobsInv
    <3> QED
      BY <1>1, <2>3, <3>1, StageCases, StageCasesNext DEF StageTable
  <2>7. ASSUME NEW j \in Jobs, j # job PROVE StageOf(j)' = StageOf(j)
    BY <1>2, <2>4, <2>5, <2>7, StageCases, StageCasesNext DEF StageTable
  <2>8. ASSUME NEW j \in Jobs PROVE WaitsOf(j)' = WaitsOf(j)
    BY <1>2 DEF WaitsOf
  <2>9. StageMap[job] = "added" /\ StageMap' = [StageMap EXCEPT ![job] = "running"]
    BY <2>6, <2>7, MapsNext
  <2>10. WaitsMap' = WaitsMap /\ WaitsMap[job] = {}
    <3>1. dependencyCount[job] = 0
      BY <1>4, PendingPositive DEF DepInv, Blocked
    <3> QED
      BY <2>8, <3>1, NoWaits, MapsNext
  <2> QED
    BY <2>9, <2>10 DEF Implemented, Graph!TaskNext, Graph!Start, StageMap, WaitsMap
<1> QED
  BY <1>3, <1>4

(* The return of a job function implements the completion of its task. *)
LEMMA CompleteStep ==
    ASSUME DepInv, DepInv', NEW w \in Workers, ExecuteReturn(w)
    PROVE  Implemented
<1>1. PICK job \in Jobs : job = wjob[w] /\ wpc[w] = "exec" /\ life[job] = "live" /\ queue[job] = w
  BY DEF ExecuteReturn, At, DepInv, Inv, TypeInv, Pointers, HoldInv, Holding, Carrying
<1>2. /\ life' = [life EXCEPT ![job] = "dying"] /\ wpc' = [wpc EXCEPT ![w] = "dtor"]
      /\ UNCHANGED <<handles, queue, dependents, wjob>>
  BY <1>1 DEF ExecuteReturn, Goto, mainVars, mainLocals
<1>3. /\ \A j \in Jobs : life'[j] = IF j = job THEN "dying" ELSE life[j]
      /\ \A v \in Workers : wpc'[v] = IF v = w THEN "dtor" ELSE wpc[v]
  BY <1>2 DEF DepInv, Inv, TypeInv
<1>4. ASSUME NEW j \in Jobs, j # job PROVE (IsRun(j)' <=> IsRun(j)) /\ (Fresh(j)' <=> Fresh(j))
  BY <1>1, <1>2, <1>3, <1>4 DEF IsRun, Fresh
<1>5. StageOf(job) = "running" /\ StageOf(job)' = "done"
  <2>1. IsRun(job)
    BY <1>1 DEF IsRun
  <2> QED
    BY <1>2, <1>3, <2>1, StageCases, StageCasesNext DEF StageTable
<1>6. ASSUME NEW j \in Jobs, j # job PROVE StageOf(j)' = StageOf(j)
  BY <1>2, <1>3, <1>4, <1>6, StageCases, StageCasesNext DEF StageTable
<1>7. ASSUME NEW j \in Jobs PROVE WaitsOf(j)' = WaitsOf(j) \ {job}
  BY <1>2, <1>3 DEF WaitsOf
<1>8. StageMap[job] = "running" /\ StageMap' = [StageMap EXCEPT ![job] = "done"]
  BY <1>5, <1>6, MapsNext
<1>9. WaitsMap' = [j \in Jobs |-> WaitsMap[j] \ {job}]
  BY <1>7, MapsNext
<1> QED
  BY <1>8, <1>9 DEF Implemented, Graph!TaskNext, Graph!Complete, StageMap, WaitsMap

(* The frame loop's test implements the start of the next graph. *)
LEMMA NextFrameStep ==
    ASSUME DepInv, DepInv', FrameLoop, isRunning
    PROVE  Implemented
<1>1. mpc = "loop" /\ handles' = {} /\ UNCHANGED <<life, dependents>>
  BY DEF FrameLoop, MainAt, jobVars
<1>2. \A j \in Jobs : life[j] = "absent"
  BY <1>1 DEF DepInv, Inv, FrameBarrier
<1>3. ASSUME NEW j \in Jobs PROVE StageOf(j) \in {"none", "done"} /\ StageOf(j)' = "none"
  BY <1>1, <1>2, StageCases, StageCasesNext DEF StageTable
<1>4. ASSUME NEW j \in Jobs PROVE WaitsOf(j)' = {}
  BY <1>1, <1>2 DEF WaitsOf
<1>5. /\ \A j \in Jobs : StageMap[j] \in {"none", "done"}
      /\ StageMap' = [j \in Jobs |-> "none"]
      /\ WaitsMap' = [j \in Jobs |-> {}]
  BY <1>3, <1>4, MapsNext
<1> QED
  BY <1>5 DEF Implemented, Graph!TaskNext, Graph!NextFrame, StageMap, WaitsMap

-----------------------------------------------------------------------------
(* Every step of the code is a step of the task graph or a stutter. *)
LEMMA NextImplemented == DepInv /\ DepInv' /\ [Next]_vars => Implemented
<1> SUFFICES ASSUME DepInv, DepInv', [Next]_vars PROVE Implemented
  OBVIOUS
<1>1. ASSUME NEW w \in Workers, WorkerStep(w) PROVE Implemented
  <2>1. CASE TryToWorkJob(w)
    BY <2>1, WorkerInvisible, UnchangedMaps, StartStep DEF TryToWorkJob
  <2> QED
    BY <1>1, <2>1, WorkerInvisible, UnchangedMaps, CompleteStep DEF WorkerStep
<1>2. CASE MainStep
  <2>1. ASSUME NEW d \in MayDepend, AddDependency(d[1], d[2]) PROVE Implemented
    <3>1. d[1] \in Jobs /\ d[2] \in Jobs /\ <<d[1], d[2]>> \in MayDepend
      OBVIOUS
    <3> QED
      BY <2>1, <3>1, DependStep
  <2>2. CASE BuildStep
    BY <2>1, <2>2, CreateStep, MainInvisible, UnchangedMaps DEF BuildStep
  <2>3. CASE FrameLoop
    BY <2>3, NextFrameStep, MainInvisible, UnchangedMaps
  <2> QED
    BY <1>2, <2>2, <2>3, AddStep, MainInvisible, UnchangedMaps DEF MainStep
<1>3. CASE SpuriousWakeup
  BY <1>3, WorkerInvisible, MainInvisible, UnchangedMaps DEF SpuriousWakeup
<1>4. CASE UserQuit \/ UNCHANGED vars
  BY <1>4, MainInvisible, UnchangedMaps
<1> QED
  BY <1>1, <1>2, <1>3, <1>4 DEF Next, Terminated

(* The job system starts with an empty task graph. *)
LEMMA InitImplemented == Init => Graph!TaskInit
<1> SUFFICES ASSUME Init PROVE Graph!TaskInit
  OBVIOUS
<1>1. ASSUME NEW j \in Jobs PROVE StageOf(j) = "none" /\ WaitsOf(j) = {}
  <2>1. StageOf(j) = "none"
    BY DepInitInv, StageCases DEF Init, StageTable
  <2> QED
    BY <2>1 DEF Init, WaitsOf
<1> QED
  BY <1>1 DEF Graph!TaskInit

(* The job system implements the task graph: whatever the workers, queues  *)
(* and counters do, each job of a frame runs once, after the functions of  *)
(* all its dependencies, and frames do not overlap.                        *)
THEOREM Refinement == Spec => ImplementsTaskGraph
<1>1. Init => Graph!TaskInit
  BY InitImplemented
<1>2. DepInv /\ DepInv' /\ [Next]_vars => [Graph!TaskNext]_(Graph!graphVars)
  BY NextImplemented DEF Implemented
<1> QED
  BY <1>1, <1>2, DependencyInvariant, PTL DEF Spec, ImplementsTaskGraph, Graph!TaskSpec

-----------------------------------------------------------------------------
(* What the task graph guarantees, for any tasks and any dependencies, also  *)
(* circular ones (whose tasks never start), and with it the job system.      *)

GraphRules == Graph!TaskTypeOK /\ Graph!WaitsForUnfinished

(* The same rules, about the mapped variables.                              *)
Rules(stage, waits) ==
    /\ stage \in [Jobs -> Graph!TaskStages] /\ waits \in [Jobs -> SUBSET Jobs]
    /\ \A t \in Jobs : /\ \A d \in waits[t] : stage[d] \notin {"none", "done"}
                       /\ stage[t] \in {"none", "running", "done"} => waits[t] = {}

LEMMA RulesOfMaps == GraphRules <=> Rules(StageMap, WaitsMap)
  BY DEF GraphRules, Graph!TaskTypeOK, Graph!WaitsForUnfinished, Rules, StageMap, WaitsMap

(* An empty frame keeps the rules. *)
LEMMA TaskInitRules == Graph!TaskInit => GraphRules
<1> SUFFICES ASSUME Graph!TaskInit PROVE Rules(StageMap, WaitsMap)
  BY RulesOfMaps
<1>1. StageMap = [t \in Jobs |-> "none"] /\ WaitsMap = [t \in Jobs |-> {}]
  BY DEF Graph!TaskInit, StageMap, WaitsMap
<1> QED
  BY <1>1 DEF Rules, Graph!TaskStages

(* Every step of the task graph keeps them. *)
LEMMA TaskNextRules == GraphRules /\ [Graph!TaskNext]_(Graph!graphVars) => GraphRules'
<1>a. (GraphRules <=> Rules(StageMap, WaitsMap)) /\ (GraphRules' <=> Rules(StageMap, WaitsMap)')
  BY RulesOfMaps, PTL
<1>b. Rules(StageMap, WaitsMap)' <=> Rules(StageMap', WaitsMap')
  BY DEF Rules, Graph!TaskStages
<1> SUFFICES ASSUME Rules(StageMap, WaitsMap), [Graph!TaskNext]_(Graph!graphVars)
             PROVE  Rules(StageMap', WaitsMap')
  BY <1>a, <1>b
<1> USE DEF Rules, Graph!TaskStages
<1>1. ASSUME NEW t \in Jobs, Graph!Create(t) PROVE Rules(StageMap', WaitsMap')
  <2>1. StageMap[t] = "none" /\ StageMap' = [StageMap EXCEPT ![t] = "created"] /\ WaitsMap' = WaitsMap
    BY <1>1 DEF Graph!Create, StageMap, WaitsMap
  <2> QED
    BY <2>1
<1>2. ASSUME NEW t \in Jobs, Graph!Add(t) PROVE Rules(StageMap', WaitsMap')
  <2>1. StageMap[t] = "created" /\ StageMap' = [StageMap EXCEPT ![t] = "added"] /\ WaitsMap' = WaitsMap
    BY <1>2 DEF Graph!Add, StageMap, WaitsMap
  <2> QED
    BY <2>1
<1>3. ASSUME NEW t \in Jobs, Graph!Start(t) PROVE Rules(StageMap', WaitsMap')
  <2>1. StageMap[t] = "added" /\ WaitsMap[t] = {}
    BY <1>3 DEF Graph!Start, StageMap, WaitsMap
  <2>2. StageMap' = [StageMap EXCEPT ![t] = "running"] /\ WaitsMap' = WaitsMap
    BY <1>3 DEF Graph!Start, StageMap, WaitsMap
  <2> QED
    BY <2>1, <2>2
<1>4. ASSUME NEW t \in Jobs, Graph!Complete(t) PROVE Rules(StageMap', WaitsMap')
  <2>1. /\ StageMap[t] = "running" /\ StageMap' = [StageMap EXCEPT ![t] = "done"]
        /\ WaitsMap' = [u \in Jobs |-> WaitsMap[u] \ {t}]
    BY <1>4 DEF Graph!Complete, StageMap, WaitsMap
  <2> QED
    BY <2>1
<1>5. ASSUME NEW t \in Jobs, NEW u \in Jobs, Graph!Depend(t, u) PROVE Rules(StageMap', WaitsMap')
  <2>1. /\ StageMap[t] = "created" /\ StageMap[u] = "created" /\ StageMap' = StageMap
        /\ WaitsMap' = [WaitsMap EXCEPT ![t] = @ \cup {u}]
    BY <1>5 DEF Graph!Depend, StageMap, WaitsMap
  <2> QED
    BY <2>1
<1>6. CASE Graph!NextFrame
  <2>1. StageMap' = [t \in Jobs |-> "none"] /\ WaitsMap' = [t \in Jobs |-> {}]
    BY <1>6 DEF Graph!NextFrame, StageMap, WaitsMap
  <2> QED
    BY <2>1
<1>7. CASE UNCHANGED Graph!graphVars
  <2>1. StageMap' = StageMap /\ WaitsMap' = WaitsMap
    BY <1>7 DEF Graph!graphVars, StageMap, WaitsMap
  <2> QED
    BY <2>1
<1> QED
  BY <1>1, <1>2, <1>3, <1>4, <1>5, <1>6, <1>7 DEF Graph!TaskNext

(* While a job's function runs, and from then on, it waits for nothing, and   *)
(* no job waits for one whose function has returned: what AddDependency is    *)
(* for, whatever the workers, queues and counters do.                         *)
THEOREM AlwaysWaitsForUnfinished == Spec => [](Graph!TaskTypeOK /\ Graph!WaitsForUnfinished)
<1>1. Graph!TaskSpec => []GraphRules
  BY TaskInitRules, TaskNextRules, PTL DEF Graph!TaskSpec
<1>2. GraphRules => Graph!TaskTypeOK /\ Graph!WaitsForUnfinished
  BY DEF GraphRules
<1>3. Spec => Graph!TaskSpec
  BY Refinement DEF ImplementsTaskGraph
<1> QED
  BY <1>1, <1>2, <1>3, PTL
=============================================================================
