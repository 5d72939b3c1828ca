--------------------------- MODULE ProfilerProofs ---------------------------
(***************************************************************************)
(* Profiler, for every set of workers, every script a client may send and  *)
(* every number of frames and events: what Core::Update does to the mode,  *)
(* the list of entries and the storages that threads write into, and what  *)
(* the captures hold that are dumped from them.                            *)
(***************************************************************************)
EXTENDS Profiler, TLAPS, SequenceTheorems, FiniteSetTheorems, WellFoundedInduction

(* The mode says whether a capture runs, except between the two assignments *)
(* of Activate and UpdateState; and a dump is only under way in between for *)
(* a state in which no capture runs.                                        *)
ModeInv ==
    /\ currentMode \in {"OFF", "ON"}
    /\ coreLock = None => phase = "idle"
    /\ phase # "activate" => (currentMode = "ON" <=> currentState = "START")
    /\ phase = "activate" => currentMode = ModeOf(nextState)
    /\ phase \in {"dump", "clear"} => nextState = "DUMP" /\ currentMode = "OFF"

(* The profiler starts without a capture. *)
LEMMA ModeInit == Init => ModeInv
  BY DEF Init, ModeInv

(* The steps of Core::Update keep the invariant. *)
LEMMA ModeUpdate == ModeInv /\ Update => ModeInv'
<1> SUFFICES ASSUME ModeInv, Update PROVE ModeInv'
  OBVIOUS
<1> USE DEF ModeInv
<1>1. CASE \E t \in {Main, Runner} : UpdateEnter(t)
  <2>1. PICK t \in {Main, Runner} : UpdateEnter(t)
    BY <1>1
  <2>2. coreLock' # None
    BY <2>1, ProfilerAssumption DEF UpdateEnter, Main, Runner
  <2> QED
    BY <2>1, <2>2 DEF UpdateEnter
<1>2. CASE UpdateMessage
  BY <1>2 DEF UpdateMessage, updating
<1>3. CASE UpdateNoMore
  BY <1>3 DEF UpdateNoMore, session
<1>4. CASE UpdateState
  <2>1. Next_State = "DUMP" => currentState # "START"
    BY DEF Next_State
  <2>2. ModeOf(Next_State) \in {"OFF", "ON"} /\ (ModeOf(Next_State) = "ON" <=> Next_State = "START")
    BY DEF ModeOf
  <2>3. CASE Next_State = "DUMP"
    BY <1>4, <2>1, <2>3 DEF UpdateState
  <2>4. CASE Next_State # "DUMP" /\ ModeOf(Next_State) = currentMode
    BY <1>4, <2>2, <2>4 DEF UpdateState
  <2>5. CASE Next_State # "DUMP" /\ ModeOf(Next_State) # currentMode
    BY <1>4, <2>2, <2>5 DEF UpdateState, ModeOf
  <2> QED
    BY <2>3, <2>4, <2>5
<1>5. CASE Activate
  BY <1>5 DEF Activate, ModeOf
<1>6. CASE DumpFrames
  BY <1>6 DEF DumpFrames
<1>7. CASE ClearDumped
  BY <1>7 DEF ClearDumped
<1>8. CASE UpdateLeave
  BY <1>8 DEF UpdateLeave, session
<1> QED
  BY <1>1, <1>2, <1>3, <1>4, <1>5, <1>6, <1>7, <1>8 DEF Update

(* Nobody else touches the mode, the state or the phase of an update: the   *)
(* macros of a capture only ask for a state, in pendingState.               *)
LEMMA OthersKeepMode ==
    ASSUME Next, ~Update
    PROVE  UNCHANGED <<currentState, currentMode, coreLock, phase, nextState, dumps>>
<1> USE DEF session, updating, output
<1>1. CASE MainThread
  BY <1>1 DEF MainThread, StartCapture, StartFrame, MainRegister, Quit, MainJoin, StopCapture,
              SaveCapture, Shutdown, MainExit
<1>2. CASE Spawn
  BY <1>2 DEF Spawn
<1>3. CASE RunnerThread
  BY <1>3 DEF RunnerThread, FrameScope, FrameEnd, FrameBegin
<1>4. CASE \E w \in Workers : RunJob(w)
  BY <1>4 DEF RunJob
<1>5. CASE \E t \in Threads \ {Main} : Register(t) \/ Record(t) \/ ThreadEnd(t)
  BY <1>5 DEF Register, Record, EventLoad, EventAdd, EventCheck, EventFinish, ThreadEnd
<1>6. CASE (pc[Main] = "Done" \/ phase = "crashed") /\ UNCHANGED vars
  BY <1>6 DEF vars
<1> QED
  BY <1>1, <1>2, <1>3, <1>4, <1>5, <1>6 DEF Next

LEMMA ModeNext == ModeInv /\ [Next]_vars => ModeInv'
<1> SUFFICES ASSUME ModeInv, [Next]_vars PROVE ModeInv'
  OBVIOUS
<1>1. CASE Update
  BY <1>1, ModeUpdate
<1>2. CASE Next /\ ~Update
  BY <1>2, OthersKeepMode DEF ModeInv
<1>3. CASE UNCHANGED vars
  BY <1>3 DEF vars, session, updating, ModeInv
<1> QED
  BY <1>1, <1>2, <1>3

(* A storage is only serialised while no capture runs. *)
LEMMA DumpStep == ModeInv /\ [Next]_vars => (dumps' # dumps => currentMode = "OFF" /\ currentState # "START")
<1> SUFFICES ASSUME ModeInv, [Next]_vars, dumps' # dumps
             PROVE  currentMode = "OFF" /\ currentState # "START"
  OBVIOUS
<1>1. Next
  BY DEF vars, output
<1>2. Update
  BY <1>1, OthersKeepMode
<1>3. phase = "dump"
  BY <1>2 DEF Update, UpdateEnter, UpdateMessage, UpdateNoMore, UpdateState, Activate, DumpFrames,
              ClearDumped, UpdateLeave, output
<1> QED
  BY <1>3 DEF ModeInv

(* The mode invariant holds in every reachable state. *)
THEOREM ModeAlwaysFits == Spec => []ModeInv
  BY ModeInit, ModeNext, PTL DEF Spec

(* Core never serialises events while threads may still record: whatever a  *)
(* client sends, and in whichever Update it is read, a running capture goes *)
(* through STOP before DUMP.                                                *)
THEOREM DumpsOnlyWhenStopped == Spec => DumpsWhenStopped
  BY ModeAlwaysFits, DumpStep, PTL DEF Spec, DumpsWhenStopped

-----------------------------------------------------------------------------
(* Names, and the operators on lists.                                        *)

LEMMA Names ==
    /\ Main # Runner /\ Main \notin Workers /\ Runner \notin Workers
    /\ None \notin Threads /\ None \notin Entries
    /\ Main \in Threads /\ Runner \in Threads /\ Workers \subseteq Threads
    /\ \A t \in Threads : t = Main \/ t = Runner \/ t \in Workers
    /\ "MainThread" \in Entries /\ "Update" \in Entries /\ "Frame" \in Entries /\ Workers \subseteq Entries
    /\ ThreadOf("MainThread") = Main /\ ThreadOf("Update") = Runner /\ ThreadOf("Frame") = Runner
    /\ \A w \in Workers : ThreadOf(w) = w
    /\ \A n \in Entries : ThreadOf(n) \in Threads /\ (ThreadOf(n) = Main => n = "MainThread")
  BY ProfilerAssumption DEF Main, Runner, Threads, Entries, ThreadOf

(* A nonempty set of positions has a smallest and a largest one.             *)
LEMMA MinChosen ==
    ASSUME NEW S \in SUBSET Nat, S # {}
    PROVE  Min(S) \in S /\ \A y \in S : Min(S) <= y
<1>1. PICK x \in S : \A y \in S : ~(<<y, x>> \in OpToRel(<, Nat))
  BY NatLessThanWellFounded, WFMin, Zenon
<1>2. \A y \in S : ~(y < x)
  BY <1>1 DEF OpToRel
<1>3. \A y \in S : x <= y
  BY <1>2
<1> QED
  BY <1>3 DEF Min

LEMMA MaxChosen ==
    ASSUME NEW n \in Nat, NEW S \in SUBSET (1 .. n), S # {}
    PROVE  Max(S) \in S
<1> DEFINE T == {n - x : x \in S}
<1>0. \A x \in S : x \in Int /\ n - x \in Nat
  OBVIOUS
<1>1. T \in SUBSET Nat /\ T # {}
  BY <1>0
<1>2. Min(T) \in T /\ \A y \in T : Min(T) <= y
  BY <1>1, MinChosen
<1>3. PICK x \in S : Min(T) = n - x
  BY <1>2
<1>4. ASSUME NEW z \in S PROVE x >= z
  <2>1. n - x <= n - z
    BY <1>2, <1>3
  <2> QED
    BY <1>0, <2>1
<1> QED
  BY <1>4 DEF Max

(* RemoveAt keeps the others in their order.                                 *)
LEMMA Removed ==
    ASSUME NEW S, NEW s \in Seq(S), NEW i \in 1 .. Len(s)
    PROVE  /\ RemoveAt(s, i) \in Seq(S) /\ Len(RemoveAt(s, i)) = Len(s) - 1
           /\ \A k \in 1 .. Len(s) - 1 : RemoveAt(s, i)[k] = IF k < i THEN s[k] ELSE s[k + 1]
<1> DEFINE a == SubSeq(s, 1, i - 1)  b == SubSeq(s, i + 1, Len(s))
<1>1. a \in Seq(S) /\ Len(a) = i - 1 /\ \A k \in 1 .. i - 1 : a[k] = s[k]
  OBVIOUS
<1>2. b \in Seq(S) /\ Len(b) = Len(s) - i /\ \A k \in 1 .. Len(s) - i : b[k] = s[i + k]
  OBVIOUS
<1> HIDE DEF a, b
<1>3. /\ a \o b \in Seq(S) /\ Len(a \o b) = Len(s) - 1
      /\ \A k \in 1 .. Len(s) - 1 : (a \o b)[k] = IF k < i THEN a[k] ELSE b[k - (i - 1)]
  BY <1>1, <1>2
<1>4. \A k \in 1 .. Len(s) - 1 : k >= i => b[k - (i - 1)] = s[k + 1]
  BY <1>2
<1>5. RemoveAt(s, i) = a \o b
  BY DEF RemoveAt, a, b
<1>6. \A k \in 1 .. Len(s) - 1 : (a \o b)[k] = IF k < i THEN s[k] ELSE s[k + 1]
  BY <1>1, <1>3, <1>4
<1> QED
  BY <1>3, <1>5, <1>6

(* What is kept of the list is in S, each entry at most once if it was so     *)
(* before, and the first entry stays the first if it is kept.                *)
LEMMA KeptSome ==
    ASSUME threads \in Seq(Entries), NEW S,
           \A i, j \in DOMAIN threads : i # j => threads[i] # threads[j]
    PROVE  /\ Kept(S) \in Seq(Entries)
           /\ \A k \in DOMAIN Kept(S) : Kept(S)[k] \in S /\ Kept(S)[k] \in Registered
           /\ \A k, l \in DOMAIN Kept(S) : k # l => Kept(S)[k] # Kept(S)[l]
           /\ threads # << >> /\ threads[1] \in S => Kept(S) # << >> /\ Kept(S)[1] = threads[1]
<1> DEFINE places == {i \in DOMAIN threads : threads[i] \in S}
           upTo(i) == {j \in places : j <= i}
           rank == [i \in places |-> Cardinality(upTo(i))]
           N == Cardinality(places)
           place(k) == CHOOSE i \in places : Cardinality(upTo(i)) = k
<1>1. DOMAIN threads = 1 .. Len(threads) /\ Len(threads) \in Nat /\ places \subseteq 1 .. Len(threads)
  OBVIOUS
<1>2. IsFiniteSet(places) /\ N \in Nat
  <2>1. IsFiniteSet(1 .. Len(threads))
    BY <1>1, FS_Interval
  <2>2. IsFiniteSet(places)
    BY <1>1, <2>1, FS_Subset
  <2> QED
    BY <2>2, FS_CardinalityType
<1>3. ASSUME NEW i \in places PROVE IsFiniteSet(upTo(i)) /\ rank[i] \in 1 .. N
  <2>1. upTo(i) \in SUBSET places /\ i \in upTo(i)
    BY <1>1
  <2>2. IsFiniteSet(upTo(i)) /\ Cardinality(upTo(i)) <= N /\ Cardinality(upTo(i)) \in Nat
    BY <1>2, <2>1, FS_Subset, FS_CardinalityType
  <2>3. Cardinality(upTo(i)) # 0
    BY <2>1, <2>2, FS_EmptySet
  <2> QED
    BY <1>2, <2>2, <2>3
<1>4. ASSUME NEW i \in places, NEW j \in places, i < j PROVE rank[i] # rank[j]
  <2>0. \A k \in places : k \in Nat
    BY <1>1
  <2>1. upTo(i) \in SUBSET upTo(j) /\ j \in upTo(j) /\ j \notin upTo(i)
    <3> HIDE DEF places
    <3> QED
      BY <1>4, <2>0
  <2>2. Cardinality(upTo(j)) = Cardinality(upTo(i)) => upTo(j) = upTo(i)
    BY <1>3, <2>1, FS_Subset
  <2> QED
    BY <2>1, <2>2
<1>5. rank \in Injection(places, 1 .. N)
  <2>1. rank \in [places -> 1 .. N]
    BY <1>3
  <2>2. \A k \in places : k \in Nat
    BY <1>1
  <2> HIDE DEF rank, places
  <2>3. \A i, j \in places : rank[i] = rank[j] => i = j
    BY <1>4, <2>2
  <2> QED
    BY <2>1, <2>3 DEF Injection, IsInjective
<1>6. rank \in Surjection(places, 1 .. N)
  <2>1. IsFiniteSet(1 .. N) /\ Cardinality(1 .. N) = N
    BY <1>2, FS_Interval
  <2> HIDE DEF rank
  <2> QED
    BY <1>5, <2>1, FS_Injection
<1>7. ASSUME NEW k \in 1 .. N PROVE place(k) \in places /\ rank[place(k)] = k
  <2>1. \E i \in places : rank[i] = k
    <3> HIDE DEF rank
    <3> QED
      BY <1>6 DEF Surjection
  <2> QED
    BY <2>1
<1> HIDE DEF place
<1>8. Kept(S) = [k \in 1 .. N |-> threads[place(k)]]
  BY DEF Kept, place
<1> HIDE DEF rank, N
<1>9. Kept(S) \in Seq(Entries) /\ DOMAIN Kept(S) = 1 .. N
  BY <1>2, <1>7, <1>8
<1>10. \A k \in 1 .. N : Kept(S)[k] = threads[place(k)]
  BY <1>8
<1>11. ASSUME threads # << >>, threads[1] \in S PROVE N # 0 /\ place(1) = 1
  <2>1. 1 \in places /\ upTo(1) = {1}
    BY <1>1, <1>11
  <2>2. rank[1] = 1 /\ 1 \in 1 .. N
    BY <1>3, <2>1, FS_Singleton DEF rank
  <2> QED
    BY <1>2, <1>5, <1>7, <2>1, <2>2 DEF Injection, IsInjective
<1>12. \A k, l \in 1 .. N : k # l => place(k) # place(l)
  BY <1>7
<1> QED
  BY <1>2, <1>7, <1>9, <1>10, <1>11, <1>12 DEF Registered

-----------------------------------------------------------------------------
(* The states the profiler can be in.                                        *)

EventIds == Threads \X Nat
EventData == [id : EventIds, start : Nat, finish : Nat]
Buffers == [chunks : Nat, size : Nat, data : Seq(EventData)]
Pointers == [entry : Entries, chunks : Nat, at : Nat \ {0}]
Captures == [to : {None, "file"}, board : Seq(Entries), main : Nat, scopes : Seq(SUBSET EventIds)]

(* The values of the variables that TypeOK leaves out, too.                  *)
TypeInv ==
    /\ TypeOK
    /\ script \in Seq(Commands)
    /\ buffer \in [Entries -> Buffers]
    /\ \A n \in Entries : buffer[n].size <= Len(buffer[n].data)
    /\ held \in [Threads -> Pointers \cup {NoEvent}]
    /\ dumps \in Seq(Captures)
    /\ \A d \in DOMAIN dumps : DOMAIN dumps[d].scopes = DOMAIN dumps[d].board

MainLabels == {"StartCapture", "StartUpdate", "StartFrame", "Register", "WaitForQuit", "Join",
               "StopCapture", "StopUpdate", "SaveCapture", "SaveUpdate", "Shutdown", "Unregister", "Done"}
WorkerLabels == {"Unborn", "Register", "Loop", "Event", "Add", "Inside", "Finish", "Done"}
RunnerLabels == WorkerLabels \cup {"EndFrame", "FrameUpdate", "BeginFrame"}

BeforeSpawn == {"StartCapture", "StartUpdate", "StartFrame", "Register"}
AfterJoin == {"StopCapture", "StopUpdate", "SaveCapture", "SaveUpdate", "Shutdown", "Unregister", "Done"}

(* Main spawns and joins the runner, the runner joins the workers, and the   *)
(* lock is held by a thread that is inside Core::Update.                     *)
ControlInv ==
    /\ pc[Main] \in MainLabels /\ pc[Runner] \in RunnerLabels
    /\ \A w \in Workers : pc[w] \in WorkerLabels
    /\ coreLock = None <=> phase = "idle"
    /\ coreLock # None => pc[coreLock] \in Updaters
    /\ pc[Main] \in BeforeSpawn => pc[Runner] = "Unborn"
    /\ pc[Main] \in AfterJoin => pc[Runner] = "Done"
    /\ pc[Runner] = "Unborn" => \A w \in Workers : pc[w] = "Unborn"
    /\ pc[Runner] = "Done" => \A w \in Workers : pc[w] = "Done"

(* Each entry is listed once, the main thread's first until Core::Shutdown;  *)
(* only the entry of a thread that has ended, or of the main thread, is      *)
(* marked or deleted, and none that is listed is deleted.                    *)
Listed == pc[Main] \notin {"StartCapture", "Unregister", "Done"}
RegistryInv ==
    /\ \A i, j \in DOMAIN threads : i # j => threads[i] # threads[j]
    /\ ~Listed => threads = << >>
    /\ Listed => threads # << >> /\ threads[1] = "MainThread" /\ "MainThread" \in alive
    /\ pc[Main] \in {"StartCapture", "StartUpdate"} => forcedMainThreadIndex = 0
    /\ forcedMainThreadIndex \in {0, 1}
    /\ \A n \in Registered : n \notin deleted /\ (n \in alive \/ pc[ThreadOf(n)] = "Done")
    /\ \A n \in deleted : pc[ThreadOf(n)] = "Done" \/ (n = "MainThread" /\ pc[Main] = "Unregister")

(* A thread records into an entry of its own.                                *)
StorageInv ==
    /\ \A t \in Threads : slot[t] # None => ThreadOf(slot[t]) = t
    /\ \A t \in Threads : seen[t] # None => ThreadOf(seen[t]) = t
    /\ \A t \in Threads : pc[t] = "Add" => seen[t] # None
    /\ \A t \in Threads : pc[t] = "Finish" => held[t] # NoEvent
    /\ "storage" \notin strayWrites

BaseInv == TypeInv /\ ControlInv /\ RegistryInv /\ StorageInv

-----------------------------------------------------------------------------
(* Control.                                                                  *)

LEMMA Moved ==
    ASSUME pc \in [Threads -> Labels], NEW t \in Threads, NEW a, NEW b, Go(t, a, b)
    PROVE  /\ pc[t] = a /\ pc'[t] = b
           /\ \A u \in Threads \ {t} : pc'[u] = pc[u]
  BY DEF Go

LEMMA ControlNext ==
    ASSUME pc \in [Threads -> Labels], coreLock \in {None, Main, Runner}, ControlInv, [Next]_vars
    PROVE  ControlInv'
<1> USE Names DEF ControlInv, MainLabels, WorkerLabels, RunnerLabels, BeforeSpawn, AfterJoin, Updaters
<1>1. CASE MainThread
  <2>1. CASE StartCapture
    BY <2>1, Moved DEF StartCapture, updating
  <2>2. CASE StartFrame
    BY <2>2, Moved DEF StartFrame, updating
  <2>3. CASE MainRegister
    BY <2>3, Moved DEF MainRegister, updating
  <2>4. CASE Quit
    BY <2>4, Moved DEF Quit, updating
  <2>5. CASE MainJoin
    BY <2>5, Moved DEF MainJoin, updating
  <2>6. CASE StopCapture
    BY <2>6, Moved DEF StopCapture, updating
  <2>7. CASE SaveCapture
    BY <2>7, Moved DEF SaveCapture, updating
  <2>8. CASE Shutdown
    BY <2>8, Moved DEF Shutdown, updating
  <2>9. CASE MainExit
    BY <2>9, Moved DEF MainExit, updating
  <2> QED
    BY <1>1, <2>1, <2>2, <2>3, <2>4, <2>5, <2>6, <2>7, <2>8, <2>9 DEF MainThread
<1>2. CASE Update
  <2>1. CASE \E t \in {Main, Runner} : UpdateEnter(t)
    BY <2>1 DEF UpdateEnter
  <2>2. CASE UpdateLeave
    <3>1. PICK t \in {Main, Runner} : coreLock = t
      BY <2>2 DEF UpdateLeave
    <3>2. pc'[t] = After(pc[t]) /\ \A u \in Threads \ {t} : pc'[u] = pc[u]
      BY <2>2, <3>1 DEF UpdateLeave
    <3> QED
      BY <2>2, <3>1, <3>2 DEF UpdateLeave, After
  <2>3. CASE UpdateMessage \/ UpdateNoMore \/ UpdateState \/ Activate \/ DumpFrames \/ ClearDumped
    <3>1. pc' = pc /\ coreLock' = coreLock /\ phase # "idle" /\ phase' # "idle"
      BY <2>3 DEF UpdateMessage, UpdateNoMore, UpdateState, Activate, DumpFrames, ClearDumped, updating
    <3> QED
      BY <3>1
  <2> QED
    BY <1>2, <2>1, <2>2, <2>3 DEF Update
<1>3. CASE Spawn
  BY <1>3 DEF Spawn, updating
<1>4. CASE RunnerThread
  <2>1. CASE FrameScope
    BY <2>1, Moved DEF FrameScope, updating
  <2>2. CASE FrameEnd
    BY <2>2, Moved DEF FrameEnd, updating
  <2>3. CASE FrameBegin
    BY <2>3, Moved DEF FrameBegin, updating
  <2> QED
    BY <1>4, <2>1, <2>2, <2>3 DEF RunnerThread
<1>5. ASSUME NEW w \in Workers, RunJob(w) PROVE ControlInv'
  BY <1>5, Moved DEF RunJob, updating
<1>6. ASSUME NEW t \in Threads \ {Main}, Register(t) PROVE ControlInv'
  BY <1>6, Moved DEF Register, updating
<1>7. ASSUME NEW t \in Threads \ {Main}, Record(t) PROVE ControlInv'
  <2>1. PICK a \in {"Event", "Add", "Inside", "Finish"}, b \in {"Add", "Inside", "Finish", "Loop"} : Go(t, a, b)
    BY <1>7 DEF Record, EventLoad, EventAdd, EventCheck, EventFinish
  <2>2. UNCHANGED updating
    BY <1>7 DEF Record, EventLoad, EventAdd, EventCheck, EventFinish
  <2> QED
    BY <2>1, <2>2, Moved DEF updating
<1>8. ASSUME NEW t \in Threads \ {Main}, ThreadEnd(t) PROVE ControlInv'
  BY <1>8, Moved DEF ThreadEnd, MayEnd, updating
<1>9. CASE UNCHANGED vars
  BY <1>9 DEF vars, updating
<1> QED
  BY <1>1, <1>2, <1>3, <1>4, <1>5, <1>6, <1>7, <1>8, <1>9 DEF Next

-----------------------------------------------------------------------------
(* Registration.                                                             *)

Distinct == \A i, j \in DOMAIN threads : i # j => threads[i] # threads[j]

(* A registered entry is at the end of the list, or was in it before.        *)
LEMMA Registering ==
    ASSUME threads \in Seq(Entries), alive \subseteq Entries, Distinct,
           slot \in [Threads -> Entries \cup {None}],
           NEW t \in Threads, NEW n \in Entries, RegisterThread(t, n)
    PROVE  /\ threads' \in Seq(Entries) /\ Distinct'
           /\ Registered' = Registered \cup {n}
           /\ threads' # << >> /\ threads'[1] = IF threads = << >> THEN n ELSE threads[1]
           /\ alive \subseteq alive' /\ alive' \subseteq Entries /\ (n \in Registered \/ n \in alive')
           /\ deleted' = deleted
           /\ slot' \in [Threads -> Entries \cup {None}]
           /\ slot'[t] = IF currentMode = "OFF" THEN slot[t] ELSE n
           /\ \A u \in Threads \ {t} : slot'[u] = slot[u]
<1>1. CASE n \in Registered
  <2>1. threads' = threads /\ alive' = alive /\ deleted' = deleted
    BY <1>1 DEF RegisterThread
  <2>2. threads # << >>
    BY <1>1, SMTT(30) DEF Registered
  <2> QED
    BY <1>1, <2>1, <2>2 DEF RegisterThread, Distinct, Registered
<1>2. CASE n \notin Registered
  <2>1. threads' = Append(threads, n) /\ alive' = alive \cup {n} /\ deleted' = deleted
    BY <1>2 DEF RegisterThread
  <2>2. /\ threads' \in Seq(Entries) /\ threads' # << >> /\ Len(threads) \in Nat
        /\ DOMAIN threads = 1 .. Len(threads) /\ DOMAIN threads' = 1 .. Len(threads) + 1
        /\ \A i \in DOMAIN threads : threads'[i] = threads[i]
        /\ threads'[Len(threads) + 1] = n
    BY <2>1, AppendProperties
  <2>3. Registered' = Registered \cup {n}
    BY <2>2 DEF Registered
  <2>4. Distinct'
    BY <1>2, <2>2 DEF Distinct, Registered
  <2>5. threads'[1] = IF threads = << >> THEN n ELSE threads[1]
    BY <2>2
  <2> QED
    BY <2>1, <2>2, <2>3, <2>4, <2>5 DEF RegisterThread
<1> QED
  BY <1>1, <1>2

(* Only an entry of the thread itself is marked, or deleted and taken off    *)
(* the list, and that only while no capture runs.                            *)
LEMMA Retiring ==
    ASSUME threads \in Seq(Entries), alive \subseteq Entries, deleted \subseteq Entries, Distinct,
           NEW t \in Threads, UnRegisterThread(t)
    PROVE  /\ threads' \in Seq(Entries) /\ Distinct'
           /\ Registered' \subseteq Registered
           /\ alive' \subseteq alive /\ \A n \in alive \ alive' : ThreadOf(n) = t
           /\ deleted \subseteq deleted' /\ deleted' \subseteq Entries
           /\ \A n \in deleted' \ deleted : ThreadOf(n) = t /\ n \notin Registered'
           /\ threads = << >> => threads' = << >>
           /\ threads # << >> /\ ThreadOf(threads[1]) # t =>
                 threads' # << >> /\ threads'[1] = threads[1]
           /\ currentMode # "OFF" => threads' = threads /\ deleted' = deleted
           /\ slot' = slot
<1> DEFINE own == {i \in DOMAIN threads : ThreadOf(threads[i]) = t /\ threads[i] \in alive}
           it == Min(own)
<1>0. Retire(own) /\ slot' = slot
  BY DEF UnRegisterThread
<1>1. DOMAIN threads = 1 .. Len(threads) /\ Len(threads) \in Nat
  OBVIOUS
<1>2. CASE own = {}
  <2>1. UNCHANGED <<threads, alive, deleted>>
    BY <1>0, <1>2 DEF Retire
  <2> QED
    BY <1>0, <2>1 DEF Distinct, Registered
<1>3. CASE own # {}
  <2>1. own \in SUBSET Nat
    BY <1>1
  <2>2. it \in own
    BY <1>3, <2>1, MinChosen
  <2>3. /\ alive' = alive \ {threads[it]}
        /\ IF currentMode = "OFF"
           THEN threads' = RemoveAt(threads, it) /\ deleted' = deleted \cup {threads[it]}
           ELSE UNCHANGED <<threads, deleted>>
    BY <1>0, <1>3 DEF Retire
  <2>4. it \in 1 .. Len(threads) /\ ThreadOf(threads[it]) = t /\ threads[it] \in Entries
    BY <1>1, <2>2
  <2> HIDE DEF own, it
  <2>5. CASE currentMode = "OFF"
    <3>1. /\ threads' \in Seq(Entries) /\ Len(threads') = Len(threads) - 1
          /\ DOMAIN threads' = 1 .. Len(threads) - 1
          /\ \A k \in 1 .. Len(threads) - 1 : threads'[k] = IF k < it THEN threads[k] ELSE threads[k + 1]
      <4>1. threads' = RemoveAt(threads, it)
        BY <2>3, <2>5
      <4>2. RemoveAt(threads, it) \in Seq(Entries) /\ Len(RemoveAt(threads, it)) = Len(threads) - 1
        BY <2>4, Removed
      <4>3. \A k \in 1 .. Len(threads) - 1 :
               RemoveAt(threads, it)[k] = IF k < it THEN threads[k] ELSE threads[k + 1]
        BY <2>4, Removed
      <4>4. DOMAIN threads' = 1 .. Len(threads')
        BY <4>1, <4>2
      <4> QED
        BY <4>1, <4>2, <4>3, <4>4
    <3>2. \A k \in DOMAIN threads' : \E i \in DOMAIN threads : i # it /\ threads'[k] = threads[i]
      <4>1. ASSUME NEW k \in 1 .. Len(threads) - 1, k < it PROVE k \in DOMAIN threads /\ threads'[k] = threads[k]
        BY <1>1, <2>4, <3>1, <4>1
      <4>2. ASSUME NEW k \in 1 .. Len(threads) - 1, ~(k < it)
            PROVE  k + 1 \in DOMAIN threads /\ k + 1 # it /\ threads'[k] = threads[k + 1]
        BY <1>1, <2>4, <3>1, <4>2
      <4> QED
        BY <3>1, <4>1, <4>2
    <3>3. Registered' \subseteq Registered /\ threads[it] \notin Registered'
      BY <1>1, <2>4, <3>2 DEF Registered, Distinct
    <3>4. Distinct'
      <4> DEFINE from(k) == IF k < it THEN k ELSE k + 1
      <4>1. \A k \in DOMAIN threads' : from(k) \in DOMAIN threads /\ threads'[k] = threads[from(k)]
        BY <1>1, <2>4, <3>1
      <4>2. \A k, l \in DOMAIN threads' : k # l => from(k) # from(l)
        BY <1>1, <2>4, <3>1
      <4> HIDE DEF from
      <4> QED
        BY <4>1, <4>2 DEF Distinct
    <3>5. threads # << >> /\ ThreadOf(threads[1]) # t => threads' # << >> /\ threads'[1] = threads[1]
      BY <1>1, <2>4, <3>1
    <3> QED
      BY <1>0, <2>3, <2>4, <2>5, <3>1, <3>3, <3>4, <3>5
  <2>6. CASE currentMode # "OFF"
    BY <1>0, <2>3, <2>4, <2>6 DEF Distinct, Registered
  <2> QED
    BY <2>5, <2>6
<1> QED
  BY <1>2, <1>3

-----------------------------------------------------------------------------
(* Buffers.                                                                  *)

(* An event takes the place after the last one.                              *)
LEMMA EventTaken ==
    ASSUME NEW b \in Buffers, b.size <= Len(b.data), NEW id \in EventIds, clock \in Nat
    PROVE  /\ NextEvent(b, id) \in Buffers
           /\ NextEvent(b, id).size = b.size + 1 /\ NextEvent(b, id).size <= Len(NextEvent(b, id).data)
           /\ NextEvent(b, id).chunks = b.chunks
           /\ NextEvent(b, id).data[b.size + 1].id = id /\ NextEvent(b, id).data[b.size + 1].start = clock
           /\ \A k \in 1 .. b.size : NextEvent(b, id).data[k] = b.data[k]
<1> SUFFICES ASSUME NEW c, c = NextEvent(b, id)
             PROVE  /\ c \in Buffers /\ c.size = b.size + 1 /\ c.size <= Len(c.data) /\ c.chunks = b.chunks
                    /\ c.data[b.size + 1].id = id /\ c.data[b.size + 1].start = clock
                    /\ \A k \in 1 .. b.size : c.data[k] = b.data[k]
  OBVIOUS
<1> DEFINE old == IF b.size < Len(b.data) THEN b.data[b.size + 1].finish ELSE Unwritten
           e == [id |-> id, start |-> clock, finish |-> old]
           d == IF b.size < Len(b.data) THEN [b.data EXCEPT ![b.size + 1] = e] ELSE Append(b.data, e)
<1>1. b.size \in Nat /\ b.data \in Seq(EventData) /\ b.chunks \in Nat /\ Len(b.data) \in Nat
  BY DEF Buffers
<1>2. b.size < Len(b.data) => b.data[b.size + 1] \in EventData
  BY <1>1
<1>3. e \in EventData /\ e.id = id /\ e.start = clock
  BY <1>2 DEF EventData, Unwritten
<1>4. c = [chunks |-> b.chunks, size |-> b.size + 1, data |-> d]
  BY DEF NextEvent, Buffers
<1> HIDE DEF e
<1>5. CASE b.size < Len(b.data)
  <2>1. d = [b.data EXCEPT ![b.size + 1] = e] /\ b.size + 1 \in DOMAIN b.data
    BY <1>1, <1>5
  <2>2. /\ d \in Seq(EventData) /\ Len(d) = Len(b.data) /\ d[b.size + 1] = e
        /\ \A k \in 1 .. b.size : d[k] = b.data[k]
    BY <1>1, <1>3, <2>1
  <2> HIDE DEF d
  <2> QED
    BY <1>1, <1>3, <1>4, <1>5, <2>2 DEF Buffers
<1>6. CASE ~(b.size < Len(b.data))
  <2>1. d = Append(b.data, e) /\ b.size = Len(b.data)
    BY <1>1, <1>6
  <2>2. /\ d \in Seq(EventData) /\ Len(d) = Len(b.data) + 1 /\ d[b.size + 1] = e
        /\ \A k \in 1 .. b.size : d[k] = b.data[k]
    BY <1>1, <1>3, <2>1, AppendProperties
  <2> HIDE DEF d
  <2> QED
    BY <1>1, <1>3, <1>4, <1>6, <2>2 DEF Buffers
<1> QED
  BY <1>5, <1>6

(* Ending an event changes nothing but its finish time.                      *)
Finished(b, at) == [b EXCEPT !.data[at].finish = clock]

LEMMA EventFinished ==
    ASSUME NEW b \in Buffers, b.size <= Len(b.data), NEW at \in Nat \ {0}, clock \in Nat
    PROVE  /\ Finished(b, at) \in Buffers
           /\ Finished(b, at).size = b.size /\ Finished(b, at).size <= Len(Finished(b, at).data)
           /\ Finished(b, at).chunks = b.chunks
           /\ \A k \in 1 .. b.size :
                 /\ Finished(b, at).data[k].id = b.data[k].id
                 /\ Finished(b, at).data[k].start = b.data[k].start
                 /\ Finished(b, at).data[k].finish = IF k = at THEN clock ELSE b.data[k].finish
<1> SUFFICES ASSUME NEW c, c = Finished(b, at)
             PROVE  /\ c \in Buffers /\ c.size = b.size /\ c.size <= Len(c.data) /\ c.chunks = b.chunks
                    /\ \A k \in 1 .. b.size :
                          /\ c.data[k].id = b.data[k].id /\ c.data[k].start = b.data[k].start
                          /\ c.data[k].finish = IF k = at THEN clock ELSE b.data[k].finish
  OBVIOUS
<1> DEFINE d == [b.data EXCEPT ![at] = [@ EXCEPT !.finish = clock]]
<1>1. b.size \in Nat /\ b.data \in Seq(EventData) /\ b.chunks \in Nat /\ Len(b.data) \in Nat
  BY DEF Buffers
<1>2. c = [chunks |-> b.chunks, size |-> b.size, data |-> d]
  BY DEF Finished, Buffers
<1>3. ASSUME NEW k \in DOMAIN b.data
      PROVE  b.data[k] \in EventData /\ [b.data[k] EXCEPT !.finish = clock] \in EventData
  <2>1. b.data[k] \in EventData
    BY <1>1
  <2> QED
    BY <2>1 DEF EventData
<1>4. DOMAIN b.data = 1 .. Len(b.data)
  BY <1>1
<1>5. /\ d \in Seq(EventData) /\ Len(d) = Len(b.data)
      /\ \A k \in DOMAIN b.data : d[k] = IF k = at THEN [b.data[k] EXCEPT !.finish = clock] ELSE b.data[k]
  <2> DEFINE e == [b.data[at] EXCEPT !.finish = clock]
  <2>1. d = [b.data EXCEPT ![at] = e] /\ (at \in DOMAIN b.data => e \in EventData)
    BY <1>3
  <2> HIDE DEF d, e
  <2>2. DOMAIN d = 1 .. Len(b.data) /\ \A k \in DOMAIN b.data : d[k] = IF k = at THEN e ELSE b.data[k]
    BY <1>4, <2>1
  <2>3. \A k \in 1 .. Len(b.data) : d[k] \in EventData
    BY <1>3, <1>4, <2>1, <2>2
  <2>4. d \in [1 .. Len(b.data) -> EventData]
    BY <2>1, <2>2, <2>3
  <2>5. d \in Seq(EventData) /\ Len(d) = Len(b.data)
    BY <1>1, <2>4
  <2> QED
    BY <2>2, <2>5 DEF e
<1>6. \A k \in DOMAIN b.data :
         /\ d[k].id = b.data[k].id /\ d[k].start = b.data[k].start
         /\ d[k].finish = IF k = at THEN clock ELSE b.data[k].finish
  BY <1>3, <1>5 DEF EventData
<1> HIDE DEF d
<1>7. c \in Buffers /\ c.size = b.size /\ c.chunks = b.chunks /\ c.data = d
  BY <1>1, <1>2, <1>5 DEF Buffers
<1> QED
  BY <1>1, <1>4, <1>5, <1>6, <1>7

-----------------------------------------------------------------------------
(* The steps of Core::Update.                                                *)

(* A thread's pointer is set to the last of its live entries.                *)
LEMMA Activated ==
    ASSUME BaseInv, Activate
    PROVE  /\ slot' \in [Threads -> Entries \cup {None}]
           /\ \A t \in Threads : slot'[t] # None => ThreadOf(slot'[t]) = t
           /\ buffer' \in [Entries -> Buffers]
           /\ \A n \in Entries : /\ buffer'[n].size \in {0, buffer[n].size}
                                 /\ buffer'[n].data = buffer[n].data
                                 /\ buffer'[n].chunks = buffer[n].chunks
                                 /\ currentMode = "OFF" => buffer'[n] = buffer[n]
<1> DEFINE places(t) == {i \in DOMAIN threads : threads[i] \in alive /\ ThreadOf(threads[i]) = t}
           last(t) == Max(places(t))
           touched == {ThreadOf(n) : n \in alive \cap Registered}
<1>1. /\ slot' = [t \in Threads |-> IF t \notin touched THEN slot[t]
                                    ELSE IF currentMode = "OFF" THEN None ELSE threads[last(t)]]
      /\ buffer' = [n \in Entries |-> IF currentMode = "ON" /\ n \in alive \cap Registered
                                      THEN [buffer[n] EXCEPT !.size = 0] ELSE buffer[n]]
  BY DEF Activate
<1>2. threads \in Seq(Entries) /\ DOMAIN threads = 1 .. Len(threads) /\ Len(threads) \in Nat
  <2>1. threads \in Seq(Entries)
    BY DEF BaseInv, TypeInv, TypeOK
  <2> QED
    BY <2>1
<1>3. ASSUME NEW t \in touched
      PROVE  last(t) \in DOMAIN threads /\ ThreadOf(threads[last(t)]) = t /\ threads[last(t)] \in Entries
  <2>1. places(t) \in SUBSET (1 .. Len(threads)) /\ places(t) # {}
    BY <1>2 DEF Registered
  <2>2. last(t) \in places(t)
    <3> HIDE DEF places
    <3> QED
      BY <1>2, <2>1, MaxChosen
  <2> HIDE DEF last
  <2> QED
    BY <1>2, <2>2
<1> HIDE DEF last, touched
<1>4. /\ slot \in [Threads -> Entries \cup {None}]
      /\ \A t \in Threads : slot[t] # None => ThreadOf(slot[t]) = t
  BY DEF BaseInv, TypeInv, TypeOK, StorageInv
<1>5. /\ slot' \in [Threads -> Entries \cup {None}]
      /\ \A t \in Threads : slot'[t] # None => ThreadOf(slot'[t]) = t
  BY <1>1, <1>3, <1>4
<1>6. ASSUME NEW n \in Entries
      PROVE  /\ buffer'[n] \in Buffers
             /\ buffer'[n].size \in {0, buffer[n].size} /\ buffer'[n].data = buffer[n].data
             /\ buffer'[n].chunks = buffer[n].chunks
             /\ currentMode = "OFF" => buffer'[n] = buffer[n]
  <2>1. buffer[n] \in Buffers
    BY DEF BaseInv, TypeInv
  <2>2. CASE currentMode = "ON" /\ n \in alive \cap Registered
    <3>1. buffer'[n] = [buffer[n] EXCEPT !.size = 0]
      BY <1>1, <2>2
    <3> QED
      BY <2>1, <2>2, <3>1 DEF Buffers
  <2>3. CASE ~(currentMode = "ON" /\ n \in alive \cap Registered)
    <3>1. buffer'[n] = buffer[n]
      BY <1>1, <2>3
    <3> QED
      BY <2>1, <3>1
  <2> QED
    BY <2>2, <2>3
<1>7. buffer' \in [Entries -> Buffers]
  BY <1>1, <1>6
<1> QED
  BY <1>5, <1>6, <1>7

(* What a buffer holds.                                                      *)
LEMMA Held ==
    ASSUME TypeInv, NEW n \in Entries, NEW k \in 1 .. buffer[n].size
    PROVE  /\ buffer[n].data[k] \in EventData /\ buffer[n].data[k].id \in EventIds
           /\ buffer[n].data[k].start \in Nat /\ buffer[n].data[k].finish \in Nat
<1>1. buffer[n] \in Buffers /\ buffer[n].size <= Len(buffer[n].data)
  BY DEF TypeInv
<1>2. buffer[n].data[k] \in EventData
  BY <1>1 DEF Buffers
<1> QED
  BY <1>2 DEF EventData

(* What is dumped of each entry is among the events of its buffer.           *)
LEMMA Dumped ==
    ASSUME BaseInv, DumpFrames, dumps' # dumps
    PROVE  /\ phase = "dump" /\ phase' = "clear" /\ threads # << >>
           /\ dumps' \in Seq(Captures) /\ Len(dumps') = Len(dumps) + 1
           /\ \A d \in DOMAIN dumps : dumps'[d] = dumps[d]
           /\ dumps'[Len(dumps) + 1].to = saveCb
           /\ dumps'[Len(dumps) + 1].main = forcedMainThreadIndex
           /\ dumps'[Len(dumps) + 1].board = threads
           /\ DOMAIN dumps'[Len(dumps) + 1].scopes = DOMAIN threads
           /\ \A i \in DOMAIN threads :
                 /\ \A id \in dumps'[Len(dumps) + 1].scopes[i] : \E e \in Events(threads[i]) : e.id = id
                 /\ \A e \in Events(threads[i]) : InSlice(e) => e.id \in dumps'[Len(dumps) + 1].scopes[i]
<1>1. /\ phase = "dump" /\ phase' = "clear" /\ threads # << >>
  BY DEF DumpFrames, output
<1>2. PICK garbage : dumps' = Append(dumps,
                   [to |-> saveCb,
                    board |-> threads,
                    main |-> forcedMainThreadIndex,
                    scopes |-> [i \in DOMAIN threads |->
                                  {e.id : e \in {x \in Events(threads[i]) : x \in garbage \/ InSlice(x)}}]])
  BY DEF DumpFrames, output
<1> DEFINE sent(i) == {e.id : e \in {x \in Events(threads[i]) : x \in garbage \/ InSlice(x)}}
           scopes == [i \in DOMAIN threads |-> sent(i)]
           c == [to |-> saveCb, board |-> threads, main |-> forcedMainThreadIndex, scopes |-> scopes]
<1>3. /\ threads \in Seq(Entries) /\ DOMAIN threads = 1 .. Len(threads) /\ Len(threads) \in Nat
      /\ saveCb \in {None, "file"} /\ forcedMainThreadIndex \in Nat /\ dumps \in Seq(Captures)
  <2>1. threads \in Seq(Entries)
    BY DEF BaseInv, TypeInv, TypeOK
  <2>2. saveCb \in {None, "file"} /\ forcedMainThreadIndex \in Nat /\ dumps \in Seq(Captures)
    BY DEF BaseInv, TypeInv, TypeOK
  <2> QED
    BY <2>1, <2>2
<1>4. ASSUME NEW i \in DOMAIN threads
      PROVE  sent(i) \in SUBSET EventIds
  <2>1. threads[i] \in Entries
    BY <1>3
  <2>2. \A e \in Events(threads[i]) : e.id \in EventIds
    BY <2>1, Held DEF Events, BaseInv
  <2> QED
    BY <2>2
<1>5. scopes \in Seq(SUBSET EventIds) /\ DOMAIN scopes = DOMAIN threads
  <2> HIDE DEF sent
  <2>1. scopes \in [1 .. Len(threads) -> SUBSET EventIds]
    BY <1>3, <1>4
  <2> QED
    BY <1>3, <2>1
<1>6. \A i \in DOMAIN threads :
         /\ \A id \in scopes[i] : \E e \in Events(threads[i]) : e.id = id
         /\ \A e \in Events(threads[i]) : InSlice(e) => e.id \in scopes[i]
  OBVIOUS
<1>7. dumps' = Append(dumps, c)
  BY <1>2
<1> HIDE DEF scopes
<1>8. c \in Captures
  BY <1>3, <1>5 DEF Captures
<1>9. c.to = saveCb /\ c.board = threads /\ c.main = forcedMainThreadIndex /\ c.scopes = scopes
  OBVIOUS
<1> HIDE DEF c
<1>10. /\ dumps' \in Seq(Captures) /\ Len(dumps') = Len(dumps) + 1 /\ dumps'[Len(dumps) + 1] = c
       /\ \A d \in DOMAIN dumps : dumps'[d] = dumps[d]
  BY <1>3, <1>7, <1>8, AppendProperties
<1> QED
  BY <1>1, <1>5, <1>6, <1>9, <1>10

(* The dumped storages are emptied.                                          *)
LEMMA Freed ==
    ASSUME BaseInv, ClearDumped
    PROVE  /\ buffer' \in [Entries -> Buffers]
           /\ \A n \in Entries :
                 \/ n \in Registered /\ buffer'[n].size = 0 /\ Len(buffer'[n].data) = 0
                 \/ (n \in Registered => buffer[n].size = 0) /\ buffer'[n] = buffer[n]
<1>1. buffer' = [n \in Entries |-> IF n \in Registered /\ buffer[n].size > 0
                   THEN [chunks |-> buffer[n].chunks + 1, size |-> 0, data |-> << >>] ELSE buffer[n]]
  BY DEF ClearDumped, FreeBuffers
<1>2. ASSUME NEW n \in Entries
      PROVE  /\ buffer'[n] \in Buffers
             /\ \/ n \in Registered /\ buffer'[n].size = 0 /\ Len(buffer'[n].data) = 0
                \/ (n \in Registered => buffer[n].size = 0) /\ buffer'[n] = buffer[n]
  <2>1. buffer[n] \in Buffers /\ buffer[n].size \in Nat /\ buffer[n].chunks \in Nat
    BY DEF BaseInv, TypeInv, Buffers
  <2>2. CASE n \in Registered /\ buffer[n].size > 0
    <3>1. buffer'[n] = [chunks |-> buffer[n].chunks + 1, size |-> 0, data |-> << >>]
      BY <1>1, <2>2
    <3> QED
      BY <2>1, <2>2, <3>1 DEF Buffers
  <2>3. CASE ~(n \in Registered /\ buffer[n].size > 0)
    <3>1. buffer'[n] = buffer[n]
      BY <1>1, <2>3
    <3> QED
      BY <2>1, <2>3, <3>1
  <2> QED
    BY <2>2, <2>3
<1> QED
  BY <1>1, <1>2

-----------------------------------------------------------------------------
(* Types.                                                                    *)

LEMMA FrameTypes ==
    ASSUME TypeInv, NEW t, EndFrame(t) \/ BeginFrame(t)
    PROVE  clock' \in Nat /\ frameNumber' \in Nat /\ frames' \in Seq([start : Nat, finish : Nat])
<1> DEFINE S == [start : Nat, finish : Nat]
<1>1. clock \in Nat /\ frameNumber \in Nat /\ frames \in Seq(S)
  BY DEF TypeInv, TypeOK
<1>2. CASE EndFrame(t) /\ ~(currentMode = "OFF" \/ frames = << >>)
  <2>1. Len(frames) \in DOMAIN frames /\ frames[Len(frames)] \in S
    <3> HIDE DEF S
    <3>1. frames # << >> /\ Len(frames) \in Nat /\ DOMAIN frames = 1 .. Len(frames)
      BY <1>1, <1>2
    <3>2. Len(frames) # 0
      BY <1>1, <3>1
    <3> QED
      BY <1>1, <3>1, <3>2
  <2>2. [frames[Len(frames)] EXCEPT !.finish = clock] \in S
    BY <1>1, <2>1
  <2>3. frames' = [frames EXCEPT ![Len(frames)] = [@ EXCEPT !.finish = clock]]
    BY <1>2 DEF EndFrame
  <2>4. frames' \in Seq(S)
    <3> HIDE DEF S
    <3> QED
      BY <1>1, <2>1, <2>2, <2>3, ExceptSeq
  <2> QED
    BY <1>1, <1>2, <2>4 DEF EndFrame
<1>3. CASE EndFrame(t) /\ (currentMode = "OFF" \/ frames = << >>)
  BY <1>1, <1>3 DEF EndFrame
<1>4. CASE BeginFrame(t)
  <2>1. [start |-> clock + 1, finish |-> clock + 1] \in S
    BY <1>1
  <2>2. frames' \in Seq(S)
    <3> HIDE DEF S
    <3> QED
      BY <1>1, <1>4, <2>1, AppendProperties DEF BeginFrame
  <2> QED
    BY <1>1, <1>4, <2>2 DEF BeginFrame
<1> QED
  BY <1>2, <1>3, <1>4

LEMMA StateNames == "START" \in States /\ "STOP" \in States /\ "DUMP" \in States /\ "CANCEL" \in States
  BY DEF States

LEMMA TypeNext == BaseInv /\ [Next]_vars => TypeInv'
<1> SUFFICES ASSUME BaseInv, [Next]_vars PROVE TypeInv'
  OBVIOUS
<1> USE DEF session, updating, registry, recording, output, client, timing
<1>1. TypeInv /\ ControlInv /\ RegistryInv /\ StorageInv
  BY DEF BaseInv
<1>2. /\ threads \in Seq(Entries) /\ alive \subseteq Entries /\ deleted \subseteq Entries /\ Distinct
      /\ slot \in [Threads -> Entries \cup {None}]
  BY <1>1 DEF TypeInv, TypeOK, RegistryInv, Distinct
<1>3. ControlInv' /\ pc' \in [Threads -> Labels]
  <2>1. ControlInv'
    BY <1>1, ControlNext, ZenonT(30) DEF TypeInv, TypeOK
  <2>2. DOMAIN pc' = Threads /\ pc' = [t \in Threads |-> pc'[t]]
    <3>1. pc \in [Threads -> Labels]
      BY <1>1 DEF TypeInv, TypeOK
    <3> QED
      BY <3>1, ZenonT(30) DEF Next, MainThread, StartCapture, StartFrame, MainRegister, Quit, MainJoin, StopCapture,
                  SaveCapture, Shutdown, MainExit, Update, UpdateEnter, UpdateMessage, UpdateNoMore,
                  UpdateState, Activate, DumpFrames, ClearDumped, UpdateLeave, Spawn, RunnerThread,
                  FrameScope, FrameEnd, FrameBegin, RunJob, Register, Record, EventLoad, EventAdd,
                  EventCheck, EventFinish, ThreadEnd, Go, vars
  <2> QED
    BY <2>1, <2>2, Names DEF ControlInv, MainLabels, RunnerLabels, WorkerLabels, Labels
<1>4. CASE MainThread
  <2>1. CASE StartCapture
    <3>1. CASE IsRegistredThread(Main)
      BY <1>1, <1>3, <2>1, <3>1, StateNames DEF StartCapture, TypeInv, TypeOK
    <3>2. CASE RegisterThread(Main, "MainThread")
      <4>1. /\ threads' \in Seq(Entries) /\ alive' \subseteq Entries /\ deleted' = deleted
            /\ slot' \in [Threads -> Entries \cup {None}]
        BY <1>2, <3>2, Registering, Names
      <4> QED
        BY <1>1, <1>3, <2>1, <4>1, StateNames DEF StartCapture, TypeInv, TypeOK
    <3> QED
      BY <2>1, <3>1, <3>2 DEF StartCapture
  <2>2. CASE StartFrame
    <3>1. "MainThread" = threads[1] /\ 1 \in DOMAIN threads
      BY <1>1, <1>2, <2>2 DEF StartFrame, Go, RegistryInv, Listed
    <3>2. forcedMainThreadIndex' \in DOMAIN threads
      BY <2>2, <3>1 DEF StartFrame
    <3>3. forcedMainThreadIndex' \in Nat
      BY <1>2, <3>2
    <3> QED
      BY <1>1, <1>3, <2>2, <3>3, FrameTypes, ZenonT(30) DEF StartFrame, TypeInv, TypeOK
  <2>3. CASE MainRegister
    <3>1. /\ threads' \in Seq(Entries) /\ alive' \subseteq Entries /\ deleted' = deleted
          /\ slot' \in [Threads -> Entries \cup {None}]
      BY <1>2, <2>3, Registering, Names DEF MainRegister
    <3> QED
      BY <1>1, <1>3, <2>3, <3>1 DEF MainRegister, TypeInv, TypeOK
  <2>4. CASE Quit \/ MainJoin
    BY <1>1, <1>3, <2>4, ZenonT(30) DEF Quit, MainJoin, TypeInv, TypeOK
  <2>5. CASE StopCapture
    <3>1. clock' \in Nat /\ frames' \in Seq([start : Nat, finish : Nat]) /\ frameNumber' = frameNumber
      BY <1>1, <2>5, FrameTypes DEF StopCapture, EndFrame, TypeInv, TypeOK
    <3>2. pendingState' \in States
      BY <1>1, <2>5, StateNames DEF StopCapture, TypeInv, TypeOK
    <3> QED
      BY <1>1, <1>3, <2>5, <3>1, <3>2 DEF StopCapture, TypeInv, TypeOK
  <2>6. CASE SaveCapture
    BY <1>1, <1>3, <2>6, StateNames DEF SaveCapture, TypeInv, TypeOK
  <2>7. CASE Shutdown
    <3>1. threads' \in Seq(Entries) /\ deleted' \subseteq Entries
      BY <1>2, <2>7 DEF Shutdown, Registered
    <3> QED
      BY <1>1, <1>3, <2>7, <3>1 DEF Shutdown, TypeInv, TypeOK
  <2>8. CASE MainExit
    <3>1. threads' \in Seq(Entries) /\ alive' \subseteq Entries /\ deleted' \subseteq Entries /\ slot' = slot
      BY <1>2, <2>8, Retiring, Names DEF MainExit
    <3> QED
      BY <1>1, <1>3, <2>8, <3>1 DEF MainExit, TypeInv, TypeOK
  <2> QED
    BY <1>4, <2>1, <2>2, <2>3, <2>4, <2>5, <2>6, <2>7, <2>8 DEF MainThread
<1>5. CASE Update
  <2>1. CASE \E t \in {Main, Runner} : UpdateEnter(t)
    <3>1. PICK t \in {Main, Runner} : UpdateEnter(t)
      BY <2>1
    <3>2. pendingState' \in States /\ coreLock' \in {None, Main, Runner}
      BY <1>1, <3>1, StateNames DEF UpdateEnter, TypeInv, TypeOK
    <3> QED
      BY <1>1, <1>3, <3>1, <3>2 DEF UpdateEnter, TypeInv, TypeOK
  <2>2. CASE UpdateMessage
    <3>1. script \in Seq(Commands) /\ received \in 0 .. Len(script)
      BY <1>1 DEF TypeInv, TypeOK
    <3>2. received + 1 \in 1 .. Len(script) /\ received' = received + 1 /\ script' = script
      BY <2>2, <3>1 DEF UpdateMessage
    <3>3. script[received + 1] \in Commands
      BY <3>1, <3>2
    <3>4. pendingState' \in States /\ frameLimit' \in Nat
      BY <1>1, <2>2, <3>3 DEF UpdateMessage, Apply, Commands, States, TypeInv, TypeOK
    <3>5. received' \in 0 .. Len(script')
      BY <3>1, <3>2
    <3> QED
      BY <1>1, <1>3, <2>2, <3>2, <3>4, <3>5 DEF UpdateMessage, TypeInv, TypeOK
  <2>3. CASE UpdateNoMore
    BY <1>1, <1>3, <2>3 DEF UpdateNoMore, TypeInv, TypeOK
  <2>4. CASE UpdateState
    <3>1. Next_State \in States /\ ModeOf(Next_State) \in {"OFF", "ON"}
      BY <1>1 DEF Next_State, ModeOf, TypeInv, TypeOK, States
    <3>2. /\ nextState' \in States /\ currentState' \in States /\ currentMode' \in {"OFF", "ON"}
          /\ phase' \in {"dump", "activate", "state"}
      BY <1>1, <2>4, <3>1 DEF UpdateState, TypeInv, TypeOK
    <3> QED
      BY <1>1, <1>3, <2>4, <3>2 DEF UpdateState, TypeInv, TypeOK
  <2>5. CASE Activate
    <3>1. /\ slot' \in [Threads -> Entries \cup {None}] /\ buffer' \in [Entries -> Buffers]
          /\ \A n \in Entries : buffer'[n].size <= Len(buffer'[n].data)
      <4>1. \A n \in Entries : /\ buffer[n].size <= Len(buffer[n].data) /\ Len(buffer[n].data) \in Nat
                               /\ buffer'[n].size \in {0, buffer[n].size}
                               /\ buffer'[n].data = buffer[n].data
        BY <1>1, <2>5, Activated DEF TypeInv, Buffers
      <4> QED
        BY <2>5, <4>1, Activated
    <3> QED
      BY <1>1, <1>3, <2>5, <3>1 DEF Activate, TypeInv, TypeOK
  <2>6. CASE DumpFrames
    <3>1. CASE dumps' # dumps
      <4>1. /\ dumps' \in Seq(Captures) /\ dumps \in Seq(Captures) /\ Len(dumps') = Len(dumps) + 1
            /\ \A d \in DOMAIN dumps : dumps'[d] = dumps[d]
            /\ DOMAIN dumps'[Len(dumps) + 1].scopes = DOMAIN dumps'[Len(dumps) + 1].board
        BY <1>1, <2>6, <3>1, Dumped DEF TypeInv
      <4>2. \A d \in DOMAIN dumps' : d \in DOMAIN dumps \/ d = Len(dumps) + 1
        BY <4>1
      <4>3. \A d \in DOMAIN dumps' : DOMAIN dumps'[d].scopes = DOMAIN dumps'[d].board
        BY <1>1, <4>1, <4>2 DEF TypeInv
      <4> QED
        BY <1>1, <1>3, <2>6, <4>1, <4>3 DEF DumpFrames, TypeInv, TypeOK
    <3>2. CASE dumps' = dumps
      BY <1>1, <1>3, <2>6, <3>2 DEF DumpFrames, TypeInv, TypeOK
    <3> QED
      BY <3>1, <3>2
  <2>7. CASE ClearDumped
    <3>1. threads' \in Seq(Entries) /\ frames' \in Seq([start : Nat, finish : Nat])
      BY <1>2, <2>7, KeptSome DEF ClearDumped, Distinct
    <3>2. deleted' \subseteq Entries
      BY <1>2, <2>7 DEF ClearDumped, Registered
    <3>3. buffer' \in [Entries -> Buffers] /\ \A n \in Entries : buffer'[n].size <= Len(buffer'[n].data)
      BY <1>1, <2>7, Freed DEF TypeInv
    <3> QED
      BY <1>1, <1>3, <2>7, <3>1, <3>2, <3>3 DEF ClearDumped, TypeInv, TypeOK
  <2>8. CASE UpdateLeave
    BY <1>1, <1>3, <2>8 DEF UpdateLeave, TypeInv, TypeOK
  <2> QED
    BY <1>5, <2>1, <2>2, <2>3, <2>4, <2>5, <2>6, <2>7, <2>8 DEF Update
<1>6. CASE Spawn
  BY <1>1, <1>3, <1>6 DEF Spawn, TypeInv, TypeOK
<1>7. CASE RunnerThread
  <2>1. CASE FrameScope
    <3>1. CASE RegisterThread(Runner, "Frame")
      <4>1. /\ threads' \in Seq(Entries) /\ alive' \subseteq Entries /\ deleted' = deleted
            /\ slot' \in [Threads -> Entries \cup {None}]
        BY <1>2, <3>1, Registering, Names
      <4> QED
        BY <1>1, <1>3, <2>1, <4>1 DEF FrameScope, TypeInv, TypeOK
    <3>2. CASE UNCHANGED registry
      BY <1>1, <1>3, <2>1, <3>2 DEF FrameScope, TypeInv, TypeOK
    <3> QED
      BY <2>1, <3>1, <3>2 DEF FrameScope
  <2>2. CASE FrameEnd
    BY <1>1, <1>3, <2>2, FrameTypes, ZenonT(30) DEF FrameEnd, TypeInv, TypeOK
  <2>3. CASE FrameBegin
    BY <1>1, <1>3, <2>3, FrameTypes, ZenonT(30) DEF FrameBegin, TypeInv, TypeOK
  <2> QED
    BY <1>7, <2>1, <2>2, <2>3 DEF RunnerThread
<1>8. ASSUME NEW w \in Workers, RunJob(w) PROVE TypeInv'
  BY <1>1, <1>3, <1>8 DEF RunJob, TypeInv, TypeOK
<1>9. ASSUME NEW t \in Threads \ {Main}, Register(t) PROVE TypeInv'
  <2>1. /\ threads' \in Seq(Entries) /\ alive' \subseteq Entries /\ deleted' = deleted
        /\ slot' \in [Threads -> Entries \cup {None}]
    BY <1>2, <1>9, Registering, Names DEF Register
  <2> QED
    BY <1>1, <1>3, <1>9, <2>1 DEF Register, TypeInv, TypeOK
<1>10. ASSUME NEW t \in Threads \ {Main}, Record(t) PROVE TypeInv'
  <2>1. CASE EventLoad(t)
    BY <1>1, <1>3, <2>1 DEF EventLoad, TypeInv, TypeOK
  <2>2. CASE EventAdd(t)
    <3> DEFINE n == seen[t]
    <3>1. n \in Entries /\ n \notin deleted
      <4>1. n \in Entries /\ ThreadOf(n) = t
        BY <1>1, <2>2 DEF EventAdd, Go, StorageInv, TypeInv, TypeOK
      <4>2. pc[t] # "Done"
        BY <2>2 DEF EventAdd, Go
      <4> QED
        BY <1>1, <4>1, <4>2, Names DEF RegistryInv
    <3>2. /\ buffer[n] \in Buffers /\ buffer[n].size <= Len(buffer[n].data) /\ started[t] \in Nat /\ clock \in Nat
      BY <1>1, <3>1 DEF TypeInv, TypeOK
    <3>3. PICK b : b = NextEvent(buffer[n], <<t, started[t]>>)
      OBVIOUS
    <3>4. b \in Buffers /\ b.size <= Len(b.data)
      BY <3>2, <3>3, EventTaken DEF EventIds
    <3>5. /\ buffer' = [buffer EXCEPT ![n] = b]
          /\ held' = [held EXCEPT ![t] = [entry |-> n, chunks |-> buffer[n].chunks, at |-> buffer[n].size + 1]]
          /\ started' = [started EXCEPT ![t] = @ + 1] /\ UNCHANGED strayWrites
      BY <2>2, <3>1, <3>3 DEF EventAdd
    <3>6. [entry |-> n, chunks |-> buffer[n].chunks, at |-> buffer[n].size + 1] \in Pointers
      BY <3>1, <3>2 DEF Pointers, Buffers
    <3> HIDE DEF n
    <3>7. /\ buffer' \in [Entries -> Buffers] /\ held' \in [Threads -> Pointers \cup {NoEvent}]
          /\ started' \in [Threads -> Nat]
      <4>1. buffer' \in [Entries -> Buffers]
        BY <1>1, <3>4, <3>5 DEF TypeInv
      <4>2. held' \in [Threads -> Pointers \cup {NoEvent}]
        BY <1>1, <3>5, <3>6 DEF TypeInv
      <4>3. started' \in [Threads -> Nat]
        <5>1. started \in [Threads -> Nat] /\ started' = [started EXCEPT ![t] = @ + 1]
          BY <1>1, <3>5 DEF TypeInv, TypeOK
        <5> QED
          BY <5>1
      <4> QED
        BY <4>1, <4>2, <4>3
    <3>8. \A m \in Entries : buffer'[m].size <= Len(buffer'[m].data)
      BY <1>1, <3>1, <3>4, <3>5 DEF TypeInv
    <3> QED
      BY <1>1, <1>3, <2>2, <3>5, <3>7, <3>8 DEF EventAdd, TypeInv, TypeOK
  <2>3. CASE EventCheck(t)
    BY <1>1, <1>3, <2>3 DEF EventCheck, TypeInv, TypeOK
  <2>4. CASE EventFinish(t)
    <3> DEFINE e == held[t]
    <3>1. e \in Pointers
      BY <1>1, <2>4 DEF EventFinish, Go, StorageInv, TypeInv
    <3>2. e.entry \in Entries /\ e.at \in Nat \ {0}
      BY <3>1 DEF Pointers
    <3>3. held' \in [Threads -> Pointers \cup {NoEvent}]
      BY <1>1, <2>4 DEF EventFinish, TypeInv
    <3>4. CASE e.chunks # buffer[e.entry].chunks
      BY <1>1, <1>3, <2>4, <3>3, <3>4 DEF EventFinish, TypeInv, TypeOK
    <3>5. CASE e.chunks = buffer[e.entry].chunks
      <4>1. PICK b : b = Finished(buffer[e.entry], e.at)
        OBVIOUS
      <4>2. buffer[e.entry] \in Buffers /\ buffer[e.entry].size <= Len(buffer[e.entry].data) /\ clock \in Nat
        BY <1>1, <3>2 DEF TypeInv, TypeOK
      <4>3. b \in Buffers /\ b.size <= Len(b.data)
        BY <3>2, <4>1, <4>2, EventFinished
      <4>4. buffer' = [buffer EXCEPT ![e.entry] = b] /\ UNCHANGED strayWrites
        BY <2>4, <3>5, <4>1 DEF EventFinish, Finished
      <4> HIDE DEF e
      <4>5. /\ buffer' \in [Entries -> Buffers]
            /\ \A m \in Entries : buffer'[m].size <= Len(buffer'[m].data)
        BY <1>1, <3>2, <4>3, <4>4 DEF TypeInv
      <4> QED
        BY <1>1, <1>3, <2>4, <3>3, <4>4, <4>5, ZenonT(30) DEF EventFinish, TypeInv, TypeOK
    <3> QED
      BY <3>4, <3>5
  <2> QED
    BY <1>10, <2>1, <2>2, <2>3, <2>4 DEF Record
<1>11. ASSUME NEW t \in Threads \ {Main}, ThreadEnd(t) PROVE TypeInv'
  <2>1. threads' \in Seq(Entries) /\ alive' \subseteq Entries /\ deleted' \subseteq Entries /\ slot' = slot
    BY <1>2, <1>11, Retiring DEF ThreadEnd
  <2> QED
    BY <1>1, <1>3, <1>11, <2>1 DEF ThreadEnd, TypeInv, TypeOK
<1>12. CASE UNCHANGED vars
  BY <1>1, <1>12 DEF vars, TypeInv, TypeOK
<1> QED
  BY <1>4, <1>5, <1>6, <1>7, <1>8, <1>9, <1>10, <1>11, <1>12 DEF Next

-----------------------------------------------------------------------------
(* The list of entries and the storages.                                     *)

(* Which threads move: one, or all but the main thread when they are born.   *)
LEMMA Moves ==
    ASSUME BaseInv, [Next]_vars
    PROVE  /\ \A t \in Threads : pc[t] = "Done" => pc'[t] = "Done"
           /\ ~MainThread /\ ~(\E t \in {Main, Runner} : UpdateLeave) => pc'[Main] = pc[Main]
<1>1. pc \in [Threads -> Labels] /\ ControlInv
  BY DEF BaseInv, TypeInv, TypeOK
<1> USE Names
<1>2. CASE MainThread
  <2>1. PICK a \in MainLabels \ {"Done"}, b \in MainLabels : Go(Main, a, b)
    BY <1>2 DEF MainThread, StartCapture, StartFrame, MainRegister, Quit, MainJoin, StopCapture,
                SaveCapture, Shutdown, MainExit, MainLabels
  <2> QED
    BY <1>1, <1>2, <2>1, Moved
<1>3. CASE UpdateLeave
  <2>1. PICK t \in {Main, Runner} : coreLock = t /\ pc[t] \in Updaters
    BY <1>1, <1>3 DEF BaseInv, TypeInv, TypeOK, UpdateLeave, ControlInv
  <2>2. \A u \in Threads \ {t} : pc'[u] = pc[u]
    BY <1>1, <1>3, <2>1 DEF UpdateLeave
  <2> QED
    BY <1>3, <2>1, <2>2 DEF Updaters
<1>4. CASE Update /\ ~UpdateLeave
  <2>1. pc' = pc
    BY <1>4 DEF Update, UpdateEnter, UpdateMessage, UpdateNoMore, UpdateState, Activate, DumpFrames, ClearDumped
  <2> QED
    BY <2>1
<1>5. CASE Spawn
  BY <1>1, <1>5 DEF Spawn, ControlInv
<1>6. CASE RunnerThread \/ (\E w \in Workers : RunJob(w))
           \/ \E t \in Threads \ {Main} : Register(t) \/ Record(t) \/ ThreadEnd(t)
  <2>1. PICK t \in Threads \ {Main}, a \in Labels \ {"Done"}, b \in Labels : Go(t, a, b)
    BY <1>6 DEF RunnerThread, FrameScope, FrameEnd, FrameBegin, RunJob, Register, Record, EventLoad,
                EventAdd, EventCheck, EventFinish, ThreadEnd, Labels
  <2> QED
    BY <1>1, <2>1, Moved, SMTT(30)
<1>7. CASE UNCHANGED vars
  BY <1>7 DEF vars
<1> QED
  BY <1>2, <1>3, <1>4, <1>5, <1>6, <1>7 DEF Next

LEMMA RegistryNext == BaseInv /\ [Next]_vars => RegistryInv'
<1> SUFFICES ASSUME BaseInv, [Next]_vars PROVE RegistryInv'
  OBVIOUS
<1> USE DEF session, updating, registry, recording, output, client, timing
<1>1. TypeInv /\ ControlInv /\ RegistryInv /\ StorageInv
  BY DEF BaseInv
<1>2. /\ threads \in Seq(Entries) /\ alive \subseteq Entries /\ deleted \subseteq Entries /\ Distinct
      /\ slot \in [Threads -> Entries \cup {None}] /\ pc \in [Threads -> Labels]
  BY <1>1 DEF TypeInv, TypeOK, RegistryInv, Distinct
<1>3. \A n \in Entries : pc[ThreadOf(n)] = "Done" => pc'[ThreadOf(n)] = "Done"
  BY Moves, Names
<1>4. Registered \subseteq Entries
  BY <1>2 DEF Registered
<1>5. ASSUME UNCHANGED <<threads, alive, deleted>>, Listed' = Listed, forcedMainThreadIndex' \in {0, 1},
             pc'[Main] \in {"StartCapture", "StartUpdate"} => forcedMainThreadIndex' = 0,
             pc[Main] = "Unregister" => pc'[Main] = "Unregister"
      PROVE  RegistryInv'
  <2>1. Registered' = Registered
    BY <1>5 DEF Registered
  <2>2. \A n \in Registered' : n \notin deleted' /\ (n \in alive' \/ pc'[ThreadOf(n)] = "Done")
    BY <1>1, <1>3, <1>4, <1>5, <2>1 DEF RegistryInv
  <2>3. \A n \in deleted' : pc'[ThreadOf(n)] = "Done" \/ (n = "MainThread" /\ pc'[Main] = "Unregister")
    BY <1>1, <1>2, <1>3, <1>5 DEF RegistryInv
  <2> QED
    BY <1>1, <1>5, <2>2, <2>3 DEF RegistryInv
<1>6. ASSUME NEW t \in Threads, NEW n \in Entries, ThreadOf(n) = t, RegisterThread(t, n), pc[t] # "Done",
             pc[Main] # "Unregister", Listed',
             \/ Listed /\ t # Main
             \/ Listed /\ n = "MainThread"
             \/ pc[Main] = "StartCapture" /\ n = "MainThread",
             pc'[Main] \in {"StartCapture", "StartUpdate"} => pc[Main] \in {"StartCapture", "StartUpdate"},
             UNCHANGED forcedMainThreadIndex
      PROVE  RegistryInv'
  <2>1. /\ Distinct' /\ Registered' = Registered \cup {n}
        /\ threads' # << >> /\ threads'[1] = IF threads = << >> THEN n ELSE threads[1]
        /\ alive \subseteq alive' /\ (n \in Registered \/ n \in alive') /\ deleted' = deleted
    BY <1>2, <1>6, Registering
  <2>2. n \notin deleted
    BY <1>1, <1>6 DEF RegistryInv
  <2>3. \A m \in Registered' : m \notin deleted' /\ (m \in alive' \/ pc'[ThreadOf(m)] = "Done")
    BY <1>1, <1>3, <1>4, <1>6, <2>1, <2>2 DEF RegistryInv
  <2>4. \A m \in deleted' : pc'[ThreadOf(m)] = "Done" \/ (m = "MainThread" /\ pc'[Main] = "Unregister")
    BY <1>1, <1>2, <1>3, <1>6, <2>1 DEF RegistryInv
  <2>5. threads'[1] = "MainThread" /\ "MainThread" \in alive'
    <3>1. CASE Listed
      BY <1>1, <2>1, <3>1 DEF RegistryInv
    <3>2. CASE ~Listed
      <4>1. threads = << >> /\ Registered = {} /\ n = "MainThread"
        BY <1>1, <1>6, <3>2 DEF RegistryInv, Registered
      <4> QED
        BY <2>1, <4>1
    <3> QED
      BY <3>1, <3>2
  <2> QED
    BY <1>1, <1>6, <2>1, <2>3, <2>4, <2>5 DEF RegistryInv, Distinct
<1>7. ASSUME NEW t \in Threads \ {Main}, UnRegisterThread(t), pc'[t] = "Done", pc'[Main] = pc[Main],
             UNCHANGED forcedMainThreadIndex
      PROVE  RegistryInv'
  <2>1. /\ Distinct' /\ Registered' \subseteq Registered
        /\ \A n \in alive \ alive' : ThreadOf(n) = t
        /\ \A n \in deleted' \ deleted : ThreadOf(n) = t /\ n \notin Registered'
        /\ threads = << >> => threads' = << >>
        /\ threads # << >> /\ ThreadOf(threads[1]) # t => threads' # << >> /\ threads'[1] = threads[1]
    BY <1>2, <1>7, Retiring
  <2>2. \A n \in deleted' : n \in deleted \/ ThreadOf(n) = t
    BY <2>1
  <2>3. "MainThread" \in alive /\ Listed => "MainThread" \in alive'
    BY <1>7, <2>1, Names
  <2>4. Listed' = Listed
    BY <1>7 DEF Listed
  <2>5. Listed => threads' # << >> /\ threads'[1] = "MainThread"
    BY <1>1, <1>7, <2>1, Names DEF RegistryInv
  <2>6. \A n \in Registered' : n \notin deleted' /\ (n \in alive' \/ pc'[ThreadOf(n)] = "Done")
    BY <1>1, <1>3, <1>4, <1>7, <2>1 DEF RegistryInv
  <2>7. \A n \in deleted' : pc'[ThreadOf(n)] = "Done" \/ (n = "MainThread" /\ pc'[Main] = "Unregister")
    BY <1>1, <1>2, <1>3, <1>7, <2>2 DEF RegistryInv
  <2> QED
    BY <1>1, <1>7, <2>1, <2>3, <2>4, <2>5, <2>6, <2>7 DEF RegistryInv, Distinct
<1>8. CASE MainThread
  <2>1. CASE StartCapture
    <3>1. pc[Main] = "StartCapture" /\ pc'[Main] = "StartUpdate"
      BY <1>2, <2>1, Moved, Names DEF StartCapture
    <3>2. Registered = {} /\ UNCHANGED forcedMainThreadIndex
      BY <1>1, <2>1, <3>1 DEF RegistryInv, Listed, Registered, StartCapture
    <3>3. RegisterThread(Main, "MainThread")
      BY <2>1, <3>2 DEF StartCapture, IsRegistredThread
    <3> QED
      BY <1>6, <3>1, <3>2, <3>3, Names DEF Listed
  <2>2. CASE StartFrame
    <3>1. pc[Main] = "StartFrame" /\ pc'[Main] = "Register"
      BY <1>2, <2>2, Moved, Names DEF StartFrame
    <3>2. threads[1] = "MainThread" /\ 1 \in DOMAIN threads /\ UNCHANGED <<threads, alive, deleted>>
      BY <1>1, <1>2, <2>2, <3>1 DEF StartFrame, RegistryInv, Listed
    <3>3. forcedMainThreadIndex' \in DOMAIN threads /\ threads[forcedMainThreadIndex'] = "MainThread"
      BY <2>2, <3>2 DEF StartFrame
    <3>4. forcedMainThreadIndex' = 1
      BY <1>2, <3>2, <3>3 DEF Distinct
    <3> QED
      BY <1>5, <3>1, <3>2, <3>4 DEF Listed
  <2>3. CASE MainRegister
    <3>1. /\ pc[Main] = "Register" /\ pc'[Main] = "WaitForQuit"
          /\ RegisterThread(Main, "MainThread") /\ UNCHANGED forcedMainThreadIndex
      BY <1>2, <2>3, Moved, Names DEF MainRegister
    <3> QED
      BY <1>6, <3>1, Names DEF Listed
  <2>4. CASE Quit \/ MainJoin \/ StopCapture \/ SaveCapture
    <3>1. /\ pc[Main] \in {"WaitForQuit", "Join", "StopCapture", "SaveCapture"}
          /\ pc'[Main] \in {"Join", "StopCapture", "StopUpdate", "SaveCapture", "SaveUpdate"}
          /\ UNCHANGED <<threads, alive, deleted, forcedMainThreadIndex>>
      BY <1>2, <2>4, Moved, Names DEF Quit, MainJoin, StopCapture, SaveCapture
    <3>2. forcedMainThreadIndex \in {0, 1}
      BY <1>1 DEF RegistryInv
    <3> QED
      BY <1>5, <3>1, <3>2 DEF Listed
  <2>5. CASE Shutdown
    <3>1. /\ pc[Main] = "Shutdown" /\ pc'[Main] = "Unregister" /\ \A t \in Threads \ {Main} : pc'[t] = pc[t]
          /\ deleted' = deleted \cup Registered /\ threads' = << >> /\ UNCHANGED forcedMainThreadIndex
      BY <1>2, <2>5, Moved, Names DEF Shutdown
    <3>2. \A t \in Threads \ {Main} : pc[t] = "Done"
      BY <1>1, <3>1, Names DEF ControlInv, AfterJoin
    <3>3. \A n \in deleted' : pc'[ThreadOf(n)] = "Done" \/ (n = "MainThread" /\ pc'[Main] = "Unregister")
      <4>1. \A n \in Entries : ThreadOf(n) \in Threads /\ (ThreadOf(n) = Main => n = "MainThread")
        BY Names
      <4> QED
        BY <1>2, <1>4, <3>1, <3>2, <4>1
    <3> QED
      BY <1>1, <3>1, <3>3 DEF RegistryInv, Listed, Registered
  <2>6. CASE MainExit
    <3>1. /\ pc[Main] = "Unregister" /\ pc'[Main] = "Done" /\ UnRegisterThread(Main)
          /\ UNCHANGED forcedMainThreadIndex
      BY <1>2, <2>6, Moved, Names DEF MainExit
    <3>2. threads = << >>
      BY <1>1, <3>1 DEF RegistryInv, Listed
    <3>3. UNCHANGED <<threads, alive, deleted>>
      BY <3>1, <3>2 DEF UnRegisterThread, Retire
    <3>4. \A n \in deleted' : pc'[ThreadOf(n)] = "Done"
      BY <1>1, <1>2, <1>3, <3>1, <3>3, Names DEF RegistryInv
    <3> QED
      BY <1>1, <3>1, <3>2, <3>3, <3>4 DEF RegistryInv, Listed, Registered
  <2> QED
    BY <1>8, <2>1, <2>2, <2>3, <2>4, <2>5, <2>6 DEF MainThread
<1>9. CASE UpdateLeave
  <2>1. PICK t \in {Main, Runner} : coreLock = t /\ pc[t] \in Updaters
    BY <1>1, <1>9 DEF TypeInv, TypeOK, UpdateLeave, ControlInv
  <2>2. pc'[t] = After(pc[t]) /\ \A u \in Threads \ {t} : pc'[u] = pc[u]
    BY <1>2, <1>9, <2>1, Names DEF UpdateLeave
  <2>3. UNCHANGED <<threads, alive, deleted, forcedMainThreadIndex>>
    BY <1>9 DEF UpdateLeave
  <2>4. /\ Listed' = Listed /\ pc[Main] # "Unregister"
        /\ pc'[Main] \in {"StartCapture", "StartUpdate"} => pc[Main] \in {"StartCapture", "StartUpdate"}
    BY <1>1, <2>1, <2>2, Names DEF Listed, After, Updaters, ControlInv, AfterJoin, BeforeSpawn, MainLabels
  <2>5. forcedMainThreadIndex \in {0, 1}
    BY <1>1 DEF RegistryInv
  <2> QED
    BY <1>1, <1>5, <2>3, <2>4, <2>5 DEF RegistryInv
<1>10. CASE ClearDumped
  <2>1. /\ threads' = Kept(alive) /\ deleted' = deleted \cup (Registered \ alive) /\ alive' = alive
        /\ forcedMainThreadIndex' = 0 /\ pc' = pc
    BY <1>10 DEF ClearDumped
  <2>2. /\ \A n \in Registered' : n \in alive /\ n \in Registered
        /\ Distinct' /\ (threads # << >> /\ threads[1] \in alive => threads' # << >> /\ threads'[1] = threads[1])
    <3>1. /\ \A k \in DOMAIN threads' : threads'[k] \in alive /\ threads'[k] \in Registered
          /\ \A k, l \in DOMAIN threads' : k # l => threads'[k] # threads'[l]
          /\ threads # << >> /\ threads[1] \in alive => threads' # << >> /\ threads'[1] = threads[1]
      BY <1>2, <2>1, KeptSome DEF Distinct
    <3> QED
      BY <3>1 DEF Distinct, Registered
  <2>3. Listed
    <3>1. coreLock \in {Main, Runner} /\ pc[coreLock] \in Updaters
      BY <1>1, <1>10 DEF ClearDumped, ControlInv, TypeInv, TypeOK
    <3> QED
      BY <1>1, <3>1, Names DEF ControlInv, Updaters, Listed, AfterJoin, BeforeSpawn, MainLabels
  <2> QED
    BY <1>1, <2>1, <2>2, <2>3 DEF RegistryInv, Distinct, Listed
<1>11. CASE Update /\ ~UpdateLeave /\ ~ClearDumped
  <2>1. UNCHANGED <<pc, threads, alive, deleted, forcedMainThreadIndex>>
    BY <1>11, ZenonT(30) DEF Update, UpdateEnter, UpdateMessage, UpdateNoMore, UpdateState, Activate, DumpFrames
  <2> QED
    BY <1>1, <1>5, <2>1 DEF RegistryInv, Listed
<1>12. ASSUME ~MainThread, ~Update PROVE pc'[Main] = pc[Main] /\ UNCHANGED forcedMainThreadIndex
  <2>1. pc'[Main] = pc[Main]
    BY <1>12, Moves DEF Update
  <2> QED
    BY <1>12, <2>1 DEF Next, Spawn, RunnerThread, FrameScope, FrameEnd, FrameBegin, RunJob, Register, Record,
           EventLoad, EventAdd, EventCheck, EventFinish, ThreadEnd, vars
<1>13. ASSUME ~MainThread, ~Update, UNCHANGED <<threads, alive, deleted>> PROVE RegistryInv'
  BY <1>1, <1>5, <1>12, <1>13 DEF RegistryInv, Listed
<1>14. ASSUME ~MainThread, ~Update, NEW t \in Threads \ {Main}, pc[t] \in {"Register", "Loop"}
       PROVE  Listed /\ Listed' /\ pc[Main] # "Unregister" /\ pc'[Main] = pc[Main]
  BY <1>1, <1>12, <1>14, Names DEF ControlInv, Listed, AfterJoin, BeforeSpawn, MainLabels
<1>15. CASE RunnerThread /\ ~MainThread /\ ~Update
  <2>1. CASE FrameScope /\ RegisterThread(Runner, "Frame")
    <3>1. pc[Runner] = "Loop"
      BY <2>1 DEF FrameScope, Go
    <3> QED
      BY <1>6, <1>12, <1>14, <1>15, <2>1, <3>1, Names
  <2>2. CASE UNCHANGED registry
    BY <1>13, <1>15, <2>2
  <2> QED
    BY <1>15, <2>1, <2>2 DEF RunnerThread, FrameScope, FrameEnd, FrameBegin
<1>16. ASSUME NEW t \in Threads \ {Main}, Register(t), ~MainThread, ~Update PROVE RegistryInv'
  <2>1. pc[t] = "Register"
    BY <1>16 DEF Register, Go
  <2>2. ThreadOf(IF t = Runner THEN "Update" ELSE t) = t /\ (IF t = Runner THEN "Update" ELSE t) \in Entries
    BY Names
  <2> QED
    BY <1>6, <1>12, <1>14, <1>16, <2>1, <2>2 DEF Register
<1>17. ASSUME NEW t \in Threads \ {Main}, ThreadEnd(t), ~MainThread, ~Update PROVE RegistryInv'
  BY <1>2, <1>7, <1>12, <1>17, Moved DEF ThreadEnd
<1>18. CASE Next /\ ~MainThread /\ ~Update
  <2>1. CASE Spawn \/ (\E w \in Workers : RunJob(w)) \/ (\E t \in Threads \ {Main} : Record(t)) \/ UNCHANGED vars
    <3>1. UNCHANGED <<threads, alive, deleted>>
      BY <2>1 DEF Spawn, RunJob, Record, EventLoad, EventAdd, EventCheck, EventFinish, vars
    <3> QED
      BY <1>13, <1>18, <3>1, SMTT(30)
  <2> QED
    BY <1>15, <1>16, <1>17, <1>18, <2>1 DEF Next
<1>19. CASE UNCHANGED vars
  BY <1>1, <1>5, <1>19 DEF vars, Listed, RegistryInv
<1> QED
  BY <1>8, <1>9, <1>10, <1>11, <1>18, <1>19

LEMMA StorageNext == BaseInv /\ [Next]_vars => StorageInv'
<1> SUFFICES ASSUME BaseInv, [Next]_vars PROVE StorageInv'
  OBVIOUS
<1> USE DEF session, updating, registry, recording, output, client, timing
<1>1. TypeInv /\ ControlInv /\ RegistryInv /\ StorageInv
  BY DEF BaseInv
<1>2. /\ threads \in Seq(Entries) /\ alive \subseteq Entries /\ deleted \subseteq Entries /\ Distinct
      /\ slot \in [Threads -> Entries \cup {None}] /\ pc \in [Threads -> Labels]
      /\ seen \in [Threads -> Entries \cup {None}] /\ held \in [Threads -> Pointers \cup {NoEvent}]
  BY <1>1 DEF TypeInv, TypeOK, RegistryInv, Distinct
<1>3. ASSUME UNCHANGED recording, "storage" \notin strayWrites',
             \A t \in Threads : slot'[t] # None => ThreadOf(slot'[t]) = t,
             \A t \in Threads : pc'[t] \in {"Add", "Finish"} => pc'[t] = pc[t]
      PROVE  StorageInv'
  BY <1>1, <1>3 DEF StorageInv
<1>4. ASSUME NEW t \in Threads, NEW n \in Entries, ThreadOf(n) = t, RegisterThread(t, n)
      PROVE  \A u \in Threads : slot'[u] # None => ThreadOf(slot'[u]) = u
  <2>1. /\ slot'[t] = IF currentMode = "OFF" THEN slot[t] ELSE n
        /\ \A u \in Threads \ {t} : slot'[u] = slot[u]
    BY <1>2, <1>4, Registering
  <2> QED
    BY <1>1, <1>4, <2>1 DEF StorageInv
<1>5. ASSUME NEW t \in Threads, NEW a, NEW b, Go(t, a, b), b \notin {"Add", "Finish"}
      PROVE  \A u \in Threads : pc'[u] \in {"Add", "Finish"} => pc'[u] = pc[u]
  BY <1>2, <1>5, Moved
<1>6. CASE MainThread
  <2>1. UNCHANGED <<recording, strayWrites>>
    BY <1>6 DEF MainThread, StartCapture, StartFrame, MainRegister, Quit, MainJoin, StopCapture,
                SaveCapture, Shutdown, MainExit
  <2>2. \A t \in Threads : pc'[t] \in {"Add", "Finish"} => pc'[t] = pc[t]
    BY <1>5, <1>6, Names DEF MainThread, StartCapture, StartFrame, MainRegister, Quit, MainJoin, StopCapture,
                SaveCapture, Shutdown, MainExit
  <2>3. UNCHANGED slot \/ RegisterThread(Main, "MainThread")
    BY <1>6 DEF MainThread, StartCapture, StartFrame, MainRegister, Quit, MainJoin, StopCapture,
                SaveCapture, Shutdown, MainExit, UnRegisterThread
  <2>4. \A t \in Threads : slot'[t] # None => ThreadOf(slot'[t]) = t
    BY <1>1, <1>4, <2>3, Names DEF StorageInv
  <2> QED
    BY <1>1, <1>3, <2>1, <2>2, <2>4 DEF StorageInv
<1>7. CASE Update
  <2>1. UNCHANGED recording /\ ("storage" \in strayWrites' => "storage" \in strayWrites)
    BY <1>7 DEF Update, UpdateEnter, UpdateMessage, UpdateNoMore, UpdateState, Activate, DumpFrames,
                ClearDumped, UpdateLeave
  <2>2. \A t \in Threads : slot'[t] # None => ThreadOf(slot'[t]) = t
    <3>1. CASE Activate
      BY <3>1, Activated
    <3>2. CASE ~Activate
      <4>1. UNCHANGED slot
        BY <1>7, <3>2 DEF Update, UpdateEnter, UpdateMessage, UpdateNoMore, UpdateState, DumpFrames,
                          ClearDumped, UpdateLeave
      <4> QED
        BY <1>1, <4>1 DEF StorageInv
    <3> QED
      BY <3>1, <3>2
  <2>3. \A t \in Threads : pc'[t] \in {"Add", "Finish"} => pc'[t] = pc[t]
    <3>1. CASE UpdateLeave
      <4>1. PICK t \in {Main, Runner} : coreLock = t /\ pc[t] \in Updaters
        BY <1>1, <3>1 DEF TypeInv, TypeOK, UpdateLeave, ControlInv
      <4>2. pc'[t] = After(pc[t]) /\ \A u \in Threads \ {t} : pc'[u] = pc[u]
        BY <1>2, <3>1, <4>1, Names DEF UpdateLeave
      <4> QED
        BY <4>1, <4>2 DEF After, Updaters
    <3>2. CASE ~UpdateLeave
      BY <1>7, <3>2 DEF Update, UpdateEnter, UpdateMessage, UpdateNoMore, UpdateState, Activate, DumpFrames,
                        ClearDumped
    <3> QED
      BY <3>1, <3>2
  <2> QED
    BY <1>1, <1>3, <2>1, <2>2, <2>3 DEF StorageInv
<1>8. CASE Spawn
  BY <1>1, <1>3, <1>8 DEF Spawn, StorageInv
<1>9. CASE RunnerThread \/ \E w \in Workers : RunJob(w)
  <2>1. UNCHANGED <<recording, strayWrites>>
    BY <1>9 DEF RunnerThread, FrameScope, FrameEnd, FrameBegin, RunJob
  <2>2. \A t \in Threads : pc'[t] \in {"Add", "Finish"} => pc'[t] = pc[t]
    BY <1>5, <1>9, Names DEF RunnerThread, FrameScope, FrameEnd, FrameBegin, RunJob
  <2>3. UNCHANGED slot \/ RegisterThread(Runner, "Frame")
    BY <1>9 DEF RunnerThread, FrameScope, FrameEnd, FrameBegin, RunJob
  <2>4. \A t \in Threads : slot'[t] # None => ThreadOf(slot'[t]) = t
    BY <1>1, <1>4, <2>3, Names DEF StorageInv
  <2> QED
    BY <1>1, <1>3, <2>1, <2>2, <2>4 DEF StorageInv
<1>10. ASSUME NEW t \in Threads \ {Main}, Register(t) PROVE StorageInv'
  <2>1. ThreadOf(IF t = Runner THEN "Update" ELSE t) = t /\ (IF t = Runner THEN "Update" ELSE t) \in Entries
    BY Names
  <2>2. UNCHANGED <<recording, strayWrites>> /\ Go(t, "Register", "Loop")
    BY <1>10 DEF Register
  <2> QED
    BY <1>1, <1>3, <1>4, <1>5, <1>10, <2>1, <2>2 DEF Register, StorageInv
<1>11. ASSUME NEW t \in Threads \ {Main}, ThreadEnd(t) PROVE StorageInv'
  <2>1. UNCHANGED <<slot, recording, strayWrites>> /\ Go(t, "Loop", "Done")
    BY <1>11 DEF ThreadEnd, UnRegisterThread
  <2> QED
    BY <1>1, <1>3, <1>5, <2>1 DEF StorageInv
<1>12. ASSUME NEW t \in Threads \ {Main}, Record(t) PROVE StorageInv'
  <2>1. CASE EventLoad(t)
    <3>1. /\ seen' = [seen EXCEPT ![t] = slot[t]] /\ UNCHANGED <<slot, strayWrites>>
          /\ held' = [held EXCEPT ![t] = NoEvent]
          /\ \/ slot[t] = None /\ Go(t, "Event", "Inside")
             \/ slot[t] # None /\ Go(t, "Event", "Add")
      BY <2>1 DEF EventLoad
    <3>2. pc'[t] \in {"Add", "Inside"} /\ (pc'[t] = "Add" => slot[t] # None)
              /\ \A u \in Threads \ {t} : pc'[u] = pc[u]
      BY <1>2, <3>1, Moved
    <3>3. /\ seen'[t] = slot[t] /\ \A u \in Threads \ {t} : seen'[u] = seen[u] /\ held'[u] = held[u]
      BY <1>2, <3>1
    <3> QED
      BY <1>1, <3>1, <3>2, <3>3 DEF StorageInv
  <2>2. CASE EventAdd(t)
    <3> DEFINE n == seen[t]
    <3>1. n \notin deleted
      <4>1. n \in Entries /\ ThreadOf(n) = t /\ pc[t] # "Done"
        BY <1>1, <1>2, <2>2 DEF EventAdd, Go, StorageInv
      <4> QED
        BY <1>1, <4>1, Names DEF RegistryInv
    <3>2. /\ UNCHANGED <<slot, seen, strayWrites>> /\ Go(t, "Add", "Inside")
          /\ \E e : held' = [held EXCEPT ![t] = e]
      BY <2>2, <3>1 DEF EventAdd
    <3>3. pc'[t] = "Inside" /\ \A u \in Threads \ {t} : pc'[u] = pc[u] /\ held'[u] = held[u]
      BY <1>2, <3>2, Moved
    <3> QED
      BY <1>1, <3>2, <3>3 DEF StorageInv
  <2>3. CASE EventCheck(t)
    <3>1. /\ UNCHANGED <<slot, seen, held, strayWrites>>
          /\ \/ Go(t, "Inside", "Loop")
             \/ held[t] # NoEvent /\ Go(t, "Inside", "Finish")
      BY <2>3 DEF EventCheck
    <3>2. pc'[t] \in {"Loop", "Finish"} /\ (pc'[t] = "Finish" => held[t] # NoEvent)
              /\ \A u \in Threads \ {t} : pc'[u] = pc[u]
      BY <1>2, <3>1, Moved
    <3> QED
      BY <1>1, <3>1, <3>2 DEF StorageInv
  <2>4. CASE EventFinish(t)
    <3>1. /\ UNCHANGED <<slot, seen>> /\ held' = [held EXCEPT ![t] = NoEvent] /\ Go(t, "Finish", "Loop")
          /\ "storage" \in strayWrites' => "storage" \in strayWrites
      BY <2>4 DEF EventFinish
    <3>2. pc'[t] = "Loop" /\ \A u \in Threads \ {t} : pc'[u] = pc[u] /\ held'[u] = held[u]
      BY <1>2, <3>1, Moved
    <3> QED
      BY <1>1, <3>1, <3>2 DEF StorageInv
  <2> QED
    BY <1>12, <2>1, <2>2, <2>3, <2>4 DEF Record
<1>13. CASE UNCHANGED vars
  BY <1>1, <1>13 DEF vars, StorageInv
<1> QED
  BY <1>6, <1>7, <1>8, <1>9, <1>10, <1>11, <1>12, <1>13 DEF Next

LEMMA BaseInit == Init => BaseInv
<1> SUFFICES ASSUME Init PROVE BaseInv
  OBVIOUS
<1> USE Names DEF Init
<1>1. script \in Seq(Commands)
  BY ProfilerAssumption
<1>2. TypeInv
  BY <1>1, StateNames DEF TypeInv, TypeOK, Labels, Buffers
<1>3. ControlInv
  BY DEF ControlInv, MainLabels, RunnerLabels, WorkerLabels, AfterJoin, BeforeSpawn
<1>4. RegistryInv
  BY DEF RegistryInv, Listed, Registered
<1>5. StorageInv
  BY DEF StorageInv
<1> QED
  BY <1>2, <1>3, <1>4, <1>5 DEF BaseInv

LEMMA BaseNext == BaseInv /\ [Next]_vars => BaseInv'
<1> SUFFICES ASSUME BaseInv, [Next]_vars PROVE BaseInv'
  OBVIOUS
<1>1. ControlInv'
  BY ControlNext DEF BaseInv, TypeInv, TypeOK
<1> QED
  BY <1>1, TypeNext, RegistryNext, StorageNext DEF BaseInv

LEMMA BaseAlways == Spec => []BaseInv
  BY BaseInit, BaseNext, PTL DEF Spec

(* Every variable keeps to its values, for any script of a client.           *)
THEOREM TypesAlwaysFit == Spec => []TypeOK
<1>1. BaseInv => TypeOK
  BY SMTT(30) DEF BaseInv, TypeInv
<1> QED
  BY <1>1, BaseAlways, PTL

-----------------------------------------------------------------------------
(* Events.                                                                   *)

(* A thread begins an event.                                                 *)
LEMMA Added ==
    ASSUME BaseInv, NEW t \in Threads \ {Main}, EventAdd(t)
    PROVE  LET n == seen[t] IN
           /\ n \in Entries /\ buffer[n].size \in Nat
           /\ buffer'[n].size = buffer[n].size + 1 /\ buffer'[n].chunks = buffer[n].chunks
           /\ buffer'[n].data[buffer[n].size + 1].id = <<t, started[t]>>
           /\ buffer'[n].data[buffer[n].size + 1].start = clock
           /\ \A k \in 1 .. buffer[n].size : buffer'[n].data[k] = buffer[n].data[k]
           /\ \A m \in Entries \ {n} : buffer'[m] = buffer[m]
           /\ held'[t] = [entry |-> n, chunks |-> buffer[n].chunks, at |-> buffer[n].size + 1]
           /\ held'[t] # NoEvent
           /\ started'[t] = started[t] + 1 /\ \A u \in Threads \ {t} : started'[u] = started[u]
<1> DEFINE n == seen[t]
<1>1. /\ buffer \in [Entries -> Buffers] /\ started \in [Threads -> Nat] /\ clock \in Nat
      /\ held \in [Threads -> Pointers \cup {NoEvent}]
  BY DEF BaseInv, TypeInv, TypeOK
<1>2. n \in Entries /\ n \notin deleted
  <2>1. n \in Entries /\ ThreadOf(n) = t /\ pc[t] # "Done"
    BY DEF EventAdd, Go, BaseInv, StorageInv, TypeInv, TypeOK
  <2> QED
    BY <2>1, Names DEF BaseInv, RegistryInv
<1>3. PICK mark, b : mark = <<t, started[t]>> /\ b = NextEvent(buffer[n], mark)
  OBVIOUS
<1>4. /\ buffer' = [buffer EXCEPT ![n] = b] /\ started' = [started EXCEPT ![t] = @ + 1]
      /\ held' = [held EXCEPT ![t] = [entry |-> n, chunks |-> buffer[n].chunks, at |-> buffer[n].size + 1]]
  BY <1>2, <1>3 DEF EventAdd
<1>5. /\ buffer[n] \in Buffers /\ buffer[n].size <= Len(buffer[n].data) /\ buffer[n].size \in Nat
      /\ mark \in EventIds
  <2>1. buffer[n] \in Buffers /\ buffer[n].size \in Nat
    BY <1>1, <1>2 DEF Buffers
  <2>2. buffer[n].size <= Len(buffer[n].data)
    BY <1>2 DEF BaseInv, TypeInv
  <2>3. mark \in EventIds
    BY <1>1, <1>3 DEF EventIds
  <2> QED
    BY <2>1, <2>2, <2>3
<1>6. /\ b.size = buffer[n].size + 1 /\ b.chunks = buffer[n].chunks
      /\ b.data[buffer[n].size + 1].id = mark /\ b.data[buffer[n].size + 1].start = clock
      /\ \A k \in 1 .. buffer[n].size : b.data[k] = buffer[n].data[k]
  <2>1. clock \in Nat
    BY <1>1
  <2> QED
    BY <1>3, <1>5, <2>1, EventTaken
<1>7. buffer'[n] = b /\ \A m \in Entries \ {n} : buffer'[m] = buffer[m]
  BY <1>1, <1>2, <1>4
<1>8. /\ held'[t] = [entry |-> n, chunks |-> buffer[n].chunks, at |-> buffer[n].size + 1]
      /\ started'[t] = started[t] + 1 /\ \A u \in Threads \ {t} : started'[u] = started[u]
  BY <1>1, <1>4
<1>9. held'[t] # NoEvent
  BY <1>2, <1>8, Names DEF NoEvent
<1> QED
  BY <1>2, <1>3, <1>5, <1>6, <1>7, <1>8, <1>9, ZenonT(30)

(* A thread ends its event: only the finish time of that one changes.        *)
LEMMA Stopped ==
    ASSUME BaseInv, NEW t \in Threads \ {Main}, EventFinish(t),
           held[t].chunks = buffer[held[t].entry].chunks,
           NEW n \in Entries
    PROVE  /\ buffer'[n].size = buffer[n].size /\ buffer'[n].chunks = buffer[n].chunks
           /\ \A k \in 1 .. buffer[n].size :
                 /\ buffer'[n].data[k].id = buffer[n].data[k].id
                 /\ buffer'[n].data[k].start = buffer[n].data[k].start
                 /\ buffer'[n].data[k].finish =
                       IF n = held[t].entry /\ k = held[t].at THEN clock ELSE buffer[n].data[k].finish
<1> DEFINE e == held[t]
<1>1. /\ buffer \in [Entries -> Buffers] /\ clock \in Nat /\ held \in [Threads -> Pointers \cup {NoEvent}]
  BY DEF BaseInv, TypeInv, TypeOK
<1>2. e \in Pointers
  BY <1>1 DEF EventFinish, Go, BaseInv, StorageInv
<1>3. e.entry \in Entries /\ e.at \in Nat \ {0}
  BY <1>2 DEF Pointers
<1>4. PICK b : b = Finished(buffer[e.entry], e.at)
  OBVIOUS
<1>5. buffer' = [buffer EXCEPT ![e.entry] = b]
  BY <1>4 DEF EventFinish, Finished
<1>6. buffer[e.entry] \in Buffers /\ buffer[e.entry].size <= Len(buffer[e.entry].data)
  BY <1>3 DEF BaseInv, TypeInv
<1> HIDE DEF e
<1>7. /\ b.size = buffer[e.entry].size /\ b.chunks = buffer[e.entry].chunks
      /\ \A k \in 1 .. buffer[e.entry].size :
            /\ b.data[k].id = buffer[e.entry].data[k].id /\ b.data[k].start = buffer[e.entry].data[k].start
            /\ b.data[k].finish = IF k = e.at THEN clock ELSE buffer[e.entry].data[k].finish
  <2>1. clock \in Nat /\ e.at \in Nat \ {0}
    BY <1>1, <1>3
  <2> QED
    BY <1>4, <1>6, <2>1, EventFinished
<1>8. n # e.entry => buffer'[n] = buffer[n]
  BY <1>1, <1>3, <1>5
<1>9. n = e.entry => buffer'[n] = b
  BY <1>1, <1>3, <1>5
<1> QED
  BY <1>7, <1>8, <1>9 DEF e

-----------------------------------------------------------------------------
(* The main thread in the boards.                                            *)

(* A dump is appended, from a list that begins with the main thread.         *)
LEMMA DumpsGrow ==
    ASSUME BaseInv, [Next]_vars
    PROVE  dumps' = dumps \/ (DumpFrames /\ dumps' # dumps /\ threads[1] = "MainThread" /\ 1 \in DOMAIN threads)
<1> USE DEF output
<1>1. CASE DumpFrames /\ dumps' # dumps
  <2>1. coreLock \in {Main, Runner} /\ pc[coreLock] \in Updaters /\ threads # << >> /\ threads \in Seq(Entries)
    BY <1>1 DEF DumpFrames, BaseInv, ControlInv, TypeInv, TypeOK
  <2>2. Listed
    BY <2>1, Names DEF BaseInv, ControlInv, Updaters, Listed, AfterJoin, BeforeSpawn, MainLabels
  <2>3. threads[1] = "MainThread"
    BY <2>2 DEF BaseInv, RegistryInv
  <2>4. 1 \in DOMAIN threads
    BY <2>1
  <2> QED
    BY <1>1, <2>3, <2>4
<1>2. CASE Update /\ ~DumpFrames
  BY <1>2 DEF Update, UpdateEnter, UpdateMessage, UpdateNoMore, UpdateState, Activate, ClearDumped, UpdateLeave
<1>3. CASE Next /\ ~Update
  BY <1>3, OthersKeepMode
<1>4. CASE UNCHANGED vars
  BY <1>4 DEF vars
<1> QED
  BY <1>1, <1>2, <1>3, <1>4 DEF Update

BoardInv ==
    \A d \in DOMAIN dumps :
       dumps[d].main > 0 => dumps[d].main \in DOMAIN dumps[d].board /\ dumps[d].board[dumps[d].main] = "MainThread"

LEMMA BoardNext == BaseInv /\ BoardInv /\ [Next]_vars => BoardInv'
<1> SUFFICES ASSUME BaseInv, BoardInv, [Next]_vars PROVE BoardInv'
  OBVIOUS
<1>1. CASE dumps' = dumps
  BY <1>1 DEF BoardInv
<1>2. CASE DumpFrames /\ dumps' # dumps /\ threads[1] = "MainThread" /\ 1 \in DOMAIN threads
  <2>1. dumps \in Seq(Captures) /\ forcedMainThreadIndex \in {0, 1}
    BY DEF BaseInv, TypeInv, RegistryInv
  <2>2. /\ dumps' \in Seq(Captures) /\ Len(dumps') = Len(dumps) + 1
        /\ \A d \in DOMAIN dumps : dumps'[d] = dumps[d]
        /\ dumps'[Len(dumps) + 1].main = forcedMainThreadIndex
        /\ dumps'[Len(dumps) + 1].board = threads
    BY <1>2, Dumped
  <2>3. \A d \in DOMAIN dumps' : d \in DOMAIN dumps \/ d = Len(dumps) + 1
    BY <2>1, <2>2
  <2> QED
    BY <1>2, <2>1, <2>2, <2>3 DEF BoardInv
<1> QED
  BY <1>1, <1>2, DumpsGrow

(* The index Core is given for the main thread names its entry from          *)
(* StartCapture to Shutdown, and in every board that is sent: no thread that *)
(* ends, in any mode, and no dump moves another entry to that place.         *)
THEOREM MainThreadIndexAlwaysFits == Spec => []MainThreadIndex
<1>1. Init => BoardInv
  BY DEF Init, BoardInv
<1>2. BaseInv /\ BoardInv => MainThreadIndex
  BY Names DEF BaseInv, BoardInv, RegistryInv, Listed, MainThreadIndex
<1> QED
  BY <1>1, <1>2, BaseAlways, BoardNext, PTL DEF Spec

-----------------------------------------------------------------------------
(* The program without a client.                                             *)

Recording == {"StartFrame", "Register", "WaitForQuit", "Join", "StopCapture"}

(* With no commands from a client main alone decides: a capture runs from    *)
(* the end of StartCapture to StopCapture, and it is dumped in the forced    *)
(* Update of SaveCapture, when no other thread is left.                      *)
QuietInv == script = << >> =>
    /\ frameLimit = 0
    /\ pc[Main] = "StartCapture" => currentState = "DUMP"
    /\ pc[Main] = "StartUpdate" =>
          /\ pendingState = "START" /\ currentState \in {"DUMP", "START"}
          /\ phase \notin {"dump", "clear"} /\ (phase = "activate" => nextState = "START")
    /\ pc[Main] \in Recording =>
          /\ pendingState = "START" /\ currentState = "START"
          /\ phase \notin {"activate", "dump", "clear"}
    /\ pc[Main] = "StopUpdate" =>
          /\ pendingState = "STOP" /\ currentState \in {"START", "STOP"}
          /\ phase \notin {"dump", "clear"} /\ (phase = "activate" => nextState = "STOP")
    /\ pc[Main] = "SaveCapture" => currentState = "STOP"
    /\ pc[Main] = "SaveUpdate" =>
          /\ pendingState = "DUMP" /\ currentState \in {"STOP", "DUMP"}
          /\ phase # "activate" /\ (phase \in {"dump", "clear"} => currentState = "STOP")
    /\ pc[Main] \in {"Shutdown", "Unregister", "Done"} => currentState = "DUMP"

(* Whose Update it is.                                                       *)
LEMMA InsideUpdate ==
    ASSUME BaseInv, phase # "idle"
    PROVE  \/ coreLock = Main /\ pc[Main] \in {"StartUpdate", "StopUpdate", "SaveUpdate"}
           \/ coreLock = Runner /\ pc[Runner] = "FrameUpdate" /\ pc[Main] \in {"WaitForQuit", "Join"}
<1>1. coreLock \in {Main, Runner} /\ pc[coreLock] \in Updaters
  BY DEF BaseInv, ControlInv, TypeInv, TypeOK
<1> QED
  BY <1>1, Names DEF BaseInv, ControlInv, Updaters, AfterJoin, BeforeSpawn, MainLabels, RunnerLabels, WorkerLabels

LEMMA ScriptKept == [Next]_vars => script' = script
<1> USE DEF client
<1>1. CASE Update
  BY <1>1 DEF Update, UpdateEnter, UpdateMessage, UpdateNoMore, UpdateState, Activate, DumpFrames,
              ClearDumped, UpdateLeave
<1>2. CASE MainThread
  BY <1>2, SMTT(30) DEF MainThread, StartCapture, StartFrame, MainRegister, Quit, MainJoin, StopCapture,
              SaveCapture, Shutdown, MainExit
<1>3. CASE Next /\ ~Update /\ ~MainThread
  BY <1>3, ZenonT(30) DEF Next, Spawn, RunnerThread, FrameScope, FrameEnd, FrameBegin, RunJob, Register, Record,
              EventLoad, EventAdd, EventCheck, EventFinish, ThreadEnd, vars
<1>4. CASE UNCHANGED vars
  BY <1>4 DEF vars
<1> QED
  BY <1>1, <1>2, <1>3, <1>4

LEMMA QuietNext == BaseInv /\ ModeInv /\ QuietInv /\ [Next]_vars => QuietInv'
<1> SUFFICES ASSUME BaseInv, ModeInv, QuietInv, [Next]_vars, script' = << >> PROVE QuietInv'
  BY DEF QuietInv
<1> USE Names DEF session, updating
<1>1. script = << >> /\ pc \in [Threads -> Labels] /\ ControlInv
  BY ScriptKept DEF BaseInv, TypeInv, TypeOK
<1>2. ASSUME UNCHANGED <<session, phase, nextState>>, pc'[Main] = pc[Main] PROVE QuietInv'
  BY <1>1, <1>2 DEF QuietInv
<1>3. CASE MainThread
  <2>1. pc[Main] \notin {"StartUpdate", "WaitForQuit", "Join", "StopUpdate", "SaveUpdate"} => phase = "idle"
    BY InsideUpdate
  <2>2. CASE StartCapture
    BY <1>1, <2>1, <2>2, Moved DEF StartCapture, QuietInv, Recording
  <2>3. CASE StartFrame \/ MainRegister \/ Quit \/ MainJoin
    <3>1. pc[Main] \in Recording /\ pc'[Main] \in Recording /\ UNCHANGED <<session, phase, nextState>>
      BY <1>1, <2>3, Moved DEF StartFrame, MainRegister, Quit, MainJoin, Recording
    <3> QED
      BY <1>1, <3>1 DEF QuietInv, Recording
  <2>4. CASE StopCapture
    <3>1. pc[Main] = "StopCapture" /\ currentMode = "ON"
      BY <1>1, <2>4 DEF StopCapture, Go, QuietInv, ModeInv, Recording
    <3> QED
      BY <1>1, <2>1, <2>4, <3>1, Moved DEF StopCapture, QuietInv, Recording
  <2>5. CASE SaveCapture
    BY <1>1, <2>1, <2>5, Moved DEF SaveCapture, QuietInv, Recording
  <2>6. CASE Shutdown \/ MainExit
    <3>1. /\ pc[Main] \in {"Shutdown", "Unregister"} /\ pc'[Main] \in {"Unregister", "Done"}
          /\ UNCHANGED <<session, phase, nextState>>
      BY <1>1, <2>6, Moved DEF Shutdown, MainExit
    <3> QED
      BY <1>1, <3>1 DEF QuietInv, Recording
  <2> QED
    BY <1>3, <2>2, <2>3, <2>4, <2>5, <2>6 DEF MainThread
<1>4. CASE Update
  <2>1. CASE \E t \in {Main, Runner} : UpdateEnter(t)
    <3>1. pc' = pc /\ UNCHANGED <<pendingState, currentState, frameLimit>> /\ phase' = "messages"
      BY <1>1, <2>1 DEF UpdateEnter, QuietInv
    <3> QED
      BY <1>1, <3>1 DEF QuietInv
  <2>2. CASE UpdateMessage
    <3>1. received \in 0 .. Len(script) /\ Len(script) = 0 /\ received < Len(script)
      BY <1>1, <2>2 DEF UpdateMessage, BaseInv, TypeInv, TypeOK
    <3> QED
      BY <3>1
  <2>3. CASE UpdateNoMore
    BY <1>1, <2>3 DEF UpdateNoMore, QuietInv
  <2>4. CASE UpdateState
    <3>1. /\ phase = "state" /\ currentState # pendingState /\ pc' = pc /\ nextState' = Next_State
          /\ UNCHANGED <<pendingState, frameLimit>>
      BY <2>4 DEF UpdateState
    <3>2. CASE pc[Main] \in {"StartUpdate", "StopUpdate"}
      <4>1. /\ Next_State = pendingState /\ Next_State # "DUMP" /\ ModeOf(Next_State) # currentMode
        BY <1>1, <3>1, <3>2 DEF QuietInv, ModeInv, Next_State, ModeOf
      <4>2. phase' = "activate" /\ UNCHANGED currentState
        BY <2>4, <4>1 DEF UpdateState
      <4> QED
        BY <1>1, <3>1, <3>2, <4>1, <4>2 DEF QuietInv, Recording
    <3>3. CASE pc[Main] = "SaveUpdate"
      <4>1. currentState = "STOP" /\ Next_State = "DUMP"
        BY <1>1, <3>1, <3>3 DEF QuietInv, Next_State
      <4>2. phase' = "dump" /\ UNCHANGED currentState
        BY <2>4, <4>1 DEF UpdateState
      <4> QED
        BY <1>1, <3>1, <3>3, <4>1, <4>2 DEF QuietInv, Recording
    <3> QED
      BY <1>1, <3>1, <3>2, <3>3, InsideUpdate DEF QuietInv, Recording
  <2>5. CASE Activate \/ DumpFrames \/ ClearDumped
    <3>1. /\ phase \in {"activate", "dump", "clear"} /\ pc' = pc
          /\ UNCHANGED <<pendingState, frameLimit, nextState>>
          /\ \/ currentState' = nextState /\ phase' = "state"
             \/ currentState' = currentState /\ phase = "dump" /\ phase' \in {"clear", "crashed"}
      BY <2>5 DEF Activate, DumpFrames, ClearDumped
    <3>2. phase \in {"dump", "clear"} => nextState = "DUMP"
      BY DEF ModeInv
    <3> QED
      BY <1>1, <3>1, <3>2, InsideUpdate DEF QuietInv, Recording
  <2>6. CASE UpdateLeave
    <3>1. /\ phase = "state" /\ currentState = pendingState /\ phase' = "idle" /\ UNCHANGED session
          /\ pc'[coreLock] = After(pc[coreLock]) /\ \A u \in Threads \ {coreLock} : pc'[u] = pc[u]
      <4>1. coreLock \in Threads
        BY <2>6, InsideUpdate DEF UpdateLeave
      <4> QED
        BY <1>1, <2>6, <4>1 DEF UpdateLeave
    <3>2. CASE coreLock = Runner
      BY <1>1, <3>1, <3>2, InsideUpdate DEF QuietInv, Recording
    <3>3. CASE coreLock = Main
      BY <1>1, <3>1, <3>3, InsideUpdate DEF QuietInv, Recording, After
    <3> QED
      BY <3>1, <3>2, <3>3, InsideUpdate
  <2> QED
    BY <1>4, <2>1, <2>2, <2>3, <2>4, <2>5, <2>6 DEF Update
<1>5. CASE ~MainThread /\ ~Update
  <2>1. pc'[Main] = pc[Main]
    BY <1>5, Moves, SMTT(30) DEF Update
  <2>2. UNCHANGED <<session, phase, nextState>>
    BY <1>5 DEF Next, Spawn, RunnerThread, FrameScope, FrameEnd, FrameBegin, RunJob, Register, Record,
                EventLoad, EventAdd, EventCheck, EventFinish, ThreadEnd, vars
  <2> QED
    BY <1>2, <2>1, <2>2
<1> QED
  BY <1>3, <1>4, <1>5

-----------------------------------------------------------------------------
(* Events that are finished in time.                                         *)

(* The memory of an event is there until it has ended.                       *)
ChunkInv == script = << >> =>
    /\ \A t \in Threads : pc[t] \in {"Inside", "Finish"} /\ held[t] # NoEvent =>
          held[t].chunks = buffer[held[t].entry].chunks
    /\ "chunk" \notin strayWrites

LEMMA ChunkNext == BaseInv /\ ModeInv /\ QuietInv /\ ChunkInv /\ [Next]_vars => ChunkInv'
<1> SUFFICES ASSUME BaseInv, ModeInv, QuietInv, ChunkInv, [Next]_vars, script' = << >> PROVE ChunkInv'
  BY DEF ChunkInv
<1> USE Names DEF recording
<1>1. /\ script = << >> /\ pc \in [Threads -> Labels] /\ held \in [Threads -> Pointers \cup {NoEvent}]
      /\ buffer \in [Entries -> Buffers]
  BY ScriptKept DEF BaseInv, TypeInv, TypeOK
<1>2. \A t \in Threads : held[t] # NoEvent => held[t].entry \in Entries
  BY <1>1 DEF Pointers
<1>3. ASSUME UNCHANGED held, "chunk" \in strayWrites' => "chunk" \in strayWrites,
             \A n \in Entries : buffer'[n].chunks = buffer[n].chunks,
             \A t \in Threads : pc'[t] \in {"Inside", "Finish"} => pc[t] \in {"Inside", "Finish"} \/ held[t] = NoEvent
      PROVE  ChunkInv'
  BY <1>1, <1>2, <1>3 DEF ChunkInv
<1>4. ASSUME NEW t \in Threads, NEW a, NEW b, Go(t, a, b), b \notin {"Inside", "Finish"}
      PROVE  \A u \in Threads : pc'[u] \in {"Inside", "Finish"} => pc[u] \in {"Inside", "Finish"} \/ held[u] = NoEvent
  BY <1>1, <1>4, Moved
<1>5. CASE MainThread
  <2>1. UNCHANGED <<recording, strayWrites, buffer>>
    BY <1>5 DEF MainThread, StartCapture, StartFrame, MainRegister, Quit, MainJoin, StopCapture,
                SaveCapture, Shutdown, MainExit
  <2>2. \A t \in Threads : pc'[t] \in {"Inside", "Finish"} => pc[t] \in {"Inside", "Finish"} \/ held[t] = NoEvent
    BY <1>4, <1>5 DEF MainThread, StartCapture, StartFrame, MainRegister, Quit, MainJoin, StopCapture,
                SaveCapture, Shutdown, MainExit
  <2> QED
    BY <1>3, <2>1, <2>2
<1>6. CASE Update /\ ~ClearDumped
  <2>1. UNCHANGED recording /\ ("chunk" \in strayWrites' => "chunk" \in strayWrites)
    BY <1>6 DEF Update, UpdateEnter, UpdateMessage, UpdateNoMore, UpdateState, Activate, DumpFrames,
                UpdateLeave
  <2>2. \A n \in Entries : buffer'[n].chunks = buffer[n].chunks
    <3>1. CASE Activate
      BY <3>1, Activated
    <3>2. CASE ~Activate
      BY <1>6, <3>2 DEF Update, UpdateEnter, UpdateMessage, UpdateNoMore, UpdateState, DumpFrames, UpdateLeave
    <3> QED
      BY <3>1, <3>2
  <2>3. \A t \in Threads : pc'[t] \in {"Inside", "Finish"} => pc[t] \in {"Inside", "Finish"}
    <3>1. CASE UpdateLeave
      <4>1. coreLock \in {Main, Runner} /\ pc[coreLock] \in Updaters
        BY <3>1 DEF BaseInv, TypeInv, TypeOK, UpdateLeave, ControlInv
      <4>2. pc'[coreLock] = After(pc[coreLock]) /\ \A u \in Threads \ {coreLock} : pc'[u] = pc[u]
        BY <1>1, <3>1, <4>1 DEF UpdateLeave
      <4>3. After(pc[coreLock]) \notin {"Inside", "Finish"}
        BY <4>1 DEF After, Updaters
      <4> QED
        BY <4>2, <4>3
    <3>2. CASE ~UpdateLeave
      BY <1>6, <3>2 DEF Update, UpdateEnter, UpdateMessage, UpdateNoMore, UpdateState, Activate, DumpFrames
    <3> QED
      BY <3>1, <3>2
  <2> QED
    BY <1>3, <2>1, <2>2, <2>3
<1>7. CASE ClearDumped
  <2>1. phase = "clear" /\ pc' = pc /\ UNCHANGED <<strayWrites, held>>
    BY <1>7 DEF ClearDumped
  <2>2. pc[Main] = "SaveUpdate"
    BY <1>1, <2>1, InsideUpdate DEF QuietInv, Recording
  <2>3. \A t \in Threads : pc[t] \notin {"Inside", "Finish"}
    BY <2>2 DEF BaseInv, ControlInv, AfterJoin
  <2> QED
    BY <1>1, <2>1, <2>3 DEF ChunkInv
<1>8. CASE Spawn
  BY <1>3, <1>8 DEF Spawn
<1>9. CASE RunnerThread \/ (\E w \in Workers : RunJob(w)) \/ \E t \in Threads \ {Main} : Register(t) \/ ThreadEnd(t)
  <2>1. UNCHANGED <<recording, strayWrites, buffer>>
    BY <1>9 DEF RunnerThread, FrameScope, FrameEnd, FrameBegin, RunJob, Register, ThreadEnd
  <2>2. \A t \in Threads : pc'[t] \in {"Inside", "Finish"} => pc[t] \in {"Inside", "Finish"} \/ held[t] = NoEvent
    BY <1>4, <1>9 DEF RunnerThread, FrameScope, FrameEnd, FrameBegin, RunJob, Register, ThreadEnd
  <2> QED
    BY <1>3, <2>1, <2>2
<1>10. ASSUME NEW t \in Threads \ {Main}, Record(t) PROVE ChunkInv'
  <2>1. CASE EventLoad(t)
    <3>1. held' = [held EXCEPT ![t] = NoEvent] /\ UNCHANGED <<buffer, strayWrites>>
      BY <2>1 DEF EventLoad
    <3>2. \A u \in Threads \ {t} : pc'[u] = pc[u] /\ held'[u] = held[u]
      BY <1>1, <2>1, <3>1, Moved DEF EventLoad
    <3> QED
      BY <1>1, <3>1, <3>2 DEF ChunkInv
  <2>2. CASE EventAdd(t)
    <3>1. PICK n : n = seen[t]
      OBVIOUS
    <3>2. /\ n \in Entries /\ held'[t].entry = n /\ held'[t].chunks = buffer[n].chunks
          /\ \A m \in Entries : buffer'[m].chunks = buffer[m].chunks
      <4>1. /\ n \in Entries /\ buffer'[n].chunks = buffer[n].chunks
            /\ \A m \in Entries \ {n} : buffer'[m] = buffer[m]
            /\ held'[t] = [entry |-> n, chunks |-> buffer[n].chunks, at |-> buffer[n].size + 1]
        BY <2>2, <3>1, Added
      <4> QED
        BY <4>1
    <3>3. \A u \in Threads \ {t} : pc'[u] = pc[u] /\ held'[u] = held[u]
      BY <1>1, <2>2, Moved DEF EventAdd
    <3>4. \A u \in Threads : pc'[u] \in {"Inside", "Finish"} /\ held'[u] # NoEvent =>
             held'[u].chunks = buffer'[held'[u].entry].chunks
      BY <1>1, <1>2, <3>2, <3>3 DEF ChunkInv
    <3>5. seen[t] \notin deleted
      <4>1. seen[t] \in Entries /\ ThreadOf(seen[t]) = t /\ pc[t] # "Done"
        BY <2>2 DEF EventAdd, Go, BaseInv, StorageInv, TypeInv, TypeOK
      <4> QED
        BY <4>1 DEF BaseInv, RegistryInv
    <3>6. strayWrites' = strayWrites
      BY <2>2, <3>5 DEF EventAdd
    <3> QED
      BY <1>1, <3>4, <3>6 DEF ChunkInv
  <2>3. CASE EventCheck(t)
    <3>1. /\ UNCHANGED <<buffer, held, strayWrites>>
          /\ pc[t] = "Inside" /\ \A u \in Threads \ {t} : pc'[u] = pc[u]
      BY <1>1, <2>3, Moved DEF EventCheck
    <3> QED
      BY <1>3, <3>1
  <2>4. CASE EventFinish(t)
    <3> DEFINE e == held[t]
    <3>1. pc[t] = "Finish" /\ e \in Pointers /\ e # NoEvent
      BY <1>1, <2>4 DEF EventFinish, Go, BaseInv, StorageInv
    <3>2. e.chunks = buffer[e.entry].chunks /\ e.entry \in Entries /\ e.at \in Nat \ {0}
      BY <1>1, <3>1 DEF ChunkInv, Pointers
    <3>3. UNCHANGED strayWrites /\ held' = [held EXCEPT ![t] = NoEvent]
      BY <2>4, <3>2 DEF EventFinish
    <3>4. \A m \in Entries : buffer'[m].chunks = buffer[m].chunks
      BY <2>4, <3>2, Stopped
    <3> HIDE DEF e
    <3>5. held'[t] = NoEvent /\ \A u \in Threads \ {t} : pc'[u] = pc[u] /\ held'[u] = held[u]
      BY <1>1, <2>4, <3>3, Moved DEF EventFinish
    <3>6. \A u \in Threads : pc'[u] \in {"Inside", "Finish"} /\ held'[u] # NoEvent =>
             held'[u].chunks = buffer'[held'[u].entry].chunks
      BY <1>1, <1>2, <3>4, <3>5 DEF ChunkInv
    <3> QED
      BY <1>1, <3>3, <3>6 DEF ChunkInv
  <2> QED
    BY <1>10, <2>1, <2>2, <2>3, <2>4 DEF Record
<1>11. CASE UNCHANGED vars
  BY <1>3, <1>11 DEF vars
<1> QED
  BY <1>5, <1>6, <1>7, <1>8, <1>9, <1>10, <1>11 DEF Next

(* In the program as it is, no event ends in memory that a dump has freed,   *)
(* since main dumps when it has joined the runner and the runner the workers; *)
(* and, whatever a client asks for, none begins in a storage that was        *)
(* deleted.                                                                  *)
THEOREM NeverWritesAstray == Spec => []NoStrayWrite
<1>1. Init => QuietInv /\ ChunkInv
  BY Names, StateNames DEF Init, QuietInv, ChunkInv, Recording
<1>2. BaseInv /\ ChunkInv => NoStrayWrite
  BY DEF BaseInv, StorageInv, ChunkInv, NoStrayWrite
<1> QED
  BY <1>1, <1>2, BaseAlways, ModeAlwaysFits, QuietNext, ChunkNext, PTL DEF Spec

-----------------------------------------------------------------------------
(* No event is sent twice.                                                   *)

(* Every event is at one place, or sent, and only in the middle of a dump    *)
(* both; a thread numbers its events.                                        *)
IdsInv ==
    /\ \A n \in Entries : \A k \in 1 .. buffer[n].size :
          LET id == buffer[n].data[k].id IN id[1] = ThreadOf(n) /\ id[2] < started[id[1]]
    /\ \A n, m \in Entries : \A k \in 1 .. buffer[n].size, l \in 1 .. buffer[m].size :
          buffer[n].data[k].id = buffer[m].data[l].id => n = m /\ k = l
    /\ \A d \in DOMAIN dumps : \A i \in DOMAIN dumps[d].scopes : \A id \in dumps[d].scopes[i] :
          /\ id \in EventIds /\ id[1] = ThreadOf(dumps[d].board[i]) /\ id[2] < started[id[1]]
          /\ \A n \in Entries : \A k \in 1 .. buffer[n].size :
                buffer[n].data[k].id = id => phase = "clear" /\ n \in Registered
    /\ NoEventTwice

LEMMA IdsKept ==
    ASSUME IdsInv, UNCHANGED <<started, dumps>>,
           phase = "clear" => phase' = "clear" /\ Registered' = Registered,
           \A n \in Entries : /\ buffer[n].size \in Nat /\ buffer'[n].size \in 0 .. buffer[n].size
                              /\ \A k \in 1 .. buffer'[n].size : buffer'[n].data[k].id = buffer[n].data[k].id
    PROVE  IdsInv'
<1>1. ASSUME NEW n \in Entries, NEW k \in 1 .. buffer'[n].size
      PROVE  k \in 1 .. buffer[n].size /\ buffer'[n].data[k].id = buffer[n].data[k].id
  <2>1. buffer[n].size \in Nat /\ buffer'[n].size \in 0 .. buffer[n].size
    OBVIOUS
  <2> QED
    BY <2>1
<1>2. \A n \in Entries : \A k \in 1 .. buffer'[n].size :
         LET id == buffer'[n].data[k].id IN id[1] = ThreadOf(n) /\ id[2] < started'[id[1]]
  BY <1>1 DEF IdsInv
<1>3. \A n, m \in Entries : \A k \in 1 .. buffer'[n].size, l \in 1 .. buffer'[m].size :
          buffer'[n].data[k].id = buffer'[m].data[l].id => n = m /\ k = l
  BY <1>1 DEF IdsInv
<1>4. \A d \in DOMAIN dumps' : \A i \in DOMAIN dumps'[d].scopes : \A id \in dumps'[d].scopes[i] :
          /\ id \in EventIds /\ id[1] = ThreadOf(dumps'[d].board[i]) /\ id[2] < started'[id[1]]
          /\ \A n \in Entries : \A k \in 1 .. buffer'[n].size :
                buffer'[n].data[k].id = id => phase' = "clear" /\ n \in Registered'
  BY <1>1 DEF IdsInv
<1>5. NoEventTwice'
  BY DEF IdsInv, NoEventTwice
<1> QED
  BY <1>2, <1>3, <1>4, <1>5 DEF IdsInv

LEMMA IdsNext == BaseInv /\ IdsInv /\ [Next]_vars => IdsInv'
<1> SUFFICES ASSUME BaseInv, IdsInv, [Next]_vars PROVE IdsInv'
  OBVIOUS
<1> USE Names DEF recording, updating, registry, output
<1>1. /\ pc \in [Threads -> Labels] /\ held \in [Threads -> Pointers \cup {NoEvent}]
      /\ buffer \in [Entries -> Buffers] /\ started \in [Threads -> Nat] /\ clock \in Nat
  BY DEF BaseInv, TypeInv, TypeOK
<1>2. \A n \in Entries : buffer[n].size \in Nat /\ buffer[n].size <= Len(buffer[n].data)
  BY <1>1 DEF Buffers, BaseInv, TypeInv
<1>3. ASSUME UNCHANGED <<started, dumps, buffer>>,
             phase = "clear" => phase' = "clear" /\ threads' = threads
      PROVE  IdsInv'
  <2>1. \A n \in Entries : buffer'[n].size \in 0 .. buffer[n].size
    BY <1>2, <1>3
  <2> QED
    BY <1>2, <1>3, <2>1, IdsKept DEF Registered
<1>4. CASE MainThread
  BY <1>3, <1>4 DEF MainThread, StartCapture, StartFrame, MainRegister, Quit, MainJoin, StopCapture,
              SaveCapture, Shutdown, MainExit, RegisterThread, UnRegisterThread, ThreadsLocked
<1>5. CASE \/ \E t \in {Main, Runner} : UpdateEnter(t)
           \/ UpdateMessage \/ UpdateNoMore \/ UpdateState \/ UpdateLeave
           \/ DumpFrames /\ dumps' = dumps
  <2>1. /\ UNCHANGED <<started, dumps, buffer, threads>> /\ (phase = "clear" => phase' = "clear")
    <3>1. (\E t \in {Main, Runner} : UpdateEnter(t)) => phase # "clear"
      BY DEF UpdateEnter, BaseInv, ControlInv
    <3> QED
      BY <1>5, <3>1 DEF UpdateEnter, UpdateMessage, UpdateNoMore, UpdateState, UpdateLeave, DumpFrames
  <2> QED
    BY <1>3, <2>1
<1>6. CASE Activate
  <2>1. UNCHANGED <<started, dumps>> /\ phase # "clear"
    BY <1>6 DEF Activate
  <2>2. \A n \in Entries : /\ buffer'[n].size \in {0, buffer[n].size} /\ buffer'[n].data = buffer[n].data
    BY <1>6, Activated
  <2>3. \A n \in Entries : buffer'[n].size \in 0 .. buffer[n].size
    BY <1>2, <2>2
  <2> QED
    BY <1>2, <2>1, <2>2, <2>3, IdsKept
<1>7. CASE DumpFrames /\ dumps' # dumps
  <2> DEFINE new == Len(dumps) + 1
  <2>1. /\ phase = "dump" /\ phase' = "clear" /\ UNCHANGED <<started, buffer, threads>>
        /\ threads \in Seq(Entries) /\ dumps \in Seq(Captures)
    BY <1>7 DEF DumpFrames, BaseInv, TypeInv, TypeOK
  <2>2. /\ dumps' \in Seq(Captures) /\ Len(dumps') = new
        /\ \A d \in DOMAIN dumps : dumps'[d] = dumps[d]
        /\ dumps'[new].board = threads /\ DOMAIN dumps'[new].scopes = DOMAIN threads
        /\ \A i \in DOMAIN threads : \A id \in dumps'[new].scopes[i] : \E e \in Events(threads[i]) : e.id = id
    BY <1>7, Dumped
  <2>3. \A d \in DOMAIN dumps' : d \in DOMAIN dumps \/ d = new
    BY <2>1, <2>2
  <2>4. new \notin DOMAIN dumps
    BY <2>1
  <2> HIDE DEF new
  <2>5. ASSUME NEW i \in DOMAIN threads, NEW id \in dumps'[new].scopes[i]
        PROVE  /\ threads[i] \in Entries /\ threads[i] \in Registered
               /\ \E k \in 1 .. buffer[threads[i]].size : buffer[threads[i]].data[k].id = id /\ id \in EventIds
    <3>1. threads[i] \in Entries /\ threads[i] \in Registered
      BY <2>1 DEF Registered
    <3>2. PICK e \in Events(threads[i]) : e.id = id
      BY <2>2
    <3>3. PICK k \in 1 .. buffer[threads[i]].size : e = buffer[threads[i]].data[k]
      BY <3>2 DEF Events
    <3> QED
      BY <3>1, <3>2, <3>3, Held DEF BaseInv
  <2>6. \A i \in DOMAIN threads : \A id \in dumps'[new].scopes[i] :
          /\ id \in EventIds /\ id[1] = ThreadOf(threads[i]) /\ id[2] < started[id[1]]
          /\ \A n \in Entries : \A k \in 1 .. buffer[n].size :
                buffer[n].data[k].id = id => n \in Registered
    BY <2>5 DEF IdsInv
  <2>7. \A d \in DOMAIN dumps' : \A i \in DOMAIN dumps'[d].scopes : \A id \in dumps'[d].scopes[i] :
          /\ id \in EventIds /\ id[1] = ThreadOf(dumps'[d].board[i]) /\ id[2] < started'[id[1]]
          /\ \A n \in Entries : \A k \in 1 .. buffer'[n].size :
                buffer'[n].data[k].id = id => phase' = "clear" /\ n \in Registered'
    <3>1. Registered' = Registered
      BY <2>1 DEF Registered
    <3>2. ASSUME NEW d \in DOMAIN dumps, NEW i \in DOMAIN dumps'[d].scopes, NEW id \in dumps'[d].scopes[i]
          PROVE  /\ id \in EventIds /\ id[1] = ThreadOf(dumps'[d].board[i]) /\ id[2] < started'[id[1]]
                 /\ \A n \in Entries : \A k \in 1 .. buffer'[n].size : buffer'[n].data[k].id # id
      BY <2>1, <2>2, <3>2 DEF IdsInv
    <3> QED
      BY <2>1, <2>2, <2>3, <2>6, <3>1, <3>2
  <2>8. ASSUME NEW d \in DOMAIN dumps', NEW e \in DOMAIN dumps',
               NEW i \in DOMAIN dumps'[d].scopes, NEW j \in DOMAIN dumps'[e].scopes, <<d, i>> # <<e, j>>
        PROVE  dumps'[d].scopes[i] \cap dumps'[e].scopes[j] = {}
    <3>1. ASSUME NEW a \in DOMAIN dumps, NEW k \in DOMAIN dumps[a].scopes, NEW l \in DOMAIN threads
          PROVE  dumps[a].scopes[k] \cap dumps'[new].scopes[l] = {}
      BY <2>1, <2>5, SMTT(30) DEF IdsInv
    <3>2. CASE d \in DOMAIN dumps /\ e \in DOMAIN dumps
      BY <2>2, <2>8, <3>2 DEF IdsInv, NoEventTwice
    <3>3. CASE d \in DOMAIN dumps /\ e = new
      BY <2>2, <3>1, <3>3
    <3>4. CASE d = new /\ e \in DOMAIN dumps
      BY <2>2, <3>1, <3>4
    <3>5. CASE d = new /\ e = new
      <4>1. threads[i] # threads[j]
        BY <2>2, <2>8, <3>5 DEF BaseInv, RegistryInv
      <4> QED
        BY <2>2, <2>5, <3>5, <4>1 DEF IdsInv
    <3> QED
      BY <2>3, <3>2, <3>3, <3>4, <3>5
  <2>9. NoEventTwice'
    BY <2>8 DEF NoEventTwice
  <2> QED
    BY <2>1, <2>7, <2>9 DEF IdsInv
<1>8. CASE ClearDumped
  <2>1. UNCHANGED <<started, dumps>> /\ phase = "clear" /\ phase' = "state"
    BY <1>8 DEF ClearDumped
  <2>2. \A n \in Entries :
           \/ n \in Registered /\ buffer'[n].size = 0
           \/ (n \in Registered => buffer[n].size = 0) /\ buffer'[n] = buffer[n]
    BY <1>8, Freed
  <2>3. ASSUME NEW n \in Entries, NEW k \in 1 .. buffer'[n].size
        PROVE  n \notin Registered /\ buffer'[n] = buffer[n] /\ k \in 1 .. buffer[n].size
    BY <2>2
  <2>4. \A d \in DOMAIN dumps' : \A i \in DOMAIN dumps'[d].scopes : \A id \in dumps'[d].scopes[i] :
          /\ id \in EventIds /\ id[1] = ThreadOf(dumps'[d].board[i]) /\ id[2] < started'[id[1]]
          /\ \A n \in Entries : \A k \in 1 .. buffer'[n].size :
                buffer'[n].data[k].id = id => phase' = "clear" /\ n \in Registered'
    BY <2>1, <2>3 DEF IdsInv
  <2>5. NoEventTwice'
    BY <2>1 DEF IdsInv, NoEventTwice
  <2>6. \A n, m \in Entries : \A k \in 1 .. buffer'[n].size, l \in 1 .. buffer'[m].size :
          buffer'[n].data[k].id = buffer'[m].data[l].id => n = m /\ k = l
    BY <2>3, SMTT(30) DEF IdsInv
  <2> QED
    BY <2>1, <2>3, <2>4, <2>5, <2>6 DEF IdsInv
<1>9. CASE Spawn \/ RunnerThread \/ (\E w \in Workers : RunJob(w))
            \/ \E t \in Threads \ {Main} : Register(t) \/ ThreadEnd(t)
  <2>1. UNCHANGED <<started, dumps, buffer, phase>> /\ (phase = "clear" => threads' = threads)
    BY <1>9 DEF Spawn, RunnerThread, FrameScope, FrameEnd, FrameBegin, RunJob, Register, ThreadEnd,
                RegisterThread, UnRegisterThread, ThreadsLocked
  <2> QED
    BY <1>3, <2>1
<1>10. ASSUME NEW t \in Threads \ {Main}, Record(t) PROVE IdsInv'
  <2>1. CASE EventLoad(t) \/ EventCheck(t)
    BY <1>3, <2>1 DEF EventLoad, EventCheck
  <2>2. CASE EventAdd(t)
    <3>1. PICK n, id : n = seen[t] /\ id = <<t, started[t]>>
      OBVIOUS
    <3>2. id \in EventIds /\ id[1] = t /\ id[2] = started[t] /\ started[t] \in Nat
      BY <1>1, <3>1 DEF EventIds
    <3>3. UNCHANGED <<dumps, phase, threads>> /\ ThreadOf(n) = t
      BY <2>2, <3>1, Added, SMTT(30) DEF EventAdd, Go, BaseInv, StorageInv
    <3>4. /\ n \in Entries /\ buffer[n].size \in Nat /\ buffer'[n].size = buffer[n].size + 1
          /\ buffer'[n].data[buffer[n].size + 1].id = id
          /\ \A k \in 1 .. buffer[n].size : buffer'[n].data[k] = buffer[n].data[k]
          /\ \A m \in Entries \ {n} : buffer'[m] = buffer[m]
      BY <2>2, <3>1, Added, ZenonT(30)
    <3>5. started'[t] = started[t] + 1 /\ \A u \in Threads \ {t} : started'[u] = started[u]
      BY <2>2, Added
    <3>6. ASSUME NEW m \in Entries, NEW k \in 1 .. buffer'[m].size
          PROVE  \/ k \in 1 .. buffer[m].size /\ buffer'[m].data[k].id = buffer[m].data[k].id
                 \/ m = n /\ k = buffer[n].size + 1 /\ buffer'[m].data[k].id = id
      <4>1. CASE m # n
        BY <3>4, <4>1
      <4>2. CASE m = n
        BY <3>4, <4>2
      <4> QED
        BY <4>1, <4>2
    <3>7. ASSUME NEW x \in EventIds, x[2] < started[x[1]] PROVE x # id /\ x[2] < started'[x[1]]
      <4>1. x[1] \in Threads /\ x[2] \in Nat
        BY DEF EventIds
      <4>2. x # id
        BY <1>1, <3>2, <3>7
      <4>3. x[2] < started'[x[1]]
        BY <1>1, <3>2, <3>5, <3>7, <4>1
      <4> QED
        BY <4>2, <4>3
    <3>8. ASSUME NEW m \in Entries, NEW k \in 1 .. buffer[m].size
          PROVE  /\ buffer[m].data[k].id \in EventIds /\ buffer[m].data[k].id # id
                 /\ buffer[m].data[k].id[1] = ThreadOf(m)
                 /\ buffer[m].data[k].id[2] < started'[buffer[m].data[k].id[1]]
      <4>1. buffer[m].data[k].id \in EventIds
        BY Held DEF BaseInv
      <4>2. /\ buffer[m].data[k].id[1] = ThreadOf(m)
            /\ buffer[m].data[k].id[2] < started[buffer[m].data[k].id[1]]
        BY DEF IdsInv
      <4> QED
        BY <3>7, <4>1, <4>2
    <3>9. id[1] = ThreadOf(n) /\ id[2] < started'[id[1]]
      BY <1>1, <3>2, <3>3, <3>5
    <3>10. \A m \in Entries : \A k \in 1 .. buffer'[m].size :
              buffer'[m].data[k].id[1] = ThreadOf(m) /\ buffer'[m].data[k].id[2] < started'[buffer'[m].data[k].id[1]]
      BY <3>6, <3>8, <3>9
    <3>11. \A m, o \in Entries : \A k \in 1 .. buffer'[m].size, l \in 1 .. buffer'[o].size :
              buffer'[m].data[k].id = buffer'[o].data[l].id => m = o /\ k = l
      <4>1. \A m, o \in Entries : \A k \in 1 .. buffer[m].size, l \in 1 .. buffer[o].size :
                buffer[m].data[k].id = buffer[o].data[l].id => m = o /\ k = l
        BY DEF IdsInv
      <4> QED
        BY <3>6, <3>8, <4>1, SMTT(30)
    <3>12. \A d \in DOMAIN dumps' : \A i \in DOMAIN dumps'[d].scopes : \A x \in dumps'[d].scopes[i] :
          /\ x \in EventIds /\ x[1] = ThreadOf(dumps'[d].board[i]) /\ x[2] < started'[x[1]]
          /\ \A m \in Entries : \A k \in 1 .. buffer'[m].size :
                buffer'[m].data[k].id = x => phase' = "clear" /\ m \in Registered'
      <4>1. Registered' = Registered
        BY <3>3 DEF Registered
      <4>2. ASSUME NEW d \in DOMAIN dumps, NEW i \in DOMAIN dumps[d].scopes, NEW x \in dumps[d].scopes[i]
            PROVE  /\ x \in EventIds /\ x[1] = ThreadOf(dumps[d].board[i]) /\ x[2] < started'[x[1]] /\ x # id
                   /\ \A m \in Entries : \A k \in 1 .. buffer[m].size :
                         buffer[m].data[k].id = x => phase = "clear" /\ m \in Registered
        <5>1. /\ x \in EventIds /\ x[1] = ThreadOf(dumps[d].board[i]) /\ x[2] < started[x[1]]
              /\ \A m \in Entries : \A k \in 1 .. buffer[m].size :
                         buffer[m].data[k].id = x => phase = "clear" /\ m \in Registered
          BY DEF IdsInv
        <5> QED
          BY <3>7, <5>1
      <4> QED
        BY <3>3, <3>6, <4>1, <4>2
    <3>13. NoEventTwice'
      BY <3>3 DEF IdsInv, NoEventTwice
    <3> QED
      BY <3>10, <3>11, <3>12, <3>13 DEF IdsInv
  <2>3. CASE EventFinish(t)
    <3> DEFINE e == held[t]
    <3>1. e \in Pointers /\ UNCHANGED <<started, dumps, phase, threads>>
      BY <1>1, <2>3 DEF EventFinish, Go, BaseInv, StorageInv
    <3>2. e.entry \in Entries /\ e.at \in Nat \ {0}
      BY <3>1 DEF Pointers
    <3>3. PICK b : b = Finished(buffer[e.entry], e.at)
      BY SMTT(30)
    <3>4. buffer' = buffer \/ buffer' = [buffer EXCEPT ![e.entry] = b]
      BY <2>3, <3>3 DEF EventFinish, Finished
    <3>5. /\ b.size = buffer[e.entry].size
          /\ \A k \in 1 .. b.size : b.data[k].id = buffer[e.entry].data[k].id
      <4>1. /\ buffer[e.entry] \in Buffers /\ buffer[e.entry].size <= Len(buffer[e.entry].data)
            /\ e.at \in Nat \ {0} /\ clock \in Nat
        BY <1>1, <1>2, <3>2
      <4> HIDE DEF e
      <4>2. /\ b.size = buffer[e.entry].size
            /\ \A k \in 1 .. buffer[e.entry].size : b.data[k].id = buffer[e.entry].data[k].id
        BY <3>3, <4>1, EventFinished
      <4> QED
        BY <4>2
    <3> HIDE DEF e
    <3>6. ASSUME NEW n \in Entries
          PROVE  /\ buffer'[n].size \in 0 .. buffer[n].size
                 /\ \A k \in 1 .. buffer'[n].size : buffer'[n].data[k].id = buffer[n].data[k].id
      <4>1. buffer'[n] = buffer[n] \/ (n = e.entry /\ buffer'[n] = b)
        BY <1>1, <3>2, <3>4
      <4> QED
        BY <1>2, <3>5, <4>1
    <3> QED
      BY <1>2, <3>1, <3>6, IdsKept DEF Registered
  <2> QED
    BY <1>10, <2>1, <2>2, <2>3 DEF Record
<1>11. CASE UNCHANGED vars
  BY <1>3, <1>11 DEF vars
<1> QED
  BY <1>4, <1>5, <1>6, <1>7, <1>8, <1>9, <1>10, <1>11 DEF Next, Update

(* However often a client starts, stops and cancels captures, and while      *)
(* threads go on recording into the buffers that are dumped, no event is     *)
(* sent in two scopes, of one capture or of two.                             *)
THEOREM NeverSendsTwice == Spec => []NoEventTwice
<1>1. Init => IdsInv
  BY DEF Init, IdsInv, NoEventTwice
<1>2. IdsInv => NoEventTwice
  BY DEF IdsInv
<1> QED
  BY <1>1, <1>2, BaseAlways, IdsNext, PTL DEF Spec

-----------------------------------------------------------------------------
(* What a thread does to its own part of the state.                          *)

(* Nobody but a thread itself moves it, once main has spawned it, or touches *)
(* its pointers and its count of events.                                     *)
Looping == {"Loop", "EndFrame", "FrameUpdate", "BeginFrame"}

LEMMA ThreadSteps ==
    ASSUME BaseInv, [Next]_vars, NEW t \in Threads \ {Main}
    PROVE  \/ Register(t) \/ Record(t)
           \/ /\ seen'[t] = seen[t] /\ held'[t] = held[t]
              /\ \/ pc'[t] = pc[t]
                 \/ pc[t] = "Unborn" /\ pc'[t] = "Register"
                 \/ pc[t] \in Looping /\ pc'[t] \in Looping \cup {"Event", "Done"}
<1> USE Names DEF recording, Looping
<1>1. pc \in [Threads -> Labels] /\ held \in [Threads -> Pointers \cup {NoEvent}]
          /\ seen \in [Threads -> Entries \cup {None}]
  BY DEF BaseInv, TypeInv, TypeOK
<1>2. CASE MainThread
  <2>1. PICK a, b : Go(Main, a, b)
    BY <1>2 DEF MainThread, StartCapture, StartFrame, MainRegister, Quit, MainJoin, StopCapture,
                SaveCapture, Shutdown, MainExit
  <2>2. UNCHANGED recording
    BY <1>2 DEF MainThread, StartCapture, StartFrame, MainRegister, Quit, MainJoin, StopCapture,
                SaveCapture, Shutdown, MainExit
  <2> QED
    BY <1>1, <2>1, <2>2, Moved
<1>3. CASE UpdateLeave
  <2>1. coreLock \in {Main, Runner} /\ pc[coreLock] \in Updaters /\ UNCHANGED recording
    BY <1>3 DEF BaseInv, TypeInv, TypeOK, UpdateLeave, ControlInv
  <2>2. pc'[coreLock] = After(pc[coreLock]) /\ \A u \in Threads \ {coreLock} : pc'[u] = pc[u]
    BY <1>1, <1>3, <2>1 DEF UpdateLeave
  <2>3. coreLock = Runner => pc[Runner] = "FrameUpdate"
    BY <2>1 DEF BaseInv, ControlInv, RunnerLabels, WorkerLabels, Updaters
  <2>4. After("FrameUpdate") = "BeginFrame"
    BY DEF After
  <2> QED
    BY <2>1, <2>2, <2>3, <2>4
<1>4. CASE Update /\ ~UpdateLeave
  BY <1>4 DEF Update, UpdateEnter, UpdateMessage, UpdateNoMore, UpdateState, Activate, DumpFrames, ClearDumped
<1>5. CASE Spawn
  <2>1. pc[t] = "Unborn"
    BY <1>5 DEF Spawn, BaseInv, ControlInv
  <2> QED
    BY <1>5, <2>1 DEF Spawn
<1>6. CASE RunnerThread \/ (\E w \in Workers : RunJob(w)) \/ \E u \in Threads \ {Main} : ThreadEnd(u)
  <2>1. PICK u \in Threads, a \in Looping, b \in Looping \cup {"Event", "Done"} : Go(u, a, b)
    BY <1>6 DEF RunnerThread, FrameScope, FrameEnd, FrameBegin, RunJob, ThreadEnd
  <2>2. UNCHANGED recording
    BY <1>6 DEF RunnerThread, FrameScope, FrameEnd, FrameBegin, RunJob, ThreadEnd
  <2> QED
    BY <1>1, <2>1, <2>2, Moved
<1>7. ASSUME NEW u \in Threads \ {Main}, u # t, Register(u) \/ Record(u)
      PROVE  seen'[t] = seen[t] /\ held'[t] = held[t] /\ pc'[t] = pc[t]
  <2>1. PICK a, b : Go(u, a, b)
    BY <1>7 DEF Register, Record, EventLoad, EventAdd, EventCheck, EventFinish
  <2>2. pc'[t] = pc[t]
    BY <1>1, <1>7, <2>1, Moved
  <2>3. PICK p, q : seen' \in {seen, [seen EXCEPT ![u] = p]} /\ held' \in {held, [held EXCEPT ![u] = q]}
    BY <1>7 DEF Register, Record, EventLoad, EventAdd, EventCheck, EventFinish
  <2> QED
    BY <1>1, <1>7, <2>2, <2>3
<1>8. CASE UNCHANGED vars
  BY <1>8 DEF vars
<1> QED
  BY <1>2, <1>3, <1>4, <1>5, <1>6, <1>7, <1>8 DEF Next

(* Who writes into the buffers.                                              *)
LEMMA BufferSteps ==
    ASSUME [Next]_vars
    PROVE  \/ UNCHANGED <<buffer, started>>
           \/ (Activate \/ ClearDumped) /\ UNCHANGED started
           \/ \E t \in Threads \ {Main} : EventAdd(t) \/ (EventFinish(t) /\ UNCHANGED started)
<1> USE DEF recording
<1>1. CASE MainThread
  BY <1>1 DEF MainThread, StartCapture, StartFrame, MainRegister, Quit, MainJoin, StopCapture,
              SaveCapture, Shutdown, MainExit
<1>2. CASE Update
  BY <1>2 DEF Update, UpdateEnter, UpdateMessage, UpdateNoMore, UpdateState, Activate, DumpFrames,
              ClearDumped, UpdateLeave
<1>3. CASE Spawn \/ RunnerThread \/ (\E w \in Workers : RunJob(w))
  BY <1>3, SMTT(30) DEF Spawn, RunnerThread, FrameScope, FrameEnd, FrameBegin, RunJob
<1>4. CASE \E t \in Threads \ {Main} : Register(t) \/ Record(t) \/ ThreadEnd(t)
  BY <1>4 DEF Register, ThreadEnd, Record, EventLoad, EventCheck, EventFinish
<1>5. CASE UNCHANGED vars
  BY <1>5 DEF vars
<1> QED
  BY <1>1, <1>2, <1>3, <1>4, <1>5 DEF Next
-----------------------------------------------------------------------------
(* The capture of the program without a client.                              *)

Quiet == BaseInv /\ ModeInv /\ QuietInv /\ ChunkInv /\ script = << >>
Waiting == {"WaitForQuit", "Join"}

(* While another thread is about, main waits and the capture runs.           *)
LEMMA Alone ==
    ASSUME Quiet, NEW t \in Threads \ {Main}, pc[t] \notin {"Unborn", "Done"}
    PROVE  pc[Main] \in Waiting
<1>1. pc[Main] \notin BeforeSpawn /\ pc[Main] \notin AfterJoin
  BY Names DEF Quiet, BaseInv, ControlInv
<1> QED
  BY <1>1 DEF Quiet, BaseInv, ControlInv, MainLabels, BeforeSpawn, AfterJoin, Waiting

LEMMA Running ==
    ASSUME Quiet, pc[Main] \in Waiting
    PROVE  currentMode = "ON" /\ phase \notin {"activate", "dump", "clear"} /\ threads # << >>
  BY DEF Quiet, QuietInv, ModeInv, Recording, Waiting, BaseInv, RegistryInv, Listed

(* The capture is dumped when main forces its last Update.                   *)
Sent == \/ pc[Main] \in {"Shutdown", "Unregister", "Done"}
        \/ pc[Main] = "SaveUpdate" /\ (phase = "clear" \/ currentState = "DUMP")

(* When main activates and when it dumps.                                    *)
LEMMA Turns ==
    ASSUME Quiet
    PROVE  /\ Activate => pc[Main] = "StartUpdate" \/ (pc[Main] = "StopUpdate" /\ currentMode = "OFF")
           /\ DumpFrames => pc[Main] = "SaveUpdate" /\ ~Sent /\ threads # << >>
           /\ ClearDumped => pc[Main] = "SaveUpdate" /\ Sent
<1>1. /\ Activate => phase = "activate"
      /\ DumpFrames => phase = "dump"
      /\ ClearDumped => phase = "clear"
  BY DEF Activate, DumpFrames, ClearDumped
<1>2. phase \in {"activate", "dump", "clear"} => pc[Main] \in {"StartUpdate", "StopUpdate", "SaveUpdate"}
  BY InsideUpdate, Running DEF Quiet, Waiting
<1>3. phase = "activate" => pc[Main] = "StartUpdate" \/ (pc[Main] = "StopUpdate" /\ currentMode = "OFF")
  BY <1>2 DEF Quiet, QuietInv, ModeInv, ModeOf
<1>4. phase \in {"dump", "clear"} => pc[Main] = "SaveUpdate" /\ currentState = "STOP"
  BY <1>2 DEF Quiet, QuietInv
<1> QED
  BY <1>1, <1>3, <1>4 DEF Sent, Quiet, BaseInv, RegistryInv, Listed

LEMMA SentNext ==
    ASSUME Quiet, [Next]_vars
    PROVE  /\ Sent => Sent'
           /\ Sent' => Sent \/ DumpFrames
<1> USE Names DEF session, updating
<1>1. pc \in [Threads -> Labels] /\ ControlInv /\ QuietInv /\ script = << >>
  BY DEF Quiet, BaseInv, TypeInv, TypeOK
<1>2. CASE MainThread
  <2>1. CASE StartCapture \/ StartFrame \/ MainRegister \/ Quit \/ MainJoin \/ StopCapture
    <3>1. /\ pc[Main] \in {"StartCapture", "StartFrame", "Register", "WaitForQuit", "Join", "StopCapture"}
          /\ pc'[Main] \in {"StartUpdate", "Register", "WaitForQuit", "Join", "StopCapture", "SaveCapture", "StopUpdate"}
      BY <1>1, <2>1, Moved DEF StartCapture, StartFrame, MainRegister, Quit, MainJoin, StopCapture
    <3> QED
      BY <3>1 DEF Sent
  <2>2. CASE SaveCapture
    <3>1. pc[Main] = "SaveCapture" /\ pc'[Main] = "SaveUpdate" /\ UNCHANGED <<phase, currentState>>
      BY <1>1, <2>2, Moved DEF SaveCapture
    <3>2. phase = "idle" /\ currentState = "STOP"
      BY <1>1, <3>1, InsideUpdate DEF Quiet, QuietInv, Waiting
    <3> QED
      BY <3>1, <3>2 DEF Sent
  <2>3. CASE Shutdown \/ MainExit
    <3>1. pc[Main] \in {"Shutdown", "Unregister"} /\ pc'[Main] \in {"Unregister", "Done"}
      BY <1>1, <2>3, Moved DEF Shutdown, MainExit
    <3> QED
      BY <3>1 DEF Sent
  <2> QED
    BY <1>2, <2>1, <2>2, <2>3 DEF MainThread
<1>3. CASE Update /\ ~UpdateLeave
  <2>1. pc' = pc
    BY <1>3 DEF Update, UpdateEnter, UpdateMessage, UpdateNoMore, UpdateState, Activate, DumpFrames, ClearDumped
  <2>2. CASE pc[Main] = "SaveUpdate"
    <3>1. CASE (\E t \in {Main, Runner} : UpdateEnter(t)) \/ UpdateMessage \/ UpdateNoMore
      <4>1. currentState' = currentState /\ phase # "clear" /\ phase' # "clear"
        BY <3>1 DEF UpdateEnter, UpdateMessage, UpdateNoMore, Quiet, BaseInv, ControlInv
      <4> QED
        BY <2>1, <2>2, <4>1 DEF Sent
    <3>2. CASE UpdateState
      <4>1. pendingState = "DUMP" /\ currentState = "STOP" /\ phase = "state"
        BY <1>1, <2>2, <3>2 DEF UpdateState, QuietInv
      <4>2. phase' = "dump" /\ currentState' = currentState
        BY <3>2, <4>1 DEF UpdateState, Next_State
      <4> QED
        BY <2>1, <2>2, <4>1, <4>2 DEF Sent
    <3>3. CASE Activate \/ DumpFrames
      BY <2>2, <3>3, Turns
    <3>4. CASE DumpFrames
      BY <3>4, Turns
    <3>5. CASE ClearDumped
      <4>1. currentState' = "DUMP"
        BY <3>5 DEF ClearDumped, Quiet, ModeInv
      <4> QED
        BY <2>1, <2>2, <3>5, <4>1, Turns DEF Sent
    <3> QED
      BY <1>3, <3>1, <3>2, <3>3, <3>4, <3>5 DEF Update
  <2> QED
    BY <2>1, <2>2 DEF Sent
<1>4. CASE UpdateLeave
  <2>1. /\ phase = "state" /\ currentState = pendingState /\ phase' = "idle" /\ currentState' = currentState
        /\ coreLock \in {Main, Runner} /\ pc[coreLock] \in Updaters
        /\ pc'[coreLock] = After(pc[coreLock]) /\ \A u \in Threads \ {coreLock} : pc'[u] = pc[u]
    <3>1. coreLock \in {Main, Runner} /\ pc[coreLock] \in Updaters
      BY <1>4 DEF UpdateLeave, Quiet, BaseInv, TypeInv, TypeOK, ControlInv
    <3> QED
      BY <1>1, <1>4, <3>1 DEF UpdateLeave
  <2>2. CASE coreLock = Main
    <3>1. pc[Main] \in {"StartUpdate", "StopUpdate", "SaveUpdate"}
      BY <1>1, <2>1, <2>2 DEF ControlInv, MainLabels, Updaters
    <3>2. pc[Main] = "SaveUpdate" => currentState = "DUMP"
      BY <1>1, <2>1 DEF QuietInv
    <3> QED
      BY <2>1, <2>2, <3>1, <3>2 DEF After, Sent
  <2>3. CASE coreLock = Runner
    BY <2>1, <2>3 DEF Sent
  <2> QED
    BY <2>1, <2>2, <2>3
<1>5. CASE ~MainThread /\ ~Update
  <2>1. pc'[Main] = pc[Main]
    BY <1>5, Moves DEF Update, Quiet
  <2>2. UNCHANGED <<phase, currentState>>
    BY <1>5, OthersKeepMode DEF vars
  <2> QED
    BY <2>1, <2>2 DEF Sent
<1> QED
  BY <1>2, <1>3, <1>4, <1>5

(* Until it is sent nothing leaves the list, and what the threads point to   *)
(* is on it.                                                                 *)
LEMMA Filing ==
    ASSUME Quiet, [Next]_vars
    PROVE  /\ ~Sent => Registered \subseteq Registered'
           /\ pc[Main] \in Waiting => \A t \in Threads : slot'[t] = slot[t] \/ slot'[t] \in Registered'
<1> USE Names DEF registry
<1>1. /\ threads \in Seq(Entries) /\ alive \subseteq Entries /\ deleted \subseteq Entries /\ Distinct
      /\ slot \in [Threads -> Entries \cup {None}]
  BY DEF Quiet, BaseInv, TypeInv, TypeOK, RegistryInv, Distinct
<1>2. ASSUME NEW t \in Threads, NEW n \in Entries, RegisterThread(t, n)
      PROVE  /\ Registered \subseteq Registered'
             /\ pc[Main] \in Waiting => \A u \in Threads : slot'[u] = slot[u] \/ slot'[u] \in Registered'
  BY <1>1, <1>2, Registering
<1>3. ASSUME UNCHANGED <<threads, slot>>
      PROVE  /\ Registered \subseteq Registered'
             /\ pc[Main] \in Waiting => \A u \in Threads : slot'[u] = slot[u] \/ slot'[u] \in Registered'
  BY <1>3 DEF Registered
<1>4. CASE MainThread
  <2>1. CASE StartCapture \/ MainRegister
    BY <1>2, <1>3, <2>1 DEF StartCapture, MainRegister
  <2>2. CASE StartFrame \/ Quit \/ MainJoin \/ StopCapture \/ SaveCapture
    BY <1>3, <2>2 DEF StartFrame, Quit, MainJoin, StopCapture, SaveCapture
  <2>3. CASE Shutdown \/ MainExit
    BY <2>3 DEF Shutdown, MainExit, Go, Sent, Waiting
  <2> QED
    BY <1>4, <2>1, <2>2, <2>3 DEF MainThread
<1>5. CASE Update
  <2>1. CASE Activate
    <3>1. threads' = threads
      BY <2>1 DEF Activate
    <3> QED
      BY <2>1, <3>1, Turns DEF Registered, Waiting
  <2>2. CASE ClearDumped
    BY <2>2, Turns DEF Waiting
  <2> QED
    BY <1>3, <1>5, <2>1, <2>2 DEF Update, UpdateEnter, UpdateMessage, UpdateNoMore, UpdateState, DumpFrames, UpdateLeave
<1>6. CASE Spawn \/ FrameEnd \/ FrameBegin \/ \E w \in Workers : RunJob(w)
  BY <1>3, <1>6 DEF Spawn, FrameEnd, FrameBegin, RunJob
<1>7. CASE FrameScope
  BY <1>2, <1>3, <1>7 DEF FrameScope
<1>8. ASSUME NEW t \in Threads \ {Main}, Register(t) \/ Record(t) \/ ThreadEnd(t)
      PROVE  /\ Registered \subseteq Registered'
             /\ pc[Main] \in Waiting => \A u \in Threads : slot'[u] = slot[u] \/ slot'[u] \in Registered'
  <2>1. CASE Register(t)
    <3>1. (IF t = Runner THEN "Update" ELSE t) \in Entries
      OBVIOUS
    <3> QED
      BY <1>2, <2>1, <3>1 DEF Register
  <2>2. CASE Record(t)
    BY <1>3, <2>2 DEF Record, EventLoad, EventAdd, EventCheck, EventFinish
  <2>3. CASE ThreadEnd(t)
    <3>1. pc[t] = "Loop" /\ UnRegisterThread(t)
      BY <2>3 DEF ThreadEnd, Go
    <3>2. currentMode = "ON"
      BY <3>1, Alone, Running
    <3> QED
      BY <1>1, <1>3, <3>1, <3>2, Retiring
  <2> QED
    BY <1>8, <2>1, <2>2, <2>3
<1>9. CASE UNCHANGED vars
  BY <1>3, <1>9 DEF vars
<1> QED
  BY <1>4, <1>5, <1>6, <1>7, <1>8, <1>9 DEF Next, RunnerThread

(* Every thread points to a registered entry from its registration to its    *)
(* end, so it never misses an event.                                         *)
Recorded(t) ==
    /\ pc[t] \notin {"Unborn", "Register", "Done"} => slot[t] \in Registered
    /\ pc[t] = "Add" => seen[t] \in Registered
    /\ pc[t] = "Inside" => held[t] # NoEvent
RecordInv == script = << >> => \A t \in Threads \ {Main} : Recorded(t)

LEMMA RecordNext == Quiet /\ RecordInv /\ [Next]_vars => RecordInv'
<1> SUFFICES ASSUME Quiet, RecordInv, [Next]_vars, NEW t \in Threads \ {Main} PROVE Recorded(t)'
  BY ScriptKept DEF RecordInv, Quiet
<1>1. Recorded(t) /\ pc \in [Threads -> Labels] /\ BaseInv
  BY DEF RecordInv, Quiet, BaseInv, TypeInv, TypeOK
<1>2. CASE pc[t] \in {"Unborn", "Done"}
  <2>1. pc'[t] \in {"Unborn", "Register", "Done"}
    <3>1. ~Register(t) /\ ~Record(t)
      BY <1>2 DEF Register, Record, EventLoad, EventAdd, EventCheck, EventFinish, Go
    <3> QED
      BY <1>1, <1>2, <3>1, ThreadSteps, Moves DEF Looping
  <2> QED
    BY <2>1 DEF Recorded
<1>3. CASE pc[t] \notin {"Unborn", "Done"}
  <2>1. pc[Main] \in Waiting /\ currentMode = "ON" /\ ~Sent
    BY <1>3, Alone, Running DEF Waiting, Sent
  <2>2. Registered \subseteq Registered' /\ (slot'[t] = slot[t] \/ slot'[t] \in Registered')
    BY <2>1, Filing
  <2>3. CASE Register(t)
    <3> DEFINE n == IF t = Runner THEN "Update" ELSE t
    <3>1. n \in Entries /\ RegisterThread(t, n)
      BY <2>3, Names DEF Register
    <3>2. slot'[t] = n /\ n \in Registered'
      <4>1. /\ threads \in Seq(Entries) /\ alive \subseteq Entries /\ deleted \subseteq Entries /\ Distinct
            /\ slot \in [Threads -> Entries \cup {None}]
        BY DEF Quiet, BaseInv, TypeInv, TypeOK, RegistryInv, Distinct
      <4> HIDE DEF n
      <4> QED
        BY <2>1, <3>1, <4>1, Registering
    <3>3. pc'[t] = "Loop"
      BY <1>1, <2>3, Moved DEF Register
    <3> QED
      BY <3>2, <3>3 DEF Recorded
  <2>4. CASE EventLoad(t)
    <3>1. pc[t] = "Event" /\ slot'[t] = slot[t] /\ slot[t] \in Registered /\ slot[t] # None
      <4>1. pc[t] = "Event" /\ slot' = slot
        BY <2>4 DEF EventLoad, Go, registry
      <4>2. slot[t] \in Registered
        BY <1>1, <4>1 DEF Recorded
      <4>3. Registered \subseteq Entries
        <5>1. threads \in Seq(Entries)
          BY <1>1 DEF BaseInv, TypeInv, TypeOK
        <5> QED
          BY <5>1 DEF Registered
      <4> QED
        BY <4>1, <4>2, <4>3, Names
    <3>2. pc'[t] = "Add" /\ seen'[t] = slot[t]
      <4>1. seen \in [Threads -> Entries \cup {None}]
        BY <1>1 DEF BaseInv, TypeInv, TypeOK
      <4> QED
        BY <1>1, <2>4, <3>1, <4>1, Moved DEF EventLoad
    <3> QED
      BY <2>2, <3>1, <3>2 DEF Recorded
  <2>5. CASE EventAdd(t)
    <3>1. pc[t] = "Add" /\ pc'[t] = "Inside"
      BY <1>1, <2>5, Moved DEF EventAdd
    <3>2. held'[t] # NoEvent
      BY <1>1, <2>5, Added
    <3> QED
      BY <1>1, <2>2, <3>1, <3>2 DEF Recorded
  <2>6. CASE EventCheck(t) \/ EventFinish(t)
    <3>1. pc[t] \in {"Inside", "Finish"} /\ pc'[t] \in {"Loop", "Finish"}
      BY <1>1, <2>6, Moved DEF EventCheck, EventFinish
    <3> QED
      BY <1>1, <2>2, <3>1 DEF Recorded
  <2>7. CASE ~Register(t) /\ ~Record(t)
    BY <1>1, <1>3, <2>2, <2>7, ThreadSteps DEF Recorded, Looping
  <2> QED
    BY <2>3, <2>4, <2>5, <2>6, <2>7 DEF Record
<1> QED
  BY <1>2, <1>3

(* No thread records before it is registered, and main never does.           *)
StartedInv == \A t \in Threads : t = Main \/ pc[t] \in {"Unborn", "Register"} => started[t] = 0

LEMMA StartedNext == BaseInv /\ StartedInv /\ [Next]_vars => StartedInv'
<1> SUFFICES ASSUME BaseInv, StartedInv, [Next]_vars PROVE StartedInv'
  OBVIOUS
<1>0. pc \in [Threads -> Labels] /\ started \in [Threads -> Nat]
  BY DEF BaseInv, TypeInv, TypeOK
<1>1. ASSUME NEW t \in Threads \ {Main}, pc'[t] \in {"Unborn", "Register"} PROVE pc[t] \in {"Unborn", "Register"}
  <2>1. ~Record(t)
    BY <1>0, <1>1, Moved DEF Record, EventLoad, EventAdd, EventCheck, EventFinish
  <2>2. ~Register(t)
    BY <1>0, <1>1, Moved DEF Register
  <2> QED
    BY <1>1, <2>1, <2>2, ThreadSteps DEF Looping
<1>2. CASE started' = started
  BY <1>1, <1>2 DEF StartedInv
<1>3. ASSUME NEW t \in Threads \ {Main}, EventAdd(t) PROVE StartedInv'
  <2>1. \A u \in Threads \ {t} : started'[u] = started[u]
    BY <1>0, <1>3 DEF EventAdd
  <2>2. pc'[t] = "Inside"
    BY <1>0, <1>3, Moved DEF EventAdd
  <2> QED
    BY <1>1, <2>1, <2>2 DEF StartedInv
<1> QED
  BY <1>2, <1>3, BufferSteps
-----------------------------------------------------------------------------
(* What the buffers hold until the capture is sent.                          *)

NoFrame == {"StartCapture", "StartUpdate", "StartFrame"}
Ended == {"StopUpdate", "SaveCapture", "SaveUpdate"}

(* The frames begin with StartCapture.                                       *)
FramesInv ==
    /\ frames = << >> <=> pc[Main] \in NoFrame
    /\ frames # << >> => frames[1].start <= clock

(* Every event that was begun is in the buffer of a registered entry.        *)
Filed ==
    \A t \in Threads, k \in Nat : k < started[t] =>
        \E n \in Registered : \E i \in 1 .. buffer[n].size : buffer[n].data[i].id = <<t, k>>

(* Every event began after the first frame, and a thread is still to end it, *)
(* or it has ended, before the last frame did.                               *)
Open(n, i) ==
    \E t \in Threads : /\ pc[t] \in {"Inside", "Finish"} /\ held[t] # NoEvent
                       /\ held[t].entry = n /\ held[t].at = i
Limit == IF pc[Main] \in Ended THEN frames[Len(frames)].finish ELSE clock
Timed(n, i) ==
    LET e == buffer[n].data[i] IN
    /\ frames # << >> /\ frames[1].start <= e.start /\ e.start <= clock
    /\ Open(n, i) \/ (e.start <= e.finish /\ e.finish <= Limit)
TimedInv == \A n \in Entries : \A i \in 1 .. buffer[n].size : Timed(n, i)

EventsInv == script = << >> /\ ~Sent => FramesInv /\ Filed /\ TimedInv

LEMMA FrameNumbers ==
    ASSUME BaseInv, frames # << >>
    PROVE  /\ Len(frames) \in Nat /\ 1 <= Len(frames) /\ DOMAIN frames = 1 .. Len(frames)
           /\ \A i \in 1 .. Len(frames) : frames[i] \in [start : Nat, finish : Nat]
           /\ frames[1].start \in Nat /\ frames[Len(frames)].finish \in Nat
<1> DEFINE S == [start : Nat, finish : Nat]
<1>1. frames \in Seq(S)
  BY DEF BaseInv, TypeInv, TypeOK
<1> HIDE DEF S
<1>2. Len(frames) \in Nat /\ DOMAIN frames = 1 .. Len(frames) /\ Len(frames) # 0
  BY <1>1
<1>3. \A i \in 1 .. Len(frames) : frames[i] \in S
  BY <1>1, <1>2
<1>4. 1 <= Len(frames) /\ frames[1] \in S /\ frames[Len(frames)] \in S
  BY <1>2, <1>3
<1> QED
  BY <1>2, <1>3, <1>4 DEF S

(* A frame's end changes the finish time of the last one.                    *)
LEMMA FrameEnded ==
    ASSUME BaseInv, NEW t, EndFrame(t)
    PROVE  /\ clock \in Nat /\ clock' = clock + 1
           /\ frames' = << >> <=> frames = << >>
           /\ frames # << >> => frames'[1].start = frames[1].start
           /\ currentMode = "ON" /\ frames # << >> => frames'[Len(frames')].finish = clock
<1>1. clock \in Nat /\ clock' = clock + 1
  BY DEF BaseInv, TypeInv, TypeOK, EndFrame
<1>2. CASE currentMode = "OFF" \/ frames = << >>
  BY <1>1, <1>2 DEF EndFrame
<1>3. CASE ~(currentMode = "OFF" \/ frames = << >>)
  <2>1. PICK n \in Nat : n = Len(frames) /\ 1 <= n /\ DOMAIN frames = 1 .. n
    BY <1>3, FrameNumbers
  <2>2. frames[n] \in [start : Nat, finish : Nat]
    BY <1>3, <2>1, FrameNumbers
  <2>3. PICK last : last = [frames[n] EXCEPT !.finish = clock]
    OBVIOUS
  <2>4. last.start = frames[n].start /\ last.finish = clock
    BY <2>2, <2>3
  <2>5. frames' = [frames EXCEPT ![n] = last]
    BY <1>3, <2>1, <2>3 DEF EndFrame
  <2>6. /\ DOMAIN frames' = 1 .. n /\ frames'[n] = last
        /\ \A i \in 1 .. n : i # n => frames'[i] = frames[i]
    BY <2>1, <2>5
  <2>7. frames' # << >>
    BY <2>1, <2>6
  <2>8. Len(frames') = n
    <3>1. frames' \in Seq([start : Nat, finish : Nat])
      BY FrameTypes DEF BaseInv
    <3> QED
      BY <2>1, <2>6, <3>1, LenProperties
  <2>9. frames'[1].start = frames[1].start
    <3>1. CASE n = 1
      BY <2>4, <2>6, <3>1
    <3>2. CASE n # 1
      BY <2>1, <2>6, <3>2
    <3> QED
      BY <3>1, <3>2
  <2> QED
    BY <1>1, <1>3, <2>4, <2>6, <2>7, <2>8, <2>9
<1> QED
  BY <1>2, <1>3

(* A frame that begins in a capture is the last one.                         *)
LEMMA FrameBegun ==
    ASSUME BaseInv, NEW t, BeginFrame(t), currentMode = "ON"
    PROVE  /\ clock \in Nat /\ clock' = clock + 1 /\ frames' # << >>
           /\ frames'[1].start = IF frames = << >> THEN clock' ELSE frames[1].start
<1> DEFINE S == [start : Nat, finish : Nat]
           new == [start |-> clock + 1, finish |-> clock + 1]
<1>1. clock \in Nat /\ frames \in Seq(S) /\ clock' = clock + 1 /\ frames' = Append(frames, new)
  BY DEF BaseInv, TypeInv, TypeOK, BeginFrame
<1>2. new \in S /\ new.start = clock'
  BY <1>1
<1> HIDE DEF S, new
<1>3. /\ frames' \in Seq(S) /\ Len(frames') = Len(frames) + 1 /\ frames'[Len(frames) + 1] = new
      /\ \A i \in 1 .. Len(frames) : frames'[i] = frames[i]
  BY <1>1, <1>2, AppendProperties
<1>4. Len(frames) \in Nat /\ (frames = << >> <=> Len(frames) = 0)
  BY <1>1
<1>5. frames' # << >>
  BY <1>3, <1>4
<1>6. CASE frames = << >>
  BY <1>1, <1>2, <1>3, <1>4, <1>5, <1>6
<1>7. CASE frames # << >>
  BY <1>1, <1>3, <1>4, <1>5, <1>7
<1> QED
  BY <1>6, <1>7

(* Who moves the clock and the frames.                                       *)
LEMMA ClockSteps ==
    ASSUME [Next]_vars
    PROVE  \/ UNCHANGED <<clock, frames>>
           \/ StartFrame \/ StopCapture \/ FrameEnd \/ FrameBegin \/ ClearDumped
<1> USE DEF timing
<1>1. CASE MainThread
  BY <1>1 DEF MainThread, StartCapture, MainRegister, Quit, MainJoin, SaveCapture, Shutdown, MainExit
<1>2. CASE Update
  BY <1>2 DEF Update, UpdateEnter, UpdateMessage, UpdateNoMore, UpdateState, Activate, DumpFrames, UpdateLeave
<1>3. CASE Spawn \/ RunnerThread \/ (\E w \in Workers : RunJob(w))
  BY <1>3 DEF Spawn, RunnerThread, FrameScope, RunJob
<1>4. CASE \E t \in Threads \ {Main} : Register(t) \/ Record(t) \/ ThreadEnd(t)
  BY <1>4 DEF Register, ThreadEnd, Record, EventLoad, EventAdd, EventCheck, EventFinish
<1>5. CASE UNCHANGED vars
  BY <1>5 DEF vars
<1> QED
  BY <1>1, <1>2, <1>3, <1>4, <1>5 DEF Next

(* Main's own course.                                                        *)
LEMMA MainSteps ==
    ASSUME Quiet, [Next]_vars, ~Sent, ~Sent'
    PROVE  \/ StartFrame \/ (StopCapture /\ currentMode = "ON")
           \/ /\ pc[Main] \in NoFrame <=> pc'[Main] \in NoFrame
              /\ pc[Main] \in Ended <=> pc'[Main] \in Ended
<1> USE Names DEF NoFrame, Ended
<1>1. pc \in [Threads -> Labels]
  BY DEF Quiet, BaseInv, TypeInv, TypeOK
<1>2. CASE MainThread
  <2>1. CASE StopCapture
    <3>1. pc[Main] = "StopCapture"
      BY <2>1 DEF StopCapture, Go
    <3>2. currentMode = "ON"
      BY <3>1, InsideUpdate DEF Quiet, QuietInv, ModeInv, Recording
    <3> QED
      BY <2>1, <3>2
  <2>2. CASE Shutdown \/ MainExit
    BY <2>2 DEF Shutdown, MainExit, Go, Sent
  <2> QED
    BY <1>1, <1>2, <2>1, <2>2, Moved DEF MainThread, StartCapture, MainRegister, Quit, MainJoin, SaveCapture
<1>3. CASE UpdateLeave
  <2>1. coreLock \in {Main, Runner} /\ pc[coreLock] \in Updaters
    BY <1>3 DEF UpdateLeave, Quiet, BaseInv, TypeInv, TypeOK, ControlInv
  <2>2. pc'[coreLock] = After(pc[coreLock]) /\ \A u \in Threads \ {coreLock} : pc'[u] = pc[u]
    BY <1>1, <1>3, <2>1 DEF UpdateLeave
  <2>3. CASE coreLock = Main
    <3>1. pc[Main] \in {"StartUpdate", "StopUpdate", "SaveUpdate"}
      BY <2>1, <2>3 DEF Quiet, BaseInv, ControlInv, MainLabels, Updaters
    <3>2. pc[Main] # "SaveUpdate"
      BY <2>2, <2>3 DEF After, Sent
    <3> QED
      BY <2>2, <2>3, <3>1, <3>2 DEF After
  <2> QED
    BY <2>1, <2>2, <2>3
<1>4. CASE ~MainThread /\ ~UpdateLeave
  <2>1. pc'[Main] = pc[Main]
    BY <1>4, Moves DEF Quiet
  <2> QED
    BY <2>1
<1> QED
  BY <1>2, <1>3, <1>4

LEMMA FramesNext == Quiet /\ FramesInv /\ [Next]_vars /\ ~Sent /\ ~Sent' => FramesInv'
<1> SUFFICES ASSUME Quiet, FramesInv, [Next]_vars, ~Sent, ~Sent' PROVE FramesInv'
  OBVIOUS
<1> USE Names
<1>1. pc \in [Threads -> Labels] /\ clock \in Nat /\ BaseInv
  BY DEF Quiet, BaseInv, TypeInv, TypeOK
<1>2. CASE StartFrame
  <2>1. pc[Main] = "StartFrame" /\ pc'[Main] = "Register" /\ BeginFrame(Main)
    BY <1>1, <1>2, Moved DEF StartFrame
  <2>2. currentMode = "ON" /\ frames = << >>
    <3>1. phase # "activate" /\ currentState = "START"
      BY <2>1 DEF Quiet, QuietInv, Recording
    <3> QED
      BY <2>1, <3>1 DEF Quiet, ModeInv, FramesInv, NoFrame
  <2>3. frames' # << >> /\ frames'[1].start = clock' /\ clock' \in Nat
    BY <1>1, <2>1, <2>2, FrameBegun
  <2> QED
    BY <2>1, <2>3 DEF FramesInv, NoFrame
<1>3. CASE StopCapture
  <2>1. pc[Main] = "StopCapture" /\ pc'[Main] \in {"SaveCapture", "StopUpdate"}
    BY <1>1, <1>3, Moved DEF StopCapture
  <2>2. frames # << >> /\ frames[1].start <= clock
    BY <2>1 DEF FramesInv, NoFrame
  <2>3. UNCHANGED <<clock, frames>> \/ EndFrame(Main)
    BY <1>3 DEF StopCapture, timing
  <2>4. frames' # << >> /\ frames'[1].start = frames[1].start /\ clock' \in {clock, clock + 1}
    BY <1>1, <2>2, <2>3, FrameEnded
  <2>5. frames[1].start \in Nat
    BY <1>1, <2>2, FrameNumbers
  <2> QED
    BY <1>1, <2>1, <2>2, <2>4, <2>5 DEF FramesInv, NoFrame
<1>4. CASE FrameEnd \/ FrameBegin
  <2>1. pc[Runner] \in {"EndFrame", "BeginFrame"} /\ pc'[Main] = pc[Main]
    BY <1>1, <1>4, Moved DEF FrameEnd, FrameBegin
  <2>2. pc[Main] \in Waiting /\ currentMode = "ON"
    BY <2>1, Alone, Running
  <2>3. frames # << >> /\ frames[1].start <= clock /\ frames[1].start \in Nat
    BY <1>1, <2>2, FrameNumbers DEF FramesInv, NoFrame, Waiting
  <2>4. frames' # << >> /\ frames'[1].start = frames[1].start /\ clock' = clock + 1
    BY <1>1, <1>4, <2>2, <2>3, FrameEnded, FrameBegun DEF FrameEnd, FrameBegin
  <2> QED
    BY <1>1, <2>1, <2>2, <2>3, <2>4 DEF FramesInv, NoFrame, Waiting
<1>5. CASE ClearDumped
  BY <1>5, Turns
<1>6. CASE UNCHANGED <<clock, frames>> /\ ~StartFrame /\ ~StopCapture
  BY <1>6, MainSteps DEF FramesInv
<1> QED
  BY <1>2, <1>3, <1>4, <1>5, <1>6, ClockSteps

(* Only Activate at the start of a capture forgets events, before there are  *)
(* any.                                                                      *)
LEMMA FiledNext ==
    ASSUME Quiet, RecordInv, StartedInv, Filed, [Next]_vars, ~Sent
    PROVE  Filed'
<1> USE Names
<1>1. BaseInv /\ started \in [Threads -> Nat]
  BY DEF Quiet, BaseInv, TypeInv, TypeOK
<1>2. Registered \subseteq Registered' /\ Registered \subseteq Entries
  <2>1. threads \in Seq(Entries)
    BY <1>1 DEF BaseInv, TypeInv, TypeOK
  <2> QED
    BY <2>1, Filing DEF Registered
<1>3. ASSUME UNCHANGED started,
             \A n \in Registered : /\ buffer'[n].size = buffer[n].size
                                   /\ \A i \in 1 .. buffer[n].size : buffer'[n].data[i].id = buffer[n].data[i].id
      PROVE  Filed'
  <2> SUFFICES ASSUME NEW t \in Threads, NEW k \in Nat, k < started[t]
               PROVE  \E n \in Registered' : \E i \in 1 .. buffer'[n].size : buffer'[n].data[i].id = <<t, k>>
    BY <1>3 DEF Filed
  <2>1. PICK n \in Registered : \E i \in 1 .. buffer[n].size : buffer[n].data[i].id = <<t, k>>
    BY DEF Filed
  <2>2. PICK i \in 1 .. buffer[n].size : buffer[n].data[i].id = <<t, k>>
    BY <2>1
  <2> QED
    BY <1>2, <1>3, <2>2
<1>4. CASE UNCHANGED <<buffer, started>>
  BY <1>3, <1>4
<1>5. CASE (Activate \/ ClearDumped) /\ UNCHANGED started
  <2>1. Activate
    BY <1>5, Turns
  <2>2. CASE pc[Main] = "StartUpdate"
    <3>1. \A t \in Threads : started[t] = 0
      BY <1>1, <2>2 DEF StartedInv, BaseInv, ControlInv, BeforeSpawn
    <3> QED
      BY <1>5, <3>1 DEF Filed
  <2>3. CASE pc[Main] = "StopUpdate" /\ currentMode = "OFF"
    <3>1. \A n \in Entries : buffer'[n] = buffer[n]
      BY <1>1, <2>1, <2>3, Activated
    <3> QED
      BY <1>2, <1>3, <1>5, <3>1
  <2> QED
    BY <2>1, <2>2, <2>3, Turns
<1>6. ASSUME NEW t \in Threads \ {Main}, EventAdd(t) PROVE Filed'
  <2>0. PICK n, mark : n = seen[t] /\ mark = <<t, started[t]>>
    OBVIOUS
  <2>1. n \in Registered
    BY <1>6, <2>0 DEF RecordInv, Recorded, EventAdd, Go, Quiet
  <2>2. /\ n \in Entries /\ buffer[n].size \in Nat /\ buffer'[n].size = buffer[n].size + 1
        /\ buffer'[n].data[buffer[n].size + 1].id = mark
        /\ \A k \in 1 .. buffer[n].size : buffer'[n].data[k] = buffer[n].data[k]
        /\ \A m \in Entries \ {n} : buffer'[m] = buffer[m]
    BY <1>1, <1>6, <2>0, Added, ZenonT(30)
  <2>3. started'[t] = started[t] + 1 /\ \A u \in Threads \ {t} : started'[u] = started[u]
    BY <1>1, <1>6 DEF EventAdd
  <2>4. ASSUME NEW u \in Threads, NEW k \in Nat, k < started'[u]
        PROVE  \E m \in Registered' : \E i \in 1 .. buffer'[m].size : buffer'[m].data[i].id = <<u, k>>
    <3>1. CASE k < started[u]
      <4>0. PICK m \in Registered : \E i \in 1 .. buffer[m].size : buffer[m].data[i].id = <<u, k>>
        BY <3>1 DEF Filed
      <4>1. PICK i \in 1 .. buffer[m].size : buffer[m].data[i].id = <<u, k>>
        BY <4>0
      <4>2. i \in 1 .. buffer'[m].size /\ buffer'[m].data[i].id = <<u, k>>
        <5>1. CASE m = n
          BY <2>2, <4>1, <5>1
        <5>2. CASE m # n
          <6>1. buffer'[m] = buffer[m]
            BY <1>2, <2>2, <5>2, SMTT(30)
          <6> QED
            BY <4>1, <6>1
        <5> QED
          BY <5>1, <5>2
      <4> QED
        BY <1>2, <4>2
    <3>2. CASE ~(k < started[u])
      <4>1. u = t /\ k = started[t]
        BY <1>1, <2>3, <2>4, <3>2
      <4> QED
        BY <1>2, <2>0, <2>1, <2>2, <4>1
    <3> QED
      BY <3>1, <3>2
  <2> QED
    BY <2>4 DEF Filed
<1>7. ASSUME NEW t \in Threads \ {Main}, EventFinish(t), UNCHANGED started PROVE Filed'
  <2>1. held[t].chunks = buffer[held[t].entry].chunks
    BY <1>1, <1>7 DEF EventFinish, Go, BaseInv, StorageInv, ChunkInv, Quiet
  <2>2. \A n \in Registered : /\ buffer'[n].size = buffer[n].size
                              /\ \A i \in 1 .. buffer[n].size : buffer'[n].data[i].id = buffer[n].data[i].id
    BY <1>1, <1>2, <1>7, <2>1, Stopped
  <2> QED
    BY <1>3, <1>7, <2>2
<1> QED
  BY <1>4, <1>5, <1>6, <1>7, BufferSteps

(* An open event stays open until the thread that holds it ends it.          *)
LEMMA StaysOpen ==
    ASSUME Quiet, RecordInv, [Next]_vars, NEW n, NEW i, Open(n, i)
    PROVE  \/ Open(n, i)'
           \/ \E t \in Threads \ {Main} : EventFinish(t) /\ n = held[t].entry /\ i = held[t].at
<1> USE Names
<1>1. PICK t \in Threads : /\ pc[t] \in {"Inside", "Finish"} /\ held[t] # NoEvent
                           /\ held[t].entry = n /\ held[t].at = i
  BY DEF Open
<1>2. t # Main /\ pc \in [Threads -> Labels] /\ BaseInv
  BY <1>1 DEF Quiet, BaseInv, TypeInv, TypeOK, ControlInv, MainLabels
<1>3. CASE EventCheck(t)
  <2>1. pc[t] = "Inside" /\ held' = held
    BY <1>3 DEF EventCheck, Go, recording
  <2>2. slot[t] # None
    <3>1. slot[t] \in Registered
      BY <1>2, <2>1 DEF RecordInv, Recorded, Quiet
    <3>2. threads \in Seq(Entries)
      BY <1>2 DEF BaseInv, TypeInv, TypeOK
    <3> QED
      BY <3>1, <3>2 DEF Registered
  <2>3. pc'[t] = "Finish"
    BY <1>1, <1>2, <1>3, <2>2, Moved DEF EventCheck
  <2> QED
    BY <1>1, <2>1, <2>3 DEF Open
<1>4. CASE EventFinish(t)
  BY <1>1, <1>2, <1>4
<1>5. CASE ~EventCheck(t) /\ ~EventFinish(t)
  <2>1. ~Register(t) /\ ~EventLoad(t) /\ ~EventAdd(t)
    BY <1>1 DEF Register, EventLoad, EventAdd, Go
  <2>2. pc'[t] = pc[t] /\ held'[t] = held[t]
    BY <1>1, <1>2, <1>5, <2>1, ThreadSteps DEF Record, Looping
  <2> QED
    BY <1>1, <2>2 DEF Open
<1> QED
  BY <1>3, <1>4, <1>5

LEMMA TimedNext ==
    ASSUME Quiet, RecordInv, FramesInv, TimedInv, [Next]_vars, ~Sent, ~Sent', FramesInv'
    PROVE  TimedInv'
<1> USE Names
<1>1. /\ BaseInv /\ BaseInv' /\ pc \in [Threads -> Labels] /\ clock \in Nat /\ clock' \in Nat
  BY BaseNext DEF Quiet, BaseInv, TypeInv, TypeOK
<1>2. CASE pc[Main] \in NoFrame
  <2>1. frames = << >> /\ \A n \in Entries : \A i \in 1 .. buffer[n].size : FALSE
    BY <1>2 DEF FramesInv, TimedInv, Timed
  <2>2. \A t \in Threads \ {Main} : ~EventAdd(t) /\ ~EventFinish(t)
    BY <1>2, Alone DEF Waiting, NoFrame, EventAdd, EventFinish, Go
  <2>3. \A n \in Entries : buffer'[n].size \in {0, buffer[n].size}
    <3>1. ~ClearDumped
      BY Turns
    <3> QED
      BY <1>1, <2>2, <3>1, BufferSteps, Activated
  <2>4. \A n \in Entries : \A i \in 1 .. buffer'[n].size : FALSE
    BY <2>1, <2>3
  <2> QED
    BY <2>4 DEF TimedInv
<1>3. CASE pc[Main] \notin NoFrame
  <2>1. /\ frames # << >> /\ frames' # << >> /\ frames'[1].start = frames[1].start /\ clock <= clock'
        /\ Limit \in Nat /\ Limit' \in Nat /\ Limit <= Limit'
    <3>1. frames # << >> /\ Limit \in Nat
      BY <1>1, <1>3, FrameNumbers DEF FramesInv, Limit
    <3>2. CASE StartFrame
      BY <1>3, <3>2 DEF StartFrame, Go, NoFrame
    <3>3. CASE StopCapture /\ currentMode = "ON"
      <4>1. pc[Main] = "StopCapture" /\ pc'[Main] = "StopUpdate" /\ EndFrame(Main)
        BY <1>1, <3>3, Moved DEF StopCapture
      <4>2. /\ clock' = clock + 1 /\ frames' # << >> /\ frames'[1].start = frames[1].start
            /\ frames'[Len(frames')].finish = clock
        BY <1>1, <3>1, <3>3, <4>1, FrameEnded
      <4> QED
        BY <1>1, <3>1, <4>1, <4>2 DEF Limit, Ended
    <3>4. CASE (FrameEnd \/ FrameBegin) /\ ~StartFrame /\ ~StopCapture
      <4>1. pc[Runner] \in {"EndFrame", "BeginFrame"} /\ pc'[Main] = pc[Main]
        BY <1>1, <3>4, Moved DEF FrameEnd, FrameBegin
      <4>2. pc[Main] \in Waiting /\ currentMode = "ON"
        BY <4>1, Alone, Running
      <4>3. frames' # << >> /\ frames'[1].start = frames[1].start /\ clock' = clock + 1
        BY <1>1, <3>1, <3>4, <4>2, FrameEnded, FrameBegun DEF FrameEnd, FrameBegin
      <4> QED
        BY <1>1, <3>1, <4>1, <4>2, <4>3 DEF Limit, Ended, Waiting
    <3>5. CASE UNCHANGED <<clock, frames>> /\ ~StartFrame /\ ~(StopCapture /\ currentMode = "ON")
      <4>1. pc[Main] \in Ended <=> pc'[Main] \in Ended
        BY <3>5, MainSteps
      <4>2. Limit' = Limit
        BY <3>5, <4>1 DEF Limit
      <4> QED
        BY <1>1, <3>1, <3>5, <4>2
    <3>6. CASE StopCapture /\ ~(currentMode = "ON")
      <4>1. pc'[Main] = "SaveCapture" /\ pc[Main] = "StopCapture"
        BY <1>1, <3>6, Moved DEF StopCapture, Quiet, ModeInv
      <4> QED
        BY <3>6, <4>1, MainSteps DEF StartFrame, Go, Ended
    <3> QED
      BY <3>2, <3>3, <3>4, <3>5, <3>6, ClockSteps, Turns
  <2>2. ASSUME NEW n \in Entries, NEW i \in 1 .. buffer[n].size,
               buffer'[n].data[i].start = buffer[n].data[i].start,
               \/ buffer'[n].data[i].finish = buffer[n].data[i].finish /\ (Open(n, i) => Open(n, i)')
               \/ buffer'[n].data[i].finish = clock /\ Limit = clock
        PROVE  Timed(n, i)'
    <3>1. buffer[n].data[i].start \in Nat /\ buffer[n].data[i].finish \in Nat
      BY <1>1, Held DEF BaseInv
    <3>2. /\ frames[1].start <= buffer[n].data[i].start /\ buffer[n].data[i].start <= clock
          /\ Open(n, i) \/ (buffer[n].data[i].start <= buffer[n].data[i].finish /\ buffer[n].data[i].finish <= Limit)
      BY DEF TimedInv, Timed
    <3>3. frames' # << >> /\ frames'[1].start <= buffer'[n].data[i].start /\ buffer'[n].data[i].start <= clock'
      BY <1>1, <2>1, <2>2, <3>1, <3>2
    <3>4. Open(n, i)' \/ (buffer'[n].data[i].start <= buffer'[n].data[i].finish /\ buffer'[n].data[i].finish <= Limit')
      BY <1>1, <2>1, <2>2, <3>1, <3>2
    <3> QED
      BY <3>3, <3>4 DEF Timed
  <2>3. CASE \E t \in Threads \ {Main} : EventFinish(t)
    <3>1. PICK t \in Threads \ {Main} : EventFinish(t)
      BY <2>3
    <3>2. held[t].chunks = buffer[held[t].entry].chunks /\ pc[t] = "Finish"
      BY <1>1, <3>1 DEF EventFinish, Go, BaseInv, StorageInv, ChunkInv, Quiet
    <3>3. Limit = clock
      BY <3>2, Alone, SMTT(30) DEF Limit, Ended, Waiting
    <3>4. ASSUME NEW u \in Threads \ {Main}, EventFinish(u) PROVE u = t
      BY <1>1, <3>1, <3>4, Moved DEF EventFinish
    <3>5. ASSUME NEW n \in Entries, NEW i \in 1 .. buffer'[n].size PROVE Timed(n, i)'
      <4>1. /\ i \in 1 .. buffer[n].size /\ buffer'[n].data[i].start = buffer[n].data[i].start
            /\ buffer'[n].data[i].finish =
                  IF n = held[t].entry /\ i = held[t].at THEN clock ELSE buffer[n].data[i].finish
        BY <1>1, <3>1, <3>2, <3>5, Stopped
      <4>2. CASE n = held[t].entry /\ i = held[t].at
        BY <2>2, <3>3, <4>1, <4>2
      <4>3. CASE ~(n = held[t].entry /\ i = held[t].at)
        <5>1. Open(n, i) => Open(n, i)'
          BY <3>4, <4>3, StaysOpen
        <5> QED
          BY <2>2, <4>1, <4>3, <5>1
      <4> QED
        BY <4>2, <4>3
    <3> QED
      BY <3>5 DEF TimedInv
  <2>4. CASE \E t \in Threads \ {Main} : EventAdd(t)
    <3>1. PICK t \in Threads \ {Main} : EventAdd(t)
      BY <2>4
    <3>2. ASSUME NEW u \in Threads \ {Main} PROVE ~EventFinish(u)
      BY <1>1, <3>1, Moved DEF EventAdd, EventFinish
    <3>3. PICK m, mark : m = seen[t] /\ mark = <<t, started[t]>>
      OBVIOUS
    <3>4. /\ m \in Entries /\ buffer[m].size \in Nat /\ buffer'[m].size = buffer[m].size + 1
          /\ buffer'[m].data[buffer[m].size + 1].start = clock
          /\ \A k \in 1 .. buffer[m].size : buffer'[m].data[k] = buffer[m].data[k]
          /\ \A n \in Entries \ {m} : buffer'[n] = buffer[n]
          /\ held'[t] = [entry |-> m, chunks |-> buffer[m].chunks, at |-> buffer[m].size + 1]
          /\ held'[t] # NoEvent
      BY <1>1, <3>1, <3>3, Added
    <3>5. ASSUME NEW n \in Entries, NEW i \in 1 .. buffer'[n].size PROVE Timed(n, i)'
      <4>1. CASE n = m /\ i = buffer[m].size + 1
        <5>1. pc'[t] = "Inside" /\ pc[t] = "Add"
          BY <1>1, <3>1, Moved DEF EventAdd
        <5>2. Open(n, i)'
          BY <3>4, <4>1, <5>1 DEF Open
        <5>3. frames[1].start \in Nat /\ frames[1].start <= clock
          BY <1>1, <2>1, FrameNumbers DEF FramesInv
        <5>4. buffer'[n].data[i].start = clock
          BY <3>4, <4>1
        <5> QED
          BY <1>1, <2>1, <5>2, <5>3, <5>4 DEF Timed
      <4>2. CASE ~(n = m /\ i = buffer[m].size + 1)
        <5>1. i \in 1 .. buffer[n].size /\ buffer'[n].data[i] = buffer[n].data[i]
          <6>1. CASE n = m
            BY <3>4, <3>5, <4>2, <6>1
          <6>2. CASE n # m
            BY <3>4, <3>5, <6>2
          <6> QED
            BY <6>1, <6>2
        <5>2. Open(n, i) => Open(n, i)'
          BY <3>2, StaysOpen
        <5> QED
          BY <2>2, <5>1, <5>2
      <4> QED
        BY <4>1, <4>2
    <3> QED
      BY <3>5 DEF TimedInv
  <2>5. CASE ~(\E t \in Threads \ {Main} : EventAdd(t) \/ EventFinish(t))
    <3>1. \A n \in Entries : buffer'[n] = buffer[n]
      <4>1. ~ClearDumped /\ (Activate => currentMode = "OFF")
        BY <1>3, Turns DEF NoFrame
      <4> QED
        BY <1>1, <2>5, <4>1, BufferSteps, Activated
    <3>2. ASSUME NEW n \in Entries, NEW i \in 1 .. buffer'[n].size PROVE Timed(n, i)'
      <4>1. Open(n, i) => Open(n, i)'
        BY <2>5, StaysOpen
      <4> QED
        BY <2>2, <3>1, <3>2, <4>1
    <3> QED
      BY <3>2 DEF TimedInv
  <2> QED
    BY <2>3, <2>4, <2>5
<1> QED
  BY <1>2, <1>3

-----------------------------------------------------------------------------
(* What is sent.                                                             *)

LEMMA OutputSteps == [Next]_vars => UNCHANGED output \/ SaveCapture \/ DumpFrames \/ ClearDumped
<1> SUFFICES ASSUME [Next]_vars PROVE UNCHANGED output \/ SaveCapture \/ DumpFrames \/ ClearDumped
  OBVIOUS
<1>1. CASE MainThread
  BY <1>1 DEF MainThread, StartCapture, StartFrame, MainRegister, Quit, MainJoin, StopCapture, Shutdown, MainExit
<1>2. CASE Update
  BY <1>2 DEF Update, UpdateEnter, UpdateMessage, UpdateNoMore, UpdateState, Activate, UpdateLeave
<1>3. CASE Spawn \/ RunnerThread \/ (\E w \in Workers : RunJob(w))
  BY <1>3 DEF Spawn, RunnerThread, FrameScope, FrameEnd, FrameBegin, RunJob
<1>4. CASE \E t \in Threads \ {Main} : Register(t) \/ Record(t) \/ ThreadEnd(t)
  BY <1>4 DEF Register, ThreadEnd, Record, EventLoad, EventAdd, EventCheck, EventFinish
<1>5. CASE UNCHANGED vars
  BY <1>5 DEF vars
<1> QED
  BY <1>1, <1>2, <1>3, <1>4, <1>5 DEF Next

(* How main comes to save.                                                   *)
LEMMA SaveSteps ==
    ASSUME BaseInv, [Next]_vars, pc'[Main] = "SaveUpdate"
    PROVE  pc[Main] = "SaveUpdate" \/ SaveCapture
<1> USE Names
<1>1. pc \in [Threads -> Labels]
  BY DEF BaseInv, TypeInv, TypeOK
<1>2. CASE MainThread
  BY <1>1, <1>2, Moved DEF MainThread, StartCapture, StartFrame, MainRegister, Quit, MainJoin, StopCapture,
                           Shutdown, MainExit
<1>3. CASE UpdateLeave
  <2>1. coreLock \in {Main, Runner} /\ pc[coreLock] \in Updaters
    BY <1>3 DEF UpdateLeave, BaseInv, TypeInv, TypeOK, ControlInv
  <2>2. pc'[coreLock] = After(pc[coreLock]) /\ \A u \in Threads \ {coreLock} : pc'[u] = pc[u]
    BY <1>1, <1>3, <2>1 DEF UpdateLeave
  <2> QED
    BY <2>1, <2>2 DEF Updaters, After
<1>4. CASE ~MainThread /\ ~UpdateLeave
  BY <1>4, Moves
<1> QED
  BY <1>2, <1>3, <1>4

(* One capture, of everything.                                               *)
Complete ==
    /\ Len(dumps) = 1 /\ dumps[1].to = "file"
    /\ \A t \in Threads, k \in Nat : k < started[t] =>
          \E i \in DOMAIN dumps[1].scopes : <<t, k>> \in dumps[1].scopes[i]
OutputInv == script = << >> =>
    /\ ~Sent => dumps = << >>
    /\ pc[Main] = "SaveUpdate" /\ (~Sent \/ phase = "clear") => saveCb = "file"
    /\ Sent /\ phase # "clear" => file = "closed"
    /\ Sent => Complete

(* When main dumps every thread has ended, so every event lies in the slice. *)
LEMMA AllSent ==
    ASSUME Quiet, EventsInv, OutputInv, DumpFrames, dumps' # dumps
    PROVE  Complete'
<1>1. BaseInv /\ script = << >> /\ pc[Main] = "SaveUpdate" /\ ~Sent /\ threads # << >>
  BY Turns DEF Quiet
<1>2. FramesInv /\ Filed /\ TimedInv /\ dumps = << >> /\ saveCb = "file"
  BY <1>1 DEF EventsInv, OutputInv
<1>3. started' = started
  BY DEF DumpFrames, recording
<1>4. /\ Len(dumps') = 1 /\ dumps'[1].to = "file" /\ DOMAIN dumps'[1].scopes = DOMAIN threads
      /\ \A i \in DOMAIN threads : \A e \in Events(threads[i]) : InSlice(e) => e.id \in dumps'[1].scopes[i]
  <2>1. Len(dumps) + 1 = 1
    BY <1>2
  <2> QED
    BY <1>1, <1>2, <1>3, <2>1, Dumped
<1>5. ASSUME NEW n \in Entries, NEW e \in Events(n) PROVE InSlice(e)
  <2>1. PICK i \in 1 .. buffer[n].size : e = buffer[n].data[i]
    BY DEF Events
  <2>2. \A t \in Threads : pc[t] \notin {"Inside", "Finish"}
    BY <1>1, Names DEF BaseInv, ControlInv, AfterJoin
  <2>3. Timed(n, i) /\ ~Open(n, i)
    BY <1>2, <2>2 DEF TimedInv, Open
  <2>4. /\ frames # << >> /\ frames[1].start <= e.start
        /\ e.start <= e.finish /\ e.finish <= frames[Len(frames)].finish
    BY <1>1, <2>1, <2>3 DEF Timed, Limit, Ended
  <2>5. e.start \in Nat /\ e.finish \in Nat
    BY <1>1, <2>1, Held DEF BaseInv
  <2> QED
    BY <2>4, <2>5 DEF InSlice, Slice
<1>6. ASSUME NEW t \in Threads, NEW k \in Nat, k < started[t]
      PROVE  \E i \in DOMAIN threads : <<t, k>> \in dumps'[1].scopes[i]
  <2>1. PICK n \in Registered : \E i \in 1 .. buffer[n].size : buffer[n].data[i].id = <<t, k>>
    BY <1>2, <1>6 DEF Filed
  <2>2. PICK e \in Events(n) : e.id = <<t, k>>
    BY <2>1 DEF Events
  <2>3. PICK i \in DOMAIN threads : threads[i] = n
    BY DEF Registered
  <2>4. n \in Entries
    <3>1. threads \in Seq(Entries)
      BY <1>1 DEF BaseInv, TypeInv, TypeOK
    <3> QED
      BY <2>3, <3>1
  <2> QED
    BY <1>4, <1>5, <2>2, <2>3, <2>4
<1> QED
  BY <1>3, <1>4, <1>6 DEF Complete

LEMMA OutputNext == Quiet /\ EventsInv /\ OutputInv /\ [Next]_vars => OutputInv'
<1> SUFFICES ASSUME Quiet, EventsInv, OutputInv, [Next]_vars PROVE OutputInv'
  OBVIOUS
<1> USE Names
<1>1. BaseInv /\ script = << >> /\ pc \in [Threads -> Labels]
  BY DEF Quiet, BaseInv, TypeInv, TypeOK
<1>2. CASE DumpFrames
  <2>1. pc[Main] = "SaveUpdate" /\ ~Sent /\ threads # << >> /\ saveCb = "file" /\ dumps = << >>
    BY <1>1, <1>2, Turns DEF OutputInv
  <2>2. CASE WalkEnds
    <3>1. Sent' /\ phase' = "clear" /\ saveCb' = "file" /\ \E c : dumps' = Append(dumps, c)
      BY <1>2, <2>1, <2>2 DEF DumpFrames, Sent
    <3>2. dumps' # dumps
      BY <2>1, <3>1
    <3> QED
      BY <1>2, <3>1, <3>2, AllSent DEF OutputInv
  <2>3. CASE ~WalkEnds
    <3>1. phase' = "crashed" /\ UNCHANGED <<pc, currentState, output>>
      BY <1>2, <2>1, <2>3 DEF DumpFrames
    <3>2. ~Sent'
      BY <1>1, <2>1, <3>1 DEF Sent
    <3> QED
      BY <1>1, <2>1, <3>1, <3>2 DEF OutputInv, output
  <2> QED
    BY <2>2, <2>3
<1>3. CASE ~DumpFrames /\ Sent
  <2>1. Sent' /\ dumps' = dumps /\ started' = started
    <3>1. ~SaveCapture
      BY <1>3 DEF Sent, SaveCapture, Go
    <3>2. dumps' = dumps
      BY <1>3, <3>1, OutputSteps DEF output, ClearDumped
    <3>3. \A t \in Threads \ {Main} : pc[t] = "Done"
      BY <1>1, <1>3 DEF BaseInv, ControlInv, Sent, AfterJoin
    <3>4. started' = started
      BY <3>3, BufferSteps DEF EventAdd, Go
    <3> QED
      BY <1>3, <3>2, <3>4, SentNext
  <2>2. Complete'
    BY <1>1, <1>3, <2>1 DEF OutputInv, Complete
  <2>3. CASE ClearDumped
    <3>1. saveCb = "file" /\ phase' = "state" /\ file' = "closed"
      BY <1>1, <1>3, <2>3, Turns, ProfilerAssumption DEF OutputInv, ClearDumped
    <3> QED
      BY <2>1, <2>2, <3>1 DEF OutputInv
  <2>4. CASE ~ClearDumped
    <3>1. UNCHANGED output
      BY <1>3, <2>4, OutputSteps DEF Sent, SaveCapture, Go
    <3>2. phase' = "clear" <=> phase = "clear"
      <4>1. CASE Update
        <5>1. coreLock = None => phase # "clear"
          BY <1>1 DEF BaseInv, ControlInv
        <5>2. UpdateState => phase # "clear" /\ phase' # "clear"
          BY DEF UpdateState
        <5> QED
          BY <1>3, <2>4, <4>1, <5>1, <5>2
          DEF Update, UpdateEnter, UpdateMessage, UpdateNoMore, Activate, UpdateLeave, updating
      <4>2. CASE ~Update
        BY <4>2, OthersKeepMode DEF vars, updating
      <4> QED
        BY <4>1, <4>2
    <3>3. pc'[Main] = "SaveUpdate" => pc[Main] = "SaveUpdate"
      BY <1>1, <1>3, SaveSteps DEF Sent, SaveCapture, Go
    <3> QED
      BY <1>1, <1>3, <2>1, <2>2, <3>1, <3>2, <3>3 DEF OutputInv, output
  <2> QED
    BY <2>3, <2>4
<1>4. CASE ~DumpFrames /\ ~Sent
  <2>1. ~Sent' /\ ~ClearDumped
    BY <1>4, SentNext, Turns
  <2>2. dumps' = dumps
    BY <1>4, <2>1, OutputSteps DEF output, SaveCapture
  <2>3. pc'[Main] = "SaveUpdate" => saveCb' = "file"
    <3>1. CASE SaveCapture
      BY <3>1 DEF SaveCapture
    <3>2. CASE ~SaveCapture
      BY <1>1, <1>4, <2>1, <3>2, SaveSteps, OutputSteps DEF OutputInv, output
    <3> QED
      BY <3>1, <3>2
  <2> QED
    BY <1>1, <1>4, <2>1, <2>2, <2>3 DEF OutputInv
<1> QED
  BY <1>2, <1>3, <1>4

-----------------------------------------------------------------------------
(* The capture is complete.                                                  *)

CaptureInv == RecordInv /\ StartedInv /\ EventsInv /\ OutputInv

LEMMA CaptureNext ==
    BaseInv /\ ModeInv /\ QuietInv /\ ChunkInv /\ CaptureInv /\ [Next]_vars => CaptureInv'
<1> SUFFICES ASSUME BaseInv, ModeInv, QuietInv, ChunkInv, CaptureInv, [Next]_vars PROVE CaptureInv'
  OBVIOUS
<1>1. StartedInv'
  BY StartedNext DEF CaptureInv
<1>2. CASE script = << >>
  <2>1. Quiet /\ RecordInv' /\ OutputInv'
    BY <1>2, RecordNext, OutputNext DEF Quiet, CaptureInv
  <2>2. ASSUME ~Sent' PROVE FramesInv' /\ Filed' /\ TimedInv'
    <3>1. ~Sent /\ FramesInv /\ Filed /\ TimedInv
      BY <1>2, <2>1, <2>2, SentNext DEF CaptureInv, EventsInv
    <3> QED
      BY <2>1, <2>2, <3>1, FramesNext, FiledNext, TimedNext DEF CaptureInv
  <2> QED
    BY <1>1, <2>1, <2>2 DEF CaptureInv, EventsInv
<1>3. CASE script # << >>
  BY <1>1, <1>3, ScriptKept DEF CaptureInv, RecordInv, EventsInv, OutputInv
<1> QED
  BY <1>2, <1>3

(* Whatever the workers do and however long the program runs, its own        *)
(* capture holds every event that any thread recorded, and each under the    *)
(* thread that did, when the file is closed and the program ends; it does    *)
(* not end but crashes when the frames of the capture fill their last chunk. *)
THEOREM CaptureAlwaysComplete == Spec => []CaptureIsComplete
<1>1. Init => QuietInv /\ ChunkInv /\ CaptureInv
  <2> SUFFICES ASSUME Init PROVE QuietInv /\ ChunkInv /\ CaptureInv
    OBVIOUS
  <2>1. QuietInv /\ ChunkInv
    BY Names, StateNames DEF Init, QuietInv, ChunkInv, Recording
  <2>2. RecordInv /\ StartedInv
    BY Names DEF Init, RecordInv, Recorded, StartedInv
  <2>3. pc[Main] = "StartCapture" /\ ~Sent
    BY Names DEF Init, Sent
  <2>4. FramesInv /\ Filed /\ TimedInv
    BY <2>3, Names DEF Init, FramesInv, NoFrame, Filed, TimedInv
  <2>5. OutputInv
    BY <2>3 DEF Init, OutputInv
  <2> QED
    BY <2>1, <2>2, <2>4, <2>5 DEF CaptureInv, EventsInv
<1>2. BaseInv /\ IdsInv /\ CaptureInv => CaptureIsComplete
  <2> SUFFICES ASSUME BaseInv, IdsInv, CaptureInv, script = << >>, pc[Main] = "Done"
               PROVE  /\ file = "closed" /\ Len(dumps) = 1 /\ dumps[1].to = "file"
                      /\ \A t \in Threads, k \in 0 .. MaxEvents + MaxFrames :
                            k < started[t] <=> \E i \in DOMAIN dumps[1].board :
                                                 /\ ThreadOf(dumps[1].board[i]) = t
                                                 /\ <<t, k>> \in dumps[1].scopes[i]
    BY DEF CaptureIsComplete
  <2>1. Sent /\ phase = "idle"
    BY InsideUpdate DEF Sent
  <2>2. file = "closed" /\ Complete
    BY <2>1 DEF CaptureInv, OutputInv
  <2>3. 1 \in DOMAIN dumps /\ DOMAIN dumps[1].scopes = DOMAIN dumps[1].board
    <3>1. dumps \in Seq(Captures) /\ Len(dumps) = 1
      BY <2>2 DEF Complete, BaseInv, TypeInv
    <3>2. 1 \in DOMAIN dumps
      BY <3>1
    <3> QED
      BY <3>2 DEF BaseInv, TypeInv
  <2>4. \A i \in DOMAIN dumps[1].board, t \in Threads, k \in Nat :
           <<t, k>> \in dumps[1].scopes[i] => ThreadOf(dumps[1].board[i]) = t /\ k < started[t]
    BY <2>3 DEF IdsInv
  <2>5. \A k \in 0 .. MaxEvents + MaxFrames : k \in Nat
    OBVIOUS
  <2> QED
    BY <2>2, <2>3, <2>4, <2>5 DEF Complete
<1>3. Init => IdsInv
  BY DEF Init, IdsInv, NoEventTwice
<1> QED
  BY <1>1, <1>2, <1>3, BaseAlways, ModeAlwaysFits, QuietNext, ChunkNext, IdsNext, CaptureNext, PTL DEF Spec
=============================================================================
