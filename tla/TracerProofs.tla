---------------------------- MODULE TracerProofs -----------------------------
(***************************************************************************)
(* Tracer, for every set of threads and processors, every mode, stack, size *)
(* of a chunk and number of events, captures and foreign sessions: the      *)
(* collectors are at rest while they are dumped, a system call is recorded  *)
(* for its maker, and no sample is lost or misread.                         *)
(***************************************************************************)
EXTENDS Tracer, ContainerLemmas

Threads == Own \cup Foreign

-----------------------------------------------------------------------------
(* The inductive invariant.                                                 *)

Reports ==
    [type : {"CSwitch"}, cpu : Cpus, old : Threads, new : Threads, time : Nat]
    \cup [type : {"Enter", "Exit"}, cpu : Cpus, maker : Threads, time : Nat]
    \cup [type : {"Start"}, thread : Threads, process : {ThisProcess}, time : Nat]
    \cup [type : {"StackWalk"}, thread : Threads, stack : Callstacks, time : Nat,
          process : {ThisProcess, INVALID_PROCESS_ID}]

SysCalls == [start : Nat, finish : Nat \cup {INVALID_TIMESTAMP}, threadID : Threads, maker : Threads]

Runtimes == [currentProcessId : {INVALID_PROCESS_ID},
             activeCores : [Cpus -> Threads \cup {INVALID_THREAD_ID}],
             activeSyscalls : Seq(Cpus \X Nat), activeThreadsIDs : SUBSET Threads]

TracerType ==
    /\ running \in [Cpus -> Threads] /\ started \subseteq Late /\ events \in Nat
    /\ buffers \in Seq(Reports) /\ syscalls \in Seq(SysCalls)
    /\ runtime \in Runtimes
    /\ consumer \in {"none", "running", "done"}

(* There is a consumer only from a Start that has succeeded to its Stop, and  *)
(* Start finds a runtime that was reset.                                      *)
ConsumerInv ==
    /\ ~isActive => consumer = "none"
    /\ isActive => pc \in {"on", "join"}
    /\ pc \in {"start", "setup"} =>
          runtime.activeSyscalls = << >> /\ \A c \in Cpus : runtime.activeCores[c] = INVALID_THREAD_ID

(* Reports come in the order of the events, and after what was taken in.    *)
TimeInv ==
    /\ \A i \in DOMAIN buffers : buffers[i].time < events
    /\ \A i, j \in DOMAIN buffers : i < j => buffers[i].time < buffers[j].time
    /\ \A k \in DOMAIN syscalls :
          syscalls[k].start < events /\ \A i \in DOMAIN buffers : syscalls[k].start < buffers[i].time

(* A processor is only ever thought to run a thread that is known.           *)
CoresInv ==
    consumer = "running" =>
       \A c \in Cpus : runtime.activeCores[c] = INVALID_THREAD_ID
                       \/ runtime.activeCores[c] \in runtime.activeThreadsIDs

(* The threads on the processors before and after a report is made: a switch  *)
(* leads from one to the other, a system call is made by the one before.      *)
Leads(before, r, after) ==
    /\ r.type = "CSwitch" => r.old = before[r.cpu] /\ after = [before EXCEPT ![r.cpu] = r.new]
    /\ r.type # "CSwitch" => after = before
    /\ r.type = "Enter" => r.maker = before[r.cpu]

(* on[i] is what ran when report i was made: the consumer knows it of the     *)
(* first report, or nothing, and the last is what runs now, as long as the    *)
(* kernel reports to us.                                                      *)
Follows(on) ==
    /\ \A c \in Cpus : runtime.activeCores[c] \in {INVALID_THREAD_ID, on[1][c]}
    /\ session = "ours" => on[Len(buffers) + 1] = running
    /\ \A i \in DOMAIN buffers : Leads(on[i], buffers[i], on[i + 1])

(* Without reports of switches nothing is known of the processors.           *)
SwitchesInv ==
    IF "SWITCH_CONTEXT" \in flags
    THEN \E on \in [1 .. Len(buffers) + 1 -> [Cpus -> Threads]] : Follows(on)
    ELSE /\ \A i \in DOMAIN buffers : buffers[i].type # "CSwitch"
         /\ \A c \in Cpus : runtime.activeCores[c] = INVALID_THREAD_ID

(* Each unfinished system call has one pointer.                              *)
PointersDiffer ==
    consumer = "running" =>
       \A i, j \in DOMAIN runtime.activeSyscalls :
          i # j => runtime.activeSyscalls[i][2] # runtime.activeSyscalls[j][2]

OwnerInv == TracerType /\ ConsumerInv /\ TimeInv /\ CoresInv /\ SwitchesInv /\ PointersDiffer /\ SysCallOwner

-----------------------------------------------------------------------------
(* Sequences and sets.                                                       *)

(* RemoveAt closes the gap.                                                  *)
LEMMA Removed ==
    ASSUME NEW S, NEW s \in Seq(S), NEW i \in 1 .. Len(s)
    PROVE  /\ RemoveAt(s, i) \in Seq(S) /\ Len(RemoveAt(s, i)) = Len(s) - 1
           /\ \A k \in 1 .. Len(s) - 1 : RemoveAt(s, i)[k] = IF k < i THEN s[k] ELSE s[k + 1]
<1> DEFINE a == SubSeq(s, 1, i - 1)  b == SubSeq(s, i + 1, Len(s))
<1>1. a \in Seq(S) /\ Len(a) = i - 1 /\ \A k \in 1 .. i - 1 : a[k] = s[k]
  OBVIOUS
<1>2. b \in Seq(S) /\ Len(b) = Len(s) - i /\ \A k \in 1 .. Len(s) - i : b[k] = s[i + k]
  OBVIOUS
<1> HIDE DEF a, b
<1>3. /\ a \o b \in Seq(S) /\ Len(a \o b) = Len(s) - 1
      /\ \A k \in 1 .. Len(s) - 1 : (a \o b)[k] = IF k < i THEN a[k] ELSE b[k - (i - 1)]
  BY <1>1, <1>2
<1>4. \A k \in 1 .. Len(s) - 1 : k >= i => b[k - (i - 1)] = s[k + 1]
  BY <1>2
<1>5. RemoveAt(s, i) = a \o b
  BY DEF RemoveAt, a, b
<1>6. \A k \in 1 .. Len(s) - 1 : (a \o b)[k] = IF k < i THEN s[k] ELSE s[k + 1]
  BY <1>1, <1>3, <1>4
<1> QED
  BY <1>3, <1>5, <1>6

(* A nonempty set of positions has a largest one, which Max chooses.         *)
LEMMA MaxChosen ==
    ASSUME NEW n \in Nat, NEW S \in SUBSET (1 .. n), S # {}
    PROVE  Max(S) \in S
<1> DEFINE T == {n - x : x \in S}
<1>0. \A x \in S : x \in Int /\ n - x \in Nat
  OBVIOUS
<1>1. T \subseteq Nat /\ T # {}
  BY <1>0
<1>2. PICK y \in T : \A z \in T : ~(<<z, y>> \in OpToRel(<, Nat))
  BY <1>1, NatLessThanWellFounded, WFMin, Zenon
<1>3. \A z \in T : ~(z < y)
  BY <1>1, <1>2 DEF OpToRel
<1>4. PICK x \in S : y = n - x
  OBVIOUS
<1>5. ASSUME NEW z \in S PROVE x >= z
  <2>1. ~(n - z < n - x)
    BY <1>3, <1>4
  <2> QED
    BY <2>1, <1>0
<1> QED
  BY <1>4, <1>5 DEF Max

(* What a report has, by its type.                                           *)
LEMMA ReportFields ==
    ASSUME NEW r \in Reports
    PROVE  /\ r.time \in Nat /\ r.type \in {"CSwitch", "Enter", "Exit", "Start", "StackWalk"}
           /\ r.type = "CSwitch" => r.cpu \in Cpus /\ r.old \in Threads /\ r.new \in Threads
           /\ r.type \in {"Enter", "Exit"} => r.cpu \in Cpus /\ r.maker \in Threads
           /\ r.type = "Start" => r.thread \in Threads
  BY DEF Reports

(* What the collector holds.                                                 *)
LEMMA SysCallFields ==
    ASSUME syscalls \in Seq(SysCalls), NEW k \in DOMAIN syscalls
    PROVE  /\ syscalls[k] \in SysCalls /\ syscalls[k].start \in Nat
           /\ syscalls[k].threadID \in Threads /\ syscalls[k].maker \in Threads
           /\ syscalls[k].finish \in Nat \cup {INVALID_TIMESTAMP}
<1>1. syscalls[k] \in SysCalls
  OBVIOUS
<1> QED
  BY <1>1 DEF SysCalls

-----------------------------------------------------------------------------
(* The kernel.                                                               *)

(* An event is reported in order, and as the processors stand.               *)
LEMMA EventKeeps ==
    ASSUME OwnerInv, NEW r \in Reports, NEW flag, Event(r, flag), r.time = events,
           running' \in [Cpus -> Threads], started' \subseteq Late,
           r.type = "CSwitch" <=> flag = "SWITCH_CONTEXT",
           r.type = "CSwitch" =>
              r.old = running[r.cpu] /\ running' = [running EXCEPT ![r.cpu] = r.new],
           r.type # "CSwitch" => running' = running,
           r.type = "Enter" => r.maker = running[r.cpu]
    PROVE  OwnerInv'
<1> USE DEF OwnerInv
<1>1. /\ events' = events + 1 /\ UNCHANGED <<session, flags, runtime, syscalls, consumer, isActive, pc>>
      /\ buffers' = IF session = "ours" /\ flag \in flags THEN Append(buffers, r) ELSE buffers
  BY DEF Event, control, tracing, collectors
<1>2. buffers \in Seq(Reports) /\ events \in Nat
  BY DEF TracerType
<1>3. ConsumerInv' /\ CoresInv' /\ PointersDiffer' /\ SysCallOwner'
  BY <1>1 DEF ConsumerInv, CoresInv, PointersDiffer, SysCallOwner
<1>4. CASE session = "ours" /\ flag \in flags
  <2>1. /\ buffers' \in Seq(Reports) /\ Len(buffers') = Len(buffers) + 1
        /\ DOMAIN buffers = 1 .. Len(buffers) /\ DOMAIN buffers' = 1 .. Len(buffers) + 1
        /\ \A i \in 1 .. Len(buffers) : buffers'[i] = buffers[i]
        /\ buffers'[Len(buffers) + 1] = r
    BY <1>1, <1>2, <1>4, AppendProperties
  <2>2. TracerType'
    BY <1>1, <2>1 DEF TracerType
  <2>3. \A i \in DOMAIN buffers : buffers[i].time \in Nat
    BY <1>2, ReportFields
  <2>4. \A k \in DOMAIN syscalls : syscalls[k].start \in Nat
    BY SysCallFields DEF TracerType
  <2>5. TimeInv'
    BY <1>1, <1>2, <2>1, <2>3, <2>4 DEF TimeInv
  <2>6. SwitchesInv'
    <3>1. CASE "SWITCH_CONTEXT" \in flags
      <4>1. PICK on \in [1 .. Len(buffers) + 1 -> [Cpus -> Threads]] : Follows(on)
        BY <3>1 DEF SwitchesInv
      <4>2. PICK next : next = [i \in 1 .. Len(buffers) + 2 |-> IF i = Len(buffers) + 2 THEN running' ELSE on[i]]
        OBVIOUS
      <4>3. next \in [1 .. Len(buffers') + 1 -> [Cpus -> Threads]]
        BY <1>2, <2>1, <4>1, <4>2
      <4>4. /\ next[Len(buffers') + 1] = running' /\ next[1] = on[1]
            /\ next[Len(buffers) + 1] = running
            /\ \A i \in 1 .. Len(buffers) : next[i] = on[i] /\ next[i + 1] = on[i + 1]
        BY <1>2, <1>4, <2>1, <4>1, <4>2 DEF Follows
      <4>5. Leads(running, r, running')
        BY DEF Leads
      <4>6. \A i \in DOMAIN buffers' : Leads(next[i], buffers'[i], next[i + 1])
        <5>1. ASSUME NEW i \in 1 .. Len(buffers) PROVE Leads(next[i], buffers'[i], next[i + 1])
          BY <2>1, <4>1, <4>4 DEF Follows
        <5>2. Leads(next[Len(buffers) + 1], buffers'[Len(buffers) + 1], next[Len(buffers) + 2])
          BY <1>2, <2>1, <4>4, <4>5
        <5> QED
          BY <1>2, <2>1, <5>1, <5>2
      <4>7. Follows(next)'
        BY <1>1, <4>1, <4>4, <4>6 DEF Follows
      <4> QED
        BY <1>1, <3>1, <4>3, <4>7 DEF SwitchesInv
    <3>2. CASE "SWITCH_CONTEXT" \notin flags
      BY <1>1, <1>4, <2>1, <3>2 DEF SwitchesInv
    <3> QED
      BY <3>1, <3>2
  <2> QED
    BY <1>3, <2>2, <2>5, <2>6
<1>5. CASE ~(session = "ours" /\ flag \in flags)
  <2>1. buffers' = buffers
    BY <1>1, <1>5
  <2>2. TracerType'
    BY <1>1, <2>1 DEF TracerType
  <2>3. \A i \in DOMAIN buffers : buffers[i].time \in Nat
    BY <1>2, ReportFields
  <2>4. \A k \in DOMAIN syscalls : syscalls[k].start \in Nat
    BY SysCallFields DEF TracerType
  <2>5. TimeInv'
    BY <1>1, <1>2, <2>1, <2>3, <2>4 DEF TimeInv
  <2>6. "SWITCH_CONTEXT" \in flags /\ session = "ours" => running' = running
    BY <1>5
  <2>7. SwitchesInv'
    BY <1>1, <2>1, <2>6 DEF SwitchesInv, Follows
  <2> QED
    BY <1>3, <2>2, <2>5, <2>7
<1> QED
  BY <1>4, <1>5

(* The kernel keeps the invariant, whatever it reports.                      *)
LEMMA KernelKeeps ==
    ASSUME OwnerInv,
           \/ \E c \in Cpus, t \in Own \cup Foreign : Switch(c, t)
           \/ \E c \in Cpus, type \in {"Enter", "Exit"} : SysCall(c, type)
           \/ \E c \in Cpus, stack \in Callstacks : Sample(c, stack)
           \/ \E t \in Late : ThreadStart(t)
           \/ OtherSession
    PROVE  OwnerInv'
<1>1. running \in [Cpus -> Threads] /\ started \subseteq Late /\ events \in Nat
  BY DEF OwnerInv, TracerType
<1>2. ASSUME NEW c \in Cpus, NEW t \in Own \cup Foreign, Switch(c, t) PROVE OwnerInv'
  <2> DEFINE r == [type |-> "CSwitch", cpu |-> c, old |-> running[c], new |-> t, time |-> events]
  <2>1. /\ r \in Reports /\ r.type = "CSwitch" /\ r.time = events
        /\ r.old = running[r.cpu] /\ r.cpu = c /\ r.new = t
    BY <1>1 DEF Reports, Threads
  <2>2. Event(r, "SWITCH_CONTEXT") /\ running' = [running EXCEPT ![c] = t] /\ started' = started
    BY <1>2 DEF Switch
  <2>3. running' \in [Cpus -> Threads]
    BY <1>1, <2>2 DEF Threads
  <2> HIDE DEF r
  <2> QED
    BY <1>1, <2>1, <2>2, <2>3, EventKeeps
<1>3. ASSUME NEW c \in Cpus, NEW type \in {"Enter", "Exit"}, SysCall(c, type) PROVE OwnerInv'
  <2> DEFINE r == [type |-> type, cpu |-> c, maker |-> running[c], time |-> events]
  <2>1. /\ r \in Reports /\ r.type # "CSwitch" /\ r.time = events
        /\ r.maker = running[r.cpu]
    BY <1>1 DEF Reports
  <2>2. Event(r, "SYS_CALLS") /\ running' = running /\ started' = started
    BY <1>3 DEF SysCall
  <2> HIDE DEF r
  <2> QED
    BY <1>1, <2>1, <2>2, EventKeeps
<1>4. ASSUME NEW c \in Cpus, NEW stack \in Callstacks, Sample(c, stack) PROVE OwnerInv'
  <2> DEFINE process == IF running[c] \in Own THEN ThisProcess ELSE INVALID_PROCESS_ID
             r == [type |-> "StackWalk", thread |-> running[c], stack |-> stack, time |-> events,
                   process |-> process]
  <2>1. r \in Reports /\ r.type = "StackWalk" /\ r.time = events
    BY <1>1 DEF Reports
  <2>2. Event(r, "AUTOSAMPLING") /\ running' = running /\ started' = started
    BY <1>4 DEF Sample
  <2> HIDE DEF r
  <2> QED
    BY <1>1, <2>1, <2>2, EventKeeps
<1>5. ASSUME NEW t \in Late, ThreadStart(t) PROVE OwnerInv'
  <2> DEFINE r == [type |-> "Start", thread |-> t, process |-> ThisProcess, time |-> events]
  <2>1. r \in Reports /\ r.type = "Start" /\ r.time = events
    BY <1>1 DEF Reports, Threads, Own
  <2>2. Event(r, "OTHER_PROCESSES") /\ running' = running /\ started' = started \cup {t}
    BY <1>5 DEF ThreadStart
  <2> HIDE DEF r
  <2> QED
    BY <1>1, <2>1, <2>2, EventKeeps
<1>6. CASE OtherSession
  <2>1. /\ session' = "other"
        /\ UNCHANGED <<flags, running, started, events, buffers, pc, isActive, consumer, runtime, syscalls>>
    BY <1>6 DEF OtherSession, control, tracing, collectors
  <2>2. SwitchesInv'
    BY <2>1 DEF OwnerInv, SwitchesInv, Follows
  <2> QED
    BY <2>1, <2>2 DEF OwnerInv, TracerType, ConsumerInv, TimeInv, CoresInv, PointersDiffer, SysCallOwner
<1> QED
  BY <1>2, <1>3, <1>4, <1>5, <1>6

-----------------------------------------------------------------------------
(* Start and Stop.                                                           *)

(* What is reported is not touched by the thread that updates, unless it      *)
(* resets the runtime, or nobody consumes.                                    *)
LEMMA QuietKeeps ==
    ASSUME OwnerInv, UNCHANGED <<flags, running, started, events, buffers, syscalls>>,
           session' \in {session, "none"},
           consumer' \in {"none", "running", "done"}, consumer' = "running" => consumer = "running",
           \/ runtime' = runtime
           \/ runtime' \in {Reset, [Reset EXCEPT !.activeThreadsIDs = Registered]} /\ consumer' # "running"
           \/ runtime' = [runtime EXCEPT !.activeThreadsIDs = {}] /\ consumer' # "running"
    PROVE  TracerType' /\ TimeInv' /\ CoresInv' /\ SwitchesInv' /\ PointersDiffer' /\ SysCallOwner'
<1> USE DEF OwnerInv
<1>1. runtime' \in Runtimes
  <2>1. CASE runtime' = runtime
    BY <2>1 DEF TracerType, Runtimes
  <2>2. CASE runtime' \in {Reset, [Reset EXCEPT !.activeThreadsIDs = Registered]}
    <3>1. Reset \in Runtimes
      BY DEF Reset, Runtimes
    <3>2. [Reset EXCEPT !.activeThreadsIDs = Registered] \in Runtimes
      BY <3>1 DEF Runtimes, Threads, Own
    <3> QED
      BY <2>2, <3>1, <3>2
  <2>3. CASE runtime' = [runtime EXCEPT !.activeThreadsIDs = {}]
    BY <2>3 DEF TracerType, Runtimes
  <2> QED
    BY <2>1, <2>2, <2>3
<1>2. \A c \in Cpus : runtime'.activeCores[c] \in {INVALID_THREAD_ID, runtime.activeCores[c]}
  <2>1. CASE runtime' = [runtime EXCEPT !.activeThreadsIDs = {}]
    BY <2>1 DEF TracerType, Runtimes
  <2>2. CASE runtime' \in {Reset, [Reset EXCEPT !.activeThreadsIDs = Registered]}
    BY <2>2 DEF Reset
  <2> QED
    BY <2>1, <2>2
<1>3. TracerType' /\ TimeInv'
  BY <1>1 DEF TracerType, TimeInv
<1>4. SwitchesInv'
  <2>1. CASE "SWITCH_CONTEXT" \in flags
    <3>1. PICK on \in [1 .. Len(buffers) + 1 -> [Cpus -> Threads]] : Follows(on)
      BY <2>1 DEF SwitchesInv
    <3>2. Follows(on)'
      BY <1>2, <3>1 DEF Follows
    <3> QED
      BY <2>1, <3>2 DEF SwitchesInv
  <2>2. CASE "SWITCH_CONTEXT" \notin flags
    BY <1>2, <2>2 DEF SwitchesInv
  <2> QED
    BY <2>1, <2>2
<1>5. CoresInv' /\ PointersDiffer' /\ SysCallOwner'
  BY DEF CoresInv, PointersDiffer, SysCallOwner
<1> QED
  BY <1>3, <1>4, <1>5

(* Every step of the thread that updates keeps the invariant.                *)
LEMMA ControlKeeps ==
    ASSUME OwnerInv,
           \/ Activate \/ StartTrace \/ StartTraceAgain \/ StartTraceFails \/ SetUp \/ SetUpFails
           \/ StopTracer \/ Join \/ Cancelled \/ Dump
    PROVE  OwnerInv'
<1> USE DEF OwnerInv, kernel, collectors, symbols, control, tracing
<1>1. CASE Activate
  <2>1. ConsumerInv'
    BY <1>1 DEF Activate, Begin, ConsumerInv, Reset
  <2>2. consumer = "none"
    BY <1>1 DEF Activate, ConsumerInv
  <2> QED
    BY <1>1, <2>1, <2>2, QuietKeeps DEF Activate, Begin, TracerType
<1>2. ASSUME Fails, UNCHANGED kernel, UNCHANGED buffers, pc \in {"start", "setup"} PROVE OwnerInv'
  <2>1. consumer = "none" /\ ~isActive
    BY <1>2 DEF ConsumerInv
  <2>2. ConsumerInv'
    BY <1>2, <2>1 DEF Fails, Begin, ConsumerInv, Reset
  <2>3. runtime' \in {runtime, [Reset EXCEPT !.activeThreadsIDs = Registered]}
    BY <1>2 DEF Fails, Begin
  <2>4. UNCHANGED <<isActive, consumer, switchContexts, syscalls>>
    BY <1>2 DEF Fails
  <2> QED
    BY <1>2, <2>1, <2>2, <2>3, <2>4, QuietKeeps DEF TracerType
<1>3. CASE StartTrace
  <2>1. consumer = "none" /\ ~isActive /\ \A c \in Cpus : runtime.activeCores[c] = INVALID_THREAD_ID
    BY <1>3 DEF StartTrace, ConsumerInv
  <2>2. TracerType'
    BY <1>3 DEF StartTrace, TracerType
  <2>3. ConsumerInv' /\ CoresInv' /\ PointersDiffer'
    BY <1>3, <2>1 DEF StartTrace, ConsumerInv, CoresInv, PointersDiffer
  <2>4. TimeInv' /\ SysCallOwner'
    BY <1>3, <2>1 DEF StartTrace, TimeInv, SysCallOwner
  <2>5. SwitchesInv'
    <3>1. PICK on : on = [i \in 1 .. 1 |-> running]
      OBVIOUS
    <3>2. on \in [1 .. Len(buffers') + 1 -> [Cpus -> Threads]] /\ on[Len(buffers') + 1] = running
      BY <1>3, <3>1 DEF StartTrace, TracerType
    <3>3. Follows(on)'
      BY <1>3, <2>1, <3>1, <3>2 DEF StartTrace, Follows
    <3>4. DOMAIN buffers' = {}
      BY <1>3 DEF StartTrace
    <3> QED
      BY <1>3, <2>1, <3>2, <3>3, <3>4 DEF StartTrace, SwitchesInv
  <2> QED
    BY <2>2, <2>3, <2>4, <2>5
<1>4. CASE StartTraceAgain
  <2>1. ConsumerInv'
    BY <1>4 DEF StartTraceAgain, ConsumerInv
  <2> QED
    BY <1>4, <2>1, QuietKeeps DEF StartTraceAgain, TracerType
<1>5. CASE SetUp
  <2>1. /\ consumer = "none" /\ runtime.activeSyscalls = << >>
        /\ \A c \in Cpus : runtime.activeCores[c] = INVALID_THREAD_ID
    BY <1>5 DEF SetUp, ConsumerInv
  <2>2. /\ UNCHANGED <<kernel, buffers, runtime, syscalls>>
        /\ pc' = "on" /\ isActive' = TRUE /\ consumer' = "running"
    BY <1>5 DEF SetUp
  <2>3. TracerType' /\ TimeInv' /\ SwitchesInv'
    BY <2>2 DEF TracerType, TimeInv, SwitchesInv, Follows
  <2>4. ConsumerInv' /\ CoresInv' /\ PointersDiffer' /\ SysCallOwner'
    BY <2>1, <2>2 DEF ConsumerInv, CoresInv, PointersDiffer, SysCallOwner
  <2> QED
    BY <2>3, <2>4
<1>6. CASE StopTracer
  <2>1. ConsumerInv'
    BY <1>6 DEF StopTracer, Stop, ConsumerInv
  <2> QED
    BY <1>6, <2>1, QuietKeeps DEF StopTracer, Stop, TracerType
<1>7. CASE Join
  <2>1. consumer' = "none"
    BY <1>7 DEF Join, ThreadHasEnded
  <2>2. ConsumerInv'
    BY <1>7, <2>1 DEF Join, ConsumerInv
  <2> QED
    BY <1>7, <2>1, <2>2, QuietKeeps DEF Join, TracerType
<1>8. CASE Cancelled
  <2>1. ConsumerInv'
    BY <1>8 DEF Cancelled, ConsumerInv
  <2> QED
    BY <1>8, <2>1, QuietKeeps DEF Cancelled, TracerType
<1>9. CASE Dump
  <2>1. consumer = "none" /\ ~isActive
    BY <1>9 DEF Dump, ConsumerInv
  <2>2. /\ UNCHANGED <<session, flags, running, started, events, buffers, isActive, consumer, runtime>>
        /\ syscalls' = << >> /\ pc' \in {"off", "crashed"}
    BY <1>9 DEF Dump
  <2>3. TracerType' /\ TimeInv' /\ SwitchesInv'
    BY <2>2 DEF TracerType, TimeInv, SwitchesInv, Follows
  <2>4. ConsumerInv' /\ CoresInv' /\ PointersDiffer' /\ SysCallOwner'
    BY <2>1, <2>2 DEF ConsumerInv, CoresInv, PointersDiffer, SysCallOwner
  <2> QED
    BY <2>3, <2>4
<1> QED
  BY <1>1, <1>2, <1>3, <1>4, <1>5, <1>6, <1>7, <1>8, <1>9 DEF StartTraceFails, SetUpFails

-----------------------------------------------------------------------------
(* The consumer.                                                             *)

(* Taking a report leaves the others in order, if the runtime then knows of   *)
(* each processor what the report says or nothing.                            *)
LEMMA TakeSwitches ==
    ASSUME OwnerInv, buffers # << >>, buffers' = Tail(buffers), UNCHANGED <<session, flags, running>>,
           \A before, after \in [Cpus -> Threads] :
              /\ Leads(before, Head(buffers), after)
              /\ \A c \in Cpus : runtime.activeCores[c] \in {INVALID_THREAD_ID, before[c]}
              => \A c \in Cpus : runtime'.activeCores[c] \in {INVALID_THREAD_ID, after[c]},
           Head(buffers).type # "CSwitch" => runtime'.activeCores = runtime.activeCores
    PROVE  SwitchesInv'
<1>1. /\ buffers \in Seq(Reports) /\ Len(buffers) \in Nat /\ Len(buffers) > 0
      /\ Len(buffers') = Len(buffers) - 1 /\ Head(buffers) = buffers[1]
      /\ DOMAIN buffers = 1 .. Len(buffers) /\ DOMAIN buffers' = 1 .. Len(buffers) - 1
      /\ \A i \in 1 .. Len(buffers) - 1 : buffers'[i] = buffers[i + 1]
  BY HeadTailProperties DEF OwnerInv, TracerType
<1>2. CASE "SWITCH_CONTEXT" \in flags
  <2>1. PICK on \in [1 .. Len(buffers) + 1 -> [Cpus -> Threads]] : Follows(on)
    BY <1>2 DEF OwnerInv, SwitchesInv
  <2>2. PICK next : next = [i \in 1 .. Len(buffers) |-> on[i + 1]]
    OBVIOUS
  <2>3. next \in [1 .. Len(buffers') + 1 -> [Cpus -> Threads]]
    BY <1>1, <2>1, <2>2
  <2>4. \A c \in Cpus : runtime'.activeCores[c] \in {INVALID_THREAD_ID, next[1][c]}
    <3>1. on[1] \in [Cpus -> Threads] /\ on[2] \in [Cpus -> Threads]
      BY <1>1, <2>1
    <3>2. Leads(on[1], Head(buffers), on[2])
      BY <1>1, <2>1 DEF Follows
    <3>3. \A c \in Cpus : runtime.activeCores[c] \in {INVALID_THREAD_ID, on[1][c]}
      BY <2>1 DEF Follows
    <3>4. next[1] = on[2]
      BY <1>1, <2>2
    <3> QED
      BY <3>1, <3>2, <3>3, <3>4
  <2>5. session = "ours" => next[Len(buffers') + 1] = running
    BY <1>1, <2>1, <2>2 DEF Follows
  <2>6. ASSUME NEW i \in DOMAIN buffers' PROVE Leads(next[i], buffers'[i], next[i + 1])
    <3>1. i + 1 \in DOMAIN buffers /\ next[i] = on[i + 1] /\ next[i + 1] = on[i + 2]
      BY <1>1, <2>2
    <3>2. Leads(on[i + 1], buffers[i + 1], on[(i + 1) + 1])
      BY <2>1, <3>1 DEF Follows
    <3> QED
      BY <1>1, <3>1, <3>2
  <2>7. Follows(next)'
    BY <2>4, <2>5, <2>6 DEF Follows
  <2> QED
    BY <1>2, <2>3, <2>7 DEF SwitchesInv
<1>3. CASE "SWITCH_CONTEXT" \notin flags
  BY <1>1, <1>3 DEF OwnerInv, SwitchesInv
<1> QED
  BY <1>2, <1>3

(* Every report that is taken in keeps the invariant.                        *)
LEMMA ConsumerKeeps ==
    ASSUME OwnerInv, OnRecordEvent
    PROVE  OwnerInv'
<1> DEFINE r == Head(buffers)
<1>1. /\ consumer = "running" /\ buffers # << >> /\ buffers' = Tail(buffers)
      /\ UNCHANGED <<session, flags, running, started, events, consumer, isActive, pc>>
      /\ OnCSwitch(r) \/ OnThreadStart(r) \/ OnStackWalk(r) \/ OnSysCallEnter(r) \/ OnSysCallExit(r)
  BY DEF OnRecordEvent, kernel, control
<1>2. /\ buffers \in Seq(Reports) /\ buffers' \in Seq(Reports)
      /\ Len(buffers) \in Nat /\ Len(buffers) > 0
      /\ Len(buffers') = Len(buffers) - 1 /\ r = buffers[1] /\ r \in Reports
      /\ DOMAIN buffers = 1 .. Len(buffers) /\ DOMAIN buffers' = 1 .. Len(buffers) - 1
      /\ \A i \in 1 .. Len(buffers) - 1 : buffers'[i] = buffers[i + 1]
  BY <1>1, HeadTailProperties DEF OwnerInv, TracerType
<1>3. \A i \in DOMAIN buffers : buffers[i].time \in Nat
  BY <1>2, ReportFields
<1>4. /\ runtime \in Runtimes /\ syscalls \in Seq(SysCalls) /\ events \in Nat
      /\ started \subseteq Late /\ running \in [Cpus -> Threads]
  BY DEF OwnerInv, TracerType
<1>5. ASSUME NEW k \in DOMAIN syscalls PROVE syscalls[k].start \in Nat
  BY <1>4, SysCallFields
<1> HIDE DEF r
<1>6. /\ r.time \in Nat /\ r.time < events
      /\ \A i \in DOMAIN buffers' : buffers'[i].time \in Nat /\ r.time < buffers'[i].time
      /\ \A i \in DOMAIN buffers' : buffers'[i].time < events
      /\ \A i, j \in DOMAIN buffers' : i < j => buffers'[i].time < buffers'[j].time
  <2>1. \A i \in DOMAIN buffers : buffers[i].time < events
    BY DEF OwnerInv, TimeInv
  <2>2. \A i, j \in DOMAIN buffers : i < j => buffers[i].time < buffers[j].time
    BY DEF OwnerInv, TimeInv
  <2>3. 1 \in DOMAIN buffers
    BY <1>2
  <2>4. ASSUME NEW i \in DOMAIN buffers'
        PROVE  i \in Nat /\ i + 1 \in DOMAIN buffers /\ 1 < i + 1 /\ buffers'[i] = buffers[i + 1]
    BY <1>2
  <2>5. ASSUME NEW i \in DOMAIN buffers', NEW j \in DOMAIN buffers', i < j
        PROVE  buffers'[i].time < buffers'[j].time
    <3>1. i + 1 < j + 1
      BY <2>4, <2>5
    <3> QED
      BY <2>2, <2>4, <3>1
  <2> QED
    BY <1>2, <1>3, <2>1, <2>2, <2>3, <2>4, <2>5
<1>7. ASSUME NEW k \in DOMAIN syscalls
      PROVE  /\ syscalls[k].start < events /\ syscalls[k].start < r.time
             /\ \A i \in DOMAIN buffers' : syscalls[k].start < buffers'[i].time
  <2>1. syscalls[k].start < events /\ \A i \in DOMAIN buffers : syscalls[k].start < buffers[i].time
    BY DEF OwnerInv, TimeInv
  <2> QED
    BY <1>2, <2>1
<1>8. ConsumerInv'
  BY <1>1 DEF OwnerInv, ConsumerInv
<1>9. \A k \in DOMAIN syscalls :
         /\ syscalls[k].threadID = syscalls[k].maker
         /\ syscalls[k].finish # INVALID_TIMESTAMP => syscalls[k].finish > syscalls[k].start
  BY DEF OwnerInv, SysCallOwner
<1>10. \A i \in DOMAIN runtime.activeSyscalls :
          /\ runtime.activeSyscalls[i][2] \in DOMAIN syscalls
          /\ syscalls[runtime.activeSyscalls[i][2]].finish = INVALID_TIMESTAMP
  BY <1>1 DEF OwnerInv, SysCallOwner
<1>11. \A i, j \in DOMAIN runtime.activeSyscalls :
          i # j => runtime.activeSyscalls[i][2] # runtime.activeSyscalls[j][2]
  BY <1>1 DEF OwnerInv, PointersDiffer
<1>12. \A c \in Cpus : \/ runtime.activeCores[c] = INVALID_THREAD_ID
                       \/ runtime.activeCores[c] \in runtime.activeThreadsIDs
  BY <1>1 DEF OwnerInv, CoresInv
<1>13. ASSUME UNCHANGED syscalls, runtime' \in Runtimes,
              runtime'.activeSyscalls = runtime.activeSyscalls,
              runtime'.activeCores = runtime.activeCores \/ r.type = "CSwitch",
              SwitchesInv', CoresInv'
       PROVE  OwnerInv'
  <2>1. TracerType'
    BY <1>1, <1>2, <1>4, <1>13 DEF TracerType, OwnerInv
  <2>2. TimeInv'
    BY <1>1, <1>6, <1>7, <1>13 DEF TimeInv
  <2>3. PointersDiffer' /\ SysCallOwner'
    BY <1>9, <1>10, <1>11, <1>13 DEF PointersDiffer, SysCallOwner
  <2> QED
    BY <1>8, <1>13, <2>1, <2>2, <2>3 DEF OwnerInv
<1>14. r.type # "CSwitch" /\ runtime'.activeCores = runtime.activeCores => SwitchesInv'
  BY <1>1, TakeSwitches DEF Leads, r
<1>15. CASE OnCSwitch(r)
  <2>1. /\ syscalls' = syscalls /\ r.type = "CSwitch"
        /\ runtime' = [runtime EXCEPT !.activeCores = Tracked(r)]
    BY <1>15 DEF OnCSwitch
  <2>2. r.cpu \in Cpus /\ r.old \in Threads /\ r.new \in Threads
    BY <1>2, <2>1, ReportFields
  <2>3. /\ runtime.activeCores \in [Cpus -> Threads \cup {INVALID_THREAD_ID}]
        /\ runtime.activeThreadsIDs \subseteq Threads
    BY <1>4 DEF Runtimes
  <2>4. /\ runtime'.activeCores = Tracked(r) /\ runtime'.activeThreadsIDs = runtime.activeThreadsIDs
        /\ runtime'.activeSyscalls = runtime.activeSyscalls
    BY <1>4, <2>1 DEF Runtimes
  <2>5. /\ Tracked(r) \in [Cpus -> Threads \cup {INVALID_THREAD_ID}]
        /\ \A c \in Cpus : c # r.cpu => Tracked(r)[c] = runtime.activeCores[c]
        /\ Tracked(r)[r.cpu] = IF r.new \in runtime.activeThreadsIDs THEN r.new
                               ELSE IF r.old \in runtime.activeThreadsIDs THEN INVALID_THREAD_ID
                               ELSE runtime.activeCores[r.cpu]
    BY <2>2, <2>3 DEF Tracked
  <2>6. runtime' \in Runtimes
    BY <1>4, <2>1, <2>5 DEF Runtimes
  <2>7. CoresInv'
    BY <1>12, <2>4, <2>5 DEF CoresInv
  <2>8. ASSUME NEW before \in [Cpus -> Threads], NEW after \in [Cpus -> Threads],
               Leads(before, r, after),
               \A c \in Cpus : runtime.activeCores[c] \in {INVALID_THREAD_ID, before[c]}
        PROVE  \A c \in Cpus : Tracked(r)[c] \in {INVALID_THREAD_ID, after[c]}
    <3>1. r.old = before[r.cpu] /\ after = [before EXCEPT ![r.cpu] = r.new]
      BY <2>1, <2>8 DEF Leads
    <3>2. after[r.cpu] = r.new /\ \A c \in Cpus : c # r.cpu => after[c] = before[c]
      BY <2>2, <3>1
    <3> QED
      BY <1>12, <2>2, <2>5, <2>8, <3>1, <3>2
  <2>9. SwitchesInv'
    BY <1>1, <2>1, <2>4, <2>8, TakeSwitches DEF r
  <2> QED
    BY <1>13, <2>1, <2>4, <2>6, <2>7, <2>9
<1>16. CASE OnThreadStart(r)
  <2>1. /\ syscalls' = syscalls /\ r.type = "Start"
        /\ \/ runtime' = runtime
           \/ runtime' = [runtime EXCEPT !.activeThreadsIDs = @ \cup {r.thread}]
    BY <1>4, <1>16 DEF OnThreadStart, Runtimes
  <2>2. r.thread \in Threads
    BY <1>2, <2>1, ReportFields
  <2>3. /\ runtime' \in Runtimes /\ runtime'.activeSyscalls = runtime.activeSyscalls
        /\ runtime'.activeCores = runtime.activeCores
        /\ runtime.activeThreadsIDs \subseteq runtime'.activeThreadsIDs
    BY <1>4, <2>1, <2>2 DEF Runtimes
  <2>4. CoresInv'
    BY <1>12, <2>3 DEF CoresInv
  <2> QED
    BY <1>13, <1>14, <2>1, <2>3, <2>4
<1>17. CASE OnStackWalk(r)
  <2>1. UNCHANGED <<syscalls, runtime>> /\ r.type = "StackWalk"
    BY <1>17 DEF OnStackWalk, tracing
  <2>2. CoresInv'
    BY <1>12, <2>1 DEF CoresInv
  <2> QED
    BY <1>4, <1>13, <1>14, <2>1, <2>2
<1>18. CASE OnSysCallEnter(r)
  <2>1. r.type = "Enter" /\ r.cpu \in Cpus /\ r.maker \in Threads
    BY <1>2, <1>18, ReportFields DEF OnSysCallEnter
  <2> DEFINE t == runtime.activeCores[r.cpu]
             n == Len(syscalls) + 1
             s == [start |-> r.time, finish |-> INVALID_TIMESTAMP, threadID |-> t, maker |-> r.maker]
  <2>2. CASE t = INVALID_THREAD_ID
    <3>1. UNCHANGED <<syscalls, runtime>>
      BY <1>18, <2>2 DEF OnSysCallEnter
    <3>2. CoresInv'
      BY <1>12, <3>1 DEF CoresInv
    <3> QED
      BY <1>4, <1>13, <1>14, <2>1, <3>1, <3>2
  <2>3. CASE t # INVALID_THREAD_ID
    <3>1. /\ syscalls' = Append(syscalls, s)
          /\ runtime' = [runtime EXCEPT !.activeSyscalls = Append(@, <<r.cpu, n>>)]
      BY <1>18, <2>3 DEF OnSysCallEnter
    <3>2. r.maker = t
      <4>1. "SWITCH_CONTEXT" \in flags
        BY <2>1, <2>3 DEF OwnerInv, SwitchesInv
      <4>2. PICK on \in [1 .. Len(buffers) + 1 -> [Cpus -> Threads]] : Follows(on)
        BY <4>1 DEF OwnerInv, SwitchesInv
      <4>3. Leads(on[1], buffers[1], on[1 + 1]) /\ t \in {INVALID_THREAD_ID, on[1][r.cpu]}
        BY <1>2, <2>1, <4>2 DEF Follows
      <4> QED
        BY <1>2, <2>1, <2>3, <4>3 DEF Leads
    <3>3. s \in SysCalls
      BY <1>6, <2>1, <3>2 DEF SysCalls
    <3>4. /\ syscalls' \in Seq(SysCalls) /\ n \in Nat /\ n > 0
          /\ DOMAIN syscalls = 1 .. n - 1 /\ DOMAIN syscalls' = 1 .. n
          /\ syscalls'[n] = s /\ \A k \in DOMAIN syscalls : syscalls'[k] = syscalls[k]
      BY <1>4, <3>1, <3>3, AppendProperties
    <3> DEFINE open == runtime.activeSyscalls
               m == Len(open) + 1
    <3>5. runtime.activeSyscalls \in Seq(Cpus \X Nat) /\ <<r.cpu, n>> \in Cpus \X Nat
      BY <1>4, <2>1, <3>4 DEF Runtimes
    <3>6. /\ runtime'.activeSyscalls = Append(open, <<r.cpu, n>>)
          /\ runtime'.activeCores = runtime.activeCores
          /\ runtime'.activeThreadsIDs = runtime.activeThreadsIDs
      BY <1>4, <3>1 DEF Runtimes
    <3>7. /\ runtime'.activeSyscalls \in Seq(Cpus \X Nat) /\ m \in Nat
          /\ DOMAIN open = 1 .. m - 1 /\ DOMAIN runtime'.activeSyscalls = 1 .. m
          /\ runtime'.activeSyscalls[m] = <<r.cpu, n>>
          /\ \A i \in DOMAIN open : runtime'.activeSyscalls[i] = open[i]
      BY <3>5, <3>6, AppendProperties
    <3>8. runtime' \in Runtimes
      BY <1>4, <3>1, <3>6, <3>7 DEF Runtimes
    <3>9. s.start = r.time /\ s.finish = INVALID_TIMESTAMP /\ s.threadID = s.maker
      BY <3>2
    <3> HIDE DEF s, n, m, open, t
    <3>10. TracerType'
      BY <1>1, <1>2, <1>4, <3>4, <3>8 DEF TracerType, OwnerInv
    <3>11. TimeInv'
      BY <1>1, <1>6, <1>7, <3>4, <3>9 DEF TimeInv
    <3>12. CoresInv'
      BY <1>12, <3>6 DEF CoresInv
    <3>13. \A i \in DOMAIN runtime'.activeSyscalls :
              \/ i = m /\ runtime'.activeSyscalls[i][2] = n
              \/ i \in DOMAIN open /\ runtime'.activeSyscalls[i][2] = open[i][2] /\ open[i][2] \in 1 .. n - 1
      BY <1>10, <3>4, <3>7, SMTT(30) DEF open
    <3>14. PointersDiffer'
      BY <1>11, <3>4, <3>13 DEF PointersDiffer, open
    <3>15. \A i \in DOMAIN runtime'.activeSyscalls :
              /\ runtime'.activeSyscalls[i][2] \in DOMAIN syscalls'
              /\ syscalls'[runtime'.activeSyscalls[i][2]].finish = INVALID_TIMESTAMP
      <4>1. ASSUME NEW i \in DOMAIN open
            PROVE  open[i][2] \in DOMAIN syscalls /\ syscalls[open[i][2]].finish = INVALID_TIMESTAMP
        BY <1>10 DEF open
      <4>2. n \in DOMAIN syscalls' /\ syscalls'[n].finish = INVALID_TIMESTAMP
        BY <3>4, <3>9
      <4>3. \A k \in DOMAIN syscalls : k \in DOMAIN syscalls' /\ syscalls'[k] = syscalls[k]
        BY <3>4
      <4> QED
        BY <3>13, <4>1, <4>2, <4>3
    <3>16. \A k \in DOMAIN syscalls' :
              /\ syscalls'[k].threadID = syscalls'[k].maker
              /\ syscalls'[k].finish # INVALID_TIMESTAMP => syscalls'[k].finish > syscalls'[k].start
      BY <1>9, <3>4, <3>9
    <3>17. SysCallOwner'
      BY <3>15, <3>16 DEF SysCallOwner
    <3> QED
      BY <1>8, <1>14, <2>1, <3>6, <3>10, <3>11, <3>12, <3>14, <3>17 DEF OwnerInv
  <2> QED
    BY <2>2, <2>3
<1>19. CASE OnSysCallExit(r)
  <2>1. r.type = "Exit" /\ r.cpu \in Cpus
    BY <1>2, <1>19, ReportFields DEF OnSysCallExit
  <2> DEFINE open == runtime.activeSyscalls
             here == {i \in DOMAIN open : open[i][1] = r.cpu}
             i == Max(here)
             p == open[i][2]
             from(k) == IF k < i THEN k ELSE k + 1
  <2>2. CASE runtime.activeCores[r.cpu] = INVALID_THREAD_ID \/ here = {}
    <3>1. UNCHANGED <<syscalls, runtime>>
      BY <1>19, <2>2 DEF OnSysCallExit
    <3>2. CoresInv'
      BY <1>12, <3>1 DEF CoresInv
    <3> QED
      BY <1>4, <1>13, <1>14, <2>1, <3>1, <3>2
  <2>3. CASE ~(runtime.activeCores[r.cpu] = INVALID_THREAD_ID \/ here = {})
    <3>1. /\ syscalls' = [syscalls EXCEPT ![p].finish = r.time]
          /\ runtime' = [runtime EXCEPT !.activeSyscalls = RemoveAt(@, i)]
      BY <1>19, <2>3 DEF OnSysCallExit
    <3>2. open \in Seq(Cpus \X Nat) /\ Len(open) \in Nat /\ DOMAIN open = 1 .. Len(open)
      BY <1>4 DEF Runtimes
    <3>3. i \in 1 .. Len(open)
      BY <2>3, <3>2, MaxChosen
    <3> HIDE DEF i
    <3>4. /\ RemoveAt(open, i) \in Seq(Cpus \X Nat)
          /\ DOMAIN RemoveAt(open, i) = 1 .. Len(open) - 1
          /\ \A k \in 1 .. Len(open) - 1 : RemoveAt(open, i)[k] = IF k < i THEN open[k] ELSE open[k + 1]
      <4> HIDE DEF open
      <4>1. Len(RemoveAt(open, i)) = Len(open) - 1
        BY <3>2, <3>3, Removed
      <4>2. RemoveAt(open, i) \in Seq(Cpus \X Nat)
        BY <3>2, <3>3, Removed
      <4>3. \A k \in 1 .. Len(open) - 1 : RemoveAt(open, i)[k] = IF k < i THEN open[k] ELSE open[k + 1]
        BY <3>2, <3>3, Removed
      <4> HIDE DEF p
      <4>4. DOMAIN RemoveAt(open, i) = 1 .. Len(RemoveAt(open, i))
        BY <4>2
      <4> QED
        BY <4>1, <4>2, <4>3, <4>4
    <3>5. /\ runtime'.activeSyscalls = RemoveAt(open, i)
          /\ runtime'.activeCores = runtime.activeCores
          /\ runtime'.activeThreadsIDs = runtime.activeThreadsIDs
      BY <1>4, <3>1 DEF Runtimes
    <3>6. runtime' \in Runtimes
      BY <1>4, <3>1, <3>4 DEF Runtimes
    <3>7. p \in DOMAIN syscalls /\ syscalls[p].finish = INVALID_TIMESTAMP
      BY <1>10, <3>2, <3>3
    <3> HIDE DEF p
    <3>8. /\ DOMAIN syscalls' = DOMAIN syscalls
          /\ \A k \in DOMAIN syscalls : k # p => syscalls'[k] = syscalls[k]
          /\ syscalls'[p] = [syscalls[p] EXCEPT !.finish = r.time]
      BY <1>4, <3>1, <3>7
    <3>9. /\ syscalls'[p] \in SysCalls /\ syscalls'[p].start = syscalls[p].start
          /\ syscalls'[p].finish = r.time
          /\ syscalls'[p].threadID = syscalls[p].threadID /\ syscalls'[p].maker = syscalls[p].maker
      BY <1>4, <1>6, <3>7, <3>8, SysCallFields DEF SysCalls
    <3>10. syscalls' \in Seq(SysCalls)
      BY <1>4, <1>6, <3>1, <3>7, <3>9
    <3>11. TracerType'
      BY <1>1, <1>2, <1>4, <3>6, <3>10 DEF TracerType, OwnerInv
    <3>12. TimeInv'
      BY <1>1, <1>6, <1>7, <3>8, <3>9 DEF TimeInv
    <3>13. CoresInv'
      BY <1>12, <3>5 DEF CoresInv
    <3>14. /\ \A k \in DOMAIN runtime'.activeSyscalls :
                 from(k) \in DOMAIN open /\ from(k) # i /\ runtime'.activeSyscalls[k] = open[from(k)]
           /\ \A k, l \in DOMAIN runtime'.activeSyscalls : k # l => from(k) # from(l)
      <4> HIDE DEF open
      <4>1. DOMAIN runtime'.activeSyscalls = 1 .. Len(open) - 1
        BY <3>4, <3>5
      <4>2. ASSUME NEW k \in 1 .. Len(open) - 1
            PROVE  from(k) \in DOMAIN open /\ from(k) # i /\ runtime'.activeSyscalls[k] = open[from(k)]
        BY <3>2, <3>3, <3>4, <3>5, SMTT(30)
      <4>3. \A k, l \in 1 .. Len(open) - 1 : k # l => from(k) # from(l)
        BY <3>2, <3>3
      <4> QED
        BY <4>1, <4>2, <4>3
    <3> HIDE DEF from
    <3>15. \A k \in DOMAIN runtime'.activeSyscalls :
              /\ runtime'.activeSyscalls[k][2] \in DOMAIN syscalls'
              /\ syscalls'[runtime'.activeSyscalls[k][2]].finish = INVALID_TIMESTAMP
      <4>1. ASSUME NEW l \in DOMAIN open, l # i
            PROVE  /\ open[l][2] \in DOMAIN syscalls /\ open[l][2] # p
                   /\ syscalls[open[l][2]].finish = INVALID_TIMESTAMP
        BY <1>10, <1>11, <3>2, <3>3, <4>1 DEF p
      <4> QED
        BY <3>8, <3>14, <4>1
    <3>16. PointersDiffer'
      BY <1>11, <3>14 DEF PointersDiffer
    <3>17. \A k \in DOMAIN syscalls' :
              /\ syscalls'[k].threadID = syscalls'[k].maker
              /\ syscalls'[k].finish # INVALID_TIMESTAMP => syscalls'[k].finish > syscalls'[k].start
      BY <1>7, <1>9, <3>7, <3>8, <3>9, <1>5, <1>6
    <3>18. SysCallOwner'
      BY <3>15, <3>17 DEF SysCallOwner
    <3> QED
      BY <1>8, <1>14, <2>1, <3>5, <3>11, <3>12, <3>13, <3>16, <3>18, SMTT(30) DEF OwnerInv
  <2> QED
    BY <2>2, <2>3, SMTT(30)
<1> QED
  BY <1>1, <1>15, <1>16, <1>17, <1>18, <1>19

-----------------------------------------------------------------------------
(* The theorems.                                                             *)

(* Nothing is collected at first.                                            *)
LEMMA OwnerInit == Init => OwnerInv
<1> SUFFICES ASSUME Init PROVE OwnerInv
  OBVIOUS
<1>1. Reset \in Runtimes
  BY DEF Reset, Runtimes
<1>2. TracerType
  BY <1>1 DEF Init, TracerType, Threads
<1>3. ConsumerInv /\ TimeInv /\ CoresInv /\ SwitchesInv /\ PointersDiffer /\ SysCallOwner
  BY DEF Init, Reset, ConsumerInv, TimeInv, CoresInv, SwitchesInv, PointersDiffer, SysCallOwner
<1> QED
  BY <1>2, <1>3 DEF OwnerInv

(* Every step of the system keeps the invariant.                             *)
LEMMA OwnerNext == OwnerInv /\ [Next]_vars => OwnerInv'
<1> SUFFICES ASSUME OwnerInv, [Next]_vars PROVE OwnerInv'
  OBVIOUS
<1>1. CASE ProcessTraceReturns
  <2>1. /\ consumer = "running" /\ consumer' = "done"
        /\ UNCHANGED <<session, flags, running, started, events, buffers, pc, isActive, runtime, syscalls>>
    BY <1>1 DEF ProcessTraceReturns, kernel, control, tracing, collectors
  <2>2. ConsumerInv'
    BY <2>1 DEF OwnerInv, ConsumerInv
  <2> QED
    BY <2>1, <2>2, QuietKeeps DEF OwnerInv
<1>2. CASE UNCHANGED vars
  <2>1. UNCHANGED <<session, flags, running, started, events, buffers, pc, isActive, consumer, runtime, syscalls>>
    BY <1>2 DEF vars, kernel, control, tracing, collectors
  <2>2. ConsumerInv'
    BY <2>1 DEF OwnerInv, ConsumerInv
  <2> QED
    BY <2>1, <2>2, QuietKeeps DEF OwnerInv, TracerType
<1> QED
  BY <1>1, <1>2, KernelKeeps, ControlKeeps, ConsumerKeeps DEF Next

(* The invariant holds.                                                      *)
LEMMA OwnerAlways == Spec => []OwnerInv
  BY OwnerInit, OwnerNext, PTL DEF Spec

(* The collectors, which have no lock, are only dumped and cleared when the   *)
(* thread that fills them is gone: whatever fails in ETW::Start, however      *)
(* often it is tried again and whoever takes the logger meanwhile.            *)
THEOREM DumpAlwaysQuiet == Spec => []DumpIsQuiet
<1>1. OwnerInv => DumpIsQuiet
  BY DEF OwnerInv, ConsumerInv, DumpIsQuiet
<1> QED
  BY <1>1, OwnerAlways, PTL

(* OnRecordEvent finds the maker of a system call, which the report does not  *)
(* name, from the switches of the processor before it, and never ends a call  *)
(* before it began, nor through a pointer to another one that has ended.      *)
THEOREM SysCallAlwaysItsMakers == Spec => []SysCallOwner
<1>1. OwnerInv => SysCallOwner
  BY DEF OwnerInv
<1> QED
  BY <1>1, OwnerAlways, PTL

-----------------------------------------------------------------------------
(* Writing into the pool as the callstack collector does.                    *)

(* Cells written one after the other into the chunk that has room for them.   *)
LEMMA RoomAppends ==
    ASSUME NEW s \in Nat \ {0}, NEW C, NEW p \in PoolSet(s, C), NEW cells \in Seq(C), Len(cells) > 0,
           p.index + Len(cells) <= s
    PROVE  LET q == [WriteEach(p, cells) EXCEPT !.index = @ + Len(cells)]
           IN  q \in PoolSet(s, C) /\ Items(q) = Items(p) \o cells
<1> DEFINE q == [WriteEach(p, cells) EXCEPT !.index = @ + Len(cells)]
           c == p.chunk  i == p.index  n == Len(cells)
           row == [k \in 1 .. s |-> IF k - i \in DOMAIN cells THEN cells[k - i] ELSE p.chunks[c][k]]
           new == [p.chunks EXCEPT ![c] = row]
<1>1. /\ p = [size |-> s, chunks |-> p.chunks, chunk |-> p.chunk, index |-> p.index]
      /\ p.size = s /\ p.chunks \in Seq([1 .. s -> C]) /\ p.chunk \in 0 .. Len(p.chunks)
      /\ p.index \in 0 .. s
      /\ p.chunk = 0 => p.index = s
  BY PoolFields
<1>2. n \in Nat /\ n > 0 /\ i + n <= s /\ i \in 0 .. s - 1 /\ DOMAIN cells = 1 .. n
  BY <1>1
<1>3. c \in 1 .. Len(p.chunks) /\ p.chunks[c] \in [1 .. s -> C] /\ Len(p.chunks) \in Nat
  BY <1>1, <1>2
<1>4. q = [size |-> s, chunks |-> new, chunk |-> c, index |-> i + n]
  <2>1. WriteEach(p, cells) = [p EXCEPT !.chunks = new]
    BY <1>1, <1>3 DEF WriteEach
  <2> HIDE DEF new, c, i, n
  <2>2. p = [size |-> s, chunks |-> p.chunks, chunk |-> c, index |-> i]
    BY <1>1 DEF c, i
  <2>3. WriteEach(p, cells) = [size |-> s, chunks |-> new, chunk |-> c, index |-> i]
    BY <2>1, <2>2
  <2> QED
    BY <2>3 DEF n
<1> HIDE DEF q
<1>5. row \in [1 .. s -> C]
  <2>1. ASSUME NEW k \in 1 .. s
        PROVE  (IF k - i \in DOMAIN cells THEN cells[k - i] ELSE p.chunks[c][k]) \in C
    BY <1>2, <1>3
  <2> QED
    BY <2>1
<1> HIDE DEF row
<1>6. /\ new \in Seq([1 .. s -> C]) /\ Len(new) = Len(p.chunks) /\ new[c] = row
      /\ \A k \in 1 .. Len(p.chunks) : k # c => new[k] = p.chunks[k]
  BY <1>1, <1>3, <1>5
<1> HIDE DEF new, c, i, n
<1>7. q \in PoolSet(s, C)
  <2>1. c \in 1 .. Len(new) /\ i + n \in 0 .. s /\ new \in Seq([1 .. s -> C])
    BY <1>2, <1>3, <1>6
  <2> QED
    BY <1>4, <2>1, PoolMade
<1>8. Size(p) = (c - 1) * s + i /\ Size(q) = (c - 1) * s + (i + n) /\ Size(p) \in Nat
  <2>1. Size(p) = (c - 1) * s + i /\ Size(p) \in Nat
    BY <1>3, PoolSize DEF c, i
  <2>2. q.chunk = c /\ q.index = i + n /\ c > 0
    BY <1>3, <1>4
  <2> QED
    BY <1>7, <2>1, <2>2, PoolSize
<1>9. Size(q) = Size(p) + Len(cells)
  <2>1. (c - 1) * s \in Int
    BY <1>3
  <2> QED
    BY <1>2, <1>8, <2>1 DEF n
<1>10. ASSUME NEW j \in 1 .. Len(cells) PROVE ItemAt(new, s, Size(p) + j) = cells[j]
  <2> DEFINE r == i + j - 1
  <2>1. r \in 0 .. s - 1 /\ c - 1 \in Nat
    BY <1>2, <1>3 DEF n
  <2>2. (Size(p) + j) - 1 = (c - 1) * s + r
    <3>1. (c - 1) * s \in Int
      BY <1>3
    <3> QED
      BY <1>2, <1>8, <3>1
  <2> HIDE DEF r
  <2>3. ((Size(p) + j) - 1) \div s = c - 1 /\ ((Size(p) + j) - 1) % s = r
    BY <2>1, <2>2, DivMod, ZenonT(30)
  <2>4. ItemAt(new, s, Size(p) + j) = new[(c - 1) + 1][r + 1]
    BY <2>3 DEF ItemAt
  <2>5. (c - 1) + 1 = c /\ r + 1 = i + j /\ i + j \in 1 .. s /\ (i + j) - i = j /\ j \in DOMAIN cells
    BY <1>2, <1>3, <2>1 DEF r, n
  <2>6. row[i + j] = cells[j]
    BY <2>5 DEF row
  <2> QED
    BY <1>6, <2>4, <2>5, <2>6
<1>11. ASSUME NEW k \in 1 .. Size(p) PROVE ItemAt(new, s, k) = ItemAt(p.chunks, s, k)
  <2> DEFINE a == (k - 1) \div s  b == (k - 1) % s
  <2>1. a \in 0 .. c - 1 /\ b \in 0 .. s - 1 /\ (a = c - 1 => b < i)
    BY PoolItems DEF c, i
  <2> HIDE DEF a, b
  <2>2. a + 1 \in 1 .. Len(p.chunks) /\ b + 1 \in 1 .. s
    BY <1>3, <2>1
  <2>3. new[a + 1][b + 1] = p.chunks[a + 1][b + 1]
    <3>1. CASE a + 1 # c
      BY <1>6, <2>2, <3>1
    <3>2. CASE a + 1 = c
      <4>1. b + 1 <= i /\ b + 1 - i \notin DOMAIN cells
        BY <1>2, <1>3, <2>1, <3>2
      <4> DEFINE m == b + 1
      <4>2. m \in 1 .. s /\ m - i \notin DOMAIN cells
        BY <1>2, <2>1, <2>2, <4>1
      <4> HIDE DEF m
      <4>3. row[m] = p.chunks[c][m]
        BY <4>2 DEF row
      <4> QED
        BY <1>6, <3>2, <4>3 DEF m
    <3> QED
      BY <3>1, <3>2
  <2> QED
    BY <2>3 DEF ItemAt, a, b
<1>12. q.chunks = new
  BY <1>4
<1>13. Extends(q, p, s, cells)
  BY <1>9, <1>10, <1>11, <1>12 DEF Extends
<1>14. Items(q) = Items(p) \o cells
  BY <1>7, <1>13, PoolExtends
<1> QED
  BY <1>7, <1>14 DEF q

(* Cells added one by one, over as many chunks as they need.                 *)
LEMMA AddEachAppends ==
    ASSUME NEW s \in Nat \ {0}, NEW C, NEW p \in PoolSet(s, C), NEW cells \in Seq(C)
    PROVE  AddEach(p, cells) \in PoolSet(s, C) /\ Items(AddEach(p, cells)) = Items(p) \o cells
<1> DEFINE n == Len(cells)  S == PoolSet(s, C)
           added[k \in 0 .. n] == IF k = 0 THEN p ELSE Add(added[k - 1], cells[k])
<1>1. n \in Nat /\ p \in S /\ \A k \in 1 .. n : cells[k] \in C
  OBVIOUS
<1>2. AddEach(p, cells) = added[n]
  BY DEF AddEach
<1>3. \E f \in [0 .. n -> S] : f[0] = p /\ \A k \in 1 .. n : f[k] = Add(f[k - 1], cells[k])
  <2> DEFINE G == [a \in S \X (1 .. n) |-> Add(a[1], cells[a[2]])]
  <2>1. G \in [S \X (1 .. n) -> S]
    BY <1>1, AddAppends
  <2>2. \A q \in S, k \in 1 .. n : G[<<q, k>>] = Add(q, cells[k])
    OBVIOUS
  <2> HIDE DEF G, n, S, added
  <2>3. PICK f \in [0 .. n -> S] : Steps(f, p, G, n)
    BY <1>1, <2>1, Iterates
  <2>a. f[0] = p /\ \A k \in 1 .. n : f[k] = G[<<f[k - 1], k>>]
    BY <2>3 DEF Steps
  <2>4. ASSUME NEW k \in 1 .. n PROVE f[k] = Add(f[k - 1], cells[k])
    <3>1. f[k - 1] \in S
      BY <1>1
    <3> QED
      BY <2>2, <2>a, <3>1
  <2> QED
    BY <2>a, <2>4
<1> HIDE DEF n, S
<1>7. \E f : f = [k \in 0 .. n |-> IF k = 0 THEN p ELSE Add(f[k - 1], cells[k])]
  <2>1. PICK f \in [0 .. n -> S] : f[0] = p /\ \A k \in 1 .. n : f[k] = Add(f[k - 1], cells[k])
    BY <1>3
  <2>2. \A k \in 0 .. n : f[k] = IF k = 0 THEN p ELSE Add(f[k - 1], cells[k])
    BY <1>1, <2>1
  <2>3. f = [k \in 0 .. n |-> IF k = 0 THEN p ELSE Add(f[k - 1], cells[k])]
    BY <2>2
  <2> QED
    BY <2>3
<1>8. added = [k \in 0 .. n |-> IF k = 0 THEN p ELSE Add(added[k - 1], cells[k])]
  BY <1>7
<1> HIDE DEF added
<1>9. added[0] = p /\ \A k \in 1 .. n : added[k] = Add(added[k - 1], cells[k])
  BY <1>1, <1>8
<1> DEFINE X == {k \in 0 .. n : added[k] \in PoolSet(s, C) /\ Items(added[k]) = Items(p) \o SubSeq(cells, 1, k)}
<1>10. Items(p) \in Seq(C)
  BY PoolItems
<1>11. 0 \in X
  <2>1. SubSeq(cells, 1, 0) = << >>
    BY SubSeqEmpty
  <2> QED
    BY <1>1, <1>9, <1>10, <2>1, ConcatEmptySeq
<1>12. ASSUME NEW k \in 0 .. n - 1, k \in X PROVE k + 1 \in X
  <2> DEFINE before == SubSeq(cells, 1, k)  x == cells[k + 1]  q == added[k]
  <2>1. q \in PoolSet(s, C) /\ Items(q) = Items(p) \o before
    BY <1>12
  <2>2. k + 1 \in 1 .. n /\ (k + 1) - 1 = k /\ x \in C /\ k + 1 \in 0 .. n /\ k \in Nat
    BY <1>1
  <2>3. added[k + 1] = Add(q, x)
    BY <1>9, <2>2
  <2>4. SubSeq(cells, 1, k + 1) = before \o <<x>> /\ before \in Seq(C)
    BY <1>1, <2>2 DEF n
  <2> HIDE DEF X, before, x, q
  <2>5. Add(q, x) \in PoolSet(s, C) /\ Items(Add(q, x)) = Items(q) \o <<x>>
    BY <2>1, <2>2, AddAppends, SMTT(30)
  <2>6. <<x>> \in Seq(C)
    BY <2>2
  <2>7. (Items(p) \o before) \o <<x>> = Items(p) \o (before \o <<x>>)
    BY <1>10, <2>4, <2>6, ConcatAssociative
  <2> QED
    BY <2>1, <2>2, <2>3, <2>4, <2>5, <2>7 DEF X
<1> HIDE DEF X
<1>13. n \in X
  <2>1. 0 .. n \subseteq X
    BY <1>1, <1>11, <1>12, StepsUpTo
  <2> QED
    BY <1>1, <2>1
<1>14. SubSeq(cells, 1, n) = cells
  BY DEF n
<1> QED
  BY <1>2, <1>13, <1>14 DEF X

-----------------------------------------------------------------------------
(* Callstacks packed into cells, and read back.                              *)

(* What a stack is packed into.                                              *)
LEMMA PackedCells ==
    ASSUME NEW C, NEW thread \in C, NEW time \in C, NEW stack \in Seq(C), Len(stack) \in C
    PROVE  LET cells == Packed(thread, time, stack)
           IN  /\ cells \in Seq(C) /\ Len(cells) = Len(stack) + 3
               /\ cells[3] = Len(stack)
<1> DEFINE a == <<thread, time, Len(stack)>>  b == Reverse(stack)
<1>1. a \in Seq(C) /\ Len(a) = 3 /\ a[3] = Len(stack)
  OBVIOUS
<1>2. b \in Seq(C) /\ Len(b) = Len(stack)
  <2>1. \A i \in 1 .. Len(stack) : stack[(Len(stack) - i) + 1] \in C
    OBVIOUS
  <2>2. b = [i \in 1 .. Len(stack) |-> stack[(Len(stack) - i) + 1]]
    BY DEF Reverse
  <2> DEFINE e(i) == stack[(Len(stack) - i) + 1]  n == Len(stack)
  <2>3. n \in Nat /\ \A i \in 1 .. n : e(i) \in C
    BY <2>1
  <2> HIDE DEF e, n, b
  <2>4. [i \in 1 .. n |-> e(i)] \in Seq(C) /\ Len([i \in 1 .. n |-> e(i)]) = n
    BY <2>3
  <2> QED
    BY <2>2, <2>4 DEF e, n
<1> HIDE DEF a, b
<1>3. a \o b \in Seq(C) /\ Len(a \o b) = 3 + Len(b) /\ (a \o b)[3] = a[3]
  <2> DEFINE n == Len(a)  m == Len(b)  c == a \o b
  <2>1. n = 3 /\ m \in Nat
    BY <1>1, <1>2
  <2>2. n = Len(a) /\ m = Len(b)
    OBVIOUS
  <2> HIDE DEF n, m
  <2>3. /\ a \o b \in Seq(C) /\ Len(a \o b) = n + m
        /\ \A i \in 1 .. n + m : (a \o b)[i] = IF i <= n THEN a[i] ELSE b[i - n]
    <3>1. a \in Seq(C)
      BY <1>1
    <3>2. b \in Seq(C)
      BY <1>2
    <3> QED
      BY <3>1, <3>2, ConcatProperties DEF n, m
  <2> HIDE DEF c
  <2>4. c \in Seq(C) /\ Len(c) = n + m /\ \A i \in 1 .. n + m : c[i] = IF i <= n THEN a[i] ELSE b[i - n]
    BY <2>3 DEF c
  <2>5. 3 \in 1 .. n + m /\ 3 <= n
    BY <2>1
  <2>6. c[3] = a[3] /\ c \in Seq(C) /\ Len(c) = 3 + Len(b)
    BY <2>1, <2>2, <2>4, <2>5
  <2> QED
    BY <2>6 DEF c
<1>4. Packed(thread, time, stack) = a \o b
  BY DEF Packed, a, b
<1> QED
  BY <1>1, <1>2, <1>3, <1>4

(* q is a pool that holds cells behind what p holds.                         *)
Appended(q, p, s, C, cells) == q \in PoolSet(s, C) /\ Items(q) = Items(p) \o cells

(* Either way CallstackCollector::Add goes, the packed stack comes behind     *)
(* what the pool had.                                                        *)
LEMMA CallstackAppends ==
    ASSUME NEW s \in Nat \ {0}, NEW C, NEW p \in PoolSet(s, C),
           NEW thread \in C, NEW time \in C, NEW stack \in Seq(C), Len(stack) \in C
    PROVE  Appended(AddCallstack(p, thread, time, stack), p, s, C, Packed(thread, time, stack))
<1> DEFINE cells == Packed(thread, time, stack)
           q == [WriteEach(p, cells) EXCEPT !.index = @ + Len(cells)]
<1>1. cells \in Seq(C) /\ Len(cells) = Len(stack) + 3 /\ Len(stack) \in Nat
  BY PackedCells
<1>2. AddCallstack(p, thread, time, stack) =
         IF HasRoom(p, Len(cells)) THEN q ELSE AddEach(p, cells)
  BY <1>1 DEF AddCallstack, RoomNeeded
<1> HIDE DEF cells
<1>3. CASE HasRoom(p, Len(cells))
  <2> HIDE DEF q
  <2>0. p.size = s
    BY PoolFields
  <2>1. p.index + Len(cells) <= s /\ Len(cells) > 0
    BY <1>1, <1>3, <2>0 DEF HasRoom
  <2>2. q \in PoolSet(s, C) /\ Items(q) = Items(p) \o cells
    BY <1>1, <2>1, RoomAppends, ZenonT(30) DEF q
  <2> QED
    BY <1>2, <1>3, <2>2 DEF cells, Appended
<1>4. CASE ~HasRoom(p, Len(cells))
  <2>1. AddEach(p, cells) \in PoolSet(s, C) /\ Items(AddEach(p, cells)) = Items(p) \o cells
    BY <1>1, AddEachAppends, ZenonT(30)
  <2> HIDE DEF q
  <2> QED
    BY <1>2, <1>4, <2>1 DEF cells, Appended
<1> QED
  BY <1>3, <1>4

(* n callstacks lie in the cells one behind the other, f[i] is where the one  *)
(* after the first i starts, and the count of each is where it is looked for. *)
Reads(cells, f, n) ==
    /\ n \in Nat /\ f \in [0 .. n -> 1 .. Len(cells) + 1]
    /\ f[0] = 1 /\ f[n] = Len(cells) + 1 /\ n <= Len(cells)
    /\ \A i \in 0 .. n - 1 : /\ f[i] + 2 <= Len(cells) /\ cells[f[i] + 2] \in Nat
                             /\ f[i + 1] = After(cells, f[i])

Readable(cells) == \E n, f : Reads(cells, f, n)

Starts(f, n) == {f[i] : i \in 0 .. n - 1}

(* The loop of SerializeSymbols finds just those.                            *)
LEMMA HeadsRead ==
    ASSUME NEW C, NEW cells \in Seq(C), NEW n, NEW f, Reads(cells, f, n)
    PROVE  HeadsOf(cells) = Starts(f, n)
<1> DEFINE N == Len(cells)
           Next1(k) == IF k > N THEN k ELSE After(cells, k)
           head[i \in 0 .. N] == IF i = 0 THEN 1 ELSE LET k == head[i - 1] IN IF k > N THEN k ELSE After(cells, k)
<1>1. /\ N \in Nat /\ n \in Nat /\ f \in [0 .. n -> 1 .. N + 1]
      /\ f[0] = 1 /\ f[n] = N + 1 /\ n <= N
      /\ \A i \in 0 .. n - 1 : f[i] + 2 <= N /\ f[i + 1] = After(cells, f[i])
      /\ DOMAIN cells = 1 .. N
  BY DEF Reads
<1>2. HeadsOf(cells) = {head[i] : i \in 0 .. N} \cap DOMAIN cells
  BY DEF HeadsOf
<1> HIDE DEF N
<1>3. \E g : g = [i \in 0 .. N |-> IF i = 0 THEN 1 ELSE LET k == g[i - 1] IN IF k > N THEN k ELSE After(cells, k)]
  <2> DEFINE g == [i \in 0 .. N |-> IF i <= n THEN f[i] ELSE N + 1]
  <2>1. ASSUME NEW i \in 0 .. N
        PROVE  g[i] = IF i = 0 THEN 1 ELSE LET k == g[i - 1] IN IF k > N THEN k ELSE After(cells, k)
    <3>1. CASE i = 0
      BY <1>1, <3>1
    <3>2. CASE i # 0 /\ i <= n
      <4>1. g[i - 1] = f[i - 1] /\ g[i] = f[i] /\ i - 1 \in 0 .. n - 1 /\ (i - 1) + 1 = i
        BY <1>1, <3>2
      <4>2. f[i] = After(cells, f[i - 1]) /\ f[i - 1] + 2 <= N /\ f[i - 1] \in Nat
        BY <1>1, <4>1
      <4>3. ~(f[i - 1] > N)
        BY <1>1, <4>2
      <4> HIDE DEF g
      <4> QED
        BY <3>2, <4>1, <4>2, <4>3
    <3>3. CASE i > n
      <4>1. g[i - 1] = N + 1 /\ g[i] = N + 1 /\ i # 0 /\ N + 1 > N
        BY <1>1, <3>3
      <4> HIDE DEF g
      <4> QED
        BY <4>1
    <3>4. i = 0 \/ (i # 0 /\ i <= n) \/ i > n
      BY <1>1
    <3> QED
      BY <3>1, <3>2, <3>3, <3>4
  <2>2. g = [i \in 0 .. N |-> IF i = 0 THEN 1 ELSE LET k == g[i - 1] IN IF k > N THEN k ELSE After(cells, k)]
    BY <2>1
  <2> QED
    BY <2>2
<1>4. head = [i \in 0 .. N |-> IF i = 0 THEN 1 ELSE LET k == head[i - 1] IN IF k > N THEN k ELSE After(cells, k)]
  BY <1>3
<1> HIDE DEF head
<1>5. head[0] = 1 /\ \A i \in 1 .. N : head[i] = Next1(head[i - 1])
  BY <1>1, <1>4
<1> DEFINE X == {i \in 0 .. N : head[i] = IF i <= n THEN f[i] ELSE N + 1}
<1>6. 0 \in X
  BY <1>1, <1>5
<1>0. n \in Nat
  BY <1>1
<1>7. ASSUME NEW i \in 0 .. N - 1, i \in X PROVE i + 1 \in X
  <2>1. i + 1 \in 1 .. N /\ (i + 1) - 1 = i /\ i \in Nat /\ i + 1 \in 0 .. N
    BY <1>1
  <2>2. head[i + 1] = Next1(head[i])
    BY <1>5, <2>1
  <2>3. head[i] = IF i <= n THEN f[i] ELSE N + 1
    BY <1>7
  <2>4. CASE i < n
    <3>1. i \in 0 .. n - 1 /\ i <= n /\ i + 1 <= n
      BY <1>0, <2>1, <2>4
    <3>2. f[i] + 2 <= N /\ f[i + 1] = After(cells, f[i]) /\ f[i] \in Nat
      BY <1>1, <3>1
    <3>3. ~(f[i] > N)
      BY <1>1, <3>2
    <3>4. head[i + 1] = f[i + 1]
      BY <2>2, <2>3, <3>1, <3>2, <3>3
    <3> QED
      BY <2>1, <3>1, <3>4
  <2>5. CASE i >= n
    <3>1. head[i] = N + 1 /\ N + 1 > N /\ ~(i + 1 <= n)
      BY <1>1, <2>1, <2>3, <2>5
    <3>2. head[i + 1] = N + 1
      BY <2>2, <3>1
    <3> QED
      BY <2>1, <3>1, <3>2
  <2> QED
    <3>1. i < n \/ i >= n
      BY <1>0, <2>1
    <3> QED
      BY <2>4, <2>5, <3>1
<1> HIDE DEF X
<1>8. 0 .. N \subseteq X
  BY <1>1, <1>6, <1>7, StepsUpTo
<1>9. \A i \in 0 .. N : head[i] = IF i <= n THEN f[i] ELSE N + 1
  BY <1>8 DEF X
<1>10. ASSUME NEW i \in 0 .. N, head[i] \in DOMAIN cells PROVE i \in 0 .. n - 1 /\ head[i] = f[i]
  BY <1>1, <1>9, <1>10
<1>11. ASSUME NEW i \in 0 .. n - 1 PROVE i \in 0 .. N /\ head[i] = f[i] /\ f[i] \in DOMAIN cells
  BY <1>1, <1>9
<1> QED
  BY <1>2, <1>10, <1>11 DEF Starts

(* One more start.                                                           *)
Longer(f, n, last) == [i \in 0 .. n + 1 |-> IF i <= n THEN f[i] ELSE last]

OneMore(cells, more, f, n) ==
    /\ Reads(cells \o more, Longer(f, n, Len(cells \o more) + 1), n + 1)
    /\ After(cells \o more, Len(cells) + 1) = Len(cells \o more) + 1
    /\ \A i \in 0 .. n - 1 : After(cells \o more, f[i]) = After(cells, f[i])

(* A packed callstack behind readable cells is read as one more, at the place *)
(* where they ended.                                                         *)
LEMMA ReadsOneMore ==
    ASSUME NEW C, NEW cells \in Seq(C), NEW more \in Seq(C), NEW m \in 0 .. 255,
           Len(more) = m + 3, more[3] = m,
           NEW n, NEW f, Reads(cells, f, n)
    PROVE  OneMore(cells, more, f, n)
<1> DEFINE all == cells \o more  N == Len(cells)
           g == [i \in 0 .. n + 1 |-> IF i <= n THEN f[i] ELSE Len(all) + 1]
<1>1. /\ N \in Nat /\ n \in Nat /\ f \in [0 .. n -> 1 .. N + 1]
      /\ f[0] = 1 /\ f[n] = N + 1 /\ n <= N
      /\ \A i \in 0 .. n - 1 : /\ f[i] + 2 <= N /\ cells[f[i] + 2] \in Nat
                               /\ f[i + 1] = After(cells, f[i])
  BY DEF Reads
<1>2. /\ all \in Seq(C) /\ Len(all) = N + (m + 3)
      /\ \A i \in 1 .. N + (m + 3) : all[i] = IF i <= N THEN cells[i] ELSE more[i - N]
  <2>1. /\ cells \o more \in Seq(C) /\ Len(cells \o more) = Len(cells) + Len(more)
        /\ \A i \in 1 .. Len(cells) + Len(more) :
              (cells \o more)[i] = IF i <= Len(cells) THEN cells[i] ELSE more[i - Len(cells)]
    BY ConcatProperties
  <2> QED
    BY <2>1
<1> HIDE DEF all, N
<1>0. N \in Nat /\ n \in Nat
  BY <1>1
<1>3. all[N + 3] = m
  <2>1. N + 3 \in 1 .. N + (m + 3) /\ ~(N + 3 <= N) /\ (N + 3) - N = 3
    BY <1>1
  <2> QED
    BY <1>2, <2>1
<1>4. After(all, N + 1) = Len(all) + 1
  <2>1. (N + 1) + 2 = N + 3 /\ m % 256 = m
    BY <1>0
  <2>2. After(all, N + 1) = (N + 1) + 3 + (all[(N + 1) + 2] % 256)
    BY DEF After
  <2>3. After(all, N + 1) = (N + 1) + 3 + m
    BY <1>3, <2>1, <2>2
  <2> QED
    BY <1>1, <1>2, <2>3
<1>5. ASSUME NEW i \in 0 .. n - 1 PROVE all[f[i] + 2] = cells[f[i] + 2] /\ After(all, f[i]) = After(cells, f[i])
  <2>1. f[i] \in Nat /\ f[i] + 2 \in 1 .. N
    BY <1>1 DEF N
  <2>2. all[f[i] + 2] = cells[f[i] + 2]
    BY <1>1, <1>2, <2>1, SMTT(30)
  <2> QED
    BY <2>2 DEF After
<1>6. g \in [0 .. n + 1 -> 1 .. Len(all) + 1]
  <2>1. ASSUME NEW i \in 0 .. n + 1 PROVE (IF i <= n THEN f[i] ELSE Len(all) + 1) \in 1 .. Len(all) + 1
    BY <1>1, <1>2 DEF N
  <2> QED
    BY <2>1
<1>7. Reads(all, g, n + 1)
  <2>1. g[0] = 1 /\ g[n + 1] = Len(all) + 1 /\ n + 1 <= Len(all)
    BY <1>1, <1>2
  <2>2. ASSUME NEW i \in 0 .. (n + 1) - 1
        PROVE  g[i] + 2 <= Len(all) /\ all[g[i] + 2] \in Nat /\ g[i + 1] = After(all, g[i])
    <3>1. CASE i < n
      <4>1. i \in 0 .. n - 1 /\ g[i] = f[i] /\ g[i + 1] = f[i + 1] /\ f[i] \in Nat
        BY <1>1, <3>1
      <4> HIDE DEF g
      <4>2. f[i] + 2 <= N /\ cells[f[i] + 2] \in Nat /\ f[i + 1] = After(cells, f[i])
        BY <1>1, <4>1
      <4>3. f[i] + 2 <= Len(all)
        BY <1>1, <1>2, <4>1, <4>2
      <4> QED
        BY <1>5, <4>1, <4>2, <4>3
    <3>2. CASE i = n
      <4>1. g[i] = N + 1 /\ g[i + 1] = Len(all) + 1 /\ (N + 1) + 2 = N + 3
        BY <1>1, <3>2
      <4> HIDE DEF g
      <4> QED
        BY <1>1, <1>2, <1>3, <1>4, <4>1
    <3>3. i < n \/ i = n
      BY <1>0
    <3> QED
      BY <3>1, <3>2, <3>3
  <2> HIDE DEF g
  <2> QED
    BY <1>1, <1>6, <2>1, <2>2 DEF Reads
<1>8. g = Longer(f, n, Len(all) + 1)
  BY DEF Longer
<1> HIDE DEF g
<1> QED
  BY <1>4, <1>5, <1>7, <1>8 DEF all, N, OneMore

Counts(more, m) == m \in 0 .. 255 /\ Len(more) = m + 3 /\ more[3] = m
ReadBoth(cells, more) ==
    /\ Readable(cells \o more)
    /\ AddressesOf(cells \o more) = AddressesOf(cells) \cup AddressesOf(more)

(* So its addresses are looked up as well, and those of the others as before. *)
LEMMA AddressesAppend ==
    ASSUME NEW C, NEW cells \in Seq(C), NEW more \in Seq(C), NEW m, Counts(more, m), Readable(cells)
    PROVE  ReadBoth(cells, more)
<1> m \in 0 .. 255 /\ Len(more) = m + 3 /\ more[3] = m
  BY DEF Counts
<1> DEFINE all == cells \o more  N == Len(cells)
<1>0. After(more, 1) = Len(more) + 1 /\ After(more, 1) = m + 4
  <2>1. 1 + 2 = 3 /\ m % 256 = m
    BY SMTT(30)
  <2>2. After(more, 1) = 1 + 3 + (more[1 + 2] % 256)
    BY DEF After
  <2>3. After(more, 1) = 1 + 3 + m
    BY <2>1, <2>2
  <2> QED
    BY <2>3
<1>2. PICK n, f : Reads(cells, f, n)
  BY DEF Readable
<1>1. n \in Nat /\ f \in [0 .. n -> 1 .. Len(cells) + 1]
  BY <1>2 DEF Reads
<1> DEFINE g == [i \in 0 .. n + 1 |-> IF i <= n THEN f[i] ELSE Len(all) + 1]
<1>3. /\ Reads(all, g, n + 1)
      /\ After(all, N + 1) = Len(all) + 1
      /\ \A i \in 0 .. n - 1 : After(all, f[i]) = After(cells, f[i])
  <2>1. OneMore(cells, more, f, n)
    <3> HIDE DEF g, N, all
    <3> QED
      BY <1>2, ReadsOneMore
  <2>2. g = Longer(f, n, Len(all) + 1)
    BY DEF Longer
  <2> HIDE DEF g
  <2> QED
    BY <2>1, <2>2 DEF OneMore
<1>4. /\ all \in Seq(C) /\ Len(all) = N + (m + 3) /\ N \in Nat
      /\ \A i \in 1 .. N + (m + 3) : all[i] = IF i <= N THEN cells[i] ELSE more[i - N]
  <2>1. /\ cells \o more \in Seq(C) /\ Len(cells \o more) = Len(cells) + Len(more)
        /\ \A i \in 1 .. Len(cells) + Len(more) :
              (cells \o more)[i] = IF i <= Len(cells) THEN cells[i] ELSE more[i - Len(cells)]
    BY ConcatProperties
  <2> QED
    BY <2>1
<1> HIDE DEF all
<1>5. Readable(all)
  <2> HIDE DEF g
  <2> QED
    BY <1>3 DEF Readable
<1>6. HeadsOf(cells) = {f[i] : i \in 0 .. n - 1}
  BY <1>2, HeadsRead DEF Starts
<1>7. HeadsOf(all) = {f[i] : i \in 0 .. n - 1} \cup {N + 1}
  <2>1. f[n] = N + 1
    BY <1>2 DEF Reads
  <2>2. \A i \in 0 .. n : g[i] = f[i]
    BY <1>1
  <2> HIDE DEF g
  <2>3. HeadsOf(all) = {g[i] : i \in 0 .. (n + 1) - 1}
    <3>1. Reads(all, g, n + 1)
      BY <1>3
    <3>2. all \in Seq(C)
      BY <1>4
    <3>3. HeadsOf(all) = Starts(g, n + 1)
      BY <3>1, <3>2, HeadsRead
    <3> QED
      BY <3>3 DEF Starts
  <2>4. \A i \in 0 .. (n + 1) - 1 : (i \in 0 .. n - 1 \/ i = n) /\ i \in 0 .. n
    BY <1>1
  <2>5. (\A i \in 0 .. n - 1 : i \in 0 .. (n + 1) - 1 /\ i \in 0 .. n) /\ n \in 0 .. (n + 1) - 1
    BY <1>1
  <2> DEFINE A == {g[i] : i \in 0 .. (n + 1) - 1}  B == {f[i] : i \in 0 .. n - 1} \cup {N + 1}
  <2>6. ASSUME NEW i \in 0 .. (n + 1) - 1 PROVE g[i] \in B
    BY <2>1, <2>2, <2>4
  <2>7. ASSUME NEW i \in 0 .. n - 1 PROVE f[i] \in A
    BY <2>2, <2>5
  <2>8. N + 1 \in A
    <3>1. n \in 0 .. n
      BY <1>1
    <3>2. g[n] = N + 1 /\ n \in 0 .. (n + 1) - 1
      BY <2>1, <2>2, <2>5, <3>1
    <3> QED
      BY <3>2
  <2>9. A = B
    BY <2>6, <2>7, <2>8
  <2> QED
    BY <2>3, <2>9
<1>8. HeadsOf(more) = {1}
  <2> DEFINE h == [i \in 0 .. 1 |-> IF i = 0 THEN 1 ELSE Len(more) + 1]
  <2>1. h \in [0 .. 1 -> 1 .. Len(more) + 1] /\ h[0] = 1 /\ h[1] = Len(more) + 1
    OBVIOUS
  <2>2. After(more, 1) = Len(more) + 1 /\ After(more, 1) = m + 4
    BY <1>0
  <2> HIDE DEF h
  <2>3. Reads(more, h, 1)
    <3>1. 1 \in Nat /\ 1 <= Len(more) /\ 1 + 2 = 3 /\ 3 <= Len(more) /\ m \in Nat
      OBVIOUS
    <3>2. \A i \in 0 .. 1 - 1 : i = 0 /\ i + 1 = 1
      OBVIOUS
    <3> QED
      BY <2>1, <2>2, <3>1, <3>2 DEF Reads
  <2>4. HeadsOf(more) = {h[i] : i \in 0 .. 1 - 1}
    BY <2>3, HeadsRead DEF Starts
  <2>5. \A i : i \in 0 .. 1 - 1 <=> i = 0
    OBVIOUS
  <2> QED
    BY <2>1, <2>4, <2>5
<1> DEFINE Stack(c, k) == SubSeq(c, k + 3, After(c, k) - 1)
<1>9. ASSUME NEW k \in HeadsOf(cells) PROVE Stack(all, k) = Stack(cells, k)
  <2>1. PICK i \in 0 .. n - 1 : k = f[i]
    BY <1>6
  <2>2. /\ After(all, k) = After(cells, k) /\ k \in Nat /\ k > 0
        /\ f[i + 1] = After(cells, k) /\ f[i + 1] \in 1 .. N + 1
    <3>1. f[i + 1] = After(cells, f[i])
      BY <1>2 DEF Reads
    <3>2. i \in 0 .. n /\ i + 1 \in 0 .. n
      BY <1>1
    <3>3. f[i] \in 1 .. N + 1 /\ f[i + 1] \in 1 .. N + 1
      BY <1>1, <3>2
    <3>4. f[i] \in Nat /\ f[i] > 0
      BY <1>4, <3>3
    <3> QED
      BY <1>3, <2>1, <3>1, <3>3, <3>4
  <2> DEFINE to == After(cells, k) - 1
  <2>3. to \in 0 .. N
    BY <1>4, <2>2
  <2> HIDE DEF to
  <2>4. \A j \in k + 3 .. to : all[j] = cells[j]
    BY <1>4, <2>2, <2>3
  <2>5. SubSeq(all, k + 3, to) = SubSeq(cells, k + 3, to)
    <3>1. \A j \in 1 .. (to - (k + 3)) + 1 : all[(k + 3) + j - 1] = cells[(k + 3) + j - 1]
      <4>1. \A j \in 1 .. (to - (k + 3)) + 1 : (k + 3) + j - 1 \in k + 3 .. to
        BY <2>2, <2>3
      <4> QED
        BY <2>4, <4>1
    <3> DEFINE from == k + 3
    <3>2. Alike(all, from, to, cells, from, to)
      BY <2>2, <2>3, <3>1 DEF Alike
    <3> HIDE DEF from, Stack, g, N
    <3>3. Part(all, from, to) = Part(cells, from, to)
      BY <3>2, AlikeParts
    <3> QED
      BY <3>3 DEF from, Part
  <2> QED
    BY <2>2, <2>5 DEF to
<1>10. Stack(all, N + 1) = Stack(more, 1)
  <2>1. After(all, N + 1) - 1 = N + (m + 3) /\ (N + 1) + 3 = N + 4
    BY <1>3, <1>4
  <2>2. After(more, 1) - 1 = m + 3 /\ 1 + 3 = 4
    BY <1>0
  <2>3. SubSeq(all, N + 4, N + (m + 3)) = SubSeq(more, 4, m + 3)
    <3>1. N + 4 \in Int /\ N + (m + 3) \in Int /\ (N + (m + 3)) - (N + 4) = (m + 3) - 4 /\ 4 \in Int
          /\ m + 3 \in Int /\ ((N + (m + 3)) - (N + 4)) + 1 = m
      BY <1>4
    <3>2. ASSUME NEW j \in 1 .. m PROVE all[(N + 4) + j - 1] = more[4 + j - 1]
      <4>1. (N + 4) + j - 1 \in 1 .. N + (m + 3) /\ ~((N + 4) + j - 1 <= N) /\ ((N + 4) + j - 1) - N = 4 + j - 1
        BY <1>4
      <4> QED
        BY <1>4, <4>1
    <3>3. \A j \in 1 .. ((N + (m + 3)) - (N + 4)) + 1 : all[(N + 4) + j - 1] = more[4 + j - 1]
      BY <3>1, <3>2
    <3> QED
      <4> DEFINE fromAll == N + 4  toAll == N + (m + 3)  fromMore == 4  toMore == m + 3
      <4>1. Alike(all, fromAll, toAll, more, fromMore, toMore)
        BY <3>1, <3>3 DEF Alike
      <4> HIDE DEF fromAll, toAll, fromMore, toMore, Stack, g, N
      <4>2. Part(all, fromAll, toAll) = Part(more, fromMore, toMore)
        BY <4>1, AlikeParts
      <4> QED
        BY <4>2 DEF fromAll, toAll, fromMore, toMore, Part
  <2> QED
    BY <2>1, <2>2, <2>3
<1> HIDE DEF Stack
<1>11. /\ AddressesOf(all) = UNION {GoodAddresses(Stack(all, k)) : k \in HeadsOf(all)}
       /\ AddressesOf(cells) = UNION {GoodAddresses(Stack(cells, k)) : k \in HeadsOf(cells)}
       /\ AddressesOf(more) = UNION {GoodAddresses(Stack(more, k)) : k \in HeadsOf(more)}
  BY DEF AddressesOf, Stack
<1>12. AddressesOf(all) = AddressesOf(cells) \cup AddressesOf(more)
  <2>1. HeadsOf(all) = HeadsOf(cells) \cup {N + 1}
    BY <1>6, <1>7
  <2> QED
    BY <1>8, <1>9, <1>10, <1>11, <2>1
<1> QED
  BY <1>5, <1>12 DEF all, ReadBoth

(* No cells are read as no callstack.                                        *)
LEMMA NothingToRead == Readable(<< >>) /\ AddressesOf(<< >>) = {}
<1> DEFINE f == [i \in 0 .. 0 |-> 1]  e == << >>
<1>1. e \in Seq(Nat) /\ Len(e) = 0
  OBVIOUS
<1>2. f \in [0 .. 0 -> 1 .. 0 + 1] /\ f[0] = 1
  OBVIOUS
<1> HIDE DEF f, e
<1>3. Reads(e, f, 0)
  BY <1>1, <1>2 DEF Reads
<1> DEFINE none == 0  at == f
<1>4. Reads(e, at, none)
  BY <1>3
<1> HIDE DEF none, at
<1>5. HeadsOf(e) = {at[i] : i \in 0 .. none - 1}
  <2>1. e \in Seq(Nat)
    BY <1>1
  <2>2. HeadsOf(e) = Starts(at, none)
    BY <2>1, <1>4, HeadsRead
  <2> QED
    BY <2>2 DEF Starts
<1>8. HeadsOf(e) = {}
  BY <1>5 DEF none
<1>6. Readable(e)
  BY <1>3 DEF Readable
<1>7. AddressesOf(e) = {}
  BY <1>8 DEF AddressesOf
<1> QED
  BY <1>6, <1>7 DEF e

(* A bad address is never looked up.                                         *)
LEMMA AddressesGood ==
    ASSUME NEW C, NEW cells \in Seq(C), Readable(cells)
    PROVE  0 \notin AddressesOf(cells)
<1> DEFINE part(k, z) == SubSeq(cells, k, z)
<1>1. ASSUME NEW k \in Int, NEW z \in Int PROVE 0 \notin GoodAddresses(part(k, z))
  <2> DEFINE S == {cells[i] : i \in k .. z}
  <2>1. \A i \in k .. z : cells[i] \in S
    OBVIOUS
  <2> HIDE DEF S
  <2>2. part(k, z) \in Seq(S)
    BY <2>1, SubSeqProperties
  <2> HIDE DEF part
  <2>3. \A i \in DOMAIN part(k, z) : i \in 1 .. i
    BY <2>2
  <2> QED
    BY <2>3 DEF GoodAddresses
<1>3. PICK n, f : Reads(cells, f, n)
  BY DEF Readable
<1>4. HeadsOf(cells) = {f[i] : i \in 0 .. n - 1}
  BY <1>3, HeadsRead DEF Starts
<1>5. ASSUME NEW k \in HeadsOf(cells) PROVE k + 3 \in Int /\ After(cells, k) - 1 \in Int
  <2>1. PICK i \in 0 .. n - 1 : k = f[i]
    BY <1>4
  <2>2. f[i + 1] = After(cells, k) /\ f[i + 1] \in Int /\ k \in Int
    BY <1>3, <2>1 DEF Reads
  <2> QED
    BY <2>2
<1> DEFINE last(k) == After(cells, k) - 1
<1>6. AddressesOf(cells) = UNION {GoodAddresses(part(k + 3, last(k))) : k \in HeadsOf(cells)}
  BY DEF AddressesOf
<1>7. \A k \in HeadsOf(cells) : k + 3 \in Int /\ last(k) \in Int
  BY <1>5
<1> HIDE DEF part, last
<1> QED
  BY <1>1, <1>6, <1>7

-----------------------------------------------------------------------------
(* The collector of callstacks.                                              *)

Cells == Threads \cup Nat

(* The collector holds the stacks taken in since the last dump, one behind    *)
(* the other, and reads them back.                                           *)
StacksInv ==
    /\ callstacks \in PoolSet(ChunkSize, Cells) /\ stacks \in Seq(Seq(Cells))
    /\ Items(callstacks) = FlattenSeq(stacks) /\ Readable(Items(callstacks))
    /\ AddressesOf(Items(callstacks)) = UNION {AddressesOf(stacks[i]) : i \in DOMAIN stacks}
    /\ resolved = asked

(* Samples are only reported when the settings ask for them; then there is a  *)
(* symbol engine while the thread that takes them in runs, and as long as     *)
(* there are stacks.                                                         *)
EngineInv ==
    /\ mode \subseteq Settings /\ flags \subseteq Settings /\ engine \in {"null", "new"}
    /\ \A i \in DOMAIN buffers : buffers[i].type = "StackWalk" => "AUTOSAMPLING" \in flags
    /\ consumer = "running" /\ "AUTOSAMPLING" \in Settings => engine = "new"
    /\ stacks # << >> => engine = "new"

CallstacksInv == OwnerInv /\ StacksInv /\ EngineInv

(* Nothing is sampled at first.                                              *)
LEMMA CallstacksInit == Init => StacksInv /\ EngineInv
<1> SUFFICES ASSUME Init PROVE StacksInv /\ EngineInv
  OBVIOUS
<1>1. /\ callstacks = EmptyPool(ChunkSize) /\ stacks = << >> /\ resolved = {} /\ asked = {}
      /\ engine = "null" /\ mode = {} /\ flags = {} /\ buffers = << >> /\ consumer = "none"
  BY DEF Init
<1>2. ChunkSize \in Nat \ {0}
  BY TracerConstants
<1>3. callstacks \in PoolSet(ChunkSize, Cells) /\ Items(callstacks) = << >>
  BY <1>1, <1>2, EmptyPoolHolds
<1>4. Readable(Items(callstacks)) /\ AddressesOf(Items(callstacks)) = {}
  BY <1>3, NothingToRead
<1>5. FlattenSeq(stacks) = << >> /\ stacks \in Seq(Seq(Cells)) /\ DOMAIN stacks = {}
  BY <1>1, NothingFlat
<1>6. StacksInv
  BY <1>1, <1>3, <1>4, <1>5 DEF StacksInv
<1>7. EngineInv
  BY <1>1 DEF EngineInv
<1> QED
  BY <1>6, <1>7

(* A stack that is taken in comes behind the others.                         *)
LEMMA StackTaken ==
    ASSUME StacksInv, NEW thread \in Threads, NEW time \in Nat, NEW stack \in Seq(Nat),
           callstacks' = AddCallstack(callstacks, thread, time, Counted(stack)),
           stacks' = Append(stacks, Packed(thread, time, Counted(stack))),
           UNCHANGED <<resolved, asked>>
    PROVE  StacksInv'
<1> DEFINE counted == Counted(stack)  m == Len(stack) % 256
           more == Packed(thread, time, counted)  old == Items(callstacks)  new == Items(callstacks')
<1>1. counted \in Seq(Cells) /\ Len(counted) = m /\ m \in 0 .. 255
  <2> DEFINE n == Len(stack)
  <2>1. n \in Nat /\ stack \in [1 .. n -> Nat] /\ m = n % 256
    OBVIOUS
  <2>2. counted = SubSeq(stack, 1, m)
    BY DEF Counted
  <2> HIDE DEF n, m, counted
  <2>3. m \in 0 .. 255 /\ m <= n
    <3>1. m \in 0 .. 255 /\ n \div 256 \in Nat /\ n = (n \div 256) * 256 + m
      BY <2>1
    <3> QED
      BY <2>1, <3>1
  <2>4. 1 \in Int /\ m \in Int /\ \A i \in 1 .. m : i \in 1 .. n
    BY <2>1, <2>3
  <2>5. \A i \in 1 .. m : stack[i] \in Cells
    BY <2>1, <2>4 DEF Cells
  <2>6. SubSeq(stack, 1, m) \in Seq(Cells) /\ Len(SubSeq(stack, 1, m)) = IF 1 <= m THEN m - 1 + 1 ELSE 0
    BY <2>4, <2>5, SubSeqProperties
  <2>7. (IF 1 <= m THEN m - 1 + 1 ELSE 0) = m
    BY <2>3
  <2> QED
    BY <2>2, <2>3, <2>6, <2>7
<1> HIDE DEF counted, m
<1>2. thread \in Cells /\ time \in Cells /\ Len(counted) \in Cells
  BY <1>1 DEF Cells
<1>16. thread \in Cells
  BY <1>2
<1>17. time \in Cells
  BY <1>2
<1>18. Len(counted) \in Cells
  BY <1>2
<1>19. counted \in Seq(Cells)
  BY <1>1
<1>3. more \in Seq(Cells) /\ Len(more) = m + 3 /\ more[3] = m
  <2>1. /\ Packed(thread, time, counted) \in Seq(Cells)
        /\ Len(Packed(thread, time, counted)) = Len(counted) + 3
        /\ Packed(thread, time, counted)[3] = Len(counted)
    BY <1>16, <1>17, <1>18, <1>19, PackedCells, ZenonT(30)
  <2> QED
    BY <1>1, <2>1
<1>4. /\ callstacks \in PoolSet(ChunkSize, Cells) /\ stacks \in Seq(Seq(Cells))
      /\ old = FlattenSeq(stacks) /\ Readable(old)
      /\ AddressesOf(old) = UNION {AddressesOf(stacks[i]) : i \in DOMAIN stacks}
      /\ resolved' = asked'
  BY DEF StacksInv
<1>5. ChunkSize \in Nat \ {0}
  BY TracerConstants
<1>6. old \in Seq(Cells)
  BY <1>4, <1>5, PoolItems
<1>7. callstacks' = AddCallstack(callstacks, thread, time, counted) /\ stacks' = Append(stacks, more)
  BY DEF counted, more
<1>8. Appended(AddCallstack(callstacks, thread, time, counted), callstacks, ChunkSize, Cells,
               Packed(thread, time, counted))
  <2>1. callstacks \in PoolSet(ChunkSize, Cells)
    BY <1>4
  <2> QED
    BY <1>5, <1>16, <1>17, <1>18, <1>19, <2>1, CallstackAppends
<1>9. callstacks' \in PoolSet(ChunkSize, Cells) /\ new = old \o more
  BY <1>7, <1>8 DEF Appended
<1> HIDE DEF more, old, new
<1>10. FlattenSeq(stacks') = old \o more
  BY <1>3, <1>4, <1>7, FlattenAppend
<1>11. Readable(old \o more) /\ AddressesOf(old \o more) = AddressesOf(old) \cup AddressesOf(more)
  <2>1. Counts(more, m)
    BY <1>1, <1>3 DEF Counts
  <2>2. more \in Seq(Cells)
    BY <1>3
  <2>3. Readable(old)
    BY <1>4
  <2>4. ReadBoth(old, more)
    BY <1>6, <2>1, <2>2, <2>3, AddressesAppend
  <2> QED
    BY <2>4 DEF ReadBoth
<1>12. /\ stacks' \in Seq(Seq(Cells))
       /\ \A i \in DOMAIN stacks : i \in DOMAIN stacks' /\ stacks'[i] = stacks[i]
       /\ \A i \in DOMAIN stacks' : i \in DOMAIN stacks \/ i = Len(stacks) + 1
       /\ Len(stacks) + 1 \in DOMAIN stacks' /\ stacks'[Len(stacks) + 1] = more
  BY <1>3, <1>4, <1>7
<1> DEFINE all == {AddressesOf(stacks'[i]) : i \in DOMAIN stacks'}
           before == {AddressesOf(stacks[i]) : i \in DOMAIN stacks}
<1>13. all = before \cup {AddressesOf(more)}
  <2>1. \A i \in DOMAIN stacks : AddressesOf(stacks[i]) \in all
    BY <1>12
  <2>2. AddressesOf(more) \in all
    BY <1>12
  <2>3. ASSUME NEW i \in DOMAIN stacks' PROVE AddressesOf(stacks'[i]) \in before \cup {AddressesOf(more)}
    <3>1. CASE i \in DOMAIN stacks
      BY <1>12, <3>1
    <3>2. CASE i = Len(stacks) + 1
      BY <1>12, <3>2
    <3> QED
      BY <1>12, <3>1, <3>2
  <2> QED
    BY <2>1, <2>2, <2>3
<1>14. UNION all = AddressesOf(old) \cup AddressesOf(more)
  BY <1>4, <1>13
<1>15. Items(callstacks') = new
  BY DEF new
<1> QED
  BY <1>4, <1>9, <1>10, <1>11, <1>12, <1>14, <1>15 DEF StacksInv

(* A dump looks up what the stacks ask for, and empties the collector.       *)
LEMMA StacksDumped ==
    ASSUME StacksInv, EngineInv, Dump
    PROVE  StacksInv' /\ (stacks' # << >> => engine' = "new") /\ engine' \in {"null", "new"}
<1>1. CASE IsEmpty(callstacks) \/ ~WalkEnds(callstacks)
  BY <1>1 DEF Dump, StacksInv, EngineInv, symbols
<1>2. CASE ~IsEmpty(callstacks) /\ WalkEnds(callstacks)
  <2>1. /\ Resolve(AddressesOf(Items(callstacks))) /\ callstacks' = ClearPool(callstacks, FALSE)
        /\ stacks' = << >>
    BY <1>2 DEF Dump
  <2>2. ChunkSize \in Nat \ {0} /\ callstacks \in PoolSet(ChunkSize, Cells)
    BY TracerConstants DEF StacksInv
  <2>3. Items(callstacks) \in Seq(Cells) /\ callstacks.size = ChunkSize
    BY <2>2, PoolItems, PoolFields
  <2>4. callstacks' = EmptyPool(ChunkSize)
    BY <2>1, <2>3 DEF ClearPool
  <2>5. callstacks' \in PoolSet(ChunkSize, Cells) /\ Items(callstacks') = << >>
    BY <2>2, <2>4, EmptyPoolHolds
  <2>6. Readable(Items(callstacks')) /\ AddressesOf(Items(callstacks')) = {}
    BY <2>5, NothingToRead
  <2>7. FlattenSeq(stacks') = << >> /\ stacks' \in Seq(Seq(Cells)) /\ DOMAIN stacks' = {}
    BY <2>1, NothingFlat
  <2>8. 0 \notin AddressesOf(Items(callstacks))
    <3> DEFINE cells == Items(callstacks)
    <3>1. cells \in Seq(Cells) /\ Readable(cells)
      BY <2>3 DEF StacksInv
    <3> HIDE DEF cells
    <3>2. 0 \notin AddressesOf(cells)
      BY <3>1, AddressesGood
    <3> QED
      BY <3>2 DEF cells
  <2>9. resolved' = asked'
    <3>1. CASE stacks = << >>
      <4>1. asked' = {} /\ AddressesOf(Items(callstacks)) = {}
        BY <2>1, <3>1 DEF Resolve, StacksInv
      <4> QED
        BY <2>1, <4>1 DEF Resolve
    <3>2. CASE stacks # << >>
      <4>1. engine = "new"
        BY <3>2 DEF EngineInv
      <4>2. resolved' = AddressesOf(Items(callstacks)) \ {0}
        BY <2>1, <4>1 DEF Resolve, IsInitialized
      <4>3. asked' = AddressesOf(Items(callstacks))
        BY <2>1 DEF Resolve, StacksInv
      <4> QED
        BY <2>8, <4>2, <4>3
    <3> QED
      BY <3>1, <3>2
  <2>10. StacksInv'
    BY <2>5, <2>6, <2>7, <2>9 DEF StacksInv
  <2>11. engine' = "null"
    BY <1>2 DEF Dump
  <2> QED
    BY <2>1, <2>10, <2>11
<1> QED
  BY <1>1, <1>2

(* A report is a sample only if samples are asked for.                       *)
LEMMA EventSampled ==
    ASSUME OwnerInv, EngineInv, NEW r, NEW flag, Event(r, flag),
           r.type = "StackWalk" => flag = "AUTOSAMPLING"
    PROVE  EngineInv'
<1>1. /\ UNCHANGED <<flags, mode, consumer, engine, stacks>>
      /\ buffers' = IF session = "ours" /\ flag \in flags THEN Append(buffers, r) ELSE buffers
  BY DEF Event, control, collectors, symbols
<1>2. buffers \in Seq(Reports)
  BY DEF OwnerInv, TracerType
<1>3. ASSUME NEW i \in DOMAIN buffers', buffers'[i].type = "StackWalk" PROVE "AUTOSAMPLING" \in flags
  <2>1. CASE session = "ours" /\ flag \in flags
    <3>1. buffers' = Append(buffers, r)
      BY <1>1, <2>1
    <3>2. (i \in DOMAIN buffers /\ buffers'[i] = buffers[i]) \/ buffers'[i] = r
      BY <1>2, <1>3, <3>1
    <3> QED
      BY <1>3, <2>1, <3>2 DEF EngineInv
  <2>2. CASE ~(session = "ours" /\ flag \in flags)
    BY <1>1, <1>3, <2>2 DEF EngineInv
  <2> QED
    BY <2>1, <2>2
<1> QED
  BY <1>1, <1>3 DEF EngineInv

(* The kernel, which reports, leaves the collector alone.                    *)
LEMMA KernelSamples ==
    ASSUME OwnerInv, StacksInv, EngineInv,
           \/ \E c \in Cpus, t \in Own \cup Foreign : Switch(c, t)
           \/ \E c \in Cpus, type \in {"Enter", "Exit"} : SysCall(c, type)
           \/ \E c \in Cpus, stack \in Callstacks : Sample(c, stack)
           \/ \E t \in Late : ThreadStart(t)
           \/ OtherSession
    PROVE  StacksInv' /\ EngineInv'
<1>1. ASSUME NEW r, NEW flag, Event(r, flag), r.type = "StackWalk" => flag = "AUTOSAMPLING"
      PROVE  StacksInv' /\ EngineInv'
  <2>1. UNCHANGED <<callstacks, stacks, resolved, asked>>
    BY <1>1 DEF Event, collectors, symbols
  <2> QED
    BY <1>1, <2>1, EventSampled DEF StacksInv
<1>2. ASSUME NEW c \in Cpus, NEW t \in Own \cup Foreign, Switch(c, t) PROVE StacksInv' /\ EngineInv'
  <2> DEFINE r == [type |-> "CSwitch", cpu |-> c, old |-> running[c], new |-> t, time |-> events]
  <2>1. Event(r, "SWITCH_CONTEXT") /\ r.type # "StackWalk"
    BY <1>2 DEF Switch
  <2> HIDE DEF r
  <2> QED
    BY <1>1, <2>1
<1>3. ASSUME NEW c \in Cpus, NEW type \in {"Enter", "Exit"}, SysCall(c, type) PROVE StacksInv' /\ EngineInv'
  <2> DEFINE r == [type |-> type, cpu |-> c, maker |-> running[c], time |-> events]
  <2>1. Event(r, "SYS_CALLS") /\ r.type # "StackWalk"
    BY <1>3 DEF SysCall
  <2> HIDE DEF r
  <2> QED
    BY <1>1, <2>1
<1>4. ASSUME NEW c \in Cpus, NEW stack \in Callstacks, Sample(c, stack) PROVE StacksInv' /\ EngineInv'
  <2> DEFINE process == IF running[c] \in Own THEN ThisProcess ELSE INVALID_PROCESS_ID
             r == [type |-> "StackWalk", thread |-> running[c], stack |-> stack, time |-> events,
                   process |-> process]
  <2>1. Event(r, "AUTOSAMPLING")
    BY <1>4 DEF Sample
  <2> HIDE DEF r
  <2> QED
    BY <1>1, <2>1
<1>5. ASSUME NEW t \in Late, ThreadStart(t) PROVE StacksInv' /\ EngineInv'
  <2> DEFINE r == [type |-> "Start", thread |-> t, process |-> ThisProcess, time |-> events]
  <2>1. Event(r, "OTHER_PROCESSES") /\ r.type # "StackWalk"
    BY <1>5 DEF ThreadStart
  <2> HIDE DEF r
  <2> QED
    BY <1>1, <2>1
<1>6. CASE OtherSession
  BY <1>6 DEF OtherSession, control, collectors, symbols, StacksInv, EngineInv
<1> QED
  BY <1>2, <1>3, <1>4, <1>5, <1>6

(* The thread that updates dumps the collector when nothing fills it, and      *)
(* makes the engine before anything does.                                    *)
LEMMA ControlSamples ==
    ASSUME OwnerInv, StacksInv, EngineInv,
           \/ Activate \/ StartTrace \/ StartTraceAgain \/ StartTraceFails \/ SetUp \/ SetUpFails
           \/ StopTracer \/ Join \/ Cancelled \/ Dump
    PROVE  StacksInv' /\ EngineInv'
<1>1. CASE Dump
  <2>1. consumer = "none" /\ UNCHANGED <<consumer, mode, flags, buffers>>
    BY <1>1 DEF Dump, OwnerInv, ConsumerInv, kernel
  <2>2. StacksInv' /\ (stacks' # << >> => engine' = "new") /\ engine' \in {"null", "new"}
    BY <1>1, StacksDumped
  <2> QED
    BY <2>1, <2>2 DEF EngineInv
<1>2. CASE ~Dump
  <2>1. UNCHANGED <<callstacks, stacks, resolved, asked>>
    BY <1>2 DEF Activate, StartTrace, StartTraceAgain, StartTraceFails, SetUp, SetUpFails, Fails,
                StopTracer, Join, Cancelled, collectors, symbols
  <2>2. StacksInv'
    BY <2>1 DEF StacksInv
  <2>9. ASSUME mode' \subseteq Settings, UNCHANGED <<flags, buffers, engine>>,
               consumer' = "running" => consumer = "running"
        PROVE  EngineInv'
    BY <2>1, <2>9 DEF EngineInv
  <2>3. CASE StartTrace
    <3>1. consumer = "none"
      BY <2>3 DEF StartTrace, OwnerInv, ConsumerInv
    <3>2. flags' = mode /\ mode' = mode /\ engine' = engine /\ buffers' = << >> /\ consumer' = consumer
      BY <2>3 DEF StartTrace, symbols
    <3> QED
      BY <2>1, <2>2, <3>1, <3>2 DEF EngineInv
  <2>4. CASE SetUp
    <3>1. UNCHANGED <<flags, buffers, mode>>
      BY <2>4 DEF SetUp, kernel
    <3>2. engine' = IF "AUTOSAMPLING" \in Settings /\ engine = "null" THEN "new" ELSE engine
      BY <2>4 DEF SetUp
    <3>3. engine' \in {"null", "new"} /\ ("AUTOSAMPLING" \in Settings \/ engine = "new" => engine' = "new")
      BY <3>2 DEF EngineInv
    <3> QED
      BY <2>1, <2>2, <3>1, <3>3 DEF EngineInv
  <2>5. ASSUME Fails, UNCHANGED kernel, UNCHANGED buffers, pc \in {"start", "setup"} PROVE EngineInv'
    <3>1. consumer = "none" /\ consumer' = consumer
      BY <2>5 DEF OwnerInv, ConsumerInv, Fails
    <3>2. mode' \subseteq Settings /\ UNCHANGED <<flags, buffers>>
      BY <2>5 DEF Fails, Begin, EngineInv, kernel
    <3>3. engine' \in {"null", "new"} /\ (engine = "new" => engine' = "new")
      BY <2>5 DEF Fails, EngineInv
    <3> QED
      BY <2>1, <3>1, <3>2, <3>3 DEF EngineInv
  <2>6. CASE Activate
    <3>1. mode' = Settings /\ UNCHANGED <<flags, buffers, engine, consumer>>
      BY <2>6 DEF Activate, Begin, kernel, symbols
    <3> QED
      BY <2>2, <2>9, <3>1
  <2>7. CASE StartTraceAgain \/ StopTracer \/ Cancelled
    <3>1. UNCHANGED <<flags, buffers, engine, consumer, mode>>
      BY <2>7 DEF StartTraceAgain, StopTracer, Cancelled, kernel, symbols
    <3> QED
      BY <2>2, <2>9, <3>1 DEF EngineInv
  <2>8. CASE Join
    <3>1. UNCHANGED <<flags, buffers, engine, mode>> /\ consumer' # "running"
      BY <2>8 DEF Join, ThreadHasEnded, kernel, symbols
    <3> QED
      BY <2>2, <2>9, <3>1 DEF EngineInv
  <2> QED
    BY <1>2, <2>2, <2>3, <2>4, <2>5, <2>6, <2>7, <2>8 DEF StartTraceFails, SetUpFails
<1> QED
  BY <1>1, <1>2

(* The thread that takes in reports adds the stacks of samples.              *)
LEMMA ConsumerSamples ==
    ASSUME OwnerInv, StacksInv, EngineInv, OnRecordEvent
    PROVE  StacksInv' /\ EngineInv'
<1> DEFINE r == Head(buffers)
<1>1. /\ consumer = "running" /\ buffers # << >> /\ buffers' = Tail(buffers)
      /\ UNCHANGED <<flags, mode, consumer, engine, resolved, asked>>
      /\ OnCSwitch(r) \/ OnThreadStart(r) \/ OnStackWalk(r) \/ OnSysCallEnter(r) \/ OnSysCallExit(r)
  BY DEF OnRecordEvent, kernel, control, symbols
<1>2. /\ buffers \in Seq(Reports) /\ 1 \in DOMAIN buffers /\ r = buffers[1] /\ r \in Reports
      /\ \A i \in DOMAIN buffers' : i + 1 \in DOMAIN buffers /\ buffers'[i] = buffers[i + 1]
  BY <1>1 DEF OwnerInv, TracerType
<1> HIDE DEF r
<1>3. /\ mode' \subseteq Settings /\ flags' \subseteq Settings /\ engine' \in {"null", "new"}
      /\ \A i \in DOMAIN buffers' : buffers'[i].type = "StackWalk" => "AUTOSAMPLING" \in flags'
  BY <1>1, <1>2 DEF EngineInv
<1>4. CASE UNCHANGED <<callstacks, stacks>>
  BY <1>1, <1>3, <1>4 DEF StacksInv, EngineInv
<1>5. CASE ~UNCHANGED <<callstacks, stacks>>
  <2>1. OnStackWalk(r) /\ r.process = ThisProcess
    BY <1>1, <1>5, ZenonT(30) DEF OnCSwitch, OnThreadStart, OnSysCallEnter, OnSysCallExit, OnStackWalk
  <2>2. r.thread \in Threads /\ r.time \in Nat /\ r.stack \in Seq(Nat) /\ r.type = "StackWalk"
    BY <1>2, <2>1, TracerConstants DEF Reports, OnStackWalk
  <2>3. StacksInv'
    BY <1>1, <2>1, <2>2, StackTaken DEF OnStackWalk
  <2>4. engine' = "new"
    BY <1>1, <1>2, <2>2 DEF EngineInv
  <2> QED
    BY <1>3, <2>3, <2>4, SMTT(30) DEF EngineInv
<1> QED
  BY <1>4, <1>5

(* Every step of the system keeps the invariant.                             *)
LEMMA CallstacksNext == CallstacksInv /\ [Next]_vars => CallstacksInv'
<1> SUFFICES ASSUME CallstacksInv, [Next]_vars PROVE CallstacksInv'
  OBVIOUS
<1> USE DEF CallstacksInv
<1>1. OwnerInv'
  BY OwnerNext
<1>2. CASE ProcessTraceReturns
  BY <1>1, <1>2 DEF ProcessTraceReturns, kernel, control, collectors, symbols, StacksInv, EngineInv
<1>3. CASE UNCHANGED vars
  BY <1>1, <1>3 DEF vars, kernel, control, collectors, symbols, StacksInv, EngineInv
<1> QED
  BY <1>1, <1>2, <1>3, KernelSamples, ControlSamples, ConsumerSamples DEF Next

(* Whatever samples the kernel reports, how long their stacks are and however  *)
(* many cells a chunk has: CallstackCollector holds what was taken in, and     *)
(* every address SerializeSymbols should look up is looked up, in each capture *)
(* anew.                                                                     *)
THEOREM CallstacksAlwaysComplete == Spec => []CallstacksComplete
<1>1. Init => CallstacksInv
  BY OwnerInit, CallstacksInit DEF CallstacksInv
<1>2. CallstacksInv => CallstacksComplete
  BY DEF CallstacksInv, StacksInv, CallstacksComplete
<1> QED
  BY <1>1, <1>2, CallstacksNext, PTL DEF Spec

=============================================================================
