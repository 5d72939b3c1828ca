------------------------------- MODULE Tracer --------------------------------
(***************************************************************************)
(* The tracer of a capture: the class ETW of optick_core.win.h, which runs   *)
(* the kernel's logger while a capture runs, the thread that takes in what   *)
(* the kernel reports, and the collectors Core::DumpFrames reads when the    *)
(* capture has stopped.                                                      *)
(*                                                                          *)
(* The kernel is the environment.  It has one logger for all programs, whose *)
(* session anyone may stop and start anew.  Its reports are buffered, and    *)
(* come in the order of the events; none is lost.                            *)
(***************************************************************************)
EXTENDS MemoryPool, FiniteSets, TLC, SequencesExt

CONSTANTS Registered,   \* threads that have registered before the capture
          Late,         \* threads of the program that start later
          Foreign,      \* threads of other programs, the idle thread for one
          Cpus,
          Settings,     \* settings.mode, the part for the tracer
          Callstacks,   \* stacks a sample may find; address 0 is a bad one
          ChunkSize,    \* cells of a chunk of callstacks: 32768
          MaxEvents,    \* bound: events in the kernel, which are also its clock
          MaxStarts,    \* bound: captures
          MaxOthers     \* bound: sessions other programs start

Modes == {"AUTOSAMPLING", "SWITCH_CONTEXT", "SYS_CALLS", "OTHER_PROCESSES"}
Own == Registered \cup Late

ASSUME TracerConstants ==
    /\ Registered \cap Late = {} /\ Own \cap Foreign = {} /\ Foreign # {}
    /\ Settings \subseteq Modes /\ Settings \ {"OTHER_PROCESSES"} # {}
    /\ Callstacks \subseteq Seq(Nat) /\ ChunkSize \in Nat \ {0}

VARIABLES session, flags,    \* the kernel's logger: "none", "ours" or "other"; what ours reports
          running, started,  \* the thread on each processor; late threads that have started
          events, others,    \* bounds
          buffers,           \* reports that are not taken in yet
          pc, tries, mode,   \* the thread that updates: Activate, ETW::Start and ETW::Stop
          starts, isActive,  \* captures so far; ETW::isActive
          consumer,          \* the thread of RunProcessTraceThreadFunction
          runtime,           \* ETWRuntime
          switchContexts, syscalls, callstacks, threadDescs,   \* the collectors
          engine, dbgHelp,   \* symbolEngine; whether DbgHelp is initialized for the process
          stacks,            \* history: stacks taken in since the last dump
          asked, resolved,   \* history: addresses of the stacks last dumped, and the ones with a symbol
          known              \* history: threads whose start this session has reported

kernel == <<session, flags, running, started, events, others>>
collectors == <<switchContexts, syscalls, callstacks, threadDescs, stacks>>
symbols == <<engine, dbgHelp, asked, resolved>>
control == <<pc, tries, mode, starts, isActive>>
tracing == <<runtime, known>>
vars == <<kernel, buffers, control, consumer, tracing, collectors, symbols>>

INVALID_THREAD_ID == "no thread"
INVALID_PROCESS_ID == "no process"
ThisProcess == "this process"
INVALID_TIMESTAMP == -1

Reset == [currentProcessId |-> INVALID_PROCESS_ID, activeCores |-> [c \in Cpus |-> INVALID_THREAD_ID],
          activeSyscalls |-> << >>, activeThreadsIDs |-> {}]

Init ==
    /\ session \in {"none", "other"} /\ flags = {} /\ running \in [Cpus -> Foreign]
    /\ started = {} /\ events = 0 /\ others = 0 /\ buffers = << >>
    /\ pc = "off" /\ tries = 0 /\ mode = {} /\ starts = 0 /\ isActive = FALSE /\ consumer = "none"
    /\ runtime = Reset
    /\ switchContexts = << >> /\ syscalls = << >> /\ callstacks = EmptyPool(ChunkSize)
    /\ threadDescs = << >> /\ engine = "null" /\ dbgHelp = FALSE /\ stacks = << >>
    /\ asked = {} /\ resolved = {} /\ known = {}

-----------------------------------------------------------------------------
(* The kernel.                                                              *)

Event(report, flag) ==
    /\ events < MaxEvents /\ events' = events + 1
    /\ buffers' = IF session = "ours" /\ flag \in flags THEN Append(buffers, report) ELSE buffers
    /\ UNCHANGED <<session, flags, others, control, consumer, tracing, collectors, symbols>>

Runnable == (Registered \cup started \cup Foreign) \ {running[c] : c \in Cpus}
Switch(c, t) ==
    /\ t \in Runnable \cup Foreign /\ t # running[c] /\ running' = [running EXCEPT ![c] = t]
    /\ Event([type |-> "CSwitch", cpu |-> c, old |-> running[c], new |-> t, time |-> events], "SWITCH_CONTEXT")
    /\ UNCHANGED started

ThreadStart(t) ==
    /\ t \in Late \ started /\ started' = started \cup {t}
    /\ Event([type |-> "Start", thread |-> t, process |-> ThisProcess, time |-> events], "OTHER_PROCESSES")
    /\ UNCHANGED running

\* A thread enters or leaves a system call.  The report does not name it.
SysCall(c, type) ==
    /\ Event([type |-> type, cpu |-> c, maker |-> running[c], time |-> events], "SYS_CALLS")
    /\ UNCHANGED <<running, started>>

Sample(c, stack) ==
    /\ Event([type |-> "StackWalk", thread |-> running[c], stack |-> stack, time |-> events,
              process |-> IF running[c] \in Own THEN ThisProcess ELSE INVALID_PROCESS_ID], "AUTOSAMPLING")
    /\ UNCHANGED <<running, started>>

\* Another program takes the logger, from us too.
OtherSession ==
    /\ others < MaxOthers /\ others' = others + 1 /\ session' = "other"
    /\ UNCHANGED <<flags, running, started, events, buffers, control, consumer, tracing, collectors, symbols>>

-----------------------------------------------------------------------------
(* ETW::Start.                                                              *)

\* A capture starts with mode m: the runtime is reset, the threads that are
\* registered are the active ones.
Begin(m) ==
    /\ pc' = "start" /\ tries' = 4 /\ mode' = m
    /\ runtime' = [Reset EXCEPT !.activeThreadsIDs = Registered] /\ known' = {}

Activate ==
    /\ pc = "off" /\ starts < MaxStarts /\ starts' = starts + 1
    /\ Begin(Settings)
    /\ UNCHANGED <<kernel, buffers, isActive, consumer, collectors, symbols>>

\* Start fails.  Activate tries again without samples, and goes on without a
\* tracer if that fails too.
Fails ==
    /\ IF "AUTOSAMPLING" \in mode THEN Begin(mode \ {"AUTOSAMPLING"}) /\ UNCHANGED engine
       ELSE /\ pc' = "on" /\ UNCHANGED <<tries, mode, tracing>>
            /\ engine' = IF "AUTOSAMPLING" \in Settings /\ engine = "null" THEN "new" ELSE engine
    /\ UNCHANGED <<starts, isActive, consumer, collectors, dbgHelp, asked, resolved>>

\* StartTrace, at most four times: a privilege is missing and asked for again;
\* there is a session, which is stopped; or access is denied, or it fails.
StartTrace ==
    /\ pc = "start" /\ tries > 0 /\ session = "none"
    /\ session' = "ours" /\ flags' = mode /\ pc' = "setup" /\ tries' = 0 /\ buffers' = << >>
    /\ UNCHANGED <<running, started, events, others, mode, starts, isActive, consumer, tracing, collectors,
                   symbols>>

StartTraceAgain ==
    /\ pc = "start" /\ tries > 0 /\ tries' = tries - 1
    /\ session' \in {session, "none"}
    /\ UNCHANGED <<flags, running, started, events, others, buffers, pc, mode, starts, isActive, consumer,
                   tracing, collectors, symbols>>

StartTraceFails ==
    /\ pc = "start"
    /\ Fails /\ UNCHANGED <<kernel, buffers>>

\* The stack information and the log file: when one of them fails the session
\* stays.  Otherwise the thread is created.
SetUpFails == pc = "setup" /\ Fails /\ UNCHANGED <<kernel, buffers>>
SetUp ==
    /\ pc = "setup" /\ pc' = "on" /\ isActive' = TRUE /\ consumer' = "running"
    /\ threadDescs' = Append(threadDescs, "[Optick] ETW")
    /\ engine' = IF "AUTOSAMPLING" \in Settings /\ engine = "null" THEN "new" ELSE engine
    /\ UNCHANGED <<kernel, buffers, tries, mode, starts, tracing, switchContexts, syscalls, callstacks,
                   stacks, dbgHelp, asked, resolved>>

-----------------------------------------------------------------------------
(* ETW::Stop and the destructor.                                            *)

\* Mutant of Stop: the thread is not told to end.
StopClosesOnly ==
    /\ pc' = IF isActive THEN "join" ELSE "stopped"
    /\ UNCHANGED <<session, isActive>>
\* ControlTrace and CloseTrace, unless Start has failed.
Stop ==
    /\ pc' = IF isActive THEN "join" ELSE "stopped"
    /\ session' = IF isActive THEN "none" ELSE session
    /\ UNCHANGED isActive

StopTracer ==
    /\ pc = "on" /\ Stop
    /\ UNCHANGED <<flags, running, started, events, others, buffers, tries, mode, starts, consumer, tracing,
                   collectors, symbols>>

\* WaitForSingleObject.
\* Mutant of ThreadHasEnded: it is not waited for.
Unjoined == TRUE
ThreadHasEnded == consumer = "done"
Join ==
    /\ pc = "join" /\ ThreadHasEnded /\ pc' = "stopped" /\ isActive' = FALSE
    /\ consumer' = IF consumer = "done" THEN "none" ELSE consumer
    /\ runtime' = [runtime EXCEPT !.activeThreadsIDs = {}]
    /\ UNCHANGED <<kernel, buffers, tries, mode, starts, known, collectors, symbols>>

\* A capture that is cancelled leaves what was collected.
Cancelled ==
    /\ pc = "stopped" /\ pc' = "off"
    /\ UNCHANGED <<kernel, buffers, tries, mode, starts, isActive, consumer, tracing, collectors, symbols>>

-----------------------------------------------------------------------------
(* The thread that takes in the reports.                                    *)

\* The switch of a processor to another thread.
\* Mutant of Tracked: a processor is never given up.
NeverGivenUp(r) ==
    IF r.new \in runtime.activeThreadsIDs THEN [runtime.activeCores EXCEPT ![r.cpu] = r.new]
    ELSE runtime.activeCores
Tracked(r) ==
    IF r.new \in runtime.activeThreadsIDs THEN [runtime.activeCores EXCEPT ![r.cpu] = r.new]
    ELSE IF r.old \in runtime.activeThreadsIDs
    THEN [runtime.activeCores EXCEPT ![r.cpu] = INVALID_THREAD_ID]
    ELSE runtime.activeCores

OnCSwitch(r) ==
    /\ r.type = "CSwitch"
    /\ switchContexts' = Append(switchContexts, [timestamp |-> r.time, cpuId |-> r.cpu, oldThreadId |-> r.old,
                                                 newThreadId |-> r.new])
    /\ runtime' = [runtime EXCEPT !.activeCores = Tracked(r)]
    /\ UNCHANGED <<known, syscalls, callstacks, threadDescs, stacks>>

OnThreadStart(r) ==
    /\ r.type = "Start" /\ threadDescs' = Append(threadDescs, r.thread)
    /\ runtime' = [runtime EXCEPT !.activeThreadsIDs =
                       IF r.process = runtime.currentProcessId THEN @ \cup {r.thread} ELSE @]
    /\ known' = known \cup {r.thread}
    /\ UNCHANGED <<switchContexts, syscalls, callstacks, stacks>>

\* CallstackCollector::Add: thread, time, count and the addresses, outermost
\* first, in one piece if the chunk has room for it.
\* Mutant of RoomNeeded: the count itself is forgotten.
RoomForTwo(count) == count + 2
RoomNeeded(count) == count + 3
Packed(thread, time, stack) == <<thread, time, Len(stack)>> \o Reverse(stack)
WriteEach(p, cells) ==
    [p EXCEPT !.chunks[p.chunk] = [i \in 1 .. p.size |-> IF i - p.index \in DOMAIN cells
                                                         THEN cells[i - p.index] ELSE @[i]]]
AddEach(p, cells) ==
    LET added[k \in 0 .. Len(cells)] == IF k = 0 THEN p ELSE Add(added[k - 1], cells[k])
    IN  added[Len(cells)]
AddCallstack(p, thread, time, stack) ==
    LET cells == Packed(thread, time, stack)
        room == RoomNeeded(Len(stack))
    IN  IF HasRoom(p, room) THEN [WriteEach(p, cells) EXCEPT !.index = @ + room] ELSE AddEach(p, cells)

\* The count is a uint8, which of a longer stack takes the inner addresses only.
Counted(stack) == SubSeq(stack, 1, Len(stack) % 256)

OnStackWalk(r) ==
    /\ r.type = "StackWalk"
    /\ IF r.process = ThisProcess
       THEN /\ callstacks' = AddCallstack(callstacks, r.thread, r.time, Counted(r.stack))
            /\ stacks' = Append(stacks, Packed(r.thread, r.time, Counted(r.stack)))
       ELSE UNCHANGED <<callstacks, stacks>>
    /\ UNCHANGED <<tracing, switchContexts, syscalls, threadDescs>>

\* A system call belongs to the thread that is on the processor, if it is one
\* of ours.  Its end ends the last one that has begun on the processor.
OnSysCallEnter(r) ==
    /\ r.type = "Enter"
    /\ LET t == runtime.activeCores[r.cpu]
       IN  IF t = INVALID_THREAD_ID THEN UNCHANGED <<syscalls, runtime>>
           ELSE /\ syscalls' = Append(syscalls, [start |-> r.time, finish |-> INVALID_TIMESTAMP,
                                                 threadID |-> t, maker |-> r.maker])
                /\ runtime' = [runtime EXCEPT !.activeSyscalls = Append(@, <<r.cpu, Len(syscalls) + 1>>)]
    /\ UNCHANGED <<known, switchContexts, callstacks, threadDescs, stacks>>

OnSysCallExit(r) ==
    /\ r.type = "Exit"
    /\ LET here == {i \in DOMAIN runtime.activeSyscalls : runtime.activeSyscalls[i][1] = r.cpu}
           i == Max(here)
       IN  IF runtime.activeCores[r.cpu] = INVALID_THREAD_ID \/ here = {}
           THEN UNCHANGED <<syscalls, runtime>>
           ELSE /\ syscalls' = [syscalls EXCEPT ![runtime.activeSyscalls[i][2]].finish = r.time]
                /\ runtime' = [runtime EXCEPT !.activeSyscalls = RemoveAt(@, i)]
    /\ UNCHANGED <<known, switchContexts, callstacks, threadDescs, stacks>>

OnRecordEvent ==
    /\ consumer = "running" /\ buffers # << >> /\ buffers' = Tail(buffers)
    /\ LET r == Head(buffers)
       IN  OnCSwitch(r) \/ OnThreadStart(r) \/ OnStackWalk(r) \/ OnSysCallEnter(r) \/ OnSysCallExit(r)
    /\ UNCHANGED <<kernel, control, consumer, symbols>>

\* ProcessTrace returns when the session has ended and its buffers are empty.
ProcessTraceReturns ==
    /\ consumer = "running" /\ session # "ours" /\ buffers = << >> /\ consumer' = "done"
    /\ UNCHANGED <<kernel, buffers, control, tracing, collectors, symbols>>

-----------------------------------------------------------------------------
(* The tracer's part of DumpFrames.                                         *)

\* SerializeSymbols reads the callstacks one after the other: the addresses of
\* each, up to a bad one.
After(cells, k) == k + 3 + (cells[k + 2] % 256)
HeadsOf(cells) ==
    LET head[i \in 0 .. Len(cells)] ==
            IF i = 0 THEN 1
            ELSE LET k == head[i - 1] IN IF k > Len(cells) THEN k ELSE After(cells, k)
    IN  {head[i] : i \in 0 .. Len(cells)} \cap DOMAIN cells
GoodAddresses(stack) == {stack[i] : i \in {k \in DOMAIN stack : \A j \in 1 .. k : stack[j] # 0}}
AddressesOf(cells) ==
    UNION {GoodAddresses(SubSeq(cells, k + 3, After(cells, k) - 1)) : k \in HeadsOf(cells)}

\* WinSymbolEngine::GetSymbol and Init.  SymInitialize fails when DbgHelp is
\* initialized for the process already: the last engine was freed without its
\* destructor.  DbgHelp is cleaned up then and initialized again.
\* Mutant of IsInitialized: it is not tried again.
InitOnce(d) == ~d
IsInitialized(d) == TRUE

Resolve(addresses) ==
    /\ dbgHelp' = IF engine = "new" THEN IsInitialized(dbgHelp) ELSE dbgHelp
    /\ resolved' = IF engine = "new" /\ IsInitialized(dbgHelp) THEN addresses \ {0} ELSE {}
    /\ asked' = UNION {AddressesOf(stacks[i]) : i \in DOMAIN stacks}

\* The loop over the callstacks does not end when their last chunk is full.
Dump ==
    /\ pc = "stopped"
    /\ switchContexts' = << >> /\ syscalls' = << >> /\ threadDescs' = << >>
    /\ IF IsEmpty(callstacks)
       THEN pc' = "off" /\ UNCHANGED <<callstacks, stacks, symbols>>
       ELSE IF WalkEnds(callstacks)
       THEN /\ pc' = "off" /\ Resolve(AddressesOf(Items(callstacks))) /\ engine' = "null"
            /\ callstacks' = ClearPool(callstacks, FALSE) /\ stacks' = << >>
       ELSE pc' = "crashed" /\ UNCHANGED <<callstacks, stacks, symbols>>
    /\ UNCHANGED <<kernel, buffers, tries, mode, starts, isActive, consumer, tracing>>

Next ==
    \/ \E c \in Cpus, t \in Own \cup Foreign : Switch(c, t)
    \/ \E c \in Cpus, type \in {"Enter", "Exit"} : SysCall(c, type)
    \/ \E c \in Cpus, stack \in Callstacks : Sample(c, stack)
    \/ \E t \in Late : ThreadStart(t)
    \/ OtherSession
    \/ Activate \/ StartTrace \/ StartTraceAgain \/ StartTraceFails \/ SetUp \/ SetUpFails
    \/ StopTracer \/ Join \/ Cancelled \/ Dump
    \/ OnRecordEvent \/ ProcessTraceReturns

Spec == Init /\ [][Next]_vars

\* Both threads of the program run: weak fairness of the consumer and of Join,
\* with the conditions under which they have a step written out.
MayConsume == consumer = "running" /\ (buffers # << >> \/ session # "ours")
MayJoin == pc = "join" /\ ThreadHasEnded
FairSpec ==
    /\ Spec
    /\ []<>~MayConsume \/ []<><<OnRecordEvent \/ ProcessTraceReturns>>_vars
    /\ []<>~MayJoin \/ []<><<Join>>_vars

-----------------------------------------------------------------------------
(* Properties.                                                              *)

\* The collectors have no lock.  When the tracer has stopped, and Core dumps and
\* clears them, the thread that fills them is gone, whatever happened in Start.
DumpIsQuiet == pc \in {"stopped", "crashed"} => consumer # "running" /\ ~isActive

\* A system call is recorded for the thread that makes it, although the report
\* does not name it, and ends after it has begun.  The pointers to the unfinished
\* ones, which go into the collector's memory, all point to such records.
SysCallOwner ==
    /\ \A i \in DOMAIN syscalls :
          /\ syscalls[i].threadID = syscalls[i].maker
          /\ syscalls[i].finish # INVALID_TIMESTAMP => syscalls[i].finish > syscalls[i].start
    /\ consumer = "running" =>
          \A i \in DOMAIN runtime.activeSyscalls :
             LET pointer == runtime.activeSyscalls[i][2]
             IN  pointer \in DOMAIN syscalls /\ syscalls[pointer].finish = INVALID_TIMESTAMP

\* However the callstacks are split over chunks, the collector holds the samples
\* taken in, one behind the other, and every good address of a stack that was
\* dumped had its symbol looked up, in each capture anew.
CallstacksComplete == Items(callstacks) = FlattenSeq(stacks) /\ resolved = asked

\* ETW::Stop returns: the thread it waits for takes in what is left and ends,
\* although other programs take the logger at any time.
StopReturns == pc = "join" ~> pc = "stopped"

\* The program's threads that start during a capture are taken in as its own, as
\* ETWRuntime::currentProcessId has it.  It is not so.
OwnThreadsKnown == consumer = "running" => known \subseteq runtime.activeThreadsIDs

=============================================================================
