------------------------------ MODULE Profiler ------------------------------
(***************************************************************************)
(* Optick's Core as main() uses it: the main thread starts a capture and   *)
(* later stops, saves and shuts down; the runner thread flips frames and   *)
(* runs Core::Update in each; runner and workers register themselves and   *)
(* write events into storages of their own through a thread-local pointer  *)
(* and without a lock, while Core::Update may dump and free the same       *)
(* storages for a client that sends commands over the network.             *)
(***************************************************************************)
EXTENDS Naturals, Sequences, FiniteSets, SequencesExt

CONSTANTS Workers,     \* the worker threads of the job system
          Scripts,     \* what a client may send: sequences of commands
          MaxFrames,   \* frames the runner may begin
          MaxEvents,   \* events a thread may record
          FrameChunk,  \* frames a chunk of FrameBuffer holds: 128
          None

Main == "main"
Runner == "runner"
Threads == {Main, Runner} \cup Workers

(* One ThreadEntry for each registration in the program: the workers, the  *)
(* main thread's scope and the two scopes of the runner.                   *)
Entries == {"MainThread", "Update", "Frame"} \cup Workers
ThreadOf(n) == CASE n = "MainThread" -> Main [] n \in {"Update", "Frame"} -> Runner [] OTHER -> n

(* What a client may ask for: to start with a limit of frames, to stop, to *)
(* cancel.                                                                 *)
Commands == [kind : {"Start", "Stop", "Cancel"}, limit : Nat]

ASSUME ProfilerAssumption ==
    /\ Workers \cap ({Main, Runner, "MainThread", "Update", "Frame"} \cup {None}) = {}
    /\ None \notin {Main, Runner, "MainThread", "Update", "Frame", "file"}
    /\ Scripts \subseteq Seq(Commands)
    /\ MaxFrames \in Nat /\ MaxEvents \in Nat /\ FrameChunk \in Nat \ {0}

States == {"START", "STOP", "DUMP", "CANCEL"}
Unwritten == 0         \* the finish time of an event in fresh memory
NoEvent == [entry |-> None, chunks |-> 0, at |-> 0]

VARIABLES
    pc,                      \* what each thread does next
    isRunning,               \* main's flag for the runner and the workers
    frameNumber,             \* frames[FrameType::CPU].m_FrameNumber
    clock,                   \* advanced by every frame boundary
    currentState, pendingState, currentMode,
    frameLimit,              \* settings.frameLimit; 0 is no limit
    coreLock,                \* who holds it
    phase, nextState,        \* where that thread is inside Core::Update, or "crashed"
    frames,                  \* frames[FrameType::CPU].m_Frames
    threads,                 \* the list of registered entries
    alive,                   \* entries with isAlive
    deleted,                 \* entries freed
    slot,                    \* the thread-local Core::storage
    buffer,                  \* each storage's event buffer
    seen,                    \* the storage pointer an Event function has loaded
    held,                    \* the EventData pointer of a thread's open Event
    started,                 \* events begun so far
    forcedMainThreadIndex,
    saveCb, file,            \* Server::saveCb and the file of SaveHelper
    dumps,                   \* the captures serialised so far
    script, received,        \* the client's commands and how many have arrived
    strayWrites              \* history: what was written after its death

session == <<currentState, pendingState, currentMode, frameLimit>>
updating == <<coreLock, phase, nextState>>
registry == <<threads, alive, deleted, slot>>
recording == <<seen, held, started>>
output == <<saveCb, file, dumps>>
client == <<script, received>>
timing == <<clock, frameNumber>>
vars == <<pc, isRunning, timing, session, updating, frames, registry, buffer,
          recording, forcedMainThreadIndex, output, client, strayWrites>>

Init ==
    /\ pc = [t \in Threads |-> IF t = Main THEN "StartCapture" ELSE "Unborn"]
    /\ isRunning = TRUE /\ clock = 1 /\ frameNumber = 0
    /\ currentState = "DUMP" /\ pendingState = "DUMP" /\ currentMode = "OFF"
    /\ frameLimit = 0
    /\ coreLock = None /\ phase = "idle" /\ nextState = "DUMP"
    /\ frames = << >> /\ threads = << >> /\ alive = {} /\ deleted = {}
    /\ slot = [t \in Threads |-> None]
    /\ buffer = [n \in Entries |-> [chunks |-> 0, size |-> 0, data |-> << >>]]
    /\ seen = [t \in Threads |-> None]
    /\ held = [t \in Threads |-> NoEvent]
    /\ started = [t \in Threads |-> 0]
    /\ forcedMainThreadIndex = 0
    /\ saveCb = None /\ file = "absent" /\ dumps = << >>
    /\ script \in Scripts /\ received = 0
    /\ strayWrites = {}

(* No thread takes a step any more once the process has crashed.           *)
Go(t, from, to) == phase # "crashed" /\ pc[t] = from /\ pc' = [pc EXCEPT ![t] = to]
Registered == {threads[i] : i \in DOMAIN threads}

(* The registered entries of S, in the order of the list.                  *)
Kept(S) ==
    LET places == {i \in DOMAIN threads : threads[i] \in S}
        place(k) == CHOOSE i \in places : Cardinality({j \in places : j <= i}) = k
    IN  [k \in 1 .. Cardinality(places) |-> threads[place(k)]]

ThreadsLocked == phase = "clear"    \* DumpFrames holds threadsLock

-----------------------------------------------------------------------------
(* Registration, under threadsLock.                                        *)

(* Mutation: the list holds threads instead of their entries. *)
RegisterByThread(t, n) ==
    /\ ~ThreadsLocked
    /\ threads' = Append(threads, t) /\ alive' = alive \cup {n}
    /\ slot' = IF currentMode = "OFF" THEN slot ELSE [slot EXCEPT ![t] = n]
    /\ UNCHANGED deleted

RegisterThread(t, n) ==
    /\ ~ThreadsLocked
    /\ IF n \in Registered
       THEN UNCHANGED <<threads, alive>>
       ELSE threads' = Append(threads, n) /\ alive' = alive \cup {n}
    /\ slot' = IF currentMode = "OFF" THEN slot ELSE [slot EXCEPT ![t] = n]
    /\ UNCHANGED deleted

(* Mutation: an ended thread's entry is deleted in any mode. *)
UnRegisterAtOnce(t) ==
    /\ ~ThreadsLocked
    /\ LET own == {n \in Registered \cap alive : ThreadOf(n) = t} IN
       /\ alive' = alive \ own /\ deleted' = deleted \cup own
       /\ threads' = Kept(Entries \ own)
    /\ UNCHANGED slot

(* The first entry of those given is deleted, or only marked while a       *)
(* capture may still need its events.                                      *)
Retire(own) ==
    LET it == Min(own) IN
    IF own = {} THEN UNCHANGED <<threads, alive, deleted>>
    ELSE /\ alive' = alive \ {threads[it]}
         /\ IF currentMode = "OFF"
            THEN threads' = RemoveAt(threads, it) /\ deleted' = deleted \cup {threads[it]}
            ELSE UNCHANGED <<threads, deleted>>

(* Mutation: any live entry will do. *)
UnRegisterFirst(t) == ~ThreadsLocked /\ Retire({i \in DOMAIN threads : threads[i] \in alive}) /\ UNCHANGED slot

UnRegisterThread(t) ==
    /\ ~ThreadsLocked
    /\ Retire({i \in DOMAIN threads : ThreadOf(threads[i]) = t /\ threads[i] \in alive})
    /\ UNCHANGED slot

IsRegistredThread(t) == \E n \in Registered : ThreadOf(n) = t

-----------------------------------------------------------------------------
(* Events.  Event::Start loads the thread-local pointer and then takes the *)
(* next slot of that storage; Event::Stop tests the pointer and then       *)
(* writes through the EventData pointer it kept.                           *)

EventLoad(t) ==
    /\ seen' = [seen EXCEPT ![t] = slot[t]]
    /\ held' = [held EXCEPT ![t] = NoEvent]
    /\ IF slot[t] = None THEN Go(t, "Event", "Inside") ELSE Go(t, "Event", "Add")
    /\ UNCHANGED <<isRunning, timing, session, updating, frames, registry, buffer, started,
                   forcedMainThreadIndex, output, client, strayWrites>>

(* A slot that was used before keeps its old finish time.                  *)
NextEvent(b, id) ==
    LET old == IF b.size < Len(b.data) THEN b.data[b.size + 1].finish ELSE Unwritten
        event == [id |-> id, start |-> clock, finish |-> old]
    IN  [b EXCEPT !.size = @ + 1,
                  !.data = IF b.size < Len(@) THEN [@ EXCEPT ![b.size + 1] = event]
                                              ELSE Append(@, event)]

EventAdd(t) ==
    LET n == seen[t] IN
    /\ Go(t, "Add", "Inside")
    /\ started' = [started EXCEPT ![t] = @ + 1]
    /\ IF n \in deleted
       THEN /\ strayWrites' = strayWrites \cup {"storage"}
            /\ UNCHANGED <<buffer, held>>
       ELSE /\ buffer' = [buffer EXCEPT ![n] = NextEvent(@, <<t, started[t]>>)]
            /\ held' = [held EXCEPT ![t] =
                          [entry |-> n, chunks |-> buffer[n].chunks, at |-> buffer[n].size + 1]]
            /\ UNCHANGED strayWrites
    /\ UNCHANGED <<isRunning, timing, session, updating, frames, registry, seen,
                   forcedMainThreadIndex, output, client>>

EventCheck(t) ==
    /\ IF held[t] = NoEvent \/ slot[t] = None THEN Go(t, "Inside", "Loop") ELSE Go(t, "Inside", "Finish")
    /\ UNCHANGED <<isRunning, timing, session, updating, frames, registry, buffer, recording,
                   forcedMainThreadIndex, output, client, strayWrites>>

EventFinish(t) ==
    LET e == held[t] IN
    /\ Go(t, "Finish", "Loop")
    /\ held' = [held EXCEPT ![t] = NoEvent]
    /\ IF e.chunks # buffer[e.entry].chunks
       THEN strayWrites' = strayWrites \cup {"chunk"} /\ UNCHANGED buffer
       ELSE buffer' = [buffer EXCEPT ![e.entry].data[e.at].finish = clock] /\ UNCHANGED strayWrites
    /\ UNCHANGED <<isRunning, timing, session, updating, frames, registry, seen, started,
                   forcedMainThreadIndex, output, client>>

-----------------------------------------------------------------------------
(* Frames, under coreLock.                                                 *)

EndFrame(t) ==
    /\ coreLock = None
    /\ clock' = clock + 1 /\ UNCHANGED frameNumber
    /\ frames' = IF currentMode = "OFF" \/ frames = << >> THEN frames
                 ELSE [frames EXCEPT ![Len(frames)].finish = clock]

BeginFrame(t) ==
    /\ coreLock = None
    /\ clock' = clock + 1 /\ frameNumber' = frameNumber + 1
    /\ frames' = IF currentMode = "OFF" THEN frames
                 ELSE Append(frames, [start |-> clock + 1, finish |-> clock + 1])

-----------------------------------------------------------------------------
(* Core::Update, one step for each decision, holding coreLock throughout.  *)

Updaters == {"StartUpdate", "FrameUpdate", "StopUpdate", "SaveUpdate"}

(* The frame limit of a client's capture asks for a dump.                  *)
UpdateEnter(t) ==
    /\ pc[t] \in Updaters /\ coreLock = None
    /\ coreLock' = t /\ phase' = "messages"
    /\ pendingState' = IF currentMode = "ON" /\ frameLimit > 0 /\ Len(frames) >= frameLimit
                       THEN "DUMP" ELSE pendingState
    /\ UNCHANGED <<pc, isRunning, timing, currentState, currentMode, frameLimit, nextState, frames,
                   registry, buffer, recording, forcedMainThreadIndex, output, client, strayWrites>>

(* Server::Update applies the messages that have arrived.                  *)
Apply(command) ==
    CASE command.kind = "Start" -> pendingState' = "START" /\ frameLimit' = command.limit
      [] command.kind = "Stop" -> pendingState' = "DUMP" /\ UNCHANGED frameLimit
      [] command.kind = "Cancel" -> pendingState' = "CANCEL" /\ UNCHANGED frameLimit

UpdateMessage ==
    /\ phase = "messages" /\ received < Len(script)
    /\ Apply(script[received + 1])
    /\ received' = received + 1
    /\ UNCHANGED <<pc, isRunning, timing, currentState, currentMode, updating, frames, registry, buffer,
                   recording, forcedMainThreadIndex, output, script, strayWrites>>

UpdateNoMore ==
    /\ phase = "messages"
    /\ phase' = "state"
    /\ UNCHANGED <<pc, isRunning, timing, session, coreLock, nextState, frames, registry, buffer,
                   recording, forcedMainThreadIndex, output, client, strayWrites>>

(* Mutation: a running capture is dumped as it is. *)
DumpAtOnce == pendingState
(* Mutation: a dump always asks for a stop first. *)
StopForever == IF pendingState = "DUMP" THEN "STOP" ELSE pendingState

(* A running capture is stopped before it is dumped.                       *)
Next_State == IF pendingState = "DUMP" /\ currentState = "START" THEN "STOP" ELSE pendingState
ModeOf(state) == IF state = "START" THEN "ON" ELSE "OFF"

UpdateState ==
    /\ phase = "state" /\ currentState # pendingState
    /\ nextState' = Next_State
    /\ IF Next_State = "DUMP"
       THEN phase' = "dump" /\ UNCHANGED <<currentMode, currentState>>
       ELSE IF ModeOf(Next_State) = currentMode
       THEN currentState' = Next_State /\ UNCHANGED <<phase, currentMode>>
       ELSE currentMode' = ModeOf(Next_State) /\ phase' = "activate" /\ UNCHANGED currentState
    /\ UNCHANGED <<pc, isRunning, timing, pendingState, frameLimit, coreLock, frames, registry, buffer,
                   recording, forcedMainThreadIndex, output, client, strayWrites>>

(* ThreadEntry::Activate for every entry, under threadsLock: live entries  *)
(* are rewound when a capture starts, and their threads' pointers are set. *)
Activate ==
    LET last(t) == Max({i \in DOMAIN threads : threads[i] \in alive /\ ThreadOf(threads[i]) = t})
        touched == {ThreadOf(n) : n \in alive \cap Registered}
    IN
    /\ phase = "activate"
    /\ slot' = [t \in Threads |-> IF t \notin touched THEN slot[t]
                                  ELSE IF currentMode = "OFF" THEN None ELSE threads[last(t)]]
    /\ buffer' = [n \in Entries |-> IF currentMode = "ON" /\ n \in alive \cap Registered
                                    THEN [buffer[n] EXCEPT !.size = 0] ELSE buffer[n]]
    /\ strayWrites' = IF \E t \in touched : pc[t] = "Done"
                      THEN strayWrites \cup {"thread local"} ELSE strayWrites
    /\ currentState' = nextState /\ phase' = "state"
    /\ UNCHANGED <<pc, isRunning, timing, pendingState, currentMode, frameLimit, coreLock, nextState, frames,
                   threads, alive, deleted, recording, forcedMainThreadIndex, output, client>>

(* DumpFrames, first half.  DumpSummary walks over the frames: when the     *)
(* last chunk of them is full, end() is a place the walk never comes to,    *)
(* and it reads through a null pointer.  Otherwise every event that lies    *)
(* inside the time slice of the frames is sent with the index of its thread *)
(* in the board; an unwritten finish time may fall anywhere.                *)
WalkEnds == frames = << >> \/ Len(frames) % FrameChunk # 0
Slice == [start |-> frames[1].start, finish |-> frames[Len(frames)].finish]

InSlice(e) == frames # << >> /\ Slice.start <= e.start /\ e.finish >= e.start /\ e.finish <= Slice.finish
Events(n) == {buffer[n].data[i] : i \in 1 .. buffer[n].size}
Unfinished == {e \in UNION {Events(n) : n \in Registered} : e.finish = Unwritten}

DumpFrames ==
    /\ phase = "dump"
    /\ IF threads = << >>
       THEN /\ phase' = "state" /\ currentState' = nextState
            /\ UNCHANGED <<dumps, file, saveCb>>
       ELSE IF ~WalkEnds
       THEN phase' = "crashed" /\ UNCHANGED <<currentState, output>>
       ELSE /\ phase' = "clear" /\ UNCHANGED <<currentState, saveCb, file>>
            /\ \E garbage \in SUBSET Unfinished :
                 dumps' = Append(dumps,
                   [to |-> saveCb,
                    board |-> threads,
                    main |-> forcedMainThreadIndex,
                    scopes |-> [i \in DOMAIN threads |->
                                  {e.id : e \in {x \in Events(threads[i]) : x \in garbage \/ InSlice(x)}}]])
    /\ UNCHANGED <<pc, isRunning, timing, pendingState, currentMode, frameLimit, coreLock, nextState, frames,
                   registry, buffer, recording, forcedMainThreadIndex, client, strayWrites>>

(* Mutation: the dumped events stay where they are. *)
KeepBuffers == buffer
FreeBuffers == [n \in Entries |->
    IF n \in Registered /\ buffer[n].size > 0
    THEN [chunks |-> buffer[n].chunks + 1, size |-> 0, data |-> << >>] ELSE buffer[n]]

(* Second half: the buffers that hold events are freed, the entries of     *)
(* ended threads are deleted, and SendFinish closes the file.              *)
ClearDumped ==
    /\ phase = "clear"
    /\ buffer' = FreeBuffers
    /\ threads' = Kept(alive)
    /\ deleted' = deleted \cup (Registered \ alive)
    /\ frames' = << >>
    /\ forcedMainThreadIndex' = 0
    /\ file' = IF saveCb = None THEN file ELSE "closed"
    /\ saveCb' = None
    /\ currentState' = nextState /\ phase' = "state"
    /\ UNCHANGED <<pc, isRunning, timing, pendingState, currentMode, frameLimit, coreLock, nextState,
                   alive, slot, recording, dumps, client, strayWrites>>

After(label) == CASE label = "StartUpdate" -> "StartFrame" [] label = "FrameUpdate" -> "BeginFrame"
                  [] label = "StopUpdate" -> "SaveCapture" [] label = "SaveUpdate" -> "Shutdown"

UpdateLeave ==
    /\ phase = "state" /\ currentState = pendingState
    /\ pc' = [pc EXCEPT ![coreLock] = After(@)]
    /\ coreLock' = None /\ phase' = "idle"
    /\ UNCHANGED <<isRunning, timing, session, nextState, frames, registry, buffer, recording,
                   forcedMainThreadIndex, output, client, strayWrites>>

Update == \/ \E t \in {Main, Runner} : UpdateEnter(t)
          \/ UpdateMessage \/ UpdateNoMore \/ UpdateState \/ Activate
          \/ DumpFrames \/ ClearDumped \/ UpdateLeave

-----------------------------------------------------------------------------
(* The main thread.                                                        *)

(* OPTICK_START_CAPTURE, up to the forced Update.                          *)
StartCapture ==
    /\ Go(Main, "StartCapture", "StartUpdate")
    /\ currentMode = "OFF"
    /\ frameLimit' = 0 /\ pendingState' = "START"
    /\ IF IsRegistredThread(Main) THEN UNCHANGED registry ELSE RegisterThread(Main, "MainThread")
    /\ UNCHANGED <<isRunning, timing, currentState, currentMode, updating, frames, buffer, recording,
                   forcedMainThreadIndex, output, client, strayWrites>>

StartFrame ==
    /\ Go(Main, "StartFrame", "Register")
    /\ forcedMainThreadIndex' = CHOOSE i \in DOMAIN threads : threads[i] = "MainThread"
    /\ BeginFrame(Main)
    /\ UNCHANGED <<isRunning, session, updating, registry, buffer, recording, output, client, strayWrites>>

MainRegister ==
    /\ Go(Main, "Register", "WaitForQuit")
    /\ RegisterThread(Main, "MainThread")
    /\ UNCHANGED <<isRunning, timing, session, updating, frames, buffer, recording,
                   forcedMainThreadIndex, output, client, strayWrites>>

Quit ==
    /\ Go(Main, "WaitForQuit", "Join")
    /\ isRunning' = FALSE
    /\ UNCHANGED <<timing, session, updating, frames, registry, buffer, recording,
                   forcedMainThreadIndex, output, client, strayWrites>>

MainJoin ==
    /\ pc[Runner] = "Done"
    /\ Go(Main, "Join", "StopCapture")
    /\ UNCHANGED <<isRunning, timing, session, updating, frames, registry, buffer, recording,
                   forcedMainThreadIndex, output, client, strayWrites>>

(* OPTICK_STOP_CAPTURE: nothing when no capture is running.                *)
StopCapture ==
    /\ IF currentMode = "OFF"
       THEN Go(Main, "StopCapture", "SaveCapture") /\ UNCHANGED <<pendingState, timing, frames>>
       ELSE Go(Main, "StopCapture", "StopUpdate") /\ pendingState' = "STOP" /\ EndFrame(Main)
    /\ UNCHANGED <<isRunning, currentState, currentMode, frameLimit, updating, registry, buffer, recording,
                   forcedMainThreadIndex, output, client, strayWrites>>

SaveCapture ==
    /\ Go(Main, "SaveCapture", "SaveUpdate")
    /\ file' = "open" /\ saveCb' = "file" /\ pendingState' = "DUMP"
    /\ UNCHANGED <<isRunning, timing, currentState, currentMode, frameLimit, updating, frames, registry, buffer,
                   recording, forcedMainThreadIndex, dumps, client, strayWrites>>

Shutdown ==
    /\ Go(Main, "Shutdown", "Unregister")
    /\ ~ThreadsLocked
    /\ deleted' = deleted \cup Registered /\ threads' = << >>
    /\ UNCHANGED <<isRunning, timing, session, updating, frames, alive, slot, buffer, recording,
                   forcedMainThreadIndex, output, client, strayWrites>>

(* Leaving main: the scopes "MainThread" and the static "Frame" end here.  *)
MainExit ==
    /\ Go(Main, "Unregister", "Done")
    /\ UnRegisterThread(Main)
    /\ UNCHANGED <<isRunning, timing, session, updating, frames, buffer, recording,
                   forcedMainThreadIndex, output, client, strayWrites>>

MainThread == \/ StartCapture \/ StartFrame \/ MainRegister \/ Quit \/ MainJoin
              \/ StopCapture \/ SaveCapture \/ Shutdown \/ MainExit

-----------------------------------------------------------------------------
(* The runner and the workers.                                             *)

Spawn ==
    /\ pc[Main] \in {"WaitForQuit", "Join"} /\ phase # "crashed"
    /\ pc[Runner] = "Unborn"
    /\ pc' = [t \in Threads |-> IF t = Main THEN pc[t] ELSE "Register"]
    /\ UNCHANGED <<isRunning, timing, session, updating, frames, registry, buffer, recording,
                   forcedMainThreadIndex, output, client, strayWrites>>

Register(t) ==
    /\ Go(t, "Register", "Loop")
    /\ RegisterThread(t, IF t = Runner THEN "Update" ELSE t)
    /\ UNCHANGED <<isRunning, timing, session, updating, frames, buffer, recording,
                   forcedMainThreadIndex, output, client, strayWrites>>

(* The first OPTICK_FRAME registers the runner again, as "Frame".          *)
FrameScope ==
    /\ isRunning /\ frameNumber < MaxFrames
    /\ Go(Runner, "Loop", "EndFrame")
    /\ IF frameNumber = 1 THEN RegisterThread(Runner, "Frame") ELSE UNCHANGED registry
    /\ UNCHANGED <<isRunning, timing, session, updating, frames, buffer, recording,
                   forcedMainThreadIndex, output, client, strayWrites>>

FrameEnd ==
    /\ Go(Runner, "EndFrame", "FrameUpdate")
    /\ EndFrame(Runner)
    /\ UNCHANGED <<isRunning, session, updating, registry, buffer, recording,
                   forcedMainThreadIndex, output, client, strayWrites>>

FrameBegin ==
    /\ Go(Runner, "BeginFrame", "Event")
    /\ BeginFrame(Runner)
    /\ UNCHANGED <<isRunning, session, updating, registry, buffer, recording,
                   forcedMainThreadIndex, output, client, strayWrites>>

(* A worker runs a function with an OPTICK_EVENT.                          *)
RunJob(t) ==
    /\ isRunning /\ started[t] < MaxEvents
    /\ Go(t, "Loop", "Event")
    /\ UNCHANGED <<isRunning, timing, session, updating, frames, registry, buffer, recording,
                   forcedMainThreadIndex, output, client, strayWrites>>

(* Mutation: the runner leaves the workers behind. *)
EndsUnjoined(t) == ~isRunning
MayEnd(t) == ~isRunning /\ (t = Runner => \A w \in Workers : pc[w] = "Done")

(* The end of a loop; the runner joins the workers before its scope ends.  *)
ThreadEnd(t) ==
    /\ MayEnd(t)
    /\ Go(t, "Loop", "Done")
    /\ UnRegisterThread(t)
    /\ UNCHANGED <<isRunning, timing, session, updating, frames, buffer, recording,
                   forcedMainThreadIndex, output, client, strayWrites>>

RunnerThread == FrameScope \/ FrameEnd \/ FrameBegin

Record(t) == EventLoad(t) \/ EventAdd(t) \/ EventCheck(t) \/ EventFinish(t)

Next == \/ MainThread \/ Update \/ Spawn \/ RunnerThread
        \/ \E w \in Workers : RunJob(w)
        \/ \E t \in Threads \ {Main} : Register(t) \/ Record(t) \/ ThreadEnd(t)
        \/ (pc[Main] = "Done" \/ phase = "crashed") /\ UNCHANGED vars

Fairness ==
    /\ WF_vars(MainThread) /\ WF_vars(Update) /\ WF_vars(Spawn) /\ WF_vars(RunnerThread)
    /\ \A w \in Workers : WF_vars(RunJob(w))
    /\ \A t \in Threads \ {Main} :
          WF_vars(Register(t)) /\ WF_vars(Record(t)) /\ WF_vars(ThreadEnd(t))

Spec == Init /\ [][Next]_vars /\ Fairness

-----------------------------------------------------------------------------
(* Properties.                                                             *)

Labels == {"StartCapture", "StartUpdate", "StartFrame", "Register", "WaitForQuit", "Join",
           "StopCapture", "StopUpdate", "SaveCapture", "SaveUpdate", "Shutdown", "Unregister",
           "Done", "Unborn", "Loop", "EndFrame", "FrameUpdate", "BeginFrame", "Event", "Add",
           "Inside", "Finish"}

TypeOK ==
    /\ pc \in [Threads -> Labels]
    /\ isRunning \in BOOLEAN
    /\ clock \in Nat /\ frameNumber \in Nat /\ frameLimit \in Nat
    /\ currentState \in States /\ pendingState \in States /\ nextState \in States
    /\ currentMode \in {"OFF", "ON"}
    /\ coreLock \in {None, Main, Runner}
    /\ phase \in {"idle", "messages", "state", "activate", "dump", "clear", "crashed"}
    /\ frames \in Seq([start : Nat, finish : Nat])
    /\ threads \in Seq(Entries)
    /\ alive \subseteq Entries /\ deleted \subseteq Entries
    /\ slot \in [Threads -> Entries \cup {None}] /\ seen \in [Threads -> Entries \cup {None}]
    /\ started \in [Threads -> Nat]
    /\ forcedMainThreadIndex \in Nat
    /\ saveCb \in {None, "file"} /\ file \in {"absent", "open", "closed"}
    /\ received \in 0 .. Len(script)
    /\ strayWrites \subseteq {"storage", "chunk", "thread local"}

(* The program alone, with no client connected, when it comes to its end,   *)
(* which it does unless the frames of the capture fill their last chunk:    *)
(* it has saved every event that any of its threads recorded, the ended     *)
(* ones included, each under its own thread, and closed the file.           *)
CaptureIsComplete ==
    script = << >> /\ pc[Main] = "Done" =>
        /\ file = "closed" /\ Len(dumps) = 1 /\ dumps[1].to = "file"
        /\ \A t \in Threads, k \in 0 .. MaxEvents + MaxFrames :
              k < started[t] <=> \E i \in DOMAIN dumps[1].board :
                                   /\ ThreadOf(dumps[1].board[i]) = t
                                   /\ <<t, k>> \in dumps[1].scopes[i]

(* No event is sent twice, whatever a client asks for and when.            *)
NoEventTwice ==
    \A d, e \in DOMAIN dumps : \A i \in DOMAIN dumps[d].scopes : \A j \in DOMAIN dumps[e].scopes :
        <<d, i>> # <<e, j>> => dumps[d].scopes[i] \cap dumps[e].scopes[j] = {}

(* Without a client no event is finished in memory a dump has freed, and   *)
(* none is ever added to a deleted storage.                                *)
NoStrayWrite ==
    /\ "storage" \notin strayWrites
    /\ script = << >> => "chunk" \notin strayWrites

(* The forced main thread index names the main thread's entry, and still   *)
(* does in every board that was sent with one.                             *)
MainThreadIndex ==
    /\ forcedMainThreadIndex > 0 /\ pc[Main] \notin {"Unregister", "Done"} =>
          threads[forcedMainThreadIndex] = "MainThread"
    /\ \A d \in DOMAIN dumps : dumps[d].main > 0 => dumps[d].board[dumps[d].main] = "MainThread"

(* A capture is dumped only after it was stopped: no storage is serialised *)
(* while the mode still lets threads fill it.                              *)
DumpsWhenStopped == [][dumps' # dumps => currentMode = "OFF" /\ currentState # "START"]_vars

(* The program ends once its user quits, client or not; it comes to the end *)
(* of main, unless a dump is asked for when the frames fill their last      *)
(* chunk.                                                                   *)
Terminates == <>(pc[Main] = "Done" \/ (phase = "crashed" /\ ~WalkEnds))

(* No thread-local of an ended thread is written.  It is not so: the static *)
(* scope of OPTICK_FRAME keeps the runner registered until main has ended.  *)
CleanQuit == "thread local" \notin strayWrites
=============================================================================
