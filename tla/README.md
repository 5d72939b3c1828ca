# A TLA+ model of AGD-JobSystem

The repository is a small C++ job system: worker threads with a queue each, reference-counted
jobs with dependencies, a `main_runner` thread that builds a frame of jobs, waits for it and goes
round again, and a first thread that waits for a key to quit. The program is built with Optick, a
profiler that is compiled into it from `optick_src/`: it records what every thread does, starts a
capture in `main`, saves it at the end, and serves a client that may control it over the network.
This directory models both in TLA+, checks the models with TLC on small instances and proves
theorems about them with TLAPS.

## 1. The system

| Part | Code | State | Operations |
|---|---|---|---|
| Workers | `JobSystem.cpp:134-249` | `thread_id`, the local job pointer | `Worker`, `WaitForAvailableJobs`, `TryToWorkJob`, `GetJob`, `CanExecuteJob`, `StealJob`, `Execute`, `Finish` |
| Job queue | `JobQueue.h`, `JobQueue.cpp` | `deque` under `mutex`; a condition variable under another mutex | `Push`, `Pop`, `Steal`, `WaitForJob`, `NotifyOne`, `IsEmpty` (no caller) |
| Job | `JobQueue.h:35-62` | `queue`, `dependencyCount` (atomic), `dependents[13]` | construction, `~Job`, which releases the dependents |
| Client side of the job system | `JobSystem.cpp:76-132` | `jobsToDo` (atomic), `current_queue_index`, `stopped` (plain `bool`), a condition variable | `CreateJob`, `AddDependency`, `AddJob`, `WaitForAllJobs`, `JoinJobs`, `WakeAll` |
| Frame loop | `main.cpp:146-192`, `261-300` | `isRunning` (atomic, shared by everyone) | `UpdateParallel`, `UpdateSerial`, quitting |
| Start-up | `main.cpp:103-122`, `JobSystem.cpp:11-74` | the thread count, the vector `queues` | `ReadInput`, the constructor |
| Profiler core | `optick_core.cpp`, `optick.h` | `pendingState`, `currentState`, `currentMode`; the lists of threads and frames; a thread-local pointer per thread | `Core::Update`, `UpdateState`, `Activate`, `RegisterThread`, `UnRegisterThread`, `BeginFrame`, `EndFrame`, `DumpFrames`; `StartCapture`, `StopCapture`, `SaveCapture` |
| Recording | `optick_core.cpp`, `optick_core.h`, `optick_memory.h` | per thread: pools of events, tags, a stack of pushed events | `Event`, `Push`, `Pop`, `Add`, `Tag::Attach`, `CreateDescription` |
| Serialisation | `optick_core.cpp`, `optick_serialization.*` | the responses of one capture | `DumpSummary`, `DumpBoard`, `DumpEvents`, `DumpTags` |
| Compressor | `optick_miniz.cpp`, `ZLibCompressor` in `optick_server.cpp` | a window, a hash table, a code buffer, pending output | `SendStart`, `Send`, `SendFinish`, `mz_deflate` |
| Server | `optick_server.cpp`, `optick_message.cpp` | the accepted socket, a stream of bytes not read yet | `Server::Update`, `IMessage::Create`, `Apply` |
| Tracer | `optick_core.win.h` | the kernel's logger session, a consumer thread, collectors, `ETWRuntime` | `ETW::Start`, `ETW::Stop`, `OnRecordEvent`, symbol look-up |
| Measuring | `main.cpp:195-228` | | `MeasureAverageFrameTime`, compiled out |

How they interact:

* `main_runner` and the workers share `isRunning`, `jobsToDo`, the queues and the jobs.
  `main_runner` pushes on every queue in turn (`AddJob`); a worker pops, pushes and "steals" on
  its own queue only.
* A job is released by the destructors of its dependencies, which run on whatever worker executed
  them, decrement its counter and notify the queue it is in.
* There are two kinds of condition variable: one per queue, on which only the queue's worker
  sleeps, and one on which only `main_runner` sleeps in `WaitForAllJobs`. Every notification is
  sent without the mutex the sleeper holds while it evaluates its predicate.
* The vector `queues` is read by workers while the constructor still appends to it.
* Every job, frame and thread opens profiler scopes. A scope writes into its thread's storage
  through a thread-local pointer, without a lock. `Core::Update`, which `main_runner` calls once a
  frame and `main` at the start and the end, sets those pointers, and reads and frees the storages.
* Requests reach the profiler in one variable, `pendingState`, from `main` (start, stop, save) and
  from the client's commands, which `Server::Update` applies inside `Core::Update`.
* A dump writes responses, each of which goes through the compressor into the save callback. The
  tracer's consumer thread fills collectors that the same dump reads.

What makes it hard: the two steps between which a job is in no queue; the order "delete the job,
then count it off, then test the counter"; two atomic accesses of `~Job` to a job another worker
may run meanwhile; predicates that become true between their evaluation and the sleep; quitting at
any of these points. In the profiler: storages read and freed while other threads may still write
into them, threads that end during a capture, requests that overwrite each other, pools at the end
of a chunk, a compressor interrupted by full buffers in every loop, commands cut anywhere by the
network, and a kernel logger that belongs to nobody.

What must be right: a job runs once, after its dependencies; counters are exact; `WaitForAllJobs`
waits for everything and returns; quitting comes to an end. A capture holds every event of its
frames once, is written when nobody records, and its file can be read back.

## 2. The modules

| Module | What it is |
|---|---|
| `TaskGraph` | What the job system promises: tasks are created, wait for each other, run once. No threads, queues or counters. |
| `JobSystem` | The program: workers, queues, jobs, destructors, `main_runner`, quitting. |
| `TaskGraphRefinement` | The refinement mapping from `JobSystem` to `TaskGraph`. |
| `UpdateParallel` | `main.cpp` on top of `JobSystem`: `main_runner` follows the calls of `UpdateParallel`. |
| `Startup` | `ReadInput` and the constructor, with workers that read the vector while it grows. |
| `Profiler` | The profiler core with the threads of the program and a client: states, registration, frames, events, dumping. |
| `MemoryPool` | The chunked pool that holds events, frames, tags and callstacks. |
| `Capture` | One thread's recording in full, custom storages, and the responses of a dump. |
| `CaptureResponses` | A reader of the responses, and what they must say. |
| `DeflateBlock` | Huffman codes, run lengths and the bits of one deflate block. |
| `Deflate` | The level 1 compressor, `mz_deflate` and `ZLibCompressor` loop by loop. |
| `Inflate` | `mz_uncompress`. |
| `Server` | Clients, the network, the input stream and the messages. |
| `Tracer` | ETW: the kernel's logger, start and stop of a session, the consumer, the collectors. |
| `JobSystemProofs` | The inductive invariant of `JobSystem`, the reference counting, the refinement of `TaskGraph`, and the theorems that follow. |
| `StartupProofs` | Theorems about `Startup`. |
| `UpdateParallelProofs` | The frame script is a client of `JobSystem` and keeps the documented order. |
| `ProfilerProofs` | Theorems about `Profiler`: all its safety properties. |
| `ContainerLemmas` | Lemmas that several proofs use: induction up to a number, sequences joined to one, and that a `MemoryPool` holds what was added, in order. |
| `TracerProofs` | Theorems about `Tracer`: all its safety properties. |
| `CaptureProofs` | Theorems about `Capture`: what the buffers hold, and the board. |
| `ServerProofs` | Theorems about `Server`: all its safety properties, and that a password is decoded to what was encoded. |
| `MC...` | Instances for TLC. |

Definitions marked *Mutation* or *Mutant* are plausible bugs, kept beside the definition they
replace; each property is known to fail for one of them.

### JobSystem

One action is one step another thread can tell apart: an access to an atomic, a critical section,
a notification. `wpc[w]` is where worker `w` is, `mpc` where `main_runner` is:

| `wpc` | Code |
|---|---|
| `loop`, `avail`, `check`, `exit`, `done` | `Worker`: the loop test, the two tests of `stopped`, the notification after the loop |
| `pred`, `block`, `asleep` | `WaitForJob`: about to evaluate the predicate, decided to sleep, sleeping |
| `pop1`, `can1`, `repush1`, `pop2`, `can2`, `repush2` | the two calls of `TryToWorkJob`: `Pop`, `CanExecuteJob`, the `Push` of a blocked job |
| `rand`, `steal`, `restow` | `StealJob`: the random index, `Steal`, the `Push` on the own queue |
| `exec` | the job function runs |
| `dtor`, `dtorTest`, `dtorNotify` | `~Job`: the decrement, the second read of the counter, the notification |
| `dec`, `zero`, `notifyAll` | the rest of `Finish` |

| `mpc` | Code |
|---|---|
| `loop` | the frame loop's test of `isRunning` |
| `build`, `addQueue`, `addPush`, `addNotify` | the calls of `UpdateParallel`; `AddJob` after its increment, after `job->queue`, inside `Push` |
| `pred`, `block`, `asleep` | `WaitForAllJobs` |
| `stop`, `stopped`, `wake`, `join`, `done` | `JoinJobs` |

Decisions worth knowing:

* *The queue's mutex* needs no variable. A worker's critical section touches its own deque and
  could notify only itself, so it is one step; only `Push` by `main_runner` takes two (push, then
  notify) and holds the queue meanwhile (`Locked`).
* *A predicate with two reads* is one step: what is read second can only have changed in the
  direction that keeps the outcome explained by the first read.
* *`stopped`* is a plain `bool`: after the write a reader may still see `FALSE` (`StoppedReads`).
* *Freed memory.* When `~Job` reads a dependent that has been deleted, the value is arbitrary and
  the pointer read from it may be any queue, null or wild (`process = "crashed"`). The build can
  produce each of these, also when the memory has been given to another job.
* *Job functions* busy-wait: a job runs while `wpc = "exec"`.
* *The client* of `JobSystem` is open: any of `Jobs`, any dependency in `MayDepend`, any order of
  adding, under the rule of `JobSystem.h:18` that dependencies come before `AddJob`. Like
  `UpdateParallel` it adds every job it has created before it waits. An address is used for one job
  per frame; `FrameBarrier` is what makes using it again in the next frame harmless.

### UpdateParallel

`Script` is the list of calls of one `UpdateParallel`; `FrameCalls` writes them in the order of
`main.cpp:151-184`, for any number of simultaneous frames and particle jobs. Every step is one of
`JobSystem`.

### Startup

`ReadInput` returns 0 (no argument) or a positive `int`, ends with `exit(1)`, or lets
`std::out_of_range` escape. The constructor's choice is `ChooseThreadCount`, in unsigned
arithmetic of width `UIntMax`. `queues` is modelled by its size, its capacity and the allocation
that holds its elements; `GetQueue` loads the array's address and then the element.

### Profiler

The threads are `main`, `main_runner` and the workers; `pc[t]` is what a thread does next, named
after the call (`"StartUpdate"`, `"FrameUpdate"`, `"StopUpdate"` and `"SaveUpdate"` are the four
places that call `Core::Update`). `phase` is where the one thread that holds `coreLock` is inside
`Core::Update`: reading messages, deciding on the next state, activating, dumping, freeing.
`EventLoad`, `EventAdd`, `EventCheck`, `EventFinish` are the four accesses of an `Event`: the
thread-local pointer, the next slot of the storage it names, the pointer again, the slot that was
kept.

* A registration is an entry of its own: the runner has two, since its thread scope and the static
  one of `OPTICK_FRAME` both register it. `deleted` and the number of chunk lists a buffer has had
  (`chunks`) tell a live storage from a freed one; writing to a freed one is recorded in
  `strayWrites` and not pursued.
* The clock advances at frame boundaries only. Whether an event lies in the time slice of the frames
  depends on nothing finer, and an unfinished event's garbage may fall anywhere.
* The loop over the entries in `Activate` is one step under `threadsLock`; so are the two halves of
  `DumpFrames`, which also hold it.
* A dump starts with `DumpSummary`, whose walk over the frames reads through a null pointer when they
  fill the last chunk of their pool (`WalkEnds`; section 6). Then `phase` is `"crashed"`, and no thread takes
  another step. The size of a chunk, 128 in the code, is the constant `FrameChunk`.
* The tracer is in `Tracer`, the contents of storages in `Capture`. The state callback is left out: the
  program sets none.
* The client is any sequence of commands in `Scripts`; how commands get through is in `Server`.

### MemoryPool and Capture

A pool is a sequence of chunks, the current one and the index in it, as in `optick_memory.h`; chunks
kept for reuse and what they still hold are part of it. `Capture` uses it for everything a capture
records: one thread with scoped events, pushes, frames and tags, a custom storage, the board of
descriptions (which other threads extend at the same time), and attachments. `DumpSummary` and
`DumpRest` build the responses cell by cell (a cell is a number or a string), and a reader in
`CaptureResponses`, independent of the writer, decodes them for the properties. Sizes of chunks, the depth of the push
stack and the batch limit are constants. Not in it: frames of the GPU, fibers, the tables of threads
and modules in the board, and the values of tags other than which one they are. The board's number
is the number of captures.

### DeflateBlock, Inflate, Deflate

`DeflateBlock` is pure: code lengths from counts by the in-place minimum redundancy algorithm,
limited and made canonical, run-length encoded, and the bits of a block. `Inflate` is the
decompressor as a function from bytes to bytes, with its error states. `Deflate` is the machine:
one step is one iteration of a loop of `ZLibCompressor`, `mz_deflate` or `tdefl_compress_fast`, the
level the program uses. Buffer sizes are constants, so that small inputs reach every limit. Of two
paths only one is modelled, because the other has the same result: a block is always written to the
compressor's own buffer first, and a compressed block that does not fit is replaced before it is
written, not after. As a test of the translation, files `Deflate` produces were decompressed by an
unrelated zlib. Results that are used more than once are parameters of local operators.

### Server

A cell is a unit of the protocol (half a mark, a length, a type, a field, a character of a
password). A client's text is known when it connects and arrives cell by cell; `Receive` takes what
has arrived, as much as the buffer holds; `Apply` is one turn of the loop over `IMessage::Create`,
which finds a mark, waits for the rest, lets the factory read the fields and compares lengths. The
stream fails for good when something reads past its end, as a `stringstream` does. The program is brought
down (`pc = "terminated"`) in three ways. `OPTICK_VERIFY` traps on a type this version does not know
(`optick_message.cpp:90`), in every build and before it returns: a command of a later version, which the
clients may send, ends the program. A length of a password that makes no sense throws.
`OPTICK_FAILED`, when lengths do not agree, traps only in a debug build (`Debug`); the run is of a release
build, the proofs are of both. Binding,
listening and closing of sockets are left to the operating system.

### Tracer

The kernel is the environment: it switches threads on processors, reports what `flags` ask for, and
has one logger, which another program may stop or take at any time. `Begin` to `SetUp` are
`ETW::Start` with its retries and every failure, `Stop` and `Join` are `ETW::Stop`, and
`OnRecordEvent` is one report taken in by the consumer thread. The count of a stack is a `uint8`
(`Counted`): of a longer one the collector gets the inner addresses only. `Dump` is the tracer's part of
`Core::DumpFrames`. No report is lost, and none is made of threads that existed before the session.
`Resolve` models DbgHelp's rule that a process initialises it once, because the symbol engine is
freed without its destructor and the next capture initialises it again.

## 3. The runs

| Run | Instance | What it shows |
|---|---|---|
| `safety` | 2 workers, 3 jobs, every acyclic graph with at most 2 dependents a job | All invariants of the job system |
| `progress` | 4 jobs of a small `UpdateParallel` frame, 2 workers, fairness | Frames end and quitting ends, unless a thread goes to sleep on a stale predicate; `JobSystem` implements `TaskGraph`; after quitting nobody starts a second job |
| `default_frame` | the frame of `Settings.h` (8 jobs), 2 workers, until quitting | The documented order of the update functions |
| `startup` | `unsigned int` cut to 0..11, six hardware values, six arguments | Thread count, indices, what is read while the vector grows |
| `profiler` | 1 worker, 3 frames in chunks of 2, 2 events a thread, every two commands of a client or none | The capture of the program is complete, is written when nobody records, nothing is sent twice, and the program ends, unless it dumps a full last chunk of frames |
| `capture` | chunks of 2 and 3, 3 items, 2 captures, every nesting of 2 | What the client decodes is what was recorded |
| `deflate` | window 32, lookahead 12, 14 codes a block, output in pieces of 7 bytes, up to 3 of 5 chunks | The file decompresses to what was sent |
| `server` | 2 clients, 3 scripts, a buffer of 4 cells | Commands get through once and in order, up to one of a later version, at which the program ends |
| `tracer` | 2 threads and another program's, 1 processor, 4 kernel events, 2 captures, 1 foreign session | Collectors are dumped at rest and hold what was reported |

The other three runs each look for one disagreement between a comment and the code and find it
(section 6).

*Bounds.* Two workers give every pair of threads of the system: worker and worker (a destructor
against the owner of the dependent), worker and `main_runner`, and each with the user. Three jobs
on two queues put two jobs in one queue, which is what popping, pushing back and rotating are
about, and allow a job with two dependencies, a job with two dependents and a chain. Frames are
not bounded: the state of a frame returns to the state of the first. `Startup` needs
`unsigned int` only to be larger than the largest count of interest; its proof is for any width.
`BeforeQuit` keeps `default_frame` to the states before the user quits.

In `Profiler` workers never look at each other, so one of them, with the runner and `main`, gives every
pair; three frames let the static scope of `OPTICK_FRAME` register (in the second) and be recorded (in
the third); two commands are what it takes for one to overwrite the other before it was seen. With
chunks of 2 frames, captures of 1 and 3 frames are saved and one of 2 is not. In `Capture`, `Deflate`
and `Tracer` the chunks and buffers are as small as their code allows, so that few items cross every
boundary: chunks of 2 are entered, filled and reused; a push stack of 1 is exceeded; stored, static and
dynamic blocks, matches across the end of the ring, and output that has to be fetched several times
occur. `OutLimit` is the smallest that the largest block with its trailer fits, so `NoOverrun` is at its
boundary: with one less it fails. (That a dynamic block does not fit and is replaced by a static one,
which the code calls extremely unlikely, does not occur.) Two captures are what is needed to see
anything left of the first. One processor in `Tracer` is enough for a thread to be switched off within a
call; that processors do not disturb each other is proved, for any number. In `Server` the buffer is
smaller than a command, and every split of the text occurs.

*Fairness.* `main_runner` and each worker take a step whenever one is open to them (weak fairness:
the operating system runs every runnable thread, job functions return after a fixed time). `rand()`
draws an index other than the worker's own again and again when there is one (strong fairness of
`ForeignIndex`). Nothing is assumed of spurious wake-ups or of the user in `JobSystem`. Under the
standard's rules a mutex may be granted unfairly; here at most two threads want the same one and
`main_runner` takes a queue's mutex once per `AddJob`, so the worker gets it. In `Profiler` every
thread keeps running in the same way and the user quits at some time; a client owes nothing. In
`Tracer` the consumer and the thread that waits for it run. In `Deflate` a call that has begun goes
on; nobody has to make one. In `Server` the program calls `Update` in every frame. The last three
state weak fairness with the enabling condition written out, since it is simpler than the action.

*Deadlock* is not checked where the modelled part may simply stop: after start-up, when no capture,
client or kernel event is left.

## 4. The properties

Job system:

* `DependencyOrder`: while a function runs, the functions of all its dependencies have returned.
* `DependencyCountExact`: the atomic counter of every job is the number of `dependents` entries
  still to be released.
* `JobsToDoExact`: `jobsToDo` is the number of jobs added and not finished.
* `InOnePlace`: an unfinished job is in exactly one queue position or in the hands of one worker
  (`PlacesAt` lists a worker's places: positions of its deque, and 0 for its local pointer).
* `QueuePointerExact`: `Job::queue` is the queue a job is in, or whose worker holds it.
* `FrameBarrier`: when the frame loop goes round, nothing of the frame is left.
* `HangMeansStranded`: if nobody has a step left, somebody sleeps on a condition that holds.
* `ImplementsTaskGraph`: all of it together is the abstract task graph.
* `FrameEndsUnlessStale`, `QuitEndsUnlessStale`, `StopIsPrompt`: progress. `StaleBlock` names the
  one thing that breaks it, a predicate that is true when the thread goes to sleep.
* `DocumentedOrder`: the comments of `main.cpp:93-100`, for the default frame.
* `ThreadCountFits`, `IndexInRange`, `LoneWorkerReadsSafely`: start-up.

Profiler:

* `CaptureIsComplete`: without a client, when `main` comes to its end, the file holds every event of
  every thread, ended ones included, each under its own thread, and is closed.
* `NoEventTwice`: no event is in two dumps or under two threads, whatever a client asks for.
* `NoStrayWrite`: nothing is added to a deleted storage, and without a client nothing is finished in
  memory a dump has freed. (With one it is: a dump may come between the two halves of a scope.)
* `DumpsWhenStopped`: a running capture is stopped before it is serialised.
* `MainThreadIndex`: the forced index names the main thread's entry, in every board too.
* `Terminates`: the program ends once the user quits, whatever a client does, unless it crashes at a dump
  of frames that fill their last chunk.
* `EventsRecorded`, `EventsSent`, `RestSent`: the buffers hold the events of this capture, the client
  reads each finished one once and in order, and frames, tags and attachments once.
* `ScopeShape`: events sent together share a header that spans them; a frame ends its batch.
* `DescriptionsKnown`: every index that is sent is that of the right description on the board.
* `RoundTrip`, `WindowIntact`, `NoOverrun`, `Closes`: the compressor loses nothing, refers to nothing
  that was overwritten, writes no block over output that is pending, and finishes.
* `InOrder`, `AllApplied`, `BreaksOnlyAtLater`: unless a client is replaced within a command, commands are
  applied once and in order, all of them up to one of a later version; the stream does not fail; and
  nothing but such a command, once all before it are applied, brings the program down.
* `DumpIsQuiet`, `StopReturns`: nobody fills the collectors while they are dumped, and stopping
  never waits for ever.
* `SysCallOwner`, `CallstacksComplete`: a system call is recorded for its maker, and callstacks are
  read back as they were reported, by a dump that gets through.

## 5. What is proved

Every safety property of `JobSystem`, `UpdateParallel`, `Startup`, `Profiler`, `Tracer` and `Server` that
a run checks is proved as well, and of `Capture` what it says of recording.

### JobSystem, for any number of workers, jobs and dependencies

The only assumption is `ConstantsAssumption`: at least one worker, finitely many jobs, a null pointer
that is no job, dependencies between jobs, a positive bound on `dependents`. The number of frames is not
bounded.

`JobSystemProofs` proves first one invariant, `Inv`, with a lemma for each action. None of the
properties is inductive alone:

* `TypeInv` is `TypeOK` with counters in `Int`: that they stay natural is a consequence of counting.
* `HoldInv` ties a worker's place in the code to its local pointer and to the job's life and `queue`;
  `DequesInv` says the same of what a deque holds, each job once. Together they make every job's
  holder unique, because `queue[j]` has one value; only the freed job between `delete` and
  `jobsToDo--` has no `queue` left, for which there is `DecInv`.
* `JobsInv` is the converse: a job with a queue is in its deque, in its worker's hands or about to
  be pushed. This gives `InOnePlace`, and that nobody can sleep on an empty deque for good while
  jobs are left (`HangMeansStranded`).
* `AddInv` describes the job `AddJob` is working on between its three steps.
* `JobsToDoExact` is needed by `FrameBarrier`: the frame ends when the counter reads 0, so nothing
  may be left then; that nothing is *created* and not added either is `WaitInv`.
* `ControlInv`: nobody leaves before the quit, and `WakeAll`'s index stays in range.

`StopIsPrompt` is an action property: from `Inv`, by cases over every step of every thread.

It adds `DependencyCountExact`, `GraphInv` (freed jobs have no edges, destructors
start at the first dependent, arrays within `MaxDependents`) and `RunInv` (a job that runs or is
destroyed has count 0). The argument is about the set `Pending(j)` of entries still to be released:
`AddDependency` adds exactly one entry, an iteration of `~Job` removes exactly one, everything else
leaves it alone. `DependencyOrder` follows: a dependency that has not returned still has its entry,
so the count is not 0.

The refinement comes last: `CreateJob`, `AddDependency`, `job->queue = ...` in `AddJob`,
a successful `CanExecuteJob`, the return of a job function and the frame loop's test are the six
actions of `TaskGraph`, and every other step, the destructors included, is invisible. That a
job may start when its counter reads 0 uses `DependencyCountExact`; that the abstract frame may end
uses `FrameBarrier`. What holds of the task graph holds of the program through the mapping:
`AlwaysWaitsForUnfinished` says so of the abstract invariant, that a started task waits for nothing and
nobody waits for a finished one.

### UpdateParallel, for any script

`ScriptAssumption` says that the jobs and dependencies of the script are among `Jobs` and `MayDepend`.
`FrameIsJobSystem` shows that a call of the script is a step an open client may make, so every
theorem about `JobSystem` holds of `UpdateParallel`. `DocumentedOrderAlwaysKept` has the hypothesis
`Declares(Script)`: before it adds a job, a script has declared all that main.cpp's comments ask for.
TLC evaluates it for `UpdateParallelCalls` with up to 3 frames and 12 particle jobs (`FramesDeclare` in
`MCUpdateParallel`); the script is built by a fold, about which the provers cannot reason. The invariant
`FrameInv` follows a declaration through the frame: `CallsInv` says that after each call of
`AddDependency` the dependency has returned or still has its entry, `AddedInv` the same of everything
an added job needs. They are needed because the declarations are made while workers already run and
destroy jobs of the same frame. When a frame starts, `FrameBarrier` leaves nothing to be said of the
last one. A running job was added, so `DependencyOrder` gives the rest.

`AddDependencyNeverExits` has the hypothesis `HasRoom(Script)`: no job is asked to have more than
`MaxDependents` dependents. `RoomInv` counts: while a frame is built, a job has at most as many
dependents as calls so far gave it. TLC evaluates the hypothesis (`FramesHaveRoom`): `UpdateParallel` has
room exactly up to 12 particle jobs.

TLC checked every conjunct of `Inv` on the instance of the run `safety` before it was proved.

### Startup

`StartupProofs` proves `ThreadCountFits`, `IndexInRange` and `LoneWorkerReadsSafely` for every width
of `unsigned int` from 3 up, every hardware and every argument (`StartupAssumption`). The inductive
invariant `StartupInv` adds to the type invariant how `size` and `started` agree at each place of
the constructor's loop, that no worker has seen an allocation before it starts, and that
`thread_count` is the chosen one.

### Profiler, for any number of workers and any client

`ProfilerAssumption` says that a script is a sequence of commands and that the name of the file is not
the null pointer. The theorems hold for every number of workers and commands, every size of a chunk of
frames, and whatever `MaxFrames` and `MaxEvents` are. A dump that crashes (`WalkEnds`) leaves everything as it
was, and no step follows.

`DumpsWhenStopped` is an action property and needs an invariant, since a dump is several steps after
the decision to make it: `ModeInv` says that the mode agrees with the state, except between the two
assignments of `Activate` and `UpdateState`, and that the phases of a dump are only entered on the way
to the state `"DUMP"`, with recording off. `OthersKeepMode` shows that only the steps inside
`Core::Update` touch any of it, whatever the threads, the client and the clock do, so the proof has one
case for each of those (`ModeUpdate`).

The other theorems stand on `BaseInv`, which has four parts: the types (`TypeInv`, from which
`TypesAlwaysFit`); who creates and joins whom, and who holds `coreLock` (`ControlInv`); what `threads` may
hold: each entry once, the main thread's first until `Shutdown`, and only entries of threads that have
ended marked or deleted (`RegistryInv`); and that a thread records into an entry of its own
(`StorageInv`). On top of it:

* `MainThreadIndexAlwaysFits`: `BoardInv` says it of every board sent, and a board is made while the
  main thread's entry is registered.
* `NeverSendsTwice`: `IdsInv` says that an event is at one place of one buffer, or sent; that it is both
  only between the sending of a dump and the clearing of the buffers, during which it cannot be sent
  again.
* `NeverWritesAstray`: that an open event of an ended thread is never written is `StorageInv`. The other
  half of the property is about the program without a client: `QuietInv` says where the main thread is in
  each state, which it alone decides then, and `ChunkInv` that the memory an open event is in was not
  freed.
* `CaptureAlwaysComplete`, for the program without a client as well, is about the end of `main`, which a
  program that crashed at its dump does not reach. It has to follow an event from the
  begin of its scope to the file. `RecordInv`: a worker that records does so because its entry was
  registered, and it was created while the capture ran. `StartedInv` counts the events a thread
  has begun. Until the capture is sent, `FramesInv` says that frames are closed but for the last,
  `Filed` that every event begun is in the buffer of its thread, in order, and `TimedInv` that it began
  after the first frame and has ended before the last one does. `OutputInv` says that the file has all of it when there is one.

### Capture, for every size of a chunk, any depth of the push stack and any number of captures

The assumption is `CaptureConstants`; `MaxItems`, `MaxNesting`, `MaxTime` and `MaxCaptures` may be
anything. `EventsAlwaysRecorded` is about pointers: a scope keeps the address of its event, the push stack
those of the pushed ones, and whatever ends them writes there, long after other events were added.
`EventsRecorded` alone says nothing of these addresses. The invariant, `Inv`, does:

* The `n`-th item of a pool is always at the same place, `Place(s, n)`: in the chunk `n - 1` divided by
  the chunk's size, wherever the current chunk is, also when chunks of an earlier capture are filled
  again. `ReserveAppends` and `WriteReplaces` are the two facts: making room appends and leaves every
  other item in its place; writing at the place of an item replaces it and no other.
* `ScopesInv`: an open scope has the place of the event it began.
* `PushesInv`: of the open pushes the last `storage.index` belong to the running capture. Among those, as
  many as the stack is deep have an event, and the stack has its place at the same depth; those that
  are deeper, or older than the capture, have none. So a `Pop` finds the event of its own push, or
  counts down and finds none, as `PopEvent` does.
* `BuffersInv` and `FramesInv`: the buffers hold what was recorded. For the frames this is true also when
  no capture runs, since a new capture does not empty them: those of a cancelled one are still there,
  those of one that was sent are not.

When a capture starts, its buffers are emptied and the pushes that are open become older ones
(`StorageCleared`, `StartCaptureStep`); no scope is open then. `SitesAlwaysDescribed` is `BoardInv`:
descriptions are created under the lock of the board, and the index is the place, so it does not matter that
two threads may create one for the same site.

### Tracer, for any number of threads, processors, stacks, events and foreign sessions

The assumption is `TracerConstants`. The invariant is `OwnerInv`. For `DumpAlwaysQuiet` its part
`ConsumerInv` is enough: a consumer exists only while `isActive`, from a start that succeeded until
`Stop` has joined it, and `Dump` is reached after that. `SysCallAlwaysItsMakers` needs more, because
the consumer reads reports long after they were made and knows only what earlier reports told it.
`SwitchesInv` names, for each buffered report, what ran on the processors when it was made: what the
consumer knows agrees with the first, each switch leads from one to the next (`Leads`), and the last is
what runs now, as long as the session is ours. With `TimeInv`, reports come in the order of the events;
with `PointersDiffer`, an exit finds its own enter. After another program took the logger no
report is added, and those in the buffers still follow one another; with flags that ask for no
switches the consumer knows nothing of the processors, and records no system call.

`CallstacksAlwaysComplete` is about the collector's memory, for every size of a chunk and every stack,
also one longer than the `uint8` of its count can say. `StacksInv` has the property and what it takes to
keep it: the cells can be read back (`Readable`: callstacks lie one behind the other, and the count
of each is where `SerializeSymbols` looks for it), and what is read is what each stack for itself has.
Three groups of lemmas carry it.

* `PoolSet` is the pools of `MemoryPool` with elements of a set. `AddAppends` shows that `Add` appends to
  `Items`, in the chunk, in one that was kept or in a new one; `RoomAppends` the same of what is
  written in one piece after `TryAdd`; `CallstackAppends` that either way of `CallstackCollector::Add`
  appends the packed stack.
* `HeadsRead` and `AddressesAppend`: the loop over the cells finds the same callstacks as before, and the
  one that was added.
* `FlattenAppend` is about the history it is compared with.

The loops are recursive functions over an interval. The library's induction theorem is not usable here;
`StepsUpTo` does the induction for a set of numbers, with the well-foundedness of the natural
numbers, and each loop has a set of its own. `EngineInv` says that there is a symbol engine as long as
there are stacks: samples are reported only if the settings ask for them, and then `SetUp` has made
an engine before the consumer runs. So `resolved = asked` is not true by an empty set of symbols.

### Server, for any number of clients, any scripts and any buffer

`ServerScripts` says what a client may write: commands with any settings and any password, commands of a
later version, and cells of garbage. Two things are excluded. A cell of garbage is not half of a mark:
with one, what is behind it may be taken for a message, and then the code does lose commands. A password
is shorter than the length that makes no sense, which is what `Throws` stands for.

`AlwaysInv` is the inductive invariant. Neither property is inductive, because they say nothing about
the stream: what a frame will apply depends on what lies there. Its part `Whole` says it: unless a client left
in the middle of a command, the stream is good, and it holds the cells of some units `R` followed
by the beginning of one more (`Holds`); and the commands applied, with those in `R` behind them, are all the
commands that were read. `Reads` ties what was read to what was written, and says that clients are
accepted in turn. One step of the server is then a statement about `R`:

* *Receiving.* The cells that arrive complete the unit that was begun, and some more, and begin another
  one (`ReadMore`), wherever the network cuts them. When a client is replaced and nothing is torn, nothing
  was begun (`NothingPartial`).
* *Searching.* Whatever garbage comes first in `R` is skipped a cell at a time, and the search stops
  at the next command, also when only its mark, or not even that, has arrived (`OneSkipped`, `MarkFound`).
* *Taking a message.* If the first unit of `R` is a command, `Complete` sees that all of it is there,
  the factory reads exactly its cells, and what it makes is the command (`Takes` in `CommandTaken`); or
  its type is one the factory does not know, and the program ends there (`Refuses`). That is the only way
  it ends (`Stopped`): `fits` is true of every command that is whole, so `Debug` makes no difference. If `R`
  is empty, what is left is not complete, and the loop ends.

`InOrder` then follows for scripts with a command of a later version too: what was applied is a beginning of
the commands that were sent, and all of it is before the first of a later version (`LaterFirst`,
`AppliedFirst`). `BreaksOnlyAtLaterCommand` says that when the program has been brought down, exactly those
before it have been applied.

The lemmas below that are about sequences of any length: `FlattenSeq` of what is split at any place,
counting the units that end before a cell (`Counted`), and the base64. `PasswordRoundTrip` is a theorem
of its own: for every byte string, the decoder, which stops at the first character that is no letter,
finds as many letters as were encoded (`LetterCount`), and the three bytes of each group of four come
back (`BytesBack`), the shorter last group included, although the string has the padding and a null
character behind it. It is needed because `InOrder` compares the passwords.

### Only model-checked

* Liveness under fairness, which is outside the prover's reach: `FrameEndsUnlessStale`,
  `QuitEndsUnlessStale`, `Terminates`, `Closes`, `AllApplied`, `StopReturns`.
* What `Deflate` and `Inflate` compute (`RoundTrip`, `WindowIntact`, `NoOverrun`, and the types). They are
  recursive or reach operators on bits, which the provers cannot see, and their properties are
  inductions over data.
* The responses of `Capture`, read back (`EventsSent`, `ScopeShape`, `RestSent`, and of `DescriptionsKnown`
  what was sent): the reader is recursive.

## 6. Where the code and its comments disagree

With a run that finds a counterexample:

| Run | The code | What is said of it |
|---|---|---|
| `added_jobs_starve` | One worker never rotates its queue, and pops a blocked job for ever | `JobSystem.h:21` |
| `join_hangs` | `WakeAll` notifies without the mutex the worker holds while it evaluates its predicate, a worker misses it, and `JoinJobs` waits for ever | `JobSystem.h:15` |
| `full_chunk_walk` | The iterator of `MemoryPool` walks past the end of a pool whose last chunk is full, so a capture of a multiple of 128 frames is not saved | `optick.h:1049`, `optick.h:1052` |

The definitions below state what a comment or the code's own structure suggests, and do not hold. No
run checks them; TLC finds a behaviour when one is added to the configuration named:

| Definition | Add to | The code |
|---|---|---|
| `WaitForAllJobsReturns` | `Join.cfg`, in place of its property | `Finish` counts down and notifies without the mutex of `WaitForAllJobs`, `main_runner` misses it, and the frame never ends, although nobody quits (`JobSystem.cpp:246`, `JobSystem.h:23`) |
| `DependentExists` | `Safety.cfg` | `~Job` reads a dependent that may be deleted (`JobQueue.h:53-56`) |
| `StealsFromAnotherQueue` | `Safety.cfg` | `StealJob` takes from the worker's own queue (`JobSystem.cpp:196`) |
| `UnknownHardwareIsOneThread` | `Startup.cfg` | `0 - 1` wraps, so the `max` guards nothing (`JobSystem.cpp:14`) |
| `DesiredCountIsCapped` | `Startup.cfg` | Too large a count falls back to at most 3 (`main.cpp:42`, `JobSystem.cpp:57`) |
| `CleanQuit` | `Profiler.cfg` | The entry of the static scope in `OPTICK_FRAME` outlives `main_runner`, and `Activate` writes through its thread-local pointer (`optick_core.cpp:1941-1954`) |
| `OwnThreadsKnown` | `Tracer.cfg` | `currentProcessId` is compared (`optick_core.win.h:617`, `626`) and only ever reset to an invalid value |

More can be seen in the models: `Push` can miss a worker that is about to sleep in the same
way (`JobQueue.h:23`); with two or more workers `GetQueue` may read an element of the array that
`push_back` has just freed (`Wild` in `Startup`; `JobSystem.cpp:183`); and `ReadInput` lets
`std::out_of_range` escape for a number above `INT_MAX`, although `main.cpp:42` says that an unsigned
integer is accepted. In `Tracer` the end of a system call is matched by the processor and may end the call of
another thread (`optick_core.win.h:1092`). In `Profiler` a client's commands may bring a dump between the two
halves of a scope, whose event is then finished in memory the dump has freed (`strayWrites`; the second half
of `NoStrayWrite` is about the program without a client). In `Server` a command that is half read when
another client takes over spoils what that one sends (`Torn`, which the properties exclude), and a command of
a later version ends the program, although the line goes on to `return nullptr` (`optick_message.cpp:90`).

Met while reading and outside the models: the tests of a socket in `optick_server.cpp:149`, `173` and
`235` are the wrong way round, but whoever calls them ignores the result; and attachments and their summary are appended to without the lock a dump
holds.

## 7. Not modelled

* `MeasureAverageFrameTime` (compiled out) and the printing macros.
* `JobQueue::IsEmpty`, which nobody calls.
* A client that breaks the rule of `JobSystem.h:18`.
* The memory left at quit: jobs still queued and the queues are never freed.
* What follows when `UpdateParallel` has 13 particle jobs or more and the fourteenth dependent of
  `Collision` ends the process: `AddDependency` models the end, no run gets there.
* Fibers, GPU profilers and the C interface of Optick, which the program does not use, and the tracers
  of other platforms, which are not compiled.
* The rest of miniz: the compressor of the other levels, PNG, the helpers for memory and the
  streaming decompressor. The program compresses at one level and never decompresses.
* Listening, and sending outside a capture: the operating system does nearly all of it.
* Kernel reports that are lost, threads that existed before a session, and the names of processes and
  modules, which come from the Windows API as they are.
* The state callback, which the program does not set.

## 8. Plan

1. *Done:* the job system, its abstract specification and refinement, the frame script, start-up, and
   their proofs.
2. *Done:* the profiler: core, recording and serialisation, compressor, server, tracer, with the proofs
   of every safety property of `Profiler`, `Tracer` and `Server`, and of what `Capture` records.
3. *Left:* `JobQueue` with its two mutexes, one action per lock, access and notification, implementing
   an atomic deque: the lost wake-up at that grain.
4. *Left:* how many functions of a frame can run at once (`JobSystem.cpp:46` says three).
