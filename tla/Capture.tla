------------------------------- MODULE Capture -------------------------------
(***************************************************************************)
(* What a capture holds and how it is sent: the EventStorage a thread       *)
(* writes its events and tags to, the frames, the board of descriptions,    *)
(* the summary, and Core::DumpFrames of optick_core.cpp, which turns them   *)
(* into responses.  All of it is kept in MemoryPools.                       *)
(*                                                                          *)
(* One thread records here, the one that has the frames; a second storage   *)
(* is written directly, as custom storages are.  What threads do to each    *)
(* other when captures start and stop is the subject of Profiler; the       *)
(* thread is outside of its scoped events when a capture starts, and has run *)
(* frames before, so that the descriptions of the frames exist.             *)
(*                                                                          *)
(* A response is a sequence of cells, one for each number or string.        *)
(***************************************************************************)
EXTENDS MemoryPool, FiniteSets, TLC, SequencesExt

CONSTANTS ChunkSize,      \* elements of a chunk: 1024 events, tags or custom events
          FrameChunk,     \* elements of a chunk of frames: 128
          StackDepth,     \* pushPopEventStack.size(): 32
          BatchLimit,     \* batchLimitMs: 3
          StringLengths,  \* lengths of strings that are attached as tags
          Attachments,    \* what is attached to a capture: [kind, size]
          Garbage,        \* what the memory of a new event may hold as its finish
          MaxItems,       \* bound: events, frames, strings and attachments, over all captures
          MaxNesting,     \* bound: open scopes and pushes of the thread
          MaxTime,        \* bound: the clock
          MaxCaptures     \* bound: captures that are started

ASSUME CaptureConstants ==
    /\ ChunkSize \in Nat \ {0} /\ FrameChunk \in Nat \ {0} /\ StackDepth \in Nat \ {0} /\ BatchLimit \in Nat
    /\ Garbage \subseteq Int /\ Garbage # {} /\ StringLengths \subseteq Nat
    /\ Attachments \subseteq [kind : {"summary", "file"}, size : Nat]

VARIABLES mode,            \* Core::currentMode, which also says whether Core::storage is set
          clock,
          board, sites,    \* boardDescriptions; the static pointers to its elements
          racing,          \* sites whose pointer another thread has seen to be null
          storage,         \* the thread's EventStorage
          custom,          \* eventBuffer of a custom storage
          frames,          \* frames[CPU].m_Frames
          summary,         \* summary and attachments
          scopes, pushes,  \* the thread's open scoped events, and its open pushes
          captures, items, \* captures started, and things recorded, so far
          pc, out,         \* where DumpFrames is, and what it has sent
          recorded         \* history: what was recorded, and not sent or dropped

vars == <<mode, clock, board, sites, racing, storage, custom, frames, summary, scopes, pushes,
          captures, items, pc, out, recorded>>

boardVars == <<board, sites, racing>>

MaxInt == 1000
INVALID == -1
null == -1                 \* a site's pointer before its description exists

\* Colours: the frame description has none, sleep events are white.
Colors == [Frame |-> "Null", FrameTag |-> "Null", Sleep |-> "White", Work |-> "Red", Pushed |-> "Null"]
FrameDescription == 0
FrameTag == 1

TagKinds == {"Float", "U32", "S32", "U64", "Point", "String"}
MaxString == 31            \* OptickString<32>

EmptyStorage ==
    [eventBuffer |-> EmptyPool(ChunkSize), tags |-> [k \in TagKinds |-> EmptyPool(ChunkSize)],
     stack |-> [i \in 1 .. StackDepth |-> << >>], index |-> 0]

Description(name) == [name |-> name, color |-> Colors[name]]

NothingRecorded ==
    [thread |-> << >>, custom |-> << >>, tags |-> [k \in TagKinds |-> << >>], frames |-> << >>, summary |-> << >>]

Init ==
    /\ mode = "OFF" /\ clock = 0
    /\ board = Add(Add(EmptyPool(ChunkSize), Description("Frame")), Description("FrameTag"))
    /\ sites = [s \in {"Sleep", "Work", "Pushed"} |-> null] /\ racing = {}
    /\ storage = EmptyStorage /\ custom = EmptyPool(ChunkSize)
    /\ frames = EmptyPool(FrameChunk) /\ summary = << >>
    /\ scopes = << >> /\ pushes = << >> /\ captures = 0 /\ items = 0
    /\ pc = "run" /\ out = << >> /\ recorded = NothingRecorded

-----------------------------------------------------------------------------
(* Descriptions.                                                            *)

\* CreateDescription, under the lock of the board: the index is the place.
\* Mutant of CreateDescription: the index is taken after the element is added.
CreateAfterAdd(s) == /\ board' = Add(board, Description(s))
                     /\ sites' = [sites EXCEPT ![s] = Size(board')]
CreateDescription(s) == /\ board' = Add(board, Description(s))
                        /\ sites' = [sites EXCEPT ![s] = Size(board)]

\* OPTICK_EVENT creates the description of its site when the site's pointer is
\* null.  Nothing keeps another thread from doing so at the same time.  A push
\* by name asks CreateSharedDescription, which has a lock of its own.
Describe(s) ==
    IF sites[s] # null THEN UNCHANGED boardVars
    ELSE /\ CreateDescription(s)
         /\ IF s = "Work" THEN racing' \in {racing, racing \cup {s}} ELSE UNCHANGED racing

\* The other thread creates a second description, and its pointer is the one
\* that stays.
CreateAgain(s) ==
    /\ s \in racing /\ CreateDescription(s) /\ racing' = racing \ {s}
    /\ UNCHANGED <<mode, clock, storage, custom, frames, summary, scopes, pushes, captures, items, pc,
                   out, recorded>>

-----------------------------------------------------------------------------
(* Recording.                                                               *)

Recording == mode = "ON" /\ pc = "run"
NewItem == items < MaxItems /\ items' = items + 1
Count == Len(recorded.thread)

\* EventStorage::NextEvent and the fields that Start sets; finish is what the
\* memory holds.
NewEvent(i, finish) ==
    LET p == Reserve(storage.eventBuffer, [description |-> null, start |-> INVALID, finish |-> finish])
    IN  Write(p, LastPlace(p), [At(p, LastPlace(p)) EXCEPT !.description = i, !.start = clock])

Begin(i, g) ==
    LET p == NewEvent(i, g)
    IN  /\ storage' = [storage EXCEPT !.eventBuffer = p]
        /\ scopes' = Append(scopes, [loc |-> LastPlace(p), n |-> Count + 1])
        /\ recorded' = [recorded EXCEPT !.thread = Append(@, At(p, LastPlace(p)))]

\* OPTICK_EVENT.
ScopedEvent(s) ==
    /\ Recording /\ NewItem /\ Len(scopes) + Len(pushes) < MaxNesting
    /\ Describe(s)
    /\ \E g \in Garbage : Begin(sites'[s], g)
    /\ UNCHANGED <<mode, clock, custom, frames, summary, pushes, captures, pc, out>>

\* ~Event: nothing happens any more when the capture has stopped.
EndScope ==
    /\ scopes # << >> /\ scopes' = Front(scopes)
    /\ LET e == scopes[Len(scopes)]
       IN  IF mode = "ON"
           THEN /\ storage' = [storage EXCEPT !.eventBuffer =
                                  Write(@, e.loc, [At(@, e.loc) EXCEPT !.finish = clock])]
                /\ recorded' = [recorded EXCEPT !.thread[e.n].finish = clock]
           ELSE UNCHANGED <<storage, recorded>>
    /\ UNCHANGED <<mode, clock, boardVars, custom, frames, summary, pushes, captures, items, pc, out>>

\* PushEvent: beyond the depth of the stack pushes are only counted.
\* Mutant of PushEvent: they are not counted either.
PushUncounted(i) ==
    IF storage.index < StackDepth
    THEN LET p == Reserve(storage.eventBuffer, [description |-> null, start |-> INVALID, finish |-> INVALID])
             q == Write(p, LastPlace(p), [description |-> i, start |-> clock, finish |-> INVALID])
         IN  storage' = [storage EXCEPT !.eventBuffer = q, !.stack[storage.index + 1] = LastPlace(q),
                                        !.index = @ + 1]
    ELSE UNCHANGED storage
PushEvent(i) ==
    IF storage.index < StackDepth
    THEN LET p == Reserve(storage.eventBuffer, [description |-> null, start |-> INVALID, finish |-> INVALID])
             q == Write(p, LastPlace(p), [description |-> i, start |-> clock, finish |-> INVALID])
         IN  storage' = [storage EXCEPT !.eventBuffer = q, !.stack[storage.index + 1] = LastPlace(q),
                                        !.index = @ + 1]
    ELSE storage' = [storage EXCEPT !.index = @ + 1]

\* Event::Push.  The thread's own view of its open pushes: which recorded event
\* each of them is, if any, and whether it belongs to the running capture.
Push ==
    /\ pc = "run" /\ Len(scopes) + Len(pushes) < MaxNesting
    /\ IF mode = "OFF"
       THEN /\ pushes' = Append(pushes, [n |-> 0, live |-> FALSE])
            /\ UNCHANGED <<boardVars, storage, recorded, items>>
       ELSE /\ NewItem /\ Describe("Pushed") /\ PushEvent(sites'["Pushed"])
            /\ LET live == Cardinality({i \in DOMAIN pushes : pushes[i].live})
                   kept == live < StackDepth
               IN  /\ pushes' = Append(pushes, [n |-> IF kept THEN Count + 1 ELSE 0, live |-> TRUE])
                   /\ recorded' = IF kept
                                  THEN [recorded EXCEPT !.thread = Append(@, [description |-> sites'["Pushed"],
                                                                start |-> clock, finish |-> INVALID])]
                                  ELSE recorded
    /\ UNCHANGED <<mode, clock, custom, frames, summary, scopes, captures, pc, out>>

\* PopEvent.
PopEvent ==
    storage' = IF storage.index = 0 THEN storage
               ELSE IF storage.index - 1 < StackDepth
               THEN [storage EXCEPT !.index = @ - 1,
                        !.eventBuffer = Write(@, storage.stack[storage.index],
                            [At(@, storage.stack[storage.index]) EXCEPT !.finish = clock])]
               ELSE [storage EXCEPT !.index = @ - 1]

Pop ==
    /\ pc = "run" /\ pushes # << >> /\ pushes' = Front(pushes)
    /\ LET e == pushes[Len(pushes)]
       IN  IF mode = "OFF" THEN UNCHANGED <<storage, recorded>>
           ELSE /\ PopEvent
                /\ recorded' = IF e.n = 0 THEN recorded ELSE [recorded EXCEPT !.thread[e.n].finish = clock]
    /\ UNCHANGED <<mode, clock, boardVars, custom, frames, summary, scopes, captures, items, pc, out>>

\* OPTICK_STORAGE_EVENT: an event of any time so far, if a capture is running.
AddCustom(start, finish) ==
    /\ Recording /\ NewItem
    /\ Describe("Pushed")
    /\ LET e == [description |-> sites'["Pushed"], start |-> start, finish |-> finish]
       IN  /\ custom' = Add(custom, e)
           /\ recorded' = [recorded EXCEPT !.custom = Append(@, e)]
    /\ UNCHANGED <<mode, clock, storage, frames, summary, scopes, pushes, captures, pc, out>>

Attached(st, kind, tag) == [st EXCEPT !.tags[kind] = Add(@, tag)]

\* BeginUpdateFrame and the rest of OPTICK_FRAME: the frame, its event and the
\* tag with its number.
BeginFrame ==
    /\ Recording /\ NewItem /\ scopes = << >> /\ Len(pushes) < MaxNesting
    /\ LET f == [description |-> FrameDescription, start |-> clock, finish |-> clock]
           t == [timestamp |-> clock, description |-> FrameTag, data |-> Size(frames) + 1]
       IN  \E g \in Garbage :
             LET p == NewEvent(FrameDescription, g)
             IN  /\ frames' = Add(frames, f)
                 /\ storage' = Attached([storage EXCEPT !.eventBuffer = p], "U32", t)
                 /\ scopes' = <<[loc |-> LastPlace(p), n |-> Count + 1]>>
                 /\ recorded' = [recorded EXCEPT !.frames = Append(@, f), !.tags["U32"] = Append(@, t),
                                                 !.thread = Append(@, At(p, LastPlace(p)))]
    /\ UNCHANGED <<mode, clock, boardVars, custom, summary, pushes, captures, pc, out>>

\* EndUpdateFrame closes the last frame there is.
EndFrame ==
    /\ Recording /\ scopes = << >> /\ Back(frames) # << >>
    /\ frames' = Write(frames, Back(frames), [At(frames, Back(frames)) EXCEPT !.finish = clock])
    /\ recorded' = [recorded EXCEPT !.frames[Len(recorded.frames)].finish = clock]
    /\ UNCHANGED <<mode, clock, boardVars, storage, custom, summary, scopes, pushes, captures,
                   items, pc, out>>

\* Tag::Attach with a string, which is cut.
AttachString(length) ==
    /\ Recording /\ NewItem
    /\ LET t == [timestamp |-> clock, description |-> FrameTag,
                 data |-> IF length < MaxString THEN length ELSE MaxString]
       IN  /\ storage' = Attached(storage, "String", t)
           /\ recorded' = [recorded EXCEPT !.tags["String"] = Append(@, t)]
    /\ UNCHANGED <<mode, clock, boardVars, custom, frames, summary, scopes, pushes, captures,
                   pc, out>>

\* AttachSummary, and AttachFile, which refuses an empty file.
Attach(entry) ==
    /\ pc = "run" /\ NewItem /\ ~(entry.kind = "file" /\ entry.size = 0)
    /\ summary' = Append(summary, entry)
    /\ recorded' = [recorded EXCEPT !.summary = Append(@, entry)]
    /\ UNCHANGED <<mode, clock, boardVars, storage, custom, frames, scopes, pushes, captures,
                   pc, out>>

Tick ==
    /\ Recording /\ clock < MaxTime /\ clock' = clock + 1
    /\ UNCHANGED <<mode, boardVars, storage, custom, frames, summary, scopes, pushes, captures,
                   items, pc, out, recorded>>

-----------------------------------------------------------------------------
(* Starting and stopping a capture.                                         *)

\* Activate: the storages are emptied when a capture starts, the frames are not.
ClearTags(tags, preserveContent) == [k \in DOMAIN tags |-> ClearPool(tags[k], preserveContent)]

Clear(st, preserveContent) ==
    [st EXCEPT !.eventBuffer = ClearPool(@, preserveContent), !.tags = ClearTags(@, preserveContent),
               !.stack = [i \in DOMAIN @ |-> IF i <= st.index THEN << >> ELSE st.stack[i]], !.index = 0]

StartCapture ==
    /\ pc \in {"run", "sent"} /\ mode = "OFF" /\ scopes = << >> /\ captures < MaxCaptures
    /\ mode' = "ON" /\ captures' = captures + 1 /\ pc' = "run" /\ out' = << >>
    /\ storage' = Clear(storage, TRUE) /\ custom' = ClearPool(custom, TRUE)
    /\ pushes' = [i \in DOMAIN pushes |-> [n |-> 0, live |-> FALSE]]
    /\ recorded' = IF pc = "sent" THEN NothingRecorded
                   ELSE [NothingRecorded EXCEPT !.frames = recorded.frames, !.summary = recorded.summary]
    /\ UNCHANGED <<clock, boardVars, frames, summary, scopes, items>>

CancelCapture ==
    /\ Recording /\ mode' = "OFF"
    /\ UNCHANGED <<clock, boardVars, storage, custom, frames, summary, scopes, pushes, captures,
                   items, pc, out, recorded>>

StopCapture ==
    /\ Recording /\ mode' = "OFF" /\ pc' = "summary"
    /\ UNCHANGED <<clock, boardVars, storage, custom, frames, summary, scopes, pushes, captures,
                   items, out, recorded>>

-----------------------------------------------------------------------------
(* Responses, as the operators << write them.                               *)

Num(x) == [kind |-> "number", val |-> x]
Str(x) == [kind |-> "string", val |-> x]
List(seq) == <<Num(Len(seq))>> \o FlattenSeq(seq)
Each(Cells(_), seq) == [i \in DOMAIN seq |-> Cells(seq[i])]
Pool(Cells(_), p) == <<Num(Size(p))>> \o FlattenSeq(Each(Cells, Items(p)))

EventCells(e) == <<Num(e.start), Num(e.finish), Num(e.description)>>
FrameCells(f) == EventCells(f) \o <<Num(0)>>                            \* and the thread's id
TagCells(t) == <<Num(t.timestamp), Num(t.description), Num(t.data)>>
DescriptionCells(d) == <<Str(d.name), Num(0), Str(d.color)>>             \* name, line, color
AttachmentCells(a) == IF a.kind = "file" THEN <<Num(0), Str(a.kind), Num(a.size)>>
                      ELSE <<Str(a.kind), Num(a.size)>>

ScopeCells(scope, thread) ==
    <<Num(captures), Num(thread), Num(-1), Num(scope.start), Num(scope.finish), Num(scope.type)>>
        \o List(Each(EventCells, scope.categories)) \o List(Each(EventCells, scope.events))

Response(type, cells) == [type |-> type, cells |-> cells]

-----------------------------------------------------------------------------
(* DumpFrames.  The board number is the number of captures here.            *)

Of(seq, kind) == SelectSeq(seq, LAMBDA a : a.kind = kind)

\* DumpSummary, after GenerateCommonSummary.  The range-based loop over the
\* frames does not end when the last chunk of them is full.
FrameTimes == <<Num(Size(frames))>> \o Each(LAMBDA f : Num(f.finish - f.start), Items(frames))

CommonSummary == <<[kind |-> "platform", size |-> 0], [kind |-> "cpu", size |-> 0]>>
SummaryPack ==
    Response("SummaryPack",
        <<Num(captures)>> \o FrameTimes
            \o List(Each(AttachmentCells, Of(summary, "summary") \o CommonSummary))
            \o List(Each(AttachmentCells, Of(summary, "file"))))

DumpSummary ==
    /\ pc = "summary"
    /\ IF WalkEnds(frames)
       THEN pc' = "dump" /\ out' = <<SummaryPack>> /\ summary' = << >>
       ELSE pc' = "crashed" /\ UNCHANGED <<out, summary>>
    /\ UNCHANGED <<mode, clock, boardVars, storage, custom, frames, scopes, pushes, captures,
                   items, recorded>>

\* CalculateRange.
CalculateRange ==
    LET times == Items(frames)
    IN  [start |-> FoldLeft(LAMBDA t, f : Min({t, f.start}), MaxInt, times),
         finish |-> FoldLeft(LAMBDA t, f : Max({t, f.finish}), -MaxInt, times)]

FrameDescriptionBoard ==
    Response("FrameDescriptionBoard",
        <<Num(captures), Num(CalculateRange.start), Num(CalculateRange.finish)>>
            \o Pool(DescriptionCells, board))
FramesPack == Response("FramesPack", <<Num(captures)>> \o Pool(FrameCells, frames))

\* ScopeData: the scope that is filled, and the responses it has sent.
NoScope == [start |-> MaxInt, finish |-> -MaxInt, type |-> -1, events |-> << >>, categories |-> << >>]
IsFrameDescription(i) == i = FrameDescription
ColorOf(i) == Items(board)[i + 1].color
IsSleepDescription(i) == ColorOf(i) = "White"
IsSleepOnlyScope(scope) == \A i \in DOMAIN scope.events : IsSleepDescription(scope.events[i].description)

AddEvent(scope, e) ==
    [scope EXCEPT !.events = Append(@, e),
                  !.categories = IF ColorOf(e.description) # "Null" THEN Append(@, e) ELSE @]
InitRootEvent(scope, e) ==
    [AddEvent(scope, e) EXCEPT !.start = Min({@, e.start}), !.finish = Max({@, e.finish}),
                               !.type = IF IsFrameDescription(e.description) THEN 0 ELSE -1]

\* What DumpEvents holds: the scope, its root event, and the scopes sent.
Send(d) == [d EXCEPT !.scope = NoScope,
                     !.sent = IF d.scope.events = << >> \/ IsSleepOnlyScope(d.scope) THEN @
                              ELSE Append(@, d.scope)]

\* When the events batched so far go out before a new root event e.
\* Mutant of Flushes: frames are batched like everything else.
FlushesNoFrame(d, e) ==
    \/ d.scope.finish - d.scope.start > BatchLimit
    \/ IsSleepDescription(e.description) \/ IsSleepOnlyScope(d.scope)
Flushes(d, e) ==
    \/ IsFrameDescription(d.root[1].description) \/ d.scope.finish - d.scope.start > BatchLimit
    \/ IsSleepDescription(e.description) \/ IsSleepOnlyScope(d.scope)

Collect(d, e) ==
    IF d.root = << >> THEN [d EXCEPT !.root = <<e>>, !.scope = InitRootEvent(@, e)]
    ELSE IF d.root[1].finish < e.finish
    THEN LET f == IF Flushes(d, e) THEN Send(d) ELSE d
         IN  [f EXCEPT !.root = <<e>>, !.scope = InitRootEvent(@, e)]
    ELSE [d EXCEPT !.scope = AddEvent(@, e)]

InSlice(e, slice) == e.finish >= e.start /\ e.start >= slice.start /\ slice.finish >= e.finish

\* Mutant of DumpEvents: the last scope is not sent.
DumpButLast(p, slice, thread) ==
    LET d == FoldLeft(Collect, [scope |-> NoScope, root |-> << >>, sent |-> << >>],
                      SelectSeq(Items(p), LAMBDA e : InSlice(e, slice)))
    IN  [i \in DOMAIN d.sent |-> Response("EventFrame", ScopeCells(d.sent[i], thread))]
DumpEvents(p, slice, thread) ==
    LET d == Send(FoldLeft(Collect, [scope |-> NoScope, root |-> << >>, sent |-> << >>],
                           SelectSeq(Items(p), LAMBDA e : InSlice(e, slice))))
    IN  [i \in DOMAIN d.sent |-> Response("EventFrame", ScopeCells(d.sent[i], thread))]

\* DumpTags: the zeros are for kinds that are never sent.
DumpTags(tags) ==
    IF \A k \in DOMAIN tags : IsEmpty(tags[k]) THEN << >>
    ELSE LET pool(k) == Pool(TagCells, tags[k])
         IN  <<Response("TagsPack",
                 <<Num(captures), Num(0), Num(0)>> \o pool("Float") \o pool("U32") \o pool("S32")
                     \o pool("U64") \o pool("Point") \o <<Num(0), Num(0)>> \o pool("String"))>>

\* Sort: by start, parents first.
Before(a, b) == a.start < b.start \/ (a.start = b.start /\ a.finish > b.finish)
Sort(p) == FoldLeft(Add, ClearPool(p, TRUE), SortSeq(Items(p), Before))

ClearUnlessEmpty(p) == IF IsEmpty(p) THEN p ELSE ClearPool(p, FALSE)

\* The rest of DumpFrames: the board, the frames, the thread, the custom storage,
\* which the sort leaves with as many items as before.
\* Mutant of ClearFrames: the frames are kept.
KeepFrames == UNCHANGED frames
ClearFrames == frames' = ClearPool(frames, FALSE)
DumpRest ==
    /\ pc = "dump" /\ pc' = "sent"
    /\ out' = out \o <<FrameDescriptionBoard, FramesPack>>
                   \o DumpEvents(storage.eventBuffer, CalculateRange, 0) \o DumpTags(storage.tags)
                   \o DumpEvents(Sort(custom), CalculateRange, 1)
    /\ storage' = [storage EXCEPT !.eventBuffer = ClearUnlessEmpty(@),
                       !.tags = IF \A k \in DOMAIN @ : IsEmpty(@[k]) THEN @ ELSE ClearTags(@, FALSE)]
    /\ custom' = ClearUnlessEmpty(custom) /\ ClearFrames
    /\ UNCHANGED <<mode, clock, boardVars, summary, scopes, pushes, captures, items, recorded>>

Next ==
    \/ \E s \in {"Sleep", "Work"} : ScopedEvent(s)
    \/ EndScope \/ Push \/ Pop \/ BeginFrame \/ EndFrame \/ Tick
    \/ \E start \in 0 .. clock : AddCustom(start, clock)
    \/ \E length \in StringLengths : AttachString(length)
    \/ \E entry \in Attachments : Attach(entry)
    \/ \E s \in racing : CreateAgain(s)
    \/ StartCapture \/ CancelCapture \/ StopCapture \/ DumpSummary \/ DumpRest

Spec == Init /\ [][Next]_vars

-----------------------------------------------------------------------------
(* Properties.                                                              *)

\* While a capture runs, the buffers hold exactly the events and the tags of
\* it: a pop finishes the event of its own push, also when pushes were too deep
\* or began before the capture, and nothing is left of a cancelled capture.
EventsRecorded ==
    Recording =>
        /\ Items(storage.eventBuffer) = recorded.thread
        /\ Items(custom) = recorded.custom
        /\ Items(frames) = recorded.frames
        /\ \A k \in TagKinds : Items(storage.tags[k]) = recorded.tags[k]

\* A site's pointer leads to the description made for it: the index it keeps is
\* that of its place on the board, whoever else created descriptions meanwhile.
SitesDescribed ==
    \A s \in DOMAIN sites : sites[s] # null =>
        sites[s] \in 0 .. Size(board) - 1 /\ Items(board)[sites[s] + 1].name = s

\* The frames can be walked when the summary is written.
FramesWalkEnds == pc # "crashed"

=============================================================================
