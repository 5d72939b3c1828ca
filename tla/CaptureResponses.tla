--------------------------- MODULE CaptureResponses ---------------------------
(***************************************************************************)
(* The responses of Capture, read back as a client does, cell by cell after *)
(* the format of each, and what they must say.                              *)
(***************************************************************************)
EXTENDS Capture

-----------------------------------------------------------------------------
(* Reading the responses back.                                              *)

Number == [kind |-> "number"]
String == [kind |-> "string"]
ListOf(format) == [kind |-> "list", of |-> format]

\* Read(cells, format): what is read, and the cells that are left; a cell of
\* the wrong kind, or none, is not ok.
Unread == [ok |-> FALSE, val |-> << >>, rest |-> << >>]
RECURSIVE Read(_, _), ReadMany(_, _, _)
Read(cells, format) ==
    IF format = << >> THEN [ok |-> TRUE, val |-> << >>, rest |-> cells]
    ELSE IF cells = << >> THEN Unread
    ELSE LET kind == format[1].kind
             one == IF kind = "list"
                    THEN IF cells[1].kind = "number" THEN ReadMany(cells[1].val, Tail(cells), format[1].of)
                         ELSE Unread
                    ELSE [ok |-> cells[1].kind = kind, val |-> cells[1].val, rest |-> Tail(cells)]
             more == Read(one.rest, Tail(format))
         IN  IF one.ok /\ more.ok THEN [more EXCEPT !.val = <<one.val>> \o @] ELSE Unread
ReadMany(n, cells, format) ==
    IF n <= 0 THEN [ok |-> n = 0, val |-> << >>, rest |-> cells]
    ELSE LET one == Read(cells, format)
             more == ReadMany(n - 1, one.rest, format)
         IN  IF one.ok /\ more.ok THEN [more EXCEPT !.val = <<one.val>> \o @] ELSE Unread

Numbers(n) == [i \in 1 .. n |-> Number]
Events == ListOf(Numbers(3))
Tags == ListOf(Numbers(3))
FormatOf ==
    [EventFrame |-> Numbers(6) \o <<Events, Events>>,
     TagsPack |-> Numbers(3) \o <<Tags, Tags, Tags, Tags, Tags>> \o Numbers(2) \o <<Tags>>,
     FramesPack |-> <<Number, ListOf(Numbers(4))>>,
     FrameDescriptionBoard |-> Numbers(3) \o <<ListOf(<<String, Number, String>>)>>,
     SummaryPack |-> <<Number, ListOf(<<Number>>), ListOf(<<String, Number>>),
                       ListOf(<<Number, String, Number>>)>>]

IsReadable(r) == LET got == Read(r.cells, FormatOf[r.type]) IN got.ok /\ got.rest = << >>
ValueOf(r) == Read(r.cells, FormatOf[r.type]).val
Responses(type) == LET of == SelectSeq(out, LAMBDA r : r.type = type)
                   IN  [i \in DOMAIN of |-> ValueOf(of[i])]

Readable == \A i \in DOMAIN out : IsReadable(out[i])
Sent == pc = "sent" /\ mode = "OFF"

-----------------------------------------------------------------------------
ScopesOf(thread) == SelectSeq(Responses("EventFrame"), LAMBDA r : r[2] = thread)
EventsOf(thread) == LET scopes_ == ScopesOf(thread)
                    IN  FlattenSeq([i \in DOMAIN scopes_ |-> scopes_[i][8]])
Slice == [start |-> FoldLeft(LAMBDA t, f : Min({t, f.start}), MaxInt, recorded.frames),
          finish |-> FoldLeft(LAMBDA t, f : Max({t, f.finish}), -MaxInt, recorded.frames)]
Finished(events) ==
    LET of == SelectSeq(events, LAMBDA e : InSlice(e, Slice))
    IN  [i \in DOMAIN of |-> <<of[i].start, of[i].finish, of[i].description>>]
Awake(events) == SelectSeq(events, LAMBDA e : ~IsSleepDescription(e[3]))

\* What the client reads is each finished event within the frames once, in the
\* order of recording, custom events sorted; only sleep may be left out.
EventsSent ==
    Sent => /\ Readable
            /\ Awake(EventsOf(0)) = Awake(Finished(recorded.thread))
            /\ Awake(EventsOf(1)) = Awake(Finished(SortSeq(recorded.custom, Before)))
            /\ ToSet(EventsOf(0)) \subseteq ToSet(Finished(recorded.thread))

Roots(events) == {i \in DOMAIN events : \A j \in 1 .. i - 1 : events[j][2] < events[i][2]}

\* Events that are sent together make sense together: the header spans them,
\* the categories are the coloured ones, and a frame is the last one of the
\* root events, never batched with what follows it.
ScopeShape ==
    Sent => \A t \in {0, 1} : \A k \in DOMAIN ScopesOf(t) :
        LET scope == ScopesOf(t)[k]
            events == scope[8]
            roots == Roots(events)
            framed == {i \in roots : events[i][3] = FrameDescription}
        IN  /\ scope[4] = Min({events[i][1] : i \in DOMAIN events})
            /\ scope[5] = Max({events[i][2] : i \in DOMAIN events})
            /\ scope[7] = SelectSeq(events, LAMBDA e : ColorOf(e[3]) # "Null")
            /\ framed \subseteq {Max(roots)} /\ (scope[6] = 0 <=> framed # {})

\* Every description an event or a tag refers to is on the board that was sent
\* before it, at its index and under the name of its site, whoever else created
\* descriptions at the same time.
DescriptionsKnown ==
    /\ SitesDescribed
    /\ Sent => LET names == Responses("FrameDescriptionBoard")[1][4]
               IN  \A e \in ToSet(EventsOf(0) \o EventsOf(1)) :
                     e[3] \in 0 .. Len(names) - 1 /\ names[e[3] + 1][1] = Items(board)[e[3] + 1].name

\* Frames, tags and what was attached reach the client once, in the response
\* for them: also the frames and attachments of a capture that was cancelled,
\* but none that was sent before.
RestSent ==
    Sent =>
        LET frame(i) == <<recorded.frames[i].start, recorded.frames[i].finish, FrameDescription, 0>>
            attached(kind) == Of(recorded.summary, kind)
            tags == Responses("TagsPack")
            of(k) == recorded.tags[k]
            tag(t) == <<t.timestamp, t.description, t.data>>
        IN  /\ Responses("FramesPack")[1][2] = [i \in DOMAIN recorded.frames |-> frame(i)]
            /\ LET pack == Responses("SummaryPack")[1]
               IN  /\ pack[2] = [i \in DOMAIN recorded.frames |->
                                   <<recorded.frames[i].finish - recorded.frames[i].start>>]
                   /\ SubSeq(pack[3], 1, Len(pack[3]) - 2) =
                          [i \in DOMAIN attached("summary") |-> <<"summary", attached("summary")[i].size>>]
                   /\ pack[4] = [i \in DOMAIN attached("file") |-> <<0, "file", attached("file")[i].size>>]
            /\ IF \A k \in TagKinds : of(k) = << >> THEN tags = << >>
               ELSE Len(tags) = 1 /\ tags[1][5] = [i \in DOMAIN of("U32") |-> tag(of("U32")[i])]
                                  /\ tags[1][11] = [i \in DOMAIN of("String") |-> tag(of("String")[i])]
=============================================================================
