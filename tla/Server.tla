-------------------------------- MODULE Server --------------------------------
(***************************************************************************)
(* The receiving side of the profiler's server: Server::Update of           *)
(* optick_server.cpp, which runs once a frame, with the sockets below it,   *)
(* the input stream of optick_serialization and the messages of             *)
(* optick_message.cpp.  Clients connect one after the other, write commands *)
(* in whatever pieces the network makes of them, and may leave at any       *)
(* moment, in the middle of a command as well.                              *)
(*                                                                          *)
(* A cell of the stream is two bytes: half of a mark, a length, an          *)
(* application id, a type, or a field of a message.  The settings of a      *)
(* capture are one cell, and a character of a password is one cell; all     *)
(* lengths count cells.                                                     *)
(***************************************************************************)
EXTENDS Integers, Sequences, SequencesExt, FiniteSetsExt

CONSTANTS Clients,       \* how many clients connect, one after the other
          Scripts,       \* what a client may write: a sequence of sequences of units
          BufferSize,    \* BIFFER_SIZE, in cells
          Debug          \* whether the build defines _DEBUG: OPTICK_FAILED breaks only there

ASSUME ServerConstants == /\ Clients \in Nat /\ BufferSize \in Nat \ {0}
                          /\ Debug \in BOOLEAN

VARIABLES script, written,   \* which script a connected client has, or 0, and the cells it wrote
          accepted,          \* acceptSocket: the client it belongs to, or 0
          received,          \* how many cells were read from each client
          stream,            \* networkStream: the cells not read yet, or its error state
          pc,                \* where Server::Update is
          applied            \* the commands applied, in order

client == <<script, written>>
vars == <<script, written, accepted, received, stream, pc, applied>>

-----------------------------------------------------------------------------
(* The protocol: how a client encodes its commands.                         *)

Half == 46351                       \* 0xB50F: half of MESSAGE_MARK, and NETWORK_APPLICATION_ID
HeaderSize == 3
Types == [Start |-> 0, Stop |-> 1, Cancel |-> 2, TurnSampling |-> 3]
COUNT == 4                          \* a type of a later protocol version has a number from here on

PadChar == 64                       \* '='; a letter is its index in the alphabet
Nul == 65

\* A client's base64: three bytes are four letters.
Encode64(bytes) ==
    LET n == Len(bytes)
        B(i) == IF i \in 1 .. n THEN bytes[i] ELSE 0
        Letter(k) == LET g == 3 * ((k - 1) \div 4)
                     IN  CASE k % 4 = 1 -> B(g + 1) \div 4
                           [] k % 4 = 2 -> (B(g + 1) % 4) * 16 + B(g + 2) \div 16
                           [] k % 4 = 3 -> (B(g + 2) % 16) * 4 + B(g + 3) \div 64
                           [] k % 4 = 0 -> B(g + 3) % 64
        letters == n + (n + 2) \div 3
    IN  [k \in 1 .. 4 * ((n + 2) \div 3) |-> IF k <= letters THEN Letter(k) ELSE PadChar]

Payload(u) ==
    CASE u.type = "Start" -> LET word == Encode64(u.password)
                             IN  <<u.settings, Len(word)>> \o word
      [] u.type = "TurnSampling" -> <<u.index, u.isSampling>>
      [] u.type = "Later" -> <<u.field, u.field>>
      [] OTHER -> << >>

\* A unit is a command, one of a later version, or a cell of garbage.
Cells(u) ==
    IF u.type = "Garbage" THEN <<u.field>>
    ELSE LET body == <<Half, IF u.type = "Later" THEN COUNT ELSE Types[u.type]>> \o Payload(u)
         IN  <<Half, Half, Len(body)>> \o body

\* What a client may write.  A password is shorter than a length that makes no
\* sense, and garbage is nothing that looks like the half of a mark.
Passwords == {word \in Seq(0 .. 255) : 4 * ((Len(word) + 2) \div 3) < Half}
Units == [type : {"Start"}, settings : Int, password : Passwords]
         \cup [type : {"TurnSampling"}, index : Int, isSampling : Int]
         \cup [type : {"Stop", "Cancel"}]
         \cup [type : {"Later", "Garbage"}, field : Int \ {Half}]

ASSUME ServerScripts == Scripts \in Seq(Seq(Units))

AllCells(units) == FlattenSeq([i \in DOMAIN units |-> Cells(units[i])])
Text == << >> \o [i \in DOMAIN Scripts |-> AllCells(Scripts[i])]

-----------------------------------------------------------------------------
(* InputDataStream: a stringstream.  A read past its end makes it fail, and *)
(* it stays so: tellp and tellg return -1, and nothing can be written.      *)

Good == stream.good
Length(s) == IF s.good THEN Len(s.cells) ELSE 0
Extend(s, cells) == IF s.good THEN [s EXCEPT !.cells = @ \o cells] ELSE s
Drop(s, n) == IF Length(s) >= n THEN [s EXCEPT !.cells = SubSeq(@, n + 1, Len(@))]
              ELSE [s EXCEPT !.good = FALSE, !.cells = << >>]
\* What operator>> leaves in a variable that held default.
Field(s, n, default) == IF Length(s) >= n THEN s.cells[n] ELSE default

\* base64_decode: up to the first character that is no letter.
base64_decode(chars) ==
    LET n == IF \E i \in DOMAIN chars : chars[i] > 63
             THEN (CHOOSE i \in DOMAIN chars : /\ chars[i] > 63
                                               /\ \A k \in 1 .. i - 1 : chars[k] <= 63) - 1
             ELSE Len(chars)
        C(g, j) == chars[4 * g + j + 1]
        Byte(k) == LET g == (k - 1) \div 3
                       j == (k - 1) % 3
                   IN  ((C(g, j) * <<4, 16, 64>>[j + 1]) % 256) + C(g, j + 1) \div <<16, 4, 1>>[j + 1]
    IN  [k \in 1 .. 3 * (n \div 4) + (IF n % 4 > 0 THEN (n % 4) - 1 ELSE 0) |-> Byte(k)]

\* operator>>(string): the length, and a string that is one character longer.
\* A length that no string can have throws an exception nobody catches.
Throws(s) == Field(s, 1, 0) >= Half
String(s) == LET n == Field(s, 1, 0)
             IN  IF Length(s) >= n + 1 THEN SubSeq(s.cells, 2, n + 1) \o <<Nul>> ELSE <<Nul>>
AfterString(s) == Drop(s, Field(s, 1, 0) + 1)

-----------------------------------------------------------------------------
(* Messages.                                                                *)

\* IMessage::Create skips cells until the stream starts with a mark.
IsValid(cells, i) == cells[i] = Half /\ cells[i + 1] = Half
\* Mutant of AtMark: what is no mark is skipped a header at a time.
HeaderByHeader(s) ==
    LET n     == Length(s)
        Stops(i) == n - i < HeaderSize \/ IsValid(s.cells, i + 1)
        skip  == CHOOSE i \in 0 .. n : /\ i % HeaderSize = 0 \/ n - i < HeaderSize
                                       /\ Stops(i)
                                       /\ \A k \in 0 .. i - 1 : k % HeaderSize = 0 => ~Stops(k)
    IN  Drop(s, skip)
AtMark(s) ==
    LET n     == Length(s)
        Stops(i) == n - i < HeaderSize \/ IsValid(s.cells, i + 1)
    IN  Drop(s, CHOOSE i \in 0 .. n : Stops(i) /\ \A k \in 0 .. i - 1 : ~Stops(k))

\* Mutant of Complete: the size of the header is not counted.
CompleteBody(s) == Length(s) >= HeaderSize /\ Length(s) >= s.cells[HeaderSize]
\* A message is taken from the stream when all of it has arrived.
Complete(s) == Length(s) >= HeaderSize /\ Length(s) >= s.cells[HeaderSize] + HeaderSize

\* The factory: MessageFactory::Create and the Create of the four messages.
\* The result is the message, or none (nullptr), and the stream after it, or
\* that the program breaks: OPTICK_VERIFY traps on a type it does not know, in
\* every build and before it returns; a length that no string can have throws;
\* OPTICK_FAILED traps on a message of another length, in a debug build only.
Create(s) ==
    LET length == s.cells[HeaderSize]
        body   == Drop(s, HeaderSize)
        type   == Field(body, 2, COUNT)
        fields == Drop(Drop(body, 1), 1)
        first  == Drop(fields, 1)
        after  == CASE type = Types.Start -> AfterString(first)
                    [] type = Types.TurnSampling -> Drop(first, 1)
                    [] OTHER -> fields
        msg    == CASE type = Types.Start ->
                           [type |-> "Start", settings |-> Field(fields, 1, 0),
                            password |-> base64_decode(String(first))]
                    [] type = Types.Stop -> [type |-> "Stop"]
                    [] type = Types.Cancel -> [type |-> "Cancel"]
                    [] type = Types.TurnSampling ->
                           [type |-> "TurnSampling", index |-> Field(fields, 1, 0),
                            isSampling |-> Field(first, 1, 0)]
        fits   == length + Length(after) = Length(body)
    IN  IF type \notin 0 .. COUNT - 1 THEN [breaks |-> TRUE, msg |-> << >>, stream |-> fields]
        ELSE IF type = Types.Start /\ Throws(first)
             THEN [breaks |-> TRUE, msg |-> << >>, stream |-> first]
        ELSE [breaks |-> Debug /\ ~fits, msg |-> IF fits THEN <<msg>> ELSE << >>,
              stream |-> after]

-----------------------------------------------------------------------------
Init ==
    /\ script = [c \in 1 .. Clients |-> 0]
    /\ written = [c \in 1 .. Clients |-> 0]
    /\ accepted = 0
    /\ received = [c \in 1 .. Clients |-> 0]
    /\ stream = [good |-> TRUE, cells |-> << >>]
    /\ pc = "frame"
    /\ applied = << >>

(* The clients, and the network between them and the server.  A client that *)
(* leaves is one that writes nothing any more: recv returns 0 for it too.   *)

Connect(c) ==
    /\ script[c] = 0 /\ \A k \in 1 .. c - 1 : script[k] # 0
    /\ \E i \in DOMAIN Scripts : script' = [script EXCEPT ![c] = i]
    /\ UNCHANGED <<written, accepted, received, stream, pc, applied>>

WriteCell(c) ==
    /\ script[c] # 0 /\ written[c] < Len(Text[script[c]])
    /\ written' = [written EXCEPT ![c] = @ + 1]
    /\ UNCHANGED <<script, accepted, received, stream, pc, applied>>

(* Server::Update, called by Core::Update in every frame.                   *)

\* InitConnection: a client that waits takes the place of the accepted one,
\* whose socket and unread data nobody looks at again.
Update ==
    /\ pc = "frame"
    /\ accepted' = IF accepted < Clients /\ script[accepted + 1] # 0
                   THEN accepted + 1 ELSE accepted
    /\ pc' = IF accepted' > 0 THEN "receive" ELSE "frame"
    /\ UNCHANGED <<client, received, stream, applied>>

\* What Socket::Receive returns: no more than the buffer holds.
ReceiveLength(waiting) == IF waiting < BufferSize THEN waiting ELSE BufferSize

\* One round of the loop over Socket::Receive, which does not wait for data.
Receive ==
    /\ pc = "receive"
    /\ LET c == accepted
           n == ReceiveLength(written[c] - received[c])
       IN  /\ received' = [received EXCEPT ![c] = @ + n]
           /\ stream' = Extend(stream, SubSeq(Text[script[c]], received[c] + 1, received[c] + n))
           /\ pc' = IF n > 0 THEN "receive" ELSE "create"
    /\ UNCHANGED <<client, accepted, applied>>

\* One round of the loop over IMessage::Create: the message is applied, and
\* what is no message ends the loop until the next frame, or the program.
Apply ==
    /\ pc = "create"
    /\ LET s == AtMark(stream)
       IN  IF ~Complete(s)
           THEN stream' = s /\ pc' = "frame" /\ UNCHANGED applied
           ELSE LET r == Create(s)
                IN  /\ stream' = r.stream
                    /\ pc' = IF r.breaks THEN "terminated"
                             ELSE IF r.msg = << >> THEN "frame" ELSE "create"
                    /\ applied' = applied \o r.msg
    /\ UNCHANGED <<client, accepted, received>>

Next == \/ \E c \in 1 .. Clients : Connect(c) \/ WriteCell(c)
        \/ Update \/ Receive \/ Apply

\* The program calls Update in every frame, so something goes on for ever once
\* a client is there; what clients do comes to an end, and they owe nothing.
AtRest == pc = "terminated" \/ (accepted = 0 /\ \A c \in 1 .. Clients : script[c] = 0)
Spec == Init /\ [][Next]_vars /\ ([]<>AtRest \/ []<><<TRUE>>_vars)

-----------------------------------------------------------------------------
(* Properties.                                                              *)

\* Where the units of a script end, and how many of them the server has read of
\* a client that has connected.
Ends == << >> \o [i \in DOMAIN Scripts |->
            << >> \o [n \in DOMAIN Scripts[i] |-> Len(AllCells(SubSeq(Scripts[i], 1, n)))]]
UnitsIn(i, cells) == Max({0} \cup {n \in DOMAIN Ends[i] : Ends[i][n] <= cells})
UnitsRead(c) == UnitsIn(script[c], received[c])

\* A client was replaced when the server had read only a part of a command.
Torn == \E c \in 1 .. accepted - 1 :
            received[c] \notin {0} \cup ToSet(Ends[script[c]])

\* The commands that were read completely, in the order they were sent, those
\* of a later version with them.
Command(u) == IF u.type # "Garbage" THEN <<u>> ELSE << >>
CommandsIn(units) == FlattenSeq([n \in DOMAIN units |-> Command(units[n])])
CommandsRead(c) == CommandsIn(SubSeq(Scripts[script[c]], 1, UnitsRead(c)))
Commands == FlattenSeq([c \in 1 .. accepted |-> CommandsRead(c)])

\* What comes after the applied commands is a command of a later version.
NextIsLater == /\ Len(applied) < Len(Commands)
               /\ Commands[Len(applied) + 1].type = "Later"

\* The commands applied are those sent, field by field and password included,
\* in order, none twice and none left out before another, however the network
\* cut the stream and whatever garbage lies in between, and also when one client
\* takes the place of another; none is applied that comes after a command of a
\* later version; and nothing is read that nobody wrote.
InOrder ==
    /\ \A c \in 1 .. Clients : received[c] <= written[c]
    /\ ~Torn => applied = SubSeq(Commands, 1, Len(applied))

\* When no command was cut in two by a client that left, the stream does not
\* fail, and nothing brings the program down but a command of a later version,
\* and that only when every command before it has been applied.
BreaksOnlyAtLater == ~Torn => Good /\ (pc = "terminated" => NextIsLater)

\* Every command whose last cell was read is applied in the end, unless the
\* program ended at a command of a later version, which comes before it.
AllApplied == []<>(Torn \/ Len(applied) = Len(Commands) \/ (pc = "terminated" /\ NextIsLater))
=============================================================================
