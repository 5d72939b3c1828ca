----------------------------- MODULE MemoryPool -----------------------------
(***************************************************************************)
(* The container that holds everything a capture records: MemoryPool of    *)
(* optick_memory.h, a list of chunks of a fixed size that elements are     *)
(* added to at the end.  The chunks are a sequence here, in the order of    *)
(* their next pointers; chunk is the number of the current one (0 for the  *)
(* null pointer), and chunks after it are kept for reuse.  Elements are     *)
(* not constructed: a new one holds whatever its memory held before.       *)
(***************************************************************************)
EXTENDS Integers, Sequences

\* The pool as its constructor leaves it.
EmptyPool(size) == [size |-> size, chunks |-> << >>, chunk |-> 0, index |-> size]

IsPool(p, Elements) ==
    /\ p.size \in Nat \ {0}
    /\ p.chunk \in 0 .. Len(p.chunks) /\ p.index \in 0 .. p.size
    /\ p.chunk = 0 => p.chunks = << >> /\ p.index = p.size
    /\ \A c \in DOMAIN p.chunks : p.chunks[c] \in [1 .. p.size -> Elements]

\* The next chunk, which is allocated if there is none; what the memory of a
\* new chunk holds is junk.
AddChunk(p, junk) ==
    [p EXCEPT !.index = 0, !.chunk = @ + 1,
              !.chunks = IF p.chunk = Len(@) THEN Append(@, [i \in 1 .. p.size |-> junk]) ELSE @]

\* Add(): room for one more element, which is then at LastPlace.
Reserve(p, junk) ==
    LET q == IF p.index >= p.size THEN AddChunk(p, junk) ELSE p
    IN  [q EXCEPT !.index = @ + 1]
LastPlace(p) == <<p.chunk, p.index>>

At(p, loc) == p.chunks[loc[1]][loc[2]]
Write(p, loc, x) == [p EXCEPT !.chunks[loc[1]][loc[2]] = x]

\* Add(item).
Add(p, x) == LET q == Reserve(p, x) IN Write(q, LastPlace(q), x)

\* TryAdd(count): whether the current chunk has room for count elements.
HasRoom(p, count) == p.index + count <= p.size

IsEmpty(p) == p.chunk = 0 \/ (p.chunk = 1 /\ p.index = 0)

\* Back(): the place of the last element; << >> for the null pointer.
Back(p) == IF p.chunk # 0 /\ p.index > 0 THEN LastPlace(p)
           ELSE IF p.chunk > 1 THEN <<p.chunk - 1, p.size>>
           ELSE << >>

Size(p) == IF p.chunks = << >> THEN 0 ELSE (p.chunk - 1) * p.size + p.index

\* ForEach and ToArray: the chunks before the current one, and its elements.
Items(p) == [k \in 1 .. Size(p) |-> p.chunks[((k - 1) \div p.size) + 1][((k - 1) % p.size) + 1]]

\* Clear(): keep the chunks for reuse, or free them.
ClearPool(p, preserveMemory) ==
    IF ~preserveMemory THEN EmptyPool(p.size)
    ELSE IF p.chunks = << >> THEN p
    ELSE [p EXCEPT !.chunk = 1, !.index = 0]

\* const_iterator from begin() to end(): it never stands behind the last
\* element of a chunk, so a full last chunk has no end, and the walk goes on to
\* the chunks kept for reuse and through the null pointer after them.
WalkEnds(p) == p.chunk = 0 \/ p.index < p.size
=============================================================================
