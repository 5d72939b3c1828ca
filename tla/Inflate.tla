------------------------------- MODULE Inflate -------------------------------
(***************************************************************************)
(* The decompressor of optick_miniz.cpp as a function from the bytes of a  *)
(* zlib stream to the bytes it stands for: mz_uncompress, which hands the  *)
(* whole stream to tinfl_decompress in one call with an output buffer of a *)
(* given capacity.  The coroutine's states, the bit buffer and the two-    *)
(* level look-up table are left out: they change what a step costs, not    *)
(* what it yields.  Deflate.tla uses it to say what a capture file holds.  *)
(***************************************************************************)
EXTENDS Integers, Sequences, FiniteSets, TLC

\* f itself, evaluated once (see DeflateBlock).
LOCAL Tabulated(f) == f @@ << >>

LOCAL LengthBase == <<3, 4, 5, 6, 7, 8, 9, 10, 11, 13, 15, 17, 19, 23, 27, 31, 35, 43, 51, 59,
                      67, 83, 99, 115, 131, 163, 195, 227, 258, 0, 0>>
LOCAL LengthExtraBits == <<0, 0, 0, 0, 0, 0, 0, 0, 1, 1, 1, 1, 2, 2, 2, 2, 3, 3, 3, 3,
                           4, 4, 4, 4, 5, 5, 5, 5, 0, 0, 0>>
LOCAL DistBase == <<1, 2, 3, 4, 5, 7, 9, 13, 17, 25, 33, 49, 65, 97, 129, 193, 257, 385, 513,
                    769, 1025, 1537, 2049, 3073, 4097, 6145, 8193, 12289, 16385, 24577, 0, 0>>
LOCAL DistExtraBits == <<0, 0, 0, 0, 1, 1, 2, 2, 3, 3, 4, 4, 5, 5, 6, 6, 7, 7, 8, 8, 9, 9,
                         10, 10, 11, 11, 12, 12, 13, 13, 0, 0>>
LOCAL Dezigzag == <<16, 17, 18, 0, 8, 7, 9, 6, 10, 5, 11, 4, 12, 3, 13, 2, 14, 1, 15>>

RECURSIVE SumOf(_)
SumOf(s) == IF Len(s) <= 1 THEN IF s = << >> THEN 0 ELSE s[1]
            ELSE LET h == Len(s) \div 2
                 IN  SumOf(SubSeq(s, 1, h)) + SumOf(SubSeq(s, h + 1, Len(s)))

\* mz_adler32: both sums after a sequence of bytes, from the sums before it.
Adler32(a, bytes) ==
    LET n == Len(bytes)
    IN  [s1 |-> (a.s1 + SumOf(bytes)) % 65521,
         s2 |-> (a.s2 + n * a.s1 + SumOf([i \in 1 .. n |-> (n + 1 - i) * bytes[i]])) % 65521]
AdlerInit == [s1 |-> 1, s2 |-> 0]
AdlerBytes(a) == <<a.s2 \div 256, a.s2 % 256, a.s1 \div 256, a.s1 % 256>>

\* Bit p (from 0) of the stream; bytes past the end are caught by Status.
LOCAL BitAt(in, p) == IF p \div 8 < Len(in) THEN (in[p \div 8 + 1] \div 2^(p % 8)) % 2 ELSE 0
LOCAL Exhausted(in, p) == p > 8 * Len(in)

\* TINFL_GET_BITS: n bits from bit p on, the lowest first.
LOCAL SumBits(in, p, n) ==
    LET sum[i \in 0 .. n] == IF i = 0 THEN 0 ELSE sum[i - 1] + BitAt(in, p + i - 1) * 2^(i - 1)
    IN  sum[n]

\* The tables tinfl_decompress builds from code sizes: the first code of each
\* size; a table that is used by more than one symbol has to be complete.
BuildTable(sizes) ==
    LET total == Tabulated([i \in 1 .. 15 |->
                               Cardinality({s \in DOMAIN sizes : sizes[s] = i})])
        next[i \in 1 .. 16] == IF i = 1 THEN 0 ELSE 2 * (next[i - 1] + total[i - 1])
        used == Cardinality({s \in DOMAIN sizes : sizes[s] > 0})
    IN  [sizes |-> Tabulated(sizes),
         first |-> Tabulated([i \in 1 .. 15 |-> next[i]]),
         total |-> total,
         bad   |-> next[16] # 65536 /\ used > 1]

\* TINFL_HUFF_DECODE: the symbol whose code starts at bit p.  A code that is
\* not in the table finds an empty slot: symbol 0, of no bits.
HuffDecode(in, p, t) ==
    LET c[n \in 0 .. 15] == IF n = 0 THEN 0 ELSE 2 * c[n - 1] + BitAt(in, p + n - 1)
        Hits(code) == {n \in 1 .. 15 : code[n] >= t.first[n] /\ code[n] < t.first[n] + t.total[n]}
        Nth(i, n) == CHOOSE s \in DOMAIN t.sizes :
                        /\ t.sizes[s] = n
                        /\ Cardinality({x \in DOMAIN t.sizes : x < s /\ t.sizes[x] = n}) = i
        OfSize(n, code) == [sym |-> Nth(code[n] - t.first[n], n), p |-> p + n]
        Find(hits, code) == IF hits = {} THEN [sym |-> 0, p |-> p]
                            ELSE OfSize(CHOOSE m \in hits : \A k \in hits : m <= k, code)
        Decode(code) == Find(Hits(code), code)
    IN  Decode(Tabulated([n \in 1 .. 15 |-> c[n]]))

\* The state of the decompressor between two symbols, and its end.
LOCAL At(p, out, status) == [p |-> p, out |-> out, status |-> status]

\* A stored block, from the byte boundary on.
StoredBlock(in, p, out, cap) ==
    LET start == ((p + 7) \div 8) * 8
        len   == SumBits(in, start, 16)
        room  == cap - Len(out)
        n     == IF len < room THEN len ELSE room
        data  == [i \in 1 .. n |-> SumBits(in, start + 32 + 8 * (i - 1), 8)]
    IN  IF len # 65535 - SumBits(in, start + 16, 16) THEN At(start, out, "Failed")
        ELSE At(start + 32 + 8 * n, out \o data, IF n < len THEN "MoreOutput" ELSE "Ok")

\* The literals and matches of a compressed block, up to its end symbol.
RECURSIVE Symbols(_, _, _, _, _, _)
Symbols(in, p, out, cap, lit, dist) ==
    LET Copied(from, n) == out \o [i \in 1 .. n |-> out[(Len(out) - from + 1) + ((i - 1) % from)]]
        Match(len, from, q) ==
            CASE from > Len(out) -> At(q, out, "Failed")
              [] from <= Len(out) /\ len > cap - Len(out) ->
                    At(q, Copied(from, cap - Len(out)), "MoreOutput")
              [] OTHER -> Symbols(in, q, Copied(from, len), cap, lit, dist)
        Distance(len, d) ==
            LET extra == DistExtraBits[d.sym + 1]
            IN  Match(len, DistBase[d.sym + 1] + SumBits(in, d.p, extra), d.p + extra)
        Length(s) ==
            LET extra == LengthExtraBits[s.sym - 256]
            IN  Distance(LengthBase[s.sym - 256] + SumBits(in, s.p, extra),
                         HuffDecode(in, s.p + extra, dist))
        Symbol(s) ==
            CASE s.sym < 256 /\ Len(out) = cap -> At(s.p, out, "MoreOutput")
              [] s.sym < 256 /\ Len(out) < cap ->
                    Symbols(in, s.p, Append(out, s.sym), cap, lit, dist)
              [] s.sym = 256 -> At(s.p, out, "Ok")
              [] OTHER -> Length(s)
    IN  IF Exhausted(in, p) THEN At(p, out, "NoProgress") ELSE Symbol(HuffDecode(in, p, lit))

\* The code sizes of a dynamic block, read through the table of size codes.
RECURSIVE CodeSizeList(_, _, _, _, _)
CodeSizeList(in, p, t, want, got) ==
    LET Repeated(n, x) == got \o [i \in 1 .. n |-> x]
        Size(s) ==
            LET extra == <<2, 3, 7>>[s.sym - 15]
                n == <<3, 3, 11>>[s.sym - 15] + SumBits(in, s.p, extra)
            IN  CASE s.sym < 16 -> CodeSizeList(in, s.p, t, want, Append(got, s.sym))
                  [] s.sym = 16 /\ got = << >> -> At(p, got, "Failed")
                  [] OTHER -> CodeSizeList(in, s.p + extra, t, want,
                                           Repeated(n, IF s.sym = 16 THEN got[Len(got)] ELSE 0))
    IN  IF Exhausted(in, p) THEN At(p, got, "NoProgress")
        ELSE IF Len(got) >= want THEN At(p, got, IF Len(got) = want THEN "Ok" ELSE "Failed")
        ELSE Size(HuffDecode(in, p, t))

DynamicBlock(in, p, out, cap) ==
    LET numLit  == 257 + SumBits(in, p, 5)
        numDist == 1 + SumBits(in, p + 5, 5)
        numSize == 4 + SumBits(in, p + 10, 4)
        size == [s \in 0 .. 18 |->
                    LET i == CHOOSE j \in 1 .. 19 : Dezigzag[j] = s
                    IN  IF i <= numSize THEN SumBits(in, p + 14 + 3 * (i - 1), 3) ELSE 0]
        Coded(q, lit, dist) == IF lit.bad \/ dist.bad THEN At(q, out, "Failed")
                               ELSE Symbols(in, q, out, cap, lit, dist)
        Listed(list) ==
            IF list.status # "Ok" THEN At(list.p, out, list.status)
            ELSE Coded(list.p, BuildTable([s \in 0 .. numLit - 1 |-> list.out[s + 1]]),
                       BuildTable([s \in 0 .. numDist - 1 |-> list.out[numLit + s + 1]]))
        Sized(t) == IF t.bad THEN At(p, out, "Failed")
                    ELSE Listed(CodeSizeList(in, p + 14 + 3 * numSize, t, numLit + numDist, << >>))
    IN  Sized(BuildTable(size))

StaticBlock(in, p, out, cap) ==
    Symbols(in, p, out, cap,
            BuildTable([s \in 0 .. 287 |-> IF s <= 143 \/ s >= 280 THEN 8
                                           ELSE IF s <= 255 THEN 9 ELSE 7]),
            BuildTable([s \in 0 .. 31 |-> 5]))

\* The loop over the blocks, until one has its final bit set.
RECURSIVE Blocks(_, _, _, _)
Blocks(in, p, out, cap) ==
    LET type  == SumBits(in, p + 1, 2)
        block == CASE type = 0 -> StoredBlock(in, p + 3, out, cap)
                   [] type = 1 -> StaticBlock(in, p + 3, out, cap)
                   [] type = 2 -> DynamicBlock(in, p + 3, out, cap)
                   [] type = 3 -> At(p + 3, out, "Failed")
        After(b) == IF b.status # "Ok" \/ BitAt(in, p) = 1 THEN b ELSE Blocks(in, b.p, b.out, cap)
    IN  IF Exhausted(in, p + 3) THEN At(p, out, "NoProgress") ELSE After(block)

\* mz_uncompress: header, blocks, and the checksum of what came out.
Uncompress(in, cap) ==
    LET header == Len(in) < 2 \/ (in[1] * 256 + in[2]) % 31 # 0
                    \/ (in[2] \div 32) % 2 = 1 \/ in[1] % 16 # 8
        Summed(tail, out) == /\ tail + 4 <= Len(in)
                             /\ SubSeq(in, tail + 1, tail + 4) = AdlerBytes(Adler32(AdlerInit, out))
        Status(end) == IF end.status = "MoreOutput" THEN "BufError"
                       ELSE IF end.status = "Ok" /\ Summed((end.p + 7) \div 8, end.out) THEN "Ok"
                       ELSE "DataError"
        Result(end) == [status |-> Status(end), data |-> end.out]
    IN  IF header THEN [status |-> "DataError", data |-> << >>]
        ELSE Result(Blocks(in, 16, << >>, cap))
=============================================================================
