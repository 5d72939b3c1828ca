---------------------------- MODULE DeflateBlock ----------------------------
(***************************************************************************)
(* The bits of one deflate block, as optick_miniz.cpp writes them: the     *)
(* length and distance symbols, the Huffman codes of a block and the two   *)
(* kinds of block header.  Symbols, extra bits and headers are the code's  *)
(* own, so a stream built from these operators is a real zlib stream; only *)
(* the limits on code sizes are parameters, to let short inputs reach them.*)
(* A stream of bits is a sequence, the bit that is written first first.    *)
(***************************************************************************)
EXTENDS Integers, Sequences, FiniteSets, TLC

CONSTANTS MaxCodeSize,    \* longest literal or distance code: 15
          MaxSizeCode     \* longest code of a code size: 7

ASSUME CodeSizes == MaxCodeSize \in 1 .. 15 /\ MaxSizeCode \in 1 .. 7

\* f itself.  TLC evaluates a function constructor anew wherever it is applied,
\* and the operand of @@ once.
LOCAL Tabulated(f) == f @@ << >>

LOCAL Longest == 32                     \* TDEFL_MAX_SUPPORTED_HUFF_CODESIZE
LOCAL SizeOrder == <<16, 17, 18, 0, 8, 7, 9, 6, 10, 5, 11, 4, 12, 3, 13, 2, 14, 1, 15>>

\* TDEFL_PUT_BITS: the n low bits of v, the lowest first.
Bits(v, n) == [i \in 1 .. n |-> (v \div 2^(i - 1)) % 2]

\* The first of n bits is the highest: how a Huffman code is written.
LOCAL Reversed(v, n) == [i \in 1 .. n |-> (v \div 2^(n - i)) % 2]

RECURSIVE Concat(_)
Concat(s) ==
    IF Len(s) <= 1 THEN IF s = << >> THEN s ELSE s[1]
    ELSE LET h == Len(s) \div 2
         IN  Concat(SubSeq(s, 1, h)) \o Concat(SubSeq(s, h + 1, Len(s)))

LOCAL Log2(n) == CHOOSE e \in 0 .. 15 : 2^e <= n /\ n < 2^(e + 1)

\* s_tdefl_len_sym and s_tdefl_len_extra, for the length less MIN_MATCH_LEN.
LengthExtra(l) == IF l < 8 \/ l = 255 THEN 0 ELSE Log2(l) - 2
LengthSymbol(l) ==
    IF l < 8 THEN 257 + l
    ELSE IF l = 255 THEN 285
    ELSE LET e == LengthExtra(l) IN 257 + 4 * e + l \div 2^e

\* The s_tdefl_small_dist and s_tdefl_large_dist tables, for the distance less 1.
DistExtra(d) == IF d < 4 THEN 0 ELSE Log2(d) - 1
DistSymbol(d) == IF d < 4 THEN d ELSE LET e == DistExtra(d) IN 2 * e + d \div 2^e

(***************************************************************************)
(* Huffman codes.  count is a function from symbols to how often each one  *)
(* occurs in the block.                                                    *)
(***************************************************************************)

\* tdefl_radix_sort_syms: the used symbols by count, equal counts by number.
SortSymbols(count) ==
    LET used == {s \in DOMAIN count : count[s] > 0}
        Before(s) == {t \in used : count[t] < count[s] \/ (count[t] = count[s] /\ t < s)}
    IN  Tabulated([i \in 1 .. Cardinality(used) |->
                      CHOOSE s \in used : Cardinality(Before(s)) = i - 1])

\* tdefl_calculate_minimum_redundancy: the tree of the weights, leaves and
\* inner nodes each in order of weight.  A node is its weight and, for every
\* depth, how many leaves it has there.  Of two equal weights the leaf is taken.
LOCAL Leaf(w) == [weight |-> w,
                  leaves |-> Tabulated([d \in 0 .. Longest |-> IF d = 0 THEN 1 ELSE 0])]
LOCAL Node(x, y) ==
    [weight |-> x.weight + y.weight,
     leaves |-> Tabulated([d \in 0 .. Longest |->
                              IF d = 0 THEN 0 ELSE x.leaves[d - 1] + y.leaves[d - 1]])]

RECURSIVE MinimumRedundancy(_, _)
MinimumRedundancy(leaves, nodes) ==
    LET FromNodes(l, n) == n # << >> /\ (l = << >> \/ n[1].weight < l[1].weight)
        n1 == FromNodes(leaves, nodes)
        x  == IF n1 THEN nodes[1] ELSE leaves[1]
        l2 == IF n1 THEN leaves ELSE Tail(leaves)
        m2 == IF n1 THEN Tail(nodes) ELSE nodes
        n2 == FromNodes(l2, m2)
        y  == IF n2 THEN m2[1] ELSE l2[1]
    IN  IF Len(leaves) + Len(nodes) = 1 THEN x.leaves
        ELSE MinimumRedundancy(IF n2 THEN l2 ELSE Tail(l2),
                               Append(IF n2 THEN Tail(m2) ELSE m2, Node(x, y)))

RECURSIVE SumTo(_, _)
SumTo(f, n) == IF n = 0 THEN 0 ELSE f[n] + SumTo(f, n - 1)

\* tdefl_huffman_enforce_max_code_size: codes longer than limit are moved to
\* limit, then shorter ones are lengthened until the code is complete again.
EnforceMaxCodeSize(num, limit) ==
    LET folded == [i \in DOMAIN num |->
                      IF i = limit
                      THEN SumTo([j \in 1 .. Longest |-> IF j < limit THEN 0 ELSE num[j]], Longest)
                      ELSE IF i > limit THEN 0 ELSE num[i]]
        Kraft(n) == SumTo([i \in 1 .. limit |-> n[i] * 2^(limit - i)], limit)
        RECURSIVE Lengthen(_)
        Lengthen(n) ==
            LET m == [n EXCEPT ![limit] = @ - 1]
                shorter == {i \in 1 .. limit - 1 : m[i] > 0}
                i == CHOOSE j \in shorter : \A k \in shorter : k <= j
            IN  IF Kraft(n) = 2^limit THEN n
                ELSE Lengthen(IF shorter = {} THEN m
                              ELSE [m EXCEPT ![i] = @ - 1, ![i + 1] = @ + 2])
    IN  Lengthen(Tabulated(folded))

\* tdefl_optimize_huffman_table, the dynamic half: how many bits each symbol
\* gets, the shortest codes for the last symbols of the sorted list.
OptimizeSizes(count, limit) ==
    LET Numbers(weights) ==
            IF Len(weights) = 1 THEN [i \in 0 .. Longest |-> IF i = 1 THEN 1 ELSE 0]
            ELSE EnforceMaxCodeSize(MinimumRedundancy(weights, << >>), limit)
        Size(upTo, k) == CHOOSE i \in 1 .. limit : upTo[i] >= k /\ upTo[i - 1] < k
        Assign(sorted, num) ==
            LET n    == Len(sorted)
                upTo == Tabulated([i \in 0 .. limit |-> SumTo(num, i)])
            IN  Tabulated([s \in DOMAIN count |->
                    IF count[s] = 0 THEN 0
                    ELSE Size(upTo, n + 1 - CHOOSE k \in 1 .. n : sorted[k] = s)])
        Sizes(sorted) ==
            IF sorted = << >> THEN [s \in DOMAIN count |-> 0]
            ELSE Assign(sorted, Numbers(<< >> \o [i \in DOMAIN sorted |-> Leaf(count[sorted[i]])]))
    IN  Sizes(SortSymbols(count))

\* tdefl_optimize_huffman_table, the common half: the canonical codes of the
\* sizes, as the bits that are written for each symbol.
HuffmanCodes(sizes, limit) ==
    LET num == Tabulated([i \in 1 .. limit |->
                             Cardinality({s \in DOMAIN sizes : sizes[s] = i})])
        next[i \in 1 .. limit] == IF i = 1 THEN 0 ELSE 2 * (next[i - 1] + num[i - 1])
        first == Tabulated([i \in 1 .. limit |-> next[i]])
    IN  Tabulated([s \in DOMAIN sizes |->
            IF sizes[s] = 0 THEN << >>
            ELSE Reversed(first[sizes[s]] +
                             Cardinality({t \in DOMAIN sizes : t < s /\ sizes[t] = sizes[s]}),
                          sizes[s])])

(***************************************************************************)
(* Block headers.                                                          *)
(***************************************************************************)

\* TDEFL_RLE_PREV_CODE_SIZE and TDEFL_RLE_ZERO_CODE_SIZE over a run of n equal
\* sizes, as pairs of a symbol and its extra value: zeros are written at most
\* 138 at a time; of other sizes the first is written, the rest by sixes.
LOCAL Repeat(x, n) == [i \in 1 .. n |-> x]
\* Mutant of RleZero: the long form counts from three, as the short one.
RleFromThree(n) == IF n < 3 THEN Repeat(<<0, 0>>, n)
                   ELSE IF n <= 10 THEN <<<<17, n - 3>>>> ELSE <<<<18, n - 3>>>>
RleZero(n) == IF n < 3 THEN Repeat(<<0, 0>>, n)
              ELSE IF n <= 10 THEN <<<<17, n - 3>>>> ELSE <<<<18, n - 11>>>>
RlePrev(size, n) == IF n < 3 THEN Repeat(<<size, 0>>, n) ELSE <<<<16, n - 3>>>>
LOCAL Run(size, n) ==
    IF size = 0 THEN Repeat(<<18, 127>>, n \div 138) \o RleZero(n % 138)
    ELSE <<<<size, 0>>>> \o Repeat(<<16, 3>>, (n - 1) \div 6) \o RlePrev(size, (n - 1) % 6)

\* The loop of tdefl_start_dynamic_block that packs the code sizes.
PackSizes(sizes) ==
    LET starts == {i \in DOMAIN sizes : i = 1 \/ sizes[i] # sizes[i - 1]}
        End(i) == CHOOSE e \in i .. Len(sizes) :
                      /\ \A j \in i .. e : sizes[j] = sizes[i]
                      /\ e = Len(sizes) \/ e + 1 \in starts
    IN  Concat([i \in DOMAIN sizes |->
                   IF i \in starts THEN Run(sizes[i], End(i) - i + 1) ELSE << >>])

\* Length of f up to its last used symbol, but at least low.
LOCAL UsedLength(f, low) ==
    LET used == {i + 1 : i \in {j \in DOMAIN f : f[j] > 0}} \cup {low}
    IN  CHOOSE n \in used : \A m \in used : m <= n

\* tdefl_start_dynamic_block: the sizes of the block's codes, run-length
\* encoded and in turn Huffman encoded.
DynamicHeader(lit, dist) ==
    LET numLit  == UsedLength(lit, 257)
        numDist == UsedLength(dist, 1)
        Extra(s) == IF s < 16 THEN 0 ELSE <<2, 3, 7>>[s - 15]
        Packed(packed, codes) ==
            Concat([i \in DOMAIN packed |->
                       codes[packed[i][1]] \o Bits(packed[i][2], Extra(packed[i][1]))])
        Coded(packed, sizes) ==
            LET numSizes == UsedLength([i \in 0 .. 18 |-> sizes[SizeOrder[i + 1]]], 4)
            IN  Bits(numSizes - 4, 4)
                \o Concat([i \in 1 .. numSizes |-> Bits(sizes[SizeOrder[i]], 3)])
                \o Packed(packed, HuffmanCodes(sizes, MaxSizeCode))
        Counted(packed) ==
            Coded(packed, OptimizeSizes(Tabulated([s \in 0 .. 18 |->
                              Cardinality({i \in DOMAIN packed : packed[i][1] = s})]), MaxSizeCode))
    IN  Bits(2, 2) \o Bits(numLit - 257, 5) \o Bits(numDist - 1, 5)
        \o Counted(PackSizes(<< >> \o [i \in 1 .. numLit + numDist |->
                                 IF i <= numLit THEN lit[i - 1] ELSE dist[i - numLit - 1]]))

\* tdefl_start_static_block: the sizes the deflate format fixes.
StaticLitSizes == [s \in 0 .. 287 |-> IF s <= 143 THEN 8 ELSE IF s <= 255 THEN 9
                                      ELSE IF s <= 279 THEN 7 ELSE 8]
StaticDistSizes == [s \in 0 .. 31 |-> 5]
StaticHeader == Bits(1, 2)

(***************************************************************************)
(* A block's codes.  A code is a literal (dist = 0) or a match.            *)
(***************************************************************************)
MinMatch == 3
LitLenSymbol(c) == IF c.dist = 0 THEN c.lit ELSE LengthSymbol(c.len - MinMatch)

\* m_huff_count[0] with the end-of-block symbol, and m_huff_count[1].
LitLenCount(codes) ==
    LET symbols == Tabulated([i \in DOMAIN codes |-> LitLenSymbol(codes[i])])
    IN  Tabulated([s \in 0 .. 287 |-> IF s = 256 THEN 1
                                      ELSE Cardinality({i \in DOMAIN codes : symbols[i] = s})])
DistCount(codes) ==
    Tabulated([s \in 0 .. 31 |-> Cardinality({i \in DOMAIN codes :
                                     codes[i].dist > 0 /\ DistSymbol(codes[i].dist - 1) = s})])

\* tdefl_compress_lz_codes, ended by the end-of-block symbol.
LzCodes(codes, lit, dist) ==
    LET Code(c) ==
            IF c.dist = 0 THEN lit[c.lit]
            ELSE LET l == c.len - MinMatch
                     d == c.dist - 1
                 IN  lit[LengthSymbol(l)]
                     \o Bits(l % 2^LengthExtra(l), LengthExtra(l))
                     \o dist[DistSymbol(d)]
                     \o Bits(d % 2^DistExtra(d), DistExtra(d))
    IN  Concat([i \in DOMAIN codes |-> Code(codes[i])]) \o lit[256]

\* tdefl_compress_block: the header of a block, and its codes.
CompressBlock(codes, static) ==
    LET Block(lit, dist, limit) ==
            [header |-> IF static THEN StaticHeader ELSE DynamicHeader(lit, dist),
             codes  |-> LzCodes(codes, HuffmanCodes(lit, limit), HuffmanCodes(dist, limit))]
    IN  IF static THEN Block(StaticLitSizes, StaticDistSizes, 15)
        ELSE Block(OptimizeSizes(LitLenCount(codes), MaxCodeSize),
                   OptimizeSizes(DistCount(codes), MaxCodeSize), MaxCodeSize)
=============================================================================
