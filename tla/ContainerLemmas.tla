--------------------------- MODULE ContainerLemmas ---------------------------
(***************************************************************************)
(* Facts about what the models keep their data in, for the proofs of more   *)
(* than one component: sequences joined to one, and the memory pool.        *)
(***************************************************************************)
EXTENDS MemoryPool, SequencesExt, TLAPS, SequenceTheorems, WellFoundedInduction

-----------------------------------------------------------------------------
(* Steps of numbers, functions built step by step, and division.             *)

(* Whatever holds of 0, and of n + 1 when it holds of n, holds of all n.     *)
LEMMA NatSteps ==
    ASSUME NEW X, 0 \in X, \A n \in Nat : n \in X => n + 1 \in X
    PROVE  Nat \subseteq X
<1> SUFFICES ASSUME Nat \ X # {} PROVE FALSE
  OBVIOUS
<1>1. PICK x \in Nat \ X : \A y \in Nat \ X : ~(<<y, x>> \in OpToRel(<, Nat))
  BY NatLessThanWellFounded, WFMin, Zenon
<1>2. \A y \in Nat \ X : ~(y < x)
  BY <1>1 DEF OpToRel
<1>3. x \in Nat /\ x \notin X /\ x # 0
  BY <1>1
<1>4. x - 1 \in Nat /\ x - 1 < x /\ (x - 1) + 1 = x
  BY <1>3
<1> QED
  BY <1>2, <1>3, <1>4

(* What holds at 0, and carries over from each step to the next, holds up to  *)
(* the end.                                                                  *)
LEMMA StepsUpTo ==
    ASSUME NEW n \in Nat, NEW X, 0 \in X, \A k \in 0 .. n - 1 : k \in X => k + 1 \in X
    PROVE  0 .. n \subseteq X
<1> DEFINE Y == X \cup {k \in Nat : k > n}
<1>1. 0 \in Y /\ \A k \in Nat : k \in Y => k + 1 \in Y
  OBVIOUS
<1> HIDE DEF Y
<1>2. Nat \subseteq Y
  BY <1>1, NatSteps
<1> QED
  BY <1>2 DEF Y

(* A function can be built from 0 up, each value from the one before.        *)
Steps(f, b, G, n) == f[0] = b /\ \A i \in 1 .. n : f[i] = G[<<f[i - 1], i>>]

LEMMA Iterates ==
    ASSUME NEW S, NEW b \in S, NEW n \in Nat, NEW G \in [S \X (1 .. n) -> S]
    PROVE  \E f \in [0 .. n -> S] : Steps(f, b, G, n)
<1> DEFINE Goes(f, k) == f[0] = b /\ \A i \in 1 .. k : f[i] = G[<<f[i - 1], i>>]
           X == {k \in 0 .. n : \E f \in [0 .. k -> S] : Goes(f, k)}
<1>1. 0 \in X
  <2>1. [i \in 0 .. 0 |-> b] \in [0 .. 0 -> S] /\ Goes([i \in 0 .. 0 |-> b], 0)
    OBVIOUS
  <2> HIDE DEF Goes
  <2> QED
    BY <2>1
<1>2. ASSUME NEW k \in 0 .. n - 1, k \in X PROVE k + 1 \in X
  <2>1. PICK f \in [0 .. k -> S] : Goes(f, k)
    BY <1>2
  <2>2. PICK g : g = [i \in 0 .. k + 1 |-> IF i <= k THEN f[i] ELSE G[<<f[k], k + 1>>]]
    OBVIOUS
  <2>3. f[k] \in S /\ <<f[k], k + 1>> \in S \X (1 .. n)
    OBVIOUS
  <2>4. G[<<f[k], k + 1>>] \in S
    BY <2>3
  <2>5. g \in [0 .. k + 1 -> S]
    BY <2>2, <2>4
  <2>6. Goes(g, k + 1)
    <3>1. g[0] = b
      BY <2>1, <2>2
    <3>2. ASSUME NEW i \in 1 .. k + 1 PROVE g[i] = G[<<g[i - 1], i>>]
      <4>1. g[i - 1] = f[i - 1]
        BY <2>2
      <4>2. CASE i <= k
        BY <2>1, <2>2, <4>1, <4>2
      <4>3. CASE i = k + 1
        <5>1. g[k + 1] = G[<<f[k], k + 1>>] /\ g[k] = f[k]
          BY <2>2
        <5>2. i - 1 = k
          BY <4>3
        <5> QED
          BY <4>3, <5>1, <5>2
      <4> QED
        BY <4>2, <4>3
    <3> QED
      BY <3>1, <3>2
  <2> HIDE DEF Goes
  <2> QED
    BY <2>5, <2>6
<1> HIDE DEF X
<1>3. 0 .. n \subseteq X
  BY <1>1, <1>2, StepsUpTo
<1>4. n \in X
  BY <1>3
<1> QED
  BY <1>4 DEF X, Steps

(* Division of a multiple and a rest.                                        *)
LEMMA DivMod ==
    ASSUME NEW s \in Nat \ {0}, NEW a \in Nat, NEW r \in 0 .. s - 1
    PROVE  (a * s + r) \div s = a /\ (a * s + r) % s = r
  OBVIOUS

LEMMA Parts ==
    ASSUME NEW s \in Nat \ {0}, NEW n \in Nat
    PROVE  n \div s \in Nat /\ n % s \in 0 .. s - 1 /\ n = (n \div s) * s + (n % s)
  OBVIOUS

(* A smaller number has a smaller quotient, or the same and a smaller rest.   *)
LEMMA PartsSmaller ==
    ASSUME NEW s \in Nat \ {0}, NEW a \in Nat, NEW b \in Nat, NEW q \in 0 .. s - 1, NEW r \in 0 .. s - 1,
           a * s + q < b * s + r
    PROVE  a < b \/ (a = b /\ q < r)
<1>1. SUFFICES ASSUME a >= b + 1 PROVE FALSE
  OBVIOUS
<1>2. a * s >= (b + 1) * s /\ (b + 1) * s = b * s + s
  BY <1>1
<1> QED
  BY <1>2

-----------------------------------------------------------------------------
(* Sequences joined to one.                                                  *)

(* f[k] is what the first k sequences of s make one behind the other.        *)
Joins(f, s) == f[0] = << >> /\ \A k \in 1 .. Len(s) : f[k] = f[k - 1] \o s[k]

LEMMA FlattenJoins ==
    ASSUME NEW C, NEW s \in Seq(Seq(C)), NEW f \in [0 .. Len(s) -> Seq(C)], Joins(f, s)
    PROVE  FlattenSeq(s) = f[Len(s)]
<1> DEFINE n == Len(s)
           flatten[i \in 1 .. n] == IF i = 1 THEN s[i] ELSE flatten[i - 1] \o s[i]
<1>1. n \in Nat /\ \A k \in 1 .. n : s[k] \in Seq(C)
  OBVIOUS
<1>2. f[0] = << >> /\ \A k \in 1 .. n : f[k] = f[k - 1] \o s[k]
  BY DEF Joins
<1>3. CASE n = 0
  <2>1. s = << >>
    BY <1>3
  <2> QED
    BY <1>2, <1>3, <2>1 DEF FlattenSeq
<1>4. CASE n # 0
  <2>1. FlattenSeq(s) = flatten[n]
    BY <1>4 DEF FlattenSeq
  <2> HIDE DEF n
  <2>2. \E g : g = [i \in 1 .. n |-> IF i = 1 THEN s[i] ELSE g[i - 1] \o s[i]]
    <3> DEFINE g == [i \in 1 .. n |-> f[i]]
    <3>1. ASSUME NEW i \in 1 .. n PROVE g[i] = IF i = 1 THEN s[i] ELSE g[i - 1] \o s[i]
      <4>1. CASE i = 1
        <5>0. 1 \in 1 .. n /\ 1 - 1 = 0
          BY <1>1
        <5>1. f[1] = << >> \o s[1] /\ s[1] \in Seq(C)
          BY <1>1, <1>2, <5>0
        <5> QED
          BY <4>1, <5>1, ConcatEmptySeq
      <4>2. CASE i # 1
        <5>1. i - 1 \in 1 .. n /\ g[i - 1] = f[i - 1] /\ g[i] = f[i]
          BY <1>1, <4>2
        <5> QED
          BY <1>2, <4>2, <5>1
      <4> QED
        BY <4>1, <4>2
    <3>2. g = [i \in 1 .. n |-> IF i = 1 THEN s[i] ELSE g[i - 1] \o s[i]]
      BY <3>1, SMTT(30)
    <3> QED
      BY <3>2
  <2>3. flatten = [i \in 1 .. n |-> IF i = 1 THEN s[i] ELSE flatten[i - 1] \o s[i]]
    BY <2>2, ZenonT(30)
  <2> HIDE DEF flatten
  <2> DEFINE X == {k \in 0 .. n : k # 0 => flatten[k] = f[k]}
  <2>4. 0 \in X
    BY <1>1
  <2>5. ASSUME NEW k \in 0 .. n - 1, k \in X PROVE k + 1 \in X
    <3>1. k + 1 \in 1 .. n /\ (k + 1) - 1 = k /\ s[k + 1] \in Seq(C)
      BY <1>1
    <3>2. flatten[k + 1] = IF k + 1 = 1 THEN s[k + 1] ELSE flatten[k] \o s[k + 1]
      BY <2>3, <3>1
    <3>3. f[k + 1] = f[k] \o s[k + 1]
      BY <1>2, <3>1
    <3>4. CASE k = 0
      <4>1. f[k + 1] = s[k + 1]
        BY <1>2, <3>1, <3>3, <3>4, ConcatEmptySeq
      <4> QED
        BY <3>1, <3>2, <3>4, <4>1
    <3>5. CASE k # 0
      <4>1. flatten[k] = f[k]
        BY <2>5, <3>5
      <4>2. flatten[k + 1] = f[k + 1]
        <5>1. k + 1 # 1
          BY <1>1, <3>5
        <5> QED
          BY <3>2, <3>3, <4>1, <5>1
      <4> QED
        BY <3>1, <4>2
    <3> QED
      BY <3>4, <3>5
  <2> HIDE DEF X
  <2>6. 0 .. n \subseteq X
    BY <1>1, <2>4, <2>5, StepsUpTo
  <2>7. n \in X
    BY <1>1, <2>6
  <2>8. flatten[n] = f[n]
    BY <1>4, <2>7 DEF X
  <2> QED
    BY <2>1, <2>8 DEF n
<1> QED
  BY <1>3, <1>4

(* A further sequence comes behind the others.                               *)
LEMMA FlattenAppend ==
    ASSUME NEW C, NEW s \in Seq(Seq(C)), NEW x \in Seq(C)
    PROVE  FlattenSeq(Append(s, x)) = FlattenSeq(s) \o x /\ FlattenSeq(s) \in Seq(C)
<1> DEFINE n == Len(s)  S == Seq(C)  e == << >>  t == Append(s, x)
<1>1. n \in Nat /\ e \in S /\ \A k \in 1 .. n : s[k] \in S
  OBVIOUS
<1>2. t \in Seq(S) /\ Len(t) = n + 1 /\ t[n + 1] = x /\ \A k \in 1 .. n : t[k] = s[k]
  OBVIOUS
<1>3. \E f \in [0 .. n -> S] : Joins(f, s)
  <2> DEFINE G == [a \in S \X (1 .. n) |-> a[1] \o s[a[2]]]
  <2>1. G \in [S \X (1 .. n) -> S]
    <3>1. ASSUME NEW a \in S \X (1 .. n) PROVE a[1] \o s[a[2]] \in S
      <4>1. a[1] \in S /\ s[a[2]] \in S
        BY <1>1
      <4> QED
        BY <4>1, ConcatProperties
    <3> QED
      BY <3>1
  <2>2. \A q \in S, k \in 1 .. n : G[<<q, k>>] = q \o s[k]
    OBVIOUS
  <2> HIDE DEF G, n, S, e
  <2>3. PICK f \in [0 .. n -> S] : Steps(f, e, G, n)
    BY <1>1, <2>1, Iterates
  <2>4. f[0] = e /\ \A k \in 1 .. n : f[k] = G[<<f[k - 1], k>>]
    BY <2>3 DEF Steps
  <2>5. ASSUME NEW k \in 1 .. n PROVE f[k] = f[k - 1] \o s[k]
    <3>1. f[k - 1] \in S
      BY <1>1
    <3> QED
      BY <2>2, <2>4, <3>1
  <2>6. Joins(f, s)
    BY <2>4, <2>5 DEF Joins, e, n
  <2> QED
    BY <2>6
<1> HIDE DEF n, S, t
<1>4. PICK f \in [0 .. n -> S] : Joins(f, s)
  BY <1>3
<1> DEFINE h == [k \in 0 .. n + 1 |-> IF k <= n THEN f[k] ELSE f[n] \o x]
<1>5. f[n] \in S /\ f[n] \o x \in S
  <2>1. f[n] \in Seq(C)
    BY <1>1 DEF S
  <2> QED
    BY <2>1, ConcatProperties DEF S
<1>6. h \in [0 .. n + 1 -> S] /\ h[n + 1] = f[n] \o x
  BY <1>1, <1>5
<1>7. Joins(h, t)
  <2>1. h[0] = << >>
    BY <1>1, <1>4 DEF Joins
  <2>2. ASSUME NEW k \in 1 .. n + 1 PROVE h[k] = h[k - 1] \o t[k]
    <3>1. CASE k <= n
      <4>1. k \in 1 .. n /\ h[k] = f[k] /\ h[k - 1] = f[k - 1] /\ t[k] = s[k]
        BY <1>1, <1>2, <3>1
      <4> QED
        BY <1>4, <4>1 DEF Joins, n
    <3>2. CASE k = n + 1
      <4>1. k - 1 = n /\ h[n] = f[n] /\ h[n + 1] = f[n] \o x
        BY <1>1, <3>2
      <4> QED
        BY <1>2, <3>2, <4>1
    <3>3. k <= n \/ k = n + 1
      BY <1>1
    <3> QED
      BY <3>1, <3>2, <3>3
  <2> HIDE DEF h
  <2> QED
    BY <1>2, <2>1, <2>2 DEF Joins
<1> HIDE DEF h
<1>8. FlattenSeq(s) = f[n]
  BY <1>4, FlattenJoins DEF n, S
<1>9. FlattenSeq(t) = h[n + 1]
  BY <1>2, <1>6, <1>7, FlattenJoins DEF S
<1> QED
  BY <1>5, <1>6, <1>8, <1>9 DEF t, S

(* No sequences, no items.                                                   *)
LEMMA NothingFlat == FlattenSeq(<< >>) = << >>
  BY DEF FlattenSeq

(* s has from k to z what t has from l to y.                                 *)
Alike(s, k, z, t, l, y) ==
    /\ k \in Int /\ z \in Int /\ l \in Int /\ y \in Int /\ z - k = y - l
    /\ \A j \in 1 .. (z - k) + 1 : s[k + j - 1] = t[l + j - 1]

Part(s, k, z) == SubSeq(s, k, z)

LEMMA AlikeParts ==
    ASSUME NEW s, NEW k, NEW z, NEW t, NEW l, NEW y, Alike(s, k, z, t, l, y)
    PROVE  Part(s, k, z) = Part(t, l, y)
<1>0. /\ k \in Int /\ z \in Int /\ l \in Int /\ y \in Int /\ z - k = y - l
      /\ \A j \in 1 .. (z - k) + 1 : s[k + j - 1] = t[l + j - 1]
  BY DEF Alike
<1> DEFINE S == {s[i] : i \in k .. z} \cup {t[i] : i \in l .. y}
<1>1. (\A i \in k .. z : s[i] \in S) /\ (\A i \in l .. y : t[i] \in S)
  OBVIOUS
<1> HIDE DEF S
<1>2. /\ SubSeq(s, k, z) \in Seq(S) /\ Len(SubSeq(s, k, z)) = IF k <= z THEN z - k + 1 ELSE 0
      /\ \A i \in 1 .. z - k + 1 : SubSeq(s, k, z)[i] = s[k + i - 1]
  BY <1>0, <1>1, SubSeqProperties
<1>3. /\ SubSeq(t, l, y) \in Seq(S) /\ Len(SubSeq(t, l, y)) = IF l <= y THEN y - l + 1 ELSE 0
      /\ \A i \in 1 .. y - l + 1 : SubSeq(t, l, y)[i] = t[l + i - 1]
  BY <1>0, <1>1, SubSeqProperties
<1> DEFINE a == SubSeq(s, k, z)  b == SubSeq(t, l, y)
<1>4. a \in Seq(S) /\ b \in Seq(S) /\ Len(a) = Len(b)
  <2>1. (k <= z <=> l <= y) /\ z - k + 1 = y - l + 1
    BY <1>0
  <2> QED
    BY <1>2, <1>3, <2>1
<1>5. \A i \in 1 .. Len(a) : a[i] = b[i]
  <2>1. \A i \in 1 .. Len(a) : i \in 1 .. (z - k) + 1 /\ i \in 1 .. y - l + 1
    BY <1>0, <1>2
  <2> QED
    BY <1>0, <1>2, <1>3, <2>1
<1> HIDE DEF a, b
<1>6. a = b
  BY <1>4, <1>5, SeqEqual
<1> QED
  BY <1>6 DEF a, b, Part

-----------------------------------------------------------------------------
(* The memory pool: adding an item appends it to what the pool holds.        *)

PoolSet(s, C) ==
    {q \in [size : {s}, chunks : Seq([1 .. s -> C]), chunk : Nat, index : 0 .. s] : IsPool(q, C)}

LEMMA PoolFields ==
    ASSUME NEW s \in Nat \ {0}, NEW C, NEW p \in PoolSet(s, C)
    PROVE  /\ p = [size |-> s, chunks |-> p.chunks, chunk |-> p.chunk, index |-> p.index]
           /\ p.size = s /\ p.chunks \in Seq([1 .. s -> C]) /\ p.chunk \in 0 .. Len(p.chunks)
           /\ p.index \in 0 .. s
           /\ p.chunk = 0 => p.chunks = << >> /\ p.index = s
  BY DEF PoolSet, IsPool

(* A pool from its fields.                                                   *)
LEMMA PoolMade ==
    ASSUME NEW s \in Nat \ {0}, NEW C, NEW chs \in Seq([1 .. s -> C]), NEW c \in 1 .. Len(chs),
           NEW i \in 0 .. s
    PROVE  [size |-> s, chunks |-> chs, chunk |-> c, index |-> i] \in PoolSet(s, C)
<1> DEFINE q == [size |-> s, chunks |-> chs, chunk |-> c, index |-> i]
<1>1. q \in [size : {s}, chunks : Seq([1 .. s -> C]), chunk : Nat, index : 0 .. s]
  OBVIOUS
<1>2. \A k \in DOMAIN chs : chs[k] \in [1 .. s -> C]
  OBVIOUS
<1>3. IsPool(q, C)
  BY <1>2 DEF IsPool
<1> QED
  BY <1>1, <1>3 DEF PoolSet

(* How many items a pool has, and where they are.                            *)
LEMMA PoolSize ==
    ASSUME NEW s \in Nat \ {0}, NEW C, NEW p \in PoolSet(s, C)
    PROVE  /\ Size(p) \in Nat
           /\ p.chunk = 0 => Size(p) = 0
           /\ p.chunk > 0 => Size(p) = (p.chunk - 1) * s + p.index
<1>1. /\ p.size = s /\ p.chunks \in Seq([1 .. s -> C]) /\ p.chunk \in 0 .. Len(p.chunks)
      /\ p.index \in 0 .. s
      /\ p.chunk = 0 => p.chunks = << >>
  BY PoolFields
<1>2. CASE p.chunk = 0
  BY <1>1, <1>2 DEF Size
<1>3. CASE p.chunk > 0
  <2>1. p.chunks # << >>
    BY <1>1, <1>3
  <2>2. Size(p) = (p.chunk - 1) * s + p.index
    BY <1>1, <2>1 DEF Size
  <2>3. p.chunk - 1 \in Nat
    BY <1>1, <1>3
  <2>4. (p.chunk - 1) * s \in Nat
    BY <2>3
  <2> QED
    BY <1>1, <1>3, <2>2, <2>4
<1> QED
  BY <1>1, <1>2, <1>3

ItemAt(chs, s, k) == chs[((k - 1) \div s) + 1][((k - 1) % s) + 1]

LEMMA PoolItems ==
    ASSUME NEW s \in Nat \ {0}, NEW C, NEW p \in PoolSet(s, C)
    PROVE  /\ Items(p) \in Seq(C) /\ Len(Items(p)) = Size(p)
           /\ \A k \in 1 .. Size(p) : /\ Items(p)[k] = ItemAt(p.chunks, s, k)
                                      /\ (k - 1) \div s \in 0 .. p.chunk - 1
                                      /\ (k - 1) % s \in 0 .. s - 1
                                      /\ (k - 1) \div s = p.chunk - 1 => (k - 1) % s < p.index
<1>1. /\ p.size = s /\ p.chunks \in Seq([1 .. s -> C]) /\ p.chunk \in 0 .. Len(p.chunks)
      /\ p.index \in 0 .. s /\ Size(p) \in Nat
      /\ p.chunk = 0 => Size(p) = 0
      /\ p.chunk > 0 => Size(p) = (p.chunk - 1) * s + p.index
  BY PoolFields, PoolSize
<1>2. Items(p) = [k \in 1 .. Size(p) |-> ItemAt(p.chunks, s, k)]
  BY <1>1 DEF Items, ItemAt
<1>3. ASSUME NEW k \in 1 .. Size(p)
      PROVE  /\ (k - 1) \div s \in 0 .. p.chunk - 1 /\ (k - 1) % s \in 0 .. s - 1
             /\ (k - 1) \div s = p.chunk - 1 => (k - 1) % s < p.index
  <2> DEFINE q == (k - 1) \div s  r == (k - 1) % s
  <2>1. k - 1 \in Nat /\ k - 1 < Size(p)
    BY <1>1
  <2>2. q \in Nat /\ r \in 0 .. s - 1 /\ k - 1 = q * s + r
    BY <2>1, Parts
  <2>3. p.chunk > 0 /\ q * s + r < (p.chunk - 1) * s + p.index /\ p.chunk - 1 \in Nat
    BY <1>1, <2>1, <2>2
  <2> HIDE DEF q, r
  <2>4. CASE p.index < s
    <3>1. p.index \in 0 .. s - 1
      BY <1>1, <2>4
    <3>2. q < p.chunk - 1 \/ (q = p.chunk - 1 /\ r < p.index)
      BY <2>2, <2>3, <3>1, PartsSmaller
    <3>3. q \in 0 .. p.chunk - 1 /\ (q = p.chunk - 1 => r < p.index)
      BY <1>1, <2>2, <2>3, <3>2
    <3> QED
      BY <2>2, <3>3 DEF q, r
  <2>5. CASE p.index = s
    <3>1. (p.chunk - 1) * s + p.index = p.chunk * s + 0
      BY <1>1, <2>3, <2>5
    <3>a. q * s + r < p.chunk * s + 0 /\ 0 \in 0 .. s - 1 /\ p.chunk \in Nat
      BY <1>1, <2>3, <3>1
    <3>2. q < p.chunk
      BY <2>2, <3>a, PartsSmaller
    <3>3. q \in 0 .. p.chunk - 1 /\ (q = p.chunk - 1 => r < p.index)
      BY <1>1, <2>2, <2>3, <2>5, <3>2
    <3> QED
      BY <2>2, <3>3 DEF q, r
  <2>6. p.index < s \/ p.index = s
    BY <1>1
  <2> QED
    BY <2>4, <2>5, <2>6
<1>4. ASSUME NEW k \in 1 .. Size(p) PROVE ItemAt(p.chunks, s, k) \in C
  <2>0. (k - 1) \div s \in 0 .. p.chunk - 1 /\ (k - 1) % s \in 0 .. s - 1
    BY <1>3
  <2> DEFINE q == (k - 1) \div s  r == (k - 1) % s
  <2> HIDE DEF q, r
  <2>1. q + 1 \in 1 .. Len(p.chunks) /\ r + 1 \in 1 .. s
    BY <1>1, <2>0 DEF q, r
  <2>2. p.chunks[q + 1] \in [1 .. s -> C]
    BY <1>1, <2>1
  <2>3. p.chunks[q + 1][r + 1] \in C
    BY <2>1, <2>2
  <2> QED
    BY <2>3 DEF ItemAt, q, r
<1>5. Items(p) \in Seq(C) /\ Len(Items(p)) = Size(p)
  <2> DEFINE it(k) == ItemAt(p.chunks, s, k)
             n == Size(p)
  <2>1. n \in Nat /\ \A k \in 1 .. n : it(k) \in C
    BY <1>1, <1>4
  <2>2. Items(p) = [k \in 1 .. n |-> it(k)]
    BY <1>2
  <2> HIDE DEF it, n
  <2>3. [k \in 1 .. n |-> it(k)] \in Seq(C) /\ Len([k \in 1 .. n |-> it(k)]) = n
    BY <2>1
  <2> QED
    BY <2>2, <2>3 DEF n
<1> QED
  BY <1>2, <1>3, <1>5

(* Pool q has the cells behind what p has in the same places.                *)
Extends(q, p, s, cells) ==
    /\ Size(q) = Size(p) + Len(cells)
    /\ \A k \in 1 .. Size(p) : ItemAt(q.chunks, s, k) = ItemAt(p.chunks, s, k)
    /\ \A j \in 1 .. Len(cells) : ItemAt(q.chunks, s, Size(p) + j) = cells[j]

LEMMA PoolExtends ==
    ASSUME NEW s \in Nat \ {0}, NEW C, NEW p \in PoolSet(s, C), NEW q \in PoolSet(s, C),
           NEW cells \in Seq(C), Extends(q, p, s, cells)
    PROVE  Items(q) = Items(p) \o cells
<1>0. /\ Size(q) = Size(p) + Len(cells)
      /\ \A k \in 1 .. Size(p) : ItemAt(q.chunks, s, k) = ItemAt(p.chunks, s, k)
      /\ \A j \in 1 .. Len(cells) : ItemAt(q.chunks, s, Size(p) + j) = cells[j]
  BY DEF Extends
<1>1. /\ Items(p) \in Seq(C) /\ Len(Items(p)) = Size(p) /\ Size(p) \in Nat
      /\ Items(q) \in Seq(C) /\ Len(Items(q)) = Size(q)
  BY PoolItems, PoolSize
<1>2. /\ \A k \in 1 .. Size(p) : Items(p)[k] = ItemAt(p.chunks, s, k)
      /\ \A k \in 1 .. Size(q) : Items(q)[k] = ItemAt(q.chunks, s, k)
  BY PoolItems
<1>3. \A k \in 1 .. Size(p) : Items(q)[k] = Items(p)[k]
  BY <1>0, <1>1, <1>2
<1>4. \A j \in 1 .. Len(cells) : Items(q)[Size(p) + j] = cells[j]
  BY <1>0, <1>1, <1>2
<1> DEFINE a == Items(p)  b == Items(q)  n == Size(p)
<1> HIDE DEF a, b, n
<1>5. /\ a \in Seq(C) /\ b \in Seq(C) /\ Len(a) = n /\ Len(b) = n + Len(cells) /\ n \in Nat
      /\ \A k \in 1 .. n : b[k] = a[k]
      /\ \A j \in 1 .. Len(cells) : b[n + j] = cells[j]
  BY <1>0, <1>1, <1>3, <1>4 DEF a, b, n
<1>6. /\ a \o cells \in Seq(C) /\ Len(a \o cells) = n + Len(cells)
      /\ \A k \in 1 .. n + Len(cells) : (a \o cells)[k] = IF k <= n THEN a[k] ELSE cells[k - n]
  BY <1>5, ConcatProperties
<1>7. ASSUME NEW k \in 1 .. n + Len(cells) PROVE b[k] = (a \o cells)[k]
  <2>1. CASE k <= n
    BY <1>5, <1>6, <2>1
  <2>2. CASE k > n
    <3>1. k - n \in 1 .. Len(cells) /\ n + (k - n) = k
      BY <1>5, <2>2
    <3>2. b[n + (k - n)] = cells[k - n]
      BY <1>5, <3>1
    <3> QED
      BY <1>5, <1>6, <2>2, <3>1, <3>2
  <2> QED
    BY <1>5, <2>1, <2>2
<1>8. b = a \o cells
  BY <1>5, <1>6, <1>7
<1> QED
  BY <1>8 DEF a, b

(* The empty pool.                                                           *)
LEMMA EmptyPoolHolds ==
    ASSUME NEW s \in Nat \ {0}, NEW C
    PROVE  EmptyPool(s) \in PoolSet(s, C) /\ Items(EmptyPool(s)) = << >>
<1>1. EmptyPool(s) \in PoolSet(s, C)
  BY DEF EmptyPool, PoolSet, IsPool
<1>2. Size(EmptyPool(s)) = 0
  BY DEF EmptyPool, Size
<1>3. Items(EmptyPool(s)) \in Seq(C) /\ Len(Items(EmptyPool(s))) = 0
  BY <1>1, <1>2, PoolItems
<1> QED
  BY <1>1, <1>3

(* MemoryPool::Add appends, in the current chunk, in one that was kept or in  *)
(* a new one.                                                                *)
LEMMA AddAppends ==
    ASSUME NEW s \in Nat \ {0}, NEW C, NEW p \in PoolSet(s, C), NEW x \in C
    PROVE  Add(p, x) \in PoolSet(s, C) /\ Items(Add(p, x)) = Items(p) \o <<x>>
<1> DEFINE full == p.index >= p.size
           chs == IF full /\ p.chunk = Len(p.chunks) THEN Append(p.chunks, [i \in 1 .. s |-> x]) ELSE p.chunks
           c == IF full THEN p.chunk + 1 ELSE p.chunk
           i == IF full THEN 1 ELSE p.index + 1
           new == [chs EXCEPT ![c][i] = x]
           q == [size |-> s, chunks |-> new, chunk |-> c, index |-> i]
<1>1. /\ p = [size |-> s, chunks |-> p.chunks, chunk |-> p.chunk, index |-> p.index]
      /\ p.size = s /\ p.chunks \in Seq([1 .. s -> C]) /\ p.chunk \in 0 .. Len(p.chunks)
      /\ p.index \in 0 .. s
      /\ p.chunk = 0 => p.chunks = << >> /\ p.index = s
  BY PoolFields
<1>2. Reserve(p, x) = [size |-> s, chunks |-> chs, chunk |-> c, index |-> i]
  <2>1. CASE full
    <3>1. AddChunk(p, x) = [size |-> s, chunks |-> chs, chunk |-> p.chunk + 1, index |-> 0]
      <4>1. chs = IF p.chunk = Len(p.chunks) THEN Append(p.chunks, [k \in 1 .. p.size |-> x]) ELSE p.chunks
        BY <1>1, <2>1
      <4> HIDE DEF full, chs
      <4>2. AddChunk(p, x) = [p EXCEPT !.index = 0, !.chunk = @ + 1, !.chunks = chs]
        BY <4>1 DEF AddChunk
      <4> QED
        BY <1>1, <4>2
    <3>2. Reserve(p, x) = [AddChunk(p, x) EXCEPT !.index = @ + 1]
      BY <2>1 DEF Reserve
    <3> HIDE DEF chs
    <3> QED
      BY <2>1, <3>1, <3>2
  <2>2. CASE ~full
    BY <1>1, <2>2 DEF Reserve
  <2> QED
    BY <2>1, <2>2
<1>3. Add(p, x) = q
  <2> HIDE DEF full, chs, c, i
  <2> DEFINE r == Reserve(p, x)
  <2>1. r.chunk = c /\ r.index = i /\ r = [size |-> s, chunks |-> chs, chunk |-> c, index |-> i]
    BY <1>2
  <2>2. Add(p, x) = [r EXCEPT !.chunks[c][i] = x]
    BY <2>1 DEF Add, Write, LastPlace
  <2> HIDE DEF r
  <2> QED
    BY <2>1, <2>2
<1>4. /\ chs \in Seq([1 .. s -> C]) /\ c \in 1 .. Len(chs) /\ i \in 1 .. s
      /\ \A k \in DOMAIN p.chunks : k \in DOMAIN chs /\ chs[k] = p.chunks[k]
  <2>1. [k \in 1 .. s |-> x] \in [1 .. s -> C]
    OBVIOUS
  <2>2. CASE full /\ p.chunk = Len(p.chunks)
    BY <1>1, <2>1, <2>2
  <2>3. CASE ~(full /\ p.chunk = Len(p.chunks))
    BY <1>1, <2>3
  <2> QED
    BY <2>2, <2>3
<1>5. Size(p) = (c - 1) * s + (i - 1) /\ Size(p) \in Nat
  <2>1. /\ Size(p) \in Nat
        /\ p.chunk = 0 => Size(p) = 0
        /\ p.chunk > 0 => Size(p) = (p.chunk - 1) * s + p.index
    BY PoolSize
  <2>2. CASE full
    <3>1. c - 1 = p.chunk /\ i - 1 = 0 /\ p.index = s
      BY <1>1, <2>2
    <3>2. p.chunk > 0 => (p.chunk - 1) * s + s = p.chunk * s
      BY <1>1
    <3>3. p.chunk = 0 => p.chunk * s = 0
      BY <1>1
    <3> QED
      BY <1>1, <2>1, <3>1, <3>2, <3>3
  <2>3. CASE ~full
    <3>1. c = p.chunk /\ i - 1 = p.index /\ p.chunk > 0
      BY <1>1, <2>3
    <3> QED
      BY <1>1, <2>1, <3>1
  <2> QED
    BY <2>2, <2>3
<1> HIDE DEF full, chs, c, i
<1>6. /\ new \in Seq([1 .. s -> C]) /\ Len(new) = Len(chs)
      /\ \A k \in DOMAIN chs : k # c => new[k] = chs[k]
      /\ new[c] = [chs[c] EXCEPT ![i] = x]
  <2>1. chs[c] \in [1 .. s -> C]
    BY <1>4
  <2>2. [chs[c] EXCEPT ![i] = x] \in [1 .. s -> C]
    BY <1>4, <2>1
  <2> QED
    BY <1>4, <2>2
<1> HIDE DEF new
<1>7. q \in PoolSet(s, C)
  <2>1. c \in 1 .. Len(new) /\ i \in 0 .. s /\ new \in Seq([1 .. s -> C])
    BY <1>4, <1>6
  <2> QED
    BY <2>1, PoolMade
<1>8. Size(q) = Size(p) + 1
  <2>1. q.chunk > 0 /\ Size(q) = (c - 1) * s + i
    BY <1>4, <1>7, PoolSize
  <2>2. (c - 1) * s \in Int
    BY <1>4
  <2> QED
    BY <1>4, <1>5, <2>1, <2>2
<1>9. ItemAt(new, s, Size(p) + 1) = x
  <2>1. (Size(p) + 1) - 1 = (c - 1) * s + (i - 1) /\ c - 1 \in Nat /\ i - 1 \in 0 .. s - 1
    BY <1>4, <1>5
  <2>2. ((Size(p) + 1) - 1) \div s = c - 1 /\ ((Size(p) + 1) - 1) % s = i - 1
    BY <2>1, DivMod
  <2>3. ItemAt(new, s, Size(p) + 1) = new[(c - 1) + 1][(i - 1) + 1]
    BY <2>2 DEF ItemAt
  <2>4. chs[c] \in [1 .. s -> C] /\ (c - 1) + 1 = c /\ (i - 1) + 1 = i
    BY <1>4
  <2> QED
    BY <1>4, <1>6, <2>3, <2>4
<1>10. ASSUME NEW k \in 1 .. Size(p) PROVE ItemAt(new, s, k) = ItemAt(p.chunks, s, k)
  <2> DEFINE a == (k - 1) \div s  b == (k - 1) % s
  <2>1. a \in 0 .. p.chunk - 1 /\ b \in 0 .. s - 1
    BY PoolItems
  <2>2. k - 1 \in Nat /\ k - 1 = a * s + b /\ k - 1 < (c - 1) * s + (i - 1)
    <3>1. k - 1 \in Nat /\ k - 1 < Size(p)
      BY <1>5
    <3> QED
      BY <1>5, <3>1, Parts
  <2> HIDE DEF a, b
  <2>3. a < c - 1 \/ (a = c - 1 /\ b < i - 1)
    <3>1. a \in Nat /\ c - 1 \in Nat /\ i - 1 \in 0 .. s - 1
      BY <1>1, <1>4, <2>1
    <3>2. a * s + b < (c - 1) * s + (i - 1)
      BY <2>2
    <3> QED
      BY <2>1, <3>1, <3>2, PartsSmaller
  <2>4. a + 1 \in DOMAIN p.chunks /\ a + 1 \in DOMAIN chs /\ chs[a + 1] = p.chunks[a + 1]
    BY <1>1, <1>4, <2>1
  <2>5. new[a + 1][b + 1] = chs[a + 1][b + 1]
    <3>1. CASE a + 1 # c
      BY <1>6, <2>4, <3>1
    <3>2. CASE a + 1 = c
      <4>1. b + 1 # i /\ b + 1 \in 1 .. s /\ chs[c] \in [1 .. s -> C]
        BY <1>4, <2>1, <2>3, <3>2
      <4> QED
        BY <1>6, <3>2, <4>1
    <3> QED
      BY <3>1, <3>2
  <2> QED
    BY <2>4, <2>5 DEF ItemAt, a, b
<1> HIDE DEF q
<1>11. q.chunks = new
  BY DEF q
<1>12. Items(q) = Items(p) \o <<x>>
  <2> DEFINE one == <<x>>
  <2>1. one \in Seq(C) /\ Len(one) = 1 /\ one[1] = x
    OBVIOUS
  <2> HIDE DEF one
  <2>2. Size(q) = Size(p) + Len(one)
    BY <1>8, <2>1
  <2>3. \A k \in 1 .. Size(p) : ItemAt(q.chunks, s, k) = ItemAt(p.chunks, s, k)
    BY <1>10, <1>11
  <2>4. \A j \in 1 .. Len(one) : ItemAt(q.chunks, s, Size(p) + j) = one[j]
    BY <1>9, <1>11, <2>1
  <2>5. Extends(q, p, s, one)
    BY <2>2, <2>3, <2>4 DEF Extends
  <2>6. Items(q) = Items(p) \o one
    BY <1>7, <2>1, <2>5, PoolExtends
  <2> QED
    BY <2>6 DEF one
<1> QED
  BY <1>3, <1>7, <1>12
=============================================================================
