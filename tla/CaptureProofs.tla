---------------------------- MODULE CaptureProofs ----------------------------
(***************************************************************************)
(* Theorems about Capture: while a capture runs, the buffers hold exactly  *)
(* what was recorded, and the pointers of the sites lead to their          *)
(* descriptions.                                                           *)
(***************************************************************************)
EXTENDS Capture, ContainerLemmas, FiniteSetTheorems, TLAPS

-----------------------------------------------------------------------------
(* The memory pool: where an item is, and what changes when one is written.  *)

(* The n-th item of a pool with chunks of s elements is always at this place. *)
Place(s, n) == <<((n - 1) \div s) + 1, ((n - 1) % s) + 1>>

LEMMA PlaceOf ==
    ASSUME NEW s \in Nat \ {0}, NEW c \in Nat \ {0}, NEW i \in 1 .. s
    PROVE  Place(s, (c - 1) * s + i) = <<c, i>>
<1>1. c - 1 \in Nat /\ i - 1 \in 0 .. s - 1 /\ ((c - 1) * s + i) - 1 = (c - 1) * s + (i - 1)
  <2>1. (c - 1) * s \in Int
    OBVIOUS
  <2> QED
    BY <2>1
<1>2. (((c - 1) * s + i) - 1) \div s = c - 1 /\ (((c - 1) * s + i) - 1) % s = i - 1
  BY <1>1, DivMod
<1>3. (c - 1) + 1 = c /\ (i - 1) + 1 = i
  OBVIOUS
<1> QED
  BY <1>2, <1>3 DEF Place

(* Reserve makes room for one more item, at the next place, and leaves the    *)
(* others where they are.                                                    *)
LEMMA ReserveAppends ==
    ASSUME NEW s \in Nat \ {0}, NEW C, NEW p \in PoolSet(s, C), NEW junk \in C
    PROVE  /\ Reserve(p, junk) \in PoolSet(s, C) /\ Size(Reserve(p, junk)) = Size(p) + 1
           /\ LastPlace(Reserve(p, junk)) = Place(s, Size(p) + 1)
           /\ \A k \in 1 .. Size(p) : Items(Reserve(p, junk))[k] = Items(p)[k]
<1> DEFINE full == p.index >= p.size
           chs == IF full /\ p.chunk = Len(p.chunks) THEN Append(p.chunks, [k \in 1 .. s |-> junk]) ELSE p.chunks
           c == IF full THEN p.chunk + 1 ELSE p.chunk
           i == IF full THEN 1 ELSE p.index + 1
           q == [size |-> s, chunks |-> chs, chunk |-> c, index |-> i]
<1>1. /\ p = [size |-> s, chunks |-> p.chunks, chunk |-> p.chunk, index |-> p.index]
      /\ p.size = s /\ p.chunks \in Seq([1 .. s -> C]) /\ p.chunk \in 0 .. Len(p.chunks)
      /\ p.index \in 0 .. s
      /\ p.chunk = 0 => p.chunks = << >> /\ p.index = s
  BY PoolFields
<1>2. Reserve(p, junk) = q
  <2>1. CASE full
    <3>1. AddChunk(p, junk) = [size |-> s, chunks |-> chs, chunk |-> p.chunk + 1, index |-> 0]
      <4>1. chs = IF p.chunk = Len(p.chunks) THEN Append(p.chunks, [k \in 1 .. p.size |-> junk]) ELSE p.chunks
        BY <1>1, <2>1
      <4> HIDE DEF full, chs
      <4>2. AddChunk(p, junk) = [p EXCEPT !.index = 0, !.chunk = @ + 1, !.chunks = chs]
        BY <4>1 DEF AddChunk
      <4> QED
        BY <1>1, <4>2
    <3>2. Reserve(p, junk) = [AddChunk(p, junk) EXCEPT !.index = @ + 1]
      BY <2>1 DEF Reserve
    <3> HIDE DEF chs
    <3> QED
      BY <2>1, <3>1, <3>2
  <2>2. CASE ~full
    BY <1>1, <2>2 DEF Reserve
  <2> QED
    BY <2>1, <2>2
<1>3. /\ chs \in Seq([1 .. s -> C]) /\ c \in 1 .. Len(chs) /\ i \in 1 .. s
      /\ \A k \in DOMAIN p.chunks : k \in DOMAIN chs /\ chs[k] = p.chunks[k]
  <2>1. [k \in 1 .. s |-> junk] \in [1 .. s -> C]
    OBVIOUS
  <2>2. CASE full /\ p.chunk = Len(p.chunks)
    BY <1>1, <2>1, <2>2
  <2>3. CASE ~(full /\ p.chunk = Len(p.chunks))
    BY <1>1, <2>3
  <2> QED
    BY <2>2, <2>3
<1>4. Size(p) = (c - 1) * s + (i - 1) /\ Size(p) \in Nat
  <2>1. /\ Size(p) \in Nat
        /\ p.chunk = 0 => Size(p) = 0
        /\ p.chunk > 0 => Size(p) = (p.chunk - 1) * s + p.index
    BY PoolSize
  <2>2. CASE full
    <3>1. c - 1 = p.chunk /\ i - 1 = 0 /\ p.index = s
      BY <1>1, <2>2
    <3>2. p.chunk > 0 => (p.chunk - 1) * s + s = p.chunk * s
      BY <1>1
    <3>3. p.chunk = 0 => p.chunk * s = 0
      BY <1>1
    <3> QED
      BY <1>1, <2>1, <3>1, <3>2, <3>3
  <2>3. CASE ~full
    <3>1. c = p.chunk /\ i - 1 = p.index /\ p.chunk > 0
      BY <1>1, <2>3
    <3> QED
      BY <1>1, <2>1, <3>1
  <2> QED
    BY <2>2, <2>3
<1> HIDE DEF full, chs, c, i
<1>5. q \in PoolSet(s, C)
  BY <1>3, PoolMade
<1>6. Size(q) = Size(p) + 1 /\ Size(p) + 1 = (c - 1) * s + i
  <2>1. q.chunk > 0 /\ Size(q) = (c - 1) * s + i
    BY <1>3, <1>5, PoolSize
  <2>2. (c - 1) * s \in Int
    BY <1>3
  <2> QED
    BY <1>3, <1>4, <2>1, <2>2
<1>7. LastPlace(q) = Place(s, Size(p) + 1)
  <2>1. c \in Nat \ {0}
    BY <1>3
  <2>2. Place(s, (c - 1) * s + i) = <<c, i>>
    BY <1>3, <2>1, PlaceOf
  <2> QED
    BY <1>6, <2>2 DEF LastPlace
<1>8. ASSUME NEW k \in 1 .. Size(p) PROVE Items(q)[k] = Items(p)[k]
  <2> DEFINE a == (k - 1) \div s
  <2>1. a \in 0 .. p.chunk - 1 /\ Items(p)[k] = ItemAt(p.chunks, s, k)
    BY PoolItems
  <2>2. k \in 1 .. Size(q)
    BY <1>4, <1>6
  <2>3. Items(q)[k] = ItemAt(q.chunks, s, k) /\ q.chunks = chs
    BY <1>5, <2>2, PoolItems
  <2> HIDE DEF a
  <2>4. a + 1 \in DOMAIN p.chunks
    BY <1>1, <2>1
  <2>5. chs[a + 1] = p.chunks[a + 1]
    BY <1>3, <2>4
  <2> QED
    BY <2>1, <2>3, <2>5 DEF ItemAt, a
<1> QED
  BY <1>2, <1>5, <1>6, <1>7, <1>8

(* Writing at the place of an item replaces that item and no other.           *)
Replaced(seq, n, x) == [seq EXCEPT ![n] = x]

LEMMA WriteReplaces ==
    ASSUME NEW s \in Nat \ {0}, NEW C, NEW p \in PoolSet(s, C), NEW n \in 1 .. Size(p), NEW x \in C
    PROVE  /\ At(p, Place(s, n)) = Items(p)[n] /\ Items(p)[n] \in C
           /\ Write(p, Place(s, n), x) \in PoolSet(s, C)
           /\ Size(Write(p, Place(s, n), x)) = Size(p)
           /\ Items(Write(p, Place(s, n), x)) = Replaced(Items(p), n, x)
<1> DEFINE a == (n - 1) \div s  b == (n - 1) % s
           new == [p.chunks EXCEPT ![a + 1][b + 1] = x]
           q == [size |-> s, chunks |-> new, chunk |-> p.chunk, index |-> p.index]
<1>1. /\ p = [size |-> s, chunks |-> p.chunks, chunk |-> p.chunk, index |-> p.index]
      /\ p.size = s /\ p.chunks \in Seq([1 .. s -> C]) /\ p.chunk \in 0 .. Len(p.chunks)
      /\ p.index \in 0 .. s
  BY PoolFields
<1>2. /\ Size(p) \in Nat /\ n - 1 \in Nat /\ n - 1 = a * s + b
      /\ a \in 0 .. p.chunk - 1 /\ b \in 0 .. s - 1
  <2>1. Size(p) \in Nat
    BY PoolSize
  <2>2. n - 1 \in Nat
    BY <2>1
  <2>3. a \in 0 .. p.chunk - 1 /\ b \in 0 .. s - 1
    BY PoolItems
  <2>4. n - 1 = a * s + b
    BY <2>2, Parts
  <2> QED
    BY <2>1, <2>2, <2>3, <2>4
<1>3. Place(s, n) = <<a + 1, b + 1>>
  BY DEF Place
<1>4. At(p, Place(s, n)) = Items(p)[n] /\ Items(p)[n] \in C
  <2>1. Items(p)[n] = ItemAt(p.chunks, s, n) /\ Items(p) \in Seq(C) /\ Len(Items(p)) = Size(p)
    BY PoolItems
  <2>2. At(p, Place(s, n)) = p.chunks[a + 1][b + 1]
    BY <1>3 DEF At
  <2>3. Items(p)[n] \in C
    BY <1>2, <2>1
  <2> QED
    BY <2>1, <2>2, <2>3 DEF ItemAt
<1>5. Write(p, Place(s, n), x) = q
  <2>1. Write(p, Place(s, n), x) = [p EXCEPT !.chunks[a + 1][b + 1] = x]
    BY <1>3 DEF Write
  <2> HIDE DEF a, b
  <2> QED
    BY <1>1, <2>1
<1> HIDE DEF a, b
<1>6. a + 1 \in 1 .. Len(p.chunks) /\ p.chunks[a + 1] \in [1 .. s -> C] /\ b + 1 \in 1 .. s
  BY <1>1, <1>2, SMTT(30)
<1>7. /\ new \in Seq([1 .. s -> C]) /\ Len(new) = Len(p.chunks)
      /\ \A k \in DOMAIN p.chunks : k # a + 1 => new[k] = p.chunks[k]
      /\ new[a + 1] = [p.chunks[a + 1] EXCEPT ![b + 1] = x]
  <2> DEFINE d == a + 1  e == b + 1
  <2>1. d \in 1 .. Len(p.chunks) /\ p.chunks[d] \in [1 .. s -> C] /\ e \in 1 .. s
    BY <1>6
  <2>2. new = [p.chunks EXCEPT ![d][e] = x]
    OBVIOUS
  <2> HIDE DEF new, d, e
  <2>3. [p.chunks[d] EXCEPT ![e] = x] \in [1 .. s -> C]
    BY <2>1
  <2>4. /\ new \in Seq([1 .. s -> C]) /\ Len(new) = Len(p.chunks)
        /\ \A k \in DOMAIN p.chunks : k # d => new[k] = p.chunks[k]
        /\ new[d] = [p.chunks[d] EXCEPT ![e] = x]
    BY <1>1, <2>1, <2>2, <2>3
  <2> QED
    BY <2>4 DEF d, e
<1> HIDE DEF new
<1>8. q \in PoolSet(s, C)
  <2>1. p.chunk \in 1 .. Len(new)
    BY <1>1, <1>2, <1>7
  <2> QED
    BY <1>1, <1>7, <2>1, PoolMade
<1>9. Size(q) = Size(p)
  <2>1. p.chunk > 0 /\ q.chunk = p.chunk /\ q.index = p.index
    BY <1>1, <1>2
  <2> QED
    BY <1>8, <2>1, PoolSize
<1>10. ASSUME NEW k \in 1 .. Size(p) PROVE Items(q)[k] = IF k = n THEN x ELSE Items(p)[k]
  <2> DEFINE e == (k - 1) \div s  f == (k - 1) % s
  <2>1. Items(q)[k] = ItemAt(new, s, k) /\ Items(p)[k] = ItemAt(p.chunks, s, k)
    BY <1>8, <1>9, PoolItems
  <2>2. Items(q)[k] = new[e + 1][f + 1] /\ Items(p)[k] = p.chunks[e + 1][f + 1]
    BY <2>1 DEF ItemAt
  <2>3. e \in 0 .. p.chunk - 1 /\ f \in 0 .. s - 1
    BY PoolItems
  <2>4. k - 1 \in Nat /\ k - 1 = e * s + f
    <3>1. k - 1 \in Nat
      BY <1>2
    <3> QED
      BY <3>1, Parts
  <2>5. CASE k = n
    <3>1. e = a /\ f = b
      BY <2>5 DEF a, b
    <3> HIDE DEF e, f
    <3> QED
      BY <1>6, <1>7, <2>2, <2>5, <3>1
  <2>6. CASE k # n
    <3> HIDE DEF e, f
    <3>1. e # a \/ f # b
      BY <1>2, <2>4, <2>6
    <3>2. e + 1 \in DOMAIN p.chunks /\ f + 1 \in 1 .. s
      BY <1>1, <2>3
    <3>3. CASE e # a
      <4>1. e + 1 # a + 1
        BY <1>2, <2>3, <3>3
      <4> QED
        BY <1>7, <2>2, <2>6, <3>2, <4>1
    <3>4. CASE e = a
      <4>1. f + 1 # b + 1
        BY <1>2, <2>3, <3>1, <3>4
      <4> QED
        BY <1>6, <1>7, <2>2, <2>6, <3>2, <3>4, <4>1
    <3> QED
      BY <3>3, <3>4
  <2> QED
    BY <2>5, <2>6
<1>11. Items(q) = Replaced(Items(p), n, x)
  <2> DEFINE u == Items(p)  v == Items(q)  m == Size(p)
  <2>1. /\ u \in Seq(C) /\ Len(u) = m /\ v \in Seq(C) /\ Len(v) = m /\ m \in Nat /\ n \in 1 .. m
        /\ \A k \in 1 .. m : v[k] = IF k = n THEN x ELSE u[k]
    BY <1>2, <1>8, <1>9, <1>10, PoolItems
  <2> HIDE DEF u, v, m
  <2>2. v = Replaced(u, n, x)
    BY <2>1 DEF Replaced
  <2> QED
    BY <2>2 DEF u, v
<1> HIDE DEF q
<1> QED
  BY <1>4, <1>5, <1>8, <1>9, <1>11

(* Reserve, and then the new item is written, whatever the memory held.      *)
LEMMA ReserveThenWrite ==
    ASSUME NEW s \in Nat \ {0}, NEW C, NEW p \in PoolSet(s, C), NEW junk \in C, NEW x \in C,
           NEW q, q = Reserve(p, junk)
    PROVE  /\ At(q, LastPlace(q)) \in C /\ Write(q, LastPlace(q), x) \in PoolSet(s, C)
           /\ Items(Write(q, LastPlace(q), x)) = Append(Items(p), x)
           /\ LastPlace(Write(q, LastPlace(q), x)) = Place(s, Len(Items(p)) + 1)
           /\ At(Write(q, LastPlace(q), x), Place(s, Len(Items(p)) + 1)) = x
<1> DEFINE n == Size(p) + 1  r == Write(q, LastPlace(q), x)
<1>1. /\ q \in PoolSet(s, C) /\ Size(q) = n /\ LastPlace(q) = Place(s, n) /\ Size(p) \in Nat
      /\ \A k \in 1 .. Size(p) : Items(q)[k] = Items(p)[k]
  BY ReserveAppends, PoolSize
<1>2. n \in 1 .. Size(q)
  BY <1>1
<1>3. /\ At(q, LastPlace(q)) \in C /\ r \in PoolSet(s, C) /\ Size(r) = n
      /\ Items(r) = Replaced(Items(q), n, x)
  BY <1>1, <1>2, WriteReplaces
<1>4. LastPlace(r) = LastPlace(q)
  <2>1. r.chunk = q.chunk /\ r.index = q.index
    <3>a. q \in PoolSet(s, C)
      BY <1>1
    <3>1. q = [size |-> s, chunks |-> q.chunks, chunk |-> q.chunk, index |-> q.index]
      BY <3>a, PoolFields
    <3> QED
      BY <3>1 DEF Write
  <2> QED
    BY <2>1 DEF LastPlace
<1>5. /\ Items(p) \in Seq(C) /\ Len(Items(p)) = Size(p)
      /\ Items(q) \in Seq(C) /\ Len(Items(q)) = n
  BY <1>1, PoolItems
<1>6. Items(r) = Append(Items(p), x)
  <2> DEFINE u == Items(p)  v == Items(q)  m == Size(p)
  <2>1. /\ u \in Seq(C) /\ v \in Seq(C) /\ Len(u) = m /\ Len(v) = m + 1 /\ m \in Nat
        /\ \A k \in 1 .. m : v[k] = u[k]
    BY <1>1, <1>5
  <2> HIDE DEF u, v, m
  <2>2. Replaced(v, m + 1, x) \in Seq(C) /\ Len(Replaced(v, m + 1, x)) = m + 1
    BY <2>1 DEF Replaced
  <2>3. \A k \in 1 .. m + 1 : Replaced(v, m + 1, x)[k] = IF k = m + 1 THEN x ELSE u[k]
    BY <2>1 DEF Replaced
  <2>4. /\ Append(u, x) \in Seq(C) /\ Len(Append(u, x)) = m + 1
        /\ \A k \in 1 .. m + 1 : Append(u, x)[k] = IF k = m + 1 THEN x ELSE u[k]
    BY <2>1
  <2>5. Replaced(v, m + 1, x) = Append(u, x)
    <3> DEFINE y == Replaced(v, m + 1, x)  z == Append(u, x)
    <3> HIDE DEF y, z
    <3>1. y \in Seq(C) /\ z \in Seq(C) /\ Len(y) = Len(z) /\ \A k \in 1 .. Len(y) : y[k] = z[k]
      BY <2>2, <2>3, <2>4 DEF y, z
    <3>2. y = z
      BY <3>1, SeqEqual
    <3> QED
      BY <3>2 DEF y, z
  <2> QED
    BY <1>3, <2>5 DEF u, v, m
<1>7. At(r, Place(s, n)) = x
  <2>1. n \in 1 .. Size(r)
    BY <1>2, <1>1, <1>3
  <2>2. At(r, Place(s, n)) = Items(r)[n]
    BY <1>3, <2>1, WriteReplaces
  <2>3. Append(Items(p), x)[n] = x
    BY <1>5
  <2> QED
    BY <1>6, <2>2, <2>3
<1> QED
  BY <1>1, <1>3, <1>4, <1>5, <1>6, <1>7

(* An emptied pool is empty, whether it keeps its chunks or not.              *)
LEMMA ClearedHolds ==
    ASSUME NEW s \in Nat \ {0}, NEW C, NEW p \in PoolSet(s, C), NEW preserveMemory \in BOOLEAN
    PROVE  /\ ClearPool(p, preserveMemory) \in PoolSet(s, C)
           /\ Items(ClearPool(p, preserveMemory)) = << >>
<1> DEFINE q == ClearPool(p, preserveMemory)
<1>1. /\ p = [size |-> s, chunks |-> p.chunks, chunk |-> p.chunk, index |-> p.index]
      /\ p.size = s /\ p.chunks \in Seq([1 .. s -> C]) /\ p.chunk \in 0 .. Len(p.chunks)
      /\ p.index \in 0 .. s
  BY PoolFields
<1>2. CASE ~preserveMemory
  <2>1. q = EmptyPool(s)
    BY <1>1, <1>2 DEF ClearPool
  <2> QED
    BY <2>1, EmptyPoolHolds
<1>3. CASE preserveMemory /\ p.chunks = << >>
  <2>1. q = p
    BY <1>3 DEF ClearPool
  <2>2. Size(p) = 0
    BY <1>3 DEF Size
  <2>3. Items(p) \in Seq(C) /\ Len(Items(p)) = 0
    BY <2>2, PoolItems
  <2> QED
    BY <2>1, <2>3
<1>4. CASE preserveMemory /\ p.chunks # << >>
  <2>1. q = [size |-> s, chunks |-> p.chunks, chunk |-> 1, index |-> 0]
    <3>1. q = [p EXCEPT !.chunk = 1, !.index = 0]
      BY <1>4 DEF ClearPool
    <3> QED
      BY <1>1, <3>1
  <2>2. 1 \in 1 .. Len(p.chunks) /\ 0 \in 0 .. s
    BY <1>1, <1>4
  <2>3. q \in PoolSet(s, C)
    BY <1>1, <2>1, <2>2, PoolMade
  <2>4. Size(q) = 0
    <3>1. q.chunk = 1 /\ q.index = 0
      BY <2>1
    <3>2. Size(q) = (1 - 1) * s + 0
      BY <2>3, <3>1, PoolSize
    <3> QED
      BY <3>2
  <2>5. Items(q) \in Seq(C) /\ Len(Items(q)) = 0
    BY <2>3, <2>4, PoolItems
  <2> HIDE DEF q
  <2>6. Items(q) = << >>
    BY <2>5
  <2> QED
    BY <2>3, <2>6 DEF q
<1> QED
  BY <1>2, <1>3, <1>4

(* Back is the place of the last item, also when that fills its chunk.        *)
LEMMA BackIsLast ==
    ASSUME NEW s \in Nat \ {0}, NEW C, NEW p \in PoolSet(s, C), Back(p) # << >>
    PROVE  Size(p) \in Nat \ {0} /\ Back(p) = Place(s, Size(p))
<1>1. /\ p.size = s /\ p.chunks \in Seq([1 .. s -> C]) /\ p.chunk \in 0 .. Len(p.chunks)
      /\ p.index \in 0 .. s
      /\ p.chunk > 0 => Size(p) = (p.chunk - 1) * s + p.index
  BY PoolFields, PoolSize
<1>2. CASE p.chunk # 0 /\ p.index > 0
  <2>1. p.chunk \in Nat \ {0} /\ p.index \in 1 .. s /\ p.chunk > 0
    BY <1>1, <1>2
  <2>a. Place(s, (p.chunk - 1) * s + p.index) = <<p.chunk, p.index>>
    BY <2>1, PlaceOf
  <2>2. Place(s, Size(p)) = <<p.chunk, p.index>>
    BY <1>1, <2>1, <2>a
  <2>3. (p.chunk - 1) * s \in Nat
    BY <2>1
  <2> QED
    BY <1>1, <1>2, <2>1, <2>2, <2>3 DEF Back, LastPlace
<1>3. CASE ~(p.chunk # 0 /\ p.index > 0)
  <2>1. p.chunk > 1 /\ p.index = 0 /\ Back(p) = <<p.chunk - 1, s>>
    BY <1>1, <1>3 DEF Back
  <2> DEFINE c == p.chunk - 1
  <2>2. c \in Nat \ {0} /\ s \in 1 .. s /\ Size(p) = c * s + 0
    BY <1>1, <2>1
  <2>a. c \in Nat \ {0}
    BY <2>2
  <2>b. c * s = (c - 1) * s + s /\ c - 1 \in Nat
    <3> HIDE DEF c
    <3> QED
      BY <2>a
  <2>c. (c - 1) * s \in Nat
    <3> HIDE DEF c
    <3> QED
      BY <2>b
  <2>3. c * s = (c - 1) * s + s /\ c * s \in Nat \ {0}
    <3> HIDE DEF c
    <3> QED
      BY <2>b, <2>c
  <2> HIDE DEF c
  <2>4. Size(p) = (c - 1) * s + s
    BY <2>2, <2>3
  <2>5. Place(s, Size(p)) = <<c, s>>
    BY <2>2, <2>4, PlaceOf
  <2> QED
    BY <2>1, <2>2, <2>3, <2>5 DEF c
<1> QED
  BY <1>2, <1>3


-----------------------------------------------------------------------------
(* The invariant.                                                            *)

Event == [description : Int, start : Int, finish : Int]
TagData == [timestamp : Int, description : Int, data : Int]
Sites == {"Sleep", "Work", "Pushed"}
EventDescription == [name : {"Frame", "FrameTag"} \cup Sites, color : {"Null", "White", "Red"}]
Storage == [eventBuffer : PoolSet(ChunkSize, Event), tags : [TagKinds -> PoolSet(ChunkSize, TagData)],
            stack : [1 .. StackDepth -> Seq(Int)], index : Nat]
History == [thread : Seq(Event), custom : Seq(Event), tags : [TagKinds -> Seq(TagData)],
            frames : Seq(Event), summary : Seq(Attachments)]

Typed ==
    /\ mode \in {"OFF", "ON"} /\ clock \in Nat
    /\ storage \in Storage /\ custom \in PoolSet(ChunkSize, Event) /\ frames \in PoolSet(FrameChunk, Event)
    /\ scopes \in Seq([loc : Seq(Int), n : Nat]) /\ pushes \in Seq([n : Nat, live : BOOLEAN])
    /\ recorded \in History

(* The board and the pointers to it.                                         *)
BoardInv == /\ board \in PoolSet(ChunkSize, EventDescription) /\ sites \in [Sites -> Int]
            /\ SitesDescribed /\ racing \subseteq Sites

(* The buffers of the threads hold what was recorded; those of the frames     *)
(* also when no capture runs, until they are sent.                           *)
BuffersInv ==
    mode = "ON" => /\ pc = "run"
                   /\ Items(storage.eventBuffer) = recorded.thread
                   /\ Items(custom) = recorded.custom
                   /\ \A k \in TagKinds : Items(storage.tags[k]) = recorded.tags[k]
FramesInv == Items(frames) = IF pc = "sent" THEN << >> ELSE recorded.frames

(* An open scope points to its own event.                                    *)
ScopesInv ==
    mode = "ON" => \A i \in DOMAIN scopes :
        /\ scopes[i].n \in 1 .. Len(recorded.thread)
        /\ scopes[i].loc = Place(ChunkSize, scopes[i].n)

(* How deep push i is among those of the running capture, which are the last  *)
(* ones; 0 or less if it is older.                                           *)
Depth(i) == i - (Len(pushes) - storage.index)

(* The stack has the places of the events of the open pushes, as far as it    *)
(* goes; deeper ones, and older ones, have none.                             *)
PushesInv ==
    mode = "ON" =>
        /\ storage.index <= Len(pushes)
        /\ \A i \in DOMAIN pushes :
             /\ pushes[i].live <=> Depth(i) > 0
             /\ IF Depth(i) \in 1 .. StackDepth
                THEN /\ pushes[i].n \in 1 .. Len(recorded.thread)
                     /\ storage.stack[Depth(i)] = Place(ChunkSize, pushes[i].n)
                ELSE pushes[i].n = 0

Inv == Typed /\ BoardInv /\ BuffersInv /\ FramesInv /\ ScopesInv /\ PushesInv

LEMMA PlaceTyped ==
    ASSUME NEW s \in Nat \ {0}, NEW n \in Nat \ {0}
    PROVE  Place(s, n) \in Seq(Int)
<1>1. n - 1 \in Nat
  OBVIOUS
<1>2. (n - 1) \div s \in Nat /\ (n - 1) % s \in Nat
  BY <1>1, Parts
<1> QED
  BY <1>2 DEF Place

(* What is left alone when one field of a storage or of the history changes.  *)
LEMMA BufferReplaced ==
    ASSUME NEW st \in Storage, NEW p \in PoolSet(ChunkSize, Event), NEW t, t = [st EXCEPT !.eventBuffer = p]
    PROVE  /\ t \in Storage /\ t.eventBuffer = p
           /\ t.tags = st.tags /\ t.stack = st.stack /\ t.index = st.index
  BY DEF Storage

LEMMA ThreadReplaced ==
    ASSUME NEW r \in History, NEW x \in Seq(Event), NEW t, t = [r EXCEPT !.thread = x]
    PROVE  /\ t \in History /\ t.thread = x
           /\ t.custom = r.custom /\ t.tags = r.tags /\ t.frames = r.frames /\ t.summary = r.summary
  BY DEF History

LEMMA StorageFields ==
    ASSUME Typed
    PROVE  /\ storage.eventBuffer \in PoolSet(ChunkSize, Event) /\ storage.index \in Nat
           /\ storage.tags \in [TagKinds -> PoolSet(ChunkSize, TagData)]
           /\ storage.stack \in [1 .. StackDepth -> Seq(Int)]
           /\ recorded.thread \in Seq(Event) /\ recorded.custom \in Seq(Event) /\ recorded.frames \in Seq(Event)
           /\ recorded.tags \in [TagKinds -> Seq(TagData)] /\ recorded.summary \in Seq(Attachments)
  BY DEF Typed, Storage, History

-----------------------------------------------------------------------------
(* Descriptions.                                                             *)

LEMMA CreateDescribes ==
    ASSUME BoardInv, NEW s \in Sites, CreateDescription(s), racing' \subseteq Sites
    PROVE  BoardInv'
<1>1. /\ ChunkSize \in Nat \ {0} /\ board \in PoolSet(ChunkSize, EventDescription) /\ sites \in [Sites -> Int]
      /\ board' = Add(board, Description(s)) /\ sites' = [sites EXCEPT ![s] = Size(board)]
  BY CaptureConstants DEF BoardInv, CreateDescription
<1>2. Description(s) \in EventDescription /\ Description(s).name = s
  BY DEF Description, EventDescription, Colors, Sites
<1>3. board' \in PoolSet(ChunkSize, EventDescription) /\ Items(board') = Items(board) \o <<Description(s)>>
  BY <1>1, <1>2, AddAppends
<1>4. /\ Size(board) \in Nat /\ Items(board) \in Seq(EventDescription) /\ Len(Items(board)) = Size(board)
      /\ Size(board') \in Nat /\ Items(board') \in Seq(EventDescription) /\ Len(Items(board')) = Size(board')
  <2>1. board' \in PoolSet(ChunkSize, EventDescription)
    BY <1>3
  <2> QED
    BY <1>1, <2>1, PoolSize, PoolItems
<1> DEFINE u == Items(board)  v == Items(board')  d == Description(s)
<1>5. /\ Size(board') = Size(board) + 1
      /\ \A k \in 1 .. Size(board) : v[k] = u[k]
      /\ v[Size(board) + 1] = d
  <2>1. v = u \o <<d>> /\ u \in Seq(EventDescription) /\ d \in EventDescription /\ v \in Seq(EventDescription)
    BY <1>2, <1>3, <1>4
  <2> HIDE DEF u, v, d
  <2>2. Len(v) = Len(u) + 1 /\ (\A k \in 1 .. Len(u) : v[k] = u[k]) /\ v[Len(u) + 1] = d
    BY <2>1
  <2> QED
    BY <1>4, <2>2 DEF u, v
<1>6. sites' \in [Sites -> Int]
  BY <1>1, <1>4
<1>7. SitesDescribed'
  <2> SUFFICES ASSUME NEW x \in DOMAIN sites', sites'[x] # null
               PROVE  sites'[x] \in 0 .. Size(board') - 1 /\ Items(board')[sites'[x] + 1].name = x
    BY DEF SitesDescribed
  <2>1. CASE x = s
    <3>1. sites'[x] = Size(board)
      BY <1>1, <2>1
    <3> QED
      BY <1>2, <1>4, <1>5, <2>1, <3>1
  <2>2. CASE x # s
    <3>1. x \in DOMAIN sites /\ sites'[x] = sites[x]
      BY <1>1, <2>2
    <3>2. sites[x] \in 0 .. Size(board) - 1 /\ Items(board)[sites[x] + 1].name = x
      BY <3>1 DEF BoardInv, SitesDescribed
    <3>3. sites[x] + 1 \in 1 .. Size(board)
      BY <1>4, <3>2
    <3> QED
      BY <1>4, <1>5, <3>1, <3>2, <3>3
  <2> QED
    BY <2>1, <2>2
<1> QED
  BY <1>3, <1>6, <1>7 DEF BoardInv

LEMMA DescribeDescribes ==
    ASSUME BoardInv, NEW s \in Sites, Describe(s)
    PROVE  BoardInv' /\ sites'[s] \in Int
<1>1. BoardInv'
  <2>1. CASE sites[s] # null
    <3>1. UNCHANGED <<board, sites, racing>>
      BY <2>1 DEF Describe, boardVars
    <3> QED
      BY <3>1 DEF BoardInv, SitesDescribed
  <2>2. CASE sites[s] = null
    <3>1. CreateDescription(s)
      BY <2>2 DEF Describe
    <3>2. racing' \subseteq Sites
      BY <2>2 DEF Describe, BoardInv
    <3> QED
      BY <3>1, <3>2, CreateDescribes
  <2> QED
    BY <2>1, <2>2
<1> QED
  BY <1>1 DEF BoardInv

LEMMA BoardUnchanged ==
    ASSUME BoardInv, UNCHANGED boardVars
    PROVE  BoardInv'
  BY DEF BoardInv, SitesDescribed, boardVars

LEMMA CreateAgainStep ==
    ASSUME Inv, NEW s \in racing, CreateAgain(s)
    PROVE  Inv'
<1>1. BoardInv'
  <2>1. s \in Sites /\ CreateDescription(s) /\ racing' \subseteq Sites /\ BoardInv
    BY DEF Inv, BoardInv, CreateAgain
  <2> QED
    BY <2>1, CreateDescribes
<1>2. UNCHANGED <<mode, clock, storage, custom, frames, scopes, pushes, pc, recorded>>
  BY DEF CreateAgain
<1> QED
  BY <1>1, <1>2 DEF Inv, Typed, BuffersInv, FramesInv, ScopesInv, PushesInv, Depth

-----------------------------------------------------------------------------
(* Scoped events.                                                            *)

LEMMA NewEventHolds ==
    ASSUME Typed, NEW i \in Int, NEW g \in Garbage, NEW p, p = NewEvent(i, g)
    PROVE  /\ p \in PoolSet(ChunkSize, Event) /\ At(p, LastPlace(p)) \in Event
           /\ Items(p) = Append(Items(storage.eventBuffer), At(p, LastPlace(p)))
           /\ LastPlace(p) = Place(ChunkSize, Len(Items(storage.eventBuffer)) + 1)
<1> DEFINE b == storage.eventBuffer
           junk == [description |-> null, start |-> INVALID, finish |-> g]
           q == Reserve(b, junk)
           x == [At(q, LastPlace(q)) EXCEPT !.description = i, !.start = clock]
<1>1. ChunkSize \in Nat \ {0} /\ g \in Int /\ clock \in Int /\ b \in PoolSet(ChunkSize, Event)
  BY CaptureConstants, StorageFields DEF Typed
<1>2. junk \in Event
  BY <1>1 DEF Event, null, INVALID
<1>3. p = Write(q, LastPlace(q), x)
  BY DEF NewEvent
<1> HIDE DEF b, junk, q, x
<1>4. At(q, LastPlace(q)) \in Event
  BY <1>1, <1>2, ReserveThenWrite DEF q
<1>5. x \in Event
  BY <1>1, <1>4 DEF x, Event
<1>6. /\ p \in PoolSet(ChunkSize, Event)
      /\ Items(p) = Append(Items(b), x)
      /\ LastPlace(p) = Place(ChunkSize, Len(Items(b)) + 1)
      /\ At(p, Place(ChunkSize, Len(Items(b)) + 1)) = x
  BY <1>1, <1>2, <1>3, <1>5, ReserveThenWrite DEF q
<1> QED
  BY <1>5, <1>6 DEF b

(* An event is added: what points to the earlier ones still does.            *)
LEMMA EventAdded ==
    ASSUME Inv, mode = "ON", NEW e \in Event, NEW p \in PoolSet(ChunkSize, Event),
           Items(p) = Append(Items(storage.eventBuffer), e),
           storage'.eventBuffer = p, recorded'.thread = Append(recorded.thread, e)
    PROVE  /\ Items(storage'.eventBuffer) = recorded'.thread
           /\ recorded'.thread \in Seq(Event) /\ Len(recorded'.thread) = Len(recorded.thread) + 1
           /\ Len(Items(storage.eventBuffer)) = Len(recorded.thread) /\ Len(recorded.thread) \in Nat
           /\ \A n \in 1 .. Len(recorded.thread) : n \in 1 .. Len(recorded'.thread)
<1>1. recorded.thread \in Seq(Event) /\ Items(storage.eventBuffer) = recorded.thread
  BY StorageFields DEF Inv, BuffersInv
<1> QED
  BY <1>1

LEMMA ScopedEventStep ==
    ASSUME Inv, NEW s \in {"Sleep", "Work"}, ScopedEvent(s)
    PROVE  Inv'
<1>1. PICK g \in Garbage : Begin(sites'[s], g)
  BY DEF ScopedEvent
<1>2. mode = "ON" /\ pc = "run" /\ s \in Sites
  BY DEF ScopedEvent, Recording, Sites
<1>3. BoardInv' /\ sites'[s] \in Int
  BY <1>2, DescribeDescribes DEF ScopedEvent, Inv
<1>4. UNCHANGED <<mode, clock, custom, frames, pushes, pc>>
  BY DEF ScopedEvent
<1> DEFINE p == NewEvent(sites'[s], g)  e == At(p, LastPlace(p))  b == storage.eventBuffer
<1>5. /\ storage' = [storage EXCEPT !.eventBuffer = p]
      /\ scopes' = Append(scopes, [loc |-> LastPlace(p), n |-> Len(recorded.thread) + 1])
      /\ recorded' = [recorded EXCEPT !.thread = Append(@, e)]
  BY <1>1 DEF Begin, Count
<1>6. /\ p \in PoolSet(ChunkSize, Event) /\ e \in Event /\ Items(p) = Append(Items(b), e)
      /\ LastPlace(p) = Place(ChunkSize, Len(Items(b)) + 1)
  BY <1>3, NewEventHolds DEF Inv
<1> HIDE DEF p, e
<1>7. /\ storage \in Storage /\ recorded \in History /\ recorded.thread \in Seq(Event)
      /\ Append(recorded.thread, e) \in Seq(Event)
  BY <1>6, StorageFields DEF Inv, Typed
<1>8. /\ storage' \in Storage /\ storage'.eventBuffer = p
      /\ storage'.tags = storage.tags /\ storage'.stack = storage.stack /\ storage'.index = storage.index
  BY <1>5, <1>6, <1>7, BufferReplaced
<1>9. /\ recorded' \in History /\ recorded'.thread = Append(recorded.thread, e)
      /\ recorded'.custom = recorded.custom /\ recorded'.tags = recorded.tags
      /\ recorded'.frames = recorded.frames
  <2> DEFINE y == Append(recorded.thread, e)
  <2>1. recorded' = [recorded EXCEPT !.thread = y] /\ y \in Seq(Event)
    BY <1>5, <1>7
  <2> HIDE DEF y
  <2>2. /\ recorded' \in History /\ recorded'.thread = y
        /\ recorded'.custom = recorded.custom /\ recorded'.tags = recorded.tags
        /\ recorded'.frames = recorded.frames
    BY <1>7, <2>1, ThreadReplaced
  <2> QED
    BY <2>2 DEF y
<1>10. /\ Items(storage'.eventBuffer) = recorded'.thread
       /\ Len(recorded'.thread) = Len(recorded.thread) + 1
       /\ Len(Items(b)) = Len(recorded.thread) /\ Len(recorded.thread) \in Nat
       /\ \A n \in 1 .. Len(recorded.thread) : n \in 1 .. Len(recorded'.thread)
  BY <1>2, <1>6, <1>8, <1>9, EventAdded
<1>11. Place(ChunkSize, Len(recorded.thread) + 1) \in Seq(Int)
  BY <1>10, CaptureConstants, PlaceTyped
<1>12. Typed'
  <2>1. scopes \in Seq([loc : Seq(Int), n : Nat])
    BY DEF Inv, Typed
  <2>2. [loc |-> LastPlace(p), n |-> Len(recorded.thread) + 1] \in [loc : Seq(Int), n : Nat]
    BY <1>6, <1>10, <1>11
  <2>3. scopes' \in Seq([loc : Seq(Int), n : Nat])
    BY <1>5, <2>1, <2>2
  <2> QED
    BY <1>4, <1>8, <1>9, <2>3 DEF Inv, Typed
<1>13. BuffersInv'
  BY <1>2, <1>4, <1>8, <1>9, <1>10 DEF Inv, BuffersInv
<1>14. FramesInv'
  BY <1>4, <1>9 DEF Inv, FramesInv
<1>15. ScopesInv'
  <2>1. /\ scopes \in Seq([loc : Seq(Int), n : Nat])
        /\ \A i \in DOMAIN scopes : /\ scopes[i].n \in 1 .. Len(recorded.thread)
                                    /\ scopes[i].loc = Place(ChunkSize, scopes[i].n)
    BY <1>2 DEF Inv, Typed, ScopesInv
  <2> DEFINE z == [loc |-> LastPlace(p), n |-> Len(recorded.thread) + 1]
  <2>2. z.n \in 1 .. Len(recorded'.thread) /\ z.loc = Place(ChunkSize, z.n)
    BY <1>6, <1>10
  <2>3. scopes' = Append(scopes, z)
    BY <1>5
  <2> HIDE DEF z
  <2>4. ASSUME NEW i \in DOMAIN scopes'
        PROVE  scopes'[i].n \in 1 .. Len(recorded'.thread) /\ scopes'[i].loc = Place(ChunkSize, scopes'[i].n)
    <3>1. CASE i \in DOMAIN scopes
      <4>1. scopes'[i] = scopes[i]
        BY <2>1, <2>3, <3>1
      <4> QED
        BY <1>10, <2>1, <3>1, <4>1
    <3>2. CASE i \notin DOMAIN scopes
      <4>1. scopes'[i] = z
        BY <2>1, <2>3, <3>2
      <4> QED
        BY <2>2, <4>1
    <3> QED
      BY <3>1, <3>2
  <2> QED
    BY <2>4 DEF ScopesInv
<1>16. PushesInv'
  BY <1>2, <1>4, <1>8, <1>10 DEF Inv, PushesInv, Depth
<1> QED
  BY <1>3, <1>12, <1>13, <1>14, <1>15, <1>16 DEF Inv


(* The end of an event is written where the event is.                        *)
LEMMA EventFinished ==
    ASSUME Inv, mode = "ON", NEW n \in 1 .. Len(recorded.thread), NEW p, NEW r,
           p = Write(storage.eventBuffer, Place(ChunkSize, n),
                     [At(storage.eventBuffer, Place(ChunkSize, n)) EXCEPT !.finish = clock]),
           r = [recorded EXCEPT !.thread[n].finish = clock]
    PROVE  /\ p \in PoolSet(ChunkSize, Event) /\ r \in History
           /\ Items(p) = r.thread /\ Len(r.thread) = Len(recorded.thread)
           /\ r.custom = recorded.custom /\ r.tags = recorded.tags
           /\ r.frames = recorded.frames /\ r.summary = recorded.summary
<1> DEFINE b == storage.eventBuffer  loc == Place(ChunkSize, n)  t == recorded.thread
           x == [At(b, loc) EXCEPT !.finish = clock]  y == Replaced(t, n, x)
<1>1. /\ ChunkSize \in Nat \ {0} /\ b \in PoolSet(ChunkSize, Event) /\ t \in Seq(Event)
      /\ Items(b) = t /\ clock \in Int /\ recorded \in History
  BY CaptureConstants, StorageFields DEF Inv, Typed, BuffersInv
<1>2. n \in 1 .. Len(t) /\ t[n] \in Event
  BY <1>1
<1> HIDE DEF b, t, loc, x
<1>3. n \in 1 .. Size(b)
  BY <1>1, <1>2, PoolItems
<1>4. At(b, loc) = t[n]
  BY <1>1, <1>2, <1>3, WriteReplaces DEF loc
<1>5. x \in Event /\ x = [t[n] EXCEPT !.finish = clock]
  BY <1>1, <1>2, <1>4 DEF x, Event
<1>6. p = Write(b, loc, x)
  BY DEF b, loc, x
<1>7. p \in PoolSet(ChunkSize, Event) /\ Items(p) = y
  BY <1>1, <1>3, <1>5, <1>6, WriteReplaces DEF loc
<1>8. y \in Seq(Event) /\ Len(y) = Len(t)
  BY <1>1, <1>2, <1>5 DEF Replaced
<1>9. r = [recorded EXCEPT !.thread = y]
  BY <1>5 DEF t, Replaced
<1> HIDE DEF y
<1>10. /\ r \in History /\ r.thread = y
       /\ r.custom = recorded.custom /\ r.tags = recorded.tags
       /\ r.frames = recorded.frames /\ r.summary = recorded.summary
  <2>1. recorded \in History /\ y \in Seq(Event)
    BY <1>1, <1>8
  <2> QED
    BY <1>9, <2>1 DEF History
<1> QED
  BY <1>7, <1>8, <1>10 DEF t

(* The fields of a history that a step of the thread leaves alone.           *)
SameOthers(r) == r.custom = recorded.custom /\ r.tags = recorded.tags /\ r.frames = recorded.frames

LEMMA FrontOf ==
    ASSUME NEW S, NEW s \in Seq(S), s # << >>
    PROVE  /\ Front(s) \in Seq(S) /\ Len(Front(s)) = Len(s) - 1 /\ Len(s) \in Nat \ {0}
           /\ \A i \in DOMAIN Front(s) : i \in DOMAIN s /\ i # Len(s) /\ Front(s)[i] = s[i]
<1>1. Len(s) \in Nat \ {0}
  OBVIOUS
<1> DEFINE t == SubSeq(s, 1, Len(s) - 1)
<1>2. t \in Seq(S) /\ Len(t) = Len(s) - 1 /\ \A i \in 1 .. Len(s) - 1 : t[i] = s[i]
  <2> DEFINE m == Len(s) - 1
  <2>1. m \in Nat /\ \A i \in 1 .. m : s[i] \in S
    BY <1>1
  <2> HIDE DEF m
  <2>2. /\ SubSeq(s, 1, m) \in Seq(S) /\ Len(SubSeq(s, 1, m)) = IF 1 <= m THEN m - 1 + 1 ELSE 0
        /\ \A i \in 1 .. m - 1 + 1 : SubSeq(s, 1, m)[i] = s[1 + i - 1]
    BY <2>1, SubSeqProperties
  <2>3. Len(SubSeq(s, 1, m)) = m /\ \A i \in 1 .. m : SubSeq(s, 1, m)[i] = s[i]
    BY <2>1, <2>2
  <2> QED
    BY <2>2, <2>3 DEF m
<1>3. Front(s) = t
  BY DEF Front
<1> HIDE DEF t
<1> QED
  BY <1>1, <1>2, <1>3

LEMMA EndScopeStep ==
    ASSUME Inv, EndScope
    PROVE  Inv'
<1> DEFINE e == scopes[Len(scopes)]
<1>1. /\ scopes # << >> /\ scopes' = Front(scopes)
      /\ UNCHANGED <<mode, clock, boardVars, custom, frames, pushes, pc>>
      /\ scopes \in Seq([loc : Seq(Int), n : Nat])
  BY DEF EndScope, Inv, Typed
<1>2. BoardInv'
  BY <1>1, BoardUnchanged DEF Inv
<1>3. /\ scopes' \in Seq([loc : Seq(Int), n : Nat]) /\ Len(scopes) \in Nat \ {0}
      /\ \A i \in DOMAIN scopes' : i \in DOMAIN scopes /\ scopes'[i] = scopes[i]
  BY <1>1, FrontOf
<1>4. CASE mode # "ON"
  <2>1. UNCHANGED <<storage, recorded>>
    BY <1>4 DEF EndScope
  <2> QED
    BY <1>1, <1>2, <1>3, <1>4, <2>1
    DEF Inv, Typed, BuffersInv, FramesInv, ScopesInv, PushesInv
<1>5. CASE mode = "ON"
  <2>1. e.n \in 1 .. Len(recorded.thread) /\ e.loc = Place(ChunkSize, e.n)
    BY <1>1, <1>3, <1>5 DEF Inv, ScopesInv
  <2> DEFINE p == Write(storage.eventBuffer, e.loc, [At(storage.eventBuffer, e.loc) EXCEPT !.finish = clock])
  <2>2. /\ storage' = [storage EXCEPT !.eventBuffer = p]
        /\ recorded' = [recorded EXCEPT !.thread[e.n].finish = clock]
    BY <1>5 DEF EndScope
  <2>3. /\ p \in PoolSet(ChunkSize, Event) /\ recorded' \in History
        /\ Items(p) = recorded'.thread /\ Len(recorded'.thread) = Len(recorded.thread)
        /\ SameOthers(recorded')
    <3> DEFINE n == e.n
    <3>1. n \in 1 .. Len(recorded.thread) /\ recorded' = [recorded EXCEPT !.thread[n].finish = clock]
      BY <2>1, <2>2
    <3>2. p = Write(storage.eventBuffer, Place(ChunkSize, n),
                    [At(storage.eventBuffer, Place(ChunkSize, n)) EXCEPT !.finish = clock])
      BY <2>1
    <3> HIDE DEF n, p
    <3> QED
      BY <1>5, <3>1, <3>2, EventFinished, ZenonT(30) DEF SameOthers
  <2> HIDE DEF p, e
  <2>4. storage \in Storage
    BY DEF Inv, Typed
  <2>5. /\ storage' \in Storage /\ storage'.eventBuffer = p
        /\ storage'.tags = storage.tags /\ storage'.stack = storage.stack /\ storage'.index = storage.index
    BY <2>2, <2>3, <2>4, BufferReplaced
  <2>6. Typed'
    BY <1>1, <1>3, <2>3, <2>5 DEF Inv, Typed
  <2>7. BuffersInv' /\ FramesInv'
    BY <1>1, <1>5, <2>3, <2>5 DEF Inv, BuffersInv, FramesInv, SameOthers
  <2>8. ScopesInv'
    BY <1>3, <1>5, <2>3 DEF Inv, ScopesInv
  <2>9. PushesInv'
    BY <1>1, <1>5, <2>3, <2>5 DEF Inv, PushesInv, Depth
  <2> QED
    BY <1>2, <2>6, <2>7, <2>8, <2>9 DEF Inv
<1> QED
  BY <1>4, <1>5

-----------------------------------------------------------------------------
(* Pushes and pops.                                                          *)

(* The live pushes are the last ones, as many as the index says.              *)
LEMMA LivePushes ==
    ASSUME Inv, mode = "ON"
    PROVE  Cardinality({i \in DOMAIN pushes : pushes[i].live}) = storage.index
<1> DEFINE n == Len(pushes)  m == storage.index
<1>1. /\ n \in Nat /\ m \in Nat /\ m <= n /\ DOMAIN pushes = 1 .. n
      /\ \A i \in DOMAIN pushes : pushes[i].live <=> i - (n - m) > 0
  BY StorageFields DEF Inv, Typed, PushesInv, Depth
<1> HIDE DEF n, m
<1>2. {i \in DOMAIN pushes : pushes[i].live} = n - m + 1 .. n
  <2>1. {i \in DOMAIN pushes : pushes[i].live} = {i \in 1 .. n : i - (n - m) > 0}
    BY <1>1
  <2>2. {i \in 1 .. n : i - (n - m) > 0} = n - m + 1 .. n
    BY <1>1
  <2> QED
    BY <2>1, <2>2
<1>3. Cardinality(n - m + 1 .. n) = m
  BY <1>1, FS_Interval
<1> QED
  BY <1>2, <1>3 DEF m

LEMMA PushStep ==
    ASSUME Inv, Push
    PROVE  Inv'
<1> DEFINE PushSet == [n : Nat, live : BOOLEAN]
<1>1. /\ UNCHANGED <<mode, clock, custom, frames, scopes, pc>> /\ pc = "run"
      /\ pushes \in Seq(PushSet)
  BY DEF Push, Inv, Typed
<1>2. CASE mode = "OFF"
  <2>1. pushes' = Append(pushes, [n |-> 0, live |-> FALSE]) /\ UNCHANGED <<boardVars, storage, recorded>>
    BY <1>2 DEF Push
  <2>2. BoardInv'
    BY <2>1, BoardUnchanged DEF Inv
  <2>3. [n |-> 0, live |-> FALSE] \in PushSet
    OBVIOUS
  <2>4. pushes' \in Seq(PushSet)
    BY <1>1, <2>1, <2>3
  <2>5. Typed'
    BY <1>1, <2>1, <2>4 DEF Inv, Typed
  <2> QED
    BY <1>1, <1>2, <2>1, <2>2, <2>5 DEF Inv, BuffersInv, FramesInv, ScopesInv, PushesInv
<1>3. CASE mode = "ON"
  <2> DEFINE i == sites'["Pushed"]  m == storage.index  b == storage.eventBuffer
             x == [description |-> i, start |-> clock, finish |-> INVALID]
             kept == m < StackDepth
             z == [n |-> IF kept THEN Len(recorded.thread) + 1 ELSE 0, live |-> TRUE]
  <2>1. /\ Describe("Pushed") /\ PushEvent(i)
        /\ pushes' = Append(pushes, z)
        /\ recorded' = IF kept THEN [recorded EXCEPT !.thread = Append(@, x)] ELSE recorded
    BY <1>3, LivePushes DEF Push, Count
  <2>2. BoardInv' /\ i \in Int
    BY <2>1, DescribeDescribes DEF Inv, Sites
  <2>3. /\ StackDepth \in Nat /\ ChunkSize \in Nat \ {0} /\ m \in Nat /\ Len(recorded.thread) \in Nat
        /\ storage \in Storage /\ recorded \in History /\ recorded.thread \in Seq(Event)
        /\ storage.stack \in [1 .. StackDepth -> Seq(Int)] /\ b \in PoolSet(ChunkSize, Event)
        /\ Items(b) = recorded.thread /\ clock \in Int
    BY <1>3, CaptureConstants, StorageFields DEF Inv, Typed, BuffersInv
  <2>4. /\ m <= Len(pushes) /\ Len(pushes) \in Nat /\ DOMAIN pushes = 1 .. Len(pushes)
        /\ \A d \in DOMAIN pushes :
             /\ pushes[d].live <=> d - (Len(pushes) - m) > 0
             /\ IF d - (Len(pushes) - m) \in 1 .. StackDepth
                THEN /\ pushes[d].n \in 1 .. Len(recorded.thread)
                     /\ storage.stack[d - (Len(pushes) - m)] = Place(ChunkSize, pushes[d].n)
                ELSE pushes[d].n = 0
    BY <1>1, <1>3 DEF Inv, PushesInv, Depth
  <2>5. pushes' \in Seq(PushSet) /\ Len(pushes') = Len(pushes) + 1
        /\ pushes'[Len(pushes) + 1] = z /\ \A d \in DOMAIN pushes : pushes'[d] = pushes[d]
    <3>1. z \in PushSet
      BY <2>3
    <3> HIDE DEF z
    <3> QED
      BY <1>1, <2>1, <3>1
  <2>6. CASE kept
    <3> DEFINE q == Reserve(b, [description |-> null, start |-> INVALID, finish |-> INVALID])
               p == Write(q, LastPlace(q), x)
    <3>1. storage' = [storage EXCEPT !.eventBuffer = p, !.stack[m + 1] = LastPlace(p), !.index = @ + 1]
      BY <2>1, <2>6 DEF PushEvent
    <3>2. [description |-> null, start |-> INVALID, finish |-> INVALID] \in Event /\ x \in Event
      BY <2>2, <2>3 DEF Event, null, INVALID
    <3> HIDE DEF x
    <3>3. /\ p \in PoolSet(ChunkSize, Event) /\ Items(p) = Append(recorded.thread, x)
          /\ LastPlace(p) = Place(ChunkSize, Len(recorded.thread) + 1)
      BY <2>3, <3>2, ReserveThenWrite
    <3> HIDE DEF p, b
    <3>4. LastPlace(p) \in Seq(Int)
      <4>1. Len(recorded.thread) + 1 \in Nat \ {0} /\ ChunkSize \in Nat \ {0}
        BY <2>3
      <4> QED
        BY <3>3, <4>1, PlaceTyped
    <3>5. /\ storage' \in Storage /\ storage'.eventBuffer = p /\ storage'.tags = storage.tags
          /\ storage'.index = m + 1
          /\ storage'.stack = [storage.stack EXCEPT ![m + 1] = LastPlace(p)]
      <4> DEFINE stk == [storage.stack EXCEPT ![m + 1] = LastPlace(p)]  k == m + 1
      <4>1. stk \in [1 .. StackDepth -> Seq(Int)] /\ k \in Nat
        <5>1. stk \in [1 .. StackDepth -> Seq(Int)]
          BY <2>3, <3>4
        <5>2. k \in Nat
          BY <2>3
        <5> QED
          BY <5>1, <5>2
      <4>2. storage' = [storage EXCEPT !.eventBuffer = p, !.stack = stk, !.index = k]
        BY <3>1
      <4>3. storage \in Storage /\ p \in PoolSet(ChunkSize, Event)
        BY <2>3, <3>3
      <4> HIDE DEF stk, k
      <4>4. /\ storage' \in Storage /\ storage'.eventBuffer = p /\ storage'.tags = storage.tags
            /\ storage'.index = k /\ storage'.stack = stk
        BY <4>1, <4>2, <4>3 DEF Storage
      <4> QED
        BY <4>4 DEF stk, k
    <3> DEFINE y == Append(recorded.thread, x)
    <3>6. y \in Seq(Event) /\ Len(y) = Len(recorded.thread) + 1 /\ recorded' = [recorded EXCEPT !.thread = y]
      BY <2>1, <2>3, <2>6, <3>2
    <3>7. Items(p) = y
      BY <3>3
    <3> HIDE DEF y
    <3>8. recorded' \in History /\ recorded'.thread = y /\ SameOthers(recorded')
      BY <2>3, <3>6, ThreadReplaced DEF SameOthers
    <3>9. Typed'
      BY <1>1, <2>5, <3>5, <3>8 DEF Inv, Typed
    <3>10. BuffersInv' /\ FramesInv'
      BY <1>1, <1>3, <3>5, <3>7, <3>8 DEF Inv, BuffersInv, FramesInv, SameOthers
    <3>11. ScopesInv'
      BY <1>1, <1>3, <2>3, <3>6, <3>8 DEF Inv, ScopesInv
    <3>12. PushesInv'
      <4>1. storage'.index <= Len(pushes')
        BY <2>3, <2>4, <2>5, <3>5
      <4>2. Len(pushes') - storage'.index = Len(pushes) - m
        <5>1. /\ Len(pushes') = Len(pushes) + 1 /\ storage'.index = m + 1
              /\ Len(pushes) \in Nat /\ m \in Nat
          BY <2>3, <2>4, <2>5, <3>5
        <5> HIDE DEF m
        <5> QED
          BY <5>1
      <4>3. ASSUME NEW d \in DOMAIN pushes'
            PROVE  LET k == d - (Len(pushes) - m)
                   IN  /\ pushes'[d].live <=> k > 0
                       /\ IF k \in 1 .. StackDepth
                          THEN /\ pushes'[d].n \in 1 .. Len(recorded'.thread)
                               /\ storage'.stack[k] = Place(ChunkSize, pushes'[d].n)
                          ELSE pushes'[d].n = 0
        <5> DEFINE k == d - (Len(pushes) - m)
        <5>1. d \in 1 .. Len(pushes) + 1
          BY <2>4, <2>5
        <5>2. CASE d = Len(pushes) + 1
          <6>1. k = m + 1 /\ k \in 1 .. StackDepth /\ pushes'[d] = z
            BY <2>3, <2>4, <2>5, <2>6, <5>2, SMTT(30)
          <6>2. z.n = Len(recorded.thread) + 1 /\ z.live
            BY <2>6
          <6>3. storage'.stack[k] = Place(ChunkSize, z.n)
            BY <2>3, <3>3, <3>5, <6>1, <6>2
          <6>4. z.n \in 1 .. Len(recorded'.thread)
            BY <2>3, <3>6, <3>8, <6>2
          <6>5. k > 0
            BY <6>1
          <6> HIDE DEF z, k
          <6>6. pushes'[d].live <=> k > 0
            BY <6>1, <6>2, <6>5
          <6> QED
            BY <6>1, <6>3, <6>4, <6>6 DEF k
        <5>3. CASE d # Len(pushes) + 1
          <6>1. d \in DOMAIN pushes /\ pushes'[d] = pushes[d] /\ k \in Int /\ k <= m
            BY <2>3, <2>4, <2>5, <5>1, <5>3
          <6>2. k \in 1 .. StackDepth => storage'.stack[k] = storage.stack[k]
            BY <2>3, <3>5, <6>1
          <6>3. \A n \in 1 .. Len(recorded.thread) : n \in 1 .. Len(recorded'.thread)
            BY <2>3, <3>6, <3>8
          <6>4. /\ pushes[d].live <=> k > 0
                /\ IF k \in 1 .. StackDepth
                   THEN /\ pushes[d].n \in 1 .. Len(recorded.thread)
                        /\ storage.stack[k] = Place(ChunkSize, pushes[d].n)
                   ELSE pushes[d].n = 0
            BY <2>4, <6>1
          <6> HIDE DEF k
          <6> QED
            BY <6>1, <6>2, <6>3, <6>4 DEF k
        <5> QED
          BY <5>2, <5>3
      <4> QED
        BY <4>1, <4>2, <4>3 DEF PushesInv, Depth
    <3> QED
      BY <2>2, <3>9, <3>10, <3>11, <3>12 DEF Inv
  <2>7. CASE ~kept
    <3>1. storage' = [storage EXCEPT !.index = @ + 1] /\ recorded' = recorded
      BY <2>1, <2>7 DEF PushEvent
    <3>2. /\ storage' \in Storage /\ storage'.eventBuffer = b /\ storage'.tags = storage.tags
          /\ storage'.index = m + 1 /\ storage'.stack = storage.stack
      BY <2>3, <3>1 DEF Storage
    <3>3. Typed' /\ BuffersInv' /\ FramesInv' /\ ScopesInv'
      BY <1>1, <1>3, <2>5, <3>1, <3>2 DEF Inv, Typed, BuffersInv, FramesInv, ScopesInv
    <3>4. PushesInv'
      <4>1. storage'.index <= Len(pushes')
        BY <2>3, <2>4, <2>5, <3>2
      <4>2. Len(pushes') - storage'.index = Len(pushes) - m
        <5>1. /\ Len(pushes') = Len(pushes) + 1 /\ storage'.index = m + 1
              /\ Len(pushes) \in Nat /\ m \in Nat
          BY <2>3, <2>4, <2>5, <3>2
        <5> HIDE DEF m
        <5> QED
          BY <5>1
      <4>3. ASSUME NEW d \in DOMAIN pushes'
            PROVE  LET k == d - (Len(pushes) - m)
                   IN  /\ pushes'[d].live <=> k > 0
                       /\ IF k \in 1 .. StackDepth
                          THEN /\ pushes'[d].n \in 1 .. Len(recorded'.thread)
                               /\ storage'.stack[k] = Place(ChunkSize, pushes'[d].n)
                          ELSE pushes'[d].n = 0
        <5> DEFINE k == d - (Len(pushes) - m)
        <5>1. d \in 1 .. Len(pushes) + 1
          BY <2>4, <2>5
        <5>2. CASE d = Len(pushes) + 1
          <6>1. k = m + 1 /\ k \notin 1 .. StackDepth /\ k > 0 /\ pushes'[d] = z
            BY <2>3, <2>4, <2>5, <2>7, <5>2
          <6>2. z.n = 0 /\ z.live
            BY <2>7
          <6> HIDE DEF z, k
          <6> QED
            BY <6>1, <6>2 DEF k
        <5>3. CASE d # Len(pushes) + 1
          <6>1. d \in DOMAIN pushes /\ pushes'[d] = pushes[d]
            BY <2>3, <2>4, <2>5, <5>1, <5>3
          <6> QED
            BY <2>4, <3>1, <3>2, <6>1
        <5> QED
          BY <5>2, <5>3
      <4> QED
        BY <4>1, <4>2, <4>3 DEF PushesInv, Depth
    <3> QED
      BY <2>2, <3>3, <3>4 DEF Inv
  <2> QED
    BY <2>6, <2>7
<1> QED
  BY <1>2, <1>3 DEF Inv, Typed


LEMMA PopStep ==
    ASSUME Inv, Pop
    PROVE  Inv'
<1> DEFINE PushSet == [n : Nat, live : BOOLEAN]  L == Len(pushes)  e == pushes[L]
<1>1. /\ UNCHANGED <<mode, clock, boardVars, custom, frames, scopes, pc>> /\ pc = "run"
      /\ pushes \in Seq(PushSet) /\ pushes # << >> /\ pushes' = Front(pushes)
  BY DEF Pop, Inv, Typed
<1>2. BoardInv'
  BY <1>1, BoardUnchanged DEF Inv
<1>3. /\ pushes' \in Seq(PushSet) /\ L \in Nat \ {0} /\ Len(pushes') = L - 1
      /\ DOMAIN pushes' = 1 .. L - 1
      /\ \A d \in DOMAIN pushes' : d \in DOMAIN pushes /\ d # L /\ pushes'[d] = pushes[d]
  <2>1. /\ pushes' \in Seq(PushSet) /\ L \in Nat \ {0} /\ Len(pushes') = L - 1
        /\ \A d \in DOMAIN pushes' : d \in DOMAIN pushes /\ d # L /\ pushes'[d] = pushes[d]
    BY <1>1, FrontOf
  <2> HIDE DEF L
  <2>2. DOMAIN pushes' = 1 .. Len(pushes')
    BY <2>1
  <2> QED
    BY <2>1, <2>2
<1>4. CASE mode # "ON"
  <2>1. UNCHANGED <<storage, recorded>>
    BY <1>4 DEF Pop, Inv, Typed
  <2> QED
    BY <1>1, <1>2, <1>3, <1>4, <2>1 DEF Inv, Typed, BuffersInv, FramesInv, ScopesInv, PushesInv
<1>5. CASE mode = "ON"
  <2> DEFINE m == storage.index
  <2>1. /\ PopEvent
        /\ recorded' = IF e.n = 0 THEN recorded ELSE [recorded EXCEPT !.thread[e.n].finish = clock]
    BY <1>5 DEF Pop
  <2>2. /\ storage \in Storage /\ m \in Nat /\ StackDepth \in Nat
    BY CaptureConstants, StorageFields DEF Inv, Typed
  <2>3. /\ m <= L
        /\ \A d \in DOMAIN pushes :
             /\ pushes[d].live <=> d - (L - m) > 0
             /\ IF d - (L - m) \in 1 .. StackDepth
                THEN /\ pushes[d].n \in 1 .. Len(recorded.thread)
                     /\ storage.stack[d - (L - m)] = Place(ChunkSize, pushes[d].n)
                ELSE pushes[d].n = 0
    BY <1>5 DEF Inv, PushesInv, Depth
  <2>4. L \in DOMAIN pushes /\ L - (L - m) = m
    <3>1. L \in DOMAIN pushes
      BY <1>1, <1>3
    <3> HIDE DEF L, m
    <3> QED
      BY <1>3, <2>2, <3>1
  <2>5. IF m \in 1 .. StackDepth
        THEN e.n \in 1 .. Len(recorded.thread) /\ storage.stack[m] = Place(ChunkSize, e.n)
        ELSE e.n = 0
    BY <2>3, <2>4
  <2>6. CASE m = 0
    <3>1. storage' = storage /\ recorded' = recorded
      BY <2>1, <2>5, <2>6 DEF PopEvent
    <3>2. PushesInv'
      <4>1. ASSUME NEW d \in DOMAIN pushes'
            PROVE  /\ pushes'[d].live <=> Depth(d)' > 0
                   /\ Depth(d)' \notin 1 .. StackDepth /\ pushes'[d].n = 0
        <5>1. d \in 1 .. L - 1 /\ d - (L - m) \notin 1 .. StackDepth /\ ~(d - (L - m) > 0)
          <6>1. d \in 1 .. L - 1
            BY <1>3
          <6> HIDE DEF L, m
          <6> QED
            BY <1>3, <2>2, <2>6, <6>1
        <5>2. ~pushes[d].live /\ pushes[d].n = 0 /\ pushes'[d] = pushes[d]
          BY <1>3, <2>3, <5>1
        <5>3. Depth(d)' = d - (L - 1)
          <6>1. Depth(d)' = d - ((L - 1) - m)
            BY <1>3, <3>1 DEF Depth
          <6> HIDE DEF L, m
          <6> QED
            BY <1>3, <2>6, <5>1, <6>1
        <5>4. Depth(d)' \notin 1 .. StackDepth /\ ~(Depth(d)' > 0)
          <6> HIDE DEF L, m
          <6> QED
            BY <1>3, <5>1, <5>3
        <5> QED
          BY <5>2, <5>4
      <4>2. storage'.index <= Len(pushes')
        BY <1>3, <2>6, <3>1
      <4> QED
        BY <4>1, <4>2 DEF PushesInv
    <3> QED
      BY <1>1, <1>2, <1>3, <1>5, <3>1, <3>2 DEF Inv, Typed, BuffersInv, FramesInv, ScopesInv
  <2>7. ASSUME m # 0, storage' \in Storage, storage'.index = m - 1, storage'.stack = storage.stack,
               Len(recorded'.thread) = Len(recorded.thread)
        PROVE  PushesInv'
    <3>1. Len(pushes') - storage'.index = L - m /\ storage'.index <= Len(pushes')
      <4>1. Len(pushes') = L - 1 /\ storage'.index = m - 1 /\ L \in Nat /\ m \in Nat /\ m <= L
        BY <1>3, <2>2, <2>3, <2>7
      <4> HIDE DEF L, m
      <4> QED
        BY <4>1
    <3>2. ASSUME NEW d \in DOMAIN pushes' PROVE Depth(d)' = d - (L - m)
      BY <3>1 DEF Depth
    <3> QED
      BY <1>3, <2>3, <2>7, <3>1, <3>2 DEF PushesInv
  <2>8. CASE m \in 1 .. StackDepth
    <3> DEFINE n == e.n  loc == Place(ChunkSize, n)
               p == Write(storage.eventBuffer, loc, [At(storage.eventBuffer, loc) EXCEPT !.finish = clock])
    <3>1. n \in 1 .. Len(recorded.thread) /\ n # 0 /\ storage.stack[m] = loc
      BY <2>5, <2>8
    <3>2. m # 0 /\ m - 1 < StackDepth /\ m - 1 \in Nat
      <4> HIDE DEF m
      <4> QED
        BY <2>2, <2>8
    <3>3. storage' = [storage EXCEPT !.index = @ - 1, !.eventBuffer = p]
      BY <2>1, <3>1, <3>2 DEF PopEvent
    <3>4. recorded' = [recorded EXCEPT !.thread[n].finish = clock]
      BY <2>1, <3>1
    <3> HIDE DEF n
    <3>5. /\ p \in PoolSet(ChunkSize, Event) /\ recorded' \in History
          /\ Items(p) = recorded'.thread /\ Len(recorded'.thread) = Len(recorded.thread)
          /\ SameOthers(recorded')
      BY <1>5, <3>1, <3>4, EventFinished DEF SameOthers
    <3> HIDE DEF p, loc
    <3>6. /\ storage' \in Storage /\ storage'.eventBuffer = p /\ storage'.tags = storage.tags
          /\ storage'.index = m - 1 /\ storage'.stack = storage.stack
      <4> DEFINE k == m - 1
      <4>1. storage' = [storage EXCEPT !.index = k, !.eventBuffer = p] /\ k \in Nat
        BY <3>2, <3>3
      <4> HIDE DEF k
      <4>2. /\ storage' \in Storage /\ storage'.eventBuffer = p /\ storage'.tags = storage.tags
            /\ storage'.index = k /\ storage'.stack = storage.stack
        BY <2>2, <3>5, <4>1 DEF Storage
      <4> QED
        BY <4>2 DEF k
    <3>7. Typed'
      BY <1>1, <1>3, <3>5, <3>6 DEF Inv, Typed
    <3>8. BuffersInv' /\ FramesInv' /\ ScopesInv'
      BY <1>1, <1>5, <3>5, <3>6 DEF Inv, BuffersInv, FramesInv, ScopesInv, SameOthers
    <3>9. PushesInv'
      BY <2>7, <3>2, <3>5, <3>6
    <3> QED
      BY <1>2, <3>7, <3>8, <3>9 DEF Inv
  <2>9. CASE m # 0 /\ m \notin 1 .. StackDepth
    <3>1. e.n = 0 /\ recorded' = recorded
      BY <2>1, <2>5, <2>9
    <3>2. ~(m - 1 < StackDepth) /\ m - 1 \in Nat
      <4> HIDE DEF m
      <4> QED
        BY <2>2, <2>9
    <3>3. storage' = [storage EXCEPT !.index = @ - 1]
      BY <2>1, <2>9, <3>2 DEF PopEvent
    <3>4. /\ storage' \in Storage /\ storage'.eventBuffer = storage.eventBuffer
          /\ storage'.tags = storage.tags /\ storage'.index = m - 1 /\ storage'.stack = storage.stack
      <4> DEFINE k == m - 1
      <4>1. storage' = [storage EXCEPT !.index = k] /\ k \in Nat
        BY <3>2, <3>3
      <4> HIDE DEF k
      <4>2. /\ storage' \in Storage /\ storage'.eventBuffer = storage.eventBuffer
            /\ storage'.tags = storage.tags /\ storage'.index = k /\ storage'.stack = storage.stack
        BY <2>2, <4>1 DEF Storage
      <4> QED
        BY <4>2 DEF k
    <3>5. Typed' /\ BuffersInv' /\ FramesInv' /\ ScopesInv'
      BY <1>1, <1>3, <1>5, <3>1, <3>4 DEF Inv, Typed, BuffersInv, FramesInv, ScopesInv
    <3>6. PushesInv'
      BY <2>7, <2>9, <3>1, <3>4
    <3> QED
      BY <1>2, <3>5, <3>6 DEF Inv
  <2> QED
    BY <2>6, <2>8, <2>9
<1> QED
  BY <1>4, <1>5

-----------------------------------------------------------------------------
(* Custom events, frames, tags and attachments.                              *)

LEMMA AddedLast ==
    ASSUME NEW s \in Nat \ {0}, NEW C, NEW p \in PoolSet(s, C), NEW x \in C
    PROVE  Add(p, x) \in PoolSet(s, C) /\ Items(Add(p, x)) = Append(Items(p), x)
<1>1. Add(p, x) \in PoolSet(s, C) /\ Items(Add(p, x)) = Items(p) \o <<x>> /\ Items(p) \in Seq(C)
  <2>1. Items(p) \in Seq(C)
    BY PoolItems
  <2> QED
    BY <2>1, AddAppends
<1> DEFINE u == Items(p)
<1> HIDE DEF u
<1>2. u \o <<x>> = Append(u, x)
  <2>1. u \in Seq(C)
    BY <1>1 DEF u
  <2> QED
    BY <2>1
<1> QED
  BY <1>1, <1>2 DEF u

LEMMA AddCustomStep ==
    ASSUME Inv, NEW start \in 0 .. clock, AddCustom(start, clock)
    PROVE  Inv'
<1> DEFINE e == [description |-> sites'["Pushed"], start |-> start, finish |-> clock]
           y == Append(recorded.custom, e)
<1>1. /\ mode = "ON" /\ Describe("Pushed")
      /\ custom' = Add(custom, e) /\ recorded' = [recorded EXCEPT !.custom = y]
      /\ UNCHANGED <<mode, clock, storage, frames, scopes, pushes, pc>>
  BY DEF AddCustom, Recording
<1>2. BoardInv' /\ sites'["Pushed"] \in Int
  BY <1>1, DescribeDescribes DEF Inv, Sites
<1>3. e \in Event
  BY <1>2 DEF Inv, Typed, Event
<1>4. /\ ChunkSize \in Nat \ {0} /\ custom \in PoolSet(ChunkSize, Event) /\ recorded \in History
      /\ recorded.custom \in Seq(Event) /\ Items(custom) = recorded.custom
  BY <1>1, CaptureConstants, StorageFields DEF Inv, Typed, BuffersInv
<1> HIDE DEF e
<1>5. custom' \in PoolSet(ChunkSize, Event) /\ Items(custom') = y
  <2>1. ChunkSize \in Nat \ {0} /\ custom \in PoolSet(ChunkSize, Event)
    BY <1>4
  <2>2. Add(custom, e) \in PoolSet(ChunkSize, Event) /\ Items(Add(custom, e)) = Append(Items(custom), e)
    BY <1>3, <2>1, AddedLast
  <2> QED
    BY <1>1, <1>4, <2>2
<1>6. y \in Seq(Event)
  BY <1>3, <1>4
<1> HIDE DEF y
<1>7. /\ recorded' \in History /\ recorded'.custom = y /\ recorded'.thread = recorded.thread
      /\ recorded'.tags = recorded.tags /\ recorded'.frames = recorded.frames
  BY <1>1, <1>4, <1>6 DEF History
<1>8. Typed'
  BY <1>1, <1>5, <1>7 DEF Inv, Typed
<1>9. BuffersInv' /\ FramesInv'
  BY <1>1, <1>5, <1>7 DEF Inv, BuffersInv, FramesInv
<1>10. ScopesInv' /\ PushesInv'
  BY <1>1, <1>7 DEF Inv, ScopesInv, PushesInv, Depth
<1> QED
  BY <1>2, <1>8, <1>9, <1>10 DEF Inv

(* A tag goes to the end of its own buffer.                                  *)
LEMMA TagAttached ==
    ASSUME NEW st \in Storage, NEW k \in TagKinds, NEW tag \in TagData, NEW t, t = Attached(st, k, tag)
    PROVE  /\ t \in Storage /\ t.eventBuffer = st.eventBuffer /\ t.stack = st.stack /\ t.index = st.index
           /\ Items(t.tags[k]) = Append(Items(st.tags[k]), tag)
           /\ \A j \in TagKinds : j # k => t.tags[j] = st.tags[j]
<1>1. ChunkSize \in Nat \ {0} /\ st.tags \in [TagKinds -> PoolSet(ChunkSize, TagData)]
  BY CaptureConstants DEF Storage
<1> DEFINE q == Add(st.tags[k], tag)
<1>2. q \in PoolSet(ChunkSize, TagData) /\ Items(q) = Append(Items(st.tags[k]), tag)
  BY <1>1, AddedLast
<1>3. t = [st EXCEPT !.tags[k] = q]
  BY DEF Attached
<1> HIDE DEF q
<1> DEFINE f == [st.tags EXCEPT ![k] = q]
<1>4. t = [st EXCEPT !.tags = f] /\ f \in [TagKinds -> PoolSet(ChunkSize, TagData)]
  BY <1>1, <1>2, <1>3
<1>5. f[k] = q /\ \A j \in TagKinds : j # k => f[j] = st.tags[j]
  BY <1>1
<1> HIDE DEF f
<1>6. /\ t \in Storage /\ t.eventBuffer = st.eventBuffer /\ t.stack = st.stack /\ t.index = st.index
      /\ t.tags = f
  BY <1>4 DEF Storage
<1> QED
  BY <1>2, <1>5, <1>6

LEMMA AttachStringStep ==
    ASSUME Inv, NEW length \in StringLengths, AttachString(length)
    PROVE  Inv'
<1> DEFINE t == [timestamp |-> clock, description |-> FrameTag,
                 data |-> IF length < MaxString THEN length ELSE MaxString]
           y == Append(recorded.tags["String"], t)
<1>1. /\ mode = "ON" /\ storage' = Attached(storage, "String", t)
      /\ recorded' = [recorded EXCEPT !.tags["String"] = y]
      /\ UNCHANGED <<mode, clock, boardVars, custom, frames, scopes, pushes, pc>>
  BY DEF AttachString, Recording
<1>2. BoardInv'
  BY <1>1, BoardUnchanged DEF Inv
<1>3. t \in TagData /\ "String" \in TagKinds
  BY CaptureConstants DEF Inv, Typed, TagData, FrameTag, MaxString, TagKinds
<1> HIDE DEF t
<1>4. /\ storage \in Storage /\ recorded \in History /\ recorded.tags \in [TagKinds -> Seq(TagData)]
      /\ \A k \in TagKinds : Items(storage.tags[k]) = recorded.tags[k]
  BY <1>1, StorageFields DEF Inv, Typed, BuffersInv
<1>5. /\ storage' \in Storage /\ storage'.eventBuffer = storage.eventBuffer
      /\ storage'.stack = storage.stack /\ storage'.index = storage.index
      /\ Items(storage'.tags["String"]) = y
      /\ \A j \in TagKinds : j # "String" => storage'.tags[j] = storage.tags[j]
  <2> DEFINE k == "String"
  <2>1. storage \in Storage /\ k \in TagKinds /\ t \in TagData /\ storage' = Attached(storage, k, t)
    BY <1>1, <1>3, <1>4
  <2>2. y = Append(Items(storage.tags[k]), t)
    BY <1>3, <1>4
  <2> HIDE DEF k, y
  <2>3. /\ storage' \in Storage /\ storage'.eventBuffer = storage.eventBuffer
        /\ storage'.stack = storage.stack /\ storage'.index = storage.index
        /\ Items(storage'.tags[k]) = y
        /\ \A j \in TagKinds : j # k => storage'.tags[j] = storage.tags[j]
    BY <2>1, <2>2, TagAttached
  <2> QED
    BY <2>3 DEF k
<1>6. y \in Seq(TagData)
  BY <1>3, <1>4
<1> HIDE DEF y
<1>7. /\ recorded' \in History /\ recorded'.custom = recorded.custom /\ recorded'.thread = recorded.thread
      /\ recorded'.frames = recorded.frames
      /\ recorded'.tags = [recorded.tags EXCEPT !["String"] = y]
  BY <1>1, <1>3, <1>4, <1>6 DEF History
<1>8. Typed'
  BY <1>1, <1>5, <1>7 DEF Inv, Typed
<1>9. BuffersInv' /\ FramesInv'
  BY <1>1, <1>4, <1>5, <1>7 DEF Inv, BuffersInv, FramesInv
<1>10. ScopesInv' /\ PushesInv'
  BY <1>1, <1>5, <1>7 DEF Inv, ScopesInv, PushesInv, Depth
<1> QED
  BY <1>2, <1>8, <1>9, <1>10 DEF Inv

LEMMA AttachStep ==
    ASSUME Inv, NEW entry \in Attachments, Attach(entry)
    PROVE  Inv'
<1> DEFINE y == Append(recorded.summary, entry)
<1>1. /\ recorded' = [recorded EXCEPT !.summary = y]
      /\ UNCHANGED <<mode, clock, boardVars, storage, custom, frames, scopes, pushes, pc>>
  BY DEF Attach
<1>2. BoardInv'
  BY <1>1, BoardUnchanged DEF Inv
<1>3. recorded \in History /\ y \in Seq(Attachments)
  BY StorageFields DEF Inv, Typed
<1> HIDE DEF y
<1>4. /\ recorded' \in History /\ recorded'.thread = recorded.thread /\ SameOthers(recorded')
  BY <1>1, <1>3 DEF History, SameOthers
<1> QED
  BY <1>1, <1>2, <1>4
  DEF Inv, Typed, BuffersInv, FramesInv, ScopesInv, PushesInv, Depth, SameOthers

LEMMA TickStep ==
    ASSUME Inv, Tick
    PROVE  Inv'
<1>1. UNCHANGED <<mode, boardVars, storage, custom, frames, scopes, pushes, pc, recorded>> /\ clock' = clock + 1
  BY DEF Tick
<1>2. BoardInv'
  BY <1>1, BoardUnchanged DEF Inv
<1> QED
  BY <1>1, <1>2 DEF Inv, Typed, BuffersInv, FramesInv, ScopesInv, PushesInv, Depth


LEMMA BeginFrameStep ==
    ASSUME Inv, BeginFrame
    PROVE  Inv'
<1> DEFINE f == [description |-> FrameDescription, start |-> clock, finish |-> clock]
           tag == [timestamp |-> clock, description |-> FrameTag, data |-> Size(frames) + 1]
<1>1. PICK g \in Garbage :
          LET p == NewEvent(FrameDescription, g)
          IN  /\ frames' = Add(frames, f)
              /\ storage' = Attached([storage EXCEPT !.eventBuffer = p], "U32", tag)
              /\ scopes' = <<[loc |-> LastPlace(p), n |-> Count + 1]>>
              /\ recorded' = [recorded EXCEPT !.frames = Append(@, f), !.tags["U32"] = Append(@, tag),
                                              !.thread = Append(@, At(p, LastPlace(p)))]
  BY DEF BeginFrame
<1>2. mode = "ON" /\ pc = "run" /\ UNCHANGED <<mode, clock, boardVars, custom, pushes, pc>>
  BY DEF BeginFrame, Recording
<1>3. BoardInv'
  BY <1>2, BoardUnchanged DEF Inv
<1> DEFINE p == NewEvent(FrameDescription, g)  e == At(p, LastPlace(p))  b == storage.eventBuffer
           st == [storage EXCEPT !.eventBuffer = p]  k == "U32"
           fs == Append(recorded.frames, f)  us == Append(recorded.tags["U32"], tag)
           ts == Append(recorded.thread, e)
           z == [loc |-> LastPlace(p), n |-> Len(recorded.thread) + 1]
<1>4. /\ frames' = Add(frames, f) /\ storage' = Attached(st, k, tag) /\ scopes' = <<z>>
      /\ recorded' = [recorded EXCEPT !.frames = fs, !.tags["U32"] = us, !.thread = ts]
  BY <1>1 DEF Count
<1>5. /\ ChunkSize \in Nat \ {0} /\ FrameChunk \in Nat \ {0} /\ clock \in Int
      /\ frames \in PoolSet(FrameChunk, Event) /\ Items(frames) = recorded.frames
      /\ storage \in Storage /\ recorded \in History
      /\ Items(b) = recorded.thread /\ \A j \in TagKinds : Items(storage.tags[j]) = recorded.tags[j]
  BY <1>2, CaptureConstants DEF Inv, Typed, BuffersInv, FramesInv
<1>6. /\ recorded.thread \in Seq(Event) /\ recorded.frames \in Seq(Event)
      /\ recorded.tags \in [TagKinds -> Seq(TagData)]
  BY StorageFields DEF Inv
<1>7. f \in Event /\ tag \in TagData /\ k \in TagKinds /\ FrameDescription \in Int
  <2>1. Size(frames) \in Int
    BY <1>5, PoolSize
  <2> QED
    BY <1>5, <2>1 DEF Event, TagData, TagKinds, FrameDescription, FrameTag
<1>8. /\ p \in PoolSet(ChunkSize, Event) /\ e \in Event /\ Items(p) = Append(Items(b), e)
      /\ LastPlace(p) = Place(ChunkSize, Len(Items(b)) + 1)
  BY <1>7, NewEventHolds DEF Inv
<1> HIDE DEF p, e, f, tag
<1>9. fs \in Seq(Event) /\ us \in Seq(TagData) /\ ts \in Seq(Event) /\ Len(ts) = Len(recorded.thread) + 1
  BY <1>6, <1>7, <1>8 DEF TagKinds
<1>10. Items(p) = ts /\ LastPlace(p) = Place(ChunkSize, Len(recorded.thread) + 1)
  BY <1>5, <1>8
<1>11. us = Append(Items(storage.tags[k]), tag) /\ us = Append(recorded.tags[k], tag)
  BY <1>5, <1>7
<1>12. frames' \in PoolSet(FrameChunk, Event) /\ Items(frames') = fs
  <2>1. FrameChunk \in Nat \ {0} /\ frames \in PoolSet(FrameChunk, Event)
    BY <1>5
  <2>2. Add(frames, f) \in PoolSet(FrameChunk, Event) /\ Items(Add(frames, f)) = Append(Items(frames), f)
    BY <1>7, <2>1, AddedLast
  <2> QED
    BY <1>4, <1>5, <2>2
<1> HIDE DEF st, fs, us, ts, z
<1>13. /\ st \in Storage /\ st.eventBuffer = p
       /\ st.tags = storage.tags /\ st.stack = storage.stack /\ st.index = storage.index
  <2>1. storage \in Storage
    BY <1>5
  <2> QED
    BY <1>8, <2>1, BufferReplaced DEF st
<1>14. /\ storage' \in Storage /\ storage'.eventBuffer = p
       /\ storage'.stack = storage.stack /\ storage'.index = storage.index
       /\ Items(storage'.tags[k]) = us
       /\ \A j \in TagKinds : j # k => storage'.tags[j] = storage.tags[j]
  <2> HIDE DEF k
  <2>1. /\ storage' \in Storage /\ storage'.eventBuffer = st.eventBuffer
        /\ storage'.stack = st.stack /\ storage'.index = st.index
        /\ Items(storage'.tags[k]) = Append(Items(st.tags[k]), tag)
        /\ \A j \in TagKinds : j # k => storage'.tags[j] = st.tags[j]
    <3>1. st \in Storage /\ k \in TagKinds /\ tag \in TagData /\ storage' = Attached(st, k, tag)
      BY <1>4, <1>7, <1>13
    <3> QED
      BY <3>1, TagAttached
  <2> QED
    BY <1>11, <1>13, <2>1
<1>15. /\ recorded' \in History /\ recorded'.thread = ts /\ recorded'.frames = fs
       /\ recorded'.custom = recorded.custom
       /\ recorded'.tags[k] = us /\ \A j \in TagKinds : j # k => recorded'.tags[j] = recorded.tags[j]
  <2> DEFINE ys == [recorded.tags EXCEPT !["U32"] = us]
  <2>1. /\ ys \in [TagKinds -> Seq(TagData)]
        /\ ys[k] = us /\ \A j \in TagKinds : j # k => ys[j] = recorded.tags[j]
    BY <1>6, <1>7, <1>9
  <2>2. recorded' = [recorded EXCEPT !.frames = fs, !.tags = ys, !.thread = ts]
    BY <1>4
  <2> HIDE DEF ys
  <2>3. recorded \in History
    BY <1>5
  <2>4. /\ recorded' \in History /\ recorded'.thread = ts /\ recorded'.frames = fs
        /\ recorded'.custom = recorded.custom /\ recorded'.tags = ys
    BY <1>9, <2>1, <2>2, <2>3 DEF History
  <2> QED
    BY <2>1, <2>4
<1>16. z \in [loc : Seq(Int), n : Nat] /\ z.loc = Place(ChunkSize, z.n) /\ z.n \in 1 .. Len(ts)
  <2>1. Len(recorded.thread) + 1 \in Nat \ {0}
    BY <1>6
  <2>2. Place(ChunkSize, Len(recorded.thread) + 1) \in Seq(Int)
    BY <1>5, <2>1, PlaceTyped
  <2> QED
    BY <1>9, <1>10, <2>1, <2>2 DEF z
<1>17. Typed'
  <2>1. scopes' \in Seq([loc : Seq(Int), n : Nat])
    BY <1>4, <1>16
  <2> QED
    BY <1>2, <1>12, <1>14, <1>15, <2>1 DEF Inv, Typed
<1>18. BuffersInv'
  <2>1. \A j \in TagKinds : Items(storage'.tags[j]) = recorded'.tags[j]
    BY <1>5, <1>14, <1>15
  <2> QED
    BY <1>2, <1>10, <1>14, <1>15, <2>1 DEF Inv, BuffersInv
<1>19. FramesInv'
  BY <1>2, <1>12, <1>15 DEF FramesInv
<1>20. ScopesInv'
  BY <1>4, <1>15, <1>16 DEF ScopesInv
<1>21. PushesInv'
  <2>1. \A n \in 1 .. Len(recorded.thread) : n \in 1 .. Len(recorded'.thread)
    BY <1>6, <1>9, <1>15
  <2> QED
    BY <1>2, <1>14, <2>1 DEF Inv, PushesInv, Depth
<1> QED
  BY <1>3, <1>17, <1>18, <1>19, <1>20, <1>21 DEF Inv

LEMMA EndFrameStep ==
    ASSUME Inv, EndFrame
    PROVE  Inv'
<1> DEFINE loc == Back(frames)  x == [At(frames, loc) EXCEPT !.finish = clock]
           m == Len(recorded.frames)
<1>1. /\ mode = "ON" /\ pc = "run" /\ loc # << >>
      /\ frames' = Write(frames, loc, x)
      /\ recorded' = [recorded EXCEPT !.frames[m].finish = clock]
      /\ UNCHANGED <<mode, clock, boardVars, storage, custom, scopes, pushes, pc>>
  BY DEF EndFrame, Recording
<1>2. BoardInv'
  BY <1>1, BoardUnchanged DEF Inv
<1>3. /\ FrameChunk \in Nat \ {0} /\ frames \in PoolSet(FrameChunk, Event) /\ clock \in Int
      /\ Items(frames) = recorded.frames /\ recorded \in History /\ recorded.frames \in Seq(Event)
  BY <1>1, CaptureConstants, StorageFields DEF Inv, Typed, FramesInv
<1>4. Size(frames) \in Nat \ {0} /\ loc = Place(FrameChunk, Size(frames))
  <2>1. FrameChunk \in Nat \ {0} /\ frames \in PoolSet(FrameChunk, Event)
    BY <1>3
  <2> QED
    BY <1>1, <2>1, BackIsLast
<1>5. Size(frames) = m
  BY <1>3, PoolItems
<1> DEFINE fs == recorded.frames
<1>6. m \in 1 .. Size(frames) /\ fs[m] \in Event /\ m \in 1 .. Len(fs) /\ loc = Place(FrameChunk, m)
  BY <1>3, <1>4, <1>5
<1> HIDE DEF loc, m
<1>7. At(frames, loc) = fs[m]
  BY <1>3, <1>6, WriteReplaces
<1>8. x \in Event /\ x = [fs[m] EXCEPT !.finish = clock]
  BY <1>3, <1>6, <1>7 DEF Event
<1> HIDE DEF x
<1> DEFINE y == Replaced(fs, m, x)
<1>9. frames' \in PoolSet(FrameChunk, Event) /\ Items(frames') = y
  BY <1>1, <1>3, <1>6, <1>8, WriteReplaces
<1>10. y \in Seq(Event) /\ recorded' = [recorded EXCEPT !.frames = y]
  BY <1>1, <1>3, <1>6, <1>8 DEF Replaced
<1> HIDE DEF y
<1>11. /\ recorded' \in History /\ recorded'.frames = y /\ recorded'.thread = recorded.thread
       /\ recorded'.custom = recorded.custom /\ recorded'.tags = recorded.tags
  <2>1. recorded \in History
    BY <1>3
  <2> QED
    BY <1>10, <2>1 DEF History
<1> QED
  BY <1>1, <1>2, <1>9, <1>11
  DEF Inv, Typed, BuffersInv, FramesInv, ScopesInv, PushesInv, Depth

-----------------------------------------------------------------------------
(* Starting, stopping and dumping.                                           *)

LEMMA TagsCleared ==
    ASSUME NEW tags \in [TagKinds -> PoolSet(ChunkSize, TagData)], NEW preserve \in BOOLEAN,
           NEW t, t = ClearTags(tags, preserve)
    PROVE  t \in [TagKinds -> PoolSet(ChunkSize, TagData)] /\ \A k \in TagKinds : Items(t[k]) = << >>
<1>1. ASSUME NEW k \in TagKinds
      PROVE  /\ ClearPool(tags[k], preserve) \in PoolSet(ChunkSize, TagData)
             /\ Items(ClearPool(tags[k], preserve)) = << >>
  <2>1. ChunkSize \in Nat \ {0} /\ tags[k] \in PoolSet(ChunkSize, TagData)
    BY CaptureConstants
  <2> QED
    BY <2>1, ClearedHolds
<1>2. t = [k \in TagKinds |-> ClearPool(tags[k], preserve)]
  BY DEF ClearTags
<1> QED
  BY <1>1, <1>2

LEMMA StorageCleared ==
    ASSUME NEW st \in Storage, NEW preserve \in BOOLEAN, NEW t, t = Clear(st, preserve)
    PROVE  /\ t \in Storage /\ Items(t.eventBuffer) = << >> /\ t.index = 0
           /\ \A k \in TagKinds : Items(t.tags[k]) = << >>
<1> DEFINE b == ClearPool(st.eventBuffer, preserve)  ts == ClearTags(st.tags, preserve)
           stk == [i \in DOMAIN st.stack |-> IF i <= st.index THEN << >> ELSE st.stack[i]]
<1>1. /\ ChunkSize \in Nat \ {0} /\ st.eventBuffer \in PoolSet(ChunkSize, Event)
      /\ st.tags \in [TagKinds -> PoolSet(ChunkSize, TagData)] /\ st.stack \in [1 .. StackDepth -> Seq(Int)]
  BY CaptureConstants DEF Storage
<1>2. b \in PoolSet(ChunkSize, Event) /\ Items(b) = << >>
  BY <1>1, ClearedHolds
<1>3. ts \in [TagKinds -> PoolSet(ChunkSize, TagData)] /\ \A k \in TagKinds : Items(ts[k]) = << >>
  BY <1>1, TagsCleared
<1>4. stk \in [1 .. StackDepth -> Seq(Int)]
  <2>1. ASSUME NEW i \in 1 .. StackDepth PROVE (IF i <= st.index THEN << >> ELSE st.stack[i]) \in Seq(Int)
    <3>1. st.stack \in [1 .. StackDepth -> Seq(Int)]
      BY <1>1
    <3>2. st.stack[i] \in Seq(Int)
      BY <3>1
    <3>3. << >> \in Seq(Int)
      OBVIOUS
    <3> QED
      BY <3>2, <3>3
  <2>2. DOMAIN st.stack = 1 .. StackDepth
    BY <1>1
  <2> QED
    BY <2>1, <2>2
<1>5. t = [st EXCEPT !.eventBuffer = b, !.tags = ts, !.stack = stk, !.index = 0]
  BY DEF Clear
<1> HIDE DEF b, ts, stk
<1>6. t \in Storage /\ t.eventBuffer = b /\ t.tags = ts /\ t.index = 0
  <2>1. /\ b \in PoolSet(ChunkSize, Event) /\ ts \in [TagKinds -> PoolSet(ChunkSize, TagData)]
        /\ stk \in [1 .. StackDepth -> Seq(Int)]
    BY <1>2, <1>3, <1>4
  <2>2. st = [eventBuffer |-> st.eventBuffer, tags |-> st.tags, stack |-> st.stack, index |-> st.index]
    BY DEF Storage
  <2>3. t = [eventBuffer |-> b, tags |-> ts, stack |-> stk, index |-> 0]
    BY <1>5, <2>2
  <2> QED
    BY <2>1, <2>3 DEF Storage
<1> QED
  BY <1>2, <1>3, <1>6

LEMMA NothingIsHistory ==
    /\ NothingRecorded \in History /\ NothingRecorded.thread = << >> /\ NothingRecorded.custom = << >>
    /\ NothingRecorded.frames = << >> /\ NothingRecorded.summary = << >>
    /\ \A k \in TagKinds : NothingRecorded.tags[k] = << >>
  BY DEF NothingRecorded, History

LEMMA StartCaptureStep ==
    ASSUME Inv, StartCapture
    PROVE  Inv'
<1>1. /\ pc \in {"run", "sent"} /\ mode = "OFF" /\ scopes = << >> /\ mode' = "ON" /\ pc' = "run"
      /\ storage' = Clear(storage, TRUE) /\ custom' = ClearPool(custom, TRUE)
      /\ pushes' = [i \in DOMAIN pushes |-> [n |-> 0, live |-> FALSE]]
      /\ recorded' = IF pc = "sent" THEN NothingRecorded
                     ELSE [NothingRecorded EXCEPT !.frames = recorded.frames, !.summary = recorded.summary]
      /\ UNCHANGED <<clock, boardVars, frames, scopes>>
  BY DEF StartCapture
<1>2. BoardInv'
  BY <1>1, BoardUnchanged DEF Inv
<1>3. /\ ChunkSize \in Nat \ {0} /\ storage \in Storage /\ custom \in PoolSet(ChunkSize, Event)
      /\ pushes \in Seq([n : Nat, live : BOOLEAN])
      /\ recorded.frames \in Seq(Event) /\ recorded.summary \in Seq(Attachments)
  BY CaptureConstants, StorageFields DEF Inv, Typed
<1>4. /\ storage' \in Storage /\ Items(storage'.eventBuffer) = << >> /\ storage'.index = 0
      /\ \A k \in TagKinds : Items(storage'.tags[k]) = << >>
  <2>1. storage \in Storage /\ storage' = Clear(storage, TRUE)
    BY <1>1, <1>3
  <2> QED
    BY <2>1, StorageCleared
<1>5. custom' \in PoolSet(ChunkSize, Event) /\ Items(custom') = << >>
  <2>1. ChunkSize \in Nat \ {0} /\ custom \in PoolSet(ChunkSize, Event)
    BY <1>3
  <2>2. ClearPool(custom, TRUE) \in PoolSet(ChunkSize, Event) /\ Items(ClearPool(custom, TRUE)) = << >>
    BY <2>1, ClearedHolds
  <2> QED
    BY <1>1, <2>2
<1>6. /\ recorded' \in History /\ recorded'.thread = << >> /\ recorded'.custom = << >>
      /\ \A k \in TagKinds : recorded'.tags[k] = << >>
      /\ recorded'.frames = IF pc = "sent" THEN << >> ELSE recorded.frames
  <2>1. CASE pc = "sent"
    BY <1>1, <2>1, NothingIsHistory
  <2>2. CASE pc # "sent"
    <3> DEFINE no == NothingRecorded  x == recorded.frames  y == recorded.summary
    <3>1. recorded' = [no EXCEPT !.frames = x, !.summary = y] /\ no \in History
      BY <1>1, <2>2, NothingIsHistory
    <3>2. x \in Seq(Event) /\ y \in Seq(Attachments)
      BY <1>3
    <3>3. no.thread = << >> /\ no.custom = << >> /\ \A k \in TagKinds : no.tags[k] = << >>
      BY NothingIsHistory
    <3> HIDE DEF no, x, y
    <3>4. /\ recorded' \in History /\ recorded'.thread = no.thread /\ recorded'.custom = no.custom
          /\ recorded'.tags = no.tags /\ recorded'.frames = x
      BY <3>1, <3>2 DEF History
    <3> QED
      BY <2>2, <3>3, <3>4 DEF x
  <2> QED
    BY <2>1, <2>2
<1>7. /\ pushes' \in Seq([n : Nat, live : BOOLEAN]) /\ DOMAIN pushes' = DOMAIN pushes
      /\ Len(pushes') \in Nat /\ DOMAIN pushes' = 1 .. Len(pushes')
      /\ \A i \in DOMAIN pushes' : pushes'[i] = [n |-> 0, live |-> FALSE]
  <2> DEFINE n == Len(pushes)
  <2>1. n \in Nat /\ DOMAIN pushes = 1 .. n
    BY <1>3
  <2> HIDE DEF n
  <2>2. pushes' = [i \in 1 .. n |-> [n |-> 0, live |-> FALSE]]
    BY <1>1, <2>1
  <2>3. /\ pushes' \in Seq([n : Nat, live : BOOLEAN]) /\ Len(pushes') = n /\ DOMAIN pushes' = 1 .. n
        /\ \A i \in 1 .. n : pushes'[i] = [n |-> 0, live |-> FALSE]
    BY <2>1, <2>2
  <2> QED
    BY <2>1, <2>3
<1>8. Typed'
  BY <1>1, <1>4, <1>5, <1>6, <1>7 DEF Inv, Typed
<1>9. BuffersInv' /\ FramesInv' /\ ScopesInv'
  <2>1. BuffersInv'
    BY <1>1, <1>4, <1>5, <1>6 DEF BuffersInv
  <2>2. FramesInv'
    BY <1>1, <1>6 DEF Inv, FramesInv
  <2>3. ScopesInv'
    BY <1>1 DEF ScopesInv
  <2> QED
    BY <2>1, <2>2, <2>3
<1>10. PushesInv'
  <2>1. ASSUME NEW i \in DOMAIN pushes'
        PROVE  /\ ~pushes'[i].live /\ pushes'[i].n = 0
               /\ ~(Depth(i)' > 0) /\ Depth(i)' \notin 1 .. StackDepth
    <3>1. Depth(i)' = i - Len(pushes') /\ i \in 1 .. Len(pushes') /\ Len(pushes') \in Nat
      BY <1>4, <1>7 DEF Depth
    <3>2. ~(Depth(i)' > 0) /\ Depth(i)' \notin 1 .. StackDepth
      BY <3>1, CaptureConstants
    <3> QED
      BY <1>7, <3>2
  <2> QED
    BY <1>4, <1>7, <2>1 DEF PushesInv
<1> QED
  BY <1>2, <1>8, <1>9, <1>10 DEF Inv

LEMMA StopStep ==
    ASSUME Inv, CancelCapture \/ StopCapture
    PROVE  Inv'
<1>1. /\ mode' = "OFF" /\ pc = "run" /\ pc' # "sent"
      /\ UNCHANGED <<clock, boardVars, storage, custom, frames, scopes, pushes, recorded>>
  BY DEF CancelCapture, StopCapture, Recording
<1>2. BoardInv'
  BY <1>1, BoardUnchanged DEF Inv
<1> QED
  BY <1>1, <1>2 DEF Inv, Typed, BuffersInv, FramesInv, ScopesInv, PushesInv

LEMMA DumpSummaryStep ==
    ASSUME Inv, DumpSummary
    PROVE  Inv'
<1>1. /\ pc = "summary" /\ pc' # "sent"
      /\ UNCHANGED <<mode, clock, boardVars, storage, custom, frames, scopes, pushes, recorded>>
  BY DEF DumpSummary
<1>2. mode = "OFF"
  BY <1>1 DEF Inv, Typed, BuffersInv
<1>3. BoardInv'
  BY <1>1, BoardUnchanged DEF Inv
<1> QED
  BY <1>1, <1>2, <1>3 DEF Inv, Typed, BuffersInv, FramesInv, ScopesInv, PushesInv

LEMMA DumpRestStep ==
    ASSUME Inv, DumpRest
    PROVE  Inv'
<1> DEFINE b == ClearUnlessEmpty(storage.eventBuffer)
           ts == IF \A k \in DOMAIN storage.tags : IsEmpty(storage.tags[k]) THEN storage.tags
                 ELSE ClearTags(storage.tags, FALSE)
<1>1. /\ pc = "dump" /\ pc' = "sent"
      /\ storage' = [storage EXCEPT !.eventBuffer = b, !.tags = ts]
      /\ custom' = ClearUnlessEmpty(custom) /\ frames' = ClearPool(frames, FALSE)
      /\ UNCHANGED <<mode, clock, boardVars, scopes, pushes, recorded>>
  BY DEF DumpRest, ClearFrames
<1>2. mode = "OFF"
  BY <1>1 DEF Inv, Typed, BuffersInv
<1>3. BoardInv'
  BY <1>1, BoardUnchanged DEF Inv
<1>4. /\ ChunkSize \in Nat \ {0} /\ FrameChunk \in Nat \ {0} /\ storage \in Storage
      /\ custom \in PoolSet(ChunkSize, Event) /\ frames \in PoolSet(FrameChunk, Event)
      /\ storage.eventBuffer \in PoolSet(ChunkSize, Event)
      /\ storage.tags \in [TagKinds -> PoolSet(ChunkSize, TagData)]
  BY CaptureConstants, StorageFields DEF Inv, Typed
<1>5. ASSUME NEW p \in PoolSet(ChunkSize, Event) PROVE ClearUnlessEmpty(p) \in PoolSet(ChunkSize, Event)
  <2>1. ClearPool(p, FALSE) \in PoolSet(ChunkSize, Event)
    BY CaptureConstants, ClearedHolds
  <2> QED
    BY <2>1 DEF ClearUnlessEmpty
<1>6. b \in PoolSet(ChunkSize, Event) /\ custom' \in PoolSet(ChunkSize, Event)
  BY <1>1, <1>4, <1>5
<1>7. ts \in [TagKinds -> PoolSet(ChunkSize, TagData)]
  <2>1. ClearTags(storage.tags, FALSE) \in [TagKinds -> PoolSet(ChunkSize, TagData)]
    BY <1>4, TagsCleared
  <2> QED
    BY <1>4, <2>1
<1> HIDE DEF b, ts
<1>8. storage' \in Storage
  BY <1>1, <1>4, <1>6, <1>7 DEF Storage
<1>9. frames' \in PoolSet(FrameChunk, Event) /\ Items(frames') = << >>
  <2>1. FrameChunk \in Nat \ {0} /\ frames \in PoolSet(FrameChunk, Event)
    BY <1>4
  <2>2. ClearPool(frames, FALSE) \in PoolSet(FrameChunk, Event) /\ Items(ClearPool(frames, FALSE)) = << >>
    BY <2>1, ClearedHolds
  <2> QED
    BY <1>1, <2>2
<1> QED
  BY <1>1, <1>2, <1>3, <1>6, <1>8, <1>9
  DEF Inv, Typed, BuffersInv, FramesInv, ScopesInv, PushesInv

-----------------------------------------------------------------------------
(* The theorems.                                                             *)

LEMMA InitInv ==
    ASSUME Init
    PROVE  Inv
<1>1. ChunkSize \in Nat \ {0} /\ FrameChunk \in Nat \ {0} /\ StackDepth \in Nat
  BY CaptureConstants
<1>2. /\ EmptyPool(ChunkSize) \in PoolSet(ChunkSize, Event) /\ EmptyPool(FrameChunk) \in PoolSet(FrameChunk, Event)
      /\ EmptyPool(ChunkSize) \in PoolSet(ChunkSize, TagData)
      /\ EmptyPool(ChunkSize) \in PoolSet(ChunkSize, EventDescription)
      /\ Items(EmptyPool(FrameChunk)) = << >>
  BY <1>1, EmptyPoolHolds
<1>3. EmptyStorage \in Storage
  <2>1. [k \in TagKinds |-> EmptyPool(ChunkSize)] \in [TagKinds -> PoolSet(ChunkSize, TagData)]
    BY <1>2
  <2>2. [i \in 1 .. StackDepth |-> << >>] \in [1 .. StackDepth -> Seq(Int)]
    OBVIOUS
  <2> QED
    BY <1>2, <2>1, <2>2 DEF EmptyStorage, Storage
<1>4. Typed
  BY <1>2, <1>3, NothingIsHistory DEF Init, Typed
<1>5. BoardInv
  <2> DEFINE one == Add(EmptyPool(ChunkSize), Description("Frame"))
  <2>1. Description("Frame") \in EventDescription /\ Description("FrameTag") \in EventDescription
    BY DEF Description, EventDescription, Colors
  <2>2. one \in PoolSet(ChunkSize, EventDescription)
    BY <1>1, <1>2, <2>1, AddedLast
  <2> HIDE DEF one
  <2>3. Add(one, Description("FrameTag")) \in PoolSet(ChunkSize, EventDescription)
    BY <1>1, <2>1, <2>2, AddedLast
  <2>4. board \in PoolSet(ChunkSize, EventDescription)
    BY <2>3 DEF Init, one
  <2> QED
    BY <2>4 DEF Init, BoardInv, SitesDescribed, Sites, null
<1>6. BuffersInv /\ FramesInv /\ ScopesInv /\ PushesInv
  BY <1>2, NothingIsHistory DEF Init, BuffersInv, FramesInv, ScopesInv, PushesInv
<1> QED
  BY <1>4, <1>5, <1>6 DEF Inv

LEMMA NextInv ==
    ASSUME Inv, [Next]_vars
    PROVE  Inv'
<1>1. ASSUME NEW s \in {"Sleep", "Work"}, ScopedEvent(s) PROVE Inv'
  BY <1>1, ScopedEventStep
<1>2. ASSUME NEW start \in 0 .. clock, AddCustom(start, clock) PROVE Inv'
  BY <1>2, AddCustomStep
<1>3. ASSUME NEW length \in StringLengths, AttachString(length) PROVE Inv'
  BY <1>3, AttachStringStep
<1>4. ASSUME NEW entry \in Attachments, Attach(entry) PROVE Inv'
  BY <1>4, AttachStep
<1>5. ASSUME NEW s \in racing, CreateAgain(s) PROVE Inv'
  BY <1>5, CreateAgainStep
<1>6. CASE UNCHANGED vars
  BY <1>6 DEF vars, Inv, Typed, BoardInv, SitesDescribed, boardVars, BuffersInv, FramesInv, ScopesInv,
              PushesInv, Depth
<1> QED
  BY <1>1, <1>2, <1>3, <1>4, <1>5, <1>6, EndScopeStep, PushStep, PopStep, BeginFrameStep, EndFrameStep,
     TickStep, StartCaptureStep, StopStep, DumpSummaryStep, DumpRestStep
  DEF Next

LEMMA AlwaysInv == Spec => []Inv
  BY InitInv, NextInv, PTL DEF Spec

(* While a capture runs, the buffers of the thread, of the custom storage, of *)
(* the frames and of every kind of tag hold exactly what was recorded since   *)
(* it started, in order: each end is at its own event, whatever was pushed    *)
(* too deep or before the capture, and however the chunks are used again.     *)
THEOREM EventsAlwaysRecorded == Spec => []EventsRecorded
<1>1. Inv => EventsRecorded
  BY DEF Inv, BuffersInv, FramesInv, EventsRecorded, Recording
<1> QED
  BY <1>1, AlwaysInv, PTL

(* The index of every description is its place on the board, also when two    *)
(* threads create the description of one site.                               *)
THEOREM SitesAlwaysDescribed == Spec => []SitesDescribed
<1>1. Inv => SitesDescribed
  BY DEF Inv, BoardInv
<1> QED
  BY <1>1, AlwaysInv, PTL
=============================================================================
