---------------------------- MODULE ServerProofs ----------------------------
(***************************************************************************)
(* Server, for any number of clients, any commands and garbage they write,  *)
(* any size of the buffer and any way the network cuts what they wrote: the *)
(* commands are applied as they were sent, and nothing brings the server    *)
(* down unless a command was cut in two by a client that left.              *)
(***************************************************************************)
EXTENDS Server, ContainerLemmas

-----------------------------------------------------------------------------
(* Sequences that the items of a sequence stand for, joined to one.          *)

Joined(F, s) == FlattenSeq([i \in DOMAIN s |-> F[s[i]]])

JoinsOne(F, s, x) == Joined(F, Append(s, x)) = Joined(F, s) \o F[x]
JoinsBoth(F, s, t) == Joined(F, s \o t) = Joined(F, s) \o Joined(F, t)

LEMMA JoinedType ==
    ASSUME NEW S, NEW C, NEW F \in [S -> Seq(C)], NEW s \in Seq(S)
    PROVE  Joined(F, s) \in Seq(C)
<1> DEFINE a == [i \in DOMAIN s |-> F[s[i]]]
<1>1. a \in Seq(Seq(C)) /\ << >> \in Seq(C)
  <2>1. \A i \in 1 .. Len(s) : s[i] \in S /\ F[s[i]] \in Seq(C)
    OBVIOUS
  <2>2. DOMAIN s = 1 .. Len(s) /\ Len(s) \in Nat
    OBVIOUS
  <2> QED
    BY <2>1, <2>2
<1> HIDE DEF a
<1>2. FlattenSeq(a) \in Seq(C)
  BY <1>1, FlattenAppend
<1> QED
  BY <1>2 DEF Joined, a

(* The sequences of a sequence, and the further one of a further item.       *)
LEMMA JoinedAppend ==
    ASSUME NEW S, NEW C, NEW F \in [S -> Seq(C)], NEW s \in Seq(S), NEW x \in S
    PROVE  JoinsOne(F, s, x)
<1> DEFINE t == Append(s, x)
           a == [i \in DOMAIN s |-> F[s[i]]]
           b == [i \in DOMAIN t |-> F[t[i]]]
<1>1. DOMAIN s = 1 .. Len(s) /\ Len(s) \in Nat /\ \A i \in 1 .. Len(s) : s[i] \in S
  OBVIOUS
<1>2. t \in Seq(S) /\ Len(t) = Len(s) + 1 /\ t[Len(s) + 1] = x /\ \A i \in 1 .. Len(s) : t[i] = s[i]
  OBVIOUS
<1>3. a \in Seq(Seq(C)) /\ Len(a) = Len(s) /\ \A i \in 1 .. Len(s) : a[i] = F[s[i]]
  BY <1>1
<1>4. b \in Seq(Seq(C)) /\ Len(b) = Len(s) + 1 /\ \A i \in 1 .. Len(s) + 1 : b[i] = F[t[i]]
  BY <1>2
<1>5. F[x] \in Seq(C)
  OBVIOUS
<1> HIDE DEF a, b, t
<1>6. b = Append(a, F[x])
  <2> DEFINE c == Append(a, F[x])
  <2>1. c \in Seq(Seq(C)) /\ Len(c) = Len(s) + 1 /\ c[Len(s) + 1] = F[x] /\ \A i \in 1 .. Len(s) : c[i] = a[i]
    BY <1>3, <1>5
  <2> HIDE DEF c
  <2>2. \A i \in 1 .. Len(s) + 1 : b[i] = c[i]
    <3>1. ASSUME NEW i \in 1 .. Len(s) + 1 PROVE b[i] = c[i]
      <4>1. CASE i \in 1 .. Len(s)
        BY <1>2, <1>3, <1>4, <2>1, <4>1
      <4>2. CASE i = Len(s) + 1
        BY <1>2, <1>4, <2>1, <4>2
      <4> QED
        BY <1>1, <4>1, <4>2
    <3> QED
      BY <3>1
  <2> QED
    BY <1>4, <2>1, <2>2, SeqEqual DEF c
<1>7. FlattenSeq(Append(a, F[x])) = FlattenSeq(a) \o F[x] /\ FlattenSeq(a) \in Seq(C)
  BY <1>3, <1>5, FlattenAppend
<1> QED
  BY <1>6, <1>7 DEF JoinsOne, Joined, a, b, t

LEMMA NothingJoined == ASSUME NEW F PROVE Joined(F, << >>) = << >>
<1>1. [i \in DOMAIN << >> |-> F[<< >>[i]]] = << >>
  OBVIOUS
<1> QED
  BY <1>1, NothingFlat DEF Joined

(* What one item stands for.                                                 *)
LEMMA JoinedOne ==
    ASSUME NEW S, NEW C, NEW F \in [S -> Seq(C)], NEW x \in S
    PROVE  Joined(F, <<x>>) = F[x]
<1>1. << >> \in Seq(S) /\ Append(<< >>, x) = <<x>> /\ F[x] \in Seq(C)
  OBVIOUS
<1>2. JoinsOne(F, << >>, x)
  BY <1>1, JoinedAppend
<1> QED
  BY <1>1, <1>2, NothingJoined, ConcatEmptySeq DEF JoinsOne

(* Two sequences one behind the other.                                       *)
LEMMA JoinedConcat ==
    ASSUME NEW S, NEW C, NEW F \in [S -> Seq(C)], NEW s \in Seq(S), NEW t \in Seq(S)
    PROVE  JoinsBoth(F, s, t)
<1> DEFINE n == Len(t)
           Up(k) == SubSeq(t, 1, k)
           X == {k \in 0 .. n : JoinsBoth(F, s, Up(k))}
<1>1. n \in Nat /\ Up(0) = << >> /\ Up(n) = t
  OBVIOUS
<1>2. \A k \in 0 .. n : Up(k) \in Seq(S) /\ s \o Up(k) \in Seq(S)
  OBVIOUS
<1>3. ASSUME NEW k \in 0 .. n - 1
      PROVE  /\ t[k + 1] \in S /\ k \in 0 .. n
             /\ Up(k + 1) = Append(Up(k), t[k + 1])
             /\ s \o Up(k + 1) = Append(s \o Up(k), t[k + 1])
  <2>1. k + 1 \in 1 .. n /\ t[k + 1] \in S /\ k \in 0 .. n
    OBVIOUS
  <2>2. Up(k + 1) = Append(Up(k), t[k + 1])
    BY <2>1
  <2>3. s \o Append(Up(k), t[k + 1]) = Append(s \o Up(k), t[k + 1])
    <3>1. Up(k) \in Seq(S)
      BY <1>2, <2>1
    <3> HIDE DEF Up
    <3> QED
      BY <2>1, <3>1
  <2> QED
    BY <2>1, <2>2, <2>3
<1> HIDE DEF n, Up
<1>4. 0 \in X
  <2>1. s \o << >> = s /\ Joined(F, s) \in Seq(C)
    BY JoinedType, ConcatEmptySeq
  <2>2. Joined(F, s) \o << >> = Joined(F, s)
    BY <2>1, ConcatEmptySeq
  <2>3. Joined(F, << >>) = << >>
    BY NothingJoined
  <2>4. JoinsBoth(F, s, << >>)
    BY <2>1, <2>2, <2>3 DEF JoinsBoth
  <2> QED
    BY <1>1, <2>4
<1>5. ASSUME NEW k \in 0 .. n - 1, k \in X PROVE k + 1 \in X
  <2>1. /\ Up(k) \in Seq(S) /\ s \o Up(k) \in Seq(S) /\ t[k + 1] \in S
        /\ Joined(F, s \o Up(k)) = Joined(F, s) \o Joined(F, Up(k))
    BY <1>2, <1>3, <1>5 DEF JoinsBoth
  <2>a. JoinsOne(F, s \o Up(k), t[k + 1]) /\ JoinsOne(F, Up(k), t[k + 1])
    BY <2>1, JoinedAppend
  <2>2. Joined(F, s \o Up(k + 1)) = Joined(F, s \o Up(k)) \o F[t[k + 1]]
    BY <1>3, <2>a DEF JoinsOne
  <2>3. Joined(F, Up(k + 1)) = Joined(F, Up(k)) \o F[t[k + 1]]
    BY <1>3, <2>a DEF JoinsOne
  <2>4. Joined(F, s) \in Seq(C) /\ Joined(F, Up(k)) \in Seq(C) /\ F[t[k + 1]] \in Seq(C)
    BY <2>1, JoinedType
  <2> DEFINE a == Joined(F, s)  b == Joined(F, Up(k))  c == F[t[k + 1]]
  <2>5. (a \o b) \o c = a \o (b \o c)
    <3> HIDE DEF a, b, c
    <3> SUFFICES ASSUME a \in Seq(C), b \in Seq(C), c \in Seq(C) PROVE (a \o b) \o c = a \o (b \o c)
      BY <2>4 DEF a, b, c
    <3> QED
      BY ConcatAssociative, SMTT(30)
  <2>6. k + 1 \in 0 .. n
    BY <1>1
  <2> QED
    BY <2>1, <2>2, <2>3, <2>5, <2>6 DEF JoinsBoth
<1> HIDE DEF X
<1>6. 0 .. n \subseteq X
  BY <1>1, <1>4, <1>5, StepsUpTo
<1>7. n \in X
  BY <1>1, <1>6
<1> QED
  BY <1>1, <1>7 DEF X

(* A function on the first numbers is a sequence.                            *)
LEMMA SequenceOf ==
    ASSUME NEW n \in Nat, NEW S, NEW f \in [1 .. n -> S]
    PROVE  f \in Seq(S) /\ Len(f) = n
<1>1. f \in Seq(S)
  BY SeqDef
<1>2. DOMAIN f = 1 .. n
  OBVIOUS
<1> QED
  BY <1>1, <1>2

-----------------------------------------------------------------------------
(* Passwords: what the client encodes is what the server decodes.            *)

(* The bytes of a word, followed by zeros, and the letters they make.        *)
ByteOf(w, i) == IF i \in 1 .. Len(w) THEN w[i] ELSE 0
LetterOf(w, k) == LET g == 3 * ((k - 1) \div 4)
                  IN  CASE k % 4 = 1 -> ByteOf(w, g + 1) \div 4
                        [] k % 4 = 2 -> (ByteOf(w, g + 1) % 4) * 16 + ByteOf(w, g + 2) \div 16
                        [] k % 4 = 3 -> (ByteOf(w, g + 2) % 16) * 4 + ByteOf(w, g + 3) \div 64
                        [] k % 4 = 0 -> ByteOf(w, g + 3) % 64
LettersIn(n) == n + (n + 2) \div 3
Groups(n) == (n + 2) \div 3

(* The letters of a group of three bytes.                                    *)
LEMMA GroupLetters ==
    ASSUME NEW w \in Seq(0 .. 255), NEW g \in Nat
    PROVE  LET b(i) == ByteOf(w, 3 * g + i)
           IN  /\ LetterOf(w, 4 * g + 1) = b(1) \div 4
               /\ LetterOf(w, 4 * g + 2) = (b(1) % 4) * 16 + b(2) \div 16
               /\ LetterOf(w, 4 * g + 3) = (b(2) % 16) * 4 + b(3) \div 64
               /\ LetterOf(w, 4 * g + 4) = b(3) % 64
               /\ \A i \in 1 .. 3 : b(i) \in 0 .. 255
<1>1. /\ ((4 * g + 1) - 1) \div 4 = g /\ (4 * g + 1) % 4 = 1
      /\ ((4 * g + 2) - 1) \div 4 = g /\ (4 * g + 2) % 4 = 2
      /\ ((4 * g + 3) - 1) \div 4 = g /\ (4 * g + 3) % 4 = 3
      /\ ((4 * g + 4) - 1) \div 4 = g /\ (4 * g + 4) % 4 = 0
  OBVIOUS
<1>2. \A i \in Nat : ByteOf(w, i) \in 0 .. 255
  <2>1. ASSUME NEW i \in Nat PROVE ByteOf(w, i) \in 0 .. 255
    <3>1. CASE i \in 1 .. Len(w)
      <4>1. w[i] \in 0 .. 255
        BY <3>1, ElementOfSeq
      <4> QED
        BY <3>1, <4>1 DEF ByteOf
    <3>2. CASE i \notin 1 .. Len(w)
      BY <3>2 DEF ByteOf
    <3> QED
      BY <3>1, <3>2
  <2> QED
    BY <2>1
<1>3. 3 * g + 1 \in Nat /\ 3 * g + 2 \in Nat /\ 3 * g + 3 \in Nat
  OBVIOUS
<1>4. LetterOf(w, 4 * g + 1) = ByteOf(w, 3 * g + 1) \div 4
  <2> DEFINE k == 4 * g + 1
  <2>1. (k - 1) \div 4 = g /\ k % 4 = 1
    BY <1>1
  <2> HIDE DEF k
  <2>2. LetterOf(w, k) = ByteOf(w, 3 * g + 1) \div 4
    BY <2>1 DEF LetterOf
  <2> QED
    BY <2>2 DEF k
<1>5. LetterOf(w, 4 * g + 2) = (ByteOf(w, 3 * g + 1) % 4) * 16 + ByteOf(w, 3 * g + 2) \div 16
  <2> DEFINE k == 4 * g + 2
  <2>1. (k - 1) \div 4 = g /\ k % 4 = 2
    BY <1>1
  <2> HIDE DEF k
  <2>2. LetterOf(w, k) = (ByteOf(w, 3 * g + 1) % 4) * 16 + ByteOf(w, 3 * g + 2) \div 16
    BY <2>1 DEF LetterOf
  <2> QED
    BY <2>2 DEF k
<1>6. LetterOf(w, 4 * g + 3) = (ByteOf(w, 3 * g + 2) % 16) * 4 + ByteOf(w, 3 * g + 3) \div 64
  <2> DEFINE k == 4 * g + 3
  <2>1. (k - 1) \div 4 = g /\ k % 4 = 3
    BY <1>1
  <2> HIDE DEF k
  <2>2. LetterOf(w, k) = (ByteOf(w, 3 * g + 2) % 16) * 4 + ByteOf(w, 3 * g + 3) \div 64
    BY <2>1 DEF LetterOf
  <2> QED
    BY <2>2 DEF k
<1>7. LetterOf(w, 4 * g + 4) = ByteOf(w, 3 * g + 3) % 64
  <2> DEFINE k == 4 * g + 4
  <2>1. (k - 1) \div 4 = g /\ k % 4 = 0
    BY <1>1
  <2> HIDE DEF k
  <2>2. LetterOf(w, k) = ByteOf(w, 3 * g + 3) % 64
    BY <2>1 DEF LetterOf
  <2> QED
    BY <2>2 DEF k
<1>8. \A i \in 1 .. 3 : ByteOf(w, 3 * g + i) \in 0 .. 255
  <2>1. \A i \in 1 .. 3 : i = 1 \/ i = 2 \/ i = 3
    OBVIOUS
  <2>2. \A i \in 1 .. 3 : 3 * g + i \in Nat
    OBVIOUS
  <2> QED
    BY <1>2, <2>2
<1> QED
  BY <1>4, <1>5, <1>6, <1>7, <1>8

(* Every letter is one of the alphabet.                                      *)
LEMMA LettersFit ==
    ASSUME NEW w \in Seq(0 .. 255), NEW k \in Nat \ {0}
    PROVE  LetterOf(w, k) \in 0 .. 63
<1> DEFINE g == (k - 1) \div 4  j == (k - 1) % 4
<1>1. g \in Nat /\ j \in 0 .. 3 /\ k = 4 * g + (j + 1)
  OBVIOUS
<1> DEFINE b(i) == ByteOf(w, 3 * g + i)
<1>2. /\ LetterOf(w, 4 * g + 1) = b(1) \div 4
      /\ LetterOf(w, 4 * g + 2) = (b(1) % 4) * 16 + b(2) \div 16
      /\ LetterOf(w, 4 * g + 3) = (b(2) % 16) * 4 + b(3) \div 64
      /\ LetterOf(w, 4 * g + 4) = b(3) % 64
      /\ b(1) \in 0 .. 255 /\ b(2) \in 0 .. 255 /\ b(3) \in 0 .. 255
  BY <1>1, GroupLetters
<1> DEFINE x == b(1)  y == b(2)  z == b(3)
<1>3. /\ x \in 0 .. 255 /\ y \in 0 .. 255 /\ z \in 0 .. 255
      /\ LetterOf(w, 4 * g + 1) = x \div 4
      /\ LetterOf(w, 4 * g + 2) = (x % 4) * 16 + y \div 16
      /\ LetterOf(w, 4 * g + 3) = (y % 16) * 4 + z \div 64
      /\ LetterOf(w, 4 * g + 4) = z % 64
  BY <1>2
<1> HIDE DEF x, y, z, g, j
<1>4. /\ x \div 4 \in 0 .. 63 /\ (x % 4) * 16 + y \div 16 \in 0 .. 63
      /\ (y % 16) * 4 + z \div 64 \in 0 .. 63 /\ z % 64 \in 0 .. 63
  BY <1>3
<1>5. j = 0 \/ j = 1 \/ j = 2 \/ j = 3
  BY <1>1
<1>6. k = 4 * g + 1 \/ k = 4 * g + 2 \/ k = 4 * g + 3 \/ k = 4 * g + 4
  BY <1>1, <1>5
<1>7. CASE k = 4 * g + 1
  BY <1>3, <1>4, <1>7, ZenonT(30)
<1>8. CASE k = 4 * g + 2
  BY <1>3, <1>4, <1>8, ZenonT(30)
<1>9. CASE k = 4 * g + 3
  BY <1>3, <1>4, <1>9, ZenonT(30)
<1>10. CASE k = 4 * g + 4
  BY <1>3, <1>4, <1>10, ZenonT(30)
<1> QED
  BY <1>6, <1>7, <1>8, <1>9, <1>10

(* What the letters of a word are: those of its bytes, then padding.         *)
LEMMA EncodedWord ==
    ASSUME NEW w \in Seq(0 .. 255)
    PROVE  /\ Encode64(w) \in Seq(0 .. PadChar) /\ Len(Encode64(w)) = 4 * Groups(Len(w))
           /\ LettersIn(Len(w)) \in 0 .. 4 * Groups(Len(w))
           /\ \A k \in 1 .. 4 * Groups(Len(w)) :
                 Encode64(w)[k] = IF k <= LettersIn(Len(w)) THEN LetterOf(w, k) ELSE PadChar
<1> DEFINE n == Len(w)
<1>1. n \in Nat /\ Groups(n) \in Nat /\ LettersIn(n) \in 0 .. 4 * Groups(n)
  BY DEF Groups, LettersIn
<1>2. Encode64(w) = [k \in 1 .. 4 * Groups(n) |-> IF k <= LettersIn(n) THEN LetterOf(w, k) ELSE PadChar]
  BY DEF Encode64, Groups, LettersIn, LetterOf, ByteOf
<1>3. \A k \in 1 .. 4 * Groups(n) : LetterOf(w, k) \in 0 .. 63
  <2>1. ASSUME NEW k \in 1 .. 4 * Groups(n) PROVE LetterOf(w, k) \in 0 .. 63
    <3>1. k \in Nat \ {0}
      BY <1>1
    <3> QED
      BY <3>1, LettersFit
  <2> QED
    BY <2>1
<1>4. \A k \in 1 .. 4 * Groups(n) : (IF k <= LettersIn(n) THEN LetterOf(w, k) ELSE PadChar) \in 0 .. PadChar
  BY <1>3 DEF PadChar
<1> HIDE DEF n
<1> DEFINE F == [k \in 1 .. 4 * Groups(n) |-> IF k <= LettersIn(n) THEN LetterOf(w, k) ELSE PadChar]
<1> DEFINE m == 4 * Groups(n)
<1>5. m \in Nat
  BY <1>1
<1>6. \A k \in 1 .. m : F[k] = (IF k <= LettersIn(n) THEN LetterOf(w, k) ELSE PadChar)
  OBVIOUS
<1>7. F \in [1 .. m -> 0 .. PadChar] /\ DOMAIN F = 1 .. m
  BY <1>4
<1> HIDE DEF F, m
<1>8. F \in Seq(0 .. PadChar) /\ Len(F) = m
  BY <1>5, <1>7, SequenceOf
<1>9. Encode64(w) = F
  BY <1>2 DEF F
<1> QED
  BY <1>1, <1>6, <1>8, <1>9 DEF n, m

(* Three bytes from the four letters they made.                              *)
FirstByte(x, y) == (((x \div 4) * 4) % 256) + ((x % 4) * 16 + y \div 16) \div 16
SecondByte(x, y, z) == ((((x % 4) * 16 + y \div 16) * 16) % 256) + ((y % 16) * 4 + z \div 64) \div 4
ThirdByte(y, z) == ((((y % 16) * 4 + z \div 64) * 64) % 256) + (z % 64) \div 1

LEMMA BytesBack ==
    ASSUME NEW x \in 0 .. 255, NEW y \in 0 .. 255, NEW z \in 0 .. 255
    PROVE  FirstByte(x, y) = x /\ SecondByte(x, y, z) = y /\ ThirdByte(y, z) = z
<1>1. FirstByte(x, y) = x
  BY DEF FirstByte
<1>2. SecondByte(x, y, z) = y
  BY DEF SecondByte
<1>3. ThirdByte(y, z) = z
  BY DEF ThirdByte
<1> QED
  BY <1>1, <1>2, <1>3

(* How many bytes the letters of a word of n bytes make, and which letters   *)
(* the k-th byte is made of.                                                 *)
LEMMA LetterCount ==
    ASSUME NEW n \in Nat
    PROVE  LET L == LettersIn(n)
           IN  /\ L \in Nat
               /\ 3 * (L \div 4) + (IF L % 4 > 0 THEN (L % 4) - 1 ELSE 0) = n
               /\ \A k \in 1 .. n : LET g == (k - 1) \div 3
                                        j == (k - 1) % 3
                                    IN  /\ g \in Nat /\ j \in 0 .. 2 /\ k = 3 * g + (j + 1)
                                        /\ 4 * g + j + 2 <= L
<1> DEFINE q == n \div 3  r == n % 3
<1>1. q \in Nat /\ r \in 0 .. 2 /\ n = 3 * q + r
  OBVIOUS
<1> HIDE DEF q, r
<1>2. (r = 0 => LettersIn(n) = 4 * q) /\ (r = 1 => LettersIn(n) = 4 * q + 2) /\ (r = 2 => LettersIn(n) = 4 * q + 3)
  BY <1>1 DEF LettersIn
<1>3. LettersIn(n) \in Nat /\ r \in {0, 1, 2}
  BY <1>1 DEF LettersIn
<1>4. 3 * (LettersIn(n) \div 4) + (IF LettersIn(n) % 4 > 0 THEN (LettersIn(n) % 4) - 1 ELSE 0) = n
  <2>1. CASE r = 0
    BY <1>1, <1>2, <2>1
  <2>2. CASE r = 1
    BY <1>1, <1>2, <2>2
  <2>3. CASE r = 2
    BY <1>1, <1>2, <2>3
  <2> QED
    BY <1>3, <2>1, <2>2, <2>3
<1>5. ASSUME NEW k \in 1 .. n
      PROVE  /\ (k - 1) \div 3 \in Nat /\ (k - 1) % 3 \in 0 .. 2
             /\ k = 3 * ((k - 1) \div 3) + (((k - 1) % 3) + 1)
             /\ 4 * ((k - 1) \div 3) + ((k - 1) % 3) + 2 <= LettersIn(n)
  BY DEF LettersIn
<1> QED
  BY <1>3, <1>4, <1>5

(* A password is decoded to what was encoded.                                *)
THEOREM PasswordRoundTrip ==
    ASSUME NEW w \in Seq(0 .. 255)
    PROVE  base64_decode(Encode64(w) \o <<Nul>>) = w
<1> DEFINE m == Len(w)
           L == LettersIn(m)
           E == Encode64(w)
           chars == E \o <<Nul>>
           Byte(k) == LET g == (k - 1) \div 3
                          j == (k - 1) % 3
                      IN  ((chars[4 * g + j + 1] * <<4, 16, 64>>[j + 1]) % 256)
                          + chars[4 * g + (j + 1) + 1] \div <<16, 4, 1>>[j + 1]
<1>1. m \in Nat /\ L \in Nat /\ L \in 0 .. 4 * Groups(m) /\ Groups(m) \in Nat
  BY EncodedWord DEF LettersIn, Groups
<1>2. /\ chars \in Seq(Int) /\ Len(chars) = 4 * Groups(m) + 1
      /\ \A i \in 1 .. L : chars[i] = LetterOf(w, i) /\ chars[i] \in 0 .. 63
      /\ chars[L + 1] > 63
  <2>1. E \in Seq(0 .. PadChar) /\ Len(E) = 4 * Groups(m)
    BY EncodedWord
  <2>2. E \in Seq(Int) /\ <<Nul>> \in Seq(Int) /\ Len(<<Nul>>) = 1 /\ <<Nul>>[1] = Nul
    <3>1. 0 .. PadChar \subseteq Int
      BY DEF PadChar
    <3>2. E \in Seq(Int)
      <4> HIDE DEF E
      <4> QED
        BY <2>1, <3>1, SeqMonotonic
    <3> QED
      BY <3>2 DEF Nul
  <2>3. \A k \in 1 .. 4 * Groups(m) : E[k] = IF k <= L THEN LetterOf(w, k) ELSE PadChar
    BY EncodedWord
  <2>4. \A i \in 1 .. L : LetterOf(w, i) \in 0 .. 63
    <3>1. ASSUME NEW i \in 1 .. L PROVE LetterOf(w, i) \in 0 .. 63
      <4>1. i \in Nat \ {0}
        BY <1>1
      <4> QED
        BY <4>1, LettersFit
    <3> QED
      BY <3>1
  <2> HIDE DEF E, m, L
  <2>5. /\ E \o <<Nul>> \in Seq(Int) /\ Len(E \o <<Nul>>) = 4 * Groups(m) + 1
        /\ \A i \in 1 .. 4 * Groups(m) : (E \o <<Nul>>)[i] = E[i]
        /\ (E \o <<Nul>>)[4 * Groups(m) + 1] = Nul
    BY <1>1, <2>1, <2>2, ConcatProperties
  <2>6. chars[L + 1] > 63
    <3>1. CASE L = 4 * Groups(m)
      BY <1>1, <2>5, <3>1 DEF Nul
    <3>2. CASE L < 4 * Groups(m)
      <4>1. L + 1 \in 1 .. 4 * Groups(m) /\ ~(L + 1 <= L)
        BY <1>1, <3>2
      <4> QED
        <5>1. chars[L + 1] = E[L + 1] /\ E[L + 1] = PadChar
          BY <2>3, <2>5, <4>1
        <5>2. PadChar > 63
          BY DEF PadChar
        <5> QED
          BY <5>1, <5>2, Zenon
    <3> QED
      <4>1. L = 4 * Groups(m) \/ L < 4 * Groups(m)
        BY <1>1
      <4> QED
        BY <3>1, <3>2, <4>1
  <2>7. \A i \in 1 .. L : chars[i] = LetterOf(w, i) /\ chars[i] \in 0 .. 63
    <3>1. ASSUME NEW i \in 1 .. L PROVE chars[i] = LetterOf(w, i) /\ LetterOf(w, i) \in 0 .. 63
      <4>1. i \in 1 .. 4 * Groups(m) /\ i <= L
        BY <1>1
      <4> QED
        BY <2>3, <2>4, <2>5, <4>1
    <3> QED
      BY <3>1
  <2> QED
    BY <2>5, <2>6, <2>7
<1>3. DOMAIN chars = 1 .. 4 * Groups(m) + 1 /\ L + 1 \in DOMAIN chars
  <2> HIDE DEF chars, m, L
  <2> QED
    BY <1>1, <1>2
<1> HIDE DEF E, chars, m, L
<1>4. ASSUME NEW i \in DOMAIN chars, chars[i] > 63, \A k \in 1 .. i - 1 : chars[k] <= 63
      PROVE  i = L + 1
  <2>1. i \in Nat \ {0}
    BY <1>1, <1>3
  <2>2. ~(i <= L)
    <3>1. i <= L => i \in 1 .. L
      BY <1>1, <2>1
    <3>2. i \in 1 .. L => chars[i] \in 0 .. 63
      BY <1>2
    <3>3. \A v \in 0 .. 63 : ~(v > 63)
      OBVIOUS
    <3> QED
      BY <1>4, <3>1, <3>2, <3>3, Zenon
  <2>3. ~(L + 1 <= i - 1)
    BY <1>1, <1>2, <1>4, <2>1
  <2> QED
    BY <1>1, <2>1, <2>2, <2>3
<1>5. \A k \in 1 .. (L + 1) - 1 : chars[k] <= 63
  <2>1. (L + 1) - 1 = L /\ \A k \in 1 .. L : chars[k] \in 0 .. 63
    BY <1>1, <1>2
  <2>2. \A v \in 0 .. 63 : v <= 63
    OBVIOUS
  <2> QED
    BY <2>1, <2>2, Zenon
<1>6. (IF \E i \in DOMAIN chars : chars[i] > 63
       THEN (CHOOSE i \in DOMAIN chars : /\ chars[i] > 63 /\ \A k \in 1 .. i - 1 : chars[k] <= 63) - 1
       ELSE Len(chars)) = L
  <2> DEFINE First == CHOOSE i \in DOMAIN chars : chars[i] > 63 /\ \A k \in 1 .. i - 1 : chars[k] <= 63
  <2>1. First \in DOMAIN chars /\ chars[First] > 63 /\ \A k \in 1 .. First - 1 : chars[k] <= 63
    BY <1>2, <1>3, <1>5
  <2>2. \E i \in DOMAIN chars : chars[i] > 63
    BY <1>2, <1>3
  <2> HIDE DEF First
  <2>3. First = L + 1
    BY <1>4, <2>1
  <2>4. (L + 1) - 1 = L
    BY <1>1
  <2> QED
    BY <2>2, <2>3, <2>4 DEF First
<1>7. base64_decode(chars)
         = [k \in 1 .. 3 * (L \div 4) + (IF L % 4 > 0 THEN (L % 4) - 1 ELSE 0) |-> Byte(k)]
  <2> HIDE DEF Byte
  <2> QED
    BY <1>6 DEF base64_decode, Byte
<1>8. 3 * (L \div 4) + (IF L % 4 > 0 THEN (L % 4) - 1 ELSE 0) = m
  BY <1>1, LetterCount DEF L
<1>9. ASSUME NEW k \in 1 .. m PROVE Byte(k) = w[k]
  <2> DEFINE g == (k - 1) \div 3  j == (k - 1) % 3
             x == ByteOf(w, 3 * g + 1)  y == ByteOf(w, 3 * g + 2)  z == ByteOf(w, 3 * g + 3)
  <2>1. g \in Nat /\ j \in 0 .. 2 /\ k = 3 * g + (j + 1) /\ 4 * g + j + 2 <= L
    BY <1>1, LetterCount DEF L
  <2>2. Byte(k) = ((chars[4 * g + j + 1] * <<4, 16, 64>>[j + 1]) % 256)
                  + chars[4 * g + (j + 1) + 1] \div <<16, 4, 1>>[j + 1]
    OBVIOUS
  <2> HIDE DEF g, j, Byte
  <2>3. /\ LetterOf(w, 4 * g + 1) = x \div 4 /\ LetterOf(w, 4 * g + 2) = (x % 4) * 16 + y \div 16
        /\ LetterOf(w, 4 * g + 3) = (y % 16) * 4 + z \div 64 /\ LetterOf(w, 4 * g + 4) = z % 64
        /\ x \in 0 .. 255 /\ y \in 0 .. 255 /\ z \in 0 .. 255
    BY <2>1, GroupLetters
  <2>4. w[k] = ByteOf(w, 3 * g + (j + 1))
    BY <2>1 DEF ByteOf, m
  <2>5. \A i \in 1 .. L : chars[i] = LetterOf(w, i)
    BY <1>2
  <2>a. 4 * g + j + 1 \in 1 .. L /\ 4 * g + (j + 1) + 1 \in 1 .. L
    BY <1>1, <2>1
  <2>b. chars[4 * g + j + 1] = LetterOf(w, 4 * g + j + 1) /\ chars[4 * g + (j + 1) + 1] = LetterOf(w, 4 * g + (j + 1) + 1)
    BY <2>5, <2>a, SMTT(30)
  <2> HIDE DEF x, y, z
  <2>c. FirstByte(x, y) = x /\ SecondByte(x, y, z) = y /\ ThirdByte(y, z) = z
    BY <2>3, BytesBack, ZenonT(30)
  <2>6. CASE j = 0
    <3>1. 4 * g + j + 1 = 4 * g + 1 /\ 4 * g + (j + 1) + 1 = 4 * g + 2
      BY <2>1, <2>6
    <3>2. <<4, 16, 64>>[j + 1] = 4 /\ <<16, 4, 1>>[j + 1] = 16
      BY <2>6
    <3>a. chars[4 * g + j + 1] = x \div 4 /\ chars[4 * g + (j + 1) + 1] = ((x % 4) * 16 + y \div 16)
      BY <2>3, <2>b, <3>1
    <3>3. Byte(k) = FirstByte(x, y)
      BY <2>2, <3>a, <3>2 DEF FirstByte
    <3>4. w[k] = x
      BY <2>4, <2>6 DEF x
    <3> QED
      BY <2>c, <3>3, <3>4
  <2>7. CASE j = 1
    <3>1. 4 * g + j + 1 = 4 * g + 2 /\ 4 * g + (j + 1) + 1 = 4 * g + 3
      BY <2>1, <2>7
    <3>2. <<4, 16, 64>>[j + 1] = 16 /\ <<16, 4, 1>>[j + 1] = 4
      BY <2>7
    <3>a. chars[4 * g + j + 1] = ((x % 4) * 16 + y \div 16) /\ chars[4 * g + (j + 1) + 1] = ((y % 16) * 4 + z \div 64)
      BY <2>3, <2>b, <3>1
    <3>3. Byte(k) = SecondByte(x, y, z)
      BY <2>2, <3>a, <3>2 DEF SecondByte
    <3>4. w[k] = y
      BY <2>4, <2>7 DEF y
    <3> QED
      BY <2>c, <3>3, <3>4
  <2>8. CASE j = 2
    <3>1. 4 * g + j + 1 = 4 * g + 3 /\ 4 * g + (j + 1) + 1 = 4 * g + 4
      BY <2>1, <2>8
    <3>2. <<4, 16, 64>>[j + 1] = 64 /\ <<16, 4, 1>>[j + 1] = 1
      BY <2>8
    <3>a. chars[4 * g + j + 1] = ((y % 16) * 4 + z \div 64) /\ chars[4 * g + (j + 1) + 1] = z % 64
      BY <2>3, <2>b, <3>1
    <3>3. Byte(k) = ThirdByte(y, z)
      BY <2>2, <3>a, <3>2 DEF ThirdByte
    <3>4. w[k] = z
      BY <2>4, <2>8 DEF z
    <3> QED
      BY <2>c, <3>3, <3>4
  <2> QED
    BY <2>1, <2>6, <2>7, <2>8
<1> HIDE DEF Byte
<1>10. base64_decode(chars) = w
  <2>1. base64_decode(chars) = [k \in 1 .. m |-> Byte(k)]
    BY <1>7, <1>8
  <2>2. [k \in 1 .. m |-> Byte(k)] = [k \in 1 .. m |-> w[k]]
    BY <1>9
  <2>3. w = [k \in 1 .. m |-> w[k]]
    BY LenProperties DEF m
  <2> QED
    BY <2>1, <2>2, <2>3
<1> QED
  BY <1>10 DEF chars, E


-----------------------------------------------------------------------------
(* The stream: what is taken from its front, and what stays.                 *)

Flow(cells) == [good |-> TRUE, cells |-> cells]

Dropped(a, b) == Drop(Flow(a \o b), Len(a)) = Flow(b)

LEMMA FlowFields == ASSUME NEW c PROVE Length(Flow(c)) = Len(c) /\ Flow(c).cells = c /\ Flow(c).good
BY DEF Length, Flow

LEMMA FlowCells == ASSUME NEW c, NEW b PROVE [Flow(c) EXCEPT !.cells = b] = Flow(b)
<1> DEFINE f == Flow(c)
           e == [f EXCEPT !.cells = b]
<1>1. f = [good |-> TRUE, cells |-> c]
  BY DEF Flow
<1>2. DOMAIN f = {"good", "cells"} /\ f.good = TRUE
  BY <1>1
<1> HIDE DEF f
<1>3. DOMAIN e = {"good", "cells"} /\ e.good = TRUE /\ e.cells = b
  BY <1>2
<1>4. e = [x \in {"good", "cells"} |-> e[x]]
  BY <1>2
<1>5. Flow(b) = [x \in {"good", "cells"} |-> Flow(b)[x]] /\ Flow(b).good = TRUE /\ Flow(b).cells = b
  BY DEF Flow
<1> HIDE DEF e
<1> QED
  BY <1>3, <1>4, <1>5 DEF e, f

(* What stays behind a first part.                                           *)
LEMMA RestOf ==
    ASSUME NEW a \in Seq(Int), NEW b \in Seq(Int)
    PROVE  SubSeq(a \o b, Len(a) + 1, Len(a \o b)) = b
<1>1. /\ a \o b \in Seq(Int) /\ Len(a) \in Nat /\ Len(b) \in Nat /\ Len(a \o b) = Len(a) + Len(b)
      /\ \A i \in 1 .. Len(a) + Len(b) : (a \o b)[i] = IF i <= Len(a) THEN a[i] ELSE b[i - Len(a)]
  BY ConcatProperties
<1> DEFINE c == a \o b
           d == SubSeq(c, Len(a) + 1, Len(c))
<1> HIDE DEF c
<1>2. /\ d \in Seq(Int) /\ Len(d) = Len(b)
      /\ \A i \in 1 .. Len(b) : d[i] = c[Len(a) + i]
  BY <1>1 DEF c
<1>3. \A i \in 1 .. Len(b) : d[i] = b[i]
  <2>1. ASSUME NEW i \in 1 .. Len(b) PROVE d[i] = b[i]
    <3>1. Len(a) + i \in 1 .. Len(a) + Len(b) /\ ~(Len(a) + i <= Len(a)) /\ (Len(a) + i) - Len(a) = i
      BY <1>1
    <3>2. c[Len(a) + i] = b[i]
      BY <1>1, <3>1 DEF c
    <3> QED
      BY <1>2, <3>2
  <2> QED
    BY <2>1
<1> HIDE DEF d
<1>4. d = b
  BY <1>2, <1>3, SeqEqual
<1> QED
  BY <1>4 DEF d, c

LEMMA DropFront ==
    ASSUME NEW a \in Seq(Int), NEW b \in Seq(Int)
    PROVE  Dropped(a, b)
<1>1. Len(a) \in Nat /\ Len(b) \in Nat /\ Len(a \o b) = Len(a) + Len(b)
  BY ConcatProperties
<1>2. Length(Flow(a \o b)) >= Len(a)
  <2>1. Length(Flow(a \o b)) = Len(a \o b)
    BY FlowFields
  <2> QED
    BY <1>1, <2>1
<1>3. Drop(Flow(a \o b), Len(a)) = [Flow(a \o b) EXCEPT !.cells = SubSeq(a \o b, Len(a) + 1, Len(a \o b))]
  <2> DEFINE c == a \o b
  <2> HIDE DEF c
  <2>1. Length(Flow(c)) >= Len(a) => Drop(Flow(c), Len(a)) = [Flow(c) EXCEPT !.cells = SubSeq(c, Len(a) + 1, Len(c))]
    BY DEF Drop, Flow
  <2> QED
    BY <1>2, <2>1 DEF c
<1>4. Drop(Flow(a \o b), Len(a)) = [Flow(a \o b) EXCEPT !.cells = b]
  BY <1>3, RestOf
<1>5. [Flow(a \o b) EXCEPT !.cells = b] = Flow(b)
  BY FlowCells
<1> QED
  BY <1>4, <1>5 DEF Dropped

LEMMA FrontFields ==
    ASSUME NEW a \in Seq(Int), NEW b \in Seq(Int), NEW i \in 1 .. Len(a), NEW d
    PROVE  Field(Flow(a \o b), i, d) = a[i]
<1>1. /\ Len(a) \in Nat /\ Len(b) \in Nat /\ Len(a \o b) = Len(a) + Len(b) /\ (a \o b)[i] = a[i]
  <2>1. Len(a) \in Nat /\ Len(b) \in Nat
    OBVIOUS
  <2>2. i \in 1 .. Len(a) + Len(b) /\ i <= Len(a)
    BY <2>1
  <2> QED
    BY <2>1, <2>2, ConcatProperties
<1>2. Length(Flow(a \o b)) >= i /\ Flow(a \o b).cells = a \o b
  <2>1. Length(Flow(a \o b)) = Len(a \o b) /\ Flow(a \o b).cells = a \o b
    BY FlowFields
  <2> QED
    BY <1>1, <2>1
<1> QED
  BY <1>1, <1>2 DEF Field

(* One cell in front of others.                                              *)
LEMMA FrontCell ==
    ASSUME NEW x \in Int, NEW b \in Seq(Int)
    PROVE  /\ Drop(Flow(<<x>> \o b), 1) = Flow(b)
           /\ \A d : Field(Flow(<<x>> \o b), 1, d) = x
           /\ Length(Flow(<<x>> \o b)) = 1 + Len(b)
           /\ <<x>> \o b \in Seq(Int)
<1>1. <<x>> \in Seq(Int) /\ Len(<<x>>) = 1 /\ <<x>>[1] = x /\ 1 \in 1 .. Len(<<x>>)
  OBVIOUS
<1>2. Dropped(<<x>>, b) /\ \A d : Field(Flow(<<x>> \o b), 1, d) = <<x>>[1]
  BY <1>1, DropFront, FrontFields
<1>3. Len(<<x>> \o b) = 1 + Len(b) /\ <<x>> \o b \in Seq(Int)
  BY <1>1, ConcatProperties
<1>4. Length(Flow(<<x>> \o b)) = Len(<<x>> \o b)
  BY FlowFields
<1> QED
  BY <1>1, <1>2, <1>3, <1>4 DEF Dropped


-----------------------------------------------------------------------------
(* Units and the cells they are written as.                                  *)

CellsOf == [u \in Units |-> Cells(u)]
CommandOf == [u \in Units |-> Command(u)]
TypeNumber(u) == IF u.type = "Later" THEN COUNT ELSE Types[u.type]
Body(u) == <<Half, TypeNumber(u)>> \o Payload(u)
Header(u) == <<Half, Half, Len(Body(u))>>

LEMMA UnitKinds ==
    ASSUME NEW u \in Units
    PROVE  \/ /\ u.type = "Start" /\ u.settings \in Int /\ u.password \in Passwords
              /\ u = [type |-> "Start", settings |-> u.settings, password |-> u.password]
           \/ /\ u.type = "TurnSampling" /\ u.index \in Int /\ u.isSampling \in Int
              /\ u = [type |-> "TurnSampling", index |-> u.index, isSampling |-> u.isSampling]
           \/ u.type = "Stop" /\ u = [type |-> "Stop"]
           \/ u.type = "Cancel" /\ u = [type |-> "Cancel"]
           \/ u.type = "Later" /\ u.field \in Int \ {Half}
           \/ u.type = "Garbage" /\ u.field \in Int \ {Half}
<1>1. CASE u \in [type : {"Start"}, settings : Int, password : Passwords]
  BY <1>1
<1>2. CASE u \in [type : {"TurnSampling"}, index : Int, isSampling : Int]
  BY <1>2
<1>3. CASE u \in [type : {"Stop", "Cancel"}]
  <2>1. u.type \in {"Stop", "Cancel"} /\ u = [type |-> u.type]
    BY <1>3
  <2> QED
    BY <2>1
<1>4. CASE u \in [type : {"Later", "Garbage"}, field : Int \ {Half}]
  BY <1>4
<1> QED
  BY <1>1, <1>2, <1>3, <1>4 DEF Units

LEMMA TypeNumbers ==
    /\ Types.Start = 0 /\ Types.Stop = 1 /\ Types.Cancel = 2 /\ Types.TurnSampling = 3
    /\ DOMAIN Types = {"Start", "Stop", "Cancel", "TurnSampling"} /\ COUNT = 4
BY DEF Types, COUNT

(* The fields a unit carries.                                                *)
LEMMA Payloads ==
    ASSUME NEW u \in Units
    PROVE  /\ Payload(u) \in Seq(Int)
           /\ u.type = "Start" => Payload(u) = <<u.settings, Len(Encode64(u.password))>> \o Encode64(u.password)
           /\ u.type = "TurnSampling" => Payload(u) = <<u.index, u.isSampling>>
           /\ u.type = "Later" => Payload(u) = <<u.field, u.field>>
           /\ u.type \in {"Stop", "Cancel", "Garbage"} => Payload(u) = << >>
<1>1. CASE u.type = "Start" /\ u.settings \in Int /\ u.password \in Passwords
  <2>1. Payload(u) = <<u.settings, Len(Encode64(u.password))>> \o Encode64(u.password)
    BY <1>1 DEF Payload
  <2>2. Encode64(u.password) \in Seq(Int)
    <3>1. u.password \in Seq(0 .. 255)
      BY <1>1 DEF Passwords
    <3>2. 0 .. PadChar \subseteq Int
      BY DEF PadChar
    <3>3. Encode64(u.password) \in Seq(0 .. PadChar)
      BY <3>1, EncodedWord
    <3> QED
      BY <3>2, <3>3, SeqMonotonic
  <2>3. <<u.settings, Len(Encode64(u.password))>> \in Seq(Int)
    BY <1>1, <2>2
  <2>4. Payload(u) \in Seq(Int)
    BY <2>1, <2>2, <2>3, ConcatProperties
  <2> QED
    BY <1>1, <2>1, <2>4
<1>2. CASE u.type = "TurnSampling" /\ u.index \in Int /\ u.isSampling \in Int
  BY <1>2 DEF Payload
<1>3. CASE u.type = "Later" /\ u.field \in Int
  BY <1>3 DEF Payload
<1>4. CASE u.type \in {"Stop", "Cancel", "Garbage"}
  BY <1>4 DEF Payload
<1> QED
  BY <1>1, <1>2, <1>3, <1>4, UnitKinds

(* A command, also one of a later version, is a header and a body.           *)
LEMMA CellsOfCommand ==
    ASSUME NEW u \in Units, u.type # "Garbage"
    PROVE  /\ Body(u) \in Seq(Int) /\ Header(u) \in Seq(Int)
           /\ Len(Body(u)) = 2 + Len(Payload(u)) /\ Len(Payload(u)) \in Nat
           /\ Cells(u) = Header(u) \o Body(u)
           /\ Cells(u) \in Seq(Int) /\ Len(Cells(u)) = HeaderSize + Len(Body(u))
           /\ <<Half, TypeNumber(u)>> \in Seq(Int) /\ TypeNumber(u) \in 0 .. COUNT
<1>1. TypeNumber(u) \in 0 .. COUNT
  <2>1. u.type \in {"Start", "TurnSampling", "Stop", "Cancel", "Later"}
    BY UnitKinds
  <2> QED
    BY <2>1, TypeNumbers DEF TypeNumber
<1>2. <<Half, TypeNumber(u)>> \in Seq(Int) /\ Len(<<Half, TypeNumber(u)>>) = 2
  BY <1>1 DEF Half, COUNT
<1>3. Payload(u) \in Seq(Int) /\ Len(Payload(u)) \in Nat
  <2>1. Payload(u) \in Seq(Int)
    BY Payloads
  <2> QED
    BY <2>1
<1>4. Body(u) \in Seq(Int) /\ Len(Body(u)) = 2 + Len(Payload(u))
  BY <1>2, <1>3, ConcatProperties DEF Body
<1>5. Header(u) \in Seq(Int) /\ Len(Header(u)) = HeaderSize
  BY <1>3, <1>4 DEF Header, HeaderSize, Half
<1>6. Cells(u) = Header(u) \o Body(u)
  BY DEF Cells, Header, Body, TypeNumber
<1>7. Cells(u) \in Seq(Int) /\ Len(Cells(u)) = HeaderSize + Len(Body(u))
  BY <1>4, <1>5, <1>6, ConcatProperties
<1> QED
  BY <1>1, <1>2, <1>3, <1>4, <1>5, <1>6, <1>7

LEMMA CellsOfUnit ==
    ASSUME NEW u \in Units
    PROVE  /\ Cells(u) \in Seq(Int) /\ Len(Cells(u)) \in Nat \ {0} /\ Command(u) \in Seq(Units)
           /\ u.type = "Garbage" =>
                 Cells(u) = <<u.field>> /\ u.field \in Int \ {Half} /\ Command(u) = << >>
           /\ u.type # "Garbage" => Command(u) = <<u>>
<1>1. CASE u.type = "Garbage"
  <2>1. u.field \in Int \ {Half}
    BY <1>1, UnitKinds
  <2>2. Cells(u) = <<u.field>>
    BY <1>1 DEF Cells
  <2>3. Command(u) = << >>
    BY <1>1 DEF Command
  <2> QED
    BY <1>1, <2>1, <2>2, <2>3
<1>2. CASE u.type # "Garbage"
  <2>1. /\ Cells(u) \in Seq(Int) /\ Len(Cells(u)) = HeaderSize + Len(Body(u))
        /\ Len(Body(u)) = 2 + Len(Payload(u)) /\ Len(Payload(u)) \in Nat
    BY <1>2, CellsOfCommand
  <2>2. Command(u) = <<u>> /\ Command(u) \in Seq(Units)
    BY <1>2 DEF Command
  <2> QED
    BY <1>2, <2>1, <2>2 DEF HeaderSize
<1> QED
  BY <1>1, <1>2

LEMMA UnitMaps == CellsOf \in [Units -> Seq(Int)] /\ CommandOf \in [Units -> Seq(Units)]
BY CellsOfUnit DEF CellsOf, CommandOf

(* What several units are written as is what each is written as, joined.     *)
LEMMA AllJoined ==
    ASSUME NEW R \in Seq(Units)
    PROVE  /\ AllCells(R) = Joined(CellsOf, R) /\ CommandsIn(R) = Joined(CommandOf, R)
           /\ AllCells(R) \in Seq(Int) /\ CommandsIn(R) \in Seq(Units)
<1>1. \A i \in DOMAIN R : R[i] \in Units
  OBVIOUS
<1>2. [i \in DOMAIN R |-> Cells(R[i])] = [i \in DOMAIN R |-> CellsOf[R[i]]]
  BY <1>1 DEF CellsOf
<1>3. [i \in DOMAIN R |-> Command(R[i])] = [i \in DOMAIN R |-> CommandOf[R[i]]]
  BY <1>1 DEF CommandOf
<1>4. AllCells(R) = Joined(CellsOf, R) /\ CommandsIn(R) = Joined(CommandOf, R)
  BY <1>2, <1>3 DEF AllCells, CommandsIn, Joined
<1>5. Joined(CellsOf, R) \in Seq(Int) /\ Joined(CommandOf, R) \in Seq(Units)
  BY UnitMaps, JoinedType
<1> QED
  BY <1>4, <1>5

LEMMA NoUnits == AllCells(<< >>) = << >> /\ CommandsIn(<< >>) = << >>
<1>1. << >> \in Seq(Units)
  OBVIOUS
<1> QED
  BY <1>1, AllJoined, NothingJoined

Both(R, T) == /\ AllCells(R \o T) = AllCells(R) \o AllCells(T)
              /\ CommandsIn(R \o T) = CommandsIn(R) \o CommandsIn(T)

LEMMA UnitsConcat ==
    ASSUME NEW R \in Seq(Units), NEW T \in Seq(Units)
    PROVE  Both(R, T) /\ R \o T \in Seq(Units)
<1>1. R \o T \in Seq(Units)
  BY ConcatProperties
<1>2. JoinsBoth(CellsOf, R, T) /\ JoinsBoth(CommandOf, R, T)
  BY UnitMaps, JoinedConcat
<1>3. /\ AllCells(R) = Joined(CellsOf, R) /\ CommandsIn(R) = Joined(CommandOf, R)
      /\ AllCells(T) = Joined(CellsOf, T) /\ CommandsIn(T) = Joined(CommandOf, T)
  BY AllJoined
<1>4. AllCells(R \o T) = Joined(CellsOf, R \o T) /\ CommandsIn(R \o T) = Joined(CommandOf, R \o T)
  BY <1>1, AllJoined
<1> QED
  BY <1>1, <1>2, <1>3, <1>4 DEF Both, JoinsBoth

LEMMA OneUnit ==
    ASSUME NEW u \in Units
    PROVE  AllCells(<<u>>) = Cells(u) /\ CommandsIn(<<u>>) = Command(u) /\ <<u>> \in Seq(Units)
<1>1. <<u>> \in Seq(Units)
  OBVIOUS
<1>2. Joined(CellsOf, <<u>>) = CellsOf[u] /\ Joined(CommandOf, <<u>>) = CommandOf[u]
  BY UnitMaps, JoinedOne
<1>3. CellsOf[u] = Cells(u) /\ CommandOf[u] = Command(u)
  BY DEF CellsOf, CommandOf
<1> QED
  BY <1>1, <1>2, <1>3, AllJoined

(* The first unit and those behind it.                                       *)
HeadApart(R) == /\ AllCells(R) = Cells(Head(R)) \o AllCells(Tail(R))
                /\ CommandsIn(R) = Command(Head(R)) \o CommandsIn(Tail(R))

LEMMA FirstUnit ==
    ASSUME NEW R \in Seq(Units), R # << >>
    PROVE  Head(R) \in Units /\ Tail(R) \in Seq(Units) /\ HeadApart(R)
<1>1. Head(R) \in Units /\ Tail(R) \in Seq(Units)
  OBVIOUS
<1>2. R = <<Head(R)>> \o Tail(R)
  OBVIOUS
<1> DEFINE u == Head(R)  T == Tail(R)
<1>3. <<u>> \in Seq(Units) /\ AllCells(<<u>>) = Cells(u) /\ CommandsIn(<<u>>) = Command(u)
  BY <1>1, OneUnit
<1>4. Both(<<u>>, T)
  BY <1>1, <1>3, UnitsConcat
<1> HIDE DEF u, T
<1>5. AllCells(<<u>> \o T) = Cells(u) \o AllCells(T) /\ CommandsIn(<<u>> \o T) = Command(u) \o CommandsIn(T)
  BY <1>3, <1>4 DEF Both
<1>6. R = <<u>> \o T
  BY <1>2 DEF u, T
<1>7. AllCells(R) = Cells(u) \o AllCells(T) /\ CommandsIn(R) = Command(u) \o CommandsIn(T)
  BY <1>5, <1>6
<1> QED
  BY <1>1, <1>7 DEF HeadApart, u, T


-----------------------------------------------------------------------------
(* The factory, where the stream starts with a command.                      *)

(* Cells one behind the other.                                               *)
Associates(a, b, c) == (a \o b) \o c = a \o (b \o c)
Concats(a, b) == /\ a \o b \in Seq(Int) /\ Len(a \o b) = Len(a) + Len(b)
                 /\ \A i \in 1 .. Len(a) + Len(b) :
                       (a \o b)[i] = IF i <= Len(a) THEN a[i] ELSE b[i - Len(a)]

LEMMA CellsAssociate ==
    ASSUME NEW a \in Seq(Int), NEW b \in Seq(Int), NEW c \in Seq(Int) PROVE Associates(a, b, c)
BY ConcatAssociative DEF Associates

LEMMA CellsConcat ==
    ASSUME NEW a \in Seq(Int), NEW b \in Seq(Int) PROVE Concats(a, b)
BY ConcatProperties DEF Concats

LEMMA TwoCells ==
    ASSUME NEW x \in Int, NEW y \in Int
    PROVE  <<x>> \in Seq(Int) /\ <<y>> \in Seq(Int) /\ <<x>> \o <<y>> = <<x, y>>
<1>1. <<x>> \in Seq(Int) /\ <<y>> \in Seq(Int) /\ <<x, y>> \in Seq(Int) /\ Len(<<x, y>>) = 2
  OBVIOUS
<1>2. Concats(<<x>>, <<y>>)
  BY <1>1, CellsConcat
<1> DEFINE c == <<x>> \o <<y>>
<1>3. Len(<<x>>) = 1 /\ Len(<<y>>) = 1 /\ <<x>>[1] = x /\ <<y>>[1] = y
  OBVIOUS
<1>4. c \in Seq(Int) /\ Len(c) = 2 /\ c[1] = x /\ c[2] = y
  <2>1. /\ c \in Seq(Int) /\ Len(c) = 1 + 1
        /\ \A i \in 1 .. 1 + 1 : c[i] = IF i <= 1 THEN <<x>>[i] ELSE <<y>>[i - 1]
    BY <1>2, <1>3 DEF Concats
  <2> HIDE DEF c
  <2> QED
    BY <1>3, <2>1
<1> HIDE DEF c
<1>5. \A i \in 1 .. 2 : c[i] = <<x, y>>[i]
  BY <1>4
<1>6. c = <<x, y>>
  BY <1>1, <1>4, <1>5, SeqEqual
<1> QED
  BY <1>1, <1>6 DEF c

(* What is read of a command: its header, the application and the type, and  *)
(* what the fields start with.                                               *)
Framed(u, rest) ==
    LET s == Flow(Cells(u) \o rest)
        q == Payload(u) \o rest
    IN  /\ s.cells[HeaderSize] = Len(Body(u)) /\ IsValid(s.cells, 1) /\ Complete(s)
        /\ Length(Drop(s, HeaderSize)) = Len(Body(u)) + Len(rest)
        /\ Field(Drop(s, HeaderSize), 2, COUNT) = TypeNumber(u)
        /\ Drop(Drop(Drop(s, HeaderSize), 1), 1) = Flow(q)

LEMMA FrameOfCommand ==
    ASSUME NEW u \in Units, u.type # "Garbage", NEW rest \in Seq(Int)
    PROVE  Framed(u, rest)
<1> DEFINE H == Header(u)  B == Body(u)  p == Payload(u)  t == TypeNumber(u)
           q == p \o rest
<1>1. /\ B \in Seq(Int) /\ H \in Seq(Int) /\ p \in Seq(Int) /\ t \in Int
      /\ Len(B) = 2 + Len(p) /\ Len(p) \in Nat /\ Len(rest) \in Nat
      /\ <<Half, t>> \in Seq(Int)
  <2>1. Payload(u) \in Seq(Int)
    BY Payloads
  <2>2. /\ Body(u) \in Seq(Int) /\ Header(u) \in Seq(Int) /\ Len(Payload(u)) \in Nat
        /\ Len(Body(u)) = 2 + Len(Payload(u)) /\ <<Half, TypeNumber(u)>> \in Seq(Int)
        /\ TypeNumber(u) \in 0 .. COUNT
    BY CellsOfCommand
  <2>3. Len(rest) \in Nat /\ 0 .. COUNT \subseteq Int
    BY DEF COUNT
  <2> QED
    BY <2>1, <2>2, <2>3
<1>2. Cells(u) = H \o B /\ B = <<Half, t>> \o p
  BY CellsOfCommand DEF Body
<1>3. H = <<Half, Half, Len(B)>> /\ Len(H) = 3 /\ H[1] = Half /\ H[2] = Half /\ H[3] = Len(B)
  BY DEF Header
<1> HIDE DEF H, B, p, t
<1>4. Cells(u) \o rest = H \o (B \o rest) /\ B \o rest \in Seq(Int) /\ Len(B \o rest) = Len(B) + Len(rest)
  <2>1. (H \o B) \o rest = H \o (B \o rest)
    <3>1. Associates(H, B, rest)
      BY <1>1, CellsAssociate
    <3> QED
      BY <3>1 DEF Associates
  <2>2. B \o rest \in Seq(Int) /\ Len(B \o rest) = Len(B) + Len(rest)
    BY <1>1, ConcatProperties
  <2> QED
    BY <1>2, <2>1, <2>2
<1>5. q \in Seq(Int) /\ Len(q) = Len(p) + Len(rest)
  BY <1>1, ConcatProperties
<1> DEFINE c == H \o (B \o rest)
<1>6. /\ c \in Seq(Int) /\ Len(c) = 3 + (Len(B) + Len(rest)) /\ Len(B) + Len(rest) \in Nat
      /\ c[1] = Half /\ c[2] = Half /\ c[3] = Len(B)
  <2>1. /\ c \in Seq(Int) /\ Len(c) = Len(H) + Len(B \o rest)
        /\ \A i \in 1 .. Len(H) + Len(B \o rest) : c[i] = IF i <= Len(H) THEN H[i] ELSE (B \o rest)[i - Len(H)]
    <3>1. Concats(H, B \o rest)
      BY <1>1, <1>4, CellsConcat
    <3> QED
      BY <3>1 DEF Concats
  <2>2. Len(H) + Len(B \o rest) = 3 + (Len(B) + Len(rest)) /\ Len(B) + Len(rest) \in Nat
    BY <1>1, <1>3, <1>4
  <2>3. 1 \in 1 .. Len(H) + Len(B \o rest) /\ 2 \in 1 .. Len(H) + Len(B \o rest) /\ 3 \in 1 .. Len(H) + Len(B \o rest)
    BY <2>2
  <2>4. c[1] = H[1] /\ c[2] = H[2] /\ c[3] = H[3]
    <3> HIDE DEF c
    <3> QED
      BY <1>3, <2>1, <2>3
  <2> QED
    BY <1>3, <2>1, <2>2, <2>4
<1>7. Drop(Flow(c), 3) = Flow(B \o rest)
  <2>1. Dropped(H, B \o rest)
    BY <1>1, <1>4, DropFront
  <2> QED
    BY <1>3, <2>1 DEF Dropped
<1>8. B \o rest = <<Half>> \o (<<t>> \o q)
  <2>1. (<<Half, t>> \o p) \o rest = <<Half, t>> \o q
    <3>1. Associates(<<Half, t>>, p, rest)
      BY <1>1, CellsAssociate
    <3> QED
      BY <3>1 DEF Associates
  <2>2. <<Half>> \in Seq(Int) /\ <<t>> \in Seq(Int) /\ <<Half>> \o <<t>> = <<Half, t>>
    <3>1. Half \in Int
      BY DEF Half
    <3> QED
      BY <1>1, <3>1, TwoCells
  <2> HIDE DEF q
  <2>3. (<<Half>> \o <<t>>) \o q = <<Half>> \o (<<t>> \o q)
    <3>1. Associates(<<Half>>, <<t>>, q)
      BY <1>5, <2>2, CellsAssociate
    <3> QED
      BY <3>1 DEF Associates
  <2> QED
    BY <1>2, <2>1, <2>2, <2>3 DEF q
<1> HIDE DEF c, q
<1>9. <<t>> \o q \in Seq(Int) /\ Drop(Flow(<<t>> \o q), 1) = Flow(q)
  BY <1>1, <1>5, FrontCell
<1>10. Drop(Flow(B \o rest), 1) = Flow(<<t>> \o q)
  <2>1. Half \in Int
    BY DEF Half
  <2>2. Drop(Flow(<<Half>> \o (<<t>> \o q)), 1) = Flow(<<t>> \o q)
    BY <1>9, <2>1, FrontCell
  <2> QED
    BY <1>8, <2>2
<1>11. Field(Flow(B \o rest), 2, COUNT) = t
  <2> DEFINE two == <<Half, t>>
  <2>1. two \in Seq(Int) /\ 2 \in 1 .. Len(two) /\ two[2] = t
    BY <1>1
  <2>2. B \o rest = two \o q
    <3>1. Associates(<<Half, t>>, p, rest)
      BY <1>1, CellsAssociate
    <3> QED
      BY <1>2, <3>1 DEF q, Associates
  <2> HIDE DEF two
  <2>3. Field(Flow(two \o q), 2, COUNT) = two[2]
    BY <1>5, <2>1, FrontFields
  <2> QED
    BY <2>1, <2>2, <2>3
<1>12. Length(Flow(B \o rest)) = Len(B) + Len(rest)
  BY <1>4, FlowFields
<1>13. Length(Flow(c)) = Len(c) /\ Flow(c).cells = c
  BY FlowFields
<1>14. Complete(Flow(c)) /\ IsValid(c, 1)
  <2>1. Length(Flow(c)) >= 3 /\ Length(Flow(c)) >= Flow(c).cells[3] + 3
    BY <1>1, <1>6, <1>13
  <2> QED
    BY <1>6, <2>1 DEF Complete, IsValid, HeaderSize
<1>15. Flow(Cells(u) \o rest) = Flow(c)
  BY <1>4 DEF c
<1> QED
  BY <1>6, <1>7, <1>9, <1>10, <1>11, <1>12, <1>13, <1>14, <1>15 DEF Framed, HeaderSize, H, B, p, t, q


(* What the factory makes of it: the command that was sent, and the stream   *)
(* behind it; a command of a later version makes it break.                   *)
Made(u, rest) ==
    LET r == Create(Flow(Cells(u) \o rest))
    IN  IF u.type = "Later" THEN r.breaks /\ r.msg = << >> /\ r.stream.good
        ELSE ~r.breaks /\ r.msg = <<u>> /\ r.stream = Flow(rest)

(* The fields, and what the cases of the factory have in common.             *)
TypeRead(s) == Field(Drop(s, HeaderSize), 2, COUNT)
Fields(s) == Drop(Drop(Drop(s, HeaderSize), 1), 1)
AfterMessage(s) ==
    CASE TypeRead(s) = Types.Start -> AfterString(Drop(Fields(s), 1))
      [] TypeRead(s) = Types.TurnSampling -> Drop(Drop(Fields(s), 1), 1)
      [] OTHER -> Fields(s)
Message(s) ==
    CASE TypeRead(s) = Types.Start ->
            [type |-> "Start", settings |-> Field(Fields(s), 1, 0),
             password |-> base64_decode(String(Drop(Fields(s), 1)))]
      [] TypeRead(s) = Types.Stop -> [type |-> "Stop"]
      [] TypeRead(s) = Types.Cancel -> [type |-> "Cancel"]
      [] TypeRead(s) = Types.TurnSampling ->
            [type |-> "TurnSampling", index |-> Field(Fields(s), 1, 0),
             isSampling |-> Field(Drop(Fields(s), 1), 1, 0)]

Fits(s) == s.cells[HeaderSize] + Length(AfterMessage(s)) = Length(Drop(s, HeaderSize))

LEMMA Creation ==
    ASSUME NEW s
    PROVE  Create(s) =
              IF TypeRead(s) \notin 0 .. COUNT - 1
              THEN [breaks |-> TRUE, msg |-> << >>, stream |-> Fields(s)]
              ELSE IF TypeRead(s) = Types.Start /\ Throws(Drop(Fields(s), 1))
                   THEN [breaks |-> TRUE, msg |-> << >>, stream |-> Drop(Fields(s), 1)]
              ELSE [breaks |-> Debug /\ ~Fits(s), msg |-> IF Fits(s) THEN <<Message(s)>> ELSE << >>,
                    stream |-> AfterMessage(s)]
BY DEF Create, TypeRead, Fields, AfterMessage, Message, Fits

(* A message of a known type that is read to its end.                        *)
LEMMA CreationOfKnown ==
    ASSUME NEW s, NEW m, NEW after, TypeRead(s) \in 0 .. 3,
           ~(TypeRead(s) = Types.Start /\ Throws(Drop(Fields(s), 1))),
           Message(s) = m, AfterMessage(s) = after,
           s.cells[HeaderSize] + Length(after) = Length(Drop(s, HeaderSize))
    PROVE  ~Create(s).breaks /\ Create(s).msg = <<m>> /\ Create(s).stream = after
<1>1. TypeRead(s) \in 0 .. COUNT - 1
  BY DEF COUNT
<1>2. Fits(s)
  BY DEF Fits
<1>3. Create(s) = [breaks |-> Debug /\ ~Fits(s), msg |-> IF Fits(s) THEN <<Message(s)>> ELSE << >>,
                   stream |-> AfterMessage(s)]
  BY <1>1, Creation
<1> DEFINE b == Debug /\ ~Fits(s)
<1>4. ~b
  BY <1>2
<1>5. Create(s) = [breaks |-> b, msg |-> <<m>>, stream |-> after]
  BY <1>2, <1>3
<1> HIDE DEF b
<1> QED
  BY <1>4, <1>5

LEMMA MadeOfStart ==
    ASSUME NEW u \in Units, u.type = "Start", NEW rest \in Seq(Int)
    PROVE  Made(u, rest)
<1> DEFINE s == Flow(Cells(u) \o rest)
           word == Encode64(u.password)
           body == Drop(s, HeaderSize)
           first == Flow(<<Len(word)>> \o (word \o rest))
<1>1. /\ s.cells[HeaderSize] = Len(Body(u)) /\ Field(body, 2, COUNT) = TypeNumber(u)
      /\ Length(body) = Len(Body(u)) + Len(rest) /\ Drop(Drop(body, 1), 1) = Flow(Payload(u) \o rest)
  BY FrameOfCommand DEF Framed
<1>2. /\ u.settings \in Int /\ u.password \in Seq(0 .. 255)
      /\ 4 * Groups(Len(u.password)) < Half
      /\ u = [type |-> "Start", settings |-> u.settings, password |-> u.password]
  <2>1. u.password \in Passwords /\ u.settings \in Int /\ u = [type |-> "Start", settings |-> u.settings, password |-> u.password]
    BY UnitKinds
  <2> QED
    BY <2>1 DEF Passwords, Groups
<1>3. word \in Seq(Int) /\ Len(word) \in Nat /\ Len(word) < Half /\ base64_decode(word \o <<Nul>>) = u.password
  <2>1. Encode64(u.password) \in Seq(0 .. PadChar) /\ Len(Encode64(u.password)) = 4 * Groups(Len(u.password))
    BY <1>2, EncodedWord
  <2>2. 0 .. PadChar \subseteq Int
    BY DEF PadChar
  <2>3. word \in Seq(Int)
    BY <2>1, <2>2, SeqMonotonic
  <2>4. base64_decode(word \o <<Nul>>) = u.password
    BY <1>2, PasswordRoundTrip
  <2> QED
    BY <1>2, <2>1, <2>3, <2>4
<1>4. TypeNumber(u) = 0 /\ Types.Start = 0 /\ COUNT = 4
  BY TypeNumbers DEF TypeNumber
<1>5. Payload(u) = <<u.settings, Len(word)>> \o word /\ Payload(u) \in Seq(Int)
  BY Payloads
<1>6. Len(Body(u)) \in Nat /\ Len(rest) \in Nat
  <2>1. Body(u) \in Seq(Int)
    BY CellsOfCommand
  <2> QED
    BY <2>1
<1> HIDE DEF word
<1>7. word \o rest \in Seq(Int) /\ Len(word \o rest) = Len(word) + Len(rest)
  BY <1>3, ConcatProperties
<1>8. /\ <<Len(word)>> \o (word \o rest) \in Seq(Int) /\ Drop(first, 1) = Flow(word \o rest)
      /\ \A d : Field(first, 1, d) = Len(word)
      /\ Length(first) = 1 + Len(word \o rest)
  <2> DEFINE n == Len(word)  b == word \o rest
  <2>1. n \in Int /\ b \in Seq(Int)
    BY <1>3, <1>7
  <2> HIDE DEF n, b
  <2>2. /\ <<n>> \o b \in Seq(Int) /\ Drop(Flow(<<n>> \o b), 1) = Flow(b)
        /\ \A d : Field(Flow(<<n>> \o b), 1, d) = n
        /\ Length(Flow(<<n>> \o b)) = 1 + Len(b)
    BY <2>1, FrontCell
  <2> QED
    BY <2>2 DEF n, b
<1>9. Payload(u) \o rest = <<u.settings>> \o (<<Len(word)>> \o (word \o rest))
  <2> DEFINE two == <<u.settings, Len(word)>>
  <2>1. /\ <<u.settings>> \in Seq(Int) /\ <<Len(word)>> \in Seq(Int)
        /\ <<u.settings>> \o <<Len(word)>> = two /\ two \in Seq(Int)
    BY <1>2, <1>3, TwoCells
  <2> HIDE DEF two
  <2>2. Associates(two, word, rest) /\ Associates(<<u.settings>>, <<Len(word)>>, word \o rest)
    BY <1>3, <1>7, <2>1, CellsAssociate
  <2>3. (two \o word) \o rest = two \o (word \o rest)
    BY <2>2 DEF Associates
  <2>4. (<<u.settings>> \o <<Len(word)>>) \o (word \o rest) = <<u.settings>> \o (<<Len(word)>> \o (word \o rest))
    BY <2>2 DEF Associates
  <2>5. Payload(u) = two \o word
    BY <1>5 DEF two
  <2> QED
    BY <2>1, <2>3, <2>4, <2>5
<1> DEFINE fields == Flow(Payload(u) \o rest)
<1>10. Drop(fields, 1) = first /\ \A d : Field(fields, 1, d) = u.settings
  <2> DEFINE b == <<Len(word)>> \o (word \o rest)
  <2>1. b \in Seq(Int)
    BY <1>8
  <2> HIDE DEF b
  <2>2. Drop(Flow(<<u.settings>> \o b), 1) = Flow(b) /\ \A d : Field(Flow(<<u.settings>> \o b), 1, d) = u.settings
    BY <1>2, <2>1, FrontCell
  <2> QED
    BY <1>9, <2>2 DEF b
<1>11. ~Throws(first)
  <2>1. Half \in Int
    BY DEF Half
  <2>2. Field(first, 1, 0) = Len(word)
    BY <1>8
  <2> HIDE DEF first
  <2> QED
    BY <1>3, <2>1, <2>2 DEF Throws
<1>12. String(first) = word \o <<Nul>>
  <2> DEFINE c == <<Len(word)>> \o (word \o rest)
  <2>1. Length(first) >= Len(word) + 1
    BY <1>3, <1>7, <1>8
  <2>2. SubSeq(c, 2, Len(word) + 1) = word
    <3>1. Concats(<<Len(word)>>, word \o rest) /\ Concats(word, rest)
      <4>1. <<Len(word)>> \in Seq(Int)
        BY <1>3
      <4> QED
        BY <1>3, <1>7, <4>1, CellsConcat
    <3>2. Len(<<Len(word)>>) = 1
      OBVIOUS
    <3>3. /\ c \in Seq(Int) /\ Len(c) = 1 + (Len(word) + Len(rest))
          /\ \A i \in 1 .. Len(word) : c[i + 1] = word[i]
      <4>1. c \in Seq(Int) /\ Len(c) = 1 + (Len(word) + Len(rest))
        BY <1>7, <3>1, <3>2 DEF Concats
      <4>2. ASSUME NEW i \in 1 .. Len(word) PROVE c[i + 1] = word[i]
        <5>1. i + 1 \in 1 .. 1 + Len(word \o rest) /\ ~(i + 1 <= 1) /\ (i + 1) - 1 = i
          BY <1>3, <1>6, <1>7
        <5>2. c[i + 1] = (word \o rest)[i]
          BY <3>1, <3>2, <5>1 DEF Concats
        <5>3. i \in 1 .. Len(word) + Len(rest) /\ i <= Len(word)
          BY <1>3, <1>6
        <5>4. (word \o rest)[i] = word[i]
          BY <3>1, <5>3 DEF Concats
        <5> QED
          BY <5>2, <5>4
      <4> QED
        BY <4>1, <4>2
    <3> DEFINE d == SubSeq(c, 2, Len(word) + 1)
    <3> HIDE DEF c
    <3>4. d \in Seq(Int) /\ Len(d) = Len(word) /\ \A i \in 1 .. Len(word) : d[i] = c[i + 1]
      BY <1>3, <1>6, <3>3
    <3>5. \A i \in 1 .. Len(word) : d[i] = word[i]
      BY <3>3, <3>4
    <3> HIDE DEF d
    <3>6. d = word
      BY <1>3, <3>4, <3>5, SeqEqual
    <3> QED
      BY <3>6 DEF d
  <2>3. first.cells = c
    BY FlowFields
  <2>4. Field(first, 1, 0) = Len(word)
    BY <1>8
  <2> HIDE DEF c, first
  <2> QED
    BY <2>1, <2>2, <2>3, <2>4 DEF String
<1>13. AfterString(first) = Flow(rest)
  <2> DEFINE a == <<Len(word)>> \o word
  <2>1. <<Len(word)>> \in Seq(Int) /\ Len(<<Len(word)>>) = 1
    BY <1>3
  <2>2. a \in Seq(Int) /\ Len(a) = 1 + Len(word)
    BY <1>3, <2>1, ConcatProperties
  <2>3. Associates(<<Len(word)>>, word, rest)
    BY <1>3, <2>1, CellsAssociate
  <2>4. a \o rest = <<Len(word)>> \o (word \o rest)
    BY <2>3 DEF Associates
  <2> HIDE DEF a
  <2>5. Dropped(a, rest)
    BY <2>2, DropFront
  <2>6. Drop(Flow(a \o rest), 1 + Len(word)) = Flow(rest)
    BY <2>2, <2>5 DEF Dropped
  <2>7. Field(first, 1, 0) + 1 = 1 + Len(word)
    <3>1. Field(first, 1, 0) = Len(word)
      BY <1>8
    <3> QED
      BY <1>3, <3>1
  <2> QED
    BY <2>4, <2>6, <2>7 DEF AfterString
<1>14. Length(Flow(rest)) = Len(rest)
  BY FlowFields
<1>15. Field(fields, 1, 0) = u.settings
  BY <1>10
<1> HIDE DEF s, body, first, fields
<1>16. TypeRead(s) = 0 /\ Fields(s) = fields
  BY <1>1, <1>4 DEF TypeRead, Fields, body, fields
<1>17. Message(s) = u
  <2>1. base64_decode(String(first)) = u.password
    BY <1>3, <1>12
  <2>2. Message(s) = [type |-> "Start", settings |-> u.settings, password |-> u.password]
    BY <1>10, <1>15, <1>16, <2>1, TypeNumbers DEF Message
  <2> QED
    BY <1>2, <2>2
<1>18. AfterMessage(s) = Flow(rest)
  BY <1>10, <1>13, <1>16, TypeNumbers DEF AfterMessage
<1>19. s.cells[HeaderSize] + Length(Flow(rest)) = Length(Drop(s, HeaderSize))
  BY <1>1, <1>6, <1>14 DEF body
<1>20. TypeRead(s) \in 0 .. 3 /\ ~(TypeRead(s) = Types.Start /\ Throws(Drop(Fields(s), 1)))
  BY <1>10, <1>11, <1>16
<1>21. ~Create(s).breaks /\ Create(s).msg = <<u>> /\ Create(s).stream = Flow(rest)
  BY <1>17, <1>18, <1>19, <1>20, CreationOfKnown
<1> QED
  BY <1>21 DEF Made, s


LEMMA MadeOfPlain ==
    ASSUME NEW u \in Units, u.type \in {"Stop", "Cancel"}, NEW rest \in Seq(Int)
    PROVE  Made(u, rest)
<1> DEFINE s == Flow(Cells(u) \o rest)
<1>1. /\ s.cells[HeaderSize] = Len(Body(u)) /\ TypeRead(s) = TypeNumber(u)
      /\ Length(Drop(s, HeaderSize)) = Len(Body(u)) + Len(rest) /\ Fields(s) = Flow(Payload(u) \o rest)
  BY FrameOfCommand DEF Framed, TypeRead, Fields
<1>2. Payload(u) = << >> /\ TypeNumber(u) = Types[u.type]
  BY Payloads, TypeNumbers DEF TypeNumber
<1>3. Payload(u) \o rest = rest
  BY <1>2, ConcatEmptySeq
<1>4. Length(Flow(rest)) = Len(rest)
  BY FlowFields
<1> HIDE DEF s
<1>5. AfterMessage(s) = Flow(rest)
  BY <1>1, <1>2, <1>3, TypeNumbers DEF AfterMessage
<1>6. Message(s) = u
  <2>1. CASE u.type = "Stop"
    <3>1. u = [type |-> "Stop"] /\ TypeRead(s) = 1
      BY <1>1, <1>2, <2>1, UnitKinds, TypeNumbers
    <3> QED
      BY <3>1, TypeNumbers DEF Message
  <2>2. CASE u.type = "Cancel"
    <3>1. u = [type |-> "Cancel"] /\ TypeRead(s) = 2
      BY <1>1, <1>2, <2>2, UnitKinds, TypeNumbers
    <3> QED
      BY <3>1, TypeNumbers DEF Message
  <2> QED
    BY <2>1, <2>2
<1>7. TypeRead(s) \in 0 .. 3 /\ TypeRead(s) # Types.Start
  BY <1>1, <1>2, TypeNumbers
<1>8. s.cells[HeaderSize] + Length(Flow(rest)) = Length(Drop(s, HeaderSize))
  BY <1>1, <1>4
<1>9. ~Create(s).breaks /\ Create(s).msg = <<u>> /\ Create(s).stream = Flow(rest)
  BY <1>5, <1>6, <1>7, <1>8, CreationOfKnown
<1> QED
  BY <1>9 DEF Made, s

LEMMA MadeOfSampling ==
    ASSUME NEW u \in Units, u.type = "TurnSampling", NEW rest \in Seq(Int)
    PROVE  Made(u, rest)
<1> DEFINE s == Flow(Cells(u) \o rest)
           x == u.index  y == u.isSampling
           second == Flow(<<y>> \o rest)
<1>1. /\ s.cells[HeaderSize] = Len(Body(u)) /\ TypeRead(s) = TypeNumber(u)
      /\ Length(Drop(s, HeaderSize)) = Len(Body(u)) + Len(rest) /\ Fields(s) = Flow(Payload(u) \o rest)
  BY FrameOfCommand DEF Framed, TypeRead, Fields
<1>2. Payload(u) = <<x, y>> /\ TypeNumber(u) = 3
  BY Payloads, TypeNumbers DEF TypeNumber
<1>3. x \in Int /\ y \in Int /\ u = [type |-> "TurnSampling", index |-> x, isSampling |-> y]
  BY UnitKinds
<1> HIDE DEF x, y, s
<1>4. Payload(u) \o rest = <<x>> \o (<<y>> \o rest)
  <2>1. <<x>> \in Seq(Int) /\ <<y>> \in Seq(Int) /\ <<x>> \o <<y>> = <<x, y>>
    BY <1>3, TwoCells
  <2>2. Associates(<<x>>, <<y>>, rest)
    BY <2>1, CellsAssociate
  <2> QED
    BY <1>2, <2>1, <2>2 DEF Associates
<1>5. /\ <<y>> \o rest \in Seq(Int) /\ Drop(second, 1) = Flow(rest) /\ Field(second, 1, 0) = y
  BY <1>3, FrontCell
<1>6. Drop(Fields(s), 1) = second /\ Field(Fields(s), 1, 0) = x
  <2> DEFINE b == <<y>> \o rest
  <2>1. b \in Seq(Int)
    BY <1>5
  <2> HIDE DEF b
  <2>2. Drop(Flow(<<x>> \o b), 1) = Flow(b) /\ Field(Flow(<<x>> \o b), 1, 0) = x
    BY <1>3, <2>1, FrontCell
  <2> QED
    BY <1>1, <1>4, <2>2 DEF b
<1>7. Length(Flow(rest)) = Len(rest)
  BY FlowFields
<1> HIDE DEF second
<1>8. AfterMessage(s) = Flow(rest)
  BY <1>1, <1>2, <1>5, <1>6, TypeNumbers DEF AfterMessage
<1>9. Message(s) = u
  BY <1>1, <1>2, <1>3, <1>5, <1>6, TypeNumbers DEF Message
<1>10. TypeRead(s) \in 0 .. 3 /\ TypeRead(s) # Types.Start
  BY <1>1, <1>2, TypeNumbers
<1>11. s.cells[HeaderSize] + Length(Flow(rest)) = Length(Drop(s, HeaderSize))
  BY <1>1, <1>7
<1>12. ~Create(s).breaks /\ Create(s).msg = <<u>> /\ Create(s).stream = Flow(rest)
  BY <1>8, <1>9, <1>10, <1>11, CreationOfKnown
<1> QED
  BY <1>12 DEF Made, s

LEMMA MadeOfLater ==
    ASSUME NEW u \in Units, u.type = "Later", NEW rest \in Seq(Int)
    PROVE  Made(u, rest)
<1> DEFINE s == Flow(Cells(u) \o rest)
<1>1. TypeRead(s) = TypeNumber(u) /\ Fields(s) = Flow(Payload(u) \o rest)
  BY FrameOfCommand DEF Framed, TypeRead, Fields
<1>2. TypeNumber(u) = COUNT
  BY DEF TypeNumber
<1>3. Fields(s).good
  BY <1>1, FlowFields
<1> HIDE DEF s
<1>4. TypeRead(s) \notin 0 .. COUNT - 1
  BY <1>1, <1>2 DEF COUNT
<1>5. Create(s) = [breaks |-> TRUE, msg |-> << >>, stream |-> Fields(s)]
  BY <1>4, Creation
<1>6. Create(s).breaks /\ Create(s).msg = << >> /\ Create(s).stream.good
  BY <1>3, <1>5
<1> QED
  BY <1>6 DEF Made, s

(* Whatever command the stream starts with.                                  *)
LEMMA MadeOfCommand ==
    ASSUME NEW u \in Units, u.type # "Garbage", NEW rest \in Seq(Int)
    PROVE  Made(u, rest)
<1>1. u.type \in {"Start", "TurnSampling", "Stop", "Cancel", "Later"}
  BY UnitKinds
<1> QED
  BY <1>1, MadeOfStart, MadeOfPlain, MadeOfSampling, MadeOfLater


-----------------------------------------------------------------------------
(* The search for a mark.                                                    *)

(* What is there of a command that has not arrived completely.               *)
Beginning(P) ==
    /\ P \in Seq(Int)
    /\ \/ P = << >>
       \/ \E u \in Units : /\ u.type # "Garbage"
                           /\ \E n \in 1 .. Len(Cells(u)) - 1 : P = SubSeq(Cells(u), 1, n)

LEMMA MarkFirst == ASSUME NEW c PROVE IsValid(c, 1) <=> (c[1] = Half /\ c[2] = Half)
<1>1. 1 + 1 = 2
  OBVIOUS
<1> QED
  BY <1>1, Zenon DEF IsValid

LEMMA CommandStarts ==
    ASSUME NEW u \in Units, u.type # "Garbage"
    PROVE  /\ Cells(u) \in Seq(Int) /\ Len(Cells(u)) = HeaderSize + Len(Body(u)) /\ Len(Body(u)) \in Nat \ {0, 1}
           /\ Cells(u)[1] = Half /\ Cells(u)[2] = Half /\ Cells(u)[3] = Len(Body(u))
<1>1. /\ Body(u) \in Seq(Int) /\ Header(u) \in Seq(Int) /\ Len(Body(u)) = 2 + Len(Payload(u))
      /\ Len(Payload(u)) \in Nat /\ Cells(u) = Header(u) \o Body(u)
      /\ Cells(u) \in Seq(Int) /\ Len(Cells(u)) = HeaderSize + Len(Body(u))
  BY CellsOfCommand
<1>2. Len(Header(u)) = 3 /\ Header(u)[1] = Half /\ Header(u)[2] = Half /\ Header(u)[3] = Len(Body(u))
  BY DEF Header
<1>3. Concats(Header(u), Body(u))
  BY <1>1, CellsConcat
<1> DEFINE c == Header(u) \o Body(u)
<1>4. \A i \in 1 .. 3 + Len(Body(u)) : c[i] = IF i <= 3 THEN Header(u)[i] ELSE Body(u)[i - 3]
  BY <1>2, <1>3 DEF Concats
<1> HIDE DEF c
<1>5. Len(Body(u)) \in Nat \ {0, 1}
  BY <1>1
<1>6. 1 \in 1 .. 3 + Len(Body(u)) /\ 2 \in 1 .. 3 + Len(Body(u)) /\ 3 \in 1 .. 3 + Len(Body(u))
  BY <1>5
<1>7. c[1] = Half /\ c[2] = Half /\ c[3] = Len(Body(u))
  BY <1>2, <1>4, <1>6
<1> QED
  BY <1>1, <1>5, <1>7 DEF c

(* The first cells of several commands and what arrived of a further one:    *)
(* where no mark is, a cell of garbage is.                                   *)
SkipsOne(R, P) == Tail(AllCells(R) \o P) = AllCells(Tail(R)) \o P

LEMMA OneSkipped ==
    ASSUME NEW R \in Seq(Units), NEW P, Beginning(P),
           Len(AllCells(R) \o P) >= HeaderSize, ~IsValid(AllCells(R) \o P, 1)
    PROVE  R # << >> /\ SkipsOne(R, P) /\ CommandsIn(Tail(R)) = CommandsIn(R) /\ Tail(R) \in Seq(Units)
<1>1. P \in Seq(Int) /\ AllCells(R) \in Seq(Int)
  BY AllJoined DEF Beginning
<1>2. R # << >>
  <2>1. SUFFICES ASSUME R = << >> PROVE FALSE
    OBVIOUS
  <2>2. AllCells(R) \o P = P
    BY <1>1, <2>1, NoUnits, ConcatEmptySeq
  <2>3. Len(P) >= 3 /\ ~(P[1] = Half /\ P[2] = Half)
    BY <2>2 DEF IsValid, HeaderSize
  <2>4. P # << >>
    BY <2>3
  <2>5. PICK u \in Units : u.type # "Garbage" /\ \E n \in 1 .. Len(Cells(u)) - 1 : P = SubSeq(Cells(u), 1, n)
    BY <2>4 DEF Beginning
  <2>6. PICK n \in 1 .. Len(Cells(u)) - 1 : P = SubSeq(Cells(u), 1, n)
    BY <2>5
  <2>7. Cells(u) \in Seq(Int) /\ Len(Cells(u)) \in Nat /\ Cells(u)[1] = Half /\ Cells(u)[2] = Half
    BY <2>5, CommandStarts DEF HeaderSize
  <2> DEFINE c == Cells(u)
  <2> HIDE DEF c
  <2>8. c \in Seq(Int) /\ Len(c) \in Nat /\ c[1] = Half /\ c[2] = Half /\ n \in 1 .. Len(c) - 1 /\ P = SubSeq(c, 1, n)
    BY <2>6, <2>7 DEF c
  <2>9. Len(P) = n /\ P[1] = c[1] /\ P[2] = c[2]
    BY <2>3, <2>8
  <2> QED
    BY <2>3, <2>8, <2>9
<1> DEFINE u == Head(R)  T == Tail(R)
<1>3. u \in Units /\ T \in Seq(Units) /\ HeadApart(R)
  BY <1>2, FirstUnit
<1>4. AllCells(R) = Cells(u) \o AllCells(T) /\ CommandsIn(R) = Command(u) \o CommandsIn(T)
  BY <1>3 DEF HeadApart
<1> HIDE DEF u, T
<1>5. /\ Cells(u) \in Seq(Int) /\ AllCells(T) \in Seq(Int) /\ AllCells(T) \o P \in Seq(Int)
      /\ CommandsIn(T) \in Seq(Units) /\ Len(AllCells(T) \o P) \in Nat
  <2>1. Cells(u) \in Seq(Int) /\ AllCells(T) \in Seq(Int) /\ CommandsIn(T) \in Seq(Units)
    BY <1>3, CellsOfUnit, AllJoined
  <2>2. AllCells(T) \o P \in Seq(Int)
    BY <1>1, <2>1, ConcatProperties
  <2> QED
    BY <2>1, <2>2
<1>6. AllCells(R) \o P = Cells(u) \o (AllCells(T) \o P)
  <2>1. Associates(Cells(u), AllCells(T), P)
    BY <1>1, <1>5, CellsAssociate
  <2> QED
    BY <1>4, <2>1 DEF Associates
<1> DEFINE d == AllCells(T) \o P
<1> HIDE DEF d
<1>7. u.type = "Garbage"
  <2>1. SUFFICES ASSUME u.type # "Garbage" PROVE FALSE
    OBVIOUS
  <2>2. Len(Cells(u)) >= 2 /\ Cells(u)[1] = Half /\ Cells(u)[2] = Half
    BY <1>3, <2>1, CommandStarts DEF HeaderSize
  <2>3. Concats(Cells(u), d)
    BY <1>5, CellsConcat DEF d
  <2>4. Len(Cells(u)) \in Nat /\ Len(d) \in Nat
    BY <1>5 DEF d
  <2>5. 1 \in 1 .. Len(Cells(u)) + Len(d) /\ 2 \in 1 .. Len(Cells(u)) + Len(d) /\ 1 <= Len(Cells(u)) /\ 2 <= Len(Cells(u))
    BY <2>2, <2>4
  <2>6. (Cells(u) \o d)[1] = Half /\ (Cells(u) \o d)[2] = Half
    BY <2>2, <2>3, <2>5 DEF Concats
  <2> QED
    BY <1>6, <2>6, MarkFirst DEF d
<1>8. Cells(u) = <<u.field>> /\ u.field \in Int /\ Command(u) = << >>
  BY <1>3, <1>7, CellsOfUnit
<1>9. Tail(<<u.field>> \o d) = d
  <2>1. d \in Seq(Int) /\ <<u.field>> \in Seq(Int) /\ Len(<<u.field>>) = 1
    BY <1>5, <1>8 DEF d
  <2>2. SubSeq(<<u.field>> \o d, Len(<<u.field>>) + 1, Len(<<u.field>> \o d)) = d
    BY <2>1, RestOf
  <2>3. Concats(<<u.field>>, d)
    BY <2>1, CellsConcat
  <2> DEFINE e == <<u.field>> \o d
  <2>4. e \in Seq(Int) /\ Len(e) = 1 + Len(d) /\ SubSeq(e, 1 + 1, Len(e)) = d
    BY <2>1, <2>2, <2>3 DEF Concats
  <2>5. Len(d) \in Nat
    BY <2>1
  <2> HIDE DEF e
  <2>6. e # << >>
    BY <2>4, <2>5
  <2>7. Tail(e) = SubSeq(e, 2, Len(e))
    BY <2>4, <2>6, TailIsSubSeq
  <2>8. SubSeq(e, 2, Len(e)) = d
    BY <2>4
  <2>9. Tail(e) = d
    BY <2>7, <2>8
  <2> QED
    BY <2>9 DEF e
<1>10. CommandsIn(R) = CommandsIn(T)
  BY <1>4, <1>5, <1>8, ConcatEmptySeq
<1>11. Tail(AllCells(R) \o P) = d
  BY <1>6, <1>8, <1>9 DEF d
<1> QED
  BY <1>2, <1>3, <1>10, <1>11 DEF SkipsOne, d, T


(* What lies from a cell on.                                                 *)
From(c, k) == SubSeq(c, k + 1, Len(c))

LEMMA FromCell ==
    ASSUME NEW c \in Seq(Int), NEW k \in 0 .. Len(c)
    PROVE  /\ From(c, k) \in Seq(Int) /\ Len(From(c, k)) = Len(c) - k
           /\ k <= Len(c) - 2 => (IsValid(c, k + 1) <=> IsValid(From(c, k), 1))
           /\ k < Len(c) => Tail(From(c, k)) = From(c, k + 1)
           /\ Drop(Flow(c), k) = Flow(From(c, k))
<1> DEFINE d == From(c, k)
<1>1. d \in Seq(Int) /\ Len(d) = Len(c) - k /\ \A i \in 1 .. Len(c) - k : d[i] = c[k + i]
  BY DEF From
<1>2. k \in Nat /\ Len(c) \in Nat /\ k <= Len(c)
  OBVIOUS
<1>3. ASSUME k <= Len(c) - 2 PROVE IsValid(c, k + 1) <=> IsValid(d, 1)
  <2> HIDE DEF d
  <2>1. d[1] = c[k + 1] /\ d[2] = c[k + 2]
    BY <1>1, <1>2, <1>3, SMTT(30)
  <2>2. (k + 1) + 1 = k + 2
    BY <1>2
  <2>3. IsValid(c, k + 1) <=> (c[k + 1] = Half /\ c[k + 2] = Half)
    BY <2>2, Zenon DEF IsValid
  <2> QED
    BY <2>1, <2>3, MarkFirst
<1>4. ASSUME k < Len(c) PROVE Tail(d) = From(c, k + 1)
  <2>1. k + 1 \in 1 .. Len(c) /\ Len(c) \in (k + 1) .. Len(c)
    BY <1>2, <1>4
  <2> QED
    BY <2>1, HeadTailOfSubSeq DEF From
<1>5. Drop(Flow(c), k) = Flow(d)
  <2>1. Length(Flow(c)) = Len(c) /\ Flow(c).cells = c
    BY FlowFields
  <2>2. Length(Flow(c)) >= k
    BY <1>2, <2>1
  <2>3. Drop(Flow(c), k) = [Flow(c) EXCEPT !.cells = From(c, k)]
    BY <2>2 DEF Drop, Flow, From
  <2> QED
    BY <2>3, FlowCells
<1> QED
  BY <1>1, <1>3, <1>4, <1>5

(* Of the numbers up to one of a set, there is a least one of the set.       *)
LEMMA LeastUpTo ==
    ASSUME NEW n \in Nat, NEW S, n \in S
    PROVE  \E i \in 0 .. n : i \in S /\ \A k \in 0 .. i - 1 : k \notin S
<1>1. SUFFICES ASSUME \A i \in 0 .. n : i \in S => \E k \in 0 .. i - 1 : k \in S PROVE FALSE
  OBVIOUS
<1> DEFINE X == {k \in 0 .. n : \A j \in 0 .. k : j \notin S}
<1>2. 0 \in X
  <2>1. 0 \in 0 .. n /\ 0 .. 0 - 1 = {}
    OBVIOUS
  <2>2. 0 \notin S
    BY <1>1, <2>1
  <2>3. \A j \in 0 .. 0 : j = 0
    OBVIOUS
  <2> QED
    BY <2>1, <2>2, <2>3
<1>3. ASSUME NEW k \in 0 .. n - 1, k \in X PROVE k + 1 \in X
  <2>1. k + 1 \in 0 .. n /\ (k + 1) - 1 = k
    OBVIOUS
  <2>2. \A j \in 0 .. k : j \notin S
    BY <1>3
  <2>3. k + 1 \notin S
    BY <1>1, <2>1, <2>2
  <2>4. \A j \in 0 .. k + 1 : j \in 0 .. k \/ j = k + 1
    OBVIOUS
  <2> QED
    BY <2>1, <2>2, <2>3, <2>4
<1> HIDE DEF X
<1>4. 0 .. n \subseteq X
  BY <1>2, <1>3, StepsUpTo
<1>5. n \in X
  BY <1>4
<1> QED
  BY <1>5 DEF X

(* The search ends in front of a command, or with less than a header left,   *)
(* and has skipped nothing but garbage.                                      *)
AtCommand(R, P, Q, s) ==
    /\ s = Flow(AllCells(R) \o P) /\ CommandsIn(R) = CommandsIn(Q)
    /\ Len(AllCells(R) \o P) < HeaderSize \/ IsValid(AllCells(R) \o P, 1)

LEMMA MarkFound ==
    ASSUME NEW Q \in Seq(Units), NEW P, Beginning(P)
    PROVE  \E R \in Seq(Units) : AtCommand(R, P, Q, AtMark(Flow(AllCells(Q) \o P)))
<1> DEFINE c == AllCells(Q) \o P
           n == Len(c)
           Stops(i) == n - i < HeaderSize \/ IsValid(c, i + 1)
           skip == CHOOSE i \in 0 .. n : Stops(i) /\ \A k \in 0 .. i - 1 : ~Stops(k)
           Rest(k, R) == From(c, k) = AllCells(R) \o P /\ CommandsIn(R) = CommandsIn(Q)
           X == {k \in 0 .. skip : \E R \in Seq(Units) : Rest(k, R)}
<1>1. c \in Seq(Int) /\ n \in Nat
  <2>1. AllCells(Q) \in Seq(Int) /\ P \in Seq(Int)
    BY AllJoined DEF Beginning
  <2>2. c \in Seq(Int)
    BY <2>1, ConcatProperties
  <2> QED
    BY <2>2
<1>2. Length(Flow(c)) = n /\ Flow(c).cells = c
  BY FlowFields
<1>3. AtMark(Flow(c)) = Drop(Flow(c), skip)
  <2> HIDE DEF c, n
  <2> QED
    BY <1>2 DEF AtMark
<1>4. skip \in 0 .. n /\ Stops(skip) /\ \A k \in 0 .. skip - 1 : ~Stops(k)
  <2> DEFINE S == {i \in 0 .. n : Stops(i)}
  <2>1. n \in S
    BY <1>1 DEF HeaderSize
  <2> HIDE DEF S
  <2>2. PICK i \in 0 .. n : i \in S /\ \A k \in 0 .. i - 1 : k \notin S
    BY <1>1, <2>1, LeastUpTo
  <2>3. \A k \in 0 .. i - 1 : k \in 0 .. n
    BY <1>1
  <2>4. Stops(i) /\ \A k \in 0 .. i - 1 : ~Stops(k)
    BY <2>2, <2>3 DEF S
  <2> HIDE DEF Stops
  <2> QED
    BY <2>4
<1> HIDE DEF skip
<1>5. 0 \in X
  <2>1. From(c, 0) = c
    <3> HIDE DEF c
    <3> QED
      BY <1>1, SubSeqFull DEF From, n
  <2>2. Rest(0, Q) /\ 0 \in 0 .. skip
    BY <1>4, <2>1
  <2> QED
    BY <2>2
<1>6. ASSUME NEW k \in 0 .. skip - 1, k \in X PROVE k + 1 \in X
  <2>1. PICK R \in Seq(Units) : Rest(k, R)
    BY <1>6
  <2>2. k \in 0 .. n /\ k + 1 \in 0 .. skip /\ ~(n - k < HeaderSize) /\ ~IsValid(c, k + 1)
    BY <1>1, <1>4
  <2>3. k <= n - 2 /\ k < n /\ n - k >= HeaderSize
    BY <1>1, <2>2 DEF HeaderSize
  <2> HIDE DEF c
  <2>4. Len(From(c, k)) = n - k /\ ~IsValid(From(c, k), 1) /\ Tail(From(c, k)) = From(c, k + 1)
    BY <1>1, <2>2, <2>3, FromCell
  <2>5. Len(AllCells(R) \o P) >= HeaderSize /\ ~IsValid(AllCells(R) \o P, 1)
    BY <2>1, <2>3, <2>4
  <2>6. SkipsOne(R, P) /\ CommandsIn(Tail(R)) = CommandsIn(R) /\ Tail(R) \in Seq(Units)
    BY <2>5, OneSkipped
  <2>7. Rest(k + 1, Tail(R))
    BY <2>1, <2>4, <2>6 DEF SkipsOne
  <2> HIDE DEF Rest
  <2> QED
    BY <2>2, <2>6, <2>7
<1>7. skip \in X
  <2> HIDE DEF X
  <2>1. skip \in Nat
    BY <1>1, <1>4
  <2>2. 0 .. skip \subseteq X
    BY <1>5, <1>6, <2>1, StepsUpTo
  <2> QED
    BY <2>1, <2>2
<1>8. PICK R \in Seq(Units) : Rest(skip, R)
  BY <1>7
<1>9. /\ Drop(Flow(c), skip) = Flow(From(c, skip)) /\ Len(From(c, skip)) = n - skip
      /\ skip <= n - 2 => (IsValid(c, skip + 1) <=> IsValid(From(c, skip), 1))
  <2> HIDE DEF c
  <2> QED
    BY <1>1, <1>4, FromCell
<1>10. Len(From(c, skip)) < HeaderSize \/ IsValid(From(c, skip), 1)
  <2>1. n - skip < HeaderSize \/ (skip <= n - 2 /\ IsValid(c, skip + 1))
    BY <1>1, <1>4 DEF HeaderSize
  <2> QED
    BY <1>9, <2>1
<1>11. AtMark(Flow(c)) = Flow(AllCells(R) \o P)
  BY <1>3, <1>8, <1>9
<1>12. Len(AllCells(R) \o P) < HeaderSize \/ IsValid(AllCells(R) \o P, 1)
  BY <1>8, <1>10
<1> QED
  BY <1>8, <1>11, <1>12 DEF AtCommand


(* A message is made of what starts with a complete command, and nothing is  *)
(* left of it; or the command is of a later version, and the program breaks. *)
Takes(R, P, r, R2) ==
    /\ ~r.breaks /\ r.stream = Flow(AllCells(R2) \o P)
    /\ CommandsIn(R) = r.msg \o CommandsIn(R2) /\ r.msg \in Seq(Units)
LaterFirst(z) == \E u \in Units, y \in Seq(Units) : u.type = "Later" /\ z = <<u>> \o y
Refuses(R, r) == r.breaks /\ r.msg = << >> /\ r.stream.good /\ LaterFirst(CommandsIn(R))

LEMMA CommandTaken ==
    ASSUME NEW R \in Seq(Units), NEW P, Beginning(P),
           Len(AllCells(R) \o P) < HeaderSize \/ IsValid(AllCells(R) \o P, 1),
           Complete(Flow(AllCells(R) \o P))
    PROVE  \/ \E R2 \in Seq(Units) : Takes(R, P, Create(Flow(AllCells(R) \o P)), R2)
           \/ Refuses(R, Create(Flow(AllCells(R) \o P)))
<1> DEFINE c == AllCells(R) \o P
<1>1. P \in Seq(Int) /\ AllCells(R) \in Seq(Int) /\ c \in Seq(Int)
  <2>1. P \in Seq(Int) /\ AllCells(R) \in Seq(Int)
    BY AllJoined DEF Beginning
  <2> QED
    BY <2>1, ConcatProperties
<1>2. Len(c) >= 3 /\ Len(c) >= c[3] + 3 /\ c[1] = Half /\ c[2] = Half
  <2>1. Length(Flow(c)) = Len(c) /\ Flow(c).cells = c
    BY FlowFields
  <2>2. Len(c) \in Nat
    BY <1>1
  <2> HIDE DEF c
  <2>3. Len(c) >= 3 /\ Len(c) >= c[3] + 3
    BY <2>1 DEF Complete, HeaderSize, c
  <2>4. ~(Len(c) < HeaderSize)
    BY <2>2, <2>3 DEF HeaderSize
  <2> QED
    BY <2>3, <2>4, MarkFirst DEF c
<1>3. R # << >>
  <2>1. SUFFICES ASSUME R = << >> PROVE FALSE
    OBVIOUS
  <2>2. c = P
    BY <1>1, <2>1, NoUnits, ConcatEmptySeq
  <2>3. P # << >>
    BY <1>2, <2>2
  <2>4. PICK u \in Units : u.type # "Garbage" /\ \E n \in 1 .. Len(Cells(u)) - 1 : P = SubSeq(Cells(u), 1, n)
    BY <2>3 DEF Beginning
  <2>5. PICK n \in 1 .. Len(Cells(u)) - 1 : P = SubSeq(Cells(u), 1, n)
    BY <2>4
  <2> DEFINE d == Cells(u)
  <2>6. d \in Seq(Int) /\ Len(d) \in Nat /\ Len(d) = d[3] + 3 /\ d[3] \in Nat
    <3>1. Cells(u) \in Seq(Int) /\ Len(Cells(u)) = 3 + Len(Body(u)) /\ Len(Body(u)) \in Nat /\ Cells(u)[3] = Len(Body(u))
      BY <2>4, CommandStarts DEF HeaderSize
    <3> QED
      BY <3>1
  <2>7. n \in 1 .. Len(d) - 1 /\ P = SubSeq(d, 1, n)
    BY <2>5
  <2> HIDE DEF d
  <2>8. Len(P) = n /\ n >= 3
    BY <1>2, <2>2, <2>6, <2>7
  <2>9. P[3] = d[3]
    BY <2>6, <2>7, <2>8
  <2>10. n >= d[3] + 3
    BY <1>2, <2>2, <2>8, <2>9
  <2> QED
    BY <2>6, <2>7, <2>10
<1> DEFINE u == Head(R)  T == Tail(R)  rest == AllCells(T) \o P
<1>4. u \in Units /\ T \in Seq(Units) /\ HeadApart(R)
  BY <1>3, FirstUnit
<1>5. AllCells(R) = Cells(u) \o AllCells(T) /\ CommandsIn(R) = Command(u) \o CommandsIn(T)
  BY <1>4 DEF HeadApart
<1> HIDE DEF u, T
<1>6. Cells(u) \in Seq(Int) /\ AllCells(T) \in Seq(Int) /\ rest \in Seq(Int) /\ CommandsIn(T) \in Seq(Units)
  <2>1. Cells(u) \in Seq(Int) /\ AllCells(T) \in Seq(Int) /\ CommandsIn(T) \in Seq(Units)
    BY <1>4, CellsOfUnit, AllJoined
  <2> QED
    BY <1>1, <2>1, ConcatProperties
<1>7. c = Cells(u) \o rest
  <2>1. Associates(Cells(u), AllCells(T), P)
    BY <1>1, <1>6, CellsAssociate
  <2> QED
    BY <1>5, <2>1 DEF Associates
<1> HIDE DEF c, rest
<1>8. u.type # "Garbage"
  <2>1. SUFFICES ASSUME u.type = "Garbage" PROVE FALSE
    OBVIOUS
  <2>2. Cells(u) = <<u.field>> /\ u.field \in Int /\ u.field # Half
    BY <1>4, <2>1, CellsOfUnit
  <2>3. Concats(<<u.field>>, rest)
    BY <1>6, <2>2, CellsConcat
  <2>4. Len(<<u.field>>) = 1 /\ <<u.field>>[1] = u.field /\ Len(rest) \in Nat
    BY <1>6
  <2>5. 1 \in 1 .. 1 + Len(rest)
    BY <2>4
  <2>6. (<<u.field>> \o rest)[1] = u.field
    BY <2>3, <2>4, <2>5 DEF Concats
  <2> QED
    BY <1>2, <1>7, <2>2, <2>6
<1>9. Made(u, rest)
  BY <1>4, <1>6, <1>8, MadeOfCommand
<1> DEFINE r == Create(Flow(c))
<1>10. IF u.type = "Later" THEN r.breaks /\ r.msg = << >> /\ r.stream.good
       ELSE ~r.breaks /\ r.msg = <<u>> /\ r.stream = Flow(rest)
  BY <1>7, <1>9 DEF Made
<1> HIDE DEF r
<1>11. CommandsIn(R) = <<u>> \o CommandsIn(T) /\ <<u>> \in Seq(Units)
  BY <1>4, <1>5, <1>8, CellsOfUnit
<1>12. CASE u.type # "Later"
  <2>1. r.stream = Flow(AllCells(T) \o P)
    BY <1>10, <1>12 DEF rest
  <2>2. ~r.breaks /\ CommandsIn(R) = r.msg \o CommandsIn(T) /\ r.msg \in Seq(Units)
    BY <1>10, <1>11, <1>12
  <2> QED
    BY <1>4, <2>1, <2>2 DEF Takes, r, c
<1>13. CASE u.type = "Later"
  <2>1. LaterFirst(CommandsIn(R))
    BY <1>4, <1>6, <1>11, <1>13 DEF LaterFirst
  <2> QED
    BY <1>10, <1>13, <2>1 DEF Refuses, r, c
<1> QED
  BY <1>12, <1>13


-----------------------------------------------------------------------------
(* What was read of a script: its first units, and the beginning of one.     *)

EndOf(Q, n) == Len(AllCells(SubSeq(Q, 1, n)))
Ended(Q, r) == {0} \cup {n \in 1 .. Len(Q) : EndOf(Q, n) <= r}
CountIn(Q, r) == Max(Ended(Q, r))
ReadOf(Q, r) == SubSeq(Q, 1, CountIn(Q, r))
PartialOf(Q, r) == SubSeq(AllCells(Q), EndOf(Q, CountIn(Q, r)) + 1, r)

(* A sequence cut in two.                                                    *)
Cut(s, a, b) == SubSeq(s, 1, b) = SubSeq(s, 1, a) \o SubSeq(s, a + 1, b)

LEMMA CutInTwo ==
    ASSUME NEW C, NEW s \in Seq(C), NEW b \in 0 .. Len(s), NEW a \in 0 .. b
    PROVE  Cut(s, a, b) /\ SubSeq(s, 1, a) \in Seq(C) /\ SubSeq(s, a + 1, b) \in Seq(C)
<1> DEFINE x == SubSeq(s, 1, a)  y == SubSeq(s, a + 1, b)  z == SubSeq(s, 1, b)
<1>1. Len(s) \in Nat /\ a \in Nat /\ b \in Nat /\ a <= b /\ b <= Len(s)
  OBVIOUS
<1>2. x \in Seq(C) /\ Len(x) = a /\ \A i \in 1 .. a : x[i] = s[i]
  BY <1>1
<1>3. y \in Seq(C) /\ Len(y) = b - a /\ \A i \in 1 .. b - a : y[i] = s[a + i]
  BY <1>1
<1>4. z \in Seq(C) /\ Len(z) = b /\ \A i \in 1 .. b : z[i] = s[i]
  BY <1>1
<1> HIDE DEF x, y, z
<1>5. /\ x \o y \in Seq(C) /\ Len(x \o y) = Len(x) + Len(y)
      /\ \A i \in 1 .. Len(x) + Len(y) : (x \o y)[i] = IF i <= Len(x) THEN x[i] ELSE y[i - Len(x)]
  BY <1>2, <1>3, ConcatProperties
<1> DEFINE w == x \o y
<1> HIDE DEF w
<1>6. w \in Seq(C) /\ Len(w) = b /\ \A i \in 1 .. b : w[i] = IF i <= a THEN x[i] ELSE y[i - a]
  <2>1. Len(x) + Len(y) = b
    BY <1>1, <1>2, <1>3
  <2> QED
    BY <1>2, <1>5, <2>1 DEF w
<1>7. \A i \in 1 .. b : z[i] = w[i]
  <2>1. ASSUME NEW i \in 1 .. b PROVE z[i] = w[i]
    <3>1. CASE i <= a
      <4>1. i \in 1 .. a
        BY <1>1, <3>1
      <4> QED
        BY <1>2, <1>4, <1>6, <3>1, <4>1
    <3>2. CASE ~(i <= a)
      <4>1. i - a \in 1 .. b - a /\ a + (i - a) = i
        BY <1>1, <3>2
      <4> QED
        BY <1>3, <1>4, <1>6, <3>2, <4>1
    <3> QED
      BY <3>1, <3>2
  <2> QED
    BY <2>1
<1>8. z = w
  BY <1>4, <1>6, <1>7, SeqEqual
<1> QED
  BY <1>2, <1>3, <1>8 DEF Cut, w, x, y, z

(* The front of two sequences.                                               *)
LEMMA FrontOf ==
    ASSUME NEW C, NEW a \in Seq(C), NEW b \in Seq(C)
    PROVE  SubSeq(a \o b, 1, Len(a)) = a
<1> DEFINE c == a \o b  d == SubSeq(c, 1, Len(a))
<1>1. /\ c \in Seq(C) /\ Len(a) \in Nat /\ Len(b) \in Nat /\ Len(c) = Len(a) + Len(b)
      /\ \A i \in 1 .. Len(a) + Len(b) : c[i] = IF i <= Len(a) THEN a[i] ELSE b[i - Len(a)]
  BY ConcatProperties
<1> HIDE DEF c
<1>2. d \in Seq(C) /\ Len(d) = Len(a) /\ \A i \in 1 .. Len(a) : d[i] = c[i]
  BY <1>1
<1>3. \A i \in 1 .. Len(a) : c[i] = a[i]
  BY <1>1
<1> HIDE DEF d
<1>4. \A i \in 1 .. Len(d) : d[i] = a[i]
  BY <1>2, <1>3
<1>5. d = a
  BY <1>2, <1>4, SeqEqual
<1> QED
  BY <1>5 DEF c, d

(* What is equal behind equal cells is equal.                                *)
LEMMA SameRest ==
    ASSUME NEW a \in Seq(Int), NEW b \in Seq(Int), NEW c \in Seq(Int), a \o b = a \o c
    PROVE  b = c
<1>1. SubSeq(a \o b, Len(a) + 1, Len(a \o b)) = b
  BY RestOf
<1>2. SubSeq(a \o c, Len(a) + 1, Len(a \o c)) = c
  BY RestOf
<1> QED
  BY <1>1, <1>2

(* The units up to one, and those from there on.                             *)
LEMMA UnitsCut ==
    ASSUME NEW Q \in Seq(Units), NEW m \in 0 .. Len(Q), NEW n \in 0 .. m
    PROVE  /\ SubSeq(Q, 1, n) \in Seq(Units) /\ SubSeq(Q, n + 1, m) \in Seq(Units)
           /\ SubSeq(Q, 1, m) = SubSeq(Q, 1, n) \o SubSeq(Q, n + 1, m)
           /\ Both(SubSeq(Q, 1, n), SubSeq(Q, n + 1, m))
           /\ EndOf(Q, m) = EndOf(Q, n) + Len(AllCells(SubSeq(Q, n + 1, m)))
           /\ EndOf(Q, n) \in Nat /\ EndOf(Q, m) \in Nat /\ EndOf(Q, n) <= EndOf(Q, m)
           /\ n < m => EndOf(Q, n) < EndOf(Q, m)
<1> DEFINE A == SubSeq(Q, 1, n)  B == SubSeq(Q, n + 1, m)
<1>1. A \in Seq(Units) /\ B \in Seq(Units) /\ SubSeq(Q, 1, m) = A \o B
  BY CutInTwo DEF Cut
<1>2. n < m => B # << >>
  <2>1. n \in Nat /\ m \in Nat /\ Len(Q) \in Nat
    OBVIOUS
  <2>2. Len(B) = m - n
    BY <2>1
  <2> HIDE DEF B
  <2> QED
    BY <2>1, <2>2
<1> HIDE DEF A, B
<1>3. Both(A, B)
  BY <1>1, UnitsConcat
<1>4. AllCells(A) \in Seq(Int) /\ AllCells(B) \in Seq(Int)
  BY <1>1, AllJoined
<1>5. AllCells(SubSeq(Q, 1, m)) = AllCells(A) \o AllCells(B)
  BY <1>1, <1>3 DEF Both
<1>6. Concats(AllCells(A), AllCells(B))
  BY <1>4, CellsConcat
<1>7. EndOf(Q, m) = Len(AllCells(A)) + Len(AllCells(B)) /\ EndOf(Q, n) = Len(AllCells(A))
  BY <1>5, <1>6 DEF Concats, EndOf, A
<1>8. Len(AllCells(A)) \in Nat /\ Len(AllCells(B)) \in Nat
  BY <1>4
<1>9. ASSUME B # << >> PROVE Len(AllCells(B)) >= 1
  <2>1. Head(B) \in Units /\ Tail(B) \in Seq(Units) /\ HeadApart(B)
    BY <1>1, <1>9, FirstUnit
  <2>2. /\ Cells(Head(B)) \in Seq(Int) /\ Len(Cells(Head(B))) \in Nat \ {0} /\ AllCells(Tail(B)) \in Seq(Int)
    BY <2>1, CellsOfUnit, AllJoined
  <2>3. Len(AllCells(Tail(B))) \in Nat
    BY <2>2
  <2>4. Concats(Cells(Head(B)), AllCells(Tail(B)))
    BY <2>2, CellsConcat
  <2>5. Len(AllCells(B)) = Len(Cells(Head(B))) + Len(AllCells(Tail(B)))
    BY <2>1, <2>4 DEF HeadApart, Concats
  <2> QED
    BY <2>2, <2>3, <2>5
<1>10. n < m => EndOf(Q, n) < EndOf(Q, m)
  BY <1>2, <1>7, <1>8, <1>9
<1>11. EndOf(Q, n) <= EndOf(Q, m) /\ EndOf(Q, n) \in Nat /\ EndOf(Q, m) \in Nat
  BY <1>7, <1>8
<1> QED
  BY <1>1, <1>3, <1>7, <1>10, <1>11 DEF A, B

(* The largest of a set of numbers up to one.                                *)
LEMMA LargestUpTo ==
    ASSUME NEW n \in Nat, NEW S, S \subseteq 0 .. n, S # {}
    PROVE  Max(S) \in S /\ \A y \in S : y <= Max(S)
<1> DEFINE Z == {n - k : k \in S}
<1>1. PICK k \in S : TRUE
  OBVIOUS
<1>2. k \in 0 .. n /\ n - k \in Nat /\ n - k \in Z
  BY <1>1
<1> DEFINE j == n - k
<1>3. j \in Nat /\ j \in Z /\ j <= n
  BY <1>2
<1> HIDE DEF Z, j
<1>4. PICK i \in 0 .. j : i \in Z /\ \A l \in 0 .. i - 1 : l \notin Z
  BY <1>3, LeastUpTo
<1>5. PICK x \in S : i = n - x
  BY <1>4 DEF Z
<1>6. \A y \in S : x >= y
  <2>1. ASSUME NEW y \in S, ~(x >= y) PROVE FALSE
    <3>1. n - y \in 0 .. i - 1
      BY <1>4, <1>5, <2>1
    <3>2. n - y \in Z
      BY DEF Z
    <3> QED
      BY <1>4, <3>1, <3>2
  <2> QED
    BY <2>1
<1>7. Max(S) \in S /\ \A y \in S : Max(S) >= y
  BY <1>6, Zenon DEF Max
<1>8. \A y \in S : y \in Int
  OBVIOUS
<1> QED
  BY <1>7, <1>8


LEMMA Counted ==
    ASSUME NEW Q \in Seq(Units), NEW r \in Nat
    PROVE  /\ CountIn(Q, r) \in 0 .. Len(Q) /\ EndOf(Q, CountIn(Q, r)) <= r
           /\ EndOf(Q, CountIn(Q, r)) \in Nat
           /\ \A n \in 0 .. Len(Q) : EndOf(Q, n) <= r => n <= CountIn(Q, r)
<1> DEFINE m == CountIn(Q, r)
<1>1. Len(Q) \in Nat /\ Ended(Q, r) \subseteq 0 .. Len(Q) /\ 0 \in Ended(Q, r)
  BY DEF Ended
<1>2. m \in Ended(Q, r) /\ \A y \in Ended(Q, r) : y <= m
  BY <1>1, LargestUpTo DEF CountIn
<1> HIDE DEF m
<1>3. EndOf(Q, 0) = 0
  <2>1. SubSeq(Q, 1, 0) = << >>
    OBVIOUS
  <2>2. Len(<< >>) = 0
    OBVIOUS
  <2> QED
    BY <2>1, <2>2, NoUnits DEF EndOf
<1>4. m \in 0 .. Len(Q)
  BY <1>1, <1>2
<1>5. EndOf(Q, m) <= r
  <2>1. m = 0 \/ EndOf(Q, m) <= r
    BY <1>2 DEF Ended
  <2> QED
    BY <1>3, <2>1
<1>6. EndOf(Q, m) \in Nat
  BY <1>4, UnitsCut
<1>7. ASSUME NEW n \in 0 .. Len(Q), EndOf(Q, n) <= r PROVE n <= m
  <2>1. n \in Ended(Q, r)
    BY <1>7 DEF Ended
  <2> QED
    BY <1>2, <2>1
<1> QED
  BY <1>4, <1>5, <1>6, <1>7 DEF m

(* What was read is its first units, and the beginning of a command.         *)
ReadApart(Q, r) == SubSeq(AllCells(Q), 1, r) = AllCells(ReadOf(Q, r)) \o PartialOf(Q, r)

LEMMA ReadSoFar ==
    ASSUME NEW Q \in Seq(Units), NEW r \in 0 .. Len(AllCells(Q))
    PROVE  ReadApart(Q, r) /\ Beginning(PartialOf(Q, r)) /\ ReadOf(Q, r) \in Seq(Units)
<1> DEFINE T == AllCells(Q)
           m == CountIn(Q, r)
           A == AllCells(SubSeq(Q, 1, m))
           e == EndOf(Q, m)
           P == SubSeq(T, e + 1, r)
<1>1. T \in Seq(Int) /\ Len(T) \in Nat /\ r \in Nat /\ r <= Len(T)
  <2>1. T \in Seq(Int)
    BY AllJoined
  <2> QED
    BY <2>1
<1>2. /\ m \in 0 .. Len(Q) /\ e <= r /\ e \in Nat
      /\ \A n \in 0 .. Len(Q) : EndOf(Q, n) <= r => n <= m
  BY <1>1, Counted
<1>3. SubSeq(Q, 1, Len(Q)) = Q /\ Len(Q) \in Nat /\ Len(Q) \in 0 .. Len(Q)
  BY SubSeqFull
<1> HIDE DEF m
<1>4. /\ SubSeq(Q, 1, m) \in Seq(Units) /\ SubSeq(Q, m + 1, Len(Q)) \in Seq(Units)
      /\ Both(SubSeq(Q, 1, m), SubSeq(Q, m + 1, Len(Q)))
      /\ SubSeq(Q, 1, Len(Q)) = SubSeq(Q, 1, m) \o SubSeq(Q, m + 1, Len(Q))
  BY <1>2, <1>3, UnitsCut, ZenonT(30)
<1> DEFINE B == AllCells(SubSeq(Q, m + 1, Len(Q)))
<1>5. A \in Seq(Int) /\ B \in Seq(Int) /\ T = A \o B /\ Len(A) = e
  <2>1. A \in Seq(Int) /\ B \in Seq(Int)
    BY <1>4, AllJoined
  <2>2. T = A \o B
    BY <1>3, <1>4 DEF Both
  <2> QED
    BY <2>1, <2>2 DEF EndOf
<1> HIDE DEF A, B, e, T, P
<1>6. SubSeq(T, 1, e) = A
  BY <1>5, FrontOf
<1>7. SubSeq(T, 1, r) = A \o P /\ P \in Seq(Int)
  <2>1. r \in 0 .. Len(T) /\ e \in 0 .. r
    BY <1>1, <1>2
  <2>2. Cut(T, e, r) /\ SubSeq(T, e + 1, r) \in Seq(Int)
    BY <1>1, <2>1, CutInTwo
  <2> QED
    BY <1>6, <2>2 DEF Cut, P
<1>8. Beginning(P)
  <2>1. CASE r = e
    <3>1. P = << >>
      BY <1>1, <1>2, <2>1 DEF P
    <3> QED
      BY <1>7, <3>1 DEF Beginning
  <2>2. CASE r # e
    <3>1. r > e /\ Len(B) >= 1
      <4>1. Concats(A, B)
        BY <1>5, CellsConcat
      <4>2. Len(T) = e + Len(B) /\ Len(B) \in Nat
        BY <1>5, <4>1 DEF Concats
      <4> QED
        BY <1>1, <1>2, <2>2, <4>2
    <3>2. m < Len(Q)
      <4>1. SUFFICES ASSUME m = Len(Q) PROVE FALSE
        <5>1. m \in 0 .. Len(Q) /\ Len(Q) \in Nat /\ m # Len(Q) => m < Len(Q)
          OBVIOUS
        <5> QED
          BY <1>2, <1>3, <5>1, ZenonT(30)
      <4>2. SubSeq(Q, m + 1, Len(Q)) = << >>
        BY <1>3, <4>1
      <4>3. B = << >>
        BY <4>2, NoUnits DEF B
      <4> QED
        BY <3>1, <4>3, SMTT(30)
    <3>3. m + 1 \in 0 .. Len(Q) /\ m \in 0 .. m + 1 /\ m + 1 \in 1 .. Len(Q) /\ ~(m + 1 <= m)
      BY <1>2, <1>3, <3>2
    <3> DEFINE u == Q[m + 1]
    <3>4. u \in Units /\ SubSeq(Q, m + 1, m + 1) = <<u>>
      <4> DEFINE k == m + 1
      <4>1. k \in 1 .. Len(Q)
        BY <3>3
      <4> HIDE DEF k
      <4>2. Q[k] \in Units /\ k \in k .. Len(Q) /\ k \in k .. k /\ k \in Int
        BY <4>1
      <4>3. SubSeq(Q, k, k) \in Seq(Units) /\ Len(SubSeq(Q, k, k)) = 1 /\ SubSeq(Q, k, k)[1] = Q[k]
        BY <4>1, <4>2
      <4>4. <<Q[k]>> \in Seq(Units) /\ Len(<<Q[k]>>) = 1 /\ <<Q[k]>>[1] = Q[k]
        BY <4>2
      <4> DEFINE s == SubSeq(Q, k, k)  t == <<Q[k]>>
      <4> HIDE DEF s, t
      <4>5. s \in Seq(Units) /\ t \in Seq(Units) /\ Len(s) = Len(t) /\ \A i \in 1 .. Len(s) : s[i] = t[i]
        BY <4>3, <4>4 DEF s, t
      <4>6. s = t
        BY <4>5, SeqEqual
      <4> QED
        BY <4>2, <4>6 DEF k, s, t
    <3> HIDE DEF u
    <3>5. EndOf(Q, m + 1) = e + Len(Cells(u)) /\ EndOf(Q, m + 1) \in Nat
      <4>1. EndOf(Q, m + 1) = EndOf(Q, m) + Len(AllCells(SubSeq(Q, m + 1, m + 1))) /\ EndOf(Q, m + 1) \in Nat
        BY <3>3, UnitsCut
      <4>2. AllCells(<<u>>) = Cells(u)
        BY <3>4, OneUnit
      <4> QED
        BY <3>4, <4>1, <4>2 DEF e
    <3>6. ~(EndOf(Q, m + 1) <= r)
      BY <1>2, <3>3
    <3>7. Cells(u) \in Seq(Int) /\ Len(Cells(u)) \in Nat
      BY <3>4, CellsOfUnit
    <3>8. r - e \in 1 .. Len(Cells(u)) - 1
      BY <1>1, <1>2, <3>1, <3>5, <3>6, <3>7
    <3>9. u.type # "Garbage"
      <4>1. u.type = "Garbage" => Cells(u) = <<u.field>>
        BY <3>4, CellsOfUnit
      <4>2. Len(<<u.field>>) = 1
        OBVIOUS
      <4>3. u.type = "Garbage" => Len(Cells(u)) = 1
        BY <4>1, <4>2
      <4> HIDE DEF u
      <4>4. Len(Cells(u)) # 1
        <5>1. 1 .. 1 - 1 = {}
          OBVIOUS
        <5> QED
          BY <3>8, <5>1, Zenon
      <4> QED
        BY <4>3, <4>4
    <3> DEFINE D == AllCells(SubSeq(Q, (m + 1) + 1, Len(Q)))
    <3>10. D \in Seq(Int) /\ T = (A \o Cells(u)) \o D
      <4>1. m + 1 \in 0 .. Len(Q) /\ Len(Q) \in 0 .. Len(Q)
        BY <3>3, <1>3
      <4>2. /\ SubSeq(Q, 1, m + 1) \in Seq(Units) /\ SubSeq(Q, (m + 1) + 1, Len(Q)) \in Seq(Units)
            /\ Both(SubSeq(Q, 1, m + 1), SubSeq(Q, (m + 1) + 1, Len(Q)))
            /\ SubSeq(Q, 1, Len(Q)) = SubSeq(Q, 1, m + 1) \o SubSeq(Q, (m + 1) + 1, Len(Q))
        BY <1>3, <4>1, UnitsCut
      <4>3. /\ Both(SubSeq(Q, 1, m), SubSeq(Q, m + 1, m + 1))
            /\ SubSeq(Q, 1, m + 1) = SubSeq(Q, 1, m) \o SubSeq(Q, m + 1, m + 1)
        BY <3>3, UnitsCut
      <4>4. AllCells(SubSeq(Q, 1, m + 1)) = A \o AllCells(<<u>>)
        BY <3>4, <4>3 DEF Both, A
      <4>5. AllCells(<<u>>) = Cells(u)
        BY <3>4, OneUnit
      <4>6. AllCells(Q) = AllCells(SubSeq(Q, 1, m + 1)) \o D
        BY <1>3, <4>2 DEF Both
      <4>7. D \in Seq(Int)
        BY <4>2, AllJoined
      <4> QED
        BY <4>4, <4>5, <4>6, <4>7 DEF T
    <3> HIDE DEF D
    <3> DEFINE c == Cells(u)  F == A \o c
    <3>11. c \in Seq(Int) /\ Len(c) \in Nat
      BY <3>7
    <3> HIDE DEF c
    <3>12. Concats(A, c)
      BY <1>5, <3>11, CellsConcat
    <3>13. F \in Seq(Int) /\ Len(F) = e + Len(c) /\ \A i \in 1 .. e + Len(c) : F[i] = IF i <= e THEN A[i] ELSE c[i - e]
      BY <1>5, <3>12 DEF Concats
    <3> HIDE DEF F
    <3>14. Concats(F, D)
      BY <3>10, <3>13, CellsConcat
    <3>15. T = F \o D /\ Len(D) \in Nat
      BY <3>10 DEF F, c
    <3>16. \A i \in 1 .. Len(c) : T[e + i] = c[i]
      <4>1. ASSUME NEW i \in 1 .. Len(c) PROVE T[e + i] = c[i]
        <5>a. i \in Nat /\ 1 <= i /\ i <= Len(c)
          BY <3>11
        <5>b. e \in Nat /\ Len(c) \in Nat /\ Len(F) = e + Len(c) /\ Len(D) \in Nat
          BY <1>2, <3>11, <3>13, <3>15
        <5>1. e + i \in 1 .. Len(F) + Len(D) /\ e + i <= Len(F) /\ e + i \in 1 .. e + Len(c) /\ ~(e + i <= e) /\ (e + i) - e = i
          BY <5>a, <5>b
        <5>2. (F \o D)[e + i] = F[e + i]
          BY <3>14, <5>1 DEF Concats
        <5>3. F[e + i] = c[i]
          BY <3>13, <5>1
        <5> QED
          BY <3>15, <5>2, <5>3
      <4> QED
        BY <4>1
    <3> DEFINE n == r - e
    <3>17. n \in 1 .. Len(c) - 1
      BY <3>8 DEF c
    <3>18. P \in Seq(Int) /\ Len(P) = n /\ \A i \in 1 .. n : P[i] = T[e + i]
      BY <1>1, <1>2, <3>1 DEF P
    <3> DEFINE p == SubSeq(c, 1, n)
    <3> HIDE DEF n
    <3>19. p \in Seq(Int) /\ Len(p) = n /\ \A i \in 1 .. n : p[i] = c[i]
      BY <3>11, <3>17
    <3> HIDE DEF p
    <3>20. \A i \in 1 .. n : P[i] = p[i]
      <4>1. \A i \in 1 .. n : i \in 1 .. Len(c)
        BY <3>11, <3>17
      <4> QED
        BY <3>16, <3>18, <3>19, <4>1
    <3>21. P = p
      BY <3>18, <3>19, <3>20, SeqEqual
    <3>22. P = SubSeq(Cells(u), 1, n) /\ n \in 1 .. Len(Cells(u)) - 1
      BY <3>17, <3>21 DEF p, c
    <3> QED
      BY <1>7, <3>4, <3>9, <3>22 DEF Beginning
  <2> QED
    BY <2>1, <2>2
<1>9. P = PartialOf(Q, r) /\ A = AllCells(ReadOf(Q, r)) /\ ReadOf(Q, r) = SubSeq(Q, 1, m)
  BY DEF PartialOf, ReadOf, P, A, T, e, m
<1> QED
  BY <1>4, <1>7, <1>8, <1>9, SMTT(30) DEF ReadApart, T


(* Reading further adds the units completed and leaves the rest of another.  *)
Adds(Q, r, rr, M) ==
    /\ ReadOf(Q, rr) = ReadOf(Q, r) \o M
    /\ PartialOf(Q, r) \o SubSeq(AllCells(Q), r + 1, rr) = AllCells(M) \o PartialOf(Q, rr)

LEMMA ReadMore ==
    ASSUME NEW Q \in Seq(Units), NEW rr \in 0 .. Len(AllCells(Q)), NEW r \in 0 .. rr
    PROVE  \E M \in Seq(Units) : Adds(Q, r, rr, M)
<1> DEFINE T == AllCells(Q)
           m == CountIn(Q, r)  mm == CountIn(Q, rr)
           M == SubSeq(Q, m + 1, mm)
           P == PartialOf(Q, r)  PP == PartialOf(Q, rr)
           D == SubSeq(T, r + 1, rr)
<1>1. T \in Seq(Int) /\ Len(T) \in Nat /\ r \in Nat /\ rr \in Nat /\ r <= rr /\ rr <= Len(T)
  <2>1. T \in Seq(Int)
    BY AllJoined
  <2> QED
    BY <2>1
<1>2. m \in 0 .. Len(Q) /\ mm \in 0 .. Len(Q) /\ m <= mm /\ Len(Q) \in Nat
  <2>1. m \in 0 .. Len(Q) /\ EndOf(Q, m) <= r /\ EndOf(Q, m) \in Nat
    BY <1>1, Counted
  <2>2. mm \in 0 .. Len(Q) /\ \A n \in 0 .. Len(Q) : EndOf(Q, n) <= rr => n <= mm
    BY <1>1, Counted
  <2>3. EndOf(Q, m) <= rr
    BY <1>1, <2>1
  <2> QED
    BY <2>1, <2>2, <2>3
<1>3. ReadApart(Q, r) /\ Beginning(P) /\ ReadOf(Q, r) \in Seq(Units)
  <2>1. r \in 0 .. Len(AllCells(Q))
    BY <1>1
  <2> QED
    BY <2>1, ReadSoFar
<1>4. ReadApart(Q, rr) /\ Beginning(PP) /\ ReadOf(Q, rr) \in Seq(Units)
  BY ReadSoFar
<1>5. M \in Seq(Units) /\ ReadOf(Q, rr) = ReadOf(Q, r) \o M /\ Both(ReadOf(Q, r), M)
  <2> HIDE DEF m, mm
  <2>1. mm \in 0 .. Len(Q) /\ m \in 0 .. mm
    BY <1>2
  <2>2. /\ M \in Seq(Units) /\ SubSeq(Q, 1, mm) = SubSeq(Q, 1, m) \o M
        /\ Both(SubSeq(Q, 1, m), M)
    BY <2>1, UnitsCut
  <2> QED
    BY <2>2 DEF ReadOf, m, mm
<1> HIDE DEF M, m, mm, P, PP, D, T
<1> DEFINE A == AllCells(ReadOf(Q, r))  B == AllCells(M)
<1>6. A \in Seq(Int) /\ B \in Seq(Int) /\ P \in Seq(Int) /\ PP \in Seq(Int) /\ D \in Seq(Int)
  <2>1. A \in Seq(Int) /\ B \in Seq(Int)
    BY <1>3, <1>5, AllJoined
  <2>2. P \in Seq(Int) /\ PP \in Seq(Int)
    BY <1>3, <1>4 DEF Beginning
  <2>3. D \in Seq(Int)
    <3>1. rr \in 0 .. Len(T) /\ r \in 0 .. rr
      BY <1>1
    <3> QED
      BY <1>1, <3>1, CutInTwo DEF D
  <2> QED
    BY <2>1, <2>2, <2>3
<1> HIDE DEF A, B
<1>7. SubSeq(T, 1, rr) = A \o (P \o D)
  <2>1. rr \in 0 .. Len(T) /\ r \in 0 .. rr
    BY <1>1
  <2>2. Cut(T, r, rr)
    BY <1>1, <2>1, CutInTwo
  <2>3. SubSeq(T, 1, rr) = (A \o P) \o D
    BY <1>3, <2>2 DEF Cut, ReadApart, A, P, D, T
  <2>4. Associates(A, P, D)
    BY <1>6, CellsAssociate
  <2> QED
    BY <2>3, <2>4 DEF Associates
<1>8. SubSeq(T, 1, rr) = A \o (B \o PP)
  <2>1. SubSeq(T, 1, rr) = AllCells(ReadOf(Q, rr)) \o PP
    BY <1>4 DEF ReadApart, PP, T
  <2>2. AllCells(ReadOf(Q, rr)) = A \o B
    BY <1>5 DEF Both, A, B
  <2>3. Associates(A, B, PP)
    BY <1>6, CellsAssociate
  <2> QED
    BY <2>1, <2>2, <2>3 DEF Associates
<1>9. P \o D = B \o PP
  <2> DEFINE x == P \o D  y == B \o PP
  <2>1. x \in Seq(Int) /\ y \in Seq(Int)
    BY <1>6, ConcatProperties
  <2>2. A \o x = A \o y
    BY <1>7, <1>8
  <2> HIDE DEF x, y
  <2>3. x = y
    BY <1>6, <2>1, <2>2, SameRest
  <2> QED
    BY <2>3 DEF x, y
<1>10. Adds(Q, r, rr, M)
  BY <1>5, <1>9 DEF Adds, P, PP, D, T, B
<1> QED
  BY <1>5, <1>10

(* Nothing is left over where nothing was read, or a unit ends.              *)
LEMMA NothingPartial ==
    ASSUME NEW Q \in Seq(Units), NEW r \in Nat, r = 0 \/ \E n \in 1 .. Len(Q) : r = EndOf(Q, n)
    PROVE  PartialOf(Q, r) = << >> /\ (r = 0 => ReadOf(Q, r) = << >>)
<1> DEFINE m == CountIn(Q, r)
<1>1. /\ m \in 0 .. Len(Q) /\ EndOf(Q, m) <= r /\ EndOf(Q, m) \in Nat
      /\ \A n \in 0 .. Len(Q) : EndOf(Q, n) <= r => n <= m
  BY Counted
<1> HIDE DEF m
<1>2. EndOf(Q, m) = r
  <2>1. CASE r = 0
    BY <1>1, <2>1
  <2>2. CASE \E n \in 1 .. Len(Q) : r = EndOf(Q, n)
    <3>1. PICK n \in 1 .. Len(Q) : r = EndOf(Q, n)
      BY <2>2
    <3>2. n \in 0 .. Len(Q) /\ EndOf(Q, n) <= r
      BY <3>1
    <3>3. n <= m
      BY <1>1, <3>2
    <3>4. n \in 0 .. m
      BY <1>1, <3>2, <3>3
    <3>5. EndOf(Q, n) <= EndOf(Q, m)
      BY <1>1, <3>4, UnitsCut
    <3> QED
      BY <1>1, <3>1, <3>5
  <2> QED
    BY <2>1, <2>2
<1>3. PartialOf(Q, r) = << >>
  <2>1. PartialOf(Q, r) = SubSeq(AllCells(Q), r + 1, r)
    BY <1>2 DEF PartialOf, m
  <2>2. r + 1 \in Int /\ r \in Int /\ r < r + 1
    OBVIOUS
  <2> QED
    BY <2>1, <2>2, SubSeqEmpty
<1>4. ASSUME r = 0 PROVE ReadOf(Q, r) = << >>
  <2>1. m = 0
    <3>1. SUFFICES ASSUME m # 0 PROVE FALSE
      OBVIOUS
    <3>2. 0 \in 0 .. m /\ 0 < m
      BY <1>1, <3>1
    <3>3. EndOf(Q, 0) < EndOf(Q, m) /\ EndOf(Q, 0) \in Nat
      BY <1>1, <3>2, UnitsCut
    <3> QED
      BY <1>1, <1>2, <1>4, <3>3
  <2>2. ReadOf(Q, r) = SubSeq(Q, 1, 0)
    BY <2>1 DEF ReadOf, m
  <2> QED
    BY <2>2
<1> QED
  BY <1>3, <1>4


-----------------------------------------------------------------------------
(* The scripts, and what was read of each.                                   *)

LEMMA ScriptFacts ==
    ASSUME NEW i \in DOMAIN Scripts
    PROVE  /\ Scripts[i] \in Seq(Units) /\ Text[i] = AllCells(Scripts[i]) /\ Text[i] \in Seq(Int)
           /\ \A r : UnitsIn(i, r) = CountIn(Scripts[i], r)
           /\ \A r : r \in ToSet(Ends[i]) => \E n \in 1 .. Len(Scripts[i]) : r = EndOf(Scripts[i], n)
<1> DEFINE Q == Scripts[i]
<1>1. Scripts \in Seq(Seq(Units)) /\ Q \in Seq(Units) /\ Len(Scripts) \in Nat /\ DOMAIN Scripts = 1 .. Len(Scripts)
  BY ServerScripts
<1>2. \A k \in 1 .. Len(Scripts) : Scripts[k] \in Seq(Units)
  BY <1>1, ElementOfSeq
<1>3. Text[i] = AllCells(Scripts[i])
  <2> DEFINE f == [k \in DOMAIN Scripts |-> AllCells(Scripts[k])]
  <2>1. \A k \in 1 .. Len(Scripts) : AllCells(Scripts[k]) \in Seq(Int)
    BY <1>2, AllJoined
  <2>2. f \in [1 .. Len(Scripts) -> Seq(Int)] /\ f[i] = AllCells(Scripts[i])
    BY <1>1, <2>1
  <2> HIDE DEF f
  <2>3. f \in Seq(Seq(Int))
    BY <1>1, <2>2, SequenceOf
  <2>4. << >> \o f = f
    BY <2>3, ConcatEmptySeq
  <2> QED
    BY <2>2, <2>4 DEF Text, f
<1>4. Ends[i] = [n \in 1 .. Len(Q) |-> EndOf(Q, n)]
  <2> DEFINE e(k) == [n \in DOMAIN Scripts[k] |-> Len(AllCells(SubSeq(Scripts[k], 1, n)))]
             f == [k \in DOMAIN Scripts |-> << >> \o e(k)]
  <2>1. ASSUME NEW k \in 1 .. Len(Scripts)
        PROVE  e(k) \in Seq(Nat) /\ << >> \o e(k) = e(k) /\ e(k) = [n \in 1 .. Len(Scripts[k]) |-> EndOf(Scripts[k], n)]
    <3> DEFINE q == Scripts[k]  g == [n \in 1 .. Len(q) |-> EndOf(q, n)]
    <3>1. q \in Seq(Units) /\ Len(q) \in Nat /\ DOMAIN q = 1 .. Len(q)
      BY <1>2
    <3> HIDE DEF q
    <3>2. \A n \in 1 .. Len(q) : EndOf(q, n) \in Nat
      <4>1. ASSUME NEW n \in 1 .. Len(q) PROVE EndOf(q, n) \in Nat
        <5>1. n \in 0 .. Len(q) /\ n \in 0 .. n
          BY <3>1
        <5> QED
          BY <3>1, <5>1, UnitsCut
      <4> QED
        BY <4>1
    <3>3. g \in [1 .. Len(q) -> Nat]
      BY <3>2
    <3>4. e(k) = g
      BY <3>1 DEF EndOf, q
    <3> HIDE DEF g, e
    <3>5. g \in Seq(Nat)
      BY <3>1, <3>3, SequenceOf
    <3>6. << >> \o g = g
      BY <3>5, ConcatEmptySeq
    <3> QED
      BY <3>4, <3>5, <3>6 DEF g, q
  <2> HIDE DEF e
  <2>2. f \in [1 .. Len(Scripts) -> Seq(Nat)] /\ f[i] = << >> \o e(i)
    BY <1>1, <2>1
  <2>3. f[i] = [n \in 1 .. Len(Q) |-> EndOf(Q, n)]
    BY <1>1, <2>1, <2>2
  <2> HIDE DEF f, Q
  <2>4. f \in Seq(Seq(Nat))
    BY <1>1, <2>2, SequenceOf
  <2>5. << >> \o f = f
    BY <2>4, ConcatEmptySeq
  <2>6. Ends = << >> \o f
    BY DEF Ends, f, e
  <2> QED
    BY <2>3, <2>5, <2>6
<1>5. \A r : {0} \cup {n \in DOMAIN Ends[i] : Ends[i][n] <= r} = Ended(Q, r)
  <2> HIDE DEF Q
  <2> QED
    BY <1>4 DEF Ended
<1>6. \A r : UnitsIn(i, r) = CountIn(Q, r)
  BY <1>5 DEF UnitsIn, CountIn
<1>7. \A r : r \in ToSet(Ends[i]) => \E n \in 1 .. Len(Q) : r = EndOf(Q, n)
  <2> HIDE DEF Q
  <2> QED
    BY <1>4 DEF ToSet
<1>8. Text[i] \in Seq(Int)
  BY <1>1, <1>3, AllJoined
<1> QED
  BY <1>1, <1>3, <1>6, <1>7, <1>8

(* What several clients' commands are, one after the other.                  *)
FirstOf(f, n) == FlattenSeq([c \in 1 .. n |-> f[c]])

LEMMA OneMore ==
    ASSUME NEW C, NEW n \in Nat, NEW f, \A c \in 1 .. n + 1 : f[c] \in Seq(C)
    PROVE  FirstOf(f, n + 1) = FirstOf(f, n) \o f[n + 1] /\ FirstOf(f, n) \in Seq(C)
<1> DEFINE a == [c \in 1 .. n |-> f[c]]
           b == [c \in 1 .. n + 1 |-> f[c]]
           x == f[n + 1]
<1>1. \A c \in 1 .. n : f[c] \in Seq(C)
  <2>1. \A c \in 1 .. n : c \in 1 .. n + 1
    OBVIOUS
  <2> QED
    BY <2>1
<1>2. a \in [1 .. n -> Seq(C)] /\ \A c \in 1 .. n : a[c] = f[c]
  BY <1>1
<1>3. b \in [1 .. n + 1 -> Seq(C)] /\ \A c \in 1 .. n + 1 : b[c] = f[c]
  OBVIOUS
<1>4. x \in Seq(C) /\ n + 1 \in Nat /\ n + 1 \in 1 .. n + 1
  OBVIOUS
<1>5. b[n + 1] = x
  BY <1>3, <1>4
<1> HIDE DEF a, b, x
<1>6. a \in Seq(Seq(C)) /\ Len(a) = n
  BY <1>2, SequenceOf
<1>7. b \in Seq(Seq(C)) /\ Len(b) = n + 1
  BY <1>3, <1>4, SequenceOf
<1>8. b = Append(a, x)
  <2> DEFINE d == Append(a, x)
  <2>1. d \in Seq(Seq(C)) /\ Len(d) = n + 1 /\ d[n + 1] = x /\ \A c \in 1 .. n : d[c] = a[c]
    BY <1>4, <1>6
  <2> HIDE DEF d
  <2>2. \A c \in 1 .. n + 1 : b[c] = d[c]
    <3>1. ASSUME NEW c \in 1 .. n + 1 PROVE b[c] = d[c]
      <4>1. CASE c \in 1 .. n
        BY <1>2, <1>3, <2>1, <4>1
      <4>2. CASE c = n + 1
        BY <1>5, <2>1, <4>2
      <4> QED
        BY <4>1, <4>2
    <3> QED
      BY <3>1
  <2> QED
    BY <1>7, <2>1, <2>2, SeqEqual DEF d
<1>9. FlattenSeq(Append(a, x)) = FlattenSeq(a) \o x /\ FlattenSeq(a) \in Seq(C)
  BY <1>4, <1>6, FlattenAppend
<1> QED
  BY <1>8, <1>9 DEF FirstOf, a, b, x

LEMMA SameFirst ==
    ASSUME NEW n, NEW f, NEW g, \A c \in 1 .. n : f[c] = g[c]
    PROVE  FirstOf(f, n) = FirstOf(g, n)
<1>1. [c \in 1 .. n |-> f[c]] = [c \in 1 .. n |-> g[c]]
  OBVIOUS
<1> QED
  BY <1>1 DEF FirstOf

LEMMA FirstOfNone == ASSUME NEW f PROVE FirstOf(f, 0) = << >>
<1>1. [c \in 1 .. 0 |-> f[c]] = << >>
  OBVIOUS
<1> QED
  BY <1>1, NothingFlat DEF FirstOf


-----------------------------------------------------------------------------
(* The inductive invariant.                                                  *)

Typed ==
    /\ script \in [1 .. Clients -> {0} \cup DOMAIN Scripts]
    /\ written \in [1 .. Clients -> Nat] /\ received \in [1 .. Clients -> Nat]
    /\ accepted \in 0 .. Clients /\ pc \in {"frame", "receive", "create", "terminated"}
    /\ pc # "frame" => accepted # 0

(* What a client wrote is of its script, and nothing is read but that; a     *)
(* client is there when it is accepted, and was not read from before.        *)
Reads == \A c \in 1 .. Clients :
             /\ received[c] <= written[c]
             /\ written[c] <= IF script[c] = 0 THEN 0 ELSE Len(Text[script[c]])
             /\ c <= accepted => script[c] # 0
             /\ c > accepted => received[c] = 0

(* What was read of a command that has not arrived completely.               *)
Partial == IF accepted = 0 THEN << >> ELSE PartialOf(Scripts[script[accepted]], received[accepted])

(* The stream holds the commands R, and the beginning of one; with those in  *)
(* R the commands applied are all those that were read.                      *)
Holds(R) == /\ stream = Flow(AllCells(R) \o Partial)
            /\ applied \in Seq(Units) /\ applied \o CommandsIn(R) = Commands

(* The program ended, and a command of a later version is the next one.      *)
Stopped == /\ stream.good /\ applied \in Seq(Units)
           /\ \E z \in Seq(Units) : LaterFirst(z) /\ applied \o z = Commands

Whole == ~Torn => IF pc = "terminated" THEN Stopped ELSE \E R \in Seq(Units) : Holds(R)

Inv == Typed /\ Reads /\ Whole

ReadCommands == [c \in 1 .. Clients |-> CommandsRead(c)]

LEMMA CommandsFirst == ASSUME accepted \in 0 .. Clients, Clients \in Nat PROVE Commands = FirstOf(ReadCommands, accepted)
<1>1. [c \in 1 .. accepted |-> CommandsRead(c)] = [c \in 1 .. accepted |-> ReadCommands[c]]
  BY DEF ReadCommands
<1> QED
  BY <1>1 DEF Commands, FirstOf

LEMMA CommandsFirstNext ==
    ASSUME accepted' \in 0 .. Clients, Clients \in Nat
    PROVE  Commands' = FirstOf(ReadCommands', accepted')
<1>1. [c \in 1 .. accepted' |-> CommandsRead(c)'] = [c \in 1 .. accepted' |-> ReadCommands'[c]]
  BY DEF ReadCommands
<1> QED
  BY <1>1 DEF Commands, FirstOf

CommandsAt(i, r) == CommandsIn(ReadOf(Scripts[i], r))

LEMMA CommandsAtRead ==
    ASSUME NEW i \in DOMAIN Scripts, NEW r
    PROVE  CommandsIn(SubSeq(Scripts[i], 1, UnitsIn(i, r))) = CommandsAt(i, r)
BY ScriptFacts DEF CommandsAt, ReadOf

LEMMA CommandsAtType ==
    ASSUME NEW i \in DOMAIN Scripts, NEW r \in 0 .. Len(Text[i])
    PROVE  CommandsAt(i, r) \in Seq(Units) /\ Beginning(PartialOf(Scripts[i], r))
<1>1. Scripts[i] \in Seq(Units) /\ r \in 0 .. Len(AllCells(Scripts[i]))
  BY ScriptFacts
<1>2. ReadOf(Scripts[i], r) \in Seq(Units) /\ Beginning(PartialOf(Scripts[i], r))
  BY <1>1, ReadSoFar
<1> QED
  BY <1>2, AllJoined DEF CommandsAt

(* What the clients that are or were accepted have had read.                 *)
LEMMA AcceptedReads ==
    ASSUME Typed, Reads, Clients \in Nat, NEW c \in 1 .. accepted
    PROVE  /\ c \in 1 .. Clients /\ script[c] \in DOMAIN Scripts
           /\ received[c] \in 0 .. Len(Text[script[c]]) /\ Len(Text[script[c]]) \in Nat
           /\ ReadCommands[c] = CommandsAt(script[c], received[c])
           /\ ReadCommands[c] \in Seq(Units)
<1>1. accepted \in 0 .. Clients /\ Clients \in Nat
  BY DEF Typed
<1>2. c \in 1 .. Clients /\ c <= accepted
  BY <1>1
<1>3. script[c] \in DOMAIN Scripts /\ written[c] \in Nat /\ received[c] \in Nat
  BY <1>2 DEF Typed, Reads
<1>z. \A i \in DOMAIN Scripts : i # 0
  BY ServerScripts
<1>4. received[c] <= written[c] /\ written[c] <= Len(Text[script[c]])
  BY <1>2, <1>3, <1>z DEF Reads
<1>5. Len(Text[script[c]]) \in Nat
  <2>1. Text[script[c]] \in Seq(Int)
    BY <1>3, ScriptFacts
  <2> QED
    BY <2>1
<1>6. received[c] \in 0 .. Len(Text[script[c]])
  BY <1>3, <1>4, <1>5
<1>7. ReadCommands[c] = CommandsAt(script[c], received[c])
  <2>1. ReadCommands[c] = CommandsRead(c)
    BY <1>2 DEF ReadCommands
  <2> QED
    BY <1>3, <2>1, CommandsAtRead DEF CommandsRead, UnitsRead
<1>8. ReadCommands[c] \in Seq(Units)
  BY <1>3, <1>6, <1>7, CommandsAtType
<1> QED
  BY <1>2, <1>3, <1>5, <1>6, <1>7, <1>8

LEMMA InitInv == Init => Inv
<1> SUFFICES ASSUME Init PROVE Inv
  OBVIOUS
<1>1. Clients \in Nat
  BY ServerConstants
<1>2. Typed
  BY <1>1 DEF Init, Typed
<1>3. Reads
  BY <1>1 DEF Init, Reads
<1>4. Whole
  <2>1. Commands = << >>
    <3>1. Commands = FirstOf(ReadCommands, 0)
      BY <1>1, <1>2, CommandsFirst DEF Init, Typed
    <3> QED
      BY <3>1, FirstOfNone
  <2>2. Partial = << >> /\ stream = Flow(<< >>) /\ applied = << >>
    BY DEF Init, Partial, Flow
  <2>3. << >> \o << >> = << >>
    <3>1. << >> \in Seq(Int)
      OBVIOUS
    <3> QED
      BY <3>1, ConcatEmptySeq
  <2>4. << >> \in Seq(Units)
    OBVIOUS
  <2>5. Holds(<< >>)
    BY <2>1, <2>2, <2>3, <2>4, NoUnits DEF Holds
  <2> QED
    BY <2>4, <2>5 DEF Whole, Init
<1> QED
  BY <1>2, <1>3, <1>4 DEF Inv

(* A step that leaves alone what was read of the accepted clients.           *)
LEMMA SameReads ==
    ASSUME Typed, Clients \in Nat, accepted' = accepted,
           \A c \in 1 .. accepted : script'[c] = script[c] /\ received'[c] = received[c]
    PROVE  Commands' = Commands /\ Partial' = Partial /\ (Torn' <=> Torn)
<1>1. accepted \in 0 .. Clients /\ accepted' \in 0 .. Clients
  BY DEF Typed
<1>2. \A c \in 1 .. accepted : ReadCommands'[c] = ReadCommands[c]
  <2>1. ASSUME NEW c \in 1 .. accepted PROVE ReadCommands'[c] = ReadCommands[c]
    <3>1. c \in 1 .. Clients
      BY <1>1
    <3>2. ReadCommands[c] = CommandsRead(c) /\ ReadCommands'[c] = CommandsRead(c)'
      BY <3>1 DEF ReadCommands
    <3> QED
      BY <3>2 DEF CommandsRead, UnitsRead
  <2> QED
    BY <2>1
<1>3. FirstOf(ReadCommands', accepted) = FirstOf(ReadCommands, accepted)
  BY <1>2, SameFirst
<1>4. Commands' = Commands
  BY <1>1, <1>3, CommandsFirst, CommandsFirstNext
<1>5. Partial' = Partial
  <2>1. accepted # 0 => accepted \in 1 .. accepted
    BY <1>1
  <2> QED
    BY <2>1 DEF Partial
<1>6. Torn' <=> Torn
  <2>1. \A c \in 1 .. accepted - 1 : c \in 1 .. accepted
    BY <1>1
  <2> QED
    BY <2>1 DEF Torn
<1> QED
  BY <1>4, <1>5, <1>6


LEMMA ConnectKeeps ==
    ASSUME Inv, Clients \in Nat, NEW c \in 1 .. Clients, Connect(c)
    PROVE  Inv'
<1>1. /\ script[c] = 0 /\ UNCHANGED <<written, accepted, received, stream, pc, applied>>
      /\ \E i \in DOMAIN Scripts : script' = [script EXCEPT ![c] = i]
  BY DEF Connect
<1>2. PICK i \in DOMAIN Scripts : script' = [script EXCEPT ![c] = i]
  BY <1>1
<1>3. Typed /\ Reads /\ Whole
  BY DEF Inv
<1>4. i # 0 /\ Len(Text[i]) \in Nat
  <2>1. i # 0
    BY ServerScripts
  <2>2. Text[i] \in Seq(Int)
    BY ScriptFacts
  <2> QED
    BY <2>1, <2>2
<1>5. script'[c] = i /\ \A k \in 1 .. Clients : k # c => script'[k] = script[k]
  BY <1>2, <1>3 DEF Typed
<1>6. \A k \in 1 .. accepted : script'[k] = script[k]
  <2>1. ASSUME NEW k \in 1 .. accepted PROVE k \in 1 .. Clients /\ k # c
    BY <1>1, <1>3, <2>1 DEF Typed, Reads
  <2> QED
    BY <1>5, <2>1
<1>7. Commands' = Commands /\ Partial' = Partial /\ (Torn' <=> Torn)
  BY <1>1, <1>3, <1>6, SameReads
<1>8. Typed'
  BY <1>1, <1>2, <1>3 DEF Typed
<1>9. Reads'
  <2>1. ASSUME NEW k \in 1 .. Clients
        PROVE  /\ received[k] <= written[k]
               /\ written[k] <= IF script'[k] = 0 THEN 0 ELSE Len(Text[script'[k]])
               /\ k <= accepted => script'[k] # 0
               /\ k > accepted => received[k] = 0
    <3>1. CASE k = c
      <4>1. written[k] \in Nat /\ written[k] <= 0
        BY <1>1, <1>3, <3>1 DEF Typed, Reads
      <4> QED
        BY <1>3, <1>4, <1>5, <3>1, <4>1 DEF Reads
    <3>2. CASE k # c
      BY <1>3, <1>5, <3>2 DEF Reads
    <3> QED
      BY <3>1, <3>2
  <2> QED
    BY <1>1, <2>1 DEF Reads
<1>10. Whole'
  BY <1>1, <1>3, <1>7 DEF Whole, Holds, Stopped
<1> QED
  BY <1>8, <1>9, <1>10 DEF Inv

LEMMA WriteKeeps ==
    ASSUME Inv, Clients \in Nat, NEW c \in 1 .. Clients, WriteCell(c)
    PROVE  Inv'
<1>1. /\ script[c] # 0 /\ written[c] < Len(Text[script[c]]) /\ written' = [written EXCEPT ![c] = @ + 1]
      /\ UNCHANGED <<script, accepted, received, stream, pc, applied>>
  BY DEF WriteCell
<1>2. Typed /\ Reads /\ Whole
  BY DEF Inv
<1>3. Commands' = Commands /\ Partial' = Partial /\ (Torn' <=> Torn)
  BY <1>1, <1>2, SameReads
<1>4. Typed'
  BY <1>1, <1>2 DEF Typed
<1>5. Reads'
  <2>1. /\ written'[c] = written[c] + 1 /\ written[c] \in Nat
        /\ \A k \in 1 .. Clients : k # c => written'[k] = written[k]
    BY <1>1, <1>2 DEF Typed
  <2>2. ASSUME NEW k \in 1 .. Clients
        PROVE  /\ received[k] <= written'[k]
               /\ written'[k] <= IF script[k] = 0 THEN 0 ELSE Len(Text[script[k]])
               /\ k <= accepted => script[k] # 0
               /\ k > accepted => received[k] = 0
    <3>1. CASE k = c
      <4>1. Len(Text[script[c]]) \in Nat /\ received[c] \in Nat /\ received[c] <= written[c]
        <5>1. Text[script[c]] \in Seq(Int)
          BY <1>1, <1>2, ScriptFacts DEF Typed
        <5> QED
          BY <1>2, <5>1 DEF Typed, Reads
      <4>2. written[c] + 1 <= Len(Text[script[c]]) /\ received[c] <= written[c] + 1
        BY <1>1, <2>1, <4>1
      <4> QED
        BY <1>1, <1>2, <2>1, <3>1, <4>2 DEF Reads
    <3>2. CASE k # c
      BY <1>2, <2>1, <3>2 DEF Reads
    <3> QED
      BY <3>1, <3>2
  <2> QED
    BY <1>1, <2>2 DEF Reads
<1>6. Whole'
  BY <1>1, <1>2, <1>3 DEF Whole, Holds, Stopped
<1> QED
  BY <1>4, <1>5, <1>6 DEF Inv

(* The next client takes the place of one whose last command was read        *)
(* completely, or a command was cut in two.                                  *)
LEMMA UpdateKeeps ==
    ASSUME Inv, Clients \in Nat, Update
    PROVE  Inv'
<1>1. /\ pc = "frame" /\ UNCHANGED <<script, written, received, stream, applied>>
      /\ accepted' = IF accepted < Clients /\ script[accepted + 1] # 0 THEN accepted + 1 ELSE accepted
      /\ pc' = IF accepted' > 0 THEN "receive" ELSE "frame"
  BY DEF Update, client
<1>2. Typed /\ Reads /\ Whole
  BY DEF Inv
<1>3. accepted \in 0 .. Clients
  BY <1>2 DEF Typed
<1>4. CASE accepted' = accepted
  <2>1. Commands' = Commands /\ Partial' = Partial /\ (Torn' <=> Torn)
    BY <1>1, <1>2, <1>4, SameReads
  <2>2. Typed'
    BY <1>1, <1>2, <1>3, <1>4 DEF Typed
  <2>3. Reads'
    BY <1>1, <1>2, <1>4 DEF Reads
  <2>4. pc' # "terminated"
    BY <1>1
  <2>5. Whole'
    BY <1>1, <1>2, <2>1, <2>4 DEF Whole, Holds
  <2> QED
    BY <2>2, <2>3, <2>5 DEF Inv
<1>5. CASE accepted' # accepted
  <2> DEFINE a == accepted + 1
  <2>1. accepted' = a /\ accepted < Clients /\ script[a] # 0
    BY <1>1, <1>5
  <2>2. a \in 1 .. Clients /\ a \in 0 .. Clients
    BY <1>3, <2>1
  <2>3. Typed'
    BY <1>1, <1>2, <1>3, <2>1, <2>2 DEF Typed
  <2>4. Reads'
    <3>1. ASSUME NEW c \in 1 .. Clients
          PROVE  (c <= a => script[c] # 0) /\ (c > a => received[c] = 0)
      <4>1. c <= a => c <= accepted \/ c = a
        BY <1>3
      <4>2. c > a => c > accepted
        BY <1>3
      <4> QED
        BY <1>2, <2>1, <4>1, <4>2 DEF Reads
    <3> QED
      BY <1>1, <1>2, <2>1, <3>1 DEF Reads
  <2>5. received[a] = 0 /\ script[a] \in DOMAIN Scripts
    BY <1>2, <1>3, <2>1, <2>2 DEF Typed, Reads
  <2> HIDE DEF a
  <2>6. Scripts[script[a]] \in Seq(Units)
    BY <2>5, ScriptFacts
  <2>7. Partial' = << >>
    <3>1. PartialOf(Scripts[script[a]], 0) = << >>
      BY <2>6, NothingPartial
    <3>2. a # 0
      BY <2>2
    <3> QED
      BY <1>1, <2>1, <2>5, <3>1, <3>2 DEF Partial
  <2>8. ASSUME ~Torn' PROVE ~Torn /\ Partial = << >>
    <3>1. \A c \in 1 .. accepted : received[c] \in {0} \cup ToSet(Ends[script[c]])
      <4>1. \A c \in 1 .. accepted : c \in 1 .. a - 1
        BY <1>3 DEF a
      <4> QED
        BY <1>1, <2>1, <2>8, <4>1 DEF Torn
    <3>2. ~Torn
      <4>1. \A c \in 1 .. accepted - 1 : c \in 1 .. accepted
        BY <1>3
      <4> QED
        BY <3>1, <4>1 DEF Torn
    <3>3. CASE accepted = 0
      BY <3>2, <3>3 DEF Partial
    <3>4. CASE accepted # 0
      <4>1. accepted \in 1 .. accepted
        BY <1>3, <3>4
      <4> DEFINE i == script[accepted]  r == received[accepted]
      <4>2. i \in DOMAIN Scripts /\ r \in 0 .. Len(Text[i]) /\ Len(Text[i]) \in Nat
        BY <1>2, <4>1, AcceptedReads
      <4>3. r \in {0} \cup ToSet(Ends[i])
        BY <3>1, <4>1
      <4> HIDE DEF i, r
      <4>4. Scripts[i] \in Seq(Units) /\ (r = 0 \/ \E n \in 1 .. Len(Scripts[i]) : r = EndOf(Scripts[i], n))
        BY <4>2, <4>3, ScriptFacts
      <4>5. r \in Nat
        BY <4>2
      <4>6. PartialOf(Scripts[i], r) = << >>
        BY <4>4, <4>5, NothingPartial
      <4> QED
        BY <3>2, <3>4, <4>6 DEF Partial, i, r
    <3> QED
      BY <3>3, <3>4
  <2>9. Commands' = Commands /\ Commands \in Seq(Units)
    <3>1. Commands = FirstOf(ReadCommands, accepted)
      BY <1>3, CommandsFirst
    <3>2. Commands' = FirstOf(ReadCommands', a)
      BY <2>1, <2>2, CommandsFirstNext
    <3>3. \A c \in 1 .. accepted : ReadCommands[c] \in Seq(Units)
      BY <1>2, AcceptedReads
    <3>4. ASSUME NEW c \in 1 .. Clients PROVE ReadCommands'[c] = ReadCommands[c]
      BY <1>1 DEF ReadCommands, CommandsRead, UnitsRead
    <3>5. ReadCommands[a] = << >>
      <4>1. ReadCommands[a] = CommandsAt(script[a], received[a])
        BY <2>2, <2>5, CommandsAtRead DEF ReadCommands, CommandsRead, UnitsRead
      <4>2. ReadOf(Scripts[script[a]], 0) = << >>
        BY <2>6, NothingPartial
      <4> QED
        BY <2>5, <4>1, <4>2, NoUnits DEF CommandsAt
    <3>6. \A c \in 1 .. accepted + 1 : c \in 1 .. accepted \/ c = a
      BY <1>3 DEF a
    <3>7. << >> \in Seq(Units)
      OBVIOUS
    <3>8. \A c \in 1 .. accepted + 1 : ReadCommands[c] \in Seq(Units)
      BY <3>3, <3>5, <3>6, <3>7
    <3>9. accepted \in Nat
      BY <1>3
    <3>10. /\ FirstOf(ReadCommands, accepted + 1) = FirstOf(ReadCommands, accepted) \o ReadCommands[accepted + 1]
           /\ FirstOf(ReadCommands, accepted) \in Seq(Units)
      BY <3>8, <3>9, OneMore
    <3>11. FirstOf(ReadCommands', a) = FirstOf(ReadCommands, a)
      <4>1. \A c \in 1 .. a : c \in 1 .. Clients
        BY <2>2
      <4>2. \A c \in 1 .. a : ReadCommands'[c] = ReadCommands[c]
        BY <3>4, <4>1
      <4> QED
        BY <4>2, SameFirst
    <3>12. FirstOf(ReadCommands, accepted) \o << >> = FirstOf(ReadCommands, accepted)
      BY <3>10, ConcatEmptySeq
    <3>13. FirstOf(ReadCommands, a) = FirstOf(ReadCommands, accepted)
      BY <3>5, <3>10, <3>12 DEF a
    <3> QED
      BY <3>1, <3>2, <3>10, <3>11, <3>13
  <2>10. pc' # "terminated"
    BY <1>1
  <2>11. Whole'
    BY <1>1, <1>2, <2>7, <2>8, <2>9, <2>10 DEF Whole, Holds
  <2> QED
    BY <2>3, <2>4, <2>11 DEF Inv
<1> QED
  BY <1>4, <1>5


(* What is read goes behind what the stream holds: it completes commands,    *)
(* and leaves the beginning of a further one.                                *)
LEMMA ReceiveKeeps ==
    ASSUME Inv, Clients \in Nat, BufferSize \in Nat \ {0}, Receive
    PROVE  Inv'
<1> DEFINE a == accepted
           i == script[a]
           r == received[a]
           n == ReceiveLength(written[a] - r)
           rr == r + n
           D == SubSeq(Text[i], r + 1, rr)
<1>1. /\ pc = "receive" /\ received' = [received EXCEPT ![a] = @ + n] /\ stream' = Extend(stream, D)
      /\ pc' \in {"receive", "create"} /\ UNCHANGED <<script, written, accepted, applied>>
  BY DEF Receive, client
<1>2. Typed /\ Reads /\ Whole
  BY DEF Inv
<1>3. a \in 1 .. Clients /\ a \in 1 .. a /\ a \in 0 .. Clients /\ a # 0
  <2>1. accepted \in 0 .. Clients /\ accepted # 0
    BY <1>1, <1>2 DEF Typed
  <2> QED
    BY <2>1
<1>4. i \in DOMAIN Scripts /\ r \in 0 .. Len(Text[i]) /\ Len(Text[i]) \in Nat
  BY <1>2, <1>3, AcceptedReads
<1>5. r \in Nat /\ rr \in Nat /\ r <= rr /\ rr <= written[a] /\ rr <= Len(Text[i])
  <2>1. written[a] \in Nat /\ r \in Nat /\ r <= written[a]
    BY <1>2, <1>3 DEF Typed, Reads
  <2>2. i # 0
    BY <1>4, ServerScripts
  <2>3. written[a] <= Len(Text[i])
    BY <1>2, <1>3, <2>2 DEF Reads
  <2> DEFINE w == written[a] - r
  <2>4. w \in Nat
    BY <2>1
  <2>5. n = IF w < BufferSize THEN w ELSE BufferSize
    BY DEF ReceiveLength
  <2> HIDE DEF n, w
  <2>6. n \in Nat /\ n <= w
    BY <2>4, <2>5
  <2> QED
    BY <1>4, <2>1, <2>3, <2>4, <2>6 DEF w
<1> HIDE DEF n
<1>6. received'[a] = rr /\ \A c \in 1 .. Clients : c # a => received'[c] = received[c]
  BY <1>1, <1>2, <1>3 DEF Typed
<1>7. Typed'
  BY <1>1, <1>2, <1>5 DEF Typed
<1>8. Reads'
  <2>1. ASSUME NEW c \in 1 .. Clients
        PROVE  received'[c] <= written[c] /\ (c > accepted => received'[c] = 0)
    <3>1. CASE c = a
      <4>1. ~(a > accepted)
        BY <1>3
      <4> QED
        BY <1>5, <1>6, <3>1, <4>1
    <3>2. CASE c # a
      BY <1>2, <1>6, <3>2 DEF Reads
    <3> QED
      BY <3>1, <3>2
  <2> QED
    BY <1>1, <1>2, <2>1 DEF Reads
<1> DEFINE Q == Scripts[i]
<1>9. Q \in Seq(Units) /\ Text[i] = AllCells(Q)
  BY <1>4, ScriptFacts
<1>10. Torn' <=> Torn
  <2>1. \A c \in 1 .. accepted - 1 : c \in 1 .. Clients /\ c # a
    BY <1>3
  <2> QED
    BY <1>1, <1>6, <2>1 DEF Torn
<1>11. Partial = PartialOf(Q, r) /\ Partial' = PartialOf(Q, rr)
  BY <1>1, <1>3, <1>6 DEF Partial
<1>12. PICK M \in Seq(Units) : Adds(Q, r, rr, M)
  <2>1. rr \in 0 .. Len(AllCells(Q)) /\ r \in 0 .. rr
    BY <1>4, <1>5, <1>9
  <2> QED
    BY <1>9, <2>1, ReadMore
<1>13. rr \in 0 .. Len(Text[i])
  BY <1>4, <1>5
<1> HIDE DEF Q, D, rr, r, i
<1>14. ReadOf(Q, r) \in Seq(Units) /\ ReadOf(Q, rr) \in Seq(Units) /\ Beginning(PartialOf(Q, r)) /\ Beginning(PartialOf(Q, rr))
  BY <1>4, <1>9, <1>13, ReadSoFar
<1>15. CommandsAt(i, rr) = CommandsAt(i, r) \o CommandsIn(M)
  <2>1. Both(ReadOf(Q, r), M)
    BY <1>12, <1>14, UnitsConcat
  <2>2. ReadOf(Q, rr) = ReadOf(Q, r) \o M
    BY <1>12 DEF Adds
  <2> QED
    BY <2>1, <2>2 DEF Both, CommandsAt, Q
<1>16. Commands' = Commands \o CommandsIn(M) /\ Commands \in Seq(Units)
  <2> DEFINE b == a - 1
  <2>1. b \in Nat /\ b + 1 = a /\ a \in 0 .. Clients
    BY <1>3
  <2>2. Commands = FirstOf(ReadCommands, a) /\ Commands' = FirstOf(ReadCommands', a)
    BY <1>1, <2>1, CommandsFirst, CommandsFirstNext
  <2>3. \A c \in 1 .. a : ReadCommands[c] \in Seq(Units)
    BY <1>2, AcceptedReads
  <2>4. ReadCommands[a] = CommandsAt(i, r)
    BY <1>2, <1>3, AcceptedReads DEF i, r
  <2>5. ReadCommands'[a] = CommandsAt(i, rr)
    <3>1. ReadCommands'[a] = CommandsIn(SubSeq(Scripts[i], 1, UnitsIn(i, rr)))
      BY <1>1, <1>3, <1>6 DEF ReadCommands, CommandsRead, UnitsRead, i
    <3> QED
      BY <1>4, <3>1, CommandsAtRead
  <2>6. \A c \in 1 .. b : ReadCommands'[c] = ReadCommands[c]
    <3>1. ASSUME NEW c \in 1 .. b PROVE ReadCommands'[c] = ReadCommands[c]
      <4>1. c \in 1 .. Clients /\ c # a
        BY <1>3, <2>1
      <4> QED
        BY <1>1, <1>6, <4>1 DEF ReadCommands, CommandsRead, UnitsRead
    <3> QED
      BY <3>1
  <2>7. CommandsAt(i, r) \in Seq(Units) /\ CommandsAt(i, rr) \in Seq(Units) /\ CommandsIn(M) \in Seq(Units)
    BY <1>4, <1>12, <1>13, CommandsAtType, AllJoined
  <2> HIDE DEF b
  <2>8. \A c \in 1 .. b + 1 : ReadCommands[c] \in Seq(Units)
    BY <2>1, <2>3
  <2>9. \A c \in 1 .. b + 1 : ReadCommands'[c] \in Seq(Units)
    <3>1. \A c \in 1 .. b + 1 : c \in 1 .. b \/ c = a
      BY <2>1
    <3> QED
      BY <2>5, <2>6, <2>7, <2>8, <3>1
  <2>10. /\ FirstOf(ReadCommands, b + 1) = FirstOf(ReadCommands, b) \o ReadCommands[b + 1]
         /\ FirstOf(ReadCommands, b) \in Seq(Units)
    BY <2>1, <2>8, OneMore
  <2>11. FirstOf(ReadCommands', b + 1) = FirstOf(ReadCommands', b) \o ReadCommands'[b + 1]
    BY <2>1, <2>9, OneMore
  <2>12. FirstOf(ReadCommands', b) = FirstOf(ReadCommands, b)
    BY <2>6, SameFirst
  <2> DEFINE x == FirstOf(ReadCommands, b)  y == CommandsAt(i, r)  z == CommandsIn(M)
  <2>13. Commands = x \o y /\ Commands' = x \o (y \o z)
    BY <1>15, <2>1, <2>2, <2>4, <2>5, <2>10, <2>11, <2>12
  <2>14. x \in Seq(Units) /\ y \in Seq(Units) /\ z \in Seq(Units)
    BY <2>7, <2>10
  <2> HIDE DEF x, y
  <2>15. (x \o y) \o z = x \o (y \o z)
    <3> HIDE DEF z
    <3> QED
      BY <2>14, ConcatAssociative, SMTT(30)
  <2>16. x \o y \in Seq(Units)
    BY <2>14, ConcatProperties
  <2> QED
    BY <2>13, <2>15, <2>16
<1>17. ASSUME NEW R \in Seq(Units), Holds(R) PROVE R \o M \in Seq(Units) /\ Holds(R \o M)'
  <2>1. /\ stream = Flow(AllCells(R) \o PartialOf(Q, r)) /\ applied \in Seq(Units)
        /\ applied \o CommandsIn(R) = Commands
    BY <1>11, <1>17 DEF Holds
  <2>2. R \o M \in Seq(Units) /\ Both(R, M)
    BY <1>12, UnitsConcat
  <2> DEFINE P == PartialOf(Q, r)  PP == PartialOf(Q, rr)  A == AllCells(R)  B == AllCells(M)
  <2>3. A \in Seq(Int) /\ B \in Seq(Int) /\ P \in Seq(Int) /\ PP \in Seq(Int) /\ D \in Seq(Int)
    <3>1. A \in Seq(Int) /\ B \in Seq(Int)
      BY <1>12, AllJoined
    <3>2. P \in Seq(Int) /\ PP \in Seq(Int)
      BY <1>14 DEF Beginning
    <3>3. D \in Seq(Int)
      <4>1. rr \in 0 .. Len(Text[i]) /\ r \in 0 .. rr /\ Text[i] \in Seq(Int)
        BY <1>4, <1>5, <1>13, ScriptFacts
      <4> QED
        BY <4>1, CutInTwo DEF D
    <3> QED
      BY <3>1, <3>2, <3>3
  <2>4. P \o D = B \o PP
    BY <1>9, <1>12 DEF Adds, D
  <2> HIDE DEF P, PP, A, B
  <2>5. (A \o P) \o D = (A \o B) \o PP
    <3>1. Associates(A, P, D) /\ Associates(A, B, PP)
      BY <2>3, CellsAssociate
    <3> QED
      BY <2>4, <3>1 DEF Associates
  <2>6. stream' = Flow((A \o P) \o D)
    <3> DEFINE c == A \o P
    <3>1. stream = Flow(c)
      BY <2>1 DEF A, P
    <3> HIDE DEF c
    <3>2. Flow(c).good /\ Flow(c).cells = c
      BY FlowFields
    <3>3. Extend(Flow(c), D) = [Flow(c) EXCEPT !.cells = c \o D]
      BY <3>2 DEF Extend
    <3>4. stream' = Flow(c \o D)
      BY <1>1, <3>1, <3>3, FlowCells
    <3> QED
      BY <3>4 DEF c
  <2>7. stream' = Flow(AllCells(R \o M) \o Partial')
    <3>1. AllCells(R \o M) = A \o B
      BY <2>2 DEF Both, A, B
    <3>2. Partial' = PP
      BY <1>11 DEF PP
    <3> QED
      BY <2>5, <2>6, <3>1, <3>2
  <2>8. applied \o CommandsIn(R \o M) = Commands'
    <3> DEFINE x == applied  y == CommandsIn(R)  z == CommandsIn(M)
    <3>1. x \in Seq(Units) /\ y \in Seq(Units) /\ z \in Seq(Units)
      BY <1>12, <2>1, AllJoined
    <3>2. CommandsIn(R \o M) = y \o z
      BY <2>2 DEF Both
    <3>3. Commands' = (x \o y) \o z
      BY <1>16, <2>1
    <3> HIDE DEF x, y, z
    <3>4. (x \o y) \o z = x \o (y \o z)
      BY <3>1, ConcatAssociative
    <3>5. x \o CommandsIn(R \o M) = Commands'
      BY <3>2, <3>3, <3>4
    <3> QED
      BY <3>5 DEF x
  <2> QED
    BY <1>1, <2>1, <2>2, <2>7, <2>8 DEF Holds
<1>18. pc' # "terminated"
  BY <1>1
<1>19. Whole'
  <2>1. SUFFICES ASSUME ~Torn' PROVE \E R \in Seq(Units) : Holds(R)'
    BY <1>18 DEF Whole
  <2>2. PICK R \in Seq(Units) : Holds(R)
    BY <1>1, <1>2, <1>10, <2>1 DEF Whole
  <2>3. R \o M \in Seq(Units) /\ Holds(R \o M)'
    BY <1>17, <2>2
  <2> QED
    BY <2>3
<1> QED
  BY <1>7, <1>8, <1>19 DEF Inv

(* A message is taken from the front of the stream, or it waits.             *)
LEMMA ApplyKeeps ==
    ASSUME Inv, Clients \in Nat, Apply
    PROVE  Inv'
<1> DEFINE s == AtMark(stream)
           r == Create(s)
<1>1. /\ pc = "create" /\ UNCHANGED <<script, written, accepted, received>>
      /\ \/ ~Complete(s) /\ stream' = s /\ pc' = "frame" /\ UNCHANGED applied
         \/ /\ Complete(s) /\ stream' = r.stream /\ applied' = applied \o r.msg
            /\ pc' = IF r.breaks THEN "terminated" ELSE IF r.msg = << >> THEN "frame" ELSE "create"
  BY DEF Apply, client
<1> HIDE DEF s, r
<1>2. Typed /\ Reads /\ Whole
  BY DEF Inv
<1>3. Commands' = Commands /\ Partial' = Partial /\ (Torn' <=> Torn)
  BY <1>1, <1>2, SameReads
<1>4. pc' \in {"frame", "create", "terminated"} /\ accepted # 0
  BY <1>1, <1>2 DEF Typed
<1>5. Typed'
  BY <1>1, <1>2, <1>4 DEF Typed
<1>6. Reads'
  BY <1>1, <1>2 DEF Reads
<1>7. ASSUME ~Torn PROVE IF pc' = "terminated" THEN Stopped' ELSE \E R \in Seq(Units) : Holds(R)'
  <2>1. PICK R0 \in Seq(Units) : Holds(R0)
    BY <1>1, <1>2, <1>7 DEF Whole
  <2>2. Beginning(Partial)
    <3>1. accepted \in 1 .. accepted
      BY <1>2, <1>4 DEF Typed
    <3>2. script[accepted] \in DOMAIN Scripts /\ received[accepted] \in 0 .. Len(Text[script[accepted]])
      BY <1>2, <3>1, AcceptedReads
    <3>3. Beginning(PartialOf(Scripts[script[accepted]], received[accepted]))
      BY <3>2, CommandsAtType
    <3> QED
      BY <1>4, <3>3 DEF Partial
  <2>3. PICK R \in Seq(Units) : AtCommand(R, Partial, R0, AtMark(Flow(AllCells(R0) \o Partial)))
    BY <2>2, MarkFound
  <2>4. AtCommand(R, Partial, R0, s)
    BY <2>1, <2>3 DEF Holds, s
  <2>5. /\ s = Flow(AllCells(R) \o Partial) /\ CommandsIn(R) = CommandsIn(R0)
        /\ Len(AllCells(R) \o Partial) < HeaderSize \/ IsValid(AllCells(R) \o Partial, 1)
    BY <2>4 DEF AtCommand
  <2>6. applied \in Seq(Units) /\ applied \o CommandsIn(R) = Commands
    BY <2>1, <2>5 DEF Holds
  <2>7. CASE ~Complete(s) /\ stream' = s /\ pc' = "frame" /\ UNCHANGED applied
    <3>1. Holds(R)'
      BY <1>3, <2>5, <2>6, <2>7 DEF Holds
    <3> QED
      BY <2>7, <3>1
  <2>8. CASE /\ Complete(s) /\ stream' = r.stream /\ applied' = applied \o r.msg
             /\ pc' = IF r.breaks THEN "terminated" ELSE IF r.msg = << >> THEN "frame" ELSE "create"
    <3>1. (\E R2 \in Seq(Units) : Takes(R, Partial, r, R2)) \/ Refuses(R, r)
      BY <2>2, <2>5, <2>8, CommandTaken DEF r
    <3>2. CASE Refuses(R, r)
      <4>1. r.breaks /\ r.msg = << >> /\ r.stream.good /\ LaterFirst(CommandsIn(R))
        BY <3>2 DEF Refuses
      <4>2. applied' = applied /\ CommandsIn(R) \in Seq(Units)
        BY <2>6, <2>8, <4>1, ConcatEmptySeq, AllJoined
      <4>3. Stopped'
        BY <1>3, <2>6, <2>8, <4>1, <4>2 DEF Stopped
      <4> QED
        BY <2>8, <4>1, <4>3
    <3>3. CASE \E R2 \in Seq(Units) : Takes(R, Partial, r, R2)
      <4>1. PICK R2 \in Seq(Units) : Takes(R, Partial, r, R2)
        BY <3>3
      <4>2. /\ ~r.breaks /\ r.stream = Flow(AllCells(R2) \o Partial)
            /\ CommandsIn(R) = r.msg \o CommandsIn(R2) /\ r.msg \in Seq(Units)
        BY <4>1 DEF Takes
      <4>3. applied' \in Seq(Units) /\ applied' \o CommandsIn(R2) = Commands
        <5> DEFINE x == applied  y == r.msg  z == CommandsIn(R2)
        <5>1. x \in Seq(Units) /\ y \in Seq(Units) /\ z \in Seq(Units)
          BY <2>6, <4>2, AllJoined
        <5>2. x \o (y \o z) = Commands /\ applied' = x \o y
          BY <2>6, <2>8, <4>2
        <5> HIDE DEF x, y, z
        <5>3. (x \o y) \o z = x \o (y \o z) /\ x \o y \in Seq(Units)
          BY <5>1, ConcatAssociative, ConcatProperties, SMTT(30)
        <5>4. applied' \in Seq(Units) /\ applied' \o z = Commands
          BY <5>2, <5>3
        <5> QED
          BY <5>4 DEF z
      <4>4. Holds(R2)'
        BY <1>3, <2>8, <4>2, <4>3 DEF Holds
      <4>5. pc' # "terminated"
        BY <2>8, <4>2
      <4> QED
        BY <4>4, <4>5
    <3> QED
      BY <3>1, <3>2, <3>3
  <2> QED
    BY <1>1, <2>7, <2>8
<1>8. Whole'
  BY <1>3, <1>7 DEF Whole
<1> QED
  BY <1>5, <1>6, <1>8 DEF Inv

(* A step that changes nothing.                                              *)
LEMMA NothingKeeps ==
    ASSUME Inv, UNCHANGED vars
    PROVE  Inv'
<1>1. UNCHANGED <<script, written, accepted, received, stream, pc, applied>>
  BY DEF vars
<1>2. Commands' = Commands /\ Partial' = Partial /\ (Torn' <=> Torn)
  BY <1>1 DEF Commands, CommandsRead, UnitsRead, Partial, Torn
<1>3. Typed' /\ Reads'
  BY <1>1 DEF Inv, Typed, Reads
<1>4. Whole'
  BY <1>1, <1>2 DEF Inv, Whole, Holds, Stopped
<1> QED
  BY <1>3, <1>4 DEF Inv

LEMMA NextKeeps == Inv /\ [Next]_vars => Inv'
<1> SUFFICES ASSUME Inv, [Next]_vars PROVE Inv'
  OBVIOUS
<1>1. Clients \in Nat /\ BufferSize \in Nat \ {0}
  BY ServerConstants
<1>2. CASE UNCHANGED vars
  BY <1>2, NothingKeeps
<1>3. ASSUME NEW c \in 1 .. Clients, Connect(c) PROVE Inv'
  BY <1>1, <1>3, ConnectKeeps
<1>4. ASSUME NEW c \in 1 .. Clients, WriteCell(c) PROVE Inv'
  BY <1>1, <1>4, WriteKeeps
<1>5. CASE Update
  BY <1>1, <1>5, UpdateKeeps
<1>6. CASE Receive
  BY <1>1, <1>6, ReceiveKeeps
<1>7. CASE Apply
  BY <1>1, <1>7, ApplyKeeps
<1> QED
  BY <1>2, <1>3, <1>4, <1>5, <1>6, <1>7 DEF Next

LEMMA AlwaysInv == Spec => []Inv
<1>1. Init => Inv
  BY InitInv
<1>2. Inv /\ [Next]_vars => Inv'
  BY NextKeeps
<1> QED
  BY <1>1, <1>2, PTL DEF Spec

-----------------------------------------------------------------------------
(* The theorems.                                                             *)

(* In either case the commands applied are followed by some to make up those *)
(* that were read.                                                           *)
LEMMA AppliedFirst ==
    ASSUME Inv, ~Torn
    PROVE  /\ stream.good /\ applied \in Seq(Units)
           /\ \E z \in Seq(Units) : /\ Commands = applied \o z
                                    /\ pc = "terminated" => LaterFirst(z)
<1>1. CASE pc = "terminated"
  BY <1>1 DEF Inv, Whole, Stopped
<1>2. CASE pc # "terminated"
  <2>1. PICK R \in Seq(Units) : Holds(R)
    BY <1>2 DEF Inv, Whole
  <2>2. CommandsIn(R) \in Seq(Units) /\ stream.good
    BY <2>1, AllJoined, FlowFields DEF Holds
  <2> QED
    BY <1>2, <2>1, <2>2 DEF Holds
<1> QED
  BY <1>1, <1>2

(* As long as no command was cut in two by a client that left, the commands  *)
(* applied are those sent and read completely, field by field and password   *)
(* included, in the order they were sent, none twice and none left out       *)
(* before another, not one of a later version either; and nothing is read    *)
(* that nobody wrote.                                                        *)
THEOREM CommandsAlwaysInOrder == Spec => []InOrder
<1>1. Inv => InOrder
  <2> SUFFICES ASSUME Inv PROVE InOrder
    OBVIOUS
  <2>1. \A c \in 1 .. Clients : received[c] <= written[c]
    BY DEF Inv, Reads
  <2>2. ASSUME ~Torn PROVE applied = SubSeq(Commands, 1, Len(applied))
    <3>1. PICK z \in Seq(Units) : Commands = applied \o z
      BY <2>2, AppliedFirst
    <3>2. applied \in Seq(Units)
      BY <2>2, AppliedFirst
    <3>3. SubSeq(applied \o z, 1, Len(applied)) = applied
      BY <3>2, FrontOf
    <3> QED
      BY <3>1, <3>3
  <2> QED
    BY <2>1, <2>2 DEF InOrder
<1> QED
  BY <1>1, AlwaysInv, PTL

(* As long as no command was cut in two by a client that left, the stream    *)
(* does not fail, and the program is brought down by nothing but a command   *)
(* of a later version, when every command before it has been applied.        *)
THEOREM BreaksOnlyAtLaterCommand == Spec => []BreaksOnlyAtLater
<1>1. Inv => BreaksOnlyAtLater
  <2> SUFFICES ASSUME Inv, ~Torn PROVE Good /\ (pc = "terminated" => NextIsLater)
    BY DEF BreaksOnlyAtLater
  <2>1. ASSUME pc = "terminated" PROVE NextIsLater
    <3>1. PICK z \in Seq(Units) : Commands = applied \o z /\ LaterFirst(z)
      BY <2>1, AppliedFirst
    <3>2. PICK u \in Units, y \in Seq(Units) : u.type = "Later" /\ z = <<u>> \o y
      BY <3>1 DEF LaterFirst
    <3>3. Len(z) \in Nat \ {0} /\ z[1] = u
      BY <3>2
    <3>4. applied \in Seq(Units)
      BY AppliedFirst
    <3> DEFINE c == applied \o z
    <3>5. Len(c) = Len(applied) + Len(z) /\ c[Len(applied) + 1] = z[1] /\ Len(applied) \in Nat
      BY <3>3, <3>4
    <3> HIDE DEF c
    <3>6. Commands = c
      BY <3>1 DEF c
    <3>7. Len(applied) < Len(c) /\ c[Len(applied) + 1].type = "Later"
      BY <3>2, <3>3, <3>5
    <3> QED
      BY <3>6, <3>7 DEF NextIsLater
  <2>2. Good
    BY AppliedFirst DEF Good
  <2> QED
    BY <2>1, <2>2
<1> QED
  BY <1>1, AlwaysInv, PTL
=============================================================================
