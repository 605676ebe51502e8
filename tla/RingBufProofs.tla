----------------------------- MODULE RingBufProofs -----------------------------
(***************************************************************************)
(* For buffers of every size: the indices of a ring buffer stay inside it, *)
(* and the calls of ringbuf.c have the effect and the result of the        *)
(* operations on bounded streams of bytes.                                 *)
(***************************************************************************)
EXTENDS RingBuf, SequenceTheorems, TLAPS

\* The indices and the counts of one buffer.
LEMMA RemainBounds ==
  ASSUME RingInv, NEW b \in Buf
  PROVE  /\ RingSize[b] \in Nat /\ RingSize[b] > 0
         /\ start[b] \in Nat /\ end[b] \in Nat /\ start[b] < RingSize[b] /\ end[b] < RingSize[b]
         /\ ringbuf_remain(b) \in Nat /\ ringbuf_remain(b) <= RingSize[b]
         /\ ringbuf_space(b) \in Nat /\ ringbuf_space(b) = RingSize[b] - ringbuf_remain(b)
         /\ end[b] = Wrap(b, start[b], ringbuf_remain(b))
         /\ ringbuf_remain(b) = 0 <=> empty[b]
<1>1. /\ RingSize[b] \in Nat /\ RingSize[b] > 0
      /\ start[b] \in Nat /\ end[b] \in Nat /\ start[b] < RingSize[b] /\ end[b] < RingSize[b]
      /\ empty[b] \in BOOLEAN /\ (empty[b] => start[b] = end[b])
  BY RingAssumption DEF RingInv
<1>2. CASE empty[b]
  <2>1. ringbuf_remain(b) = 0
    BY <1>1, <1>2 DEF ringbuf_remain
  <2> QED
    BY <1>1, <1>2, <2>1 DEF ringbuf_space, Wrap
<1>3. CASE ~empty[b]
  <2>1. ringbuf_remain(b) = IF end[b] <= start[b] THEN end[b] + RingSize[b] - start[b] ELSE end[b] - start[b]
    BY <1>1, <1>3 DEF ringbuf_remain
  <2> QED
    BY <1>1, <1>3, <2>1 DEF ringbuf_space, Wrap
<1> QED
  BY <1>1, <1>2, <1>3

\* A copy into the free space keeps the invariant.
LEMMA PutInv ==
  ASSUME RingInv, NEW b \in Buf, NEW n \in Nat, NEW bytes,
         n <= ringbuf_space(b), \A i \in 1 .. n : bytes[i] \in Byte, Put(b, bytes, n)
  PROVE  RingInv'
<1>1. /\ RingSize[b] \in Nat /\ RingSize[b] > 0
      /\ start[b] \in Nat /\ end[b] \in Nat /\ start[b] < RingSize[b] /\ end[b] < RingSize[b]
      /\ ringbuf_space(b) \in Nat /\ ringbuf_space(b) <= RingSize[b]
  BY RemainBounds
<1> DEFINE stop == IF n >= RingSize[b] - end[b] THEN n - (RingSize[b] - end[b]) ELSE end[b] + n
           d == [i \in 0 .. RingSize[b] - 1 |->
                   IF i >= end[b] /\ i < end[b] + n THEN bytes[i - end[b] + 1]
                   ELSE IF n >= RingSize[b] - end[b] /\ i < n - (RingSize[b] - end[b])
                        THEN bytes[RingSize[b] - end[b] + i + 1] ELSE data[b][i]]
<1>2. /\ start' = start /\ end' = [end EXCEPT ![b] = stop]
      /\ empty' = [empty EXCEPT ![b] = start[b] = stop /\ empty[b] /\ n = 0]
      /\ data' = [data EXCEPT ![b] = d]
  BY DEF Put
<1>3. stop \in Nat /\ stop < RingSize[b]
  BY <1>1
<1>4. d \in [0 .. RingSize[b] - 1 -> Byte]
  <2>1. ASSUME NEW i \in 0 .. RingSize[b] - 1 PROVE d[i] \in Byte
    <3>1. CASE i >= end[b] /\ i < end[b] + n
      BY <3>1, <1>1
    <3>2. CASE i < end[b] /\ n >= RingSize[b] - end[b] /\ i < n - (RingSize[b] - end[b])
      BY <3>2, <1>1
    <3>3. CASE ~(i >= end[b] /\ i < end[b] + n) /\ ~(n >= RingSize[b] - end[b] /\ i < n - (RingSize[b] - end[b]))
      BY <3>3, <1>1 DEF RingInv
    <3> QED
      BY <3>1, <3>2, <3>3, <1>1
  <2> QED
    BY <2>1
<1> HIDE DEF stop, d
<1>5. /\ start' \in [Buf -> Nat] /\ end' \in [Buf -> Nat] /\ data' = [c \in Buf |-> data'[c]]
  BY <1>2, <1>3 DEF RingInv
<1>6. empty' \in [Buf -> BOOLEAN]
  BY <1>2, Zenon DEF RingInv
<1>7. ASSUME NEW c \in Buf
      PROVE  /\ start'[c] < RingSize[c] /\ end'[c] < RingSize[c]
             /\ empty'[c] => start'[c] = end'[c]
             /\ data'[c] \in [0 .. RingSize[c] - 1 -> Byte]
  BY <1>2, <1>3, <1>4 DEF RingInv
<1> QED
  BY <1>5, <1>6, <1>7 DEF RingInv

\* The remainder that ringbuf_peek takes is the wrap of an index.
LEMMA ModWrap ==
  ASSUME NEW s \in Nat, s > 0, NEW k \in Nat, k < 2 * s
  PROVE  k % s = IF k < s THEN k ELSE k - s
<1> DEFINE q == k \div s
           r == k % s
<1>1. k = s * q + r /\ r \in 0 .. s - 1 /\ q \in Int
  OBVIOUS
<1>2. q < 2
  BY <1>1
<1>3. q > -1
  BY <1>1
<1>4. q = 0 \/ q = 1
  BY <1>1, <1>2, <1>3
<1> HIDE DEF q, r
<1>5. r = IF k < s THEN k ELSE k - s
  BY <1>1, <1>4
<1> QED
  BY <1>5 DEF r

-----------------------------------------------------------------------------
(* Facts about an array of Z bytes that is walked around.                    *)

Around(Z, i, k) == IF i + k < Z THEN i + k ELSE i + k - Z
Walk(Z, D, i, n) == [j \in 1 .. n |-> D[Around(Z, i, j - 1)]]
IsWalk(Z, D, i, n, s) ==
  /\ \A j \in 1 .. n : Around(Z, i, j - 1) \in 0 .. Z - 1
  /\ s \in Seq(Byte) /\ Len(s) = n
  /\ \A j \in 1 .. n : s[j] = D[Around(Z, i, j - 1)]

\* A walk visits indices of the array only and yields a sequence of bytes.
LEMMA WalkType ==
  ASSUME NEW Z \in Nat, NEW D \in [0 .. Z - 1 -> Byte], NEW i \in Nat, i < Z, NEW n \in Nat, n <= Z
  PROVE  IsWalk(Z, D, i, n, Walk(Z, D, i, n))
<1>1. ASSUME NEW j \in 1 .. n PROVE Around(Z, i, j - 1) \in 0 .. Z - 1
  BY DEF Around
<1>2. ASSUME NEW j \in 1 .. n PROVE D[Around(Z, i, j - 1)] \in Byte
  BY <1>1
<1> QED
  BY <1>1, <1>2 DEF Walk, IsWalk

\* The two copies of a read that reaches the end of the array are one walk.
LEMMA WalkTwice ==
  ASSUME NEW Z \in Nat, NEW D \in [0 .. Z - 1 -> Byte], NEW i \in Nat, i < Z, NEW n \in Nat, n <= Z,
         n >= Z - i
  PROVE  [j \in 1 .. Z - i |-> D[i + j - 1]] \o [j \in 1 .. n - (Z - i) |-> D[j - 1]] = Walk(Z, D, i, n)
<1> DEFINE f == Z - i
           s == [j \in 1 .. f |-> D[i + j - 1]]
           t == [j \in 1 .. n - f |-> D[j - 1]]
<1>1. f \in Nat /\ n - f \in Nat
  OBVIOUS
<1>2. ASSUME NEW j \in 1 .. f PROVE D[i + j - 1] \in Byte
  OBVIOUS
<1>3. ASSUME NEW j \in 1 .. n - f PROVE D[j - 1] \in Byte
  OBVIOUS
<1>4. s \in Seq(Byte) /\ Len(s) = f
  BY <1>1, <1>2
<1>5. t \in Seq(Byte) /\ Len(t) = n - f
  BY <1>1, <1>3
<1>6. s \o t \in Seq(Byte) /\ Len(s \o t) = n
  BY <1>1, <1>4, <1>5
<1>7. ASSUME NEW j \in 1 .. n PROVE (s \o t)[j] = D[Around(Z, i, j - 1)]
  <2>1. CASE j <= f
    BY <2>1, <1>1, <1>4, <1>5 DEF Around
  <2>2. CASE j > f
    BY <2>2, <1>1, <1>4, <1>5 DEF Around
  <2> QED
    BY <2>1, <2>2
<1>8. s \o t = [j \in 1 .. n |-> (s \o t)[j]]
  BY <1>6
<1> QED
  BY <1>7, <1>8 DEF Walk

\* F is D after n bytes of x were written from index w on.
Written(Z, D, F, w, x, n) ==
  \A k \in 0 .. Z - 1 :
    F[k] = IF k >= w /\ k < w + n THEN x[k - w + 1]
           ELSE IF n >= Z - w /\ k < n - (Z - w) THEN x[(Z - w) + k + 1] ELSE D[k]

\* Only the bytes behind a walk of length r changed, and the walk on is x.
Behind(Z, D, F, i, r, x, n) ==
  /\ \A j \in 1 .. r : F[Around(Z, i, j - 1)] = D[Around(Z, i, j - 1)]
  /\ \A j \in 1 .. n : F[Around(Z, i, (r + j) - 1)] = x[j]

\* Walks as extensions and as parts of others.
Appended(Z, D, F, i, r, x, n) == Walk(Z, F, i, r + n) = Walk(Z, D, i, r) \o SubSeq(x, 1, n)
PartOf(Z, D, i, r, o, n, k) == SubSeq(Walk(Z, D, i, r), o + 1, o + n) = Walk(Z, D, k, n)

\* A sequence is the concatenation of two others.
LEMMA IsConcat ==
  ASSUME NEW s \in Seq(Byte), NEW t \in Seq(Byte), NEW g \in Seq(Byte), Len(g) = Len(s) + Len(t),
         \A j \in 1 .. Len(s) : g[j] = s[j], \A j \in 1 .. Len(t) : g[Len(s) + j] = t[j]
  PROVE  g = s \o t
<1> DEFINE c == s \o t
<1>1. /\ c \in Seq(Byte) /\ Len(c) = Len(s) + Len(t)
      /\ \A j \in 1 .. Len(s) + Len(t) : c[j] = IF j <= Len(s) THEN s[j] ELSE t[j - Len(s)]
  BY ConcatProperties, Zenon
<1> HIDE DEF c
<1>2. Len(s) \in Nat /\ Len(t) \in Nat
  OBVIOUS
<1>3. ASSUME NEW j \in 1 .. Len(s) + Len(t) PROVE g[j] = c[j]
  <2>1. CASE j <= Len(s)
    BY <2>1, <1>1, <1>2
  <2>2. CASE j > Len(s)
    <3>1. j - Len(s) \in 1 .. Len(t) /\ Len(s) + (j - Len(s)) = j
      BY <2>2, <1>2
    <3>2. g[j] = t[j - Len(s)]
      BY <3>1
    <3> QED
      BY <2>2, <3>2, <1>1, <1>2
  <2> QED
    BY <2>1, <2>2, <1>2
<1>4. g = c
  BY <1>1, <1>3, SeqEqual, Zenon
<1> QED
  BY <1>4 DEF c

\* A write behind a walk of length r leaves the walk alone and is the walk on.
LEMMA WriteBehind ==
  ASSUME NEW Z \in Nat, NEW i \in Nat, i < Z, NEW r \in Nat, NEW n \in Nat, r + n <= Z,
         NEW D, NEW F, NEW x, Written(Z, D, F, Around(Z, i, r), x, n), Around(Z, i, r) < Z
  PROVE  Behind(Z, D, F, i, r, x, n)
<1> DEFINE w == Around(Z, i, r)
<1>1. w \in Nat /\ w < Z
  BY DEF Around
<1>2. ASSUME NEW j \in 1 .. r PROVE F[Around(Z, i, j - 1)] = D[Around(Z, i, j - 1)]
  <2> DEFINE k == Around(Z, i, j - 1)
  <2>1. k \in 0 .. Z - 1 /\ ~(k >= w /\ k < w + n) /\ ~(n >= Z - w /\ k < n - (Z - w))
    BY <1>1 DEF Around
  <2> HIDE DEF k, w
  <2>2. F[k] = D[k]
    BY <2>1 DEF Written, w
  <2> QED
    BY <2>2 DEF k
<1>3. ASSUME NEW j \in 1 .. n PROVE F[Around(Z, i, (r + j) - 1)] = x[j]
  <2> DEFINE k == Around(Z, i, (r + j) - 1)
  <2>1. CASE k >= w
    <3>1. k \in 0 .. Z - 1 /\ k < w + n /\ k - w + 1 = j
      BY <2>1, <1>1 DEF Around
    <3> HIDE DEF k, w
    <3>2. F[k] = x[k - w + 1]
      BY <2>1, <3>1 DEF Written, w
    <3> QED
      BY <3>1, <3>2 DEF k
  <2>2. CASE k < w
    <3>1. k \in 0 .. Z - 1 /\ n >= Z - w /\ k < n - (Z - w) /\ (Z - w) + k + 1 = j
      BY <2>2, <1>1 DEF Around
    <3> HIDE DEF k, w
    <3>2. F[k] = x[(Z - w) + k + 1]
      BY <2>2, <3>1, <1>1 DEF Written, w
    <3> QED
      BY <3>1, <3>2 DEF k
  <2> QED
    BY <2>1, <2>2, <1>1 DEF Around
<1> QED
  BY <1>2, <1>3 DEF Behind

\* Bytes written behind a walk prolong it.
LEMMA WalkAppend ==
  ASSUME NEW Z \in Nat, NEW D \in [0 .. Z - 1 -> Byte], NEW F \in [0 .. Z - 1 -> Byte],
         NEW i \in Nat, i < Z, NEW r \in Nat, NEW n \in Nat, r + n <= Z, NEW x \in Seq(Byte), n <= Len(x),
         Behind(Z, D, F, i, r, x, n)
  PROVE  Appended(Z, D, F, i, r, x, n)
<1> DEFINE s == Walk(Z, D, i, r)
           t == SubSeq(x, 1, n)
           g == Walk(Z, F, i, r + n)
<1>1. r <= Z /\ r + n \in Nat
  OBVIOUS
<1>2. IsWalk(Z, D, i, r, s)
  BY <1>1, WalkType, Zenon
<1>3. t \in Seq(Byte) /\ Len(t) = n /\ \A j \in 1 .. n : t[j] = x[j]
  OBVIOUS
<1>4. IsWalk(Z, F, i, r + n, g)
  BY <1>1, WalkType, Zenon
<1> HIDE DEF s, t, g
<1>5. ASSUME NEW j \in 1 .. Len(s) PROVE g[j] = s[j]
  <2>1. j \in 1 .. r /\ j \in 1 .. r + n
    BY <1>2 DEF IsWalk
  <2> QED
    BY <2>1, <1>2, <1>4, Zenon DEF IsWalk, Behind
<1>6. ASSUME NEW j \in 1 .. Len(t) PROVE g[Len(s) + j] = t[j]
  <2>1. r + j \in 1 .. r + n /\ j \in 1 .. n /\ Len(s) = r
    BY <1>2, <1>3 DEF IsWalk
  <2> QED
    BY <2>1, <1>3, <1>4, Zenon DEF IsWalk, Behind
<1>7. Len(g) = Len(s) + Len(t)
  BY <1>2, <1>3, <1>4 DEF IsWalk
<1>8. s \in Seq(Byte) /\ g \in Seq(Byte)
  BY <1>2, <1>4, Zenon DEF IsWalk
<1>9. g = s \o t
  BY <1>3, <1>5, <1>6, <1>7, <1>8, IsConcat, Zenon
<1> QED
  BY <1>9 DEF s, t, g, Appended

\* A part of a walk is the walk from a later index.
LEMMA WalkPart ==
  ASSUME NEW Z \in Nat, NEW D \in [0 .. Z - 1 -> Byte], NEW i \in Nat, i < Z, NEW r \in Nat, r <= Z,
         NEW o \in Nat, NEW n \in Nat, o + n <= r,
         NEW k \in Nat, k < Z, n > 0 => k = Around(Z, i, o)
  PROVE  PartOf(Z, D, i, r, o, n, k)
<1> DEFINE s == Walk(Z, D, i, r)
<1>0. IsWalk(Z, D, i, r, s)
  BY WalkType, Zenon
<1> HIDE DEF s
<1>1. s \in Seq(Byte) /\ Len(s) = r /\ \A j \in 1 .. r : s[j] = D[Around(Z, i, j - 1)]
  BY <1>0, Zenon DEF IsWalk
<1>2. SubSeq(s, o + 1, o + n) = [j \in 1 .. n |-> s[o + j]]
  BY <1>1
<1>3. ASSUME NEW j \in 1 .. n PROVE s[o + j] = D[Around(Z, k, j - 1)]
  <2>1. o + j \in 1 .. r /\ Around(Z, i, (o + j) - 1) = Around(Z, k, j - 1)
    BY DEF Around
  <2> QED
    BY <2>1, <1>1
<1> QED
  BY <1>2, <1>3 DEF Walk, s, PartOf

-----------------------------------------------------------------------------
(* The calls of ringbuf.c as walks.                                          *)

\* What is in a buffer is a walk over its bytes.
LEMMA ContentWalk ==
  ASSUME NEW b \in Buf
  PROVE  /\ Content(b) = Walk(RingSize[b], data[b], start[b], ringbuf_remain(b))
         /\ Content(b)' = Walk(RingSize[b], data'[b], start'[b], ringbuf_remain(b)')
BY DEF Content, Walk, Wrap, Around

\* The bytes of a buffer that satisfies the invariant.
LEMMA ContentType ==
  ASSUME RingInv, NEW b \in Buf
  PROVE  Content(b) \in Seq(Byte) /\ Len(Content(b)) = ringbuf_remain(b)
<1> DEFINE Z == RingSize[b]
           D == data[b]
           i == start[b]
           n == ringbuf_remain(b)
<1>1. Z \in Nat /\ D \in [0 .. Z - 1 -> Byte] /\ i \in Nat /\ i < Z /\ n \in Nat /\ n <= Z
  BY RemainBounds DEF RingInv
<1>2. Content(b) = Walk(Z, D, i, n)
  BY ContentWalk, Zenon
<1> HIDE DEF Z, D, i, n
<1>3. IsWalk(Z, D, i, n, Walk(Z, D, i, n))
  BY <1>1, WalkType, Zenon
<1> QED
  BY <1>2, <1>3 DEF IsWalk, n

\* A copy out of the buffer, in one part or in two, is a walk.
LEMMA ReadWalks ==
  ASSUME RingInv, NEW b \in Buf, NEW i \in Nat, i < RingSize[b], NEW n \in Nat, n <= RingSize[b]
  PROVE  Read(b, i, n) = Walk(RingSize[b], data[b], i, n)
<1> DEFINE Z == RingSize[b]
           D == data[b]
<1>1. Z \in Nat /\ D \in [0 .. Z - 1 -> Byte] /\ i < Z /\ n <= Z
  BY RemainBounds DEF RingInv
<1>2. Read(b, i, n) = IF n >= Z - i
                      THEN [j \in 1 .. Z - i |-> D[i + j - 1]] \o [j \in 1 .. n - (Z - i) |-> D[j - 1]]
                      ELSE [j \in 1 .. n |-> D[i + j - 1]]
  BY Zenon DEF Read
<1> HIDE DEF Z, D
<1>3. CASE n >= Z - i
  <2>1. [j \in 1 .. Z - i |-> D[i + j - 1]] \o [j \in 1 .. n - (Z - i) |-> D[j - 1]] = Walk(Z, D, i, n)
    BY <1>1, <1>3, WalkTwice, Zenon
  <2> QED
    BY <2>1, <1>2, <1>3, Zenon DEF Z, D
<1>4. CASE ~(n >= Z - i)
  <2>1. ASSUME NEW j \in 1 .. n PROVE Around(Z, i, j - 1) = i + j - 1
    BY <1>1, <1>4 DEF Around
  <2>2. [j \in 1 .. n |-> D[i + j - 1]] = Walk(Z, D, i, n)
    BY <2>1, Zenon DEF Walk
  <2> QED
    BY <2>2, <1>2, <1>4, Zenon DEF Z, D
<1> QED
  BY <1>3, <1>4, Zenon

\* A copy of n bytes into the free space appends them to what is readable.
LEMMA PutAppends ==
  ASSUME RingInv, NEW b \in Buf, NEW n \in Nat, NEW bytes \in Seq(Byte),
         n <= ringbuf_space(b), n <= Len(bytes), Put(b, bytes, n)
  PROVE  Content(b)' = Content(b) \o SubSeq(bytes, 1, n)
<1> DEFINE Z == RingSize[b]
           D == data[b]
           F == data'[b]
           i == start[b]
           w == end[b]
           r == ringbuf_remain(b)
           stop == IF n >= Z - w THEN n - (Z - w) ELSE w + n
<1>1. /\ Z \in Nat /\ Z > 0 /\ i \in Nat /\ i < Z /\ w \in Nat /\ w < Z
      /\ r \in Nat /\ r + n <= Z /\ w = Around(Z, i, r) /\ (r = 0 <=> empty[b])
  BY RemainBounds DEF Wrap, Around
<1>2. /\ start' = start /\ end'[b] = stop /\ empty'[b] = (i = stop /\ empty[b] /\ n = 0)
  BY Zenon DEF Put, RingInv
<1>3. /\ D \in [0 .. Z - 1 -> Byte]
      /\ F = [k \in 0 .. Z - 1 |-> IF k >= w /\ k < w + n THEN bytes[k - w + 1]
                                  ELSE IF n >= Z - w /\ k < n - (Z - w) THEN bytes[(Z - w) + k + 1] ELSE D[k]]
  BY Zenon DEF Put, RingInv
<1>4. F \in [0 .. Z - 1 -> Byte]
  <2>1. RingInv'
    BY PutInv
  <2> QED
    BY <2>1 DEF RingInv
<1>5. ringbuf_remain(b)' = IF stop = i THEN (IF empty'[b] THEN 0 ELSE Z)
                           ELSE IF stop < i THEN stop + Z - i ELSE stop - i
  BY <1>2 DEF ringbuf_remain
<1>6. ringbuf_remain(b)' = r + n
  <2> DEFINE m == ringbuf_remain(b)'
             e == empty'[b]
             e0 == empty[b]
  <2>1. /\ m = IF stop = i THEN (IF e THEN 0 ELSE Z) ELSE IF stop < i THEN stop + Z - i ELSE stop - i
        /\ e <=> i = stop /\ e0 /\ n = 0
        /\ r = 0 <=> e0
    BY <1>1, <1>2, <1>5
  <2> HIDE DEF Z, i, w, r, m, e, e0
  <2>2. m = r + n
    BY <1>1, <2>1 DEF Around
  <2> QED
    BY <2>2 DEF m
<1>7. Content(b)' = Walk(Z, F, i, r + n) /\ Content(b) = Walk(Z, D, i, r)
  BY <1>2, <1>6, ContentWalk, Zenon
<1>8. Written(Z, D, F, Around(Z, i, r), bytes, n)
  BY <1>1, <1>3, Zenon DEF Written
<1> HIDE DEF Z, D, F, i, w, r, stop
<1>9. Behind(Z, D, F, i, r, bytes, n)
  <2>1. Around(Z, i, r) < Z
    BY <1>1, Zenon
  <2> QED
    BY <1>1, <1>8, <2>1, WriteBehind, Zenon
<1>10. Appended(Z, D, F, i, r, bytes, n)
  <2>1. Z \in Nat /\ D \in [0 .. Z - 1 -> Byte] /\ i \in Nat /\ i < Z /\ r \in Nat /\ r + n <= Z
    BY <1>1, <1>3, Zenon
  <2> QED
    BY <2>1, <1>4, <1>9, WalkAppend, Zenon
<1> QED
  BY <1>7, <1>10 DEF Appended

\* A call of ringbuf_get keeps the invariant, and what is left is the rest of
\* what was readable.
LEMMA GetDrops ==
  ASSUME RingInv, NEW b \in Buf, NEW len \in Nat, ringbuf_get(b, len)
  PROVE  /\ RingInv'
         /\ Content(b)' = SubSeq(Content(b), Lesser(ringbuf_remain(b), len) + 1, Len(Content(b)))
<1> DEFINE Z == RingSize[b]
           D == data[b]
           i == start[b]
           w == end[b]
           r == ringbuf_remain(b)
           n == Lesser(r, len)
           stop == IF n >= Z - i THEN n - (Z - i) ELSE i + n
<1>1. /\ Z \in Nat /\ Z > 0 /\ i \in Nat /\ i < Z /\ w \in Nat /\ w < Z
      /\ r \in Nat /\ r <= Z /\ w = Around(Z, i, r) /\ (r = 0 <=> empty[b])
  BY RemainBounds DEF Wrap, Around
<1>2. /\ start' = [start EXCEPT ![b] = stop] /\ end' = end /\ data' = data
      /\ empty' = [empty EXCEPT ![b] = stop = w /\ (empty[b] \/ n > 0)]
  BY Zenon DEF ringbuf_get
<1>3. n \in Nat /\ n <= r /\ stop \in Nat /\ stop < Z /\ stop = Around(Z, i, n)
  BY <1>1 DEF Around, Lesser
<1>4. RingInv'
  <2> HIDE DEF stop, n, r
  <2>1. start' \in [Buf -> Nat] /\ end' \in [Buf -> Nat] /\ data' = [c \in Buf |-> data'[c]]
    BY <1>2, <1>3 DEF RingInv
  <2>2. empty' \in [Buf -> BOOLEAN]
    BY <1>2, Zenon DEF RingInv
  <2>3. ASSUME NEW c \in Buf
        PROVE  /\ start'[c] < RingSize[c] /\ end'[c] < RingSize[c]
               /\ empty'[c] => start'[c] = end'[c]
               /\ data'[c] \in [0 .. RingSize[c] - 1 -> Byte]
    BY <1>2, <1>3 DEF RingInv
  <2> QED
    BY <2>1, <2>2, <2>3 DEF RingInv
<1>5. start'[b] = stop /\ end'[b] = w /\ data'[b] = D /\ empty'[b] = (stop = w /\ (empty[b] \/ n > 0))
  BY <1>2, Zenon DEF RingInv
<1>6. ringbuf_remain(b)' = r - n
  <2> DEFINE m == ringbuf_remain(b)'
             e == empty'[b]
             e0 == empty[b]
  <2>1. /\ m = IF w = stop THEN (IF e THEN 0 ELSE Z) ELSE IF w < stop THEN w + Z - stop ELSE w - stop
        /\ e <=> stop = w /\ (e0 \/ n > 0)
        /\ r = 0 <=> e0
    BY <1>1, <1>5 DEF ringbuf_remain
  <2> HIDE DEF Z, i, w, r, m, e, e0, n, stop
  <2>2. m = r - n
    BY <1>1, <1>3, <2>1 DEF Around
  <2> QED
    BY <2>2 DEF m
<1>7. Content(b)' = Walk(Z, D, stop, r - n) /\ Content(b) = Walk(Z, D, i, r) /\ Len(Content(b)) = r
  BY <1>5, <1>6, ContentWalk, ContentType, Zenon
<1>8. D \in [0 .. Z - 1 -> Byte]
  BY DEF RingInv
<1> HIDE DEF Z, D, i, w, r, n, stop
<1>9. r - n \in Nat /\ n + (r - n) <= r /\ n + (r - n) = r
  BY <1>1, <1>3
<1>10. PartOf(Z, D, i, r, n, r - n, stop)
  <2>1. Z \in Nat /\ i \in Nat /\ i < Z /\ r \in Nat /\ r <= Z
    BY <1>1
  <2> QED
    BY <2>1, <1>3, <1>8, <1>9, WalkPart, Zenon
<1>11. Content(b)' = SubSeq(Content(b), n + 1, Len(Content(b)))
  BY <1>7, <1>9, <1>10 DEF PartOf
<1> QED
  BY <1>4, <1>11 DEF n, r

\* The part of a sequence that ByteStream names in two steps.
LEMMA PrefixOfRest ==
  ASSUME NEW s \in Seq(Byte), NEW o \in Nat, NEW len \in Nat
  PROVE  /\ o >= Len(s) => Stream!Prefix(Stream!Rest(s, o), len) = <<>>
         /\ o < Len(s) => Stream!Prefix(Stream!Rest(s, o), len) = SubSeq(s, o + 1, o + Lesser(Len(s) - o, len))
<1> DEFINE t == Stream!Rest(s, o)
<1>1. t \in Seq(Byte) /\ (o >= Len(s) => Len(t) = 0)
      /\ (o < Len(s) => Len(t) = Len(s) - o /\ \A j \in 1 .. Len(s) - o : t[j] = s[o + j])
  BY DEF Stream!Rest
<1> HIDE DEF t
<1>2. CASE o >= Len(s)
  BY <1>1, <1>2 DEF Stream!Prefix, t
<1>3. CASE o < Len(s)
  <2> DEFINE m == Lesser(Len(s) - o, len)
  <2>a. Len(t) = Len(s) - o /\ Len(t) \in Nat
    BY <1>1, <1>3
  <2>b. m \in Nat /\ m <= Len(t) /\ m = IF len < Len(t) THEN len ELSE Len(t)
    BY <2>a DEF Lesser
  <2>1. m \in Nat /\ m <= Len(t) /\ Stream!Prefix(t, len) = SubSeq(t, 1, m)
    BY <2>b, Zenon DEF Stream!Prefix
  <2> HIDE DEF m
  <2>2. SubSeq(t, 1, m) = [j \in 1 .. m |-> t[j]]
    BY <1>1, <2>1
  <2>3. SubSeq(s, o + 1, o + m) = [j \in 1 .. m |-> s[o + j]]
    BY <1>1, <1>3, <2>1
  <2>4. \A j \in 1 .. m : t[j] = s[o + j]
    BY <1>1, <1>3, <2>1
  <2> QED
    BY <1>3, <2>1, <2>2, <2>3, <2>4 DEF m, t
<1> QED
  BY <1>2, <1>3

\* ringbuf_peek reads the part of what is readable that its offset and length name.
LEMMA PeekReads ==
  ASSUME RingInv, NEW b \in Buf, NEW o \in Nat, NEW len \in Nat
  PROVE  Peek(b, o, len) = Stream!Prefix(Stream!Rest(Content(b), o), len)
<1> DEFINE Z == RingSize[b]
           D == data[b]
           i == start[b]
           r == ringbuf_remain(b)
           n == Lesser(r - o, len)
           k == (i + o) % Z
           s == Content(b)
<1>1. Z \in Nat /\ Z > 0 /\ i \in Nat /\ i < Z /\ r \in Nat /\ r <= Z
  BY RemainBounds
<1>2. s \in Seq(Byte) /\ Len(s) = r /\ s = Walk(Z, D, i, r)
  BY ContentWalk, ContentType, Zenon
<1>3. D \in [0 .. Z - 1 -> Byte]
  BY DEF RingInv
<1>4. CASE o >= r
  <2>1. Peek(b, o, len) = <<>>
    BY <1>4 DEF Peek
  <2> HIDE DEF s, r
  <2> QED
    BY <2>1, <1>2, <1>4, PrefixOfRest DEF s
<1>5. CASE o < r
  <2>1. Peek(b, o, len) = Read(b, k, n)
    BY <1>1, <1>5 DEF Peek
  <2>2. n \in Nat /\ o + n <= r /\ n <= Z
    BY <1>1, <1>5 DEF Lesser
  <2>3. k \in Nat /\ k < Z /\ k = Around(Z, i, o)
    <3>1. i + o \in Nat /\ i + o < 2 * Z
      BY <1>1, <1>5
    <3> HIDE DEF Z, i, r
    <3> QED
      BY <1>1, <1>5, <3>1, ModWrap DEF Around
  <2>4. Read(b, k, n) = Walk(Z, D, k, n)
    <3> HIDE DEF k, n
    <3> QED
      BY <2>2, <2>3, ReadWalks, Zenon
  <2> HIDE DEF Z, D, i, r, n, k, s
  <2>5. PartOf(Z, D, i, r, o, n, k)
    BY <1>1, <1>3, <2>2, <2>3, WalkPart, Zenon
  <2>6. Stream!Prefix(Stream!Rest(s, o), len) = SubSeq(s, o + 1, o + Lesser(Len(s) - o, len))
    BY <1>2, <1>5, PrefixOfRest
  <2>7. Lesser(Len(s) - o, len) = n
    BY <1>2 DEF n
  <2> QED
    BY <1>2, <2>1, <2>4, <2>5, <2>6, <2>7, Zenon DEF s, PartOf
<1> QED
  BY <1>1, <1>4, <1>5

-----------------------------------------------------------------------------
(* The calls as operations on streams.                                       *)

\* A prefix of a sequence of bytes.
LEMMA PrefixType ==
  ASSUME NEW s \in Seq(Byte), NEW n \in Nat
  PROVE  /\ Stream!Prefix(s, n) = SubSeq(s, 1, Lesser(Len(s), n))
         /\ Stream!Prefix(s, n) \in Seq(Byte) /\ Len(Stream!Prefix(s, n)) = Lesser(Len(s), n)
         /\ Stream!Rest(s, 0) = s
<1>1. Stream!Prefix(s, n) = SubSeq(s, 1, Lesser(Len(s), n))
  BY DEF Stream!Prefix, Lesser
<1>2. Lesser(Len(s), n) \in Nat /\ Lesser(Len(s), n) <= Len(s)
  BY DEF Lesser
<1>3. SubSeq(s, 1, Lesser(Len(s), n)) \in Seq(Byte) /\ Len(SubSeq(s, 1, Lesser(Len(s), n))) = Lesser(Len(s), n)
  BY <1>2
<1>4. Stream!Rest(s, 0) = s
  BY DEF Stream!Rest
<1> QED
  BY <1>1, <1>3, <1>4

\* The other buffers keep what is in them.
LEMMA OthersKept ==
  ASSUME NEW b \in Buf, NEW c \in Buf, c # b,
         start'[c] = start[c], end'[c] = end[c], empty'[c] = empty[c], data'[c] = data[c]
  PROVE  Content(c)' = Content(c)
BY DEF Content, ringbuf_remain, Wrap

\* The bytes that ringbuf_put and ringbuf_copy store.
LEMMA PutStream ==
  ASSUME RingInv, NEW b \in Buf, NEW bytes \in Seq(Byte), NEW c,
         Put(b, bytes, Lesser(Len(bytes), ringbuf_space(b))),
         result' = [call |-> c, count |-> Lesser(Len(bytes), ringbuf_space(b)), bytes |-> <<>>]
  PROVE  RingInv' /\ Stream!Put(c, b, bytes)
<1> DEFINE n == Lesser(Len(bytes), ringbuf_space(b))
           some == Stream!Prefix(bytes, ringbuf_space(b))
<1>1. n \in Nat /\ n <= ringbuf_space(b) /\ n <= Len(bytes) /\ ringbuf_space(b) \in Nat
  BY RemainBounds DEF Lesser
<1>2. RingInv'
  <2>1. \A i \in 1 .. n : bytes[i] \in Byte
    BY <1>1
  <2> HIDE DEF n
  <2> QED
    BY <1>1, <2>1, PutInv DEF n
<1>3. some = SubSeq(bytes, 1, n) /\ Len(some) = n
  BY <1>1, PrefixType
<1>4. Content(b)' = Content(b) \o some
  <2> HIDE DEF n
  <2>1. Content(b)' = Content(b) \o SubSeq(bytes, 1, n)
    BY <1>1, PutAppends DEF n
  <2> QED
    BY <2>1, <1>3, Zenon
<1>5. ASSUME NEW d \in Buf, d # b PROVE Content(d)' = Content(d)
  <2>1. start'[d] = start[d] /\ end'[d] = end[d] /\ empty'[d] = empty[d] /\ data'[d] = data[d]
    BY <1>5 DEF Put, RingInv
  <2> QED
    BY <1>5, <2>1, OthersKept, Zenon
<1>6. RingSize[b] - Len([d \in Buf |-> Content(d)][b]) = ringbuf_space(b)
  BY ContentType DEF ringbuf_space
<1> HIDE DEF n, some
<1>7. [d \in Buf |-> Content(d)'] = [[d \in Buf |-> Content(d)] EXCEPT ![b] = @ \o some]
  BY <1>4, <1>5
<1>8. Stream!Space(b) = ringbuf_space(b)
  BY <1>6, Zenon DEF Stream!Space
<1>9. Stream!Put(c, b, bytes)
  <2>1. result' = [call |-> c, count |-> Len(some), bytes |-> <<>>]
    BY <1>3 DEF n
  <2>2. Stream!Prefix(bytes, Stream!Space(b)) = some
    BY <1>8, Zenon DEF some
  <2> QED
    BY <1>7, <2>1, <2>2, Zenon DEF Stream!Put
<1> QED
  BY <1>2, <1>9

\* ringbuf_get.
LEMMA GetStream ==
  ASSUME RingInv, NEW b \in Buf, NEW len \in Nat, ringbuf_get(b, len)
  PROVE  RingInv' /\ Stream!Get(b, len)
<1> DEFINE n == Lesser(ringbuf_remain(b), len)
           s == Content(b)
           some == Stream!Prefix(s, len)
<1>1. s \in Seq(Byte) /\ Len(s) = ringbuf_remain(b)
  BY ContentType
<1>2. Len(some) = n /\ some = SubSeq(s, 1, n)
  <2> HIDE DEF s
  <2> QED
    BY <1>1, PrefixType
<1>3. RingInv' /\ Content(b)' = Stream!Rest(s, n)
  BY GetDrops, Zenon DEF Stream!Rest
<1>4. ASSUME NEW d \in Buf, d # b PROVE Content(d)' = Content(d)
  <2>1. start'[d] = start[d] /\ end'[d] = end[d] /\ empty'[d] = empty[d] /\ data'[d] = data[d]
    BY <1>4 DEF ringbuf_get, RingInv
  <2> QED
    BY <1>4, <2>1, OthersKept, Zenon
<1>5. Read(b, start[b], n) = some
  <2> DEFINE Z == RingSize[b]
             D == data[b]
             i == start[b]
             r == ringbuf_remain(b)
  <2>1. Z \in Nat /\ Z > 0 /\ i \in Nat /\ i < Z /\ r \in Nat /\ r <= Z
    BY RemainBounds
  <2>2. n \in Nat /\ n <= r /\ n <= Z /\ 0 \in Nat /\ 0 + n = n /\ 0 + n <= r
    BY <2>1 DEF Lesser
  <2>3. D \in [0 .. Z - 1 -> Byte]
    BY DEF RingInv
  <2>4. s = Walk(Z, D, i, r)
    BY ContentWalk, Zenon
  <2>5. Read(b, i, n) = Walk(Z, D, i, n)
    <3> HIDE DEF n
    <3> QED
      BY <2>1, <2>2, ReadWalks, Zenon
  <2> HIDE DEF Z, D, i, r, n, s, some
  <2>6. i = Around(Z, i, 0)
    BY <2>1 DEF Around
  <2>7. PartOf(Z, D, i, r, 0, n, i)
    BY <2>1, <2>2, <2>3, <2>6, WalkPart, Zenon
  <2> QED
    BY <1>2, <2>2, <2>4, <2>5, <2>7 DEF PartOf, i
<1>6. result' = [call |-> "get", count |-> n, bytes |-> Read(b, start[b], n)]
  BY Zenon DEF ringbuf_get
<1> HIDE DEF n, some
<1>7. [d \in Buf |-> Content(d)'] = [[d \in Buf |-> Content(d)] EXCEPT ![b] = Stream!Rest(@, Len(some))]
  BY <1>2, <1>3, <1>4
<1>8. Stream!Get(b, len)
  <2>1. Stream!Prefix([d \in Buf |-> Content(d)][b], len) = some
    BY Zenon DEF some
  <2>2. result' = [call |-> "get", count |-> Len(some), bytes |-> some]
    BY <1>2, <1>5, <1>6
  <2> QED
    BY <1>7, <2>1, <2>2, Zenon DEF Stream!Get
<1> QED
  BY <1>3, <1>8

\* ringbuf_peek.
LEMMA PeekStream ==
  ASSUME RingInv, NEW b \in Buf, NEW o \in Nat, NEW len \in Nat, ringbuf_peek(b, o, len)
  PROVE  RingInv' /\ Stream!Peek(b, o, len)
<1>1. start' = start /\ end' = end /\ empty' = empty /\ data' = data
  BY DEF ringbuf_peek
<1>2. RingInv'
  BY <1>1 DEF RingInv
<1>3. [d \in Buf |-> Content(d)'] = [d \in Buf |-> Content(d)]
  BY <1>1 DEF Content, ringbuf_remain, Wrap
<1>4. Peek(b, o, len) = Stream!Prefix(Stream!Rest([d \in Buf |-> Content(d)][b], o), len)
  BY PeekReads, Zenon
<1>5. result' = [call |-> "peek", count |-> Len(Peek(b, o, len)), bytes |-> Peek(b, o, len)]
  BY DEF ringbuf_peek
<1>6. Stream!Peek(b, o, len)
  BY <1>3, <1>4, <1>5, Zenon DEF Stream!Peek
<1> QED
  BY <1>2, <1>6

\* A prefix of a prefix.
LEMMA PrefixTwice ==
  ASSUME NEW s \in Seq(Byte), NEW m \in Nat, NEW n \in Nat
  PROVE  Stream!Prefix(Stream!Prefix(s, n), m) = Stream!Prefix(s, Lesser(m, n))
<1> DEFINE t == Stream!Prefix(s, n)
           p == Lesser(Lesser(Len(s), n), m)
<1>1. /\ t = SubSeq(s, 1, Lesser(Len(s), n)) /\ t \in Seq(Byte) /\ Len(t) = Lesser(Len(s), n)
  BY PrefixType
<1>2. Stream!Prefix(t, m) = SubSeq(t, 1, p)
  <2> HIDE DEF t
  <2> QED
    BY <1>1, PrefixType
<1>3. Lesser(m, n) \in Nat /\ Lesser(Len(s), Lesser(m, n)) = p /\ p \in Nat /\ p <= Lesser(Len(s), n) /\ p <= Len(s)
  BY DEF Lesser
<1>4. Stream!Prefix(s, Lesser(m, n)) = SubSeq(s, 1, p)
  BY <1>3, PrefixType
<1> HIDE DEF t, p
<1>5. SubSeq(t, 1, p) = [j \in 1 .. p |-> t[j]] /\ SubSeq(s, 1, p) = [j \in 1 .. p |-> s[j]]
  BY <1>1, <1>3
<1>6. \A j \in 1 .. p : t[j] = s[j]
  BY <1>1, <1>3 DEF Lesser
<1> QED
  BY <1>2, <1>4, <1>5, <1>6 DEF t

\* ringbuf_copy: the bytes peeked at are limited to the space before they are
\* put, which stores the same bytes as limiting them once.
LEMMA CopyStream ==
  ASSUME RingInv, NEW to \in Buf, NEW from \in Buf, NEW len \in Nat, ringbuf_copy(to, from, len)
  PROVE  RingInv' /\ Stream!Copy(to, from, len)
<1> DEFINE m == ringbuf_space(to)
           s == Content(from)
           bytes == Peek(from, 0, Lesser(m, len))
           n == Lesser(Len(bytes), m)
<1>1. m \in Nat /\ Lesser(m, len) \in Nat /\ s \in Seq(Byte)
  BY RemainBounds, ContentType DEF Lesser
<1>2. bytes = Stream!Prefix(s, Lesser(m, len))
  <2>1. 0 \in Nat
    OBVIOUS
  <2>2. bytes = Stream!Prefix(Stream!Rest(s, 0), Lesser(m, len))
    BY <1>1, <2>1, PeekReads, Zenon
  <2>3. Stream!Rest(s, 0) = s
    BY <1>1, PrefixType, Zenon
  <2> QED
    BY <2>2, <2>3
<1>3. bytes \in Seq(Byte) /\ Len(bytes) <= m
  <2>1. /\ Stream!Prefix(s, Lesser(m, len)) \in Seq(Byte)
        /\ Len(Stream!Prefix(s, Lesser(m, len))) = Lesser(Len(s), Lesser(m, len))
    BY <1>1, PrefixType, Zenon
  <2> QED
    BY <1>1, <1>2, <2>1 DEF Lesser
<1>4. Put(to, bytes, n) /\ result' = [call |-> "copy", count |-> n, bytes |-> <<>>]
  BY Zenon DEF ringbuf_copy
<1>5. RingInv' /\ Stream!Put("copy", to, bytes)
  <2> HIDE DEF bytes
  <2> QED
    BY <1>3, <1>4, PutStream, Zenon
<1>6. Stream!Space(to) = m
  BY ContentType DEF Stream!Space, ringbuf_space
<1>7. Stream!Prefix(bytes, m) = Stream!Prefix(Stream!Prefix(s, len), m)
  <2> HIDE DEF m, s, bytes
  <2>1. Stream!Prefix(Stream!Prefix(s, len), m) = Stream!Prefix(s, Lesser(m, len))
    BY <1>1, PrefixTwice, Zenon
  <2>2. Stream!Prefix(bytes, m) = bytes
    <3>1. Stream!Prefix(bytes, m) = SubSeq(bytes, 1, Len(bytes))
      BY <1>1, <1>3 DEF Stream!Prefix
    <3> QED
      BY <1>3, <3>1
  <2> QED
    BY <1>2, <2>1, <2>2
<1>8. Stream!Put("copy", to, Stream!Prefix(s, len))
  <2> HIDE DEF m, s, bytes
  <2> QED
    BY <1>5, <1>6, <1>7, Zenon DEF Stream!Put
<1> QED
  BY <1>5, <1>8, Zenon DEF Stream!Copy

\* ringbuf_reset and ringbuf_wipe.
LEMMA ResetStream ==
  ASSUME RingInv, NEW b \in Buf, ringbuf_reset(b)
  PROVE  RingInv' /\ Stream!Reset(b)
<1>1. RingSize[b] \in Nat /\ RingSize[b] > 0
  BY RemainBounds
<1>2. start' = [start EXCEPT ![b] = 0] /\ end' = [end EXCEPT ![b] = 0] /\ empty' = [empty EXCEPT ![b] = TRUE]
  BY DEF ringbuf_reset
<1>3. data' = data \/ data' = [data EXCEPT ![b] = [i \in 0 .. RingSize[b] - 1 |-> ZeroByte]]
  BY DEF ringbuf_reset
<1>4. /\ data' = [c \in Buf |-> data'[c]]
      /\ \A c \in Buf : data'[c] \in [0 .. RingSize[c] - 1 -> Byte]
      /\ \A c \in Buf : c # b => data'[c] = data[c]
  <2> DEFINE z == [i \in 0 .. RingSize[b] - 1 |-> ZeroByte]
  <2>1. z \in [0 .. RingSize[b] - 1 -> Byte]
    BY RingAssumption
  <2> HIDE DEF z
  <2>2. CASE data' = data
    BY <2>2 DEF RingInv
  <2>3. CASE data' = [data EXCEPT ![b] = z]
    BY <2>1, <2>3 DEF RingInv
  <2> QED
    BY <1>3, <2>2, <2>3, Zenon DEF z
<1>5. RingInv'
  <2>1. start' \in [Buf -> Nat] /\ end' \in [Buf -> Nat]
    BY <1>2 DEF RingInv
  <2>2. empty' \in [Buf -> BOOLEAN]
    BY <1>2, Zenon DEF RingInv
  <2>3. \A c \in Buf : start'[c] < RingSize[c] /\ end'[c] < RingSize[c] /\ (empty'[c] => start'[c] = end'[c])
    BY <1>1, <1>2 DEF RingInv
  <2> QED
    BY <1>4, <2>1, <2>2, <2>3 DEF RingInv
<1>6. Content(b)' = <<>>
  <2>1. ringbuf_remain(b)' = 0
    BY <1>2 DEF ringbuf_remain, RingInv
  <2> QED
    BY <2>1 DEF Content
<1>7. ASSUME NEW d \in Buf, d # b PROVE Content(d)' = Content(d)
  <2>1. start'[d] = start[d] /\ end'[d] = end[d] /\ empty'[d] = empty[d] /\ data'[d] = data[d]
    BY <1>7, <1>2, <1>4 DEF RingInv
  <2> QED
    BY <1>7, <2>1, OthersKept, Zenon
<1>8. [d \in Buf |-> Content(d)'] = [[d \in Buf |-> Content(d)] EXCEPT ![b] = <<>>]
  BY <1>6, <1>7
<1>9. result' = [call |-> "reset", count |-> 0, bytes |-> <<>>]
  BY DEF ringbuf_reset
<1> QED
  BY <1>5, <1>8, <1>9, Zenon DEF Stream!Reset

\* ringbuf_put.
LEMMA PutCall ==
  ASSUME RingInv, NEW b \in Buf, NEW n \in 0 .. MaxRingArg, NEW bytes \in [1 .. n -> Byte], ringbuf_put(b, bytes)
  PROVE  RingInv' /\ Stream!Put("put", b, bytes)
<1>1. bytes \in Seq(Byte)
  BY RingAssumption
<1>2. /\ Put(b, bytes, Lesser(Len(bytes), ringbuf_space(b)))
      /\ result' = [call |-> "put", count |-> Lesser(Len(bytes), ringbuf_space(b)), bytes |-> <<>>]
  BY Zenon DEF ringbuf_put
<1> QED
  BY <1>1, <1>2, PutStream, Zenon

\* A length or an offset that is passed is a natural number.
LEMMA ArgIsNat ==
  ASSUME NEW len \in 0 .. MaxRingArg PROVE len \in Nat
BY RingAssumption

\* Every call keeps the invariant.
LEMMA StepInv == RingInv /\ [RingNext]_ringVars => RingInv'
<1> SUFFICES ASSUME RingInv, [RingNext]_ringVars PROVE RingInv'
  OBVIOUS
<1>1. CASE UNCHANGED ringVars
  BY <1>1 DEF ringVars, RingInv
<1>2. CASE RingNext
  <2>1. PICK b \in Buf :
          \/ \E n \in 0 .. MaxRingArg : \E bytes \in [1 .. n -> Byte] : ringbuf_put(b, bytes)
          \/ \E len \in 0 .. MaxRingArg :
               \/ ringbuf_get(b, len)
               \/ \E offset \in 0 .. MaxRingArg : ringbuf_peek(b, offset, len)
               \/ \E from \in Buf \ {b} : ringbuf_copy(b, from, len)
          \/ ringbuf_reset(b)
    BY <1>2, Zenon DEF RingNext
  <2>2. ASSUME NEW n \in 0 .. MaxRingArg, NEW bytes \in [1 .. n -> Byte], ringbuf_put(b, bytes) PROVE RingInv'
    BY <2>2, PutCall, Zenon
  <2>3. ASSUME NEW len \in 0 .. MaxRingArg, ringbuf_get(b, len) PROVE RingInv'
    BY <2>3, ArgIsNat, GetStream, Zenon
  <2>4. ASSUME NEW len \in 0 .. MaxRingArg, NEW offset \in 0 .. MaxRingArg, ringbuf_peek(b, offset, len) PROVE RingInv'
    BY <2>4, ArgIsNat, PeekStream, Zenon
  <2>5. ASSUME NEW len \in 0 .. MaxRingArg, NEW from \in Buf \ {b}, ringbuf_copy(b, from, len) PROVE RingInv'
    <3>1. from \in Buf
      OBVIOUS
    <3> QED
      BY <2>5, <3>1, ArgIsNat, CopyStream, Zenon
  <2>6. ASSUME ringbuf_reset(b) PROVE RingInv'
    BY <2>6, ResetStream, Zenon
  <2> QED
    BY <2>1, <2>2, <2>3, <2>4, <2>5, <2>6, Zenon
<1> QED
  BY <1>1, <1>2

\* Every call is the operation on streams.
LEMMA StepMatches == RingInv => Matches
<1> SUFFICES ASSUME RingInv, NEW b \in Buf
             PROVE  /\ \A n \in 0 .. MaxRingArg : \A bytes \in [1 .. n -> Byte] :
                         ringbuf_put(b, bytes) => Stream!Put("put", b, bytes)
                    /\ \A len \in 0 .. MaxRingArg :
                         /\ ringbuf_get(b, len) => Stream!Get(b, len)
                         /\ \A offset \in 0 .. MaxRingArg : ringbuf_peek(b, offset, len) => Stream!Peek(b, offset, len)
                         /\ \A from \in Buf \ {b} : ringbuf_copy(b, from, len) => Stream!Copy(b, from, len)
                    /\ ringbuf_reset(b) => Stream!Reset(b)
  BY Zenon DEF Matches, Called
<1>1. ASSUME NEW n \in 0 .. MaxRingArg, NEW bytes \in [1 .. n -> Byte], ringbuf_put(b, bytes)
      PROVE  Stream!Put("put", b, bytes)
  BY <1>1, PutCall, Zenon
<1>2. ASSUME NEW len \in 0 .. MaxRingArg, ringbuf_get(b, len) PROVE Stream!Get(b, len)
  BY <1>2, ArgIsNat, GetStream, Zenon
<1>3. ASSUME NEW len \in 0 .. MaxRingArg, NEW offset \in 0 .. MaxRingArg, ringbuf_peek(b, offset, len)
      PROVE  Stream!Peek(b, offset, len)
  BY <1>3, ArgIsNat, PeekStream, Zenon
<1>4. ASSUME NEW len \in 0 .. MaxRingArg, NEW from \in Buf \ {b}, ringbuf_copy(b, from, len)
      PROVE  Stream!Copy(b, from, len)
  <2>1. from \in Buf
    OBVIOUS
  <2> QED
    BY <1>4, <2>1, ArgIsNat, CopyStream, Zenon
<1>5. ASSUME ringbuf_reset(b) PROVE Stream!Reset(b)
  BY <1>5, ResetStream, Zenon
<1> QED
  BY <1>1, <1>2, <1>3, <1>4, <1>5, Zenon

\* A new buffer is empty, with both indices at its first byte.
LEMMA InitInv == RingInit => RingInv /\ Stream!Init
<1> SUFFICES ASSUME RingInit PROVE RingInv /\ Stream!Init
  OBVIOUS
<1>1. RingInv
  <2>1. start \in [Buf -> Nat] /\ end \in [Buf -> Nat] /\ data = [b \in Buf |-> data[b]]
    BY DEF RingInit
  <2>2. empty \in [Buf -> BOOLEAN]
    BY Zenon DEF RingInit
  <2>3. ASSUME NEW b \in Buf
        PROVE  /\ start[b] < RingSize[b] /\ end[b] < RingSize[b] /\ (empty[b] => start[b] = end[b])
               /\ data[b] \in [0 .. RingSize[b] - 1 -> Byte]
    <3>1. RingSize[b] \in Nat /\ RingSize[b] > 0 /\ start[b] = 0 /\ end[b] = 0
      BY RingAssumption DEF RingInit
    <3>2. data[b] = [i \in 0 .. RingSize[b] - 1 |-> ZeroByte]
      BY Zenon DEF RingInit
    <3> QED
      BY <3>1, <3>2, RingAssumption
  <2> QED
    BY <2>1, <2>2, <2>3 DEF RingInv
<1>2. ASSUME NEW b \in Buf PROVE Content(b) = <<>>
  <2>1. start[b] = end[b] /\ empty[b]
    BY Zenon DEF RingInit
  <2>2. ringbuf_remain(b) = 0
    BY <2>1 DEF ringbuf_remain
  <2> QED
    BY <2>2 DEF Content
<1>3. Stream!Init
  BY <1>2 DEF RingInit, Stream!Init
<1> QED
  BY <1>1, <1>3

\* For buffers of every size, the indices never leave the buffer whatever is
\* called: the copies of ringbuf.c stay inside data.
THEOREM RingStaysInside == RingSpec => []RingInv
<1>1. RingInit => RingInv
  BY InitInv
<1> QED
  BY <1>1, StepInv, PTL DEF RingSpec

\* For buffers of every size, each call of ringbuf.c has the effect and the
\* result of the operation on bounded streams of bytes.
THEOREM RingIsByteStream == RingSpec => ImplementsByteStream
<1>1. RingInv => [UNCHANGED ringVars \/ Matches]_ringVars
  BY StepMatches
<1>2. []RingInv => [][UNCHANGED ringVars \/ Matches]_ringVars
  BY <1>1, PTL
<1>3. RingInit => Stream!Init
  BY InitInv
<1>4. RingSpec => Stream!Init /\ [][UNCHANGED ringVars \/ Matches]_ringVars
  BY <1>2, <1>3, RingStaysInside, PTL DEF RingSpec
<1> QED
  BY <1>4 DEF ImplementsByteStream
=============================================================================
