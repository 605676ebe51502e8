-------------------------------- MODULE RingBuf --------------------------------
(***************************************************************************)
(* src/container/ringbuf.c: two ring buffers of bytes, with ringbuf_copy   *)
(* between them.  start = end stands for an empty buffer and for a full    *)
(* one; the flag empty tells them apart.                                   *)
(***************************************************************************)
EXTENDS Integers, Sequences

CONSTANTS Buf,        \* the buffers
          Byte, ZeroByte,
          RingSize,       \* buf->size, per buffer
          MaxRingArg      \* bound on the sizes and offsets that are passed

ASSUME RingAssumption == ZeroByte \in Byte /\ RingSize \in [Buf -> Nat \ {0}] /\ MaxRingArg \in Nat

VARIABLES start, end, empty, data,
          result      \* the last call and what it returned: a count, and the bytes it read

ringVars == <<start, end, empty, data, result>>

Lesser(a, b) == IF a < b THEN a ELSE b

ringbuf_remain(b) ==
  IF end[b] = start[b] THEN (IF empty[b] THEN 0 ELSE RingSize[b])
  ELSE IF end[b] < start[b] THEN end[b] + RingSize[b] - start[b] ELSE end[b] - start[b]

ringbuf_space(b) == RingSize[b] - ringbuf_remain(b)

\* The index k places after i in a buffer, for k at most its size.
Wrap(b, i, k) == IF i + k < RingSize[b] THEN i + k ELSE i + k - RingSize[b]

\* The readable bytes, from the oldest on.
Content(b) == [i \in 1 .. ringbuf_remain(b) |-> data[b][Wrap(b, start[b], i - 1)]]

\* The n bytes from index i on, copied in two parts when they reach the end.
Read(b, i, n) ==
  IF n >= RingSize[b] - i
  THEN [j \in 1 .. RingSize[b] - i |-> data[b][i + j - 1]] \o [j \in 1 .. n - (RingSize[b] - i) |-> data[b][j - 1]]
  ELSE [j \in 1 .. n |-> data[b][i + j - 1]]

RingInit ==
  /\ start = [b \in Buf |-> 0] /\ end = start
  /\ empty = [b \in Buf |-> TRUE]
  /\ data = [b \in Buf |-> [i \in 0 .. RingSize[b] - 1 |-> ZeroByte]]
  /\ result = [call |-> "new", count |-> 0, bytes |-> <<>>]

\* What ringbuf_put leaves behind when n bytes are copied.
Put(b, bytes, n) ==
  LET wraps == n >= RingSize[b] - end[b]
      first == RingSize[b] - end[b]
      stop  == IF wraps THEN n - first ELSE end[b] + n
  IN
  /\ data' = [data EXCEPT ![b] = [i \in 0 .. RingSize[b] - 1 |->
                IF i >= end[b] /\ i < end[b] + n THEN bytes[i - end[b] + 1]
                ELSE IF wraps /\ i < n - first THEN bytes[first + i + 1] ELSE @[i]]]
  /\ end' = [end EXCEPT ![b] = stop]
  /\ empty' = [empty EXCEPT ![b] = start[b] = stop /\ @ /\ n = 0]
  /\ UNCHANGED start

ringbuf_put(b, bytes) ==
  LET n == Lesser(Len(bytes), ringbuf_space(b)) IN
  /\ result' = [call |-> "put", count |-> n, bytes |-> <<>>]
  /\ Put(b, bytes, n)

\* Mutant: the flag does not depend on the bytes taken.
ringbuf_getFlag(b, len) ==
  LET n == Lesser(ringbuf_remain(b), len)
      first == RingSize[b] - start[b]
      stop == IF n >= first THEN n - first ELSE start[b] + n
  IN
  /\ result' = [call |-> "get", count |-> n, bytes |-> Read(b, start[b], n)]
  /\ start' = [start EXCEPT ![b] = stop]
  /\ empty' = [empty EXCEPT ![b] = stop = end[b]]
  /\ UNCHANGED <<end, data>>

ringbuf_get(b, len) ==
  LET n == Lesser(ringbuf_remain(b), len)
      first == RingSize[b] - start[b]
      stop == IF n >= first THEN n - first ELSE start[b] + n
  IN
  /\ result' = [call |-> "get", count |-> n, bytes |-> Read(b, start[b], n)]
  /\ start' = [start EXCEPT ![b] = stop]
  /\ empty' = [empty EXCEPT ![b] = stop = end[b] /\ (@ \/ n > 0)]
  /\ UNCHANGED <<end, data>>

\* Mutant: the offset is added without the modulo.
PeekFlat(b, offset, len) ==
  IF offset >= ringbuf_remain(b) THEN <<>>
  ELSE Read(b, Lesser(start[b] + offset, RingSize[b] - 1), Lesser(ringbuf_remain(b) - offset, len))

\* The bytes ringbuf_peek copies out.
Peek(b, offset, len) ==
  IF offset >= ringbuf_remain(b) THEN <<>>
  ELSE Read(b, (start[b] + offset) % RingSize[b], Lesser(ringbuf_remain(b) - offset, len))

ringbuf_peek(b, offset, len) ==
  /\ result' = [call |-> "peek", count |-> Len(Peek(b, offset, len)), bytes |-> Peek(b, offset, len)]
  /\ UNCHANGED <<start, end, empty, data>>

ringbuf_copy(to, from, len) ==
  LET bytes == Peek(from, 0, Lesser(ringbuf_space(to), len))
      n     == Lesser(Len(bytes), ringbuf_space(to))
  IN
  /\ result' = [call |-> "copy", count |-> n, bytes |-> <<>>]
  /\ Put(to, bytes, n)

\* ringbuf_reset, and ringbuf_wipe, which also clears the bytes.
ringbuf_reset(b) ==
  /\ result' = [call |-> "reset", count |-> 0, bytes |-> <<>>]
  /\ start' = [start EXCEPT ![b] = 0] /\ end' = [end EXCEPT ![b] = 0]
  /\ empty' = [empty EXCEPT ![b] = TRUE]
  /\ data' \in {data, [data EXCEPT ![b] = [i \in 0 .. RingSize[b] - 1 |-> ZeroByte]]}

RingNext ==
  \E b \in Buf :
    \/ \E n \in 0 .. MaxRingArg : \E bytes \in [1 .. n -> Byte] : ringbuf_put(b, bytes)
    \/ \E len \in 0 .. MaxRingArg :
         \/ ringbuf_get(b, len)
         \/ \E offset \in 0 .. MaxRingArg : ringbuf_peek(b, offset, len)
         \/ \E from \in Buf \ {b} : ringbuf_copy(b, from, len)
    \/ ringbuf_reset(b)

RingSpec == RingInit /\ [][RingNext]_ringVars

-----------------------------------------------------------------------------
\* The two indices never leave the buffer, and the flag is set only when they
\* agree: every copy of ringbuf_put, _get and _peek stays inside data.
RingInv ==
  /\ start \in [Buf -> Nat] /\ end \in [Buf -> Nat] /\ empty \in [Buf -> BOOLEAN]
  /\ data = [b \in Buf |-> data[b]]
  /\ \A b \in Buf :
       /\ start[b] < RingSize[b] /\ end[b] < RingSize[b]
       /\ empty[b] => start[b] = end[b]
       /\ data[b] \in [0 .. RingSize[b] - 1 -> Byte]

Stream == INSTANCE ByteStream WITH stream <- [b \in Buf |-> Content(b)]

\* Each call has the effect and the result of the operation on streams.
Called(call) == result'.call = call

Matches ==
  \A b \in Buf :
    /\ Called("put") => \A n \in 0 .. MaxRingArg : \A bytes \in [1 .. n -> Byte] :
         ringbuf_put(b, bytes) => Stream!Put("put", b, bytes)
    /\ \A len \in 0 .. MaxRingArg :
         /\ Called("get") => (ringbuf_get(b, len) => Stream!Get(b, len))
         /\ Called("peek") => \A offset \in 0 .. MaxRingArg :
              ringbuf_peek(b, offset, len) => Stream!Peek(b, offset, len)
         /\ Called("copy") => \A from \in Buf \ {b} : ringbuf_copy(b, from, len) => Stream!Copy(b, from, len)
    /\ ringbuf_reset(b) => Stream!Reset(b)

\* Wherever the indices are and however often they have wrapped, each call has
\* the effect and the result of the operation on bounded streams: bytes come out
\* once, complete and in the order they went in, and the counts are exact.
ImplementsByteStream == Stream!Init /\ [][UNCHANGED ringVars \/ Matches]_ringVars
=============================================================================
