------------------------------ MODULE ByteStream ------------------------------
(***************************************************************************)
(* What ringbuf.h promises: the operations of bounded streams of bytes.    *)
(***************************************************************************)
EXTENDS Naturals, Sequences

CONSTANTS Buf, RingSize
VARIABLES stream, result    \* the bytes of each stream; the last call and what it returned

Prefix(s, n) == SubSeq(s, 1, IF n < Len(s) THEN n ELSE Len(s))
Rest(s, n) == SubSeq(s, n + 1, Len(s))
Space(b) == RingSize[b] - Len(stream[b])

Init == stream = [b \in Buf |-> <<>>] /\ result = [call |-> "new", count |-> 0, bytes |-> <<>>]

\* As many of the bytes as there is space for are appended.
Put(call, b, bytes) ==
  LET some == Prefix(bytes, Space(b)) IN
  /\ stream' = [stream EXCEPT ![b] = @ \o some]
  /\ result' = [call |-> call, count |-> Len(some), bytes |-> <<>>]

\* The oldest bytes are taken.
Get(b, len) ==
  LET some == Prefix(stream[b], len) IN
  /\ stream' = [stream EXCEPT ![b] = Rest(@, Len(some))]
  /\ result' = [call |-> "get", count |-> Len(some), bytes |-> some]

\* Bytes are read and stay.
Peek(b, offset, len) ==
  LET some == Prefix(Rest(stream[b], offset), len) IN
  result' = [call |-> "peek", count |-> Len(some), bytes |-> some] /\ UNCHANGED stream

\* The oldest bytes of one stream are appended to another and stay.
Copy(to, from, len) == Put("copy", to, Prefix(stream[from], len))

Reset(b) == stream' = [stream EXCEPT ![b] = <<>>] /\ result' = [call |-> "reset", count |-> 0, bytes |-> <<>>]
=============================================================================
