------------------------------ MODULE OutBuffer ------------------------------
(***************************************************************************)
(* The output buffer of src/container/buffer.c: a list of chunks of equal  *)
(* size, filled at the tail and written to a non-blocking descriptor from  *)
(* the head.  A byte is a number; LF and CR are two of them.  A short      *)
(* write, a write that would block and a failed write are choices of the   *)
(* descriptor.                                                             *)
(***************************************************************************)
EXTENDS Integers, Sequences, SequencesExt

CONSTANTS Size,             \* the size of a chunk
          MaxChunks,        \* MAX_CHUNKS: the iovec of one writev
          MaxFlush,         \* MAX_FLUSH: bytes after which a writev takes no more
          MaxPut,           \* bound: bytes of one call
          MaxBytes          \* bound: bytes put over a behaviour

VARIABLES buf,              \* the chunks: data, and sp bytes of it flushed
          wire,             \* what the descriptor took
          accepted,         \* what the calls undertook to write
          status,           \* what the last call returned
          flushing          \* inside buffer_flush_all

vars == <<buf, wire, accepted, status, flushing>>

LF == -1
CR == -2

\* buffer_new
Init == buf = <<>> /\ wire = <<>> /\ accepted = <<>> /\ status = "none" /\ flushing = FALSE

\* The unread bytes of the chunks in order, as buffer_getstr copies them.
Pending(b) == FlattenSeq([i \in DOMAIN b |-> SubSeq(b[i].data, b[i].sp + 1, Len(b[i].data))])

\* The buffer with room in its last chunk: buffer_add where there is none.
Roomy(b) ==
  IF b = <<>> \/ Len(b[Len(b)].data) = Size THEN Append(b, [data |-> <<>>, sp |-> 0]) ELSE b

Avail(b) == Size - Len(b[Len(b)].data)
Fill(b, s) == [b EXCEPT ![Len(b)].data = @ \o s]

RECURSIVE Put(_, _)
Put(b, s) ==
  IF s = <<>> THEN b
  ELSE LET r == Roomy(b)
           chunk == IF Len(s) <= Avail(r) THEN Len(s) ELSE Avail(r)
       IN Put(Fill(r, SubSeq(s, 1, chunk)), SubSeq(s, chunk + 1, Len(s)))

PutCrlfTight(b, s) ==
  LET r == Roomy(b) IN IF s = <<>> THEN b ELSE Fill(r, s)

\* buffer_put_crlf: up to a line feed or the end of the chunk, then CR and LF.
RECURSIVE PutCrlf(_, _)
PutCrlf(b, s) ==
  IF s = <<>> THEN b
  ELSE LET r == Roomy(b)
           lf == SelectInSeq(s, LAMBDA x : x = LF)
           size == IF lf = 0 THEN Len(s) ELSE lf - 1
           chunk == IF size <= Avail(r) THEN size ELSE Avail(r)
           filled == Fill(r, SubSeq(s, 1, chunk))
           ended == Fill(Roomy(Fill(Roomy(filled), <<CR>>)), <<LF>>)
       IN IF lf # 0 /\ size <= Avail(r) THEN PutCrlf(ended, SubSeq(s, lf + 1, Len(s)))
          ELSE PutCrlf(filled, SubSeq(s, chunk + 1, Len(s)))

\* The bytes a caller may write next: numbered in order, some of them LF.
Texts ==
  {[i \in 1 .. n |-> IF i \in lfs THEN LF ELSE Len(accepted) + i] :
     n \in 1 .. MaxPut, lfs \in SUBSET (1 .. MaxPut)}

Bounded(s) == Len(accepted) + Len(s) <= MaxBytes

\* buffer_put, buffer_putc and buffer_putstr
buffer_put(s) ==
  /\ buf' = Put(buf, s) /\ accepted' = accepted \o s /\ status' = "none"
  /\ UNCHANGED <<wire, flushing>>

buffer_put_crlf(s) ==
  /\ buf' = PutCrlf(buf, s)
  /\ accepted' = accepted \o FlattenSeq([i \in DOMAIN s |-> IF s[i] = LF THEN <<CR, LF>> ELSE <<s[i]>>])
  /\ status' = "none"
  /\ UNCHANGED <<wire, flushing>>

\* buffer_reset drops what is not written.
buffer_reset ==
  buf' = <<>> /\ accepted' = wire /\ status' = "none" /\ UNCHANGED <<wire, flushing>>

Unflushed(c) == Len(c.data) - c.sp

\* The bytes of the chunks that one writev is given.
Gathered(b) ==
  LET Upto(i) == Len(Pending(SubSeq(b, 1, i)))
      taken == {i \in DOMAIN b : i <= MaxChunks /\ Upto(i - 1) < MaxFlush}
  IN IF taken = {} THEN 0 ELSE Upto(CHOOSE i \in taken : \A j \in taken : j <= i)

\* What is written goes from the head, and a chunk that is done is freed.
RECURSIVE Flushed(_, _)
Flushed(b, written) ==
  IF written = 0 THEN b
  ELSE IF written < Unflushed(b[1]) THEN [b EXCEPT ![1].sp = @ + written]
  ELSE Flushed(Tail(b), written - Unflushed(b[1]))

Left(b) == IF b = <<>> THEN "empty" ELSE "pending"

buffer_flush_available ==
  /\ \/ Gathered(buf) = 0 /\ status' = "empty" /\ UNCHANGED <<buf, wire>>
     \/ \E written \in 0 .. Gathered(buf) :
          /\ Gathered(buf) # 0
          /\ wire' = wire \o SubSeq(Pending(buf), 1, written)
          /\ buf' = Flushed(buf, written)
          /\ status' = Left(buf')
     \/ Gathered(buf) # 0 /\ status' \in {"pending", "error"} /\ UNCHANGED <<buf, wire>>
  /\ UNCHANGED accepted

\* buffer_flush_all calls buffer_flush_available until the buffer is empty, an
\* error, or a call that wrote nothing (unless it was interrupted).
buffer_flush_all == buf # <<>> /\ flushing' = TRUE /\ UNCHANGED <<buf, wire, accepted, status>>

FlushStep ==
  /\ buffer_flush_available
  /\ flushing' \in IF status' # "pending" THEN {FALSE} ELSE IF buf' = buf THEN BOOLEAN ELSE {TRUE}

buffer_write(s) ==
  /\ UNCHANGED flushing
  /\ \/ \E written \in IF buf # <<>> THEN {0} ELSE 0 .. Len(s) :
          /\ wire' = wire \o SubSeq(s, 1, written)
          /\ buf' = Put(buf, SubSeq(s, written + 1, Len(s)))
          /\ accepted' = accepted \o s
          /\ status' = Left(buf')
     \/ buf = <<>> /\ status' = "error" /\ UNCHANGED <<buf, wire, accepted>>

Next ==
  \/ /\ ~flushing
     /\ \/ \E s \in Texts : Bounded(s) /\ (buffer_put(s) \/ buffer_put_crlf(s) \/ buffer_write(s))
        \/ buffer_reset
        \/ buffer_flush_available /\ UNCHANGED flushing
        \/ buffer_flush_all
  \/ flushing /\ FlushStep

Spec == Init /\ [][Next]_vars

-----------------------------------------------------------------------------
\* What the descriptor took, followed by what is buffered, is what the calls
\* were given: no byte is lost, written twice or out of order through short
\* writes, full chunks and line feeds at the end of a chunk.
StreamKept == wire \o Pending(buf) = accepted

\* buffer.c: "It should always be true that: 0 <= sp <= cp <= size".  A chunk
\* in the list also has bytes left, which is why no bytes to gather means an
\* empty buffer, and the status a call returns says whether it is.
ChunksFit ==
  /\ \A i \in DOMAIN buf : 0 <= buf[i].sp /\ buf[i].sp < Len(buf[i].data) /\ Len(buf[i].data) <= Size
  /\ status = "empty" => buf = <<>>
  /\ status = "pending" => buf # <<>>
=============================================================================
