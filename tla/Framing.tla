-------------------------------- MODULE Framing --------------------------------
(***************************************************************************)
(* How src/event cuts the bytes of a stream into packages: the read buffer *)
(* of an evio_t, evio_handle_read, the calls evio_read_until_length and    *)
(* evio_read_until_delim, and the three modes of unpack.c.  The network    *)
(* delivers the stream in pieces of any size; a package that spans several *)
(* reads waits in the buffer, which grows, shrinks and is compacted.       *)
(*                                                                         *)
(* A byte is a digit of a small base.  In use.unpack the io has an unpack  *)
(* setting, whose callback only consumes; otherwise its read callback asks *)
(* for the next piece with one of use.calls.                               *)
(***************************************************************************)
EXTENDS Integers, Sequences, SequencesExt, FiniteSets

CONSTANTS Base,          \* a byte is one of 0..Base-1
          Uses,          \* the ways the io is used
          ReadBufsize,   \* EVLOOP_READ_BUFSIZE, the size of loop->readbuf
          MoveMin,       \* the 1024 of evio_read_until_length
          MaxVarint      \* the 10 bytes a varint may have

VARIABLES use,           \* the use of the io, fixed
          io,            \* its read buffer, flags and state
          place,         \* "poll", or "cb" inside the callback of evio_handle_read
          returns,       \* the lengths of the packages whose callbacks have yet to return
          stream,        \* history: the bytes received
          frames         \* history: the packages delivered, each with its rule

framingVars == <<use, io, place, returns, stream, frames>>

Byte == 0..Base - 1
Zeros(n) == [i \in 1..n |-> 0]
Lesser(a, b) == IF a < b THEN a ELSE b
Greater(a, b) == IF a > b THEN a ELSE b

\* What a callback may ask for, besides an unpack setting.
ByLength(n) == [mode |-> "length", n |-> n]
ByDelim(b) == [mode |-> "delimiter", delimiter |-> <<b>>]
Anything == [mode |-> "any"]

Unread(r) == SubSeq(r.base, r.head + 1, r.tail)
-----------------------------------------------------------------------------
(* The packages of unpack.c                                                   *)

\* Does d occur in s at the 0-based place p?
At(s, d, p) == SubSeq(s, p + 1, p + Len(d)) = d

\* The loop over the digits of the length field, most significant first or last.
Field(s, set) == SubSeq(s, set.length_field_offset + 1, set.length_field_offset + set.length_field_bytes)
Number(digits) == FoldLeft(LAMBDA n, d : n * Base + d, 0, digits)

\* varint_decode: digits of half the base, least significant first, each but the
\* last with its top bit set.  bytes is 0 when the end is missing, -1 when there
\* are too many.
varint_decode(s) ==
  LET half == Base \div 2
      ends == {i \in 1..Lesser(Len(s), MaxVarint) : s[i] < half}
      n == CHOOSE i \in ends : \A j \in ends : i <= j
  IN  IF ends # {} THEN [bytes |-> n, value |-> FoldLeft(LAMBDA v, d : v * half + (d % half), 0, Reverse(SubSeq(s, 1, n)))]
      ELSE [bytes |-> IF Len(s) >= MaxVarint THEN -1 ELSE 0, value |-> 0]

\* The head of the package at the start of s: its length and whether it is whole
\* ("ok"), not there yet ("short") or malformed ("bad").
Header(s, set) ==
  LET varint == varint_decode(SubSeq(s, set.length_field_offset + 1, Len(s)))
      head == IF set.coding = "varint" THEN set.body_offset + varint.bytes - set.length_field_bytes ELSE set.body_offset
      body == IF set.coding = "varint" THEN varint.value
              ELSE IF set.coding = "big" THEN Number(Field(s, set))
              ELSE Number(Reverse(Field(s, set)))
  IN  IF Len(s) < set.body_offset THEN [is |-> "short", len |-> 0]
      ELSE IF set.coding = "varint" /\ varint.bytes = 0 THEN [is |-> "short", len |-> 0]
      ELSE IF set.coding = "varint" /\ varint.bytes = -1 THEN [is |-> "bad", len |-> 0]
      ELSE [is |-> "ok", len |-> head + body + set.length_adjustment]

\* The packages an unpack function cuts off s, the bytes it keeps, the value of
\* package_len when it stops, and whether it met a malformed length.
Cut(out, rest, package_len, bad) == [out |-> out, rest |-> rest, package_len |-> package_len, bad |-> bad]

evio_unpack_by_fixed_length(s, set) ==
  LET n == set.fixed_length
      count == Len(s) \div n
  IN  Cut([i \in 1..count |-> SubSeq(s, (i - 1) * n + 1, i * n)], SubSeq(s, count * n + 1, Len(s)), 0, FALSE)

\* Looks for the delimiter from the 0-based place p on, in a package that starts
\* at sp.
RECURSIVE Search(_, _, _, _, _)
Search(s, d, sp, p, out) ==
  IF Len(s) - p < Len(d) THEN Cut(out, SubSeq(s, sp + 1, Len(s)), 0, FALSE)
  ELSE IF At(s, d, p) THEN Search(s, d, p + Len(d), p + Len(d), Append(out, SubSeq(s, sp + 1, p + Len(d))))
  ELSE Search(s, d, sp, p + 1, out)


\* The first readbytes - Len(d) + 1 bytes that were there before are searched
\* again: the delimiter may have arrived in two reads.
evio_unpack_by_delimiter(s, readbytes, set) ==
  Search(s, set.delimiter, 0, Greater(0, Len(s) - readbytes - Len(set.delimiter) + 1), <<>>)

RECURSIVE evio_unpack_by_length_field(_, _, _, _)
evio_unpack_by_length_field(s, set, out, package_len) ==
  LET h == Header(s, set) IN
  IF h.is # "ok" THEN Cut(out, s, package_len, h.is = "bad")
  ELSE IF Len(s) < h.len THEN Cut(out, s, h.len, FALSE)
  ELSE evio_unpack_by_length_field(SubSeq(s, h.len + 1, Len(s)), set, Append(out, SubSeq(s, 1, h.len)), h.len)

evio_unpack(s, readbytes, set) ==
  CASE set.mode = "fixed"     -> evio_unpack_by_fixed_length(s, set)
    [] set.mode = "delimiter" -> evio_unpack_by_delimiter(s, readbytes, set)
    [] set.mode = "field"     -> evio_unpack_by_length_field(s, set, <<>>, set.body_offset)
-----------------------------------------------------------------------------
(* The read buffer                                                            *)

\* ev_zrealloc keeps what fits and clears the rest; a first buffer of its own
\* starts empty.  An io that asks for too much is closed by a posted event, which
\* the loop runs before it reads again: the eventfd has a high priority.
evio_alloc_readbuf(r, len) ==
  IF len > r.max THEN [r EXCEPT !.open = FALSE]
  ELSE [r EXCEPT !.base = IF r.own THEN [i \in 1..len |-> IF i <= Len(@) THEN @[i] ELSE 0] ELSE Zeros(len),
                 !.own = TRUE, !.small = 0]

evio_memmove_readbuf(r) ==
  LET kept == Unread(r) IN
  [r EXCEPT !.base = kept \o SubSeq(@, Len(kept) + 1, Len(@)), !.head = 0, !.tail = Len(kept)]

Emptied(r) == IF r.head = r.tail THEN [r EXCEPT !.head = 0, !.tail = 0] ELSE r

\* The end of evio_handle_read.
Autosize(r) ==
  LET e == Emptied(r)
      small_size == Len(e.base) \div 2
  IN  IF e.tail = Len(e.base)
      THEN IF e.head = 0 THEN evio_alloc_readbuf(e, Len(e.base) * 2) ELSE evio_memmove_readbuf(e)
      ELSE IF e.tail < small_size /\ e.small >= 3 THEN evio_alloc_readbuf(e, small_size)
      ELSE e

\* The end of evio_read_cb, after the callback for len bytes.
CountSmall(r, len) ==
  IF r.own /\ Len(r.base) > use.high
  THEN [r EXCEPT !.small = IF len < Len(r.base) \div 2 THEN Lesser(@ + 1, 3) ELSE 0]
  ELSE r
CountAll(r, lens) == FoldLeft(CountSmall, r, lens)

\* What evio_unpack_by_* do to the buffer after their loop, kept bytes first.
Kept(r, cut) ==
  [CountAll(r, [i \in DOMAIN cut.out |-> Len(cut.out[i])])
     EXCEPT !.base = cut.rest \o SubSeq(@, Len(cut.rest) + 1, Len(@)), !.head = 0, !.tail = Len(cut.rest)]

\* Their limits: a package that cannot fit closes the io, one that does not fit
\* yet gets a greater buffer.
Limited(r, cut, set) ==
  LET len == Len(r.base)
      full == cut.rest # <<>> /\ IF set.mode = "delimiter" THEN r.tail = len ELSE cut.package_len > len
      over == IF set.mode = "delimiter" THEN len >= set.package_max_length ELSE cut.package_len > set.package_max_length
      newsize == IF set.mode = "delimiter" THEN Lesser(len * 2, set.package_max_length)
                 ELSE Greater(cut.package_len, Lesser(len * 2, set.package_max_length))
  IN  IF cut.bad \/ (full /\ over) THEN [r EXCEPT !.open = FALSE]
      ELSE IF full THEN evio_alloc_readbuf(r, newsize)
      ELSE r
-----------------------------------------------------------------------------
(* Reading                                                                    *)

Poll == [at |-> "poll", auto |-> FALSE]

\* How much nio_read asks for.
Room(r) == IF r.rule.mode = "length" THEN r.rule.n - (r.tail - r.head) ELSE Len(r.base) - r.tail

\* read(2) returns n of the bytes asked for.
Received(r, bytes) ==
  [r EXCEPT !.base = SubSeq(@, 1, r.tail) \o bytes \o SubSeq(@, r.tail + Len(bytes) + 1, Len(@)),
            !.tail = @ + Len(bytes)]

Delivered(rule, data) == frames' = Append(frames, [rule |-> rule, data |-> data])

\* evio_read_cb: a read that was to happen once stops.
Stopped(r) == IF r.once THEN [r EXCEPT !.once = FALSE, !.reading = FALSE] ELSE r

\* evio_handle_read with an unpack setting.
HandleUnpack(r, readbytes) ==
  LET cut == evio_unpack(Unread(r), readbytes, use.unpack)
      kept == IF use.unpack.mode = "fixed" THEN Kept(r, cut) ELSE Limited(Kept(r, cut), cut, use.unpack)
  IN  /\ frames' = frames \o [i \in DOMAIN cut.out |-> [rule |-> use.unpack, data |-> cut.out[i]]]
      /\ io' = IF kept.open THEN Autosize(kept) ELSE kept
      /\ UNCHANGED <<place, returns>>

\* evio_handle_read for evio_read_until_length, evio_read_until_delim, evio_read.
HandleRead(r, readbytes) ==
  LET data == Unread(r)
      ends == {i \in Len(data) - readbytes + 1..Len(data) : data[i] = r.rule.delimiter[1]}
      n == CHOOSE i \in ends : \A j \in ends : i <= j
      Call(len, auto) ==
        /\ io' = Stopped([Emptied([r EXCEPT !.head = @ + len]) EXCEPT !.rule = Anything])
        /\ Delivered(r.rule, SubSeq(data, 1, len))
        /\ returns' = <<len>>
        /\ place' = [at |-> "cb", auto |-> auto]
      Wait == io' = Autosize(r) /\ UNCHANGED <<place, returns, frames>>
  IN  CASE r.rule.mode = "length"    -> IF Len(data) >= r.rule.n THEN Call(r.rule.n, TRUE) ELSE Wait
        [] r.rule.mode = "delimiter" -> IF ends # {} THEN Call(n, FALSE) ELSE Wait
        [] OTHER                     -> Call(Len(data), TRUE)

nio_read ==
  /\ place = Poll /\ io.open /\ io.reading
  /\ \E n \in 1..Lesser(Room(io), use.bytes - Len(stream)) : \E bytes \in [1..n -> use.alphabet] :
       /\ stream' = stream \o bytes
       /\ IF use.unpack.mode = "none" THEN HandleRead(Received(io, bytes), n)
          ELSE HandleUnpack(Received(io, bytes), n)
  /\ UNCHANGED use
-----------------------------------------------------------------------------
(* The calls that ask for the next piece, in the callback or before it        *)

Asks == /\ io.open /\ use.unpack.mode = "none"
        /\ place.at = "cb" \/ (place = Poll /\ ~io.reading)

\* The bytes are there: the callback is called at once, inside the caller.
AtOnce(r, rule, len) ==
  /\ io' = Emptied([r EXCEPT !.head = @ + len])
  /\ Delivered(rule, SubSeq(r.base, r.head + 1, r.head + len))
  /\ returns' = Append(returns, len)
  /\ place' = [place EXCEPT !.at = "cb"]

\* evio_read_once: the last thing the callback does here.
Wanted(r, rule) ==
  /\ io' = [r EXCEPT !.rule = rule, !.once = TRUE, !.reading = TRUE]
  /\ place' = [place EXCEPT !.at = "return"]
  /\ UNCHANGED <<returns, frames>>

evio_read_until_length(n) ==
  LET unread == io.tail - io.head
      r == IF io.head > MoveMin \/ unread < MoveMin THEN evio_memmove_readbuf(io) ELSE io
      need_len == r.head + n
  IN  /\ Asks
      /\ IF unread >= n THEN AtOnce(io, ByLength(n), n)
         ELSE Wanted(IF ~r.own \/ Len(r.base) < need_len THEN evio_alloc_readbuf(r, need_len) ELSE r, ByLength(n))
      /\ UNCHANGED <<use, stream>>

\* The loop of evio_read_until_delim looks at one byte more than the buffer holds
\* unread (p <= ep): a byte of an earlier read, or one that is not the buffer's.
\* Left out are calls with part of a line in the buffer: that byte may be taken for
\* its end, and a full buffer is not made free for the rest.
evio_read_until_delim(b) ==
  LET Past == IF io.tail < Len(io.base) THEN {io.base[io.tail + 1]} ELSE Byte
      r == IF ~io.own \/ Len(io.base) < ReadBufsize THEN evio_alloc_readbuf(io, ReadBufsize) ELSE io
  IN  /\ Asks
      /\ io.head = io.tail \/ Contains(Unread(io), b)
      /\ \E past \in Past :
         LET seen == IF io.head = io.tail THEN <<>> ELSE Append(Unread(io), past)
             ends == {i \in DOMAIN seen : seen[i] = b}
             n == CHOOSE i \in ends : \A j \in ends : i <= j
         IN  IF ends = {} THEN Wanted(r, ByDelim(b))
             ELSE /\ io' = Emptied([io EXCEPT !.head = @ + n])
                  /\ Delivered(ByDelim(b), SubSeq(seen, 1, n))
                  /\ returns' = Append(returns, n)
                  /\ place' = [place EXCEPT !.at = "cb"]
      /\ UNCHANGED <<use, stream>>

\* evio_read, with evio_read_remain.
evio_read ==
  /\ Asks
  /\ IF io.tail > io.head THEN AtOnce([io EXCEPT !.reading = TRUE], Anything, io.tail - io.head)
     ELSE /\ io' = [io EXCEPT !.reading = TRUE]
          /\ place' = [place EXCEPT !.at = "return"]
          /\ UNCHANGED <<returns, frames>>
  /\ UNCHANGED <<use, stream>>

\* The callbacks return, the innermost first, to evio_read_cb and then to
\* evio_handle_read, which leaves without the autosize when it met a delimiter.
Return ==
  /\ place.at \in {"cb", "return"}
  /\ LET r == CountAll(io, Reverse(returns)) IN io' = IF place.auto THEN Autosize(r) ELSE r
  /\ returns' = <<>>
  /\ place' = Poll
  /\ UNCHANGED <<use, stream, frames>>

\* evio_ready, and evio_set_unpack when the io has a setting.
FramingInit ==
  /\ use \in Uses
  /\ io = LET set == use.unpack
              len == CASE set.mode = "none" -> ReadBufsize
                       [] set.mode = "fixed" -> set.fixed_length
                       [] OTHER -> Lesser(ReadBufsize, set.package_max_length)
          IN  [base |-> Zeros(len), head |-> 0, tail |-> 0, own |-> set.mode # "none", small |-> 0,
               rule |-> IF set.mode = "none" THEN Anything ELSE set, once |-> FALSE,
               reading |-> set.mode # "none", open |-> TRUE,
               max |-> IF set.mode = "none" THEN use.max ELSE set.package_max_length]
  /\ place = Poll /\ returns = <<>> /\ stream = <<>> /\ frames = <<>>

FramingNext ==
  \/ nio_read \/ evio_read \/ Return
  \/ \E n \in use.lengths : evio_read_until_length(n)
  \/ \E b \in use.delims : evio_read_until_delim(b)

FramingSpec == FramingInit /\ [][FramingNext]_framingVars
-----------------------------------------------------------------------------
(* Properties                                                                 *)

\* Is s one whole package?
Whole(s, rule) ==
  CASE rule.mode = "length"    -> Len(s) = rule.n
    [] rule.mode = "fixed"     -> Len(s) = rule.fixed_length
    [] rule.mode = "delimiter" -> LET d == rule.delimiter IN
         /\ Len(s) >= Len(d) /\ At(s, d, Len(s) - Len(d))
         /\ \A p \in 0..Len(s) - Len(d) - 1 : ~At(s, d, p)
    [] rule.mode = "field"     -> LET h == Header(s, rule) IN h.is = "ok" /\ h.len = Len(s)
    [] OTHER                   -> s # <<>>

Payload == FlattenSeq([i \in DOMAIN frames |-> frames[i].data])
Rest == SubSeq(stream, Len(Payload) + 1, Len(stream))

\* An io with an unpack setting is closed exactly for packages that are malformed
\* or longer than package_max_length, and never delivers one that is.
LimitExact ==
  use.unpack.mode # "none" =>
    LET max == use.unpack.package_max_length
        h == Header(Rest, use.unpack)
    IN  /\ \A i \in DOMAIN frames : Len(frames[i].data) <= max
        /\ ~io.open => \/ Len(Rest) >= max
                       \/ use.unpack.mode = "field" /\ (h.is = "bad" \/ h.len > max)
        /\ Len(io.base) <= max

=============================================================================
