--------------------------------- MODULE EvIO ---------------------------------
(***************************************************************************)
(* The life of a stream connection in src/event/nio.c: opening, writing    *)
(* through the write queue, and closing, at once, after the queue has      *)
(* drained, on a timeout, or through a posted event.                       *)
(*                                                                         *)
(* evio_get keeps one evio_t per file descriptor and uses it again for     *)
(* every connection that gets the descriptor, so the module follows one    *)
(* evio_t through several connections.  A thread of the loop runs the      *)
(* handlers; another thread calls evio_write and evio_close.  A critical   *)
(* section of io->write_mutex is one step; in nio_write the loop holds the *)
(* mutex over its callbacks, which is the place "writing".                 *)
(***************************************************************************)
EXTENDS Integers, Sequences, FiniteSets, SequencesExt

CONSTANTS MaxConns,      \* bound on the connections that use the descriptor
          Sizes,         \* the lengths of the buffers written
          MaxCalls,      \* bound on the calls of evio_write, and of the other thread
          MaxBufsize,    \* io->max_write_bufsize
          Racing         \* may the other thread's calls overlap evio_close?

ASSUME EvIOAssumption == MaxConns \in Nat /\ Sizes \subseteq Nat /\ Racing \in BOOLEAN

VARIABLES io,            \* the evio_t
          ids,           \* the last id evio_next_id gave
          kern,          \* the connection behind the descriptor, 0: it is closed
          opened,        \* the connections opened so far
          wire,          \* wire[n]: the bytes the kernel took on connection n
          given,         \* given[n]: the number of bytes passed to evio_write for n
          posted,        \* the posted close and connect events
          timers,        \* the armed connect and close timers
          place,         \* where the thread of the loop is
          other,         \* where the other thread is
          calls,         \* these calls, counted
          cause,         \* history: why connection n has to close
          closecb        \* history: the calls of n's close_cb

vars == <<io, ids, kern, opened, wire, given, posted, timers, place, other, calls, cause, closecb>>

Conns == 1..MaxConns
Timers == 1..(2 * MaxConns + 1)
Resting == [pc |-> "rest", conn |-> 0, len |-> 0]

EAGAIN == -1
EFAULT == -2             \* stands for every errno but EAGAIN

Init ==
  /\ io = [ready |-> FALSE, closed |-> FALSE, close |-> FALSE, error |-> FALSE, connect |-> FALSE,
           id |-> 0, events |-> {}, queue |-> <<>>, bufsize |-> 0, connect_timer |-> 0, close_timer |-> 0]
  /\ ids = 0 /\ kern = 0 /\ opened = 0 /\ calls = 0
  /\ wire = [n \in Conns |-> <<>>] /\ given = [n \in Conns |-> 0]
  /\ posted = <<>> /\ timers = {}
  /\ place = "poll" /\ other = Resting
  /\ cause = [n \in Conns |-> {}] /\ closecb = [n \in Conns |-> 0]
-----------------------------------------------------------------------------
(* event.c and eventloop.c: the evio_t                                        *)

\* evio_ready forgets the timers without deleting them.
evio_ready(r) ==
  IF r.ready THEN r
  ELSE [ready |-> TRUE, closed |-> FALSE, close |-> FALSE, error |-> FALSE, connect |-> FALSE,
        id |-> ids + 1, events |-> {}, queue |-> r.queue, bufsize |-> 0,
        connect_timer |-> 0, close_timer |-> 0]

\* evio_next_id gave r its id, if evio_ready ran.
Numbered(r) == ids' = IF r.id > ids THEN r.id ELSE ids

\* io->active is io->events # {} here, and is left out.
evio_add(r, ev) == [evio_ready(r) EXCEPT !.events = @ \cup {ev}]
evio_del(r, evs) == [r EXCEPT !.events = @ \ evs]

\* evtimer_add gives a timer that no armed one is.
NewTimer == CHOOSE t \in Timers : \A a \in timers : a.no # t
Arm(kind) == timers \cup {[kind |-> kind, no |-> NewTimer]}
evtimer_del(no) == {a \in timers : a.no # no}

Post(kind, id) == posted' = Append(posted, [kind |-> kind, id |-> id])
Because(n, why) == cause' = IF n = 0 THEN cause ELSE [cause EXCEPT ![n] = @ \cup {why}]
-----------------------------------------------------------------------------
(* Opening                                                                    *)

\* The descriptor of a new connection is free in the kernel; evio_get finds the
\* evio_t of the descriptor, and the callback of accept starts to read.
Open == /\ place = "poll" /\ kern = 0 /\ opened < MaxConns
        /\ opened' = opened + 1
        /\ kern' = opened + 1
        /\ Numbered(evio_ready(io))

nio_accept ==
  /\ Open
  /\ io' = evio_add(io, "read")
  /\ UNCHANGED <<wire, given, posted, timers, place, other, calls, cause, closecb>>

evio_connect ==
  /\ Open
  /\ LET r == evio_ready(io) IN
     \/ /\ io' = [r EXCEPT !.error = TRUE]
        /\ Post("close", r.id)
        /\ Because(opened + 1, "cut")
        /\ UNCHANGED timers
     \/ /\ io' = r
        /\ Post("connect", r.id)
        /\ UNCHANGED <<timers, cause>>
     \/ /\ io' = [evio_add(r, "write") EXCEPT !.connect = TRUE, !.connect_timer = NewTimer]
        /\ timers' = Arm("connect")
        /\ UNCHANGED <<posted, cause>>
  /\ UNCHANGED <<wire, given, place, other, calls, closecb>>

\* getpeername fails on a descriptor that is closed, and may fail on another;
\* connect_cb starts to read.
nio_connect(r) ==
  \/ /\ kern # 0
     /\ timers' = evtimer_del(r.connect_timer)
     /\ io' = evio_add([r EXCEPT !.connect_timer = 0], "read")
     /\ UNCHANGED <<place, cause>>
  \/ /\ io' = [r EXCEPT !.error = TRUE]
     /\ place' = "close"
     /\ Because(kern, "cut")
     /\ UNCHANGED timers
-----------------------------------------------------------------------------
(* Writing                                                                    *)

\* What write(2) may return for len bytes.
Returns(r, len) ==
  IF kern = 0 THEN {EFAULT}
  ELSE IF r.connect THEN {EAGAIN}
  ELSE {EAGAIN, EFAULT} \cup (IF len = 0 THEN {0} ELSE 1..len)

Bytes(n, from, len) == [i \in 1..len |-> <<n, from + i>>]
Sent(n, from, len) ==
  wire' = IF kern = 0 THEN wire ELSE [wire EXCEPT ![kern] = @ \o Bytes(n, from, len)]

\* Mutant: evio_write tries to write although bytes are queued.
LockedDirect(r, n, len, ret) ==
  LET tried == TRUE
      nwrite == IF tried /\ ret > 0 THEN ret ELSE 0
      bad == tried /\ ret \in {EFAULT, 0}
      added == IF tried /\ ~bad /\ (ret = EAGAIN \/ nwrite < len) THEN evio_add(r, "write") ELSE r
      over == added.bufsize + len - nwrite > MaxBufsize
      rest == [conn |-> n, from |-> given[n] + nwrite, len |-> len - nwrite]
  IN  IF bad THEN [io |-> [r EXCEPT !.error = @ \/ ret = EFAULT], sent |-> 0, ok |-> FALSE]
      ELSE IF nwrite = len THEN [io |-> added, sent |-> nwrite, ok |-> TRUE]
      ELSE IF over THEN [io |-> added, sent |-> nwrite, ok |-> FALSE]
      ELSE [io |-> [added EXCEPT !.queue = Append(@, rest), !.bufsize = @ + rest.len],
            sent |-> nwrite, ok |-> TRUE]

\* Mutant: a buffer that was written whole is queued too.
LockedEmpty(r, n, len, ret) ==
  LET tried == r.queue = <<>>
      nwrite == IF tried /\ ret > 0 THEN ret ELSE 0
      bad == tried /\ ret \in {EFAULT, 0}
      added == IF tried /\ ~bad /\ (ret = EAGAIN \/ nwrite < len) THEN evio_add(r, "write") ELSE r
      over == added.bufsize + len - nwrite > MaxBufsize
      rest == [conn |-> n, from |-> given[n] + nwrite, len |-> len - nwrite]
  IN  IF bad THEN [io |-> [r EXCEPT !.error = @ \/ ret = EFAULT], sent |-> 0, ok |-> FALSE]
      ELSE IF over THEN [io |-> added, sent |-> nwrite, ok |-> FALSE]
      ELSE [io |-> [added EXCEPT !.queue = Append(@, rest), !.bufsize = @ + rest.len],
            sent |-> nwrite, ok |-> TRUE]

\* The part of evio_write under the mutex, for len bytes of connection n that
\* follow the given ones: ret is what write(2) returns when it is called.
Locked(r, n, len, ret) ==
  LET tried == r.queue = <<>>
      nwrite == IF tried /\ ret > 0 THEN ret ELSE 0
      bad == tried /\ ret \in {EFAULT, 0}
      added == IF tried /\ ~bad /\ (ret = EAGAIN \/ nwrite < len) THEN evio_add(r, "write") ELSE r
      over == added.bufsize + len - nwrite > MaxBufsize
      rest == [conn |-> n, from |-> given[n] + nwrite, len |-> len - nwrite]
  IN  IF bad THEN [io |-> [r EXCEPT !.error = @ \/ ret = EFAULT], sent |-> 0, ok |-> FALSE]
      ELSE IF nwrite = len THEN [io |-> added, sent |-> nwrite, ok |-> TRUE]
      ELSE IF over THEN [io |-> added, sent |-> nwrite, ok |-> FALSE]
      ELSE [io |-> [added EXCEPT !.queue = Append(@, rest), !.bufsize = @ + rest.len],
            sent |-> nwrite, ok |-> TRUE]

CountCall == calls < MaxCalls /\ calls' = calls + 1
Given(n, len) == given' = [given EXCEPT ![n] = @ + len]

\* evio_write called in the thread of the loop, by a callback of something else.
\* Its own write_cb comes last, and what that does is a step of its own.
evio_write(len) ==
  /\ place = "poll" /\ kern # 0 /\ ~io.closed
  /\ CountCall /\ Given(kern, len)
  /\ \E ret \in Returns(io, len) :
       LET done == Locked(io, kern, len, ret) IN
       /\ io' = done.io
       /\ Numbered(done.io)
       /\ Sent(kern, given[kern], done.sent)
       /\ IF done.ok THEN UNCHANGED <<posted, cause>>
          ELSE Post("close", done.io.id) /\ Because(kern, "write")
  /\ UNCHANGED <<kern, opened, timers, place, other, closecb>>

\* Mutant: EV_WRITE is deleted whatever the queue holds.
WritableDeletes ==
  /\ place = "poll" /\ kern # 0 /\ "write" \in io.events
  /\ LET r == evio_del(io, {"write"}) IN
     IF io.connect THEN nio_connect([r EXCEPT !.connect = FALSE])
     ELSE io' = r /\ place' = "writing" /\ UNCHANGED <<timers, cause>>
  /\ UNCHANGED <<ids, kern, opened, wire, given, posted, other, calls, closecb>>

\* evio_handle_events for a writable descriptor.
Writable ==
  /\ place = "poll" /\ kern # 0 /\ "write" \in io.events
  /\ LET r == IF io.queue = <<>> THEN evio_del(io, {"write"}) ELSE io IN
     IF io.connect THEN nio_connect([r EXCEPT !.connect = FALSE])
     ELSE io' = r /\ place' = "writing" /\ UNCHANGED <<timers, cause>>
  /\ UNCHANGED <<ids, kern, opened, wire, given, posted, other, calls, closecb>>

Apart == Racing \/ other = Resting

\* Mutant: the test of io->close is inverted.
DeferrableAgain(r) == ~r.error /\ r.close

Deferrable(r) == ~r.error /\ ~r.close

\* Mutant: no timer is armed.
DeferUntimed(r) == io' = [r EXCEPT !.close = TRUE] /\ UNCHANGED timers

Defer(r) == /\ io' = [r EXCEPT !.close = TRUE, !.close_timer = NewTimer]
            /\ timers' = Arm("close")

\* What write_cb does in nio_write, before the written buffer leaves the queue:
\* nothing, close the io, or write more.  The queue is not empty, so the close is
\* deferred and the write is queued.  An io that is closing already is not closed
\* again here: nio_write would free the buffer a second time.
write_cb(r) ==
  \/ io' = r /\ UNCHANGED <<timers, cause, calls, given, posted>>
  \/ /\ Apart /\ Deferrable(r)
     /\ Defer(r)
     /\ Because(kern, "asked")
     /\ UNCHANGED <<calls, given, posted>>
  \/ \E len \in Sizes :
       LET more == [conn |-> kern, from |-> given[kern], len |-> len]
       IN  /\ CountCall /\ Given(kern, len)
           /\ \/ len = 0 /\ io' = r /\ UNCHANGED <<posted, cause>>
              \/ /\ len > 0 /\ r.bufsize + len > MaxBufsize
                 /\ io' = r
                 /\ Post("close", r.id) /\ Because(kern, "write")
              \/ /\ len > 0 /\ r.bufsize + len <= MaxBufsize
                 /\ io' = [r EXCEPT !.queue = Append(@, more), !.bufsize = @ + len]
                 /\ UNCHANGED <<posted, cause>>
           /\ UNCHANGED timers

\* One round of the loop in nio_write, with the mutex held.
nio_write ==
  /\ place = "writing"
  /\ \/ /\ io.queue = <<>>
        /\ io' = [io EXCEPT !.close = FALSE]
        /\ place' = IF io.close THEN "close" ELSE "poll"
        /\ UNCHANGED <<wire, given, posted, timers, calls, cause>>
     \/ /\ io.queue # <<>>
        /\ LET pbuf == Head(io.queue) IN \E ret \in Returns(io, pbuf.len) :
           \/ /\ ret = EAGAIN
              /\ place' = "poll"
              /\ UNCHANGED <<io, wire, given, posted, timers, calls, cause>>
           \/ /\ ret \in {EFAULT, 0}
              /\ io' = [io EXCEPT !.error = @ \/ ret = EFAULT]
              /\ place' = "close"
              /\ Because(kern, "cut")
              /\ UNCHANGED <<wire, given, posted, timers, calls>>
           \/ /\ ret > 0
              /\ Sent(pbuf.conn, pbuf.from, ret)
              /\ write_cb([io EXCEPT !.bufsize = @ - ret,
                   !.queue = IF ret = pbuf.len THEN Tail(@)
                             ELSE [@ EXCEPT ![1].from = @ + ret, ![1].len = @ - ret]])
              /\ place' = IF ret = pbuf.len THEN "writing" ELSE "poll"
  /\ UNCHANGED <<ids, kern, opened, other, closecb>>
-----------------------------------------------------------------------------
(* Closing                                                                    *)

\* evio_close called in the thread of the loop, for the reason why.
Closing(why) == place' = "close" /\ Because(kern, why)

AppClose ==
  /\ place = "poll" /\ kern # 0 /\ ~io.closed
  /\ Closing(IF io.close THEN "cut" ELSE "asked")
  /\ UNCHANGED <<io, ids, kern, opened, wire, given, posted, timers, other, calls, closecb>>

\* nio_read finds that the peer has closed the connection, or an error.
nio_read ==
  /\ place = "poll" /\ kern # 0 /\ "read" \in io.events
  /\ \/ io' = io /\ Closing(IF io.close THEN "cut" ELSE "asked")
     \/ io' = [io EXCEPT !.error = TRUE] /\ Closing("cut")
  /\ UNCHANGED <<ids, kern, opened, wire, given, posted, timers, other, calls, closecb>>

\* evio_close up to the decision it takes under the mutex.
evio_close ==
  /\ place = "close" /\ Apart
  /\ \/ /\ io.closed
        /\ place' = "poll"
        /\ UNCHANGED <<io, timers>>
     \/ /\ ~io.closed /\ io.queue # <<>> /\ Deferrable(io)
        /\ Defer(io)
        /\ place' = "poll"
     \/ /\ ~io.closed /\ (io.queue = <<>> \/ ~Deferrable(io))
        /\ io' = [io EXCEPT !.closed = TRUE]
        /\ place' = "done"
        /\ UNCHANGED timers
  /\ UNCHANGED <<ids, kern, opened, wire, given, posted, other, calls, cause, closecb>>

\* evio_done, in two steps: the mutex is taken for the queue only.
evio_done ==
  /\ place = "done"
  /\ io' = evio_del([io EXCEPT !.ready = FALSE], {"read", "write"})
  /\ place' = IF io.ready THEN "drop" ELSE "close_cb"
  /\ UNCHANGED <<ids, kern, opened, wire, given, posted, timers, other, calls, cause, closecb>>

DropQueue ==
  /\ place = "drop"
  /\ io' = [io EXCEPT !.queue = <<>>]
  /\ place' = "close_cb"
  /\ UNCHANGED <<ids, kern, opened, wire, given, posted, timers, other, calls, cause, closecb>>

close_cb ==
  /\ place = "close_cb"
  /\ timers' = {a \in timers : a.no \notin {io.connect_timer, io.close_timer}}
  /\ io' = [io EXCEPT !.connect_timer = 0, !.close_timer = 0, !.closed = TRUE]
  /\ closecb' = IF kern = 0 THEN closecb ELSE [closecb EXCEPT ![kern] = @ + 1]
  /\ place' = "closesocket"
  /\ UNCHANGED <<ids, kern, opened, wire, given, posted, other, calls, cause>>

closesocket ==
  /\ place = "closesocket"
  /\ kern' = 0
  /\ place' = "poll"
  /\ UNCHANGED <<io, ids, opened, wire, given, posted, timers, other, calls, cause, closecb>>

\* __connect_timeout_cb and __close_timeout_cb.  Both timers fire once.
Timeout(a) ==
  /\ place = "poll" /\ a \in timers
  /\ timers' = timers \ {a}
  /\ io' = [io EXCEPT !.error = TRUE]
  /\ place' = "close"
  /\ cause' = IF kern = 0 \/ a.no \notin {io.connect_timer, io.close_timer} THEN cause
              ELSE [cause EXCEPT ![kern] = @ \cup {"cut"}]
  /\ UNCHANGED <<ids, kern, opened, wire, given, posted, other, calls, closecb>>

\* Mutant: the id of the event is not compared.
PostedAny ==
  /\ place = "poll" /\ posted # <<>>
  /\ posted' = Tail(posted)
  /\ \/ /\ FALSE
        /\ UNCHANGED <<io, timers, place, cause>>
     \/ /\ Head(posted).kind = "close"
        /\ place' = "close"
        /\ IF io.close THEN Because(kern, "cut") ELSE UNCHANGED cause
        /\ UNCHANGED <<io, timers>>
     \/ /\ Head(posted).kind = "connect"
        /\ nio_connect(io)
  /\ UNCHANGED <<ids, kern, opened, wire, given, other, calls, closecb>>

\* evio_close_event_cb and nio_connect_event_cb.
Posted ==
  /\ place = "poll" /\ posted # <<>>
  /\ posted' = Tail(posted)
  /\ \/ /\ Head(posted).id # io.id
        /\ UNCHANGED <<io, timers, place, cause>>
     \/ /\ Head(posted).id = io.id /\ Head(posted).kind = "close"
        /\ place' = "close"
        /\ IF io.close THEN Because(kern, "cut") ELSE UNCHANGED cause
        /\ UNCHANGED <<io, timers>>
     \/ /\ Head(posted).id = io.id /\ Head(posted).kind = "connect"
        /\ nio_connect(io)
  /\ UNCHANGED <<ids, kern, opened, wire, given, other, calls, closecb>>
-----------------------------------------------------------------------------
(* The other thread                                                           *)

\* evio_write and evio_close read io->closed first, without the mutex.
\* Without Racing the application starts no call on an io that is being closed,
\* and the loop does not take a decision to close it during a call.
Enters(pc, len) ==
  /\ other = Resting /\ kern # 0 /\ ~io.closed
  /\ Racing \/ (~io.close /\ place \in {"poll", "writing"})
  /\ other' = [pc |-> pc, conn |-> kern, len |-> len]

OtherCalls ==
  /\ \/ CountCall /\ \E len \in Sizes : Enters("write", len)
     \/ CountCall /\ Enters("post", 0)
  /\ UNCHANGED <<io, ids, kern, opened, wire, given, posted, timers, place, cause, closecb>>

OtherWrites ==
  /\ other.pc = "write" /\ place # "writing"
  /\ Given(other.conn, other.len)
  /\ \E ret \in Returns(io, other.len) :
       LET done == Locked(io, other.conn, other.len, ret) IN
       /\ io' = done.io
       /\ Numbered(done.io)
       /\ Sent(other.conn, given[other.conn], done.sent)
       /\ IF done.ok THEN other' = Resting /\ UNCHANGED cause
          ELSE other' = [other EXCEPT !.pc = "post"] /\ Because(other.conn, "write")
  /\ UNCHANGED <<kern, opened, posted, timers, place, calls, closecb>>

\* evio_close_async, for evio_close or after a write that failed: the id is read
\* only now.
evio_close_async ==
  /\ other.pc = "post"
  /\ Post("close", io.id)
  /\ Because(other.conn, "asked")
  /\ other' = Resting
  /\ UNCHANGED <<io, ids, kern, opened, wire, given, timers, place, calls, closecb>>
-----------------------------------------------------------------------------
LoopStep == nio_write \/ evio_close \/ evio_done \/ DropQueue \/ close_cb \/ closesocket
TimeoutStep == \E a \in timers : Timeout(a)
OtherStep == OtherWrites \/ evio_close_async

\* Every connection the model opens has been closed and nothing is left to do.
AllClosed == /\ place = "poll" /\ kern = 0 /\ opened = MaxConns
             /\ posted = <<>> /\ timers = {} /\ other = Resting
             /\ UNCHANGED vars

Next ==
  \/ nio_accept \/ evio_connect
  \/ \E len \in Sizes : evio_write(len)
  \/ Writable \/ AppClose \/ nio_read
  \/ LoopStep \/ TimeoutStep \/ Posted
  \/ OtherCalls \/ OtherStep \/ AllClosed

Spec == Init /\ [][Next]_vars

\* The thread of the loop goes on in a handler; EventLoop shows that a due timer
\* is called, and EventPost that a posted event is, whatever else the loop does.
FairSpec ==
  /\ Spec
  /\ WF_vars(LoopStep) /\ WF_vars(OtherStep)
  /\ SF_vars(TimeoutStep) /\ SF_vars(Posted)
-----------------------------------------------------------------------------
(* Properties                                                                 *)

\* The fields of the evio_t and the places of the two threads stay in range; the
\* pointers to timers are NULL or name one of each.
TypeOK ==
  /\ io.id \in 0..ids /\ io.events \subseteq {"read", "write"}
  /\ \A c \in Range(io.queue) : c.conn \in Conns /\ c.len > 0
  /\ kern \in 0..opened /\ opened \in 0..MaxConns
  /\ place \in {"poll", "writing", "close", "done", "drop", "close_cb", "closesocket"}
  /\ other.pc \in {"rest", "write", "post"}
  /\ io.connect_timer # 0 => io.connect_timer # io.close_timer

\* eventloop.h: "evio_write is thread-safe, locked by recursive_mutex, allow to be
\* called by other threads": what is written to a connection is sent on it.
OwnBytes == \A n \in Conns : \A i \in DOMAIN wire[n] : wire[n][i][1] = n

\* What a connection sends are the bytes written to it and to no other, in the
\* order of the calls of evio_write, none twice; and none is skipped, unless a
\* call returned an error: direct writes never overtake the write queue.
WireInOrder ==
  /\ OwnBytes
  /\ \A n \in Conns :
    /\ \A i, j \in DOMAIN wire[n] : i < j => wire[n][i][2] < wire[n][j][2]
    /\ "write" \notin cause[n] => wire[n] = Bytes(n, 0, Len(wire[n]))

\* evio_close lets the queue drain first: when close_cb is called every byte given
\* to evio_write has been sent, unless an error, a timeout or a second close cut
\* the connection off.
DrainedBeforeClose ==
  \A n \in Conns :
    closecb[n] > 0 /\ cause[n] = {"asked"} => Len(wire[n]) = given[n]

\* Bytes never wait in the write queue without EV_WRITE being watched, or nobody
\* would send them, and io->write_bufsize is their number.
QueueWatched ==
  /\ TypeOK
  /\ place = "poll" /\ io.queue # <<>> => "write" \in io.events
  /\ io.ready => io.bufsize = FoldSeq(LAMBDA c, n : c.len + n, 0, io.queue)

\* close_cb is called at most once for a connection, and only because somebody
\* asked for it, the peer did, or it failed: a posted close or a timer of an
\* earlier connection never closes a later one that uses the same evio_t.
ClosedForCause ==
  \A n \in Conns : closecb[n] <= 1 /\ (closecb[n] = 1 => cause[n] # {})

\* A connection that has been closed, or has failed, gets its close_cb, however
\* long the peer refuses to read: the close timer ends the wait.
CauseCloses == \A n \in Conns : (cause[n] # {}) ~> (closecb[n] = 1)
=============================================================================
