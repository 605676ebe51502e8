------------------------------- MODULE Watchers -------------------------------
(***************************************************************************)
(* evio_add and evio_del of src/event/eventloop.c on top of the three io   *)
(* watchers of src/event: io_epoll.c, io_poll.c and io_select.c, of which   *)
(* a build has one, and the round of the loop that polls and then runs      *)
(* evio_handle_events for what is pending.                                  *)
(*                                                                          *)
(* There is one evio_t per descriptor.  Descriptors are closed and used     *)
(* again in the middle of a round, from the callbacks.                      *)
(***************************************************************************)
EXTENDS Integers, Sequences, FiniteSets, SequencesExt

CONSTANTS MaxFd,         \* the descriptors are 0..MaxFd
          Watcher,       \* "epoll", "poll", "select": the watchers looked at
          MaxReady       \* bound on the descriptors that one poll reports

VARIABLES watcher,       \* the one of this build
          io,            \* io[fd]: the evio_t
          ctx,           \* loop->iowatcher
          nios,          \* loop->nios
          pendings,      \* the pending list, the next to be called first
          at,            \* where the loop is, and in which evio_t
          open,          \* the descriptors that are open in the kernel
          reports        \* history: what the kernel has reported of a descriptor's connection and nobody handled

watchVars == <<watcher, io, ctx, nios, pendings, at, open, reports>>

Fd == 0..MaxFd
READ == "read"
WRITE == "write"
RDWR == {READ, WRITE}

\* epoll: what is registered in the kernel, and events.size.  poll: fds.
\* select: max_fd, readfds, writefds, nread, nwrite.
WatchInit ==
  /\ watcher \in Watcher
  /\ io = [fd \in Fd |-> [ready |-> FALSE, active |-> FALSE, events |-> {}, revents |-> {},
                          pending |-> FALSE, index |-> -1]]
  /\ ctx = [registered |-> [fd \in Fd |-> {}], size |-> 0, fds |-> <<>>,
            max_fd |-> -1, readfds |-> {}, writefds |-> {}, nread |-> 0, nwrite |-> 0]
  /\ nios = 0 /\ pendings = <<>> /\ at = [pc |-> "poll", fd |-> 0]
  /\ open = {} /\ reports = [fd \in Fd |-> {}]

\* The operators below compute on s, the ios, the watcher's context and nios.
State == [io |-> io, ctx |-> ctx, nios |-> nios]
Becomes(s) == io' = s.io /\ ctx' = s.ctx /\ nios' = s.nios
-----------------------------------------------------------------------------
(* iowatcher_add_event and iowatcher_del_event                               *)

\* epoll_ctl registers, changes or removes fd, and fails without effect when
\* fd is registered already, or is not.
epoll_ctl(c, op, fd, evs) ==
  IF (op = "add") = (c.registered[fd] = {}) THEN [c EXCEPT !.registered[fd] = evs] ELSE c

epoll_add(s, fd, evs) ==
  LET op == IF s.io[fd].events = {} THEN "add" ELSE "mod"
      c == epoll_ctl(s.ctx, op, fd, s.io[fd].events \cup evs)
  IN  [s EXCEPT !.ctx = IF op = "add" THEN [c EXCEPT !.size = @ + 1] ELSE c]

epoll_del(s, fd, evs) ==
  LET left == s.io[fd].events \ evs
      c == epoll_ctl(s.ctx, IF left = {} THEN "del" ELSE "mod", fd, left)
  IN  [s EXCEPT !.ctx = IF left = {} THEN [c EXCEPT !.size = @ - 1] ELSE c]

\* event_index is the place of fd in poll's array, from 0.
poll_add(s, fd, evs) ==
  LET idx == s.io[fd].index IN
  IF idx < 0
  THEN [s EXCEPT !.io[fd].index = Len(s.ctx.fds), !.ctx.fds = Append(@, [fd |-> fd, events |-> evs])]
  ELSE [s EXCEPT !.ctx.fds[idx + 1].events = @ \cup evs]


\* pollfds_del_nomove puts the last one in the place of the one deleted.
poll_del(s, fd, evs) ==
  LET idx == s.io[fd].index
      fds == s.ctx.fds
      left == fds[idx + 1].events \ evs
      short == Front([fds EXCEPT ![idx + 1] = Last(fds)])
      moved == IF idx < Len(short) THEN [s.io EXCEPT ![short[idx + 1].fd].index = idx] ELSE s.io
  IN  IF idx < 0 THEN s
      ELSE IF left # {} THEN [s EXCEPT !.ctx.fds[idx + 1].events = left]
      ELSE [s EXCEPT !.ctx.fds = short, !.io = [moved EXCEPT ![fd].index = -1]]

\* What select counts when the set changes.
One(yes) == IF yes THEN 1 ELSE 0

select_add(s, fd, evs) ==
  LET c == s.ctx
      rd == READ \in evs /\ fd \notin c.readfds
      wr == WRITE \in evs /\ fd \notin c.writefds
  IN  [s EXCEPT !.ctx = [c EXCEPT !.max_fd = IF fd > @ THEN fd ELSE @,
         !.readfds = IF rd THEN @ \cup {fd} ELSE @, !.nread = @ + One(rd),
         !.writefds = IF wr THEN @ \cup {fd} ELSE @, !.nwrite = @ + One(wr)]]

select_del(s, fd, evs) ==
  LET c == s.ctx
      rd == READ \in evs /\ fd \in c.readfds
      wr == WRITE \in evs /\ fd \in c.writefds
  IN  [s EXCEPT !.ctx = [c EXCEPT !.max_fd = IF fd = @ THEN -1 ELSE @,
         !.readfds = IF rd THEN @ \ {fd} ELSE @, !.nread = @ - One(rd),
         !.writefds = IF wr THEN @ \ {fd} ELSE @, !.nwrite = @ - One(wr)]]

iowatcher_add_event(s, fd, evs) ==
  CASE watcher = "epoll" -> epoll_add(s, fd, evs)
    [] watcher = "poll" -> poll_add(s, fd, evs)
    [] watcher = "select" -> select_add(s, fd, evs)

iowatcher_del_event(s, fd, evs) ==
  CASE watcher = "epoll" -> epoll_del(s, fd, evs)
    [] watcher = "poll" -> poll_del(s, fd, evs)
    [] watcher = "select" -> select_del(s, fd, evs)
-----------------------------------------------------------------------------
(* evio_ready, evio_add and evio_del                                         *)

\* Mutant: what was reported of an earlier connection is kept.
evio_readyStale(s, fd) ==
  IF s.io[fd].ready THEN s
  ELSE [s EXCEPT !.io[fd].ready = TRUE, !.io[fd].events = {}, !.io[fd].index = -1]

evio_ready(s, fd) ==
  IF s.io[fd].ready THEN s
  ELSE [s EXCEPT !.io[fd].ready = TRUE, !.io[fd].events = {}, !.io[fd].revents = {}, !.io[fd].index = -1]

evio_add(s, fd, evs) ==
  LET on == [s EXCEPT !.nios = @ + One(~s.io[fd].active), !.io[fd].active = TRUE]
      r == evio_ready(on, fd)
      w == iowatcher_add_event(r, fd, evs)
  IN  IF r.io[fd].events \cap evs # {} THEN r ELSE [w EXCEPT !.io[fd].events = @ \cup evs]

evio_del(s, fd, evs) ==
  LET w == iowatcher_del_event(s, fd, evs)
      d == IF s.io[fd].events \cap evs = {} THEN s ELSE [w EXCEPT !.io[fd].events = @ \ evs]
  IN  IF ~s.io[fd].active THEN s
      ELSE IF d.io[fd].events # {} THEN d
      ELSE [d EXCEPT !.nios = @ - 1, !.io[fd].active = FALSE]

\* evio_done, and the kernel forgets a descriptor that is closed.
evio_done(s, fd) ==
  IF ~s.io[fd].ready THEN s ELSE evio_del([s EXCEPT !.io[fd].ready = FALSE], fd, RDWR)
-----------------------------------------------------------------------------
(* What the application does between two polls, in callbacks or before the loop *)

MayAct == at.pc \in {"poll", "read", "written"}

\* Accept and connect: the kernel gives the lowest free descriptor; evio_get.
Open ==
  /\ MayAct /\ open # Fd
  /\ LET fd == Min(Fd \ open) IN
     /\ open' = open \cup {fd}
     /\ \E ev \in RDWR : Becomes(evio_add(evio_ready(State, fd), fd, {ev}))
  /\ UNCHANGED <<watcher, pendings, at, reports>>

Close(fd) ==
  /\ MayAct /\ fd \in open
  /\ LET s == evio_done(State, fd) IN Becomes([s EXCEPT !.ctx.registered[fd] = {}])
  /\ open' = open \ {fd}
  /\ reports' = [reports EXCEPT ![fd] = {}]
  /\ UNCHANGED <<watcher, pendings, at>>

\* evio_read, evio_read_stop, and EV_WRITE for bytes that could not be written.
Change(fd) ==
  /\ MayAct /\ fd \in open
  /\ \/ \E ev \in RDWR : Becomes(evio_add(State, fd, {ev}))
     \/ Becomes(evio_del(State, fd, {READ}))
  /\ UNCHANGED <<watcher, pendings, at, open, reports>>
-----------------------------------------------------------------------------
(* The round of the loop                                                     *)

\* What the kernel is asked about: select looks at descriptors up to max_fd.
find_max_active_fd == Max({-1} \cup {fd \in Fd : io[fd].active /\ io[fd].events # {}})
max_fd == IF ctx.max_fd = -1 THEN find_max_active_fd ELSE ctx.max_fd

Asked(fd) ==
  CASE watcher = "epoll" -> ctx.registered[fd]
    [] watcher = "poll" -> UNION {p.events : p \in {q \in Range(ctx.fds) : q.fd = fd}}
    [] watcher = "select" -> IF fd > max_fd THEN {}
         ELSE (IF fd \in ctx.readfds THEN {READ} ELSE {}) \cup (IF fd \in ctx.writefds THEN {WRITE} ELSE {})

\* A hangup or an error is reported with every event, asked for or not; for
\* select it makes the descriptor ready for what was asked.
Reported(fd) == SUBSET Asked(fd) \cup (IF watcher = "select" THEN {} ELSE {RDWR})

\* EVENT_PENDING puts the event in front of the list.
EVENT_PENDING(list, fd) == IF io[fd].pending THEN list ELSE <<fd>> \o list

\* The order of the walk over what is ready: any for epoll, that of the array for
\* poll, that of the descriptors for select.
Walks(hit) ==
  {seq \in SetToSeqs(hit) : \A m, n \in DOMAIN seq : m < n =>
     CASE watcher = "epoll" -> TRUE
       [] watcher = "poll" -> io[seq[m]].index < io[seq[n]].index
       [] watcher = "select" -> seq[m] < seq[n]}

iowatcher_poll_events ==
  /\ at.pc = "poll"
  /\ \E hit \in SUBSET {fd \in Fd : Asked(fd) # {}} :
       /\ Cardinality(hit) <= MaxReady
       /\ \E got \in [hit -> SUBSET RDWR \ {{}}], seq \in Walks(hit) :
            /\ \A fd \in hit : got[fd] \in Reported(fd)
            /\ io' = [fd \in Fd |-> IF fd \notin hit THEN io[fd]
                       ELSE [io[fd] EXCEPT !.pending = TRUE,
                              !.revents = IF watcher = "select" THEN got[fd] ELSE @ \cup got[fd]]]
            /\ pendings' = FoldLeft(EVENT_PENDING, pendings, seq)
            /\ reports' = [fd \in Fd |-> IF fd \in hit THEN reports[fd] \cup got[fd] ELSE reports[fd]]
  /\ ctx' = IF watcher = "select" THEN [ctx EXCEPT !.max_fd = max_fd] ELSE ctx
  /\ at' = [pc |-> "next", fd |-> 0]
  /\ UNCHANGED <<watcher, nios, open>>

\* evloop_process_pendings takes the next one; evio_handle_events reads first.
NextPending ==
  /\ at.pc = "next" /\ pendings # <<>>
  /\ LET fd == Head(pendings) IN
     IF io[fd].pending /\ io[fd].active
     THEN /\ at' = [pc |-> IF READ \in io[fd].events \cap io[fd].revents THEN "read" ELSE "write", fd |-> fd]
          /\ UNCHANGED <<io, pendings>>
     ELSE /\ io' = [io EXCEPT ![fd].pending = FALSE]
          /\ pendings' = Tail(pendings)
          /\ UNCHANGED at
  /\ UNCHANGED <<watcher, ctx, nios, open, reports>>

\* nio_read and its callback are over.
ReadDone ==
  /\ at.pc = "read"
  /\ at' = [at EXCEPT !.pc = "write"]
  /\ UNCHANGED <<watcher, io, ctx, nios, pendings, open, reports>>

\* evio_handle_events and evloop_process_pendings are done with fd.
Handled(s, fd) ==
  /\ Becomes([s EXCEPT !.io[fd].revents = {}, !.io[fd].pending = FALSE])
  /\ pendings' = Tail(pendings)
  /\ at' = [pc |-> "next", fd |-> 0]
  /\ reports' = [reports EXCEPT ![fd] = {}]

\* The write half: EV_WRITE is deleted when the queue is empty, then nio_write or
\* nio_connect calls back.
evio_handle_events ==
  /\ at.pc = "write"
  /\ IF WRITE \in io[at.fd].events \cap io[at.fd].revents
     THEN /\ \E empty \in BOOLEAN : Becomes(IF empty THEN evio_del(State, at.fd, {WRITE}) ELSE State)
          /\ at' = [at EXCEPT !.pc = "written"]
          /\ UNCHANGED <<pendings, reports>>
     ELSE Handled(State, at.fd)
  /\ UNCHANGED <<watcher, open>>

WriteDone == at.pc = "written" /\ Handled(State, at.fd) /\ UNCHANGED <<watcher, open>>

RoundDone ==
  /\ at.pc = "next" /\ pendings = <<>>
  /\ at' = [pc |-> "poll", fd |-> 0]
  /\ UNCHANGED <<watcher, io, ctx, nios, pendings, open, reports>>

WatchNext ==
  \/ Open \/ \E fd \in Fd : Close(fd) \/ Change(fd)
  \/ iowatcher_poll_events \/ NextPending \/ ReadDone \/ evio_handle_events \/ WriteDone \/ RoundDone

WatchSpec == WatchInit /\ [][WatchNext]_watchVars
-----------------------------------------------------------------------------
Entry(fd) == {i \in DOMAIN ctx.fds : ctx.fds[i].fd = fd}


\* A handler runs for a connection only when the kernel has reported the event of
\* this connection: what was reported of a descriptor is forgotten when a callback
\* of the same round closes it and another connection gets it.
HandledAsReported ==
  at.pc \in {"read", "write"} /\ at.fd \in open =>
    io[at.fd].events \cap io[at.fd].revents \subseteq reports[at.fd]
=============================================================================
