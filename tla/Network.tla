------------------------------- MODULE Network --------------------------------
(***************************************************************************)
(* What src/event, src/network and src/netlink do with the network, one     *)
(* part at a time: packages cut from a stream, the io watchers and the       *)
(* timeouts of connections, the calendar of the period timers, the registry  *)
(* of VRFs and interfaces, the dialogue with the kernel and the attributes   *)
(* of its messages.  A behaviour is about one part; the variables of the others      *)
(* are NULL.                                                                 *)
(***************************************************************************)
EXTENDS Integers, Sequences

CONSTANTS Parts, NULL,
          Base, Uses, ReadBufsize, MoveMin, MaxVarint,                   \* of Framing
          Vrf, Ifp, Id, VrfName, Default, DefaultName, IfName, Index,    \* of Interfaces
          MoreIds, MoreNames, FewIfps,                                   \* more VRFs, fewer interfaces
          MaxRequests, MaxNotices,                                       \* of NetlinkTalk
          Type, MaxType, Lengths, maxlen, Start, MaxDepth,               \* of NetlinkAttr
          MaxFd, Watcher, MaxReady,                                      \* of Watchers
          Limits, Coarse, Grain, MaxSet, MaxTime,                        \* of Timeouts
          MINUTE, HOUR, DAY, WEEK, Months, MaxLate,                      \* of Calendar
          Starts, Spans, MaxMoves

VARIABLES part,
          use, io, place, returns, stream, frames,
          net, backend,
          nl, talk, answer, handed, notices,
          msg, open, items,
          watcher, ios, ctx, nios, pendings, at, fds, reports,
          cur, opened, last, timer, limit, since, ended,
          period, date, number, moves

framingVars == <<use, io, place, returns, stream, frames>>
netVars == <<net, backend>>
nlVars == <<nl, talk, answer, handed, notices>>
attrVars == <<msg, open, items>>
watchVars == <<watcher, ios, ctx, nios, pendings, at, fds, reports>>
timeoutVars == <<cur, opened, last, timer, limit, since, ended>>
calendarVars == <<period, date, number, moves>>

Frames == INSTANCE Framing
Registry == INSTANCE Interfaces
ManyVrfs == INSTANCE Interfaces WITH Id <- MoreIds, VrfName <- MoreNames, Ifp <- FewIfps,
                                     IfName <- {CHOOSE n \in IfName : TRUE}, Index <- {CHOOSE x \in Index : TRUE}
Kernel == INSTANCE NetlinkTalk
Message == INSTANCE NetlinkAttr
Watch == INSTANCE Watchers WITH io <- ios, open <- fds
Silence == INSTANCE Timeouts
Cron == INSTANCE Calendar

NetworkInit ==
  /\ part \in Parts
  /\ IF part = "framing" THEN Frames!FramingInit
     ELSE use = NULL /\ io = NULL /\ place = NULL /\ returns = NULL /\ stream = NULL /\ frames = NULL
  /\ IF part \in {"registry", "vrfs"} THEN (IF part = "vrfs" THEN ManyVrfs!NetInit ELSE Registry!NetInit)
     ELSE net = NULL /\ backend = NULL
  /\ IF part = "kernel" THEN Kernel!NlInit
     ELSE nl = NULL /\ talk = NULL /\ answer = NULL /\ handed = NULL /\ notices = NULL
  /\ IF part = "message" THEN Message!AttrInit
     ELSE msg = NULL /\ open = NULL /\ items = NULL
  /\ IF part = "watchers" THEN Watch!WatchInit
     ELSE watcher = NULL /\ ios = NULL /\ ctx = NULL /\ nios = NULL /\ pendings = NULL /\ at = NULL /\ fds = NULL /\ reports = NULL
  /\ IF part = "timeouts" THEN Silence!TimeoutInit
     ELSE cur = NULL /\ opened = NULL /\ last = NULL /\ timer = NULL /\ limit = NULL /\ since = NULL /\ ended = NULL
  /\ IF part = "cron" THEN Cron!PeriodInit
     ELSE period = NULL
  /\ IF part = "dates" THEN Cron!DateInit
     ELSE date = NULL /\ number = NULL /\ moves = NULL

NetworkNext ==
  /\ UNCHANGED part
  /\ IF part = "framing" THEN Frames!FramingNext ELSE UNCHANGED framingVars
  /\ \/ part = "registry" /\ Registry!NetNext
     \/ part = "vrfs" /\ ManyVrfs!NetNext
     \/ part \notin {"registry", "vrfs"} /\ UNCHANGED netVars
  /\ IF part = "kernel" THEN Kernel!NlNext ELSE UNCHANGED nlVars
  /\ IF part = "message" THEN Message!AttrNext ELSE UNCHANGED attrVars
  /\ IF part = "watchers" THEN Watch!WatchNext ELSE UNCHANGED watchVars
  /\ IF part = "timeouts" THEN Silence!TimeoutNext ELSE UNCHANGED timeoutVars
  /\ IF part = "cron" THEN Cron!Expires ELSE UNCHANGED period
  /\ IF part = "dates" THEN Cron!Moves ELSE UNCHANGED <<date, number, moves>>

NetworkSpec ==
  NetworkInit /\ [][NetworkNext]_<<part, framingVars, netVars, nlVars, attrVars, watchVars, timeoutVars, calendarVars>>
-----------------------------------------------------------------------------



\* NetlinkAttr!AttributesRead: what is put into a message is read from it again.
AttributesRead == part = "message" => Message!AttributesRead


\* Watchers!HandledAsReported: what the kernel reported of one connection is not
\* taken for the next one with the same descriptor.
HandledAsReported == part = "watchers" => Watch!HandledAsReported

\* Timeouts!SilenceEnds: the timeouts of an io close silent connections, in time.
SilenceEnds == part = "timeouts" => Silence!SilenceEnds


\* Calendar!DatesExact: datetime_past and datetime_future count days.
DatesExact == part = "dates" => Cron!DatesExact
=============================================================================
