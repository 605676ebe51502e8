------------------------------- MODULE Timeouts -------------------------------
(***************************************************************************)
(* The read, write and keepalive timeouts and the heartbeat of an evio_t   *)
(* in src/event/event.c.  A timer that expires looks at how long its        *)
(* direction has been silent: it closes the connection, or is armed again   *)
(* for what is left.  The evio_t is used by one connection after another.   *)
(***************************************************************************)
EXTENDS Integers, FiniteSets, FiniteSetsExt

CONSTANTS Limits,        \* the timeouts that are set
          Coarse, Grain, \* the 100 ms that timers are rounded by, from 1000 ms on
          MaxSet,        \* bound on the timers a connection has
          MaxTime        \* bound on the clock

Silent == {"read", "write", "keepalive"}
Kind == Silent \cup {"heartbeat"}

VARIABLES cur,           \* loop->cur_hrtime
          opened,        \* is the evio_t ready?
          last,          \* last_read_hrtime, last_write_hrtime
          timer,         \* timer[k]: when the timer of k expires, 0: there is none
          limit,         \* read_timeout, write_timeout, keepalive_timeout, heartbeat_interval
          since,         \* history: when the timeout was set
          ended          \* history: of the timeout that closed the last connection

timeoutVars == <<cur, opened, last, timer, limit, since, ended>>

NotEnded == [idle |-> 0, held |-> 0, limit |-> 0]

TimeoutInit ==
  /\ cur = 1 /\ opened = FALSE /\ last = [read |-> 1, write |-> 1]
  /\ timer = [k \in Kind |-> 0] /\ limit = [k \in Kind |-> 0] /\ since = [k \in Kind |-> 0]
  /\ ended = NotEnded

\* evtimer_add and evtimer_reset.
Expiry(d) == LET t == cur + d IN IF d >= Coarse /\ d % Grain = 0 THEN t - (t % Grain) ELSE t

\* evio_ready.
Opens ==
  /\ ~opened
  /\ opened' = TRUE /\ last' = [read |-> cur, write |-> cur]
  /\ timer' = [k \in Kind |-> 0] /\ limit' = [k \in Kind |-> 0]
  /\ since' = [k \in Kind |-> 0] /\ ended' = NotEnded
  /\ UNCHANGED cur

\* evio_set_read_timeout, _write_timeout, _keepalive_timeout and evio_set_heartbeat;
\* 0 deletes the timer.
SetTimeout(k, d) ==
  /\ opened /\ (d # 0 => Cardinality({j \in Kind \ {k} : timer[j] # 0}) < MaxSet)
  /\ timer' = [timer EXCEPT ![k] = IF d = 0 THEN 0 ELSE Expiry(d)]
  /\ limit' = [limit EXCEPT ![k] = d]
  /\ since' = [since EXCEPT ![k] = IF d = 0 THEN 0 ELSE cur]
  /\ UNCHANGED <<cur, opened, last, ended>>

\* __read_cb and __write_cb.
Traffic(way) ==
  /\ opened
  /\ last' = [last EXCEPT ![way] = cur]
  /\ UNCHANGED <<cur, opened, timer, limit, since, ended>>

\* __close_cb deletes every timer.
DeleteTimers ==
  /\ timer' = [k \in Kind |-> 0] /\ limit' = [k \in Kind |-> 0] /\ since' = [k \in Kind |-> 0]

Closes ==
  /\ opened /\ opened' = FALSE
  /\ DeleteTimers
  /\ UNCHANGED <<cur, last, ended>>

LastOf(k) ==
  CASE k = "read" -> last.read
    [] k = "write" -> last.write
    [] k = "keepalive" -> Max({last.read, last.write})

\* Mutant: the timer is armed for the whole timeout again.
timeout_cbWhole(k) ==
  LET idle == cur - LastOf(k) IN
  /\ timer[k] # 0 /\ timer[k] <= cur
  /\ IF idle + Grain < limit[k]
     THEN /\ timer' = [timer EXCEPT ![k] = Expiry(limit[k])]
          /\ UNCHANGED <<opened, limit, since, ended>>
     ELSE /\ opened' = FALSE /\ DeleteTimers
          /\ ended' = [idle |-> idle, held |-> cur - since[k], limit |-> limit[k]]
  /\ UNCHANGED <<cur, last>>

\* __read_timeout_cb, __write_timeout_cb and __keepalive_timeout_cb.
timeout_cb(k) ==
  LET idle == cur - LastOf(k) IN
  /\ timer[k] # 0 /\ timer[k] <= cur
  /\ IF idle + Grain < limit[k]
     THEN /\ timer' = [timer EXCEPT ![k] = Expiry(limit[k] - idle)]
          /\ UNCHANGED <<opened, limit, since, ended>>
     ELSE /\ opened' = FALSE /\ DeleteTimers
          /\ ended' = [idle |-> idle, held |-> cur - since[k], limit |-> limit[k]]
  /\ UNCHANGED <<cur, last>>

\* The heartbeat repeats; heartbeat_fn may write.
heartbeat_cb ==
  LET k == "heartbeat" IN
  /\ timer[k] # 0 /\ timer[k] <= cur
  /\ timer' = [timer EXCEPT ![k] = Min({t \in {@ + n * limit[k] : n \in 1..MaxTime} : t > cur})]
  /\ last' \in {last, [last EXCEPT !.write = cur]}
  /\ UNCHANGED <<cur, opened, limit, since, ended>>

Passes == cur < MaxTime /\ cur' = cur + 1 /\ UNCHANGED <<opened, last, timer, limit, since, ended>>

TimeoutNext ==
  \/ Opens \/ Closes \/ Passes \/ heartbeat_cb
  \/ \E k \in Kind, d \in Limits \cup {0} : SetTimeout(k, d)
  \/ \E way \in {"read", "write"} : Traffic(way)
  \/ \E k \in Silent : timeout_cb(k)

TimeoutSpec == TimeoutInit /\ [][TimeoutNext]_timeoutVars
-----------------------------------------------------------------------------
\* A connection that falls silent is closed in time, and only a silent one is: the
\* timer of a timeout that is set never expires later than the timeout after the
\* last byte, however often it was armed again; what it closes has been silent, and
\* the timeout set, for as long, up to the rounding; and no timer outlives the
\* connection, to close the next one.
SilenceEnds ==
  /\ \A k \in Kind : (timer[k] # 0 <=> limit[k] # 0) /\ (timer[k] # 0 => opened)
  /\ \A k \in Silent : timer[k] # 0 => timer[k] <= Max({LastOf(k), since[k]}) + limit[k]
  /\ ended.limit <= ended.idle + Grain /\ ended.limit <= ended.held + Grain
=============================================================================
