------------------------------- MODULE EventLoop -------------------------------
(***************************************************************************)
(* One event loop of src/event/eventloop.c, seen from its own thread: the  *)
(* life of timers, idles and ios, the pending lists, and the passes of     *)
(* evloop_run.  User code runs before evloop_run, between two runs and in  *)
(* callbacks; it may add, reset and delete the events it holds, its own    *)
(* included, and stop the loop.  The two heaps of timers are one set here: *)
(* module TimerHeap shows that the root of a heap is a least element.      *)
(***************************************************************************)
EXTENDS Integers, Sequences, FiniteSets, SequencesExt, FiniteSetsExt

CONSTANTS Timeouts,      \* timers of evtimer_add
          Periods,       \* timers of evtimer_add_period
          Idles, Ios,
          Coarse, Grain, \* a delay from Coarse on that is a multiple of Grain is rounded
          MaxBlock,      \* EVLOOP_MAX_BLOCK_TIME
          MaxTime,       \* bound on the clock
          Uses           \* the ways user code uses the loop, see use

Timers == Timeouts \cup Periods
Events == Timers \cup Idles \cup Ios

\* INFINITE, the uint32_t that 0 - 1 wraps to.
Infinite == -1

VARIABLES
  use,                    \* how the loop is used, fixed from the start: the events, the delays and the
                          \* repeat counts they are added with, the API calls and their number (ops),
                          \* loop->flags, do callbacks take time (slow), and does user code delete
                          \* timers it has reset in the same pass (resetDel)
  status,                 \* loop->status
  now, cur,               \* the clock, and loop->cur_hrtime
  intern,                 \* loop->intern_nevents: 1 once the eventfd is watched
  mem,                    \* is the event's memory "none", "live" or "freed"?
  active, pending, destroy, repeat,
  timeout, next,          \* timeout and next_timeout of the timers
  heap, idles,            \* loop->timers and loop->realtimers; loop->idles
  pendings,               \* loop->pendings: per priority, the linked events from the head
  ntimers, nidles, nios, nactives, npendings,
  pc, level, todo,        \* where evloop_run is; what it still has to visit of pendings[level]
  ops,                    \* API calls made so far
  gone,                   \* the events user code has deleted
  due,                    \* the time a timer was asked to wait for, 0 when it has fired since
  allowed, fired          \* callbacks asked for, and made (at most 1 is counted when there is no limit)

clock == <<now, cur>>
event == <<mem, active, pending, destroy, repeat>>
lists == <<heap, idles, pendings>>
counts == <<ntimers, nidles, nios, nactives, npendings>>
run == <<intern, pc, level, todo>>
ghosts == <<gone, due, fired, allowed>>
vars == <<use, status, clock, event, timeout, next, lists, counts, run, ops, ghosts>>

\* The index into loop->pendings: the four priorities the API gives to events.
Prio(e) == CASE e \in Timeouts -> 3 [] e \in Periods -> 2 [] e \in Ios -> 1 [] e \in Idles -> 0
Prios == 0..3

\* The event the loop is visiting.
Current == Head(todo)

\* The events the loop will still visit in its pending lists.
Linked == UNION {Range(IF pc \in {"pend", "cb"} /\ i = level THEN todo ELSE pendings[i]) : i \in Prios}

-----------------------------------------------------------------------------
Init ==
  /\ use \in Uses
  /\ status = "stop" /\ now = 0 /\ cur = 0 /\ intern = 0
  /\ mem = [e \in Events |-> IF e \in Ios THEN "live" ELSE "none"]
  /\ active = [e \in Events |-> FALSE] /\ pending = active /\ destroy = active
  /\ repeat = [e \in Events |-> 0]
  /\ timeout = [t \in Timers |-> 0] /\ next = timeout
  /\ heap = {} /\ idles = <<>> /\ pendings = [i \in Prios |-> <<>>]
  /\ ntimers = 0 /\ nidles = 0 /\ nios = 0 /\ nactives = 0 /\ npendings = 0
  /\ pc = "user" /\ level = 0 /\ todo = <<>>
  /\ ops = 0 /\ gone = {} /\ due = timeout
  /\ fired = [e \in Events |-> 0] /\ allowed = [e \in Events |-> IF e \in Ios THEN Infinite ELSE 0]

-----------------------------------------------------------------------------
(* What user code calls.                                                     *)

UserCode(call) ==
  /\ pc \in {"user", "cb"} /\ call \in use.calls
  /\ ops < use.ops /\ ops' = ops + 1 /\ UNCHANGED use

\* User code holds the event: it was added, not deleted, and is not freed.
Holds(e) == mem[e] = "live" /\ e \notin gone

\* Timeouts from a second on are rounded down to a multiple of 100ms.
RoundDown(d, t) == IF d >= Coarse /\ d % Grain = 0 THEN (t \div Grain) * Grain ELSE t

\* The counter of callbacks wraps: 0 is as many as INFINITE.
Asked(r) == IF r = 0 THEN Infinite ELSE r

\* EVENT_ADD.
EventAdd(e) ==
  /\ mem' = [mem EXCEPT ![e] = "live"]
  /\ active' = [active EXCEPT ![e] = TRUE]
  /\ nactives' = nactives + (IF active[e] THEN 0 ELSE 1)
  /\ UNCHANGED <<pending, destroy>>

\* Mutant: a pending event is freed at once.
EventDelFrees(e) ==
  /\ active' = [active EXCEPT ![e] = FALSE]
  /\ nactives' = nactives - (IF active[e] THEN 1 ELSE 0)
  /\ mem' = [mem EXCEPT ![e] = "freed"]

\* EVENT_DEL, which leaves a pending event for evloop_process_pendings to free.
EventDel(e) ==
  /\ active' = [active EXCEPT ![e] = FALSE]
  /\ nactives' = nactives - (IF active[e] THEN 1 ELSE 0)
  /\ mem' = [mem EXCEPT ![e] = IF pending[e] THEN @ ELSE "freed"]

evtimer_add(t, d, r) ==
  /\ UserCode("add") /\ t \in Timeouts \cap use.events /\ mem[t] = "none"
  /\ cur' = now
  /\ timeout' = [timeout EXCEPT ![t] = d]
  /\ next' = [next EXCEPT ![t] = RoundDown(d, now + d)]
  /\ repeat' = [repeat EXCEPT ![t] = r]
  /\ heap' = heap \cup {t} /\ ntimers' = ntimers + 1
  /\ EventAdd(t)
  /\ due' = [due EXCEPT ![t] = now + d] /\ allowed' = [allowed EXCEPT ![t] = Asked(r)]
  /\ UNCHANGED <<status, now, idles, pendings, nidles, nios, npendings, run, gone, fired>>

\* cron_next_timeout returns some time after the present.
evtimer_add_period(t, d, r) ==
  /\ UserCode("add") /\ t \in Periods \cap use.events /\ mem[t] = "none"
  /\ next' = [next EXCEPT ![t] = now + d]
  /\ repeat' = [repeat EXCEPT ![t] = r]
  /\ heap' = heap \cup {t} /\ ntimers' = ntimers + 1
  /\ EventAdd(t)
  /\ due' = [due EXCEPT ![t] = now + d] /\ allowed' = [allowed EXCEPT ![t] = Asked(r)]
  /\ UNCHANGED <<status, clock, timeout, idles, pendings, nidles, nios, npendings, run, gone, fired>>

\* Mutant: EVENT_RESET leaves the timer pending.
evtimer_resetPending(t, d) ==
  LET wait == IF d > 0 THEN d ELSE timeout[t] IN
  /\ UserCode("reset") /\ t \in Timeouts /\ Holds(t)
  /\ ntimers' = ntimers + (IF destroy[t] THEN 1 ELSE 0)
  /\ repeat' = [repeat EXCEPT ![t] = IF @ = 0 THEN 1 ELSE @]
  /\ timeout' = [timeout EXCEPT ![t] = wait]
  /\ next' = [next EXCEPT ![t] = RoundDown(wait, cur + wait)]
  /\ heap' = heap \cup {t}
  /\ destroy' = [destroy EXCEPT ![t] = FALSE]
  /\ active' = [active EXCEPT ![t] = TRUE]
  /\ nactives' = nactives + (IF active[t] THEN 0 ELSE 1)
  /\ pending' = pending
  /\ due' = [due EXCEPT ![t] = cur + wait]
  /\ allowed' = [allowed EXCEPT ![t] = IF repeat[t] = 0 /\ @ # Infinite THEN @ + 1 ELSE @]
  /\ UNCHANGED <<status, clock, mem, idles, pendings, nidles, nios, npendings, run, gone, fired>>

\* A timer that has fired for the last time and is not yet freed is revived; a
\* timer that is about to be called no longer is, though it stays linked.  The
\* time counts from loop->cur_hrtime, which lags behind in a long callback.
evtimer_reset(t, d) ==
  LET wait == IF d > 0 THEN d ELSE timeout[t] IN
  /\ UserCode("reset") /\ t \in Timeouts /\ Holds(t)
  /\ ntimers' = ntimers + (IF destroy[t] THEN 1 ELSE 0)
  /\ repeat' = [repeat EXCEPT ![t] = IF @ = 0 THEN 1 ELSE @]
  /\ timeout' = [timeout EXCEPT ![t] = wait]
  /\ next' = [next EXCEPT ![t] = RoundDown(wait, cur + wait)]
  /\ heap' = heap \cup {t}
  /\ destroy' = [destroy EXCEPT ![t] = FALSE]
  /\ active' = [active EXCEPT ![t] = TRUE]
  /\ nactives' = nactives + (IF active[t] THEN 0 ELSE 1)
  /\ pending' = [pending EXCEPT ![t] = FALSE]
  /\ due' = [due EXCEPT ![t] = cur + wait]
  /\ allowed' = [allowed EXCEPT ![t] = IF repeat[t] = 0 /\ @ # Infinite THEN @ + 1 ELSE @]
  /\ UNCHANGED <<status, clock, mem, idles, pendings, nidles, nios, npendings, run, gone, fired>>

\* __evtimer_del, which does nothing when the timer has fired for the last time,
\* and EVENT_DEL.
evtimer_del(t) ==
  /\ UserCode("del") /\ t \in Timers /\ Holds(t) /\ active[t]
  /\ use.resetDel \/ t \notin Linked \/ pending[t]
  /\ heap' = heap \ {t}
  /\ ntimers' = ntimers - (IF destroy[t] THEN 0 ELSE 1)
  /\ destroy' = [destroy EXCEPT ![t] = TRUE]
  /\ EventDel(t)
  /\ gone' = gone \cup {t}
  /\ UNCHANGED <<status, clock, pending, repeat, timeout, next, idles, pendings, nidles, nios, npendings,
                 run, due, fired, allowed>>

evidle_add(e, r) ==
  /\ UserCode("add") /\ e \in Idles \cap use.events /\ mem[e] = "none"
  /\ repeat' = [repeat EXCEPT ![e] = r]
  /\ idles' = <<e>> \o idles /\ nidles' = nidles + 1
  /\ EventAdd(e)
  /\ allowed' = [allowed EXCEPT ![e] = Asked(r)]
  /\ UNCHANGED <<status, clock, timeout, next, heap, pendings, ntimers, nios, npendings, run, gone, due,
                 fired>>

evidle_del(e) ==
  /\ UserCode("del") /\ e \in Idles /\ Holds(e) /\ active[e]
  /\ idles' = Remove(idles, e)
  /\ nidles' = nidles - (IF destroy[e] THEN 0 ELSE 1)
  /\ destroy' = [destroy EXCEPT ![e] = TRUE]
  /\ EventDel(e)
  /\ gone' = gone \cup {e}
  /\ UNCHANGED <<status, clock, pending, repeat, timeout, next, heap, pendings, ntimers, nios, npendings,
                 run, due, fired, allowed>>

\* evio_add for the first event an io waits for, and evio_del for the last one.
\* The io is not freed, it stays in loop->ios.
evio_add(e) ==
  /\ UserCode("add") /\ e \in Ios \cap use.events /\ ~active[e]
  /\ EventAdd(e) /\ nios' = nios + 1
  /\ gone' = gone \ {e}
  /\ UNCHANGED <<status, clock, repeat, timeout, next, lists, ntimers, nidles, npendings, run, due, fired,
                 allowed>>

evio_del(e) ==
  /\ UserCode("del") /\ e \in Ios /\ active[e]
  /\ active' = [active EXCEPT ![e] = FALSE] /\ nactives' = nactives - 1 /\ nios' = nios - 1
  /\ gone' = gone \cup {e}
  /\ UNCHANGED <<status, clock, mem, pending, destroy, repeat, timeout, next, lists, ntimers, nidles,
                 npendings, run, due, fired, allowed>>

\* From a callback, or from another thread at any time.
evloop_stop ==
  /\ pc \notin {"user", "free"} /\ "stop" \in use.calls /\ ops < use.ops /\ ops' = ops + 1
  /\ status = "running" /\ status' = "stop"
  /\ UNCHANGED <<use, clock, event, timeout, next, lists, counts, run, ghosts>>

-----------------------------------------------------------------------------
(* The loop.                                                                 *)

\* Mutant: the eventfd is counted at every run.
evloop_runCounts ==
  /\ pc = "user" /\ pc' = "test" /\ status' = "running"
  /\ intern' = 1 /\ nios' = nios + 1 - intern /\ nactives' = nactives + 1
  /\ UNCHANGED <<use, clock, event, timeout, next, lists, ntimers, nidles, npendings, level, todo, ops, ghosts>>

\* The eventfd is watched from the first run on.
evloop_run ==
  /\ pc = "user" /\ pc' = "test" /\ status' = "running"
  /\ intern' = 1 /\ nios' = nios + 1 - intern /\ nactives' = nactives + 1 - intern
  /\ UNCHANGED <<use, clock, event, timeout, next, lists, ntimers, nidles, npendings, level, todo, ops, ghosts>>

\* Mutant: only the number of active events is tested.
LoopTestQuit ==
  /\ pc = "test"
  /\ pc' = IF nactives <= intern THEN "exit" ELSE "poll"
  /\ UNCHANGED <<use, status, clock, event, timeout, next, lists, counts, intern, level, todo, ops, ghosts>>

\* The head of the loop in evloop_run.
LoopTest ==
  /\ pc = "test"
  /\ pc' = IF status = "stop" \/ ("quit" \in use.flags /\ nactives <= intern) THEN "exit" ELSE "poll"
  /\ UNCHANGED <<use, status, clock, event, timeout, next, lists, counts, intern, level, todo, ops, ghosts>>

\* What follows a return of evloop_process_events.
PassEnd == IF "run_once" \in use.flags THEN "exit" ELSE "test"

\* loop->status and the end of evloop_run without EVLOOP_FLAG_AUTO_FREE.
RunReturn ==
  /\ pc = "exit" /\ "auto_free" \notin use.flags
  /\ status' = "stop" /\ pc' = "user"
  /\ UNCHANGED <<use, clock, event, timeout, next, lists, counts, intern, level, todo, ops, ghosts>>

\* evloop_free, and the end of evloop_run with EVLOOP_FLAG_AUTO_FREE: the ios,
\* the idles of the list and the timers of the heaps are freed.
evloop_cleanup ==
  /\ pc = IF "auto_free" \in use.flags THEN "exit" ELSE "user"
  /\ status' = "stop" /\ pc' = "free"
  /\ mem' = [e \in Events |-> IF e \in Ios \cup heap \cup Range(idles) THEN "freed" ELSE mem[e]]
  /\ heap' = {} /\ idles' = <<>> /\ pendings' = [i \in Prios |-> <<>>]
  /\ UNCHANGED <<use, clock, active, pending, destroy, repeat, timeout, next, counts, intern, level, todo, ops,
                 ghosts>>

\* How long the poll may block, in time of the clock.
Earliest == Min({next[t] : t \in heap})
TimerIsDue == ntimers > 0 /\ heap # {} /\ Earliest <= now
BlockUntil == Min({now + MaxBlock} \cup (IF heap = {} THEN {} ELSE {Earliest}))

\* EVENT_PENDING for events in the order they are found.
EventPending(es) ==
  LET new == SelectSeq(es, LAMBDA e : ~pending[e]) IN
  /\ pending' = [e \in Events |-> pending[e] \/ e \in Range(new)]
  /\ npendings' = npendings + Len(new)
  /\ pendings' = [i \in Prios |-> Reverse(SelectSeq(new, LAMBDA e : Prio(e) = i)) \o pendings[i]]

\* With a timer due the ios are not polled in this pass.
SkipPoll ==
  /\ pc = "poll" /\ TimerIsDue
  /\ cur' = now /\ pc' = "timers"
  /\ UNCHANGED <<use, status, now, event, timeout, next, lists, counts, intern, level, todo, ops, ghosts>>

\* The poll marks the ready ios; blocktime_ms is rounded up by one.  When the
\* loop was stopped meanwhile the pass ends with the ios still linked.
evloop_process_ios ==
  /\ pc = "poll" /\ ~TimerIsDue
  /\ \E t \in now .. Min({BlockUntil + 1, MaxTime}) : now' = t /\ cur' = t
  /\ \E S \in SUBSET {e \in Ios : active[e]} : EventPending(SetToSeq(S))
  /\ pc' = IF status = "stop" THEN PassEnd ELSE IF ntimers > 0 THEN "timers" ELSE "idles"
  /\ UNCHANGED <<use, status, mem, active, destroy, repeat, timeout, next, heap, idles, ntimers, nidles, nios,
                 nactives, intern, level, todo, ops, ghosts>>

\* The root of the heap in turn: of loop->timers, and then of loop->realtimers.
IsRoot(t) ==
  /\ t \in Timeouts => \A u \in heap \cap Timeouts : next[t] <= next[u]
  /\ t \in Periods => \A u \in heap : next[t] <= next[u]

\* One round of __evloop_process_timers: without repeats left the timer leaves
\* the heap and is marked for evloop_process_pendings; otherwise it moves to its
\* first time after the present.
TimerStep(t) ==
  /\ pc = "timers" /\ t \in heap /\ IsRoot(t) /\ next[t] <= cur
  /\ repeat' = [repeat EXCEPT ![t] = IF @ = Infinite THEN @ ELSE @ - 1]
  /\ IF repeat'[t] = 0
     THEN /\ heap' = heap \ {t} /\ ntimers' = ntimers - 1
          /\ destroy' = [destroy EXCEPT ![t] = TRUE]
          /\ UNCHANGED next
     ELSE /\ \E d \in use.delays :
               next' = [next EXCEPT ![t] = IF t \in Periods THEN cur + d
                                           ELSE @ + ((cur - @) \div timeout[t] + 1) * timeout[t]]
          /\ UNCHANGED <<heap, ntimers, destroy>>
  /\ EventPending(<<t>>)
  /\ UNCHANGED <<use, status, clock, mem, active, timeout, idles, nidles, nios, nactives, run, ops, ghosts>>

\* Mutant: the walk of the heap ends early.
TimersDoneEarly ==
  /\ pc = "timers" /\ TRUE
  /\ pc' = "idles"
  /\ UNCHANGED <<use, status, clock, event, timeout, next, lists, counts, intern, level, todo, ops, ghosts>>

TimersDone ==
  /\ pc = "timers" /\ \A t \in heap : next[t] > cur
  /\ pc' = "idles"
  /\ UNCHANGED <<use, status, clock, event, timeout, next, lists, counts, intern, level, todo, ops, ghosts>>

\* The idles' turn, when nothing else is pending; then evloop_process_pendings
\* starts with the highest priority.
evloop_process_idles ==
  LET left == [e \in Events |-> IF e \in Range(idles) /\ repeat[e] # Infinite THEN repeat[e] - 1
                                ELSE repeat[e]]
      last == {e \in Range(idles) : left[e] = 0}
  IN
  /\ pc = "idles"
  /\ IF npendings = 0 /\ nidles > 0
     THEN /\ repeat' = left
          /\ destroy' = [e \in Events |-> destroy[e] \/ e \in last]
          /\ idles' = SelectSeq(idles, LAMBDA e : e \notin last)
          /\ nidles' = nidles - Cardinality(last)
          /\ EventPending(idles)
     ELSE UNCHANGED <<repeat, destroy, idles, nidles, pending, npendings, pendings>>
  /\ level' = 3
  /\ pc' = IF npendings' = 0 THEN PassEnd ELSE "pend"
  /\ todo' = IF npendings' = 0 THEN <<>> ELSE pendings'[3]
  /\ UNCHANGED <<use, status, clock, mem, active, timeout, next, heap, ntimers, nios, nactives, intern, ops,
                 ghosts>>

\* Mutant: active is not tested before the call.
CallbackStartAny ==
  /\ pc = "pend" /\ todo # <<>> /\ pending[Current]
  /\ pc' = "cb"
  /\ fired' = [fired EXCEPT ![Current] = IF allowed[Current] = Infinite THEN 1 ELSE @ + 1]
  /\ due' = [t \in Timers |-> IF t = Current THEN 0 ELSE due[t]]
  /\ UNCHANGED <<use, status, clock, event, timeout, next, lists, counts, intern, level, todo, ops, gone,
                 allowed>>

\* The callback of a pending and active event starts ...
CallbackStart ==
  /\ pc = "pend" /\ todo # <<>> /\ pending[Current] /\ active[Current]
  /\ pc' = "cb"
  /\ fired' = [fired EXCEPT ![Current] = IF allowed[Current] = Infinite THEN 1 ELSE @ + 1]
  /\ due' = [t \in Timers |-> IF t = Current THEN 0 ELSE due[t]]
  /\ UNCHANGED <<use, status, clock, event, timeout, next, lists, counts, intern, level, todo, ops, gone,
                 allowed>>

\* ... takes time ...
CallbackTime ==
  /\ use.slow /\ pc = "cb" /\ now < MaxTime
  /\ now' = now + 1
  /\ UNCHANGED <<use, status, cur, event, timeout, next, lists, counts, run, ops, ghosts>>

\* ... and returns; or the event was deleted or reset since it was linked, and
\* is not called.  Only now is an event that is marked with destroy freed.
Visited ==
  /\ pc = "cb" \/ (pc = "pend" /\ todo # <<>> /\ ~(pending[Current] /\ active[Current]))
  /\ IF pc = "cb" \/ pending[Current]
     THEN /\ pending' = [pending EXCEPT ![Current] = FALSE]
          /\ active' = [active EXCEPT ![Current] = @ /\ ~destroy[Current]]
          /\ nactives' = nactives - (IF destroy[Current] /\ active[Current] THEN 1 ELSE 0)
          /\ mem' = [mem EXCEPT ![Current] = IF destroy[Current] THEN "freed" ELSE @]
     ELSE UNCHANGED <<pending, active, nactives, mem>>
  /\ pc' = "pend" /\ todo' = Tail(todo)
  /\ UNCHANGED <<use, status, clock, destroy, repeat, timeout, next, lists, ntimers, nidles, nios, npendings,
                 intern, level, ops, ghosts>>

\* The list of one priority is done, and after the last one the pass.
NextLevel ==
  /\ pc = "pend" /\ todo = <<>>
  /\ pendings' = [pendings EXCEPT ![level] = <<>>]
  /\ IF level = 0 THEN pc' = PassEnd /\ npendings' = 0 /\ UNCHANGED <<level, todo>>
     ELSE level' = level - 1 /\ todo' = pendings[level - 1] /\ UNCHANGED <<pc, npendings>>
  /\ UNCHANGED <<use, status, clock, event, timeout, next, heap, idles, ntimers, nidles, nios, nactives, intern,
                 ops, ghosts>>

Done == pc = "free" /\ UNCHANGED vars

-----------------------------------------------------------------------------
UserCall ==
  \/ \E t \in Timers, d \in use.delays, r \in use.repeats : evtimer_add(t, d, r) \/ evtimer_add_period(t, d, r)
  \/ \E t \in Timers, d \in {0} \cup use.delays : evtimer_reset(t, d)
  \/ \E e \in Idles, r \in use.repeats : evidle_add(e, r)
  \/ \E e \in Events : evtimer_del(e) \/ evidle_del(e) \/ evio_add(e) \/ evio_del(e)
  \/ evloop_stop

\* What the loop's thread does by itself, a callback's return included.
LoopStep ==
  \/ LoopTest \/ SkipPoll \/ evloop_process_ios \/ TimersDone \/ evloop_process_idles
  \/ \E t \in Timers : TimerStep(t)
  \/ CallbackStart \/ Visited \/ NextLevel

Next ==
  \/ UserCall \/ LoopStep \/ CallbackTime
  \/ evloop_run \/ RunReturn \/ evloop_cleanup \/ Done

Spec == Init /\ [][Next]_vars

\* The loop's thread is scheduled and callbacks return; user code need not call
\* anything.
FairSpec == Spec /\ WF_vars(LoopStep)

-----------------------------------------------------------------------------
TypeOK ==
  /\ status \in {"stop", "running"} /\ intern \in {0, 1}
  /\ now \in 0..MaxTime /\ cur \in 0..now
  /\ mem \in [Events -> {"none", "live", "freed"}]
  /\ active \in [Events -> BOOLEAN] /\ pending \in [Events -> BOOLEAN] /\ destroy \in [Events -> BOOLEAN]
  /\ repeat \in [Events -> {Infinite} \cup Nat]
  /\ timeout \in [Timers -> {0} \cup use.delays] /\ next \in [Timers -> Nat] /\ due \in [Timers -> Nat]
  /\ heap \subseteq Timers /\ idles \in Seq(Idles) /\ pendings \in [Prios -> Seq(Events)]
  /\ {ntimers, nidles, nios, nactives, npendings} \subseteq Nat
  /\ pc \in {"user", "test", "poll", "timers", "idles", "pend", "cb", "exit", "free"}
  /\ level \in Prios /\ todo \in Seq(Events) /\ ops \in 0..use.ops /\ gone \subseteq Events

\* The counters the loop decides by are exact: ntimers and nidles count what is
\* in the heaps and the list, nios and nactives the active events (with the
\* eventfd), and npendings the linked events whenever evloop_process_events
\* reads it.  A timer counted twice keeps the loop from ever quitting, one not
\* counted is never looked at again (evloop_process_events, evloop_run).  And a
\* timer or idle is called at most as often as user code asked for, also when it
\* is reset or deleted from callbacks while it is pending.
CountersExact ==
  /\ TypeOK
  /\ pc # "free" =>
       /\ ntimers = Cardinality(heap) /\ nidles = Len(idles)
       /\ nios = intern + Cardinality({e \in Ios : active[e]})
       /\ nactives = intern + Cardinality({e \in Events : active[e]})
       /\ pc \notin {"pend", "cb"} => npendings = Cardinality({e \in Events : pending[e]})
  /\ \A e \in Timers \cup Idles : allowed[e] # Infinite => fired[e] <= allowed[e]

\* No list of the loop leads to freed memory: what is in a heap, in the idles or
\* still to be visited in the pending lists is allocated.
NoDanglingLink == \A e \in heap \cup Range(idles) \cup Linked : mem[e] = "live"

\* An event is freed exactly when nothing leads to it any more.  No list of the
\* loop leads to freed memory; and no event is lost: one that is allocated can be
\* reached from a heap, the idles or the ios, or will be freed by
\* evloop_process_pendings, and evloop_cleanup frees the rest.
FreedWhenUnlinked ==
  /\ NoDanglingLink
  /\ \A e \in Events : mem[e] = "live" =>
       e \in heap \cup Range(idles) \cup Ios \/ (e \in Linked /\ pending[e] /\ destroy[e])
  /\ pc = "free" => \A e \in Events : mem[e] # "live"

\* Once user code has deleted an event its callback does not start, even when the
\* event was already pending at that moment.
DeletedNeverCalled == [][pc = "pend" /\ pc' = "cb" => Current \notin gone]_vars

\* A timer is not called before the time it was added or last reset for, up to
\* the granularity; in particular a reset of a pending timer takes its call back.
NeverEarly ==
  [][pc = "pend" /\ pc' = "cb" /\ Current \in Timers =>
       cur > due[Current] - (IF timeout[Current] >= Coarse THEN Grain ELSE 1)]_vars

\* A timer that is due is called unless user code deletes it or stops the loop:
\* no sequence of passes passes over it.
DueTimerFires ==
  \A t \in Timers :
    (t \in heap /\ next[t] <= now /\ fired[t] = 0 /\ status = "running")
      ~> (fired[t] > 0 \/ t \in gone \/ status = "stop")

\* evloop_stop ends evloop_run, wherever the pass is and whatever the callbacks
\* still to come do.
StopEndsRun == status = "stop" /\ pc # "user" ~> pc \in {"exit", "free"}
=============================================================================
