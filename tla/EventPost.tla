------------------------------- MODULE EventPost -------------------------------
(***************************************************************************)
(* The calls that other threads make on a running event loop of            *)
(* src/event/eventloop.c: evloop_post_event, evloop_wakeup, evloop_stop,   *)
(* evloop_pause and evloop_resume, against the thread in evloop_run.       *)
(* Posted events wait in loop->custom_events under a mutex; an eventfd     *)
(* counts them and wakes the loop.  loop->status is a plain int that every *)
(* thread reads and writes without the mutex.                              *)
(***************************************************************************)
EXTENDS Integers, Sequences, FiniteSets, SequencesExt

CONSTANTS Threads,       \* the other threads
          Loop,          \* the thread of evloop_run
          None,
          Events,        \* the events that are posted
          Calls,         \* Calls[t]: the calls thread t makes, each once: events to post, "stop", "pause", "resume"
          Follow,        \* Follow[e]: the event the callback of e posts, or None
          StopsLoop,     \* the events whose callback calls evloop_stop
          EarlyStop,     \* may evloop_stop, _pause and _resume be called before evloop_run?
          MaxRuns        \* bound on the calls of evloop_run

VARIABLES status, tid,   \* loop->status, loop->tid
          mutex,         \* the thread that holds custom_events_mutex
          eventfds,      \* have the eventfds been created?
          counter,       \* the eventfd's
          queue,         \* loop->custom_events
          pc, arg,       \* per thread: its place, and the event it posts
          todo,          \* the calls it has yet to make
          pending,       \* is the io of the eventfd pending?
          count,         \* what is left of the loop in eventfd_read_cb
          runs,          \* calls of evloop_run
          posted, ran    \* history: the events in the order they were queued, and called

vars == <<status, tid, mutex, eventfds, counter, queue, pc, arg, todo,
          pending, count, runs, posted, ran>>

All == Threads \cup {Loop}
Wake == "wake"      \* the event of evloop_wakeup, which has no callback

ASSUME ThreadsAssumption == Loop \notin Threads /\ None \notin All
ASSUME EventsAssumption ==
  /\ None \notin Events /\ Wake \notin Events /\ None # Wake
  /\ Follow \in [Events -> Events \cup {None}]

Init ==
  /\ status = "stop" /\ mutex = None /\ eventfds = FALSE /\ counter = 0 /\ queue = <<>>
  /\ tid \in All
  /\ pc = [t \in All |-> "idle"] /\ arg = [t \in All |-> None]
  /\ todo = [t \in All |-> IF t # Loop THEN Calls[t] ELSE {}]
  /\ pending = FALSE /\ count = 0 /\ runs = 0 /\ posted = <<>> /\ ran = <<>>

Goto(t, place) == pc' = [pc EXCEPT ![t] = place]

\* Where a thread goes on after evloop_post_event.
AfterPost(t) == IF t = Loop THEN "next" ELSE IF arg[t] = Wake THEN "stopping" ELSE "idle"

-----------------------------------------------------------------------------
(* evloop_post_event                                                         *)

post_begin(t, e) ==
  /\ pc[t] = "idle" /\ t \in Threads
  /\ e \in todo[t] \cap Events
  /\ todo' = [todo EXCEPT ![t] = @ \ {e}]
  /\ arg' = [arg EXCEPT ![t] = e]
  /\ Goto(t, "lock")
  /\ UNCHANGED <<status, tid, mutex, eventfds, counter, queue, pending, count, runs, posted, ran>>

post_lock(t) ==
  /\ pc[t] = "lock"
  /\ mutex = None
  /\ mutex' = t
  /\ Goto(t, IF eventfds THEN "write" ELSE "create")
  /\ UNCHANGED <<status, tid, eventfds, counter, queue, arg, todo, pending, count, runs, posted, ran>>

\* evloop_create_eventfds.
create_eventfds(t) ==
  /\ pc[t] = "create"
  /\ eventfds' = TRUE
  /\ IF t = Loop THEN Goto(t, "test") /\ mutex' = None ELSE Goto(t, "write") /\ UNCHANGED mutex
  /\ UNCHANGED <<status, tid, counter, queue, arg, todo, pending, count, runs, posted, ran>>

post_write(t) ==
  /\ pc[t] = "write"
  /\ counter' = counter + 1
  /\ Goto(t, "push")
  /\ UNCHANGED <<status, tid, mutex, eventfds, queue, arg, todo, pending, count, runs, posted, ran>>

\* Mutant: the event is put in front.
post_pushFront(t) ==
  /\ pc[t] = "push"
  /\ queue' = <<arg[t]>> \o queue /\ posted' = Append(posted, arg[t])
  /\ mutex' = None
  /\ Goto(t, AfterPost(t))
  /\ arg' = [arg EXCEPT ![t] = None]
  /\ UNCHANGED <<status, tid, eventfds, counter, todo, pending, count, runs, ran>>

post_push(t) ==
  /\ pc[t] = "push"
  /\ queue' = Append(queue, arg[t]) /\ posted' = Append(posted, arg[t])
  /\ mutex' = None
  /\ Goto(t, AfterPost(t))
  /\ arg' = [arg EXCEPT ![t] = None]
  /\ UNCHANGED <<status, tid, eventfds, counter, todo, pending, count, runs, ran>>

-----------------------------------------------------------------------------
(* evloop_stop, evloop_pause and evloop_resume from another thread           *)

Control(t, call) ==
  /\ pc[t] = "idle" /\ t \in Threads
  /\ call \in todo[t]
  /\ EarlyStop \/ runs > 0
  /\ todo' = [todo EXCEPT ![t] = @ \ {call}]

\* The loop's thread is woken before the status is set.
evloop_stop(t) ==
  /\ Control(t, "stop")
  /\ IF tid = t THEN Goto(t, "stopping") /\ UNCHANGED arg ELSE Goto(t, "lock") /\ arg' = [arg EXCEPT ![t] = Wake]
  /\ UNCHANGED <<status, tid, mutex, eventfds, counter, queue, pending, count, runs, posted, ran>>


stop_set(t) ==
  /\ pc[t] = "stopping"
  /\ status' = "stop"
  /\ Goto(t, IF t = Loop THEN "next" ELSE "stopped")
  /\ UNCHANGED <<tid, mutex, eventfds, counter, queue, arg, todo, pending, count, runs, posted, ran>>

\* The status is read and written in two steps.
evloop_pause(t) ==
  /\ Control(t, "pause")
  /\ Goto(t, IF status = "running" THEN "pausing" ELSE "idle")
  /\ UNCHANGED <<status, tid, mutex, eventfds, counter, queue, arg, pending, count, runs, posted, ran>>

evloop_resume(t) ==
  /\ Control(t, "resume")
  /\ Goto(t, IF status = "pause" THEN "resuming" ELSE "idle")
  /\ UNCHANGED <<status, tid, mutex, eventfds, counter, queue, arg, pending, count, runs, posted, ran>>

status_set(t) ==
  /\ pc[t] \in {"pausing", "resuming"}
  /\ status' = IF pc[t] = "pausing" THEN "pause" ELSE "running"
  /\ Goto(t, "idle")
  /\ UNCHANGED <<tid, mutex, eventfds, counter, queue, arg, todo, pending, count, runs, posted, ran>>

-----------------------------------------------------------------------------
(* The thread of evloop_run                                                  *)

evloop_run ==
  /\ pc[Loop] \in {"idle", "done"} /\ runs < MaxRuns
  /\ status # "running"
  /\ status' = "running" /\ tid' = Loop /\ runs' = runs + 1
  /\ Goto(Loop, IF eventfds THEN "test" ELSE "run_lock")
  /\ UNCHANGED <<mutex, eventfds, counter, queue, arg, todo, pending, count, posted, ran>>

run_lock ==
  /\ pc[Loop] = "run_lock" /\ mutex = None
  /\ IF eventfds THEN Goto(Loop, "test") /\ UNCHANGED mutex ELSE Goto(Loop, "create") /\ mutex' = Loop
  /\ UNCHANGED <<status, tid, eventfds, counter, queue, arg, todo, pending, count, runs, posted, ran>>

\* The test of the loop; a paused loop sleeps and tests again.
run_test ==
  /\ pc[Loop] = "test" /\ status # "pause"
  /\ Goto(Loop, IF status = "stop" THEN "done" ELSE "poll")
  /\ UNCHANGED <<status, tid, mutex, eventfds, counter, queue, arg, todo, pending, count, runs, posted, ran>>

\* The poll returns because the eventfd is readable or because the block time is over.
poll ==
  /\ pc[Loop] = "poll"
  /\ pending' = (pending \/ counter > 0)
  /\ Goto(Loop, "polled")
  /\ UNCHANGED <<status, tid, mutex, eventfds, counter, queue, arg, todo, count, runs, posted, ran>>

\* A stopped loop leaves the io pending.
polled ==
  /\ pc[Loop] = "polled"
  /\ Goto(Loop, IF status # "stop" /\ pending THEN "read" ELSE "test")
  /\ UNCHANGED <<status, tid, mutex, eventfds, counter, queue, arg, todo, pending, count, runs, posted, ran>>

read_eventfd ==
  /\ pc[Loop] = "read"
  /\ count' = counter /\ counter' = 0 /\ pending' = FALSE
  /\ Goto(Loop, "next")
  /\ UNCHANGED <<status, tid, mutex, eventfds, queue, arg, todo, runs, posted, ran>>

\* Mutant: one event per wakeup.
eventfd_read_cbOne ==
  /\ pc[Loop] = "next"
  /\ \/ /\ count = 0
        /\ Goto(Loop, "test") /\ UNCHANGED <<queue, count, arg>>
     \/ /\ count > 0 /\ mutex = None /\ queue = <<>>
        /\ Goto(Loop, "test") /\ count' = 0 /\ UNCHANGED <<queue, arg>>
     \/ /\ count > 0 /\ mutex = None /\ queue # <<>>
        /\ queue' = Tail(queue) /\ count' = 0
        /\ arg' = [arg EXCEPT ![Loop] = Head(queue)]
        /\ Goto(Loop, "callback")
  /\ UNCHANGED <<status, tid, mutex, eventfds, counter, todo, pending, runs, posted, ran>>

\* One turn of the loop: an event is taken under the mutex, which is free again
\* when its callback runs.
eventfd_read_cb ==
  /\ pc[Loop] = "next"
  /\ \/ /\ count = 0
        /\ Goto(Loop, "test") /\ UNCHANGED <<queue, count, arg>>
     \/ /\ count > 0 /\ mutex = None /\ queue = <<>>
        /\ Goto(Loop, "test") /\ count' = 0 /\ UNCHANGED <<queue, arg>>
     \/ /\ count > 0 /\ mutex = None /\ queue # <<>>
        /\ queue' = Tail(queue) /\ count' = count - 1
        /\ arg' = [arg EXCEPT ![Loop] = Head(queue)]
        /\ Goto(Loop, "callback")
  /\ UNCHANGED <<status, tid, mutex, eventfds, counter, todo, pending, runs, posted, ran>>

\* The callback may post an event itself, and stop the loop from inside.
callback ==
  LET e == arg[Loop]
      next == IF e = Wake THEN None ELSE Follow[e]
  IN
  /\ pc[Loop] = "callback"
  /\ ran' = Append(ran, e)
  /\ arg' = [arg EXCEPT ![Loop] = next]
  /\ Goto(Loop, IF next # None THEN "lock" ELSE IF e \in StopsLoop THEN "stopping" ELSE "next")
  /\ UNCHANGED <<status, tid, mutex, eventfds, counter, queue, todo, pending, count, runs, posted>>

\* Every call has been made and the loop has ended, or sleeps on in its pause.
Finished ==
  /\ pc[Loop] = "done" \/ (pc[Loop] = "test" /\ status = "pause")
  /\ (\A t \in Threads : pc[t] \in {"idle", "stopped"})
  /\ UNCHANGED vars

Call(t) == (\E e \in Events : post_begin(t, e)) \/ evloop_stop(t) \/ evloop_pause(t) \/ evloop_resume(t)
InCall(t) ==
  post_lock(t) \/ create_eventfds(t) \/ post_write(t) \/ post_push(t) \/ stop_set(t) \/ status_set(t)
Running == run_lock \/ run_test \/ poll \/ polled \/ read_eventfd \/ eventfd_read_cb \/ callback

Next == (\E t \in All : Call(t) \/ InCall(t)) \/ evloop_run \/ Running \/ Finished

Spec == Init /\ [][Next]_vars

\* A call once made is carried on with, and so is evloop_run; the mutex goes to
\* each that waits for it again and again.
Fairness ==
  /\ \A t \in All : SF_vars(post_lock(t)) /\ WF_vars(InCall(t))
  /\ WF_vars(Running) /\ SF_vars(run_lock) /\ SF_vars(eventfd_read_cb)

FairSpec == Spec /\ Fairness

-----------------------------------------------------------------------------
\* evloop_post_event and evloop_run both create the eventfds when there are none;
\* they do not create them twice.
OneEventfd == Cardinality({t \in All : pc[t] = "create"}) + (IF eventfds THEN 1 ELSE 0) <= 1

\* Under the mutex the eventfd and the events that eventfd_read_cb still has to
\* take always count the queue: no event is left without a wakeup.  And there is
\* only one eventfd to count them.
TokensExact ==
  /\ mutex = None => counter + count = Len(queue)
  /\ OneEventfd

\* Events are called once each, in the order in which evloop_post_event queued
\* them, whichever threads posted them and whatever their callbacks post.
CalledInOrder == ran \o (IF pc[Loop] = "callback" THEN <<arg[Loop]>> ELSE <<>>) \o queue = posted

\* A posted event is called while the loop runs: no wakeup is lost between a post
\* and the poll.
PostedIsCalled ==
  \A e \in Events : e \in Range(queue) ~> (e \in Range(ran) \/ pc[Loop] \in {"idle", "done"} \/ status = "pause")

=============================================================================
