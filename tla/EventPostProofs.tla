---------------------------- MODULE EventPostProofs ----------------------------
(***************************************************************************)
(* However many threads post however many events to a running loop, and    *)
(* whatever the callbacks of these events post, no wakeup is lost and the  *)
(* events are called in the order they were queued in.                     *)
(***************************************************************************)
EXTENDS EventPost, SequenceTheorems, FiniteSetTheorems, TLAPS

Posted == Events \cup {Wake}
Holding == {"create", "write", "push"}

\* The places at which the thread of evloop_run is inside eventfd_read_cb.
Reading == {"next", "callback", "lock", "write", "push", "stopping"}

Places == Holding \cup Reading \cup {"idle", "stopped", "pausing", "resuming", "run_lock",
                                     "test", "poll", "polled", "read", "done"}

PostTypes ==
  /\ mutex \in All \cup {None}
  /\ eventfds \in BOOLEAN
  /\ counter \in Nat /\ count \in Nat
  /\ queue \in Seq(Posted) /\ posted \in Seq(Posted) /\ ran \in Seq(Posted)
  /\ pc \in [All -> Places]
  /\ arg \in [All -> Posted \cup {None}]

\* The mutex is held at the three places between the lock and the push.
MutexHeld == \A t \in All : pc[t] \in Holding <=> mutex = t

\* Whoever creates the eventfds has seen, under the mutex, that there are none.
\* The loop reads its eventfd only once there is one.
CreatedOnce ==
  /\ \A t \in All : pc[t] = "create" => ~eventfds
  /\ pc[Loop] \in Reading \cup {"test", "poll", "polled", "read"} => eventfds

\* A thread on its way to the push has an event, and so has a callback.
HasEvent ==
  /\ \A t \in All : pc[t] \in {"lock", "write", "push"} => arg[t] # None
  /\ \A t \in Threads : pc[t] = "create" => arg[t] # None
  /\ pc[Loop] = "callback" => arg[Loop] # None

\* A token of the eventfd is written before its event is queued.
InFlight == IF \E t \in All : pc[t] = "push" THEN 1 ELSE 0

Tokens == counter + count = Len(queue) + InFlight

\* Outside eventfd_read_cb nothing is left of its loop.
CountInLoop == count # 0 => pc[Loop] \in Reading

PostInv ==
  PostTypes /\ MutexHeld /\ CreatedOnce /\ HasEvent /\ Tokens /\ CountInLoop /\ CalledInOrder

-----------------------------------------------------------------------------
(* What the three steps do to the sequence of all events.                    *)

\* Queueing an event appends it to the whole.
LEMMA PushMoves ==
  ASSUME NEW r \in Seq(Posted), NEW q \in Seq(Posted), NEW e \in Posted
  PROVE  r \o Append(q, e) = Append(r \o q, e)
<1>1. Append(q, e) = q \o <<e>> /\ Append(r \o q, e) = (r \o q) \o <<e>>
  BY AppendIsConcat, ConcatProperties
<1> QED
  BY <1>1, ConcatAssociative

\* The event taken from the queue stands where it stood.
LEMMA TakeMoves ==
  ASSUME NEW r \in Seq(Posted), NEW q \in Seq(Posted), q # <<>>
  PROVE  (r \o <<Head(q)>>) \o Tail(q) = (r \o <<>>) \o q
<1>1. Head(q) \in Posted /\ Tail(q) \in Seq(Posted) /\ <<Head(q)>> \in Seq(Posted)
  BY HeadTailProperties
<1>2. q = <<Head(q)>> \o Tail(q)
  BY <1>1, HeadTailProperties, ConcatProperties, SeqEqual
<1>3. (r \o <<Head(q)>>) \o Tail(q) = r \o (<<Head(q)>> \o Tail(q))
  BY <1>1, ConcatAssociative
<1> QED
  BY <1>2, <1>3, ConcatEmptySeq

\* The event called is the last of those that were called.
LEMMA CallMoves ==
  ASSUME NEW r \in Seq(Posted), NEW q \in Seq(Posted), NEW e \in Posted
  PROVE  (Append(r, e) \o <<>>) \o q = (r \o <<e>>) \o q
<1>1. Append(r, e) = r \o <<e>> /\ Append(r, e) \in Seq(Posted)
  BY AppendIsConcat
<1> QED
  BY <1>1, ConcatEmptySeq

\* A queue without its head is another queue.
LEMMA TailDiffers ==
  ASSUME NEW q \in Seq(Posted), q # <<>>
  PROVE  Tail(q) # q
BY HeadTailProperties

-----------------------------------------------------------------------------
(* One lemma per part of the invariant, in each of them one step per action. *)

\* The types.
LEMMA TypesStep ==
  ASSUME PostTypes, HasEvent, [Next]_vars
  PROVE  PostTypes'
<1> USE ThreadsAssumption, EventsAssumption DEF PostTypes, HasEvent, All, Posted, Places, Holding, Reading
<1>1. ASSUME NEW t \in All, NEW e \in Events, post_begin(t, e) PROVE PostTypes'
  BY <1>1 DEF post_begin, Goto
<1>2. ASSUME NEW t \in All, post_lock(t) PROVE PostTypes'
  BY <1>2 DEF post_lock, Goto
<1>3. ASSUME NEW t \in All, create_eventfds(t) PROVE PostTypes'
  BY <1>3 DEF create_eventfds, Goto
<1>4. ASSUME NEW t \in All, post_write(t) PROVE PostTypes'
  BY <1>4 DEF post_write, Goto
<1>5. ASSUME NEW t \in All, post_push(t) PROVE PostTypes'
  BY <1>5 DEF post_push, Goto, AfterPost
<1>6. ASSUME NEW t \in All, evloop_stop(t) PROVE PostTypes'
  BY <1>6, Zenon DEF evloop_stop, Control, Goto
<1>7. ASSUME NEW t \in All, stop_set(t) PROVE PostTypes'
  BY <1>7 DEF stop_set, Goto
<1>8. ASSUME NEW t \in All, evloop_pause(t) PROVE PostTypes'
  BY <1>8 DEF evloop_pause, Control, Goto
<1>9. ASSUME NEW t \in All, evloop_resume(t) PROVE PostTypes'
  BY <1>9 DEF evloop_resume, Control, Goto
<1>10. ASSUME NEW t \in All, status_set(t) PROVE PostTypes'
  BY <1>10 DEF status_set, Goto
<1>11. CASE evloop_run
  BY <1>11 DEF evloop_run, Goto
<1>12. CASE run_lock
  BY <1>12 DEF run_lock, Goto
<1>13. CASE run_test
  BY <1>13 DEF run_test, Goto
<1>14. CASE poll
  BY <1>14 DEF poll, Goto
<1>15. CASE polled
  BY <1>15 DEF polled, Goto
<1>16. CASE read_eventfd
  BY <1>16 DEF read_eventfd, Goto
<1>17. CASE eventfd_read_cb
  <2>1. queue # <<>> => Head(queue) \in Posted /\ Tail(queue) \in Seq(Posted)
    BY HeadTailProperties
  <2>2. queue' = queue \/ (queue # <<>> /\ queue' = Tail(queue))
    BY <1>17, Zenon DEF eventfd_read_cb
  <2>3. count' \in Nat
    <3>1. count' \in {0, count} \/ (count > 0 /\ count' = count - 1)
      BY <1>17, Zenon DEF eventfd_read_cb
    <3> QED
      BY <3>1
  <2>4. arg' \in [All -> Posted \cup {None}]
    BY <1>17, <2>1 DEF eventfd_read_cb
  <2>5. pc' \in [All -> Places]
    BY <1>17 DEF eventfd_read_cb, Goto
  <2> QED
    BY <1>17, <2>1, <2>2, <2>3, <2>4, <2>5 DEF eventfd_read_cb
<1>18. CASE callback
  <2> DEFINE e == arg[Loop]
             next == IF e = Wake THEN None ELSE Follow[e]
  <2>1. e \in Posted /\ next \in Events \cup {None}
    BY <1>18 DEF callback
  <2>2. ran' \in Seq(Posted)
    BY <1>18, <2>1 DEF callback
  <2>3. arg' \in [All -> Posted \cup {None}]
    BY <1>18, <2>1 DEF callback
  <2>4. pc' \in [All -> Places]
    BY <1>18 DEF callback, Goto
  <2> QED
    BY <1>18, <2>2, <2>3, <2>4 DEF callback
<1>19. CASE UNCHANGED vars
  BY <1>19 DEF vars
<1> QED
  BY <1>1, <1>2, <1>3, <1>4, <1>5, <1>6, <1>7, <1>8, <1>9, <1>10, <1>11, <1>12, <1>13, <1>14, <1>15, <1>16, <1>17, <1>18, <1>19, Zenon DEF Next, Call, InCall, Running, Finished

\* The mutex is taken at a lock and given back at the push.
LEMMA MutexStep ==
  ASSUME PostTypes, MutexHeld, [Next]_vars
  PROVE  MutexHeld'
<1> USE ThreadsAssumption DEF PostTypes, MutexHeld, All, Holding
<1>1. ASSUME NEW t \in All, NEW e \in Events, post_begin(t, e) PROVE MutexHeld'
  BY <1>1 DEF post_begin, Goto
<1>2. ASSUME NEW t \in All, post_lock(t) PROVE MutexHeld'
  BY <1>2 DEF post_lock, Goto
<1>3. ASSUME NEW t \in All, create_eventfds(t) PROVE MutexHeld'
  BY <1>3 DEF create_eventfds, Goto
<1>4. ASSUME NEW t \in All, post_write(t) PROVE MutexHeld'
  BY <1>4 DEF post_write, Goto
<1>5. ASSUME NEW t \in All, post_push(t) PROVE MutexHeld'
  BY <1>5 DEF post_push, Goto, AfterPost
<1>6. ASSUME NEW t \in All, evloop_stop(t) PROVE MutexHeld'
  BY <1>6 DEF evloop_stop, Control, Goto
<1>7. ASSUME NEW t \in All, stop_set(t) PROVE MutexHeld'
  BY <1>7 DEF stop_set, Goto
<1>8. ASSUME NEW t \in All, evloop_pause(t) PROVE MutexHeld'
  BY <1>8 DEF evloop_pause, Control, Goto
<1>9. ASSUME NEW t \in All, evloop_resume(t) PROVE MutexHeld'
  BY <1>9 DEF evloop_resume, Control, Goto
<1>10. ASSUME NEW t \in All, status_set(t) PROVE MutexHeld'
  BY <1>10 DEF status_set, Goto
<1>11. CASE evloop_run
  BY <1>11 DEF evloop_run, Goto
<1>12. CASE run_lock
  BY <1>12 DEF run_lock, Goto
<1>13. CASE run_test
  BY <1>13 DEF run_test, Goto
<1>14. CASE poll
  BY <1>14 DEF poll, Goto
<1>15. CASE polled
  BY <1>15 DEF polled, Goto
<1>16. CASE read_eventfd
  BY <1>16 DEF read_eventfd, Goto
<1>17. CASE eventfd_read_cb
  BY <1>17 DEF eventfd_read_cb, Goto
<1>18. CASE callback
  BY <1>18 DEF callback, Goto
<1>19. CASE UNCHANGED vars
  BY <1>19 DEF vars
<1> QED
  BY <1>1, <1>2, <1>3, <1>4, <1>5, <1>6, <1>7, <1>8, <1>9, <1>10, <1>11, <1>12, <1>13, <1>14, <1>15, <1>16, <1>17, <1>18, <1>19 DEF Next, Call, InCall, Running, Finished

\* Two threads are never about to create the eventfds.
LEMMA CreatedStep ==
  ASSUME PostTypes, MutexHeld, CreatedOnce, [Next]_vars
  PROVE  CreatedOnce'
<1> USE ThreadsAssumption DEF PostTypes, MutexHeld, CreatedOnce, All, Holding, Reading
<1>1. ASSUME NEW t \in All, NEW e \in Events, post_begin(t, e) PROVE CreatedOnce'
  BY <1>1 DEF post_begin, Goto
<1>2. ASSUME NEW t \in All, post_lock(t) PROVE CreatedOnce'
  BY <1>2 DEF post_lock, Goto
<1>3. ASSUME NEW t \in All, create_eventfds(t) PROVE CreatedOnce'
  BY <1>3 DEF create_eventfds, Goto
<1>4. ASSUME NEW t \in All, post_write(t) PROVE CreatedOnce'
  BY <1>4 DEF post_write, Goto
<1>5. ASSUME NEW t \in All, post_push(t) PROVE CreatedOnce'
  BY <1>5 DEF post_push, Goto, AfterPost
<1>6. ASSUME NEW t \in All, evloop_stop(t) PROVE CreatedOnce'
  BY <1>6 DEF evloop_stop, Control, Goto
<1>7. ASSUME NEW t \in All, stop_set(t) PROVE CreatedOnce'
  BY <1>7 DEF stop_set, Goto
<1>8. ASSUME NEW t \in All, evloop_pause(t) PROVE CreatedOnce'
  BY <1>8 DEF evloop_pause, Control, Goto
<1>9. ASSUME NEW t \in All, evloop_resume(t) PROVE CreatedOnce'
  BY <1>9 DEF evloop_resume, Control, Goto
<1>10. ASSUME NEW t \in All, status_set(t) PROVE CreatedOnce'
  BY <1>10 DEF status_set, Goto
<1>11. CASE evloop_run
  BY <1>11 DEF evloop_run, Goto
<1>12. CASE run_lock
  BY <1>12 DEF run_lock, Goto
<1>13. CASE run_test
  BY <1>13 DEF run_test, Goto
<1>14. CASE poll
  BY <1>14 DEF poll, Goto
<1>15. CASE polled
  BY <1>15 DEF polled, Goto
<1>16. CASE read_eventfd
  BY <1>16 DEF read_eventfd, Goto
<1>17. CASE eventfd_read_cb
  BY <1>17 DEF eventfd_read_cb, Goto
<1>18. CASE callback
  BY <1>18 DEF callback, Goto
<1>19. CASE UNCHANGED vars
  BY <1>19 DEF vars
<1> QED
  BY <1>1, <1>2, <1>3, <1>4, <1>5, <1>6, <1>7, <1>8, <1>9, <1>10, <1>11, <1>12, <1>13, <1>14, <1>15, <1>16, <1>17, <1>18, <1>19, Zenon DEF Next, Call, InCall, Running, Finished

\* The event of a post stays with its thread up to the push.
LEMMA EventStep ==
  ASSUME PostTypes, HasEvent, [Next]_vars
  PROVE  HasEvent'
<1> USE ThreadsAssumption, EventsAssumption DEF PostTypes, HasEvent, All, Posted
<1>1. ASSUME NEW t \in All, NEW e \in Events, post_begin(t, e) PROVE HasEvent'
  BY <1>1 DEF post_begin, Goto
<1>2. ASSUME NEW t \in All, post_lock(t) PROVE HasEvent'
  BY <1>2 DEF post_lock, Goto
<1>3. ASSUME NEW t \in All, create_eventfds(t) PROVE HasEvent'
  BY <1>3 DEF create_eventfds, Goto
<1>4. ASSUME NEW t \in All, post_write(t) PROVE HasEvent'
  BY <1>4 DEF post_write, Goto
<1>5. ASSUME NEW t \in All, post_push(t) PROVE HasEvent'
  BY <1>5 DEF post_push, Goto, AfterPost
<1>6. ASSUME NEW t \in All, evloop_stop(t) PROVE HasEvent'
  BY <1>6, Zenon DEF evloop_stop, Control, Goto
<1>7. ASSUME NEW t \in All, stop_set(t) PROVE HasEvent'
  BY <1>7 DEF stop_set, Goto
<1>8. ASSUME NEW t \in All, evloop_pause(t) PROVE HasEvent'
  BY <1>8 DEF evloop_pause, Control, Goto
<1>9. ASSUME NEW t \in All, evloop_resume(t) PROVE HasEvent'
  BY <1>9 DEF evloop_resume, Control, Goto
<1>10. ASSUME NEW t \in All, status_set(t) PROVE HasEvent'
  BY <1>10 DEF status_set, Goto
<1>11. CASE evloop_run
  BY <1>11 DEF evloop_run, Goto
<1>12. CASE run_lock
  BY <1>12 DEF run_lock, Goto
<1>13. CASE run_test
  BY <1>13 DEF run_test, Goto
<1>14. CASE poll
  BY <1>14 DEF poll, Goto
<1>15. CASE polled
  BY <1>15 DEF polled, Goto
<1>16. CASE read_eventfd
  BY <1>16 DEF read_eventfd, Goto
<1>17. CASE eventfd_read_cb
  BY <1>17 DEF eventfd_read_cb, Goto
<1>18. CASE callback
  BY <1>18 DEF callback, Goto
<1>19. CASE UNCHANGED vars
  BY <1>19 DEF vars
<1> QED
  BY <1>1, <1>2, <1>3, <1>4, <1>5, <1>6, <1>7, <1>8, <1>9, <1>10, <1>11, <1>12, <1>13, <1>14, <1>15, <1>16, <1>17, <1>18, <1>19, Zenon DEF Next, Call, InCall, Running, Finished

\* The loop in eventfd_read_cb is left when its count is zero.
LEMMA CountStep ==
  ASSUME PostTypes, CreatedOnce, CountInLoop, [Next]_vars
  PROVE  CountInLoop'
<1> USE ThreadsAssumption DEF PostTypes, CreatedOnce, CountInLoop, All, Reading
<1>1. ASSUME NEW t \in All, NEW e \in Events, post_begin(t, e) PROVE CountInLoop'
  BY <1>1 DEF post_begin, Goto
<1>2. ASSUME NEW t \in All, post_lock(t) PROVE CountInLoop'
  BY <1>2 DEF post_lock, Goto
<1>3. ASSUME NEW t \in All, create_eventfds(t) PROVE CountInLoop'
  BY <1>3 DEF create_eventfds, Goto
<1>4. ASSUME NEW t \in All, post_write(t) PROVE CountInLoop'
  BY <1>4 DEF post_write, Goto
<1>5. ASSUME NEW t \in All, post_push(t) PROVE CountInLoop'
  BY <1>5 DEF post_push, Goto, AfterPost
<1>6. ASSUME NEW t \in All, evloop_stop(t) PROVE CountInLoop'
  BY <1>6 DEF evloop_stop, Control, Goto
<1>7. ASSUME NEW t \in All, stop_set(t) PROVE CountInLoop'
  BY <1>7 DEF stop_set, Goto
<1>8. ASSUME NEW t \in All, evloop_pause(t) PROVE CountInLoop'
  BY <1>8 DEF evloop_pause, Control, Goto
<1>9. ASSUME NEW t \in All, evloop_resume(t) PROVE CountInLoop'
  BY <1>9 DEF evloop_resume, Control, Goto
<1>10. ASSUME NEW t \in All, status_set(t) PROVE CountInLoop'
  BY <1>10 DEF status_set, Goto
<1>11. CASE evloop_run
  BY <1>11 DEF evloop_run, Goto
<1>12. CASE run_lock
  BY <1>12 DEF run_lock, Goto
<1>13. CASE run_test
  BY <1>13 DEF run_test, Goto
<1>14. CASE poll
  BY <1>14 DEF poll, Goto
<1>15. CASE polled
  BY <1>15 DEF polled, Goto
<1>16. CASE read_eventfd
  BY <1>16 DEF read_eventfd, Goto
<1>17. CASE eventfd_read_cb
  BY <1>17 DEF eventfd_read_cb, Goto
<1>18. CASE callback
  BY <1>18 DEF callback, Goto
<1>19. CASE UNCHANGED vars
  BY <1>19 DEF vars
<1> QED
  BY <1>1, <1>2, <1>3, <1>4, <1>5, <1>6, <1>7, <1>8, <1>9, <1>10, <1>11, <1>12, <1>13, <1>14, <1>15, <1>16, <1>17, <1>18, <1>19 DEF Next, Call, InCall, Running, Finished

\* A token is written under the mutex, and its event queued before the mutex is free.
\* What the eventfd counted becomes the count of eventfd_read_cb.
LEMMA TokensStep ==
  ASSUME PostTypes, MutexHeld, CountInLoop, Tokens, [Next]_vars
  PROVE  Tokens'
<1> USE ThreadsAssumption DEF PostTypes, MutexHeld, CountInLoop, Tokens, InFlight, All, Holding, Reading
<1>1. ASSUME NEW t \in All, NEW e \in Events, post_begin(t, e) PROVE Tokens'
  BY <1>1 DEF post_begin, Goto
<1>2. ASSUME NEW t \in All, post_lock(t) PROVE Tokens'
  BY <1>2 DEF post_lock, Goto
<1>3. ASSUME NEW t \in All, create_eventfds(t) PROVE Tokens'
  BY <1>3 DEF create_eventfds, Goto
<1>4. ASSUME NEW t \in All, post_write(t) PROVE Tokens'
  BY <1>4 DEF post_write, Goto
<1>5. ASSUME NEW t \in All, post_push(t) PROVE Tokens'
  BY <1>5 DEF post_push, Goto, AfterPost
<1>6. ASSUME NEW t \in All, evloop_stop(t) PROVE Tokens'
  BY <1>6 DEF evloop_stop, Control, Goto
<1>7. ASSUME NEW t \in All, stop_set(t) PROVE Tokens'
  BY <1>7 DEF stop_set, Goto
<1>8. ASSUME NEW t \in All, evloop_pause(t) PROVE Tokens'
  BY <1>8 DEF evloop_pause, Control, Goto
<1>9. ASSUME NEW t \in All, evloop_resume(t) PROVE Tokens'
  BY <1>9 DEF evloop_resume, Control, Goto
<1>10. ASSUME NEW t \in All, status_set(t) PROVE Tokens'
  BY <1>10 DEF status_set, Goto
<1>11. CASE evloop_run
  BY <1>11 DEF evloop_run, Goto
<1>12. CASE run_lock
  BY <1>12 DEF run_lock, Goto
<1>13. CASE run_test
  BY <1>13 DEF run_test, Goto
<1>14. CASE poll
  BY <1>14 DEF poll, Goto
<1>15. CASE polled
  BY <1>15 DEF polled, Goto
<1>16. CASE read_eventfd
  BY <1>16 DEF read_eventfd, Goto
<1>17. CASE eventfd_read_cb
  <2>1. InFlight' = InFlight
    BY <1>17 DEF eventfd_read_cb, Goto
  <2>2. /\ counter' = counter
        /\ \/ queue' = queue /\ count' = count
           \/ queue' = queue /\ queue = <<>> /\ mutex = None /\ count' = 0
           \/ queue # <<>> /\ queue' = Tail(queue) /\ count' = count - 1
    <3> HIDE DEF PostTypes, MutexHeld, CountInLoop, Tokens, InFlight
    <3> QED
      BY <1>17 DEF eventfd_read_cb
  <2>3. queue # <<>> => Len(Tail(queue)) = Len(queue) - 1
    BY HeadTailProperties
  <2>4. mutex = None => InFlight = 0
    BY DEF InFlight
  <2>5. Len(queue) \in Nat /\ InFlight \in Nat /\ Len(<<>>) = 0 /\ counter \in Nat /\ count \in Nat
    BY LenProperties DEF InFlight
  <2> HIDE DEF PostTypes, InFlight, MutexHeld, CountInLoop
  <2>6. CASE queue' = queue /\ count' = count
    BY <2>1, <2>2, <2>6
  <2>7. CASE queue' = queue /\ queue = <<>> /\ mutex = None /\ count' = 0
    BY <2>1, <2>2, <2>4, <2>5, <2>7
  <2>8. CASE queue # <<>> /\ queue' = Tail(queue) /\ count' = count - 1
    <3>1. Len(queue') = Len(queue) - 1 /\ count' = count - 1
      BY <2>3, <2>8
    <3> QED
      BY <2>1, <2>2, <2>5, <3>1
  <2> QED
    BY <2>2, <2>6, <2>7, <2>8
<1>18. CASE callback
  BY <1>18 DEF callback, Goto
<1>19. CASE UNCHANGED vars
  BY <1>19 DEF vars
<1> QED
  BY <1>1, <1>2, <1>3, <1>4, <1>5, <1>6, <1>7, <1>8, <1>9, <1>10, <1>11, <1>12, <1>13, <1>14, <1>15, <1>16, <1>17, <1>18, <1>19, Zenon DEF Next, Call, InCall, Running, Finished

\* The event whose callback is about to run.
Calling == IF pc[Loop] = "callback" THEN <<arg[Loop]>> ELSE <<>>

\* A step that leaves the queue, the callback and what was called alone.
LEMMA Quiet ==
  ASSUME CalledInOrder, Calling' = Calling, UNCHANGED <<queue, ran, posted>>
  PROVE  CalledInOrder'
BY Zenon DEF CalledInOrder, Calling

\* An event moves from the queue to its callback, and then to those that were called.
LEMMA OrderStep ==
  ASSUME PostTypes, HasEvent, CalledInOrder, [Next]_vars
  PROVE  CalledInOrder'
<1> USE ThreadsAssumption DEF PostTypes, HasEvent, All
<1>1. ASSUME NEW t \in All, NEW e \in Events, post_begin(t, e) PROVE CalledInOrder'
  BY <1>1, Quiet DEF post_begin, Goto, Calling
<1>2. ASSUME NEW t \in All, post_lock(t) PROVE CalledInOrder'
  BY <1>2, Quiet DEF post_lock, Goto, Calling
<1>3. ASSUME NEW t \in All, create_eventfds(t) PROVE CalledInOrder'
  BY <1>3, Quiet DEF create_eventfds, Goto, Calling
<1>4. ASSUME NEW t \in All, post_write(t) PROVE CalledInOrder'
  BY <1>4, Quiet DEF post_write, Goto, Calling
<1>5. ASSUME NEW t \in All, post_push(t) PROVE CalledInOrder'
  <2>1. Calling' = Calling /\ arg[t] \in Posted /\ Calling \in Seq(Posted)
    BY <1>5 DEF post_push, Goto, AfterPost, Calling
  <2>2. queue' = Append(queue, arg[t]) /\ ran' = ran /\ posted' = Append(posted, arg[t])
    BY <1>5 DEF post_push
  <2>3. ran \o Calling \in Seq(Posted)
    BY <2>1, ConcatProperties
  <2>4. (ran \o Calling) \o Append(queue, arg[t]) = Append((ran \o Calling) \o queue, arg[t])
    BY <2>1, <2>3, PushMoves
  <2> QED
    BY <2>1, <2>2, <2>4, Zenon DEF CalledInOrder, Calling
<1>6. ASSUME NEW t \in All, evloop_stop(t) PROVE CalledInOrder'
  BY <1>6, Quiet DEF evloop_stop, Control, Goto, Calling
<1>7. ASSUME NEW t \in All, stop_set(t) PROVE CalledInOrder'
  BY <1>7, Quiet DEF stop_set, Goto, Calling
<1>8. ASSUME NEW t \in All, evloop_pause(t) PROVE CalledInOrder'
  BY <1>8, Quiet DEF evloop_pause, Control, Goto, Calling
<1>9. ASSUME NEW t \in All, evloop_resume(t) PROVE CalledInOrder'
  BY <1>9, Quiet DEF evloop_resume, Control, Goto, Calling
<1>10. ASSUME NEW t \in All, status_set(t) PROVE CalledInOrder'
  BY <1>10, Quiet DEF status_set, Goto, Calling
<1>11. CASE evloop_run
  BY <1>11, Quiet DEF evloop_run, Goto, Calling
<1>12. CASE run_lock
  BY <1>12, Quiet DEF run_lock, Goto, Calling
<1>13. CASE run_test
  BY <1>13, Quiet DEF run_test, Goto, Calling
<1>14. CASE poll
  BY <1>14, Quiet DEF poll, Goto, Calling
<1>15. CASE polled
  BY <1>15, Quiet DEF polled, Goto, Calling
<1>16. CASE read_eventfd
  BY <1>16, Quiet DEF read_eventfd, Goto, Calling
<1>17. CASE eventfd_read_cb
  <2>1. CASE queue' = queue
    <3>1. Calling' = Calling
      BY <1>17, <2>1, TailDiffers DEF eventfd_read_cb, Goto, Calling
    <3> QED
      BY <1>17, <3>1, <2>1, Quiet DEF eventfd_read_cb
  <2>2. CASE queue' # queue
    <3>1. /\ queue # <<>> /\ queue' = Tail(queue) /\ ran' = ran /\ posted' = posted
          /\ Calling = <<>> /\ Calling' = <<Head(queue)>>
      BY <1>17, <2>2 DEF eventfd_read_cb, Goto, Calling
    <3>2. (ran \o <<Head(queue)>>) \o Tail(queue) = (ran \o <<>>) \o queue
      BY <3>1, TakeMoves, Zenon
    <3> QED
      BY <3>1, <3>2 DEF CalledInOrder, Calling
  <2> QED
    BY <2>1, <2>2
<1>18. CASE callback
  <2>1. /\ Calling = <<arg[Loop]>> /\ Calling' = <<>> /\ arg[Loop] \in Posted
        /\ ran' = Append(ran, arg[Loop]) /\ queue' = queue /\ posted' = posted
    BY <1>18 DEF callback, Goto, Calling
  <2>2. (Append(ran, arg[Loop]) \o <<>>) \o queue = (ran \o <<arg[Loop]>>) \o queue
    BY <2>1, CallMoves
  <2> QED
    BY <2>1, <2>2 DEF CalledInOrder, Calling
<1>19. CASE UNCHANGED vars
  BY <1>19, Quiet DEF vars, Calling
<1> QED
  BY <1>1, <1>2, <1>3, <1>4, <1>5, <1>6, <1>7, <1>8, <1>9, <1>10, <1>11, <1>12, <1>13, <1>14, <1>15, <1>16, <1>17, <1>18, <1>19 DEF Next, Call, InCall, Running, Finished

-----------------------------------------------------------------------------
\* The invariant of evloop_post_event and eventfd_read_cb.
THEOREM PostInvariant == Spec => []PostInv
<1>1. Init => PostInv
  <2> SUFFICES ASSUME Init PROVE PostInv
    OBVIOUS
  <2>1. PostTypes
    BY EmptySeq, Zenon DEF Init, PostTypes, All, Places, Posted
  <2>2. MutexHeld /\ CreatedOnce /\ HasEvent /\ CountInLoop
    BY ThreadsAssumption DEF Init, MutexHeld, CreatedOnce, HasEvent, CountInLoop, All, Holding, Reading
  <2>3. Tokens
    BY DEF Init, Tokens, InFlight, All
  <2>4. CalledInOrder
    <3>1. pc[Loop] # "callback" /\ ran = <<>> /\ queue = <<>> /\ posted = <<>>
      BY DEF Init, All
    <3>2. (<<>> \o <<>>) \o <<>> = <<>>
      BY EmptySeq, ConcatEmptySeq
    <3> QED
      BY <3>1, <3>2 DEF CalledInOrder
  <2> QED
    BY <2>1, <2>2, <2>3, <2>4 DEF PostInv
<1>2. PostInv /\ [Next]_vars => PostInv'
  BY TypesStep, MutexStep, CreatedStep, EventStep, CountStep, TokensStep, OrderStep DEF PostInv
<1> QED
  BY <1>1, <1>2, PTL DEF Spec

\* Whatever the threads and their posts: between two holders of the mutex the eventfd
\* and eventfd_read_cb count the queue, and only one thread creates the eventfd.
THEOREM NoTokenIsLost == Spec => []TokensExact
<1>1. PostInv => TokensExact
  <2> SUFFICES ASSUME PostInv PROVE TokensExact
    OBVIOUS
  <2>1. mutex = None => counter + count = Len(queue)
    BY ThreadsAssumption DEF PostInv, PostTypes, MutexHeld, Tokens, InFlight, Holding
  <2>2. CASE mutex = None \/ pc[mutex] # "create"
    <3>1. {t \in All : pc[t] = "create"} = {}
      BY <2>2, ThreadsAssumption DEF PostInv, MutexHeld, Holding
    <3> QED
      BY <2>1, <3>1, FS_EmptySet DEF TokensExact, OneEventfd
  <2>3. CASE mutex # None /\ pc[mutex] = "create"
    <3>1. /\ mutex \in All /\ ~eventfds
          /\ \A t \in All : pc[t] = "create" => t = mutex
      BY <2>3 DEF PostInv, PostTypes, MutexHeld, CreatedOnce, Holding
    <3>2. {t \in All : pc[t] = "create"} = {mutex}
      BY <2>3, <3>1
    <3>3. Cardinality({t \in All : pc[t] = "create"}) = 1
      BY <3>2, FS_Singleton
    <3> QED
      BY <2>1, <3>1, <3>3 DEF TokensExact, OneEventfd
  <2> QED
    BY <2>2, <2>3
<1> QED
  BY <1>1, PostInvariant, PTL

\* Events are called once each and in the order of evloop_post_event.
THEOREM EventsAreCalledInOrder == Spec => []CalledInOrder
<1>1. PostInv => CalledInOrder
  BY DEF PostInv
<1> QED
  BY <1>1, PostInvariant, PTL
=============================================================================
