--------------------------- MODULE ThreadPoolProofs ---------------------------
(***************************************************************************)
(* The safety properties of ThreadPool, for every number of threads, jobs  *)
(* and clients: the second half of the proof that Inv is inductive (what a *)
(* waiter has seen, the phases of the pool, where the jobs are, and the    *)
(* wake-ups), and the theorems that follow from it.                        *)
(***************************************************************************)
EXTENDS ThreadPoolLocks


\* What a waiter has established survives a step that keeps it where it is and
\* loses no job.
LEMMA SnapFrame ==
  ASSUME SnapInv, InPool \subseteq InPool', done \subseteq done',
         \A t \in Workers : job[t] \in Jobs => job[t] \in done' \cup {job'[u] : u \in Workers},
         TypeOK, snap' = snap,
         \A c \in Clients : pc'[c] \in {"wait", "wait_c", "wait_len", "wait_num", "wait_u"} =>
            pc'[c] = pc[c]
  PROVE  SnapInv'
<1> SUFFICES ASSUME NEW c \in Clients, pc'[c] = pc[c]
             PROVE  /\ pc[c] \in {"wait", "wait_c", "wait_len"} => snap[c] \subseteq InPool'
                    /\ pc[c] = "wait_num" => snap[c] \subseteq done' \cup {job'[t] : t \in Workers}
                    /\ pc[c] = "wait_u" => snap[c] \subseteq done'
  BY DEF SnapInv
<1>1. snap[c] \subseteq Jobs
  BY DEF TypeOK
<1> QED BY <1>1 DEF SnapInv

\* A client inside thpool_wait misses no job.
LEMMA SnapStep == Inv /\ [Next]_vars => SnapInv'
<1> SUFFICES ASSUME SnapInv, CarryInv, CountInv, PhaseInv, TypeOK, pc \in [Procs ->
   WorkerPC \cup ClientPC], job \in [Procs -> Jobs \cup {None}], queue \in Seq(Jobs), snap
   \in [Clients -> SUBSET Jobs], [Next]_vars
             PROVE  SnapInv'
  BY DEF Inv, TypeOK
<1> USE ProcFacts DEF SnapInv, InPool
<1>1. ASSUME NEW t \in Workers, bsem_wait(t) PROVE SnapInv'
  BY <1>1 DEF bsem_wait, Goto, ghosts
<1>2. ASSUME NEW t \in Workers, AliveInc(t) PROVE SnapInv'
  BY <1>2 DEF AliveInc, Goto, ghosts
<1>3. ASSUME NEW t \in Workers, LoopTest(t) PROVE SnapInv'
  BY <1>3 DEF LoopTest, Goto, locks, ghosts
<1>4. ASSUME NEW t \in Workers, KeepaliveTest(t) PROVE SnapInv'
  BY <1>4 DEF KeepaliveTest, Goto, locks, ghosts
<1>5. ASSUME NEW t \in Workers, WorkingInc(t) PROVE SnapInv'
  BY <1>5 DEF WorkingInc, Goto, ghosts
<1>6. ASSUME NEW t \in Workers, jobqueue_pull(t) PROVE SnapInv'
  <2>1. job[t] = None
    BY <1>6 DEF jobqueue_pull, CarryInv
  <2>2. CASE queue = <<>>
    BY <1>6, <2>1, <2>2 DEF jobqueue_pull, Goto, ghosts
  <2>3. CASE queue # <<>>
    <3>1. /\ queue' = Tail(queue) /\ job' = [job EXCEPT ![t] = Head(queue)]
          /\ DOMAIN queue = 1..Len(queue) /\ Len(queue) \in Nat
      BY <1>6, <2>3 DEF jobqueue_pull
    <3>2. ASSUME NEW i \in DOMAIN queue PROVE queue[i] \in InPool'
      <4>1. CASE i = 1
        <5>1. job'[t] = queue[i] /\ queue[i] # None
          BY <2>3, <3>1, <4>1
        <5> QED BY <5>1
      <4>2. CASE i # 1
        <5>1. i - 1 \in DOMAIN queue' /\ queue'[i - 1] = queue[i] /\ queue[i] # None
          BY <2>3, <3>1, <4>2
        <5> QED BY <5>1
      <4> QED BY <4>1, <4>2
    <3>3. ASSUME NEW u \in Workers, job[u] # None PROVE job[u] \in {job'[w] : w \in Workers}
      <4>1. job'[u] = job[u]
        BY <2>1, <3>1, <3>3
      <4> QED BY <4>1
    <3>4. done' = done /\ snap' = snap /\ \A c \in Clients : pc'[c] = pc[c]
      BY <1>6 DEF jobqueue_pull, Goto, ghosts
    <3>5. InPool \subseteq InPool'
      BY <3>2, <3>3, <3>4
    <3> QED BY <3>3, <3>4, <3>5, SnapFrame
  <2> QED BY <2>2, <2>3
<1>7. ASSUME NEW t \in Workers, PullPost(t) PROVE SnapInv'
  BY <1>7 DEF PullPost, bsem_post, Goto, ghosts
<1>8. ASSUME NEW t \in Workers, RunJob(t) PROVE SnapInv'
  BY <1>8 DEF RunJob, Goto, locks
<1>9. ASSUME NEW t \in Workers, WorkingDec(t) PROVE SnapInv'
  BY <1>9 DEF WorkingDec, Goto, ghosts
<1>10. ASSUME NEW t \in Workers, AliveDec(t) PROVE SnapInv'
  BY <1>10 DEF AliveDec, Goto, ghosts
<1>11. ASSUME NEW p \in Procs, UnlockCount(p) PROVE SnapInv'
  BY <1>11 DEF UnlockCount, Goto, ghosts
<1>12. ASSUME NEW p \in Procs, UnlockSem(p) PROVE SnapInv'
  BY <1>12 DEF UnlockSem, Goto, ghosts
<1>13. ASSUME NEW p \in Procs, UnlockQueue(p) PROVE SnapInv'
  BY <1>13 DEF UnlockQueue, Goto, ghosts
<1>14. ASSUME NEW c \in Clients, thpool_add_work(c) PROVE SnapInv'
  BY <1>14 DEF thpool_add_work, Goto, locks
<1>15. ASSUME NEW c \in Clients, jobqueue_push(c) PROVE SnapInv'
  <2>1. /\ queue' = Append(queue, job[c]) /\ job[c] # None
        /\ \A t \in Workers : job'[t] = job[t]
    BY <1>15 DEF jobqueue_push, CarryInv
  <2>2. ASSUME NEW i \in DOMAIN queue PROVE i \in DOMAIN queue' /\ queue'[i] = queue[i]
    BY <2>1
  <2>3. done' = done /\ snap' = snap
    BY <1>15 DEF jobqueue_push, ghosts
  <2>4. InPool \subseteq InPool'
    <3>1. ASSUME NEW i \in DOMAIN queue PROVE queue[i] \in {queue'[k] : k \in DOMAIN queue'}
      BY <2>2
    <3>2. ASSUME NEW t \in Workers PROVE job[t] \in {job'[u] : u \in Workers}
      <4>1. job'[t] = job[t]
        BY <2>1
      <4> QED BY <4>1
    <3>3. SUFFICES ASSUME NEW x \in InPool PROVE x \in InPool'
      OBVIOUS
    <3>4. CASE \E i \in DOMAIN queue : x = queue[i]
      BY <3>1, <3>4
    <3>5. CASE \E t \in Workers : x = job[t]
      BY <3>2, <3>5
    <3> QED BY <2>3, <3>4, <3>5
  <2>5. \A d \in Clients : d # c => pc'[d] = pc[d]
    BY <1>15 DEF jobqueue_push, Goto
  <2>6. pc'[c] = "post"
    BY <1>15 DEF jobqueue_push, Goto
  <2> QED BY <2>1, <2>3, <2>4, <2>5, <2>6, SnapFrame
<1>16. ASSUME NEW c \in Clients, PushPost(c) PROVE SnapInv'
  BY <1>16 DEF PushPost, bsem_post, Goto, ghosts
<1>17. ASSUME NEW c \in Clients, thpool_wait(c) PROVE SnapInv'
  BY <1>17 DEF thpool_wait, Goto, locks
<1>18. ASSUME NEW c \in Clients, WaitLock(c) PROVE SnapInv'
  BY <1>18 DEF WaitLock, Goto, ghosts
<1>19. ASSUME NEW c \in Clients, WaitReadLen(c) PROVE SnapInv'
  BY <1>19 DEF WaitReadLen, WaitSleep, Goto, ghosts
<1>20. ASSUME NEW c \in Clients, WaitReadWorking(c) PROVE SnapInv'
  <2>1. CASE working # 0
    BY <1>20, <2>1 DEF WaitReadWorking, WaitSleep, Goto, ghosts
  <2>2. CASE working = 0
    <3>1. At(WorkingPC) = {}
      BY <2>2, CountAt, WorkersFinite, FS_EmptySet
    <3>2. \A t \in Workers : job[t] = None
      BY <3>1 DEF At, CarryInv, WorkingPC
    <3>3. snap[c] \subseteq done
      BY <1>20, <3>2 DEF WaitReadWorking
    <3> QED BY <1>20, <2>2, <3>3 DEF WaitReadWorking, Goto, ghosts
  <2> QED BY <2>1, <2>2
<1>21. ASSUME NEW c \in Clients, thpool_destroy(c) PROVE SnapInv'
  BY <1>21 DEF thpool_destroy, locks, ghosts
<1>22. ASSUME NEW c \in Clients, DestroyPost(c) PROVE SnapInv'
  BY <1>22 DEF DestroyPost, bsem_post_all, Goto, ghosts
<1>23. ASSUME NEW c \in Clients, DestroyFree(c) PROVE SnapInv'
  <2>1. \A d \in Clients : pc'[d] \in {"left", "freed"}
    BY <1>23 DEF DestroyFree, Goto, PhaseInv
  <2> QED BY <2>1
<1>24. CASE InitReturn
  BY <1>24 DEF InitReturn, locks, ghosts
<1>25. CASE Quiet
  BY <1>25, QuietFrame DEF Core
<1> QED BY <1>1, <1>2, <1>3, <1>4, <1>5, <1>6, <1>7, <1>8, <1>9, <1>10, <1>11, <1>12, <1>13,
   <1>14, <1>15, <1>16, <1>17, <1>18, <1>19, <1>20, <1>21, <1>22, <1>23, <1>24, <1>25,
   StepCases, Zenon

\* The pool goes through its phases in order: thpool_init returns when every thread
\* has counted itself, and thpool_destroy frees the pool when none is counted any more.
LEMMA PhaseStep == Inv /\ [Next]_vars => PhaseInv'
<1> SUFFICES ASSUME PhaseInv, CountInv, pc \in [Procs -> WorkerPC \cup ClientPC], \A t \in
   Workers : pc[t] \in WorkerPC, [Next]_vars
             PROVE  PhaseInv'
  BY DEF Inv, TypeOK
<1> USE ProcFacts DEF PhaseInv
<1>1. ASSUME NEW t \in Workers, bsem_wait(t) PROVE PhaseInv'
  BY <1>1 DEF bsem_wait, Goto, ghosts
<1>2. ASSUME NEW t \in Workers, AliveInc(t) PROVE PhaseInv'
  BY <1>2 DEF AliveInc, Goto, ghosts
<1>3. ASSUME NEW t \in Workers, LoopTest(t) PROVE PhaseInv'
  BY <1>3 DEF LoopTest, Goto, locks, ghosts
<1>4. ASSUME NEW t \in Workers, KeepaliveTest(t) PROVE PhaseInv'
  BY <1>4 DEF KeepaliveTest, Goto, locks, ghosts
<1>5. ASSUME NEW t \in Workers, WorkingInc(t) PROVE PhaseInv'
  BY <1>5 DEF WorkingInc, Goto, ghosts
<1>6. ASSUME NEW t \in Workers, jobqueue_pull(t) PROVE PhaseInv'
  BY <1>6 DEF jobqueue_pull, Goto, ghosts
<1>7. ASSUME NEW t \in Workers, PullPost(t) PROVE PhaseInv'
  BY <1>7 DEF PullPost, bsem_post, Goto, ghosts
<1>8. ASSUME NEW t \in Workers, RunJob(t) PROVE PhaseInv'
  BY <1>8 DEF RunJob, Goto, locks
<1>9. ASSUME NEW t \in Workers, WorkingDec(t) PROVE PhaseInv'
  BY <1>9 DEF WorkingDec, Goto, ghosts
<1>10. ASSUME NEW t \in Workers, AliveDec(t) PROVE PhaseInv'
  BY <1>10 DEF AliveDec, Goto, ghosts
<1>11. ASSUME NEW p \in Procs, UnlockCount(p) PROVE PhaseInv'
  BY <1>11 DEF UnlockCount, Goto, ghosts
<1>12. ASSUME NEW p \in Procs, UnlockSem(p) PROVE PhaseInv'
  BY <1>12 DEF UnlockSem, Goto, ghosts
<1>13. ASSUME NEW p \in Procs, UnlockQueue(p) PROVE PhaseInv'
  BY <1>13 DEF UnlockQueue, Goto, ghosts
<1>14. ASSUME NEW c \in Clients, thpool_add_work(c) PROVE PhaseInv'
  BY <1>14 DEF thpool_add_work, Goto, locks
<1>15. ASSUME NEW c \in Clients, jobqueue_push(c) PROVE PhaseInv'
  BY <1>15 DEF jobqueue_push, Goto, ghosts
<1>16. ASSUME NEW c \in Clients, PushPost(c) PROVE PhaseInv'
  BY <1>16 DEF PushPost, bsem_post, Goto, ghosts
<1>17. ASSUME NEW c \in Clients, thpool_wait(c) PROVE PhaseInv'
  BY <1>17 DEF thpool_wait, Goto, locks
<1>18. ASSUME NEW c \in Clients, WaitLock(c) PROVE PhaseInv'
  BY <1>18 DEF WaitLock, Goto, ghosts
<1>19. ASSUME NEW c \in Clients, WaitReadLen(c) PROVE PhaseInv'
  BY <1>19 DEF WaitReadLen, WaitSleep, Goto, ghosts
<1>20. ASSUME NEW c \in Clients, WaitReadWorking(c) PROVE PhaseInv'
  BY <1>20 DEF WaitReadWorking, WaitSleep, Goto, ghosts
<1>21. ASSUME NEW c \in Clients, thpool_destroy(c) PROVE PhaseInv'
  BY <1>21 DEF thpool_destroy, locks, ghosts
<1>22. ASSUME NEW c \in Clients, DestroyPost(c) PROVE PhaseInv'
  BY <1>22 DEF DestroyPost, bsem_post_all, Goto, ghosts
<1>23. ASSUME NEW c \in Clients, DestroyFree(c) PROVE PhaseInv'
  <2>1. At(AlivePC) = {}
    BY <1>23, CountAt, WorkersFinite, FS_EmptySet DEF DestroyFree
  <2>2. \A t \in Workers : pc[t] \in {"exit_u", "gone"}
    BY <1>23, <2>1 DEF DestroyFree, At, AlivePC, WorkerPC
  <2> QED BY <1>23, <2>2 DEF DestroyFree, Goto, locks
<1>24. CASE InitReturn
  <2>1. At(AlivePC) = Workers
    <3>1. IsFiniteSet(Workers) /\ Cardinality(Workers) = NumThreads
      BY WorkersFinite
    <3>2. Cardinality(At(AlivePC)) = NumThreads
      BY <1>24, CountAt DEF InitReturn
    <3> QED BY <3>1, <3>2, FS_Subset DEF At
  <2>2. \A t \in Workers : pc[t] \in AlivePC
    BY <2>1 DEF At
  <2> QED BY <1>24, <2>2 DEF InitReturn, AlivePC, signals, ghosts, locks
<1>25. CASE Quiet
  <2>1. v' = v /\ queue' = queue /\ pc' = pc
    BY <1>25, QuietFrame DEF Core
  <2>2. ~OtherPool => keepalive' = keepalive
    BY <1>25 DEF Quiet, HoldEnter, HoldLeave, thpool_pause, thpool_resume, SpuriousWakeup,
               OtherDestroy, OtherInit, vars
  <2> QED BY <2>1, <2>2
<1> QED BY <1>1, <1>2, <1>3, <1>4, <1>5, <1>6, <1>7, <1>8, <1>9, <1>10, <1>11, <1>12, <1>13,
   <1>14, <1>15, <1>16, <1>17, <1>18, <1>19, <1>20, <1>21, <1>22, <1>23, <1>24, <1>25,
   StepCases, Zenon

\* The elements of a sequence, and a sequence without repetitions.
Elems(q) == {q[i] : i \in DOMAIN q}
Distinct(q) == \A i, k \in DOMAIN q : q[i] = q[k] => i = k

\* Taking the head of a sequence without repetitions removes just that element.
LEMMA TailElems ==
  ASSUME NEW S, NEW q \in Seq(S), q # <<>>, Distinct(q)
  PROVE  Elems(Tail(q)) = Elems(q) \ {Head(q)} /\ Distinct(Tail(q)) /\ Head(q) \in Elems(q)
<1>1. /\ DOMAIN q = 1..Len(q) /\ Len(q) \in Nat /\ Len(q) > 0
      /\ DOMAIN Tail(q) = 1..(Len(q) - 1) /\ Head(q) = q[1]
      /\ \A i \in DOMAIN Tail(q) : Tail(q)[i] = q[i + 1] /\ i + 1 \in DOMAIN q /\ i + 1 # 1
  OBVIOUS
<1>2. ASSUME NEW i \in DOMAIN q, i # 1 PROVE q[i] \in Elems(Tail(q))
  <2>1. i - 1 \in DOMAIN Tail(q) /\ Tail(q)[i - 1] = q[i]
    BY <1>1, <1>2
  <2> QED BY <2>1 DEF Elems
<1>3. ASSUME NEW i \in DOMAIN Tail(q) PROVE Tail(q)[i] \in Elems(q) /\ Tail(q)[i] # Head(q)
  <2>1. 1 \in DOMAIN q
    BY <1>1
  <2> QED BY <1>1, <2>1 DEF Elems, Distinct
<1>4. Elems(Tail(q)) = Elems(q) \ {Head(q)}
  <2>1. Elems(Tail(q)) \subseteq Elems(q) \ {Head(q)}
    BY <1>3 DEF Elems
  <2>2. Elems(q) \ {Head(q)} \subseteq Elems(Tail(q))
    <3> SUFFICES ASSUME NEW i \in DOMAIN q, q[i] # Head(q) PROVE q[i] \in Elems(Tail(q))
      BY DEF Elems
    <3> QED BY <1>1, <1>2
  <2> QED BY <2>1, <2>2
<1>5. Distinct(Tail(q))
  BY <1>1 DEF Distinct
<1>6. Head(q) \in Elems(q)
  <2>1. 1 \in DOMAIN q
    BY <1>1
  <2> QED BY <1>1, <2>1 DEF Elems
<1> QED BY <1>4, <1>5, <1>6

\* Appending a new element keeps a sequence free of repetitions.
LEMMA AppendElems ==
  ASSUME NEW S, NEW q \in Seq(S), NEW x \in S, Distinct(q), x \notin Elems(q)
  PROVE  Elems(Append(q, x)) = Elems(q) \cup {x} /\ Distinct(Append(q, x))
<1>1. /\ DOMAIN q = 1..Len(q) /\ Len(q) \in Nat
      /\ DOMAIN Append(q, x) = 1..(Len(q) + 1) /\ Append(q, x)[Len(q) + 1] = x
      /\ \A i \in DOMAIN q : Append(q, x)[i] = q[i]
  OBVIOUS
<1>2. \A i \in DOMAIN Append(q, x) : i \in DOMAIN q \/ i = Len(q) + 1
  BY <1>1
<1>3. \A i \in DOMAIN q : i \in DOMAIN Append(q, x) /\ q[i] # x
  BY <1>1 DEF Elems
<1>4. Len(q) + 1 \in DOMAIN Append(q, x)
  BY <1>1
<1>5. Elems(Append(q, x)) = Elems(q) \cup {x}
  <2>1. ASSUME NEW i \in DOMAIN Append(q, x) PROVE Append(q, x)[i] \in Elems(q) \cup {x}
    BY <1>1, <1>2 DEF Elems
  <2>2. ASSUME NEW i \in DOMAIN q PROVE q[i] \in Elems(Append(q, x))
    <3>1. i \in DOMAIN Append(q, x) /\ Append(q, x)[i] = q[i]
      BY <1>1, <1>3
    <3> QED BY <3>1 DEF Elems
  <2>3. x \in Elems(Append(q, x))
    BY <1>1, <1>4 DEF Elems
  <2>4. Elems(Append(q, x)) \subseteq Elems(q) \cup {x}
    BY <2>1 DEF Elems
  <2>5. Elems(q) \subseteq Elems(Append(q, x))
    BY <2>2 DEF Elems
  <2> QED BY <2>3, <2>4, <2>5
<1>6. Distinct(Append(q, x))
  BY <1>1, <1>2, <1>3 DEF Distinct
<1> QED BY <1>5, <1>6

\* No two threads carry the same job.
Alone == \A p, q \in Procs : job[p] = job[q] /\ job[p] # None => p = q

\* One thread takes a job over, or gives up the one it has.
LEMMA CarryOne ==
  ASSUME NEW p \in Procs, NEW x, TypeOK, Alone, job' = [job EXCEPT ![p] = x],
         x # None => x \notin Carried
  PROVE  Carried' = (Carried \ {job[p]}) \cup ({x} \ {None}) /\ Alone'
<1>1. /\ job \in [Procs -> Jobs \cup {None}] /\ job'[p] = x
      /\ \A q \in Procs : q # p => job'[q] = job[q]
  BY DEF TypeOK
<1>2. ASSUME NEW q \in Procs, job[q] # None, job[q] # job[p] PROVE job[q] \in Carried'
  <2>1. job'[q] = job[q]
    BY <1>1, <1>2
  <2> QED BY <1>2, <2>1 DEF Carried
<1>3. x # None => x \in Carried'
  BY <1>1 DEF Carried
<1>4. ASSUME NEW q \in Procs, job'[q] # None
      PROVE  job'[q] \in (Carried \ {job[p]}) \cup ({x} \ {None})
  <2>1. CASE q = p
    BY <1>1, <1>4, <2>1
  <2>2. CASE q # p
    <3>1. job[q] \in Carried /\ job[q] # job[p] /\ job'[q] = job[q]
      BY <1>1, <1>4, <2>2 DEF Carried, Alone
    <3> QED BY <3>1
  <2> QED BY <2>1, <2>2
<1>5. Alone'
  BY <1>1 DEF Alone, Carried
<1>6. Carried' \subseteq (Carried \ {job[p]}) \cup ({x} \ {None})
  BY <1>4 DEF Carried
<1>7. Carried \ {job[p]} \subseteq Carried'
  BY <1>2 DEF Carried
<1> QED BY <1>3, <1>5, <1>6, <1>7

\* JobsConserved in terms of these, in a state and in the one after it.
Conserved ==
  /\ added = Elems(queue) \cup Carried \cup done \cup dropped
  /\ Elems(queue) \cap Carried = {} /\ Elems(queue) \cap done = {}
  /\ Elems(queue) \cap dropped = {}
  /\ Carried \cap done = {} /\ Carried \cap dropped = {} /\ done \cap dropped = {}
  /\ Distinct(queue) /\ Alone

LEMMA ConservedAlt == (JobsConserved <=> Conserved) /\ (JobsConserved' <=> Conserved')
BY DEF JobsConserved, Conserved, Queued, Elems, Distinct, Alone

\* A step that moves no job.
LEMMA ConservedFrame ==
  ASSUME JobsConserved, UNCHANGED <<queue, job, added, done, dropped>>
  PROVE  JobsConserved'
BY DEF JobsConserved, Queued, Carried


\* A job moves from one place to the next, and from there nowhere else.
LEMMA ConservedStep == Inv /\ [Next]_vars => JobsConserved'
<1> SUFFICES ASSUME Inv, [Next]_vars PROVE JobsConserved'
  OBVIOUS
<1> USE ProcFacts DEF Inv
<1>1. ASSUME NEW t \in Workers, bsem_wait(t) PROVE JobsConserved'
  BY <1>1, ConservedFrame DEF bsem_wait, ghosts
<1>2. ASSUME NEW t \in Workers, AliveInc(t) PROVE JobsConserved'
  BY <1>2, ConservedFrame DEF AliveInc, ghosts
<1>3. ASSUME NEW t \in Workers, LoopTest(t) PROVE JobsConserved'
  BY <1>3, ConservedFrame DEF LoopTest, ghosts
<1>4. ASSUME NEW t \in Workers, KeepaliveTest(t) PROVE JobsConserved'
  BY <1>4, ConservedFrame DEF KeepaliveTest, ghosts
<1>5. ASSUME NEW t \in Workers, WorkingInc(t) PROVE JobsConserved'
  BY <1>5, ConservedFrame DEF WorkingInc, ghosts
<1>6. ASSUME NEW t \in Workers, jobqueue_pull(t) PROVE JobsConserved'
  <2>1. job[t] = None
    BY <1>6 DEF jobqueue_pull, CarryInv
  <2>2. CASE queue = <<>>
    <3>1. job' = job /\ queue' = queue
      BY <1>6, <2>1, <2>2 DEF jobqueue_pull, TypeOK
    <3> QED BY <1>6, <3>1, ConservedFrame DEF jobqueue_pull, ghosts
  <2>3. CASE queue # <<>>
    <3>1. /\ queue' = Tail(queue) /\ job' = [job EXCEPT ![t] = Head(queue)]
          /\ UNCHANGED <<added, done, dropped>>
      BY <1>6, <2>3 DEF jobqueue_pull, ghosts
    <3>2. /\ Elems(queue)' = Elems(queue) \ {Head(queue)} /\ Distinct(queue)'
          /\ Head(queue) \in Elems(queue)
      BY <2>3, <3>1, TailElems, ConservedAlt DEF Conserved, TypeOK
    <3>3. Head(queue) # None /\ Head(queue) \notin Carried
      BY <2>3, <3>2, ConservedAlt DEF Conserved, TypeOK
    <3>4. Carried' = Carried \cup {Head(queue)} /\ Alone'
      <4>1. None \notin Carried
        BY DEF Carried
      <4>2. Alone
        BY ConservedAlt DEF Conserved
      <4>3. Carried' = (Carried \ {job[t]}) \cup ({Head(queue)} \ {None}) /\ Alone'
        BY <3>1, <3>3, <4>2, CarryOne
      <4> QED BY <2>1, <3>3, <4>1, <4>3
    <3> QED BY <3>1, <3>2, <3>3, <3>4, ConservedAlt DEF Conserved
  <2> QED BY <2>2, <2>3
<1>7. ASSUME NEW t \in Workers, PullPost(t) PROVE JobsConserved'
  BY <1>7, ConservedFrame DEF PullPost, bsem_post, ghosts
<1>8. ASSUME NEW t \in Workers, RunJob(t) PROVE JobsConserved'
  <2>1. /\ job[t] # None /\ job' = [job EXCEPT ![t] = None] /\ done' = done \cup {job[t]}
        /\ UNCHANGED <<queue, added, dropped>>
    BY <1>8 DEF RunJob, CarryInv
  <2>2. Carried' = Carried \ {job[t]} /\ Alone'
    <3>1. Alone
      BY ConservedAlt DEF Conserved
    <3>2. Carried' = (Carried \ {job[t]}) \cup ({None} \ {None}) /\ Alone'
      BY <2>1, <3>1, CarryOne
    <3> QED BY <3>2
  <2>3. job[t] \in Carried
    BY <2>1 DEF Carried
  <2> QED BY <2>1, <2>2, <2>3, ConservedAlt DEF Conserved
<1>9. ASSUME NEW t \in Workers, WorkingDec(t) PROVE JobsConserved'
  BY <1>9, ConservedFrame DEF WorkingDec, ghosts
<1>10. ASSUME NEW t \in Workers, AliveDec(t) PROVE JobsConserved'
  BY <1>10, ConservedFrame DEF AliveDec, ghosts
<1>11. ASSUME NEW p \in Procs, UnlockCount(p) PROVE JobsConserved'
  BY <1>11, ConservedFrame DEF UnlockCount, ghosts
<1>12. ASSUME NEW p \in Procs, UnlockSem(p) PROVE JobsConserved'
  BY <1>12, ConservedFrame DEF UnlockSem, ghosts
<1>13. ASSUME NEW p \in Procs, UnlockQueue(p) PROVE JobsConserved'
  BY <1>13, ConservedFrame DEF UnlockQueue, ghosts
<1>14. ASSUME NEW c \in Clients, thpool_add_work(c) PROVE JobsConserved'
  <2>1. PICK j \in Jobs \ added : added' = added \cup {j} /\ job' = [job EXCEPT ![c] = j]
    BY <1>14 DEF thpool_add_work
  <2>2. UNCHANGED <<queue, done, dropped>> /\ job[c] = None
    BY <1>14 DEF thpool_add_work, CarryInv
  <2>3. j # None /\ j \notin Carried /\ None \notin Carried
    BY ConservedAlt DEF Conserved, Carried
  <2>4. Carried' = Carried \cup {j} /\ Alone'
    <3>1. Alone
      BY ConservedAlt DEF Conserved
    <3>2. Carried' = (Carried \ {job[c]}) \cup ({j} \ {None}) /\ Alone'
      BY <2>1, <2>3, <3>1, CarryOne
    <3> QED BY <2>2, <2>3, <3>2
  <2> QED BY <2>1, <2>2, <2>4, ConservedAlt DEF Conserved
<1>15. ASSUME NEW c \in Clients, jobqueue_push(c) PROVE JobsConserved'
  <2>1. /\ queue' = Append(queue, job[c]) /\ job' = [job EXCEPT ![c] = None]
        /\ job[c] # None /\ UNCHANGED <<added, done, dropped>>
    BY <1>15 DEF jobqueue_push, CarryInv, ghosts
  <2>2. job[c] \in Carried /\ job[c] \in Jobs
    BY <2>1 DEF Carried, TypeOK
  <2>3. Elems(queue)' = Elems(queue) \cup {job[c]} /\ Distinct(queue)'
    BY <2>1, <2>2, AppendElems, ConservedAlt DEF Conserved, TypeOK
  <2>4. Carried' = Carried \ {job[c]} /\ Alone'
    <3>1. Alone
      BY ConservedAlt DEF Conserved
    <3>2. Carried' = (Carried \ {job[c]}) \cup ({None} \ {None}) /\ Alone'
      BY <2>1, <3>1, CarryOne
    <3> QED BY <3>2
  <2> QED BY <2>1, <2>2, <2>3, <2>4, ConservedAlt DEF Conserved
<1>16. ASSUME NEW c \in Clients, PushPost(c) PROVE JobsConserved'
  BY <1>16, ConservedFrame DEF PushPost, bsem_post, ghosts
<1>17. ASSUME NEW c \in Clients, thpool_wait(c) PROVE JobsConserved'
  BY <1>17, ConservedFrame DEF thpool_wait
<1>18. ASSUME NEW c \in Clients, WaitLock(c) PROVE JobsConserved'
  BY <1>18, ConservedFrame DEF WaitLock, ghosts
<1>19. ASSUME NEW c \in Clients, WaitReadLen(c) PROVE JobsConserved'
  BY <1>19, ConservedFrame DEF WaitReadLen, WaitSleep, ghosts
<1>20. ASSUME NEW c \in Clients, WaitReadWorking(c) PROVE JobsConserved'
  BY <1>20, ConservedFrame DEF WaitReadWorking, WaitSleep, ghosts
<1>21. ASSUME NEW c \in Clients, thpool_destroy(c) PROVE JobsConserved'
  BY <1>21, ConservedFrame DEF thpool_destroy, ghosts
<1>22. ASSUME NEW c \in Clients, DestroyPost(c) PROVE JobsConserved'
  BY <1>22, ConservedFrame DEF DestroyPost, bsem_post_all, ghosts
<1>23. ASSUME NEW c \in Clients, DestroyFree(c) PROVE JobsConserved'
  <2>1. queue' = <<>> /\ dropped' = dropped \cup Elems(queue) /\ UNCHANGED <<job, added, done>>
    BY <1>23 DEF DestroyFree, Elems
  <2>2. Elems(queue)' = {} /\ Distinct(queue)'
    BY <2>1 DEF Elems, Distinct
  <2>3. Carried' = Carried /\ Alone'
    BY <2>1, ConservedAlt DEF Conserved, Carried, Alone
  <2> QED BY <2>1, <2>2, <2>3, ConservedAlt DEF Conserved
<1>24. CASE InitReturn
  BY <1>24, ConservedFrame DEF InitReturn, ghosts
<1>25. CASE Quiet
  BY <1>25, QuietFrame, ConservedFrame DEF Core
<1> QED BY <1>1, <1>2, <1>3, <1>4, <1>5, <1>6, <1>7, <1>8, <1>9, <1>10, <1>11, <1>12, <1>13,
   <1>14, <1>15, <1>16, <1>17, <1>18, <1>19, <1>20, <1>21, <1>22, <1>23, <1>24, <1>25,
   StepCases, Zenon

\* No step leaves a queued job without a token.
LEMMA TokenStep == Inv /\ [Next]_vars => (keepalive /\ ~OtherPool => TokenForJob)'
<1> SUFFICES ASSUME NoLostWakeup, PhaseInv, pc \in [Procs -> WorkerPC \cup ClientPC],
   queue \in Seq(Jobs), [Next]_vars
             PROVE  (keepalive /\ ~OtherPool => TokenForJob)'
  BY DEF Inv, TypeOK
<1> USE ProcFacts DEF NoLostWakeup, TokenForJob
<1>1. ASSUME NEW t \in Workers, bsem_wait(t) PROVE (keepalive /\ ~OtherPool => TokenForJob)'
  BY <1>1 DEF bsem_wait, Goto, ghosts
<1>2. ASSUME NEW t \in Workers, AliveInc(t) PROVE (keepalive /\ ~OtherPool => TokenForJob)'
  BY <1>2 DEF AliveInc, Goto, ghosts
<1>3. ASSUME NEW t \in Workers, LoopTest(t) PROVE (keepalive /\ ~OtherPool => TokenForJob)'
  BY <1>3 DEF LoopTest, Goto, locks, ghosts
<1>4. ASSUME NEW t \in Workers, KeepaliveTest(t) PROVE (keepalive /\ ~OtherPool => TokenForJob)'
  BY <1>4 DEF KeepaliveTest, Goto, locks, ghosts
<1>5. ASSUME NEW t \in Workers, WorkingInc(t) PROVE (keepalive /\ ~OtherPool => TokenForJob)'
  BY <1>5 DEF WorkingInc, Goto, ghosts
<1>6. ASSUME NEW t \in Workers, jobqueue_pull(t) PROVE (keepalive /\ ~OtherPool => TokenForJob)'
  <2>1. Len(queue) > 1 => pc'[t] = "pull_post"
    BY <1>6 DEF jobqueue_pull, Goto
  <2>2. Len(queue) <= 1 => queue' = <<>>
    BY <1>6 DEF jobqueue_pull
  <2>3. Len(queue) \in Nat
    OBVIOUS
  <2> QED BY <2>1, <2>2, <2>3
<1>7. ASSUME NEW t \in Workers, PullPost(t) PROVE (keepalive /\ ~OtherPool => TokenForJob)'
  BY <1>7 DEF PullPost, bsem_post, Goto, ghosts
<1>8. ASSUME NEW t \in Workers, RunJob(t) PROVE (keepalive /\ ~OtherPool => TokenForJob)'
  BY <1>8 DEF RunJob, Goto, locks
<1>9. ASSUME NEW t \in Workers, WorkingDec(t) PROVE (keepalive /\ ~OtherPool => TokenForJob)'
  BY <1>9 DEF WorkingDec, Goto, ghosts
<1>10. ASSUME NEW t \in Workers, AliveDec(t) PROVE (keepalive /\ ~OtherPool => TokenForJob)'
  BY <1>10 DEF AliveDec, Goto, ghosts
<1>11. ASSUME NEW p \in Procs, UnlockCount(p) PROVE (keepalive /\ ~OtherPool => TokenForJob)'
  BY <1>11 DEF UnlockCount, Goto, ghosts
<1>12. ASSUME NEW p \in Procs, UnlockSem(p) PROVE (keepalive /\ ~OtherPool => TokenForJob)'
  BY <1>12 DEF UnlockSem, Goto, ghosts
<1>13. ASSUME NEW p \in Procs, UnlockQueue(p) PROVE (keepalive /\ ~OtherPool => TokenForJob)'
  BY <1>13 DEF UnlockQueue, Goto, ghosts
<1>14. ASSUME NEW c \in Clients, thpool_add_work(c) PROVE (keepalive /\ ~OtherPool => TokenForJob)'
  BY <1>14 DEF thpool_add_work, Goto, locks
<1>15. ASSUME NEW c \in Clients, jobqueue_push(c) PROVE (keepalive /\ ~OtherPool => TokenForJob)'
  BY <1>15 DEF jobqueue_push, Goto, ghosts
<1>16. ASSUME NEW c \in Clients, PushPost(c) PROVE (keepalive /\ ~OtherPool => TokenForJob)'
  BY <1>16 DEF PushPost, bsem_post, Goto, ghosts
<1>17. ASSUME NEW c \in Clients, thpool_wait(c) PROVE (keepalive /\ ~OtherPool => TokenForJob)'
  BY <1>17 DEF thpool_wait, Goto, locks
<1>18. ASSUME NEW c \in Clients, WaitLock(c) PROVE (keepalive /\ ~OtherPool => TokenForJob)'
  BY <1>18 DEF WaitLock, Goto, ghosts
<1>19. ASSUME NEW c \in Clients, WaitReadLen(c) PROVE (keepalive /\ ~OtherPool => TokenForJob)'
  BY <1>19 DEF WaitReadLen, WaitSleep, Goto, ghosts
<1>20. ASSUME NEW c \in Clients, WaitReadWorking(c) PROVE (keepalive /\ ~OtherPool => TokenForJob)'
  BY <1>20 DEF WaitReadWorking, WaitSleep, Goto, ghosts
<1>21. ASSUME NEW c \in Clients, thpool_destroy(c) PROVE (keepalive /\ ~OtherPool => TokenForJob)'
  BY <1>21 DEF thpool_destroy, locks, ghosts
<1>22. ASSUME NEW c \in Clients, DestroyPost(c) PROVE (keepalive /\ ~OtherPool => TokenForJob)'
  BY <1>22 DEF DestroyPost, bsem_post_all, Goto, ghosts
<1>23. ASSUME NEW c \in Clients, DestroyFree(c) PROVE (keepalive /\ ~OtherPool => TokenForJob)'
  BY <1>23 DEF DestroyFree, Goto, locks
<1>24. CASE InitReturn
  <2>1. queue' = <<>>
    BY <1>24 DEF InitReturn, PhaseInv
  <2> QED BY <2>1
<1>25. CASE Quiet
  <2>1. UNCHANGED <<queue, v, pc>>
    BY <1>25, QuietFrame DEF Core
  <2>2. ~OtherPool => keepalive' = keepalive
    BY <1>25 DEF Quiet, HoldEnter, HoldLeave, thpool_pause, thpool_resume, SpuriousWakeup,
               OtherDestroy, OtherInit, vars
  <2> QED BY <2>1, <2>2
<1> QED BY <1>1, <1>2, <1>3, <1>4, <1>5, <1>6, <1>7, <1>8, <1>9, <1>10, <1>11, <1>12, <1>13,
   <1>14, <1>15, <1>16, <1>17, <1>18, <1>19, <1>20, <1>21, <1>22, <1>23, <1>24, <1>25,
   StepCases, Zenon

\* A pool with a positive number of threads has a worker.
LEMMA WorkerExists == NumThreads > 0 => \E t : t \in Workers
BY PoolAssumption DEF Workers


\* No step leaves a token without a worker that is awake.
LEMMA ServeStep == Inv /\ [Next]_vars => (keepalive /\ ~OtherPool => WorkerForToken)'
<1> SUFFICES ASSUME NoLostWakeup, PhaseInv, pc \in [Procs -> WorkerPC \cup ClientPC],
   bwait \subseteq Workers, \A t \in Workers : pc[t] \in WorkerPC, [Next]_vars
             PROVE  (keepalive /\ ~OtherPool => WorkerForToken)'
  BY DEF Inv, TypeOK
<1> USE ProcFacts DEF NoLostWakeup, WorkerForToken
<1>1. ASSUME NEW t \in Workers, bsem_wait(t) PROVE (keepalive /\ ~OtherPool => WorkerForToken)'
  BY <1>1 DEF bsem_wait, Goto, ghosts, AlivePC, WorkerPC
<1>2. ASSUME NEW t \in Workers, AliveInc(t) PROVE (keepalive /\ ~OtherPool => WorkerForToken)'
  BY <1>2 DEF AliveInc, Goto, ghosts, AlivePC, WorkerPC
<1>3. ASSUME NEW t \in Workers, LoopTest(t) PROVE (keepalive /\ ~OtherPool => WorkerForToken)'
  BY <1>3 DEF LoopTest, Goto, locks, ghosts, AlivePC, WorkerPC
<1>4. ASSUME NEW t \in Workers, KeepaliveTest(t) PROVE (keepalive /\ ~OtherPool => WorkerForToken)'
  BY <1>4 DEF KeepaliveTest, Goto, locks, ghosts, AlivePC, WorkerPC
<1>5. ASSUME NEW t \in Workers, WorkingInc(t) PROVE (keepalive /\ ~OtherPool => WorkerForToken)'
  BY <1>5 DEF WorkingInc, Goto, ghosts, AlivePC, WorkerPC
<1>6. ASSUME NEW t \in Workers, jobqueue_pull(t) PROVE (keepalive /\ ~OtherPool => WorkerForToken)'
  BY <1>6 DEF jobqueue_pull, Goto, ghosts, AlivePC, WorkerPC
<1>7. ASSUME NEW t \in Workers, PullPost(t) PROVE (keepalive /\ ~OtherPool => WorkerForToken)'
  <2>1. ASSUME keepalive', ~OtherPool, NumThreads > 0 PROVE WorkerForToken'
    <3>1. \A u \in Workers : pc'[u] \in AlivePC \ {"exit"}
      BY <1>7, <2>1 DEF PullPost, Goto, PhaseInv, AlivePC, WorkerPC
    <3>2. \E u \in Workers : u \notin bwait'
      BY <1>7, <2>1, WorkerExists DEF PullPost, bsem_post
    <3> QED BY <3>1, <3>2
  <2> QED BY <2>1
<1>8. ASSUME NEW t \in Workers, RunJob(t) PROVE (keepalive /\ ~OtherPool => WorkerForToken)'
  BY <1>8 DEF RunJob, Goto, locks, AlivePC, WorkerPC
<1>9. ASSUME NEW t \in Workers, WorkingDec(t) PROVE (keepalive /\ ~OtherPool => WorkerForToken)'
  BY <1>9 DEF WorkingDec, Goto, ghosts, AlivePC, WorkerPC
<1>10. ASSUME NEW t \in Workers, AliveDec(t) PROVE (keepalive /\ ~OtherPool => WorkerForToken)'
  BY <1>10 DEF AliveDec, Goto, ghosts, AlivePC, WorkerPC
<1>11. ASSUME NEW p \in Procs, UnlockCount(p) PROVE (keepalive /\ ~OtherPool => WorkerForToken)'
  BY <1>11 DEF UnlockCount, Goto, ghosts, AlivePC, WorkerPC
<1>12. ASSUME NEW p \in Procs, UnlockSem(p) PROVE (keepalive /\ ~OtherPool => WorkerForToken)'
  BY <1>12 DEF UnlockSem, Goto, ghosts, AlivePC, WorkerPC
<1>13. ASSUME NEW p \in Procs, UnlockQueue(p) PROVE (keepalive /\ ~OtherPool => WorkerForToken)'
  BY <1>13 DEF UnlockQueue, Goto, ghosts, AlivePC, WorkerPC
<1>14. ASSUME NEW c \in Clients, thpool_add_work(c) PROVE (keepalive /\ ~OtherPool => WorkerForToken)'
  BY <1>14 DEF thpool_add_work, Goto, locks, AlivePC, WorkerPC
<1>15. ASSUME NEW c \in Clients, jobqueue_push(c) PROVE (keepalive /\ ~OtherPool => WorkerForToken)'
  BY <1>15 DEF jobqueue_push, Goto, ghosts, AlivePC, WorkerPC
<1>16. ASSUME NEW c \in Clients, PushPost(c) PROVE (keepalive /\ ~OtherPool => WorkerForToken)'
  <2>1. ASSUME keepalive', ~OtherPool, NumThreads > 0 PROVE WorkerForToken'
    <3>1. \A u \in Workers : pc'[u] \in AlivePC \ {"exit"}
      BY <1>16, <2>1 DEF PushPost, Goto, PhaseInv, AlivePC, WorkerPC
    <3>2. \E u \in Workers : u \notin bwait'
      BY <1>16, <2>1, WorkerExists DEF PushPost, bsem_post
    <3> QED BY <3>1, <3>2
  <2> QED BY <2>1
<1>17. ASSUME NEW c \in Clients, thpool_wait(c) PROVE (keepalive /\ ~OtherPool => WorkerForToken)'
  BY <1>17 DEF thpool_wait, Goto, locks, AlivePC, WorkerPC
<1>18. ASSUME NEW c \in Clients, WaitLock(c) PROVE (keepalive /\ ~OtherPool => WorkerForToken)'
  BY <1>18 DEF WaitLock, Goto, ghosts, AlivePC, WorkerPC
<1>19. ASSUME NEW c \in Clients, WaitReadLen(c) PROVE (keepalive /\ ~OtherPool => WorkerForToken)'
  BY <1>19 DEF WaitReadLen, WaitSleep, Goto, ghosts, AlivePC, WorkerPC
<1>20. ASSUME NEW c \in Clients, WaitReadWorking(c) PROVE (keepalive /\ ~OtherPool => WorkerForToken)'
  BY <1>20 DEF WaitReadWorking, WaitSleep, Goto, ghosts, AlivePC, WorkerPC
<1>21. ASSUME NEW c \in Clients, thpool_destroy(c) PROVE (keepalive /\ ~OtherPool => WorkerForToken)'
  BY <1>21 DEF thpool_destroy, locks, ghosts, AlivePC, WorkerPC
<1>22. ASSUME NEW c \in Clients, DestroyPost(c) PROVE (keepalive /\ ~OtherPool => WorkerForToken)'
  <2>1. ~OtherPool => ~keepalive'
    BY <1>22 DEF DestroyPost, PhaseInv
  <2> QED BY <2>1
<1>23. ASSUME NEW c \in Clients, DestroyFree(c) PROVE (keepalive /\ ~OtherPool => WorkerForToken)'
  <2>1. v' # 1
    BY <1>23 DEF DestroyFree
  <2> QED BY <2>1
<1>24. CASE InitReturn
  <2>1. v' # 1
    BY <1>24 DEF InitReturn, PhaseInv
  <2> QED BY <2>1
<1>25. CASE Quiet
  <2>1. UNCHANGED <<v, pc>>
    BY <1>25, QuietFrame DEF Core
  <2>2. /\ ~OtherPool => keepalive' = keepalive
        /\ bwait' \subseteq bwait
    BY <1>25 DEF Quiet, HoldEnter, HoldLeave, thpool_pause, thpool_resume, SpuriousWakeup,
               OtherDestroy, OtherInit, vars
  <2> QED BY <2>1, <2>2
<1> QED BY <1>1, <1>2, <1>3, <1>4, <1>5, <1>6, <1>7, <1>8, <1>9, <1>10, <1>11, <1>12, <1>13,
   <1>14, <1>15, <1>16, <1>17, <1>18, <1>19, <1>20, <1>21, <1>22, <1>23, <1>24, <1>25,
   StepCases, Zenon

\* The state thpool_init builds satisfies the invariant.
LEMMA InitInv == Init => Inv
<1> SUFFICES ASSUME Init PROVE Inv
  OBVIOUS
<1> USE ProcFacts
<1>0. /\ \A t \in Workers : pc[t] \in {"none", "start"}
      /\ \A c \in Clients : pc[c] = "init"
      /\ \A p \in Procs : job[p] = None
      /\ pc \in [Procs -> WorkerPC \cup ClientPC]
  BY DEF Init, WorkerPC, ClientPC
<1>1. TypeOK
  <2>1. sig \in [Workers -> BOOLEAN] /\ held \in [Workers -> BOOLEAN]
    BY DEF Init
  <2>2. job \in [Procs -> Jobs \cup {None}] /\ snap \in [Clients -> SUBSET Jobs]
    BY DEF Init
  <2>3. queue \in Seq(Jobs) /\ pauses \in 0..MaxPause /\ v \in {0, 1} /\ alive \in Int /\ working \in Int
    BY DEF Init
  <2>4. keepalive \in BOOLEAN /\ onHold \in BOOLEAN /\ paused \in BOOLEAN
    BY Zenon DEF Init
  <2>5. /\ tc \in Procs \cup {None} /\ rw \in Procs \cup {None} /\ bm \in Procs \cup {None}
        /\ bwait \subseteq Workers /\ iwait \subseteq Clients
        /\ added \subseteq Jobs /\ done \subseteq Jobs /\ dropped \subseteq Jobs
    BY DEF Init
  <2>6. /\ \A t \in Workers : pc[t] \in WorkerPC
        /\ \A c \in Clients : pc[c] \in ClientPC
    BY <1>0 DEF WorkerPC, ClientPC
  <2> QED BY <1>0, <2>1, <2>2, <2>3, <2>4, <2>5, <2>6 DEF TypeOK
<1>2. LockInv
  BY <1>0 DEF Init, LockInv, CountPC, QueuePC, SemPC
<1>3. CarryInv
  BY <1>0 DEF Init, CarryInv
<1>4. CountInv
  <2>1. At(AlivePC) = {} /\ At(WorkingPC) = {}
    BY <1>0 DEF At, AlivePC, WorkingPC
  <2>2. Cardinality({}) = 0
    BY FS_EmptySet
  <2> QED BY <2>1, <2>2, CountAt DEF Init
<1>5. SnapInv
  BY <1>0 DEF SnapInv
<1>6. PhaseInv
  BY <1>0 DEF Init, PhaseInv
<1>7. JobsConserved
  <2>1. Queued = {} /\ Carried = {} /\ DOMAIN queue = {}
    BY <1>0 DEF Init, Queued, Carried
  <2> QED BY <1>0, <2>1 DEF Init, JobsConserved
<1>8. NoLostWakeup
  BY DEF Init, NoLostWakeup, TokenForJob, WorkerForToken
<1> QED BY <1>1, <1>2, <1>3, <1>4, <1>5, <1>6, <1>7, <1>8 DEF Inv

\* No step of a worker, a client, the signal handler or another pool breaks Inv.
LEMMA NextInv == Inv /\ [Next]_vars => Inv'
<1> SUFFICES ASSUME Inv, [Next]_vars PROVE Inv'
  OBVIOUS
<1>1. TypeOK' /\ LockInv' /\ CarryInv' /\ CountInv'
  BY TypeStep, LockStep, CarryStep, CountStep
<1>2. SnapInv' /\ PhaseInv' /\ JobsConserved'
  BY SnapStep, PhaseStep, ConservedStep
<1>3. NoLostWakeup'
  BY TokenStep, ServeStep DEF NoLostWakeup
<1> QED BY <1>1, <1>2, <1>3 DEF Inv

\* The invariant holds in every reachable state, with any number of threads,
\* jobs, clients and waiters, any number of failed pthread_create calls and
\* pauses, and with or without a second pool.
THEOREM PoolInvariant == Spec => []Inv
<1>1. Inv /\ UNCHANGED vars => Inv'
  BY NextInv
<1> QED BY InitInv, NextInv, PTL DEF Spec

\* thpool_wait never returns before the jobs it was called for have finished.
THEOREM WaitIsSound == Spec => []WaitSound
<1>1. Inv => WaitSound
  BY DEF Inv, SnapInv, WaitSound
<1> QED BY <1>1, PoolInvariant, PTL

\* No job is lost, run twice, or both run and dropped.
THEOREM JobsAreConserved == Spec => []JobsConserved
<1>1. Inv => JobsConserved
  BY DEF Inv
<1> QED BY <1>1, PoolInvariant, PTL

\* A queued job always has a token on its way and a worker awake to take it:
\* the binary semaphore loses no wake-up.
THEOREM NoWakeupIsLost == Spec => []NoLostWakeup
<1>1. Inv => NoLostWakeup
  BY DEF Inv
<1> QED BY <1>1, PoolInvariant, PTL

\* thpool_destroy frees the pool only after the last worker has left its loop.
THEOREM FreedAfterLastExit == Spec => []FreeAfterLastExit
<1>1. Inv => FreeAfterLastExit
  <2> SUFFICES ASSUME Inv, NEW c \in Clients, pc[c] = "freed"
               PROVE  working = 0 /\ \A t \in Workers : pc[t] \in {"exit_u", "gone"} /\ job[t] = None
    BY DEF FreeAfterLastExit
  <2>1. \A t \in Workers : pc[t] \in {"exit_u", "gone"}
    BY DEF Inv, PhaseInv
  <2>2. At(WorkingPC) = {}
    BY <2>1 DEF At, WorkingPC
  <2>3. working = 0
    BY <2>2, CountAt, FS_EmptySet DEF Inv
  <2> QED BY <2>1, <2>3 DEF Inv, CarryInv
<1> QED BY <1>1, PoolInvariant, PTL
=============================================================================
