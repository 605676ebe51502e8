--------------------------- MODULE ThreadPoolLocks ----------------------------
(***************************************************************************)
(* The first half of the proof that Inv is inductive, for every number of  *)
(* threads, jobs and clients: types, who owns which mutex, who carries     *)
(* which job, and what the two counters count.  Each conjunct has a lemma  *)
(* that says no step breaks it, with one step per action.                  *)
(***************************************************************************)
EXTENDS ThreadPool, FiniteSetTheorems, TLAPS

\* Workers and clients are different processes, and None is neither.
LEMMA ProcFacts ==
  /\ Procs = Workers \cup Clients
  /\ \A p \in Workers : p \notin Clients
  /\ None \notin Procs /\ None \notin Jobs
  /\ MaxPause \in Nat
BY PoolAssumption DEF Procs

\* The steps that touch neither the queue, the counters nor the mutexes: the
\* signal handler, thpool_pause and thpool_resume, another pool, a spurious
\* wake-up, and stuttering.
Quiet ==
  \/ \E t \in Workers : HoldEnter(t) \/ HoldLeave(t)
  \/ \E c \in Clients : thpool_pause(c) \/ thpool_resume(c)
  \/ \E p \in Procs : SpuriousWakeup(p)
  \/ OtherDestroy \/ OtherInit
  \/ UNCHANGED vars

Core == <<alive, working, queue, v, tc, rw, bm, pc, job, added, done, dropped, snap>>

\* What a quiet step leaves alone.
LEMMA QuietFrame == Quiet => UNCHANGED Core
BY DEF Quiet, Core, HoldEnter, HoldLeave, thpool_pause, thpool_resume, SpuriousWakeup,
       OtherDestroy, OtherInit, vars, locks, ghosts

\* Every step is one of the actions, or a quiet one.
LEMMA StepCases ==
  ASSUME [Next]_vars
  PROVE  \/ \E t \in Workers : \/ bsem_wait(t) \/ AliveInc(t) \/ LoopTest(t) \/ KeepaliveTest(t)
                               \/ WorkingInc(t) \/ jobqueue_pull(t) \/ PullPost(t) \/ RunJob(t)
                               \/ WorkingDec(t) \/ AliveDec(t)
         \/ \E p \in Procs : UnlockCount(p) \/ UnlockSem(p) \/ UnlockQueue(p)
         \/ \E c \in Clients : \/ thpool_add_work(c) \/ jobqueue_push(c) \/ PushPost(c)
                               \/ thpool_wait(c) \/ WaitLock(c) \/ WaitReadLen(c)
                               \/ WaitReadWorking(c) \/ thpool_destroy(c) \/ DestroyPost(c)
                               \/ DestroyFree(c)
         \/ InitReturn \/ Quiet
BY ProcFacts DEF Next, WorkerLock, WorkerRun, ClientLock, ClientRun, ClientCall, AfterFree, Quiet


\* Types are preserved.
LEMMA TypeStep == Inv /\ [Next]_vars => TypeOK'
<1> SUFFICES ASSUME Inv, [Next]_vars PROVE TypeOK'
  OBVIOUS
<1> USE ProcFacts DEF Inv, TypeOK
<1>1. ASSUME NEW t \in Workers, bsem_wait(t) PROVE TypeOK'
  BY <1>1 DEF bsem_wait, Goto, ghosts, signals, WorkerPC, ClientPC
<1>2. ASSUME NEW t \in Workers, AliveInc(t) PROVE TypeOK'
  BY <1>2 DEF AliveInc, Goto, ghosts, signals, WorkerPC, ClientPC
<1>3. ASSUME NEW t \in Workers, LoopTest(t) PROVE TypeOK'
  BY <1>3 DEF LoopTest, Goto, locks, ghosts, signals, WorkerPC, ClientPC
<1>4. ASSUME NEW t \in Workers, KeepaliveTest(t) PROVE TypeOK'
  BY <1>4 DEF KeepaliveTest, Goto, locks, ghosts, signals, WorkerPC, ClientPC
<1>5. ASSUME NEW t \in Workers, WorkingInc(t) PROVE TypeOK'
  BY <1>5 DEF WorkingInc, Goto, ghosts, signals, WorkerPC, ClientPC
<1>6. ASSUME NEW t \in Workers, jobqueue_pull(t) PROVE TypeOK'
  BY <1>6 DEF jobqueue_pull, Goto, ghosts, signals, WorkerPC, ClientPC
<1>7. ASSUME NEW t \in Workers, PullPost(t) PROVE TypeOK'
  BY <1>7 DEF PullPost, bsem_post, Goto, ghosts, signals, WorkerPC, ClientPC
<1>8. ASSUME NEW t \in Workers, RunJob(t) PROVE TypeOK'
  BY <1>8 DEF RunJob, Goto, locks, signals, WorkerPC, ClientPC, CarryInv
<1>9. ASSUME NEW t \in Workers, WorkingDec(t) PROVE TypeOK'
  BY <1>9 DEF WorkingDec, Goto, ghosts, signals, WorkerPC, ClientPC
<1>10. ASSUME NEW t \in Workers, AliveDec(t) PROVE TypeOK'
  BY <1>10 DEF AliveDec, Goto, ghosts, signals, WorkerPC, ClientPC
<1>11. ASSUME NEW p \in Procs, UnlockCount(p) PROVE TypeOK'
  BY <1>11 DEF UnlockCount, Goto, ghosts, signals, WorkerPC, ClientPC
<1>12. ASSUME NEW p \in Procs, UnlockSem(p) PROVE TypeOK'
  BY <1>12 DEF UnlockSem, Goto, ghosts, signals, WorkerPC, ClientPC
<1>13. ASSUME NEW p \in Procs, UnlockQueue(p) PROVE TypeOK'
  BY <1>13 DEF UnlockQueue, Goto, ghosts, signals, WorkerPC, ClientPC
<1>14. ASSUME NEW c \in Clients, thpool_add_work(c) PROVE TypeOK'
  BY <1>14 DEF thpool_add_work, Goto, locks, signals, WorkerPC, ClientPC
<1>15. ASSUME NEW c \in Clients, jobqueue_push(c) PROVE TypeOK'
  BY <1>15 DEF jobqueue_push, Goto, ghosts, signals, WorkerPC, ClientPC, CarryInv
<1>16. ASSUME NEW c \in Clients, PushPost(c) PROVE TypeOK'
  BY <1>16 DEF PushPost, bsem_post, Goto, ghosts, signals, WorkerPC, ClientPC
<1>17. ASSUME NEW c \in Clients, thpool_wait(c) PROVE TypeOK'
  <2>1. InPool \subseteq Jobs
    BY DEF InPool
  <2> QED BY <1>17, <2>1 DEF thpool_wait, Goto, locks, signals, ClientPC
<1>18. ASSUME NEW c \in Clients, WaitLock(c) PROVE TypeOK'
  BY <1>18 DEF WaitLock, Goto, ghosts, signals, WorkerPC, ClientPC
<1>19. ASSUME NEW c \in Clients, WaitReadLen(c) PROVE TypeOK'
  BY <1>19 DEF WaitReadLen, WaitSleep, Goto, ghosts, signals, WorkerPC, ClientPC
<1>20. ASSUME NEW c \in Clients, WaitReadWorking(c) PROVE TypeOK'
  BY <1>20 DEF WaitReadWorking, WaitSleep, Goto, ghosts, signals, WorkerPC, ClientPC
<1>21. ASSUME NEW c \in Clients, thpool_destroy(c) PROVE TypeOK'
  BY <1>21 DEF thpool_destroy, locks, ghosts, signals, WorkerPC, ClientPC
<1>22. ASSUME NEW c \in Clients, DestroyPost(c) PROVE TypeOK'
  BY <1>22 DEF DestroyPost, bsem_post_all, Goto, ghosts, signals, WorkerPC, ClientPC
<1>23. ASSUME NEW c \in Clients, DestroyFree(c) PROVE TypeOK'
  BY <1>23 DEF DestroyFree, Goto, locks, signals, WorkerPC, ClientPC
<1>24. CASE InitReturn
  BY <1>24 DEF InitReturn, locks, ghosts, signals, WorkerPC, ClientPC
<1>25. CASE Quiet
  <2>1. ASSUME NEW t \in Workers, HoldEnter(t) \/ HoldLeave(t) PROVE TypeOK'
    BY <2>1 DEF HoldEnter, HoldLeave, locks, ghosts
  <2>2. ASSUME NEW c \in Clients, thpool_pause(c) \/ thpool_resume(c) PROVE TypeOK'
    <3>1. CASE thpool_pause(c)
      <4>1. sig' \in [Workers -> BOOLEAN]
        BY <3>1 DEF thpool_pause
      <4>2. pauses' \in 0..MaxPause
        BY <3>1 DEF thpool_pause
      <4>3. paused' \in BOOLEAN
        BY <3>1 DEF thpool_pause
      <4> QED BY <3>1, <4>1, <4>2, <4>3 DEF thpool_pause, locks, ghosts
    <3>2. CASE thpool_resume(c)
      BY <2>2, <3>2 DEF thpool_resume, locks, ghosts
    <3> QED BY <2>2, <3>1, <3>2
  <2>3. ASSUME NEW p \in Procs, SpuriousWakeup(p) PROVE TypeOK'
    BY <2>3 DEF SpuriousWakeup, locks, signals, ghosts
  <2>4. CASE OtherDestroy \/ OtherInit
    BY <2>4 DEF OtherDestroy, OtherInit, locks, signals, ghosts
  <2>5. CASE UNCHANGED vars
    BY <2>5 DEF vars
  <2> QED BY <1>25, <2>1, <2>2, <2>3, <2>4, <2>5 DEF Quiet
<1> QED BY <1>1, <1>2, <1>3, <1>4, <1>5, <1>6, <1>7, <1>8, <1>9, <1>10, <1>11, <1>12, <1>13,
   <1>14, <1>15, <1>16, <1>17, <1>18, <1>19, <1>20, <1>21, <1>22, <1>23, <1>24, <1>25,
   StepCases, Zenon

\* A mutex is taken only when it is free, and released only by its owner.
LEMMA LockStep == Inv /\ [Next]_vars => LockInv'
<1> SUFFICES ASSUME LockInv, PhaseInv, pc \in [Procs -> WorkerPC \cup ClientPC],
   [Next]_vars
             PROVE  LockInv'
  BY DEF Inv, TypeOK
<1> USE ProcFacts DEF LockInv
<1>1. ASSUME NEW t \in Workers, bsem_wait(t) PROVE LockInv'
  BY <1>1 DEF bsem_wait, Goto, ghosts, CountPC, QueuePC, SemPC
<1>2. ASSUME NEW t \in Workers, AliveInc(t) PROVE LockInv'
  BY <1>2 DEF AliveInc, Goto, ghosts, CountPC, QueuePC, SemPC
<1>3. ASSUME NEW t \in Workers, LoopTest(t) PROVE LockInv'
  BY <1>3 DEF LoopTest, Goto, locks, ghosts, CountPC, QueuePC, SemPC
<1>4. ASSUME NEW t \in Workers, KeepaliveTest(t) PROVE LockInv'
  BY <1>4 DEF KeepaliveTest, Goto, locks, ghosts, CountPC, QueuePC, SemPC
<1>5. ASSUME NEW t \in Workers, WorkingInc(t) PROVE LockInv'
  BY <1>5 DEF WorkingInc, Goto, ghosts, CountPC, QueuePC, SemPC
<1>6. ASSUME NEW t \in Workers, jobqueue_pull(t) PROVE LockInv'
  BY <1>6 DEF jobqueue_pull, Goto, ghosts, CountPC, QueuePC, SemPC
<1>7. ASSUME NEW t \in Workers, PullPost(t) PROVE LockInv'
  BY <1>7 DEF PullPost, bsem_post, Goto, ghosts, CountPC, QueuePC, SemPC
<1>8. ASSUME NEW t \in Workers, RunJob(t) PROVE LockInv'
  BY <1>8 DEF RunJob, Goto, locks, CountPC, QueuePC, SemPC
<1>9. ASSUME NEW t \in Workers, WorkingDec(t) PROVE LockInv'
  BY <1>9 DEF WorkingDec, Goto, ghosts, CountPC, QueuePC, SemPC
<1>10. ASSUME NEW t \in Workers, AliveDec(t) PROVE LockInv'
  BY <1>10 DEF AliveDec, Goto, ghosts, CountPC, QueuePC, SemPC
<1>11. ASSUME NEW p \in Procs, UnlockCount(p) PROVE LockInv'
  BY <1>11 DEF UnlockCount, Goto, ghosts, CountPC, QueuePC, SemPC
<1>12. ASSUME NEW p \in Procs, UnlockSem(p) PROVE LockInv'
  BY <1>12 DEF UnlockSem, Goto, ghosts, CountPC, QueuePC, SemPC
<1>13. ASSUME NEW p \in Procs, UnlockQueue(p) PROVE LockInv'
  BY <1>13 DEF UnlockQueue, Goto, ghosts, CountPC, QueuePC, SemPC
<1>14. ASSUME NEW c \in Clients, thpool_add_work(c) PROVE LockInv'
  BY <1>14 DEF thpool_add_work, Goto, locks, CountPC, QueuePC, SemPC
<1>15. ASSUME NEW c \in Clients, jobqueue_push(c) PROVE LockInv'
  BY <1>15 DEF jobqueue_push, Goto, ghosts, CountPC, QueuePC, SemPC
<1>16. ASSUME NEW c \in Clients, PushPost(c) PROVE LockInv'
  BY <1>16 DEF PushPost, bsem_post, Goto, ghosts, CountPC, QueuePC, SemPC
<1>17. ASSUME NEW c \in Clients, thpool_wait(c) PROVE LockInv'
  BY <1>17 DEF thpool_wait, Goto, locks, CountPC, QueuePC, SemPC
<1>18. ASSUME NEW c \in Clients, WaitLock(c) PROVE LockInv'
  BY <1>18 DEF WaitLock, Goto, ghosts, CountPC, QueuePC, SemPC
<1>19. ASSUME NEW c \in Clients, WaitReadLen(c) PROVE LockInv'
  BY <1>19 DEF WaitReadLen, WaitSleep, Goto, ghosts, CountPC, QueuePC, SemPC
<1>20. ASSUME NEW c \in Clients, WaitReadWorking(c) PROVE LockInv'
  BY <1>20 DEF WaitReadWorking, WaitSleep, Goto, ghosts, CountPC, QueuePC, SemPC
<1>21. ASSUME NEW c \in Clients, thpool_destroy(c) PROVE LockInv'
  BY <1>21 DEF thpool_destroy, locks, ghosts, CountPC, QueuePC, SemPC
<1>22. ASSUME NEW c \in Clients, DestroyPost(c) PROVE LockInv'
  BY <1>22 DEF DestroyPost, bsem_post_all, Goto, ghosts, CountPC, QueuePC, SemPC
<1>23. ASSUME NEW c \in Clients, DestroyFree(c) PROVE LockInv'
  BY <1>23 DEF DestroyFree, Goto, locks, CountPC, QueuePC, SemPC
<1>24. CASE InitReturn
  BY <1>24 DEF InitReturn, PhaseInv, locks, ghosts, CountPC, QueuePC, SemPC
<1>25. CASE Quiet
  BY <1>25, QuietFrame DEF Core, CountPC, QueuePC, SemPC
<1> QED BY <1>1, <1>2, <1>3, <1>4, <1>5, <1>6, <1>7, <1>8, <1>9, <1>10, <1>11, <1>12, <1>13,
   <1>14, <1>15, <1>16, <1>17, <1>18, <1>19, <1>20, <1>21, <1>22, <1>23, <1>24, <1>25,
   StepCases, Zenon

\* A job changes hands only where the code hands it over.
LEMMA CarryStep == Inv /\ [Next]_vars => CarryInv'
<1> SUFFICES ASSUME CarryInv, PhaseInv, pc \in [Procs -> WorkerPC \cup ClientPC], job \in
   [Procs -> Jobs \cup {None}], queue \in Seq(Jobs), [Next]_vars
             PROVE  CarryInv'
  BY DEF Inv, TypeOK
<1> USE ProcFacts DEF CarryInv
<1>1. ASSUME NEW t \in Workers, bsem_wait(t) PROVE CarryInv'
  BY <1>1 DEF bsem_wait, Goto, ghosts
<1>2. ASSUME NEW t \in Workers, AliveInc(t) PROVE CarryInv'
  BY <1>2 DEF AliveInc, Goto, ghosts
<1>3. ASSUME NEW t \in Workers, LoopTest(t) PROVE CarryInv'
  BY <1>3 DEF LoopTest, Goto, locks, ghosts
<1>4. ASSUME NEW t \in Workers, KeepaliveTest(t) PROVE CarryInv'
  BY <1>4 DEF KeepaliveTest, Goto, locks, ghosts
<1>5. ASSUME NEW t \in Workers, WorkingInc(t) PROVE CarryInv'
  BY <1>5 DEF WorkingInc, Goto, ghosts
<1>6. ASSUME NEW t \in Workers, jobqueue_pull(t) PROVE CarryInv'
  BY <1>6 DEF jobqueue_pull, Goto, ghosts
<1>7. ASSUME NEW t \in Workers, PullPost(t) PROVE CarryInv'
  BY <1>7 DEF PullPost, bsem_post, Goto, ghosts
<1>8. ASSUME NEW t \in Workers, RunJob(t) PROVE CarryInv'
  BY <1>8 DEF RunJob, Goto, locks
<1>9. ASSUME NEW t \in Workers, WorkingDec(t) PROVE CarryInv'
  BY <1>9 DEF WorkingDec, Goto, ghosts
<1>10. ASSUME NEW t \in Workers, AliveDec(t) PROVE CarryInv'
  BY <1>10 DEF AliveDec, Goto, ghosts
<1>11. ASSUME NEW p \in Procs, UnlockCount(p) PROVE CarryInv'
  BY <1>11 DEF UnlockCount, Goto, ghosts
<1>12. ASSUME NEW p \in Procs, UnlockSem(p) PROVE CarryInv'
  BY <1>12 DEF UnlockSem, Goto, ghosts
<1>13. ASSUME NEW p \in Procs, UnlockQueue(p) PROVE CarryInv'
  BY <1>13 DEF UnlockQueue, Goto, ghosts
<1>14. ASSUME NEW c \in Clients, thpool_add_work(c) PROVE CarryInv'
  BY <1>14 DEF thpool_add_work, Goto, locks
<1>15. ASSUME NEW c \in Clients, jobqueue_push(c) PROVE CarryInv'
  BY <1>15 DEF jobqueue_push, Goto, ghosts
<1>16. ASSUME NEW c \in Clients, PushPost(c) PROVE CarryInv'
  BY <1>16 DEF PushPost, bsem_post, Goto, ghosts
<1>17. ASSUME NEW c \in Clients, thpool_wait(c) PROVE CarryInv'
  BY <1>17 DEF thpool_wait, Goto, locks
<1>18. ASSUME NEW c \in Clients, WaitLock(c) PROVE CarryInv'
  BY <1>18 DEF WaitLock, Goto, ghosts
<1>19. ASSUME NEW c \in Clients, WaitReadLen(c) PROVE CarryInv'
  BY <1>19 DEF WaitReadLen, WaitSleep, Goto, ghosts
<1>20. ASSUME NEW c \in Clients, WaitReadWorking(c) PROVE CarryInv'
  BY <1>20 DEF WaitReadWorking, WaitSleep, Goto, ghosts
<1>21. ASSUME NEW c \in Clients, thpool_destroy(c) PROVE CarryInv'
  BY <1>21 DEF thpool_destroy, locks, ghosts
<1>22. ASSUME NEW c \in Clients, DestroyPost(c) PROVE CarryInv'
  BY <1>22 DEF DestroyPost, bsem_post_all, Goto, ghosts
<1>23. ASSUME NEW c \in Clients, DestroyFree(c) PROVE CarryInv'
  BY <1>23 DEF DestroyFree, Goto, locks
<1>24. CASE InitReturn
  BY <1>24 DEF InitReturn, PhaseInv, locks, ghosts
<1>25. CASE Quiet
  BY <1>25, QuietFrame DEF Core
<1> QED BY <1>1, <1>2, <1>3, <1>4, <1>5, <1>6, <1>7, <1>8, <1>9, <1>10, <1>11, <1>12, <1>13,
   <1>14, <1>15, <1>16, <1>17, <1>18, <1>19, <1>20, <1>21, <1>22, <1>23, <1>24, <1>25,
   StepCases, Zenon

\* The workers at a place of L.
At(L) == {t \in Workers : pc[t] \in L}

\* The workers are finitely many, and so is every set of them.
LEMMA WorkersFinite ==
  /\ IsFiniteSet(Workers) /\ Cardinality(Workers) = NumThreads
  /\ \A L : IsFiniteSet(At(L))
<1>1. IsFiniteSet(Workers) /\ Cardinality(Workers) = NumThreads
  BY PoolAssumption, FS_Interval DEF Workers
<1>2. \A L : At(L) \subseteq Workers
  BY DEF At
<1> QED BY <1>1, <1>2, FS_Subset

\* One worker moves: it joins the set At(L), leaves it, or neither.
LEMMA MoveOne ==
  ASSUME NEW L, NEW t \in Workers, NEW n, pc \in [Procs -> WorkerPC \cup ClientPC],
         pc' = [pc EXCEPT ![t] = n]
  PROVE  /\ pc[t] \notin L /\ n \in L => Cardinality(At(L)') = Cardinality(At(L)) + 1
         /\ pc[t] \in L /\ n \notin L => Cardinality(At(L)') = Cardinality(At(L)) - 1
         /\ (pc[t] \in L <=> n \in L) => At(L)' = At(L)
<1> USE ProcFacts
<1>1. CASE pc[t] \notin L /\ n \in L
  <2>1. At(L)' = At(L) \cup {t} /\ t \notin At(L)
    BY <1>1 DEF At
  <2> QED BY <1>1, <2>1, WorkersFinite, FS_AddElement
<1>2. CASE pc[t] \in L /\ n \notin L
  <2>1. At(L)' = At(L) \ {t} /\ t \in At(L)
    BY <1>2 DEF At
  <2> QED BY <1>2, <2>1, WorkersFinite, FS_RemoveElement
<1>3. CASE pc[t] \in L <=> n \in L
  <2>1. At(L)' = At(L)
    BY <1>3 DEF At
  <2> QED BY <1>3, <2>1
<1> QED BY <1>1, <1>2, <1>3


\* CountInv in terms of At.
LEMMA CountAt ==
  CountInv <=> alive = Cardinality(At(AlivePC)) /\ working = Cardinality(At(WorkingPC))
BY DEF CountInv, At

\* A worker that moves while the counters follow it.
LEMMA CountMove ==
  ASSUME NEW t \in Workers, NEW n, TypeOK, CountInv,
         pc' = [pc EXCEPT ![t] = n],
         alive' = alive + (IF n \in AlivePC THEN 1 ELSE 0) - (IF pc[t] \in AlivePC THEN 1 ELSE 0),
         working' = working + (IF n \in WorkingPC THEN 1 ELSE 0)
                      - (IF pc[t] \in WorkingPC THEN 1 ELSE 0)
  PROVE  CountInv'
<1> USE DEF TypeOK
<1>1. alive' = Cardinality(At(AlivePC)')
  <2>1. alive = Cardinality(At(AlivePC)) /\ alive \in Int
    BY CountAt
  <2>2. /\ pc[t] \notin AlivePC /\ n \in AlivePC => Cardinality(At(AlivePC)') = Cardinality(At(AlivePC)) + 1
        /\ pc[t] \in AlivePC /\ n \notin AlivePC => Cardinality(At(AlivePC)') = Cardinality(At(AlivePC)) - 1
        /\ (pc[t] \in AlivePC <=> n \in AlivePC) => At(AlivePC)' = At(AlivePC)
    BY MoveOne
  <2> QED BY <2>1, <2>2
<1>2. working' = Cardinality(At(WorkingPC)')
  <2>1. working = Cardinality(At(WorkingPC)) /\ working \in Int
    BY CountAt
  <2>2. /\ pc[t] \notin WorkingPC /\ n \in WorkingPC => Cardinality(At(WorkingPC)') = Cardinality(At(WorkingPC)) + 1
        /\ pc[t] \in WorkingPC /\ n \notin WorkingPC => Cardinality(At(WorkingPC)') = Cardinality(At(WorkingPC)) - 1
        /\ (pc[t] \in WorkingPC <=> n \in WorkingPC) => At(WorkingPC)' = At(WorkingPC)
    BY MoveOne
  <2> QED BY <2>1, <2>2
<1> QED BY <1>1, <1>2 DEF CountInv, At

\* A worker that moves between places the counters do not tell apart.
LEMMA CountSame ==
  ASSUME NEW t \in Workers, NEW n, TypeOK, CountInv, pc' = [pc EXCEPT ![t] = n],
         alive' = alive, working' = working,
         pc[t] \in AlivePC <=> n \in AlivePC, pc[t] \in WorkingPC <=> n \in WorkingPC
  PROVE  CountInv'
<1>1. alive \in Int /\ working \in Int
  BY DEF TypeOK
<1>2. alive' = alive + (IF n \in AlivePC THEN 1 ELSE 0) - (IF pc[t] \in AlivePC THEN 1 ELSE 0)
  BY <1>1
<1>3. working' = working + (IF n \in WorkingPC THEN 1 ELSE 0)
                   - (IF pc[t] \in WorkingPC THEN 1 ELSE 0)
  BY <1>1
<1> QED BY <1>2, <1>3, CountMove

\* A step that moves no worker.
LEMMA CountStay ==
  ASSUME CountInv, \A t \in Workers : pc'[t] = pc[t], alive' = alive, working' = working
  PROVE  CountInv'
BY DEF CountInv

\* The counters follow the workers.
LEMMA CountStep == Inv /\ [Next]_vars => CountInv'
<1> SUFFICES ASSUME Inv, [Next]_vars PROVE CountInv'
  OBVIOUS
<1> USE ProcFacts
<1>1. ASSUME NEW t \in Workers, bsem_wait(t) PROVE CountInv'
  <2>1. TypeOK /\ CountInv /\ alive \in Int /\ working \in Int
    BY DEF Inv, TypeOK
  <2>2. CASE pc' = [pc EXCEPT ![t] = "bsem_u"]
    BY <1>1, <2>1, <2>2, CountSame DEF bsem_wait, AlivePC, WorkingPC, WorkerPC
  <2>3. CASE pc' = [pc EXCEPT ![t] = "bsem_c"]
    BY <1>1, <2>1, <2>3, CountSame DEF bsem_wait, AlivePC, WorkingPC, WorkerPC
  <2> QED BY <1>1, <2>2, <2>3 DEF bsem_wait, Goto
<1>2. ASSUME NEW t \in Workers, AliveInc(t) PROVE CountInv'
  <2>1. TypeOK /\ CountInv /\ alive \in Int /\ working \in Int
    BY DEF Inv, TypeOK
  <2>2. pc' = [pc EXCEPT ![t] = "start_u"]
    BY <1>2 DEF AliveInc, Goto
  <2>3. alive' = alive + (IF "start_u" \in AlivePC THEN 1 ELSE 0)
                    - (IF pc[t] \in AlivePC THEN 1 ELSE 0)
    BY <1>2, <2>1 DEF AliveInc, AlivePC, WorkerPC
  <2>4. working' = working + (IF "start_u" \in WorkingPC THEN 1 ELSE 0)
                    - (IF pc[t] \in WorkingPC THEN 1 ELSE 0)
    BY <1>2, <2>1 DEF AliveInc, WorkingPC, WorkerPC
  <2> QED BY <2>1, <2>2, <2>3, <2>4, CountMove
<1>3. ASSUME NEW t \in Workers, LoopTest(t) PROVE CountInv'
  <2>1. TypeOK /\ CountInv /\ alive \in Int /\ working \in Int
    BY DEF Inv, TypeOK
  <2>2. CASE pc' = [pc EXCEPT ![t] = "bsem"]
    BY <1>3, <2>1, <2>2, CountSame DEF LoopTest, AlivePC, WorkingPC, WorkerPC
  <2>3. CASE pc' = [pc EXCEPT ![t] = "exit"]
    BY <1>3, <2>1, <2>3, CountSame DEF LoopTest, AlivePC, WorkingPC, WorkerPC
  <2> QED BY <1>3, <2>2, <2>3 DEF LoopTest, Goto
<1>4. ASSUME NEW t \in Workers, KeepaliveTest(t) PROVE CountInv'
  <2>1. TypeOK /\ CountInv /\ alive \in Int /\ working \in Int
    BY DEF Inv, TypeOK
  <2>2. CASE pc' = [pc EXCEPT ![t] = "inc"]
    BY <1>4, <2>1, <2>2, CountSame DEF KeepaliveTest, AlivePC, WorkingPC, WorkerPC
  <2>3. CASE pc' = [pc EXCEPT ![t] = "loop"]
    BY <1>4, <2>1, <2>3, CountSame DEF KeepaliveTest, AlivePC, WorkingPC, WorkerPC
  <2> QED BY <1>4, <2>2, <2>3 DEF KeepaliveTest, Goto
<1>5. ASSUME NEW t \in Workers, WorkingInc(t) PROVE CountInv'
  <2>1. TypeOK /\ CountInv /\ alive \in Int /\ working \in Int
    BY DEF Inv, TypeOK
  <2>2. pc' = [pc EXCEPT ![t] = "inc_u"]
    BY <1>5 DEF WorkingInc, Goto
  <2>3. alive' = alive + (IF "inc_u" \in AlivePC THEN 1 ELSE 0)
                    - (IF pc[t] \in AlivePC THEN 1 ELSE 0)
    BY <1>5, <2>1 DEF WorkingInc, AlivePC, WorkerPC
  <2>4. working' = working + (IF "inc_u" \in WorkingPC THEN 1 ELSE 0)
                    - (IF pc[t] \in WorkingPC THEN 1 ELSE 0)
    BY <1>5, <2>1 DEF WorkingInc, WorkingPC, WorkerPC
  <2> QED BY <2>1, <2>2, <2>3, <2>4, CountMove
<1>6. ASSUME NEW t \in Workers, jobqueue_pull(t) PROVE CountInv'
  <2>1. TypeOK /\ CountInv /\ alive \in Int /\ working \in Int
    BY DEF Inv, TypeOK
  <2>2. CASE pc' = [pc EXCEPT ![t] = "pull_post"]
    BY <1>6, <2>1, <2>2, CountSame DEF jobqueue_pull, AlivePC, WorkingPC, WorkerPC
  <2>3. CASE pc' = [pc EXCEPT ![t] = "pull_u"]
    BY <1>6, <2>1, <2>3, CountSame DEF jobqueue_pull, AlivePC, WorkingPC, WorkerPC
  <2> QED BY <1>6, <2>2, <2>3 DEF jobqueue_pull, Goto
<1>7. ASSUME NEW t \in Workers, PullPost(t) PROVE CountInv'
  <2>1. TypeOK /\ CountInv /\ alive \in Int /\ working \in Int
    BY DEF Inv, TypeOK
  <2>2. CASE pc' = [pc EXCEPT ![t] = "pull_post_u"]
    BY <1>7, <2>1, <2>2, CountSame DEF PullPost, AlivePC, WorkingPC, WorkerPC
  <2> QED BY <1>7, <2>2 DEF PullPost, Goto
<1>8. ASSUME NEW t \in Workers, RunJob(t) PROVE CountInv'
  <2>1. TypeOK /\ CountInv /\ alive \in Int /\ working \in Int
    BY DEF Inv, TypeOK
  <2>2. CASE pc' = [pc EXCEPT ![t] = "dec"]
    BY <1>8, <2>1, <2>2, CountSame DEF RunJob, AlivePC, WorkingPC, WorkerPC
  <2> QED BY <1>8, <2>2 DEF RunJob, Goto
<1>9. ASSUME NEW t \in Workers, WorkingDec(t) PROVE CountInv'
  <2>1. TypeOK /\ CountInv /\ alive \in Int /\ working \in Int
    BY DEF Inv, TypeOK
  <2>2. pc' = [pc EXCEPT ![t] = "dec_u"]
    BY <1>9 DEF WorkingDec, Goto
  <2>3. alive' = alive + (IF "dec_u" \in AlivePC THEN 1 ELSE 0)
                    - (IF pc[t] \in AlivePC THEN 1 ELSE 0)
    BY <1>9, <2>1 DEF WorkingDec, AlivePC, WorkerPC
  <2>4. working' = working + (IF "dec_u" \in WorkingPC THEN 1 ELSE 0)
                    - (IF pc[t] \in WorkingPC THEN 1 ELSE 0)
    BY <1>9, <2>1 DEF WorkingDec, WorkingPC, WorkerPC
  <2> QED BY <2>1, <2>2, <2>3, <2>4, CountMove
<1>10. ASSUME NEW t \in Workers, AliveDec(t) PROVE CountInv'
  <2>1. TypeOK /\ CountInv /\ alive \in Int /\ working \in Int
    BY DEF Inv, TypeOK
  <2>2. pc' = [pc EXCEPT ![t] = "exit_u"]
    BY <1>10 DEF AliveDec, Goto
  <2>3. alive' = alive + (IF "exit_u" \in AlivePC THEN 1 ELSE 0)
                    - (IF pc[t] \in AlivePC THEN 1 ELSE 0)
    BY <1>10, <2>1 DEF AliveDec, AlivePC, WorkerPC
  <2>4. working' = working + (IF "exit_u" \in WorkingPC THEN 1 ELSE 0)
                    - (IF pc[t] \in WorkingPC THEN 1 ELSE 0)
    BY <1>10, <2>1 DEF AliveDec, WorkingPC, WorkerPC
  <2> QED BY <2>1, <2>2, <2>3, <2>4, CountMove
<1>11. ASSUME NEW p \in Procs, UnlockCount(p) PROVE CountInv'
  <2>1. CASE p \in Clients
    BY <1>11, <2>1, CountStay DEF UnlockCount, Goto, Inv, TypeOK
  <2>2. CASE p \in Workers
    <3>1. CASE pc[p] = "start_u"
      <4>1. pc' = [pc EXCEPT ![p] = "loop"]
        BY <1>11, <3>1 DEF UnlockCount, Goto
      <4> QED
        BY <1>11, <2>2, <3>1, <4>1, CountSame DEF UnlockCount, Inv, TypeOK, AlivePC, WorkingPC, WorkerPC
    <3>2. CASE pc[p] = "inc_u"
      <4>1. pc' = [pc EXCEPT ![p] = "pull"]
        BY <1>11, <3>2 DEF UnlockCount, Goto
      <4> QED
        BY <1>11, <2>2, <3>2, <4>1, CountSame DEF UnlockCount, Inv, TypeOK, AlivePC, WorkingPC, WorkerPC
    <3>3. CASE pc[p] = "dec_u"
      <4>1. pc' = [pc EXCEPT ![p] = "loop"]
        BY <1>11, <3>3 DEF UnlockCount, Goto
      <4> QED
        BY <1>11, <2>2, <3>3, <4>1, CountSame DEF UnlockCount, Inv, TypeOK, AlivePC, WorkingPC, WorkerPC
    <3>4. CASE pc[p] = "exit_u"
      <4>1. pc' = [pc EXCEPT ![p] = "gone"]
        BY <1>11, <3>4 DEF UnlockCount, Goto
      <4> QED
        BY <1>11, <2>2, <3>4, <4>1, CountSame DEF UnlockCount, Inv, TypeOK, AlivePC, WorkingPC, WorkerPC
    <3> QED BY <1>11, <2>2, <3>1, <3>2, <3>3, <3>4 DEF UnlockCount, Inv, TypeOK, WorkerPC
  <2> QED BY <2>1, <2>2
<1>12. ASSUME NEW p \in Procs, UnlockSem(p) PROVE CountInv'
  <2>1. CASE p \in Clients
    BY <1>12, <2>1, CountStay DEF UnlockSem, Goto, Inv, TypeOK
  <2>2. CASE p \in Workers
    <3>1. CASE pc[p] = "bsem_u"
      <4>1. pc' = [pc EXCEPT ![p] = "check"]
        BY <1>12, <3>1 DEF UnlockSem, Goto
      <4> QED
        BY <1>12, <2>2, <3>1, <4>1, CountSame DEF UnlockSem, Inv, TypeOK, AlivePC, WorkingPC, WorkerPC
    <3>2. CASE pc[p] = "pull_post_u"
      <4>1. pc' = [pc EXCEPT ![p] = "pull_u"]
        BY <1>12, <3>2 DEF UnlockSem, Goto
      <4> QED
        BY <1>12, <2>2, <3>2, <4>1, CountSame DEF UnlockSem, Inv, TypeOK, AlivePC, WorkingPC, WorkerPC
    <3> QED BY <1>12, <2>2, <3>1, <3>2 DEF UnlockSem, Inv, TypeOK, WorkerPC
  <2> QED BY <2>1, <2>2
<1>13. ASSUME NEW p \in Procs, UnlockQueue(p) PROVE CountInv'
  <2>1. CASE p \in Clients
    BY <1>13, <2>1, CountStay DEF UnlockQueue, Goto, Inv, TypeOK
  <2>2. CASE p \in Workers
    <3>1. CASE pc[p] = "pull_u"
      BY <1>13, <2>2, <3>1, CountSame DEF UnlockQueue, Goto, Inv, TypeOK, AlivePC, WorkingPC, WorkerPC
    <3> QED BY <1>13, <2>2, <3>1 DEF UnlockQueue, Inv, TypeOK, WorkerPC
  <2> QED BY <2>1, <2>2
<1>14. ASSUME NEW c \in Clients, thpool_add_work(c) PROVE CountInv'
  BY <1>14, CountStay DEF thpool_add_work, Goto, Inv, TypeOK
<1>15. ASSUME NEW c \in Clients, jobqueue_push(c) PROVE CountInv'
  BY <1>15, CountStay DEF jobqueue_push, Goto, Inv, TypeOK
<1>16. ASSUME NEW c \in Clients, PushPost(c) PROVE CountInv'
  BY <1>16, CountStay DEF PushPost, bsem_post, Goto, Inv, TypeOK
<1>17. ASSUME NEW c \in Clients, thpool_wait(c) PROVE CountInv'
  BY <1>17, CountStay DEF thpool_wait, Goto, Inv, TypeOK
<1>18. ASSUME NEW c \in Clients, WaitLock(c) PROVE CountInv'
  BY <1>18, CountStay DEF WaitLock, Goto, Inv, TypeOK
<1>19. ASSUME NEW c \in Clients, WaitReadLen(c) PROVE CountInv'
  BY <1>19, CountStay DEF WaitReadLen, WaitSleep, Goto, Inv, TypeOK
<1>20. ASSUME NEW c \in Clients, WaitReadWorking(c) PROVE CountInv'
  BY <1>20, CountStay DEF WaitReadWorking, WaitSleep, Goto, Inv, TypeOK
<1>21. ASSUME NEW c \in Clients, thpool_destroy(c) PROVE CountInv'
  BY <1>21, CountStay DEF thpool_destroy, Inv, TypeOK
<1>22. ASSUME NEW c \in Clients, DestroyPost(c) PROVE CountInv'
  BY <1>22, CountStay DEF DestroyPost, bsem_post_all, Goto, Inv, TypeOK
<1>23. ASSUME NEW c \in Clients, DestroyFree(c) PROVE CountInv'
  BY <1>23, CountStay DEF DestroyFree, Goto, Inv, TypeOK
<1>24. CASE InitReturn
  BY <1>24, CountStay DEF InitReturn, Inv, TypeOK
<1>25. CASE Quiet
  BY <1>25, QuietFrame, CountStay DEF Core, Inv
<1> QED BY <1>1, <1>2, <1>3, <1>4, <1>5, <1>6, <1>7, <1>8, <1>9, <1>10, <1>11, <1>12, <1>13,
   <1>14, <1>15, <1>16, <1>17, <1>18, <1>19, <1>20, <1>21, <1>22, <1>23, <1>24, <1>25,
   StepCases, Zenon
=============================================================================
