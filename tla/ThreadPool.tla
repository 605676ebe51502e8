------------------------------ MODULE ThreadPool ------------------------------
(***************************************************************************)
(* The thread pool of src/base/thpool.c, at the granularity of its         *)
(* critical sections.  Every pthread mutex is a variable holding its       *)
(* owner; a critical section is one step that takes the mutex and does the *)
(* work, and one that releases it, so that a reader that does not take the *)
(* mutex (thpool_wait reading jobqueue.len, thpool_destroy polling         *)
(* num_threads_alive) and a signal handler that interrupts the owner both  *)
(* see the state in between.                                               *)
(***************************************************************************)
EXTENDS Integers, Sequences, FiniteSets

CONSTANTS NumThreads,  \* num_threads given to thpool_init
          Jobs,        \* the jobs clients may add
          Clients,     \* the threads that call the API
          Waiters,     \* the clients that may call thpool_wait
          MaxPause,    \* bound on the calls of thpool_pause
          MaxFail,     \* bound on the threads that pthread_create fails to start
          OtherPool,   \* does the process use a second pool?
          None         \* no owner, no job

Workers == 1..NumThreads

Procs == Workers \cup Clients

ASSUME PoolAssumption ==
  /\ NumThreads \in Nat /\ MaxPause \in Nat /\ MaxFail \in Nat
  /\ OtherPool \in BOOLEAN
  /\ Waiters \subseteq Clients
  /\ Clients \cap Workers = {}
  /\ None \notin Procs \cup Jobs

VARIABLES
  keepalive,  \* threads_keepalive: one flag for all the pools of the process
  onHold,     \* threads_on_hold: likewise
  alive,      \* num_threads_alive
  working,    \* num_threads_working
  queue,      \* the jobs from front to rear; jobqueue.len is its length
  v,          \* the binary semaphore has_jobs
  tc, rw, bm, \* the owners of thcount_lock, jobqueue.rwmutex and has_jobs->mutex
  bwait,      \* the threads asleep on has_jobs->cond
  iwait,      \* the clients asleep on threads_all_idle
  pc,         \* where every thread is
  job,        \* the job a worker pulled, or the one a client is adding
  sig, held,  \* SIGUSR1 pending for a worker; the worker is inside thread_hold
  pauses,     \* number of calls of thpool_pause so far
  paused,     \* was thpool_pause called after the last thpool_resume?
  added,      \* the jobs handed to thpool_add_work
  done,       \* the jobs whose function has returned
  dropped,    \* the jobs thpool_destroy freed without running them
  snap        \* the jobs that were in the pool when a client called thpool_wait

locks == <<tc, rw, bm>>
signals == <<onHold, sig, held, pauses, paused>>
ghosts == <<added, done, dropped, snap>>
vars == <<keepalive, onHold, alive, working, queue, v, tc, rw, bm, bwait, iwait,
          pc, job, sig, held, pauses, paused, added, done, dropped, snap>>

WorkerPC == {"none", "start", "start_u", "loop", "bsem", "bsem_c", "bsem_u", "check",
             "inc", "inc_u", "pull", "pull_post", "pull_post_u", "pull_u", "run",
             "dec", "dec_u", "exit", "exit_u", "gone"}
ClientPC == {"init", "idle", "push", "post", "post_u", "push_u", "wait", "wait_len",
             "wait_num", "wait_c", "wait_u", "left", "destroy", "destroy_u", "freed"}

\* The jobs the pool knows: queued, in the hands of a worker, or finished.
InPool == ({queue[i] : i \in DOMAIN queue} \cup {job[t] : t \in Workers} \cup done) \ {None}

Goto(p, l) == pc' = [pc EXCEPT ![p] = l]

-----------------------------------------------------------------------------
(* thpool_init, after its mallocs: the threads have been created (a failing   *)
(* pthread_create or malloc in thread_init goes unnoticed: its result is not  *)
(* looked at) and the creator spins until they have all counted themselves.   *)
Init ==
  /\ keepalive = TRUE /\ onHold = FALSE
  /\ alive = 0 /\ working = 0
  /\ queue = <<>> /\ v = 0
  /\ tc = None /\ rw = None /\ bm = None
  /\ bwait = {} /\ iwait = {}
  /\ \E failed \in SUBSET Workers :
       /\ Cardinality(failed) <= MaxFail
       /\ pc = [p \in Procs |-> IF p \in Clients THEN "init"
                                ELSE IF p \in failed THEN "none" ELSE "start"]
  /\ job = [p \in Procs |-> None]
  /\ sig = [t \in Workers |-> FALSE] /\ held = [t \in Workers |-> FALSE]
  /\ pauses = 0 /\ paused = FALSE
  /\ added = {} /\ done = {} /\ dropped = {}
  /\ snap = [c \in Clients |-> {}]

\* The spin of thpool_init ends and the pool is handed to its users.
InitReturn ==
  /\ \E c \in Clients : pc[c] = "init"
  /\ alive = NumThreads
  /\ pc' = [p \in Procs |-> IF p \in Clients THEN "idle" ELSE pc[p]]
  /\ UNCHANGED <<keepalive, alive, working, queue, v, locks, bwait, iwait, job, signals, ghosts>>

-----------------------------------------------------------------------------
(* The binary semaphore.                                                      *)

\* bsem_post: v = 1 and wake at most one of the sleepers.
bsem_post(p) ==
  /\ bm = None /\ bm' = p
  /\ v' = 1
  /\ IF bwait = {} THEN UNCHANGED bwait
     ELSE \E t \in bwait : bwait' = bwait \ {t}

\* Mutant: the broadcast is left out.
bsem_post_allSilent(p) ==
  /\ bm = None /\ bm' = p
  /\ v' = 1 /\ UNCHANGED bwait

\* bsem_post_all: v = 1 and wake every sleeper.
bsem_post_all(p) ==
  /\ bm = None /\ bm' = p
  /\ v' = 1
  /\ bwait' = {}

\* bsem_wait, at its first test of v or after a wake-up.
bsem_wait(t) ==
  /\ pc[t] = "bsem" \/ (pc[t] = "bsem_c" /\ t \notin bwait)
  /\ bm = None
  /\ \/ v = 1 /\ v' = 0 /\ bm' = t /\ UNCHANGED bwait /\ Goto(t, "bsem_u")
     \/ v # 1 /\ bwait' = bwait \cup {t} /\ UNCHANGED <<v, bm>> /\ Goto(t, "bsem_c")
  /\ UNCHANGED <<keepalive, alive, working, queue, tc, rw, iwait, job, signals, ghosts>>

-----------------------------------------------------------------------------
(* thread_do: what each worker is doing.                                      *)

\* num_threads_alive += 1 under thcount_lock.
AliveInc(t) ==
  /\ pc[t] = "start" /\ tc = None
  /\ tc' = t /\ alive' = alive + 1 /\ Goto(t, "start_u")
  /\ UNCHANGED <<keepalive, working, queue, v, rw, bm, bwait, iwait, job, signals, ghosts>>

\* The test of the loop while (threads_keepalive).
LoopTest(t) ==
  /\ pc[t] = "loop"
  /\ Goto(t, IF keepalive THEN "bsem" ELSE "exit")
  /\ UNCHANGED <<keepalive, alive, working, queue, v, locks, bwait, iwait, job, signals, ghosts>>

\* The second test of threads_keepalive, after bsem_wait.
KeepaliveTest(t) ==
  /\ pc[t] = "check"
  /\ Goto(t, IF keepalive THEN "inc" ELSE "loop")
  /\ UNCHANGED <<keepalive, alive, working, queue, v, locks, bwait, iwait, job, signals, ghosts>>

\* Mutant: thcount_lock is not taken.
WorkingIncUnlocked(t) ==
  /\ pc[t] = "inc"
  /\ tc' = t /\ working' = working + 1 /\ Goto(t, "inc_u")
  /\ UNCHANGED <<keepalive, alive, queue, v, rw, bm, bwait, iwait, job, signals, ghosts>>

\* num_threads_working++ under thcount_lock.
WorkingInc(t) ==
  /\ pc[t] = "inc" /\ tc = None
  /\ tc' = t /\ working' = working + 1 /\ Goto(t, "inc_u")
  /\ UNCHANGED <<keepalive, alive, queue, v, rw, bm, bwait, iwait, job, signals, ghosts>>

\* Mutant: a pull that leaves jobs behind does not post again.
jobqueue_pullNoPost(t) ==
  /\ pc[t] = "pull" /\ rw = None
  /\ rw' = t
  /\ job' = [job EXCEPT ![t] = IF queue = <<>> THEN None ELSE Head(queue)]
  /\ queue' = IF queue = <<>> THEN <<>> ELSE Tail(queue)
  /\ Goto(t, "pull_u")
  /\ UNCHANGED <<keepalive, alive, working, v, tc, bm, bwait, iwait, signals, ghosts>>

\* jobqueue_pull: take the front job under rwmutex; with more than one job in
\* the queue the semaphore is posted again before rwmutex is released.
jobqueue_pull(t) ==
  /\ pc[t] = "pull" /\ rw = None
  /\ rw' = t
  /\ job' = [job EXCEPT ![t] = IF queue = <<>> THEN None ELSE Head(queue)]
  /\ queue' = IF queue = <<>> THEN <<>> ELSE Tail(queue)
  /\ Goto(t, IF Len(queue) > 1 THEN "pull_post" ELSE "pull_u")
  /\ UNCHANGED <<keepalive, alive, working, v, tc, bm, bwait, iwait, signals, ghosts>>

PullPost(t) ==
  /\ pc[t] = "pull_post"
  /\ bsem_post(t)
  /\ Goto(t, "pull_post_u")
  /\ UNCHANGED <<keepalive, alive, working, queue, tc, rw, iwait, job, signals, ghosts>>

\* The job's function runs; job_p is freed.
RunJob(t) ==
  /\ pc[t] = "run"
  /\ done' = done \cup {job[t]}
  /\ job' = [job EXCEPT ![t] = None]
  /\ Goto(t, "dec")
  /\ UNCHANGED <<keepalive, alive, working, queue, v, locks, bwait, iwait, signals,
                 added, dropped, snap>>

\* Mutant: nobody signals threads_all_idle.
WorkingDecSilent(t) ==
  /\ pc[t] = "dec" /\ tc = None
  /\ tc' = t /\ working' = working - 1 /\ Goto(t, "dec_u")
  /\ UNCHANGED <<keepalive, alive, queue, v, rw, bm, bwait, iwait, job, signals, ghosts>>

\* num_threads_working-- under thcount_lock; the worker that makes it 0
\* signals threads_all_idle, which wakes at most one waiter.
WorkingDec(t) ==
  /\ pc[t] = "dec" /\ tc = None
  /\ tc' = t /\ working' = working - 1 /\ Goto(t, "dec_u")
  /\ IF working' = 0 /\ iwait # {}
     THEN \E c \in iwait : iwait' = iwait \ {c}
     ELSE UNCHANGED iwait
  /\ UNCHANGED <<keepalive, alive, queue, v, rw, bm, bwait, job, signals, ghosts>>

\* num_threads_alive-- under thcount_lock.
AliveDec(t) ==
  /\ pc[t] = "exit" /\ tc = None
  /\ tc' = t /\ alive' = alive - 1 /\ Goto(t, "exit_u")
  /\ UNCHANGED <<keepalive, working, queue, v, rw, bm, bwait, iwait, job, signals, ghosts>>

-----------------------------------------------------------------------------
(* The pthread_mutex_unlock at the end of each critical section, and the      *)
(* place the thread goes on from.                                             *)

UnlockCount(p) ==
  /\ \/ pc[p] = "start_u" /\ Goto(p, "loop")
     \/ pc[p] = "inc_u" /\ Goto(p, "pull")
     \/ pc[p] = "dec_u" /\ Goto(p, "loop")
     \/ pc[p] = "exit_u" /\ Goto(p, "gone")
     \/ pc[p] = "wait_u" /\ Goto(p, "idle")
  /\ tc' = None
  /\ UNCHANGED <<keepalive, alive, working, queue, v, rw, bm, bwait, iwait, job, signals, ghosts>>

UnlockSem(p) ==
  /\ \/ pc[p] = "bsem_u" /\ Goto(p, "check")
     \/ pc[p] = "pull_post_u" /\ Goto(p, "pull_u")
     \/ pc[p] = "post_u" /\ Goto(p, "push_u")
     \/ pc[p] = "destroy_u" /\ Goto(p, "destroy")
  /\ bm' = None
  /\ UNCHANGED <<keepalive, alive, working, queue, v, tc, rw, bwait, iwait, job, signals, ghosts>>

\* jobqueue_pull returns its job (or NULL), jobqueue_push returns to its caller.
UnlockQueue(p) ==
  /\ \/ pc[p] = "pull_u" /\ Goto(p, IF job[p] = None THEN "dec" ELSE "run")
     \/ pc[p] = "push_u" /\ Goto(p, "idle")
  /\ rw' = None
  /\ UNCHANGED <<keepalive, alive, working, queue, v, tc, bm, bwait, iwait, job, signals, ghosts>>

-----------------------------------------------------------------------------
(* The client's calls.                                                        *)

\* thpool_add_work allocates the job and enters jobqueue_push.
thpool_add_work(c) ==
  /\ pc[c] = "idle"
  /\ \E j \in Jobs \ added :
       /\ added' = added \cup {j}
       /\ job' = [job EXCEPT ![c] = j]
  /\ Goto(c, "push")
  /\ UNCHANGED <<keepalive, alive, working, queue, v, locks, bwait, iwait, signals,
                 done, dropped, snap>>

\* Mutant: the new job is linked at the front.
jobqueue_pushFront(c) ==
  /\ pc[c] = "push" /\ rw = None
  /\ rw' = c
  /\ queue' = <<job[c]>> \o queue
  /\ job' = [job EXCEPT ![c] = None]
  /\ Goto(c, "post")
  /\ UNCHANGED <<keepalive, alive, working, v, tc, bm, bwait, iwait, signals, ghosts>>

\* jobqueue_push: append under rwmutex, then post has_jobs before releasing it.
jobqueue_push(c) ==
  /\ pc[c] = "push" /\ rw = None
  /\ rw' = c
  /\ queue' = Append(queue, job[c])
  /\ job' = [job EXCEPT ![c] = None]
  /\ Goto(c, "post")
  /\ UNCHANGED <<keepalive, alive, working, v, tc, bm, bwait, iwait, signals, ghosts>>

PushPost(c) ==
  /\ pc[c] = "post"
  /\ bsem_post(c)
  /\ Goto(c, "post_u")
  /\ UNCHANGED <<keepalive, alive, working, queue, tc, rw, iwait, job, signals, ghosts>>

\* thpool_wait, up to the lock.  snap records what the caller waits for.
thpool_wait(c) ==
  /\ pc[c] = "idle" /\ c \in Waiters
  /\ snap' = [snap EXCEPT ![c] = InPool]
  /\ Goto(c, "wait")
  /\ UNCHANGED <<keepalive, alive, working, queue, v, locks, bwait, iwait, job, signals,
                 added, done, dropped>>

\* thcount_lock is taken, at the call or by pthread_cond_wait after a wake-up.
WaitLock(c) ==
  /\ pc[c] = "wait" \/ (pc[c] = "wait_c" /\ c \notin iwait)
  /\ tc = None /\ tc' = c
  /\ Goto(c, "wait_len")
  /\ UNCHANGED <<keepalive, alive, working, queue, v, rw, bm, bwait, iwait, job, signals, ghosts>>

\* pthread_cond_wait releases thcount_lock and sleeps in one step.
WaitSleep(c) ==
  /\ tc' = None /\ iwait' = iwait \cup {c}
  /\ Goto(c, "wait_c")

\* Mutant: an empty queue is taken for an idle pool.
WaitReadLenOnly(c) ==
  /\ pc[c] = "wait_len"
  /\ \/ queue # <<>> /\ WaitSleep(c)
     \/ queue = <<>> /\ Goto(c, "wait_u") /\ UNCHANGED <<tc, iwait>>
  /\ UNCHANGED <<keepalive, alive, working, queue, v, rw, bm, bwait, job, signals, ghosts>>

\* The first half of the loop's condition: jobqueue.len, read without rwmutex.
WaitReadLen(c) ==
  /\ pc[c] = "wait_len"
  /\ \/ queue # <<>> /\ WaitSleep(c)
     \/ queue = <<>> /\ Goto(c, "wait_num") /\ UNCHANGED <<tc, iwait>>
  /\ UNCHANGED <<keepalive, alive, working, queue, v, rw, bm, bwait, job, signals, ghosts>>

\* The second half: num_threads_working.
WaitReadWorking(c) ==
  /\ pc[c] = "wait_num"
  /\ \/ working # 0 /\ WaitSleep(c)
     \/ working = 0 /\ Goto(c, "wait_u") /\ UNCHANGED <<tc, iwait>>
  /\ UNCHANGED <<keepalive, alive, working, queue, v, rw, bm, bwait, job, signals, ghosts>>

\* thpool_destroy, up to its loops.  It is called when no other call is in
\* progress, and no other client uses the pool from then on.
thpool_destroy(c) ==
  /\ \A d \in Clients : pc[d] = "idle"
  /\ keepalive' = FALSE
  /\ pc' = [p \in Procs |-> IF p = c THEN "destroy" ELSE IF p \in Clients THEN "left" ELSE pc[p]]
  /\ UNCHANGED <<alive, working, queue, v, locks, bwait, iwait, job, signals, ghosts>>

\* One round of either of its loops: bsem_post_all while a thread is alive.
DestroyPost(c) ==
  /\ pc[c] = "destroy" /\ alive # 0
  /\ bsem_post_all(c)
  /\ Goto(c, "destroy_u")
  /\ UNCHANGED <<keepalive, alive, working, queue, tc, rw, iwait, job, signals, ghosts>>

\* Mutant: thpool_destroy waits for idle threads, not for the end of them.
DestroyFreeIdle(c) ==
  /\ pc[c] = "destroy" /\ working = 0
  /\ dropped' = dropped \cup {queue[i] : i \in DOMAIN queue}
  /\ queue' = <<>> /\ v' = 0
  /\ Goto(c, "freed")
  /\ UNCHANGED <<keepalive, alive, working, locks, bwait, iwait, job, signals, added, done, snap>>

\* No thread is alive: jobqueue_destroy drops what is queued and resets the
\* semaphore, and the pool's memory is freed.
DestroyFree(c) ==
  /\ pc[c] = "destroy" /\ alive = 0
  /\ dropped' = dropped \cup {queue[i] : i \in DOMAIN queue}
  /\ queue' = <<>> /\ v' = 0
  /\ Goto(c, "freed")
  /\ UNCHANGED <<keepalive, alive, working, locks, bwait, iwait, job, signals, added, done, snap>>

\* thpool_pause: pthread_kill(SIGUSR1) for the first num_threads_alive threads.
thpool_pause(c) ==
  /\ pc[c] = "idle" /\ pauses < MaxPause
  /\ pauses' = pauses + 1 /\ paused' = TRUE
  /\ sig' = [t \in Workers |-> IF t <= alive THEN TRUE ELSE sig[t]]
  /\ UNCHANGED <<keepalive, onHold, alive, working, queue, v, locks, bwait, iwait, pc, job,
                 held, ghosts>>

thpool_resume(c) ==
  /\ pc[c] = "idle" /\ (onHold \/ paused)
  /\ onHold' = FALSE /\ paused' = FALSE
  /\ UNCHANGED <<keepalive, alive, working, queue, v, locks, bwait, iwait, pc, job,
                 sig, held, pauses, ghosts>>

-----------------------------------------------------------------------------
(* thread_hold, the handler of SIGUSR1.  It interrupts the worker wherever it *)
(* is, inside a critical section too; SIGUSR1 stays blocked until it returns. *)

HoldEnter(t) ==
  /\ sig[t] /\ ~held[t] /\ pc[t] \notin {"none", "gone"}
  /\ sig' = [sig EXCEPT ![t] = FALSE]
  /\ held' = [held EXCEPT ![t] = TRUE]
  /\ onHold' = TRUE
  /\ UNCHANGED <<keepalive, alive, working, queue, v, locks, bwait, iwait, pc, job, pauses, paused, ghosts>>

HoldLeave(t) ==
  /\ held[t] /\ ~onHold
  /\ held' = [held EXCEPT ![t] = FALSE]
  /\ UNCHANGED <<keepalive, onHold, alive, working, queue, v, locks, bwait, iwait, pc, job,
                 sig, pauses, paused, ghosts>>

-----------------------------------------------------------------------------
(* What another pool of the same process does to the two global flags.       *)

OtherDestroy ==
  /\ OtherPool /\ keepalive
  /\ keepalive' = FALSE
  /\ UNCHANGED <<alive, working, queue, v, locks, bwait, iwait, pc, job, signals, ghosts>>

OtherInit ==
  /\ OtherPool /\ (onHold \/ ~keepalive)
  /\ onHold' = FALSE /\ keepalive' = TRUE
  /\ UNCHANGED <<alive, working, queue, v, locks, bwait, iwait, pc, job, sig, held, pauses, paused, ghosts>>

\* POSIX lets both condition waits return without having been signalled.
SpuriousWakeup(p) ==
  /\ p \in bwait \cup iwait
  /\ bwait' = bwait \ {p} /\ iwait' = iwait \ {p}
  /\ UNCHANGED <<keepalive, alive, working, queue, v, locks, pc, job, signals, ghosts>>

\* The process goes on without the pool.
AfterFree ==
  /\ \E c \in Clients : pc[c] = "freed"
  /\ \A t \in Workers : pc[t] \in {"none", "gone"}
  /\ UNCHANGED vars

-----------------------------------------------------------------------------

\* Steps that wait for a mutex, and the steps of a thread that waits for none.
WorkerLock(t) ==
  /\ ~held[t]
  /\ bsem_wait(t) \/ AliveInc(t) \/ WorkingInc(t) \/ jobqueue_pull(t) \/ PullPost(t)
       \/ WorkingDec(t) \/ AliveDec(t)

WorkerRun(t) ==
  /\ ~held[t]
  /\ LoopTest(t) \/ KeepaliveTest(t) \/ RunJob(t)
       \/ UnlockCount(t) \/ UnlockSem(t) \/ UnlockQueue(t)

ClientLock(c) == jobqueue_push(c) \/ PushPost(c) \/ WaitLock(c) \/ DestroyPost(c)

ClientRun(c) ==
  \/ WaitReadLen(c) \/ WaitReadWorking(c) \/ DestroyFree(c)
  \/ UnlockCount(c) \/ UnlockSem(c) \/ UnlockQueue(c)

ClientCall(c) ==
  \/ thpool_add_work(c) \/ thpool_wait(c) \/ thpool_destroy(c)
  \/ thpool_pause(c) \/ thpool_resume(c)

Next ==
  \/ InitReturn
  \/ \E t \in Workers : WorkerLock(t) \/ WorkerRun(t) \/ HoldEnter(t) \/ HoldLeave(t)
  \/ \E c \in Clients : ClientLock(c) \/ ClientRun(c) \/ ClientCall(c)
  \/ \E p \in Procs : SpuriousWakeup(p)
  \/ OtherDestroy \/ OtherInit
  \/ AfterFree

Spec == Init /\ [][Next]_vars

\* Every runnable thread keeps running, a pending signal is delivered, and a
\* thread that finds its mutex free again and again eventually takes it.  No
\* client is obliged to make a call.
Fairness ==
  /\ WF_vars(InitReturn)
  /\ \A t \in Workers : /\ SF_vars(WorkerLock(t)) /\ WF_vars(WorkerRun(t))
                        /\ WF_vars(HoldEnter(t)) /\ WF_vars(HoldLeave(t))
  /\ \A c \in Clients : SF_vars(ClientLock(c)) /\ WF_vars(ClientRun(c))

FairSpec == Spec /\ Fairness
-----------------------------------------------------------------------------
(* Properties.                                                                *)

TypeOK ==
  /\ keepalive \in BOOLEAN /\ onHold \in BOOLEAN /\ paused \in BOOLEAN
  /\ alive \in Int /\ working \in Int /\ pauses \in 0..MaxPause
  /\ queue \in Seq(Jobs) /\ v \in {0, 1}
  /\ tc \in Procs \cup {None} /\ rw \in Procs \cup {None} /\ bm \in Procs \cup {None}
  /\ bwait \subseteq Workers /\ iwait \subseteq Clients
  /\ pc \in [Procs -> WorkerPC \cup ClientPC]
  /\ \A t \in Workers : pc[t] \in WorkerPC
  /\ \A c \in Clients : pc[c] \in ClientPC
  /\ job \in [Procs -> Jobs \cup {None}]
  /\ sig \in [Workers -> BOOLEAN] /\ held \in [Workers -> BOOLEAN]
  /\ added \subseteq Jobs /\ done \subseteq Jobs /\ dropped \subseteq Jobs
  /\ snap \in [Clients -> SUBSET Jobs]

\* The workers counted by num_threads_alive and by num_threads_working.
AlivePC == WorkerPC \ {"none", "start", "exit_u", "gone"}
WorkingPC == {"inc_u", "pull", "pull_post", "pull_post_u", "pull_u", "run", "dec"}

Queued == {queue[i] : i \in DOMAIN queue}
Carried == {job[p] : p \in Procs} \ {None}

\* When thpool_wait leaves its loop, every job that was in the pool when it was
\* called has finished, although jobqueue.len is read without rwmutex and
\* num_threads_working is read after it: a worker counts itself as working
\* before it pulls, and stops counting itself only after the job's function.
WaitSound == \A c \in Clients : pc[c] = "wait_u" => snap[c] \subseteq done

\* A job handed to thpool_add_work is, at every moment, in exactly one place:
\* once in the queue, in the hands of one thread, finished, or dropped by
\* thpool_destroy.  It is never lost, never run twice, and never both run and
\* dropped, whatever the interleaving of push, pull and destroy.
JobsConserved ==
  /\ added = Queued \cup Carried \cup done \cup dropped
  /\ Queued \cap Carried = {} /\ Queued \cap done = {} /\ Queued \cap dropped = {}
  /\ Carried \cap done = {} /\ Carried \cap dropped = {} /\ done \cap dropped = {}
  /\ \A i, k \in DOMAIN queue : queue[i] = queue[k] => i = k
  /\ \A p, q \in Procs : job[p] = job[q] /\ job[p] # None => p = q

\* A queued job has a token, or a thread that carries one to jobqueue_pull ...
TokenForJob ==
  queue # <<>> =>
    \/ v = 1
    \/ \E t \in Workers : pc[t] \in {"bsem_u", "check", "inc", "inc_u", "pull", "pull_post"}
    \/ \E c \in Clients : pc[c] = "post"

\* ... and a token has a serving worker that is awake to take it.
WorkerForToken ==
  v = 1 /\ NumThreads > 0 =>
    \E t \in Workers : t \notin bwait /\ pc[t] \in AlivePC \ {"exit"}

\* The binary semaphore forgets how often it was posted, so a pull that leaves
\* jobs behind posts again: while this pool is kept alive (and no other pool
\* touches the flags) no queued job is left with every worker asleep.
NoLostWakeup == keepalive /\ ~OtherPool => TokenForJob /\ WorkerForToken

\* thpool_destroy frees the pool only after every worker has left its loop for
\* good: no job is running and none is counted as working.
FreeAfterLastExit ==
  (\E c \in Clients : pc[c] = "freed") =>
    working = 0 /\ \A t \in Workers : pc[t] \in {"exit_u", "gone"} /\ job[t] = None

\* thpool_wait returns once the clients stop adding jobs: the worker that brings
\* num_threads_working to 0 signals the waiter.
WaitReturns == \A c \in Clients : (pc[c] = "wait") ~> (pc[c] = "idle")

\* thpool_destroy returns: repeating bsem_post_all gets the workers out one by
\* one, although each broadcast leaves a single token.
DestroyReturns == \A c \in Clients : (pc[c] = "destroy") ~> (pc[c] = "freed")
-----------------------------------------------------------------------------
(* The inductive invariant behind the safety properties.                      *)

CountPC == {"start_u", "inc_u", "dec_u", "exit_u", "wait_len", "wait_num", "wait_u"}
QueuePC == {"pull_post", "pull_post_u", "pull_u", "post", "post_u", "push_u"}
SemPC == {"bsem_u", "pull_post_u", "post_u", "destroy_u"}

\* A mutex is owned exactly by the thread inside its critical section.
LockInv ==
  \A p \in Procs : /\ (pc[p] \in CountPC) <=> (tc = p)
                   /\ (pc[p] \in QueuePC) <=> (rw = p)
                   /\ (pc[p] \in SemPC) <=> (bm = p)

\* A thread has a job only between taking it over and handing it on.
CarryInv ==
  /\ \A t \in Workers :
       /\ job[t] # None => pc[t] \in {"pull_post", "pull_post_u", "pull_u", "run"}
       /\ pc[t] = "run" => job[t] # None
  /\ \A c \in Clients : (job[c] # None) <=> (pc[c] = "push")

\* The two counters count what they are named after.
CountInv ==
  /\ alive = Cardinality({t \in Workers : pc[t] \in AlivePC})
  /\ working = Cardinality({t \in Workers : pc[t] \in WorkingPC})

\* What a client inside thpool_wait has established so far.
SnapInv ==
  \A c \in Clients :
    /\ pc[c] \in {"wait", "wait_c", "wait_len"} => snap[c] \subseteq InPool
    /\ pc[c] = "wait_num" => snap[c] \subseteq done \cup {job[t] : t \in Workers}
    /\ pc[c] = "wait_u" => snap[c] \subseteq done

\* The phases of the pool's life: before thpool_init returns nobody posts, after
\* it every thread has started, and thpool_destroy is alone with the workers.
PhaseInv ==
  /\ \A c, d \in Clients : pc[c] = "init" => pc[d] = "init"
  /\ (\A c \in Clients : pc[c] = "init") =>
       /\ v = 0 /\ queue = <<>>
       /\ \A t \in Workers : pc[t] \in {"none", "start", "start_u", "loop", "bsem", "bsem_c",
                                        "exit", "exit_u", "gone"}
  /\ (\E c \in Clients : pc[c] # "init") => \A t \in Workers : pc[t] \notin {"none", "start"}
  /\ \A c, d \in Clients : pc[c] \in {"destroy", "destroy_u", "freed"} /\ c # d => pc[d] = "left"
  /\ \A c \in Clients : pc[c] = "freed" => \A t \in Workers : pc[t] \in {"exit_u", "gone"}
  /\ ~OtherPool /\ keepalive =>
       /\ \A c \in Clients : pc[c] \notin {"destroy", "destroy_u", "freed"}
       /\ \A t \in Workers : pc[t] \notin {"exit", "exit_u", "gone"}

Inv == TypeOK /\ LockInv /\ CarryInv /\ CountInv /\ SnapInv /\ PhaseInv
         /\ JobsConserved /\ NoLostWakeup
=============================================================================
