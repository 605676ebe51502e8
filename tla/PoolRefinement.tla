---------------------------- MODULE PoolRefinement ----------------------------
(***************************************************************************)
(* thpool.c implements JobPool.  A job is added when jobqueue_push links   *)
(* it, starts when jobqueue_pull unlinks it, and finishes when its         *)
(* function has returned; a wait returns when thpool_wait has read both    *)
(* parts of its condition as zero; the pool closes when thpool_destroy     *)
(* clears threads_keepalive.                                               *)
(***************************************************************************)
EXTENDS ThreadPool

WaitPC == {"wait", "wait_c", "wait_len", "wait_num"}

Abstract == INSTANCE JobPool WITH
  Size <- NumThreads,
  pending <- queue,
  running <- {job[t] : t \in Workers} \ {None},
  finished <- done,
  discarded <- dropped,
  waiting <- {c \in Clients : pc[c] \in WaitPC},
  awaited <- [c \in Clients |-> IF pc[c] \in WaitPC THEN snap[c] ELSE {}],
  open <- \A c \in Clients : pc[c] \notin {"destroy", "destroy_u", "freed"}

\* The pool's threads, counters and semaphore implement the abstract pool: FIFO
\* start, no more jobs at a time than threads, waits that end only when the
\* awaited jobs have finished, and every job started and finished eventually.
ImplementsJobPool == Abstract!FairSpec

\* The safety part of the same, which also holds when threads are paused, when
\* some could not be created, and when another pool changes the global flags.
ImplementsSafely == Abstract!Spec
=============================================================================
