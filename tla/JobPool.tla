------------------------------- MODULE JobPool -------------------------------
(***************************************************************************)
(* What a pool of Size threads promises to its clients, with no thread,    *)
(* mutex or semaphore in sight: jobs start in the order they were added,   *)
(* at most Size of them at a time, each one once; a wait ends only when    *)
(* every job the pool knew of at the call is finished; a closed pool       *)
(* discards what has not started once nothing runs any more.               *)
(***************************************************************************)
EXTENDS Naturals, Sequences, FiniteSets

CONSTANTS Size, Jobs, Clients

VARIABLES pending,   \* the jobs not started yet, oldest first
          running, finished, discarded,
          waiting,   \* the clients inside a wait
          awaited,   \* what each of them waits for
          open       \* the pool has not been closed

vars == <<pending, running, finished, discarded, waiting, awaited, open>>

Pending == {pending[i] : i \in DOMAIN pending}
Known == Pending \cup running \cup finished \cup discarded

Init ==
  /\ pending = <<>> /\ running = {} /\ finished = {} /\ discarded = {}
  /\ waiting = {} /\ awaited = [c \in Clients |-> {}]
  /\ open = TRUE

Add(j) ==
  /\ open /\ j \notin Known
  /\ pending' = Append(pending, j)
  /\ UNCHANGED <<running, finished, discarded, waiting, awaited, open>>

Start ==
  /\ pending # <<>> /\ Cardinality(running) < Size
  /\ running' = running \cup {Head(pending)}
  /\ pending' = Tail(pending)
  /\ UNCHANGED <<finished, discarded, waiting, awaited, open>>

Finish(j) ==
  /\ j \in running
  /\ running' = running \ {j} /\ finished' = finished \cup {j}
  /\ UNCHANGED <<pending, discarded, waiting, awaited, open>>

WaitCall(c) ==
  /\ open /\ c \notin waiting
  /\ waiting' = waiting \cup {c}
  /\ awaited' = [awaited EXCEPT ![c] = Known]
  /\ UNCHANGED <<pending, running, finished, discarded, open>>

WaitReturn(c) ==
  /\ c \in waiting /\ awaited[c] \subseteq finished
  /\ waiting' = waiting \ {c}
  /\ awaited' = [awaited EXCEPT ![c] = {}]
  /\ UNCHANGED <<pending, running, finished, discarded, open>>

Close ==
  /\ open /\ waiting = {}
  /\ open' = FALSE
  /\ UNCHANGED <<pending, running, finished, discarded, waiting, awaited>>

Discard ==
  /\ ~open /\ running = {}
  /\ discarded' = discarded \cup Pending /\ pending' = <<>>
  /\ UNCHANGED <<running, finished, waiting, awaited, open>>

Next ==
  \/ \E j \in Jobs : Add(j) \/ Finish(j)
  \/ \E c \in Clients : WaitCall(c) \/ WaitReturn(c)
  \/ Start \/ Close \/ Discard

Spec == Init /\ [][Next]_vars

\* A job that can start does, and a job that runs finishes.
FairSpec == Spec /\ WF_vars(Start) /\ \A j \in Jobs : WF_vars(Finish(j))
=============================================================================
