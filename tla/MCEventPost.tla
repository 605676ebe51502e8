------------------------------ MODULE MCEventPost ------------------------------
\* Threads and their calls for TLC: two threads post three events, the callback
\* of the first posts a third, and one of the threads pauses, resumes and stops the loop.
EXTENDS EventPost, TLC

CONSTANTS t1, t2, e1, e2, e3, e4

FollowOne == [e \in Events |-> IF e = e1 THEN e3 ELSE None]
PostAndControl == (t1 :> {e1, e4}) @@ (t2 :> {e2, "pause", "resume", "stop"})
FollowNone == [e \in Events |-> None]
PostAndStop == (t1 :> {e1}) @@ (t2 :> {"stop"})
=============================================================================
