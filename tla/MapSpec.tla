------------------------------- MODULE MapSpec -------------------------------
(***************************************************************************)
(* What the hash tables of src/container promise: a map from names to      *)
(* values.  A call and what it returned are recorded in out, so that an    *)
(* implementation is held to its answers and not only to its contents.     *)
(***************************************************************************)
CONSTANTS Name, Value, NULL
VARIABLES entries, out

Stored(n) == IF n \in DOMAIN entries THEN entries[n] ELSE NULL
With(n, v) == [m \in DOMAIN entries \cup {n} |-> IF m = n THEN v ELSE entries[m]]
Without(n) == [m \in DOMAIN entries \ {n} |-> entries[m]]

Answer(call, n, v) == out' = [call |-> call, name |-> n, got |-> v]

Init == entries = [n \in {} |-> NULL] /\ out = [call |-> "new", name |-> NULL, got |-> NULL]

Get(n) == Answer("get", n, Stored(n)) /\ UNCHANGED entries

\* The value already stored wins.
Intern(n, v) ==
  LET kept == IF n \in DOMAIN entries THEN entries[n] ELSE v
  IN Answer("intern", n, kept) /\ entries' = With(n, kept)

\* The new value wins, the one it replaces is returned.
Put(n, v) == Answer("put", n, Stored(n)) /\ entries' = With(n, v)

Remove(n) == Answer("remove", n, Stored(n)) /\ entries' = Without(n)

\* No memory: a call that would store a new value changes nothing.
NoMemory(n) == Answer("nomem", n, NULL) /\ UNCHANGED entries

Clear == Answer("clear", NULL, NULL) /\ entries' = [n \in {} |-> NULL]

Next ==
  \/ UNCHANGED <<entries, out>>
  \/ \E n \in Name : Get(n) \/ Remove(n) \/ NoMemory(n) \/ \E v \in Value : Intern(n, v) \/ Put(n, v)
  \/ Clear

Spec == Init /\ [][Next]_<<entries, out>>
=============================================================================
