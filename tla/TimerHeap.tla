------------------------------- MODULE TimerHeap -------------------------------
(***************************************************************************)
(* src/container/heap.h, the heap of timers of an event loop: a binary     *)
(* tree of nodes with pointers to parent and children, whose last node is  *)
(* found by the bits of the number of nodes.  An operation is a function   *)
(* from heaps to heaps that follows the pointer assignments of the code;   *)
(* the calls are those of eventloop.c.                                     *)
(***************************************************************************)
EXTENDS Integers, Sequences, FiniteSets

CONSTANTS Node, NULL,
          Key       \* the values of next_timeout

VARIABLES heap,     \* the root, the number of nodes, and the pointers of every node
          key,      \* next_timeout of every node
          in        \* the timers the event loop has inserted and not removed

vars == <<heap, key, in>>

NoNodes == [n \in Node |-> NULL]

Init ==
  /\ heap = [root |-> NULL, nelts |-> 0, parent |-> NoNodes, left |-> NoNodes, right |-> NoNodes]
  /\ key \in [Node -> Key]
  /\ in = {}

\* The child pointer of p that leads to c leads to r instead.
Relink(h, p, c, r) ==
  IF p = NULL THEN [h EXCEPT !.root = r]
  ELSE IF h.left[p] = c THEN [h EXCEPT !.left[p] = r]
  ELSE IF h.right[p] = c THEN [h EXCEPT !.right[p] = r] ELSE h

\* n->parent = p, unless n is NULL.
SetParent(h, n, p) == IF n = NULL THEN h ELSE [h EXCEPT !.parent[n] = p]

heap_replace(h, s, r) ==
  LET linked == Relink(h, h.parent[s], s, r)
      adopted == SetParent(SetParent(linked, linked.left[s], r), linked.right[s], r)
  IN [adopted EXCEPT !.parent[r] = adopted.parent[s], !.left[r] = adopted.left[s], !.right[r] = adopted.right[s]]

heap_swap(h, p, c) ==
  LET linked  == Relink(h, h.parent[p], p, c)
      adopted == SetParent(SetParent(linked, h.left[c], p), h.right[c], p)
      isLeft  == h.left[p] = c
      sibling == IF isLeft THEN h.right[p] ELSE h.left[p]
      turned  == SetParent([adopted EXCEPT !.parent[c] = h.parent[p],
                                           !.left[c] = IF isLeft THEN p ELSE sibling,
                                           !.right[c] = IF isLeft THEN sibling ELSE p], sibling, c)
  IN [turned EXCEPT !.parent[p] = c, !.left[p] = h.left[c], !.right[p] = h.right[c]]

\* timers_compare: next_timeout, strictly.
Less(k, m, n) == k[m] < k[n]

RECURSIVE SiftUp(_, _, _)
SiftUp(h, k, n) ==
  IF h.parent[n] # NULL /\ Less(k, n, h.parent[n]) THEN SiftUp(heap_swap(h, h.parent[n], n), k, n) ELSE h

\* The child v is exchanged with; v itself when none comes before it.
Est(h, k, v) ==
  LET l == IF h.left[v] = NULL \/ Less(k, v, h.left[v]) THEN v ELSE h.left[v]
  IN  IF h.right[v] = NULL \/ Less(k, l, h.right[v]) THEN l ELSE h.right[v]

RECURSIVE SiftDown(_, _, _)
SiftDown(h, k, v) == IF Est(h, k, v) = v THEN h ELSE SiftDown(heap_swap(h, v, Est(h, k, v)), k, v)

\* The node at position p of the tree, counted from 1 level by level: the bits
\* of p below the first say left or right, from the root on.
RECURSIVE NodeAt(_, _)
NodeAt(h, p) ==
  IF p = 1 THEN h.root
  ELSE LET up == NodeAt(h, p \div 2) IN
       IF up = NULL THEN NULL ELSE IF p % 2 = 1 THEN h.right[up] ELSE h.left[up]

\* The parent of position p, and NULL for the root.
ParentAt(h, p) == IF p = 1 THEN NULL ELSE NodeAt(h, p \div 2)

heap_insert(h, k, n) ==
  LET last   == h.nelts + 1
      p      == ParentAt(h, last)
      placed == [h EXCEPT !.nelts = last, !.parent[n] = p]
      linked == IF p = NULL THEN [placed EXCEPT !.root = n]
                ELSE IF last % 2 = 1 THEN [placed EXCEPT !.right[p] = n] ELSE [placed EXCEPT !.left[p] = n]
  IN SiftUp(linked, k, n)

heap_remove(h, k, n) ==
  LET last  == NodeAt(h, h.nelts)
      fewer == [h EXCEPT !.nelts = @ - 1]
  IN
  IF h.nelts = 0 THEN h
  ELSE IF h.nelts = 1 THEN (IF h.root = n THEN [fewer EXCEPT !.root = NULL] ELSE fewer)
  ELSE LET p   == ParentAt(h, h.nelts)
           cut == IF h.nelts % 2 = 1 THEN [fewer EXCEPT !.right[p] = NULL] ELSE [fewer EXCEPT !.left[p] = NULL]
           out == [heap_replace(cut, n, last) EXCEPT !.parent[n] = NULL, !.left[n] = NULL, !.right[n] = NULL]
       IN SiftUp(SiftDown(out, k, last), k, last)

\* evtimer_add: a new timer with some deadline.
Insert(n, d) ==
  /\ n \notin in
  /\ key' = [key EXCEPT ![n] = d]
  /\ heap' = heap_insert(heap, key', n)
  /\ in' = in \cup {n}

\* evtimer_del, and the last call of a timer: any timer may be in the middle.
Remove(n) ==
  /\ n \in in
  /\ heap' = heap_remove(heap, key, n)
  /\ in' = in \ {n}
  /\ UNCHANGED key

\* evtimer_reset: the timer leaves with its old deadline and returns with another.
Reset(n, d) ==
  /\ n \in in
  /\ key' = [key EXCEPT ![n] = d]
  /\ heap' = heap_insert(heap_remove(heap, key, n), key', n)
  /\ UNCHANGED in

\* A timer that repeats: the root is dequeued and inserted with a later deadline.
Repeat(d) ==
  /\ heap.root # NULL /\ d > key[heap.root]
  /\ key' = [key EXCEPT ![heap.root] = d]
  /\ heap' = heap_insert(heap_remove(heap, key, heap.root), key', heap.root)
  /\ UNCHANGED in

Next ==
  \/ \E n \in Node : Remove(n) \/ \E d \in Key : Insert(n, d) \/ Reset(n, d)
  \/ \E d \in Key : Repeat(d)

Spec == Init /\ [][Next]_vars

-----------------------------------------------------------------------------
Positions == 1 .. heap.nelts

\* The pointers form the complete tree of the timers in the heap: each position
\* holds a timer of its own whose parent pointer agrees, below the last level
\* there is nothing, and a timer that left keeps no pointer into the heap.
TreeComplete ==
  /\ heap.nelts = Cardinality(in)
  /\ {NodeAt(heap, p) : p \in Positions} = in
  /\ \A p \in Positions : heap.parent[NodeAt(heap, p)] = ParentAt(heap, p)
  /\ \A p \in (heap.nelts + 1) .. (2 * heap.nelts + 1) : NodeAt(heap, p) = NULL
  /\ \A n \in Node \ in : heap.parent[n] = NULL /\ heap.left[n] = NULL /\ heap.right[n] = NULL

\* The root, the only timer that the loop looks at, is one of the earliest of
\* all timers, and so is every timer within its own subtree.
RootEarliest ==
  /\ heap.root = NULL <=> in = {}
  /\ in # {} => \A n \in in : key[heap.root] <= key[n]
  /\ \A n \in in : heap.parent[n] # NULL => key[heap.parent[n]] <= key[n]
=============================================================================
