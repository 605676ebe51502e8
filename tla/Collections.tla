------------------------------ MODULE Collections ------------------------------
(***************************************************************************)
(* Every structure of src/container that is modelled, each by itself: a    *)
(* behaviour picks one, box, and makes any sequence of calls on it.        *)
(***************************************************************************)
EXTENDS Containers, Tables

vars == <<box, containerVars, tableVars>>

Init == box \in Boxes /\ ContainersInit /\ TablesInit

Next ==
  /\ UNCHANGED box
  /\ \/ ContainersNext /\ UNCHANGED tableVars
     \/ TablesNext /\ UNCHANGED containerVars

Spec == Init /\ [][Next]_vars
-----------------------------------------------------------------------------

\* What is looked for is found: the root of heap.h is one of the earliest timers,
\* the walks and searches of openbsd_tree.c are those of the ordered set of its
\* nodes, and skiplist_first_value finds the first node of a key.
SearchesFind == Heap!RootEarliest /\ Tree!OrderedSet /\ Skip!SearchFinds

\* The calls of array.h, through growth and moves, and of linklist.c act on a
\* sequence; listnode_add_sort keeps a sorted one sorted and is stable.
ListsAreSequences == Array!ImplementsList /\ Linked!IsSequence /\ Linked!SortedStays
=============================================================================
