------------------------------- MODULE LinkList -------------------------------
(***************************************************************************)
(* The doubly linked list of src/container/linklist.c, at the level of its *)
(* pointers.  list is the struct with the links and the data of its nodes; *)
(* a node that is not in the list is free.  cmp tells whether the list was *)
(* made with a comparison function, and op is the last call.               *)
(***************************************************************************)
EXTENDS Integers, Sequences, FiniteSets, SequencesExt

CONSTANTS Node, NULL,
          Data          \* what is listed, as numbers, in the order of cmp

VARIABLES list, op

vars == <<list, op>>

Linked(l) == {n \in Node : l.data[n] # NULL}
Spare(l) == Node \ Linked(l)

\* list_new and list_create
Empty(cmp) == [head |-> NULL, tail |-> NULL, count |-> 0, cmp |-> cmp,
               prev |-> [n \in Node |-> NULL], next |-> [n \in Node |-> NULL],
               data |-> [n \in Node |-> NULL]]

Init == list \in {Empty(c) : c \in BOOLEAN} /\ op = "list_new"

\* listnode_new, in a list whose nodes the library allocates
Fresh(l) == CHOOSE n \in Spare(l) : TRUE

\* listnode_add, LISTNODE_ATTACH
Attach(l, n, d) ==
  LET a == [l EXCEPT !.data[n] = d, !.prev[n] = l.tail, !.next[n] = NULL,
                     !.tail = n, !.count = @ + 1]
  IN IF l.head = NULL THEN [a EXCEPT !.head = n] ELSE [a EXCEPT !.next[l.tail] = n]

\* n goes between p and q, either of which may be missing.
Between(l, n, d, p, q) ==
  LET after == IF p = NULL THEN [l EXCEPT !.head = n] ELSE [l EXCEPT !.next[p] = n]
      both == IF q = NULL THEN [after EXCEPT !.tail = n] ELSE [after EXCEPT !.prev[q] = n]
  IN [both EXCEPT !.data[n] = d, !.prev[n] = p, !.next[n] = q, !.count = @ + 1]

\* list_delete_node, LISTNODE_DETACH; the node is freed
Detach(l, n) ==
  LET p == l.prev[n] q == l.next[n]
      front == IF p = NULL THEN [l EXCEPT !.head = q] ELSE [l EXCEPT !.next[p] = q]
      both == IF q = NULL THEN [front EXCEPT !.tail = p] ELSE [front EXCEPT !.prev[q] = p]
  IN [both EXCEPT !.data[n] = NULL, !.prev[n] = NULL, !.next[n] = NULL, !.count = @ - 1]

listnode_add(d) == list' = Attach(list, Fresh(list), d)

listnode_add_head(d) == list' = Between(list, Fresh(list), d, NULL, list.head)

\* The nodes from n on.
RECURSIVE From(_, _)
From(l, n) == IF n = NULL THEN <<>> ELSE <<n>> \o From(l, l.next[n])

Nodes(l) == From(l, l.head)

Place(s, n) == SelectInSeq(s, LAMBDA m : m = n)

\* The first node whose data is greater than d, in a list with a cmp.
Greater(l, d) ==
  LET s == SelectSeq(Nodes(l), LAMBDA n : l.data[n] > d)
  IN IF l.cmp /\ s # <<>> THEN s[1] ELSE NULL

listnode_add_sort(d) ==
  LET n == Greater(list, d)
  IN list' = IF n # NULL THEN Between(list, Fresh(list), d, list.prev[n], n)
             ELSE Between(list, Fresh(list), d, list.tail, NULL)

\* A node equal to d that comes before the first greater one refuses d.
listnode_add_sort_nodup(d) ==
  LET n == Greater(list, d)
      before == IF n = NULL THEN Nodes(list)
                ELSE SubSeq(Nodes(list), 1, Place(Nodes(list), n) - 1)
  IN list' = IF list.cmp /\ \E m \in Range(before) : list.data[m] = d THEN list
             ELSE IF n # NULL THEN Between(list, Fresh(list), d, list.prev[n], n)
             ELSE Attach(list, Fresh(list), d)

listnode_add_after(pp, d) ==
  list' = IF pp = NULL THEN Between(list, Fresh(list), d, NULL, list.head)
          ELSE Between(list, Fresh(list), d, pp, list.next[pp])

listnode_add_before(pp, d) ==
  list' = IF pp = NULL THEN Between(list, Fresh(list), d, list.tail, NULL)
          ELSE Between(list, Fresh(list), d, list.prev[pp], pp)

listnode_move_to_tail(n) == list' = Attach(Detach(list, n), n, list.data[n])

\* The else of the test for cmp belongs to the comparison inside it: without
\* a cmp no node is ever found.
listnode_lookup(l, d) ==
  LET s == SelectSeq(Nodes(l), LAMBDA n : l.data[n] = d)
  IN IF l.cmp /\ s # <<>> THEN s[1] ELSE NULL

listnode_delete(d) ==
  list' = IF listnode_lookup(list, d) = NULL THEN list ELSE Detach(list, listnode_lookup(list, d))

list_delete_node(n) == list' = Detach(list, n)

list_delete_all_node == list' = Empty(list.cmp)

list_sortShort ==
  LET items == SortSeq([i \in DOMAIN Nodes(list) |-> list.data[Nodes(list)[i]]], <)
  IN list' = FoldLeft(LAMBDA l, d : Attach(l, Fresh(l), d), Empty(list.cmp), Front(items))

\* All nodes go and the data comes back in order, in new nodes.
list_sort ==
  LET items == SortSeq([i \in DOMAIN Nodes(list) |-> list.data[Nodes(list)[i]]], <)
  IN list' = FoldLeft(LAMBDA l, d : Attach(l, Fresh(l), d), Empty(list.cmp), items)

Next ==
  \/ \E d \in Data :
       /\ Spare(list) # {}
       /\ \/ op' = "listnode_add" /\ listnode_add(d)
          \/ op' = "listnode_add_head" /\ listnode_add_head(d)
          \/ op' = "listnode_add_sort" /\ listnode_add_sort(d)
          \/ op' = "listnode_add_sort_nodup" /\ listnode_add_sort_nodup(d)
          \/ \E pp \in Linked(list) \cup {NULL} :
               \/ op' = "listnode_add_after" /\ listnode_add_after(pp, d)
               \/ op' = "listnode_add_before" /\ listnode_add_before(pp, d)
  \/ \E d \in Data : op' = "listnode_delete" /\ listnode_delete(d)
  \/ \E n \in Linked(list) :
       \/ op' = "listnode_move_to_tail" /\ listnode_move_to_tail(n)
       \/ op' = "list_delete_node" /\ list_delete_node(n)
  \/ op' = "list_delete_all_node" /\ list_delete_all_node
  \/ op' = "list_sort" /\ list_sort

Spec == Init /\ [][Next]_vars

-----------------------------------------------------------------------------
Items(l) == [i \in DOMAIN Nodes(l) |-> l.data[Nodes(l)[i]]]

\* The next links lead from head to tail over all nodes of the list, count of
\* them, and the prev links lead back over the same nodes, whatever mix of
\* insertions, moves, deletions and sorts came before.
DoublyLinked ==
  LET s == Nodes(list)
  IN /\ Len(s) = list.count /\ Range(s) = Linked(list)
     /\ list.head = IF s = <<>> THEN NULL ELSE s[1]
     /\ list.tail = IF s = <<>> THEN NULL ELSE s[Len(s)]
     /\ \A i \in DOMAIN s : list.prev[s[i]] = IF i = 1 THEN NULL ELSE s[i - 1]

AsList == INSTANCE ListSpec WITH Value <- Data, items <- Items(list)

\* Each call has one of the effects a sequence allows: one element comes in
\* or goes, one moves to the end, or all are sorted.
IsSequence == AsList!LinkedSpec

Sorted(s) == \A i, j \in DOMAIN s : i < j => s[i] <= s[j]

\* In a list with a comparison, listnode_add_sort puts a node in the order it
\* finds: a sorted list stays sorted, and the new node comes after its equals.
SortedStays ==
  [][ list.cmp /\ Sorted(Items(list)) /\ op' = "listnode_add_sort"
      => /\ Sorted(Items(list'))
         /\ \A m \in Linked(list), n \in Linked(list') \ Linked(list) :
              list'.data[m] = list'.data[n] => Place(Nodes(list'), m) < Place(Nodes(list'), n) ]_vars

\* linklist.h on listnode_lookup: "pointer to listnode storing the given data
\* if found, NULL otherwise".
LookupFinds ==
  \A d \in Data : (\E n \in Linked(list) : list.data[n] = d) => listnode_lookup(list, d) # NULL
=============================================================================
