------------------------------- MODULE ListSpec -------------------------------
(***************************************************************************)
(* What the array and queue macros of src/container promise: a list of     *)
(* values, with no capacity and no storage.                                *)
(***************************************************************************)
EXTENDS Naturals, Sequences, FiniteSets

CONSTANT Value
VARIABLE items

Init == items = <<>>

\* x becomes the element at pos, those from pos on move up.
Insert(pos, x) ==
  items' = [i \in 1 .. Len(items) + 1 |->
              IF i < pos THEN items[i] ELSE IF i = pos THEN x ELSE items[i - 1]]

\* The element at pos goes, those after it move down.
Delete(pos) ==
  items' = [i \in 1 .. Len(items) - 1 |-> IF i < pos THEN items[i] ELSE items[i + 1]]

\* The element at pos goes, the last one takes its place.
Replace(pos) ==
  items' = [i \in 1 .. Len(items) - 1 |-> IF i = pos THEN items[Len(items)] ELSE items[i]]

Swap(p, q) == items' = [items EXCEPT ![p] = items[q], ![q] = items[p]]

Clear == items' = <<>>

\* Reads: size, front, back, empty.
Look == UNCHANGED items

Next ==
  \/ Look
  \/ \E x \in Value, pos \in 1 .. Len(items) + 1 : Insert(pos, x)
  \/ \E pos \in 1 .. Len(items) : Delete(pos) \/ Replace(pos) \/ \E q \in 1 .. Len(items) : Swap(pos, q)
  \/ Clear

Spec == Init /\ [][Next]_items

-----------------------------------------------------------------------------
\* A first-in-first-out list: elements are added at the end.
FifoNext ==
  \/ Look
  \/ \E x \in Value : Insert(Len(items) + 1, x)
  \/ Len(items) > 0 /\ (Delete(1) \/ Delete(Len(items)))
  \/ Clear

FifoSpec == Init /\ [][FifoNext]_items

-----------------------------------------------------------------------------
\* A list that can also be sorted, and whose elements can be moved to its end.
MoveToEnd(pos) ==
  items' = [i \in DOMAIN items |-> IF i < pos THEN items[i]
                                   ELSE IF i < Len(items) THEN items[i + 1] ELSE items[pos]]

Sort ==
  /\ \A x \in Value : Cardinality({i \in DOMAIN items : items[i] = x})
                        = Cardinality({i \in DOMAIN items' : items'[i] = x})
  /\ \A i, j \in DOMAIN items' : i < j => items'[i] <= items'[j]

LinkedNext ==
  \/ Look
  \/ \E x \in Value, pos \in 1 .. Len(items) + 1 : Insert(pos, x)
  \/ \E pos \in 1 .. Len(items) : Delete(pos) \/ MoveToEnd(pos)
  \/ Clear \/ Sort

LinkedSpec == Init /\ [][LinkedNext]_items
=============================================================================
