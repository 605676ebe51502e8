-------------------------------- MODULE Vector --------------------------------
(***************************************************************************)
(* The vector of pointers of src/container/vector.c: alloced slots, of     *)
(* which active are in use, count of them not NULL.  Slots are counted     *)
(* from 0, as in the code.                                                 *)
(***************************************************************************)
EXTENDS Integers, FiniteSets

CONSTANTS Value, NULL,
          InitSizes,    \* the sizes asked of vector_init
          MaxSlot       \* the highest slot a caller asks for

VARIABLES vec, op

vars == <<vec, op>>

Slots(v) == DOMAIN v.index
Alloced(v) == Cardinality(Slots(v))

\* vector_init
Init ==
  /\ \E size \in InitSizes :
       vec = [index |-> [i \in 0 .. (IF size = 0 THEN 1 ELSE size) - 1 |-> NULL],
              active |-> 0, count |-> 0]
  /\ op = [call |-> "vector_init", slot |-> 0]

RECURSIVE vector_ensure(_, _)
vector_ensure(v, num) ==
  IF Alloced(v) > num THEN v
  ELSE vector_ensure([v EXCEPT !.index = [i \in 0 .. 2 * Alloced(v) - 1 |->
                                            IF i \in Slots(v) THEN v.index[i] ELSE NULL]], num)

vector_empty_slotEnd(v) == v.active

vector_empty_slot(v) ==
  LET holes == {i \in 0 .. v.active - 1 : v.index[i] = NULL}
  IN IF v.active = v.count \/ holes = {} THEN v.active
     ELSE CHOOSE i \in holes : \A j \in holes : i <= j

\* The tail of vector_set and vector_set_index, in a vector that has slot i.
Store(v, i, val) ==
  [v EXCEPT !.index[i] = val,
            !.count = @ - (IF v.index[i] # NULL THEN 1 ELSE 0) + (IF val # NULL THEN 1 ELSE 0),
            !.active = IF @ <= i THEN i + 1 ELSE @]

vector_set(val) ==
  LET i == vector_empty_slot(vec)
  IN vec' = Store(vector_ensure(vec, i), i, val) /\ op' = [call |-> "vector_set", slot |-> i]

\* vector_set_index, and vector_push for i = active
vector_set_index(i, val) ==
  vec' = Store(vector_ensure(vec, i), i, val) /\ op' = [call |-> "vector_set_index", slot |-> i]

vector_insert(i, val) ==
  LET v == vector_ensure(vec, vec.active)
  IN /\ vec' = IF i > vec.active THEN vec
               ELSE [v EXCEPT !.index = [j \in Slots(v) |-> IF j < i \/ j > v.active THEN v.index[j]
                                                            ELSE IF j = i THEN val ELSE v.index[j - 1]],
                              !.count = IF val # NULL THEN @ + 1 ELSE @,
                              !.active = @ + 1]
     /\ op' = [call |-> "vector_insert", slot |-> i]

vector_get_ensure(i) == vec' = vector_ensure(vec, i) /\ op' = [call |-> "vector_get_ensure", slot |-> i]

\* The loop of vector_unset and vector_unset_value: the end of the vector goes
\* back over empty slots, to slot 0 at most.
Trimmed(v, i) ==
  LET full == {j \in 0 .. i - 1 : v.index[j] # NULL}
  IN IF full = {} THEN 0 ELSE (CHOOSE j \in full : \A k \in full : k <= j) + 1

vector_unset(i) ==
  LET v == [vec EXCEPT !.index[i] = NULL, !.count = IF vec.index[i] # NULL THEN @ - 1 ELSE @]
  IN /\ vec' = IF i >= Alloced(vec) THEN vec
               ELSE IF i + 1 = v.active THEN [v EXCEPT !.active = Trimmed(v, i)] ELSE v
     /\ op' = [call |-> "vector_unset", slot |-> i]

\* vector_remove, and vector_pop for the last slot
Removed(v, ix) ==
  [v EXCEPT !.index = [j \in Slots(v) |-> IF j < ix \/ j >= v.active THEN v.index[j]
                                          ELSE IF j = v.active - 1 THEN NULL ELSE v.index[j + 1]],
            !.count = IF v.index[ix] # NULL THEN @ - 1 ELSE @,
            !.active = @ - 1]

vector_remove(ix) ==
  /\ vec' = IF ix >= vec.active THEN vec ELSE Removed(vec, ix)
  /\ op' = [call |-> "vector_remove", slot |-> ix]

RECURSIVE Compacted(_, _)
Compacted(v, i) ==
  IF i >= v.active THEN v
  ELSE IF v.index[i] = NULL THEN Compacted(Removed(v, i), i) ELSE Compacted(v, i + 1)

vector_compact == vec' = Compacted(vec, 0) /\ op' = [call |-> "vector_compact", slot |-> 0]

vector_unset_value(val) ==
  LET with == {i \in 0 .. vec.active - 1 : vec.index[i] = val}
      i == CHOOSE i \in with : \A j \in with : i <= j
      v == [vec EXCEPT !.index[i] = NULL, !.count = @ - 1]
  IN /\ vec' = IF with = {} THEN vec
               ELSE IF i + 1 = v.active THEN [v EXCEPT !.active = Trimmed(v, i)] ELSE v
     /\ op' = [call |-> "vector_unset_value", slot |-> 0]

\* vector_reverse: vector_swap of each slot below the middle with its mirror
vector_reverse ==
  /\ vec' = [vec EXCEPT !.index = [j \in Slots(vec) |->
                                     IF j < vec.active THEN vec.index[vec.active - 1 - j] ELSE vec.index[j]]]
  /\ op' = [call |-> "vector_reverse", slot |-> 0]

Next ==
  \/ \E val \in Value \cup {NULL} :
       \/ vec.active <= MaxSlot /\ vector_set(val)
       \/ \E i \in 0 .. MaxSlot : \/ vector_set_index(i, val)
                                  \/ vec.active <= MaxSlot /\ vector_insert(i, val)
  \/ \E val \in Value : vector_unset_value(val)
  \/ \E i \in 0 .. MaxSlot : vector_get_ensure(i) \/ vector_unset(i) \/ vector_remove(i)
  \/ vector_compact \/ vector_reverse

Spec == Init /\ [][Next]_vars

-----------------------------------------------------------------------------
\* count is the number of slots in use that are not NULL, and every allocated
\* slot from active on is NULL.  vector_empty_slot takes count for the first,
\* vector_set_index and vector_get_ensure rely on the second.
CountExact ==
  /\ vec.active <= Alloced(vec)
  /\ vec.count = Cardinality({i \in 0 .. vec.active - 1 : vec.index[i] # NULL})
  /\ \A i \in Slots(vec) : i >= vec.active => vec.index[i] = NULL

\* vector.c on vector_set: "Set value to the smallest empty slot."
SmallestSlot ==
  [][ op'.call = "vector_set"
      => \A i \in 0 .. op'.slot : i \in Slots(vec) => (vec.index[i] = NULL <=> i = op'.slot) ]_vars
=============================================================================
