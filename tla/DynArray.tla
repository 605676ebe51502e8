------------------------------- MODULE DynArray -------------------------------
(***************************************************************************)
(* ARRAY_DECL of src/container/array.h: the elements at ptr[0] ..          *)
(* ptr[size - 1] of a block that doubles.  Positions may be negative and   *)
(* then count from the end.                                                *)
(***************************************************************************)
EXTENDS Integers, Sequences

CONSTANTS Value, Zero,  \* the elements, and the one whose bytes are all zero
          InitSize,     \* ARRAY_INIT_SIZE
          Sizes,        \* the sizes arrays are created with and resized to
          MaxLen        \* bound on the number of elements

VARIABLES ptr, size, maxsize

vars == <<ptr, size, maxsize>>

Init == maxsize \in Sizes /\ size = 0 /\ ptr = [i \in 0 .. maxsize - 1 |-> Zero]

\* The position pos stands for.
At(pos) == IF pos < 0 THEN pos + size ELSE pos

\* The block after resize(n): ev_zrealloc keeps what fits and zeroes the rest.
Resized(n) == [i \in 0 .. n - 1 |-> IF i < maxsize THEN ptr[i] ELSE Zero]
Doubled == IF maxsize = 0 THEN InitSize ELSE 2 * maxsize

\* add; push_back is add at the end.  The assertion on pos is its guard.
add(x, pos) ==
  LET full == size = maxsize
      max  == IF full THEN Doubled ELSE maxsize
      p    == At(pos)
  IN
  /\ size < MaxLen /\ p \in 0 .. size
  /\ maxsize' = max /\ size' = size + 1
  /\ ptr' = [i \in 0 .. max - 1 |->
               IF i = p THEN x ELSE IF i > p /\ i <= size THEN Resized(max)[i - 1] ELSE Resized(max)[i]]

push_back(x) == add(x, size)

pop_back == size > 0 /\ size' = size - 1 /\ UNCHANGED <<ptr, maxsize>>

del(pos) ==
  /\ At(pos) \in 0 .. size - 1 /\ size' = size - 1
  /\ ptr' = [i \in 0 .. maxsize - 1 |-> IF i >= At(pos) /\ i < size - 1 THEN ptr[i + 1] ELSE ptr[i]]
  /\ UNCHANGED maxsize

del_nomove(pos) ==
  /\ At(pos) \in 0 .. size - 1 /\ size' = size - 1
  /\ ptr' = IF At(pos) < size - 1 THEN [ptr EXCEPT ![At(pos)] = ptr[size - 1]] ELSE ptr
  /\ UNCHANGED maxsize

\* swap has no assertion: callers pass positions inside the array.
swap(p, q) ==
  /\ At(p) \in 0 .. size - 1 /\ At(q) \in 0 .. size - 1
  /\ ptr' = [ptr EXCEPT ![At(p)] = ptr[At(q)], ![At(q)] = ptr[At(p)]]
  /\ UNCHANGED <<size, maxsize>>

\* resize is only used to grow (evio_get, evio_attach).
resize(n) ==
  LET max == IF n = 0 THEN InitSize ELSE n IN
  /\ n >= maxsize
  /\ maxsize' = max /\ ptr' = Resized(max) /\ UNCHANGED size

\* clear, and cleanup followed by a use of the array.
clear ==
  /\ size' = 0 /\ maxsize' \in {maxsize, 0}
  /\ ptr' = [i \in 0 .. maxsize' - 1 |-> Zero]

Positions == - size .. size

Next ==
  \/ \E x \in Value : push_back(x) \/ \E pos \in Positions : add(x, pos)
  \/ pop_back \/ clear
  \/ \E pos \in Positions : del(pos) \/ del_nomove(pos) \/ \E q \in Positions : swap(pos, q)
  \/ \E n \in Sizes : resize(n)

Spec == Init /\ [][Next]_vars

-----------------------------------------------------------------------------
\* The elements lie inside the block: add stores and moves up to ptr[size].
InBlock ==
  /\ size \in Nat /\ maxsize \in Nat /\ size <= maxsize
  /\ ptr \in [0 .. maxsize - 1 -> Value]

List == INSTANCE ListSpec WITH items <- [i \in 1 .. size |-> ptr[i - 1]]

\* The array is a list: positions counted from either end, growth and the moves
\* of add and del neither lose nor double an element.
ImplementsList == List!Spec
=============================================================================
