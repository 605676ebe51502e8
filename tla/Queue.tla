--------------------------------- MODULE Queue ---------------------------------
(***************************************************************************)
(* QUEUE_DECL of src/container/queue.h: a queue in a block of memory with  *)
(* the elements at ptr[_offset] .. ptr[_offset + size - 1].  It holds the  *)
(* posted events of a loop and the unsent buffers of an io.                *)
(***************************************************************************)
EXTENDS Naturals, Sequences

CONSTANTS Value, Zero,  \* the elements, and the one whose bytes are all zero
          QueueInitSize,     \* QUEUE_INIT_SIZE
          QueueSizes,        \* the sizes queues are created with
          MaxQueue        \* bound on the number of elements

ASSUME QueueAssumption ==
  /\ Zero \in Value /\ QueueInitSize \in Nat \ {0} /\ QueueSizes \subseteq Nat /\ MaxQueue \in Nat

VARIABLES ptr, size, maxsize, _offset

queueVars == <<ptr, size, maxsize, _offset>>

QueueInit ==
  /\ maxsize \in QueueSizes /\ size = 0 /\ _offset = 0
  /\ ptr = [i \in 0 .. maxsize - 1 |-> Zero]

\* Mutant: the elements are moved from the start of the block.
push_backMovesStart(x) ==
  LET grow == size = maxsize
      move == ~grow /\ _offset + size = maxsize
      max  == IF ~grow THEN maxsize ELSE IF maxsize = 0 THEN QueueInitSize ELSE 2 * maxsize
      off  == IF move THEN 0 ELSE _offset
  IN
  /\ size < MaxQueue
  /\ maxsize' = max /\ _offset' = off /\ size' = size + 1
  /\ ptr' = [i \in 0 .. max - 1 |->
               IF i = off + size THEN x
               ELSE IF move /\ i < size THEN ptr[i]
               ELSE IF i < maxsize THEN ptr[i] ELSE Zero]

\* A full block is doubled, its new part zeroed; in a block that is full only at
\* its end the elements are moved to the front.
push_back(x) ==
  LET grow == size = maxsize
      move == ~grow /\ _offset + size = maxsize
      max  == IF ~grow THEN maxsize ELSE IF maxsize = 0 THEN QueueInitSize ELSE 2 * maxsize
      off  == IF move THEN 0 ELSE _offset
  IN
  /\ size < MaxQueue
  /\ maxsize' = max /\ _offset' = off /\ size' = size + 1
  /\ ptr' = [i \in 0 .. max - 1 |->
               IF i = off + size THEN x
               ELSE IF move /\ i < size THEN ptr[i + _offset]
               ELSE IF i < maxsize THEN ptr[i] ELSE Zero]

pop_front ==
  /\ size > 0 /\ size' = size - 1
  /\ _offset' = IF _offset + 1 = maxsize THEN 0 ELSE _offset + 1
  /\ UNCHANGED <<ptr, maxsize>>

pop_back == size > 0 /\ size' = size - 1 /\ UNCHANGED <<ptr, maxsize, _offset>>

\* clear, and cleanup followed by a use of the queue.
clear ==
  /\ size' = 0 /\ _offset' = 0 /\ maxsize' \in {maxsize, 0}
  /\ ptr' = [i \in 0 .. maxsize' - 1 |-> Zero]

QueueNext == (\E x \in Value : push_back(x)) \/ pop_front \/ pop_back \/ clear

QueueSpec == QueueInit /\ [][QueueNext]_queueVars

-----------------------------------------------------------------------------
\* The elements lie inside the block, so that no operation reads or writes
\* outside it (push_back writes at _offset + size, pop_front moves _offset).
QueueInside ==
  /\ size \in Nat /\ maxsize \in Nat /\ _offset \in Nat
  /\ _offset + size <= maxsize
  /\ ptr \in [0 .. maxsize - 1 -> Value]

content == [i \in 1 .. size |-> ptr[_offset + i - 1]]

QueueList == INSTANCE ListSpec WITH items <- content

\* Through growth, moves and the wrap of _offset the queue is a first-in
\* first-out list: no element is lost, doubled or overtaken.
ImplementsFifo == QueueList!FifoSpec
=============================================================================
