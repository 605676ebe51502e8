------------------------------ MODULE Containers ------------------------------
(***************************************************************************)
(* The queues, arrays, ring buffers and heaps of src/container, one at a   *)
(* time: a behaviour is about one of them, box, and the others keep their  *)
(* initial state.                                                          *)
(***************************************************************************)
EXTENDS Box, Queue, RingBuf

CONSTANTS ArrayInitSize, ArraySizes, MaxArray,    \* of DynArray
          Node, Key                               \* of TimerHeap

VARIABLES arrPtr, arrSize, arrMax,
          heap, key, in

arrayVars == <<arrPtr, arrSize, arrMax>>
heapVars == <<heap, key, in>>
containerVars == <<queueVars, ringVars, arrayVars, heapVars>>

Array == INSTANCE DynArray WITH ptr <- arrPtr, size <- arrSize, maxsize <- arrMax,
                                InitSize <- ArrayInitSize, Sizes <- ArraySizes, MaxLen <- MaxArray
Heap == INSTANCE TimerHeap

ContainersInit ==
  /\ QueueInit /\ RingInit /\ Array!Init /\ Heap!Init
  /\ box # "queue" => maxsize = 0
  /\ box # "array" => arrMax = 0
  /\ box # "heap" => key = [n \in Node |-> CHOOSE k \in Key : TRUE]

ContainersNext ==
  \/ box = "queue" /\ QueueNext /\ UNCHANGED <<ringVars, arrayVars, heapVars>>
  \/ box = "ring" /\ RingNext /\ UNCHANGED <<queueVars, arrayVars, heapVars>>
  \/ box = "array" /\ Array!Next /\ UNCHANGED <<queueVars, ringVars, heapVars>>
  \/ box = "heap" /\ Heap!Next /\ UNCHANGED <<queueVars, ringVars, arrayVars>>
-----------------------------------------------------------------------------
\* The elements of queue.h and array.h lie inside their blocks, the bytes of
\* ringbuf.c between its pointers, and the pointers of heap.h form the complete
\* tree of its nodes.
ContainersSound ==
  CASE box = "queue" -> QueueInside
    [] box = "ring" -> RingInv
    [] box = "array" -> Array!InBlock
    [] box = "heap" -> Heap!TreeComplete
    [] OTHER -> TRUE
=============================================================================
