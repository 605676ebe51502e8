------------------------------ MODULE QueueProofs ------------------------------
(***************************************************************************)
(* For every size a queue is created with, it stays inside its block and   *)
(* behaves as a first-in first-out list.                                   *)
(***************************************************************************)
EXTENDS Queue, TLAPS

\* QueueInside is inductive: the three cases of push_back, and the wrap of _offset in
\* pop_front, each keep the elements inside the block.
LEMMA InBlockStep ==
  ASSUME QueueInside, [QueueNext]_queueVars
  PROVE  QueueInside'
<1> USE QueueAssumption DEF QueueInside
<1>1. ASSUME NEW x \in Value, push_back(x) PROVE QueueInside'
  BY <1>1 DEF push_back
<1>2. CASE pop_front
  BY <1>2 DEF pop_front
<1>3. CASE pop_back
  BY <1>3 DEF pop_back
<1>4. CASE clear
  <2>1. size' = 0 /\ _offset' = 0 /\ maxsize' \in Nat
    BY <1>4 DEF clear
  <2>2. ptr' = [i \in 0 .. maxsize' - 1 |-> Zero]
    BY <1>4 DEF clear
  <2>3. ptr' \in [0 .. maxsize' - 1 -> Value]
    BY <2>2
  <2>4. _offset' + size' <= maxsize' /\ size' \in Nat /\ _offset' \in Nat
    BY <2>1
  <2> QED
    BY <2>1, <2>3, <2>4, Zenon
<1>5. CASE UNCHANGED queueVars
  BY <1>5 DEF queueVars
<1> QED
  BY <1>1, <1>2, <1>3, <1>4, <1>5 DEF QueueNext

\* What the block holds is a list of size elements.
LEMMA ContentIsList ==
  ASSUME QueueInside
  PROVE  content \in Seq(Value) /\ Len(content) = size
         /\ \A i \in 1 .. size : content[i] = ptr[_offset + i - 1]
BY DEF QueueInside, content

\* Every operation of the queue is the operation of the list of the same name.
LEMMA StepRefines ==
  ASSUME QueueInside, [QueueNext]_queueVars
  PROVE  [QueueList!FifoNext]_content
<1>0. QueueInside'
  BY InBlockStep
<1>a. size \in Nat /\ content \in Seq(Value) /\ Len(content) = size
      /\ \A i \in 1 .. size : content[i] = ptr[_offset + i - 1]
  BY ContentIsList DEF QueueInside
<1>1. ASSUME NEW x \in Value, push_back(x) PROVE QueueList!Insert(Len(content) + 1, x)
  <2>1. /\ size' = size + 1
        /\ content' = [i \in 1 .. size' |-> ptr'[_offset' + i - 1]]
    BY <1>1 DEF push_back, content
  <2>2. ASSUME NEW i \in 1 .. size + 1
        PROVE  ptr'[_offset' + i - 1] = IF i < size + 1 THEN content[i] ELSE x
    BY <1>1, <1>a, QueueAssumption DEF push_back, QueueInside
  <2>3. content' = [i \in 1 .. size + 1 |-> IF i < size + 1 THEN content[i]
                                            ELSE IF i = size + 1 THEN x ELSE content[i - 1]]
    BY <2>1, <2>2, <1>a
  <2> QED
    BY <2>3, <1>a DEF QueueList!Insert
<1>2. CASE pop_front
  <2>1. /\ size > 0 /\ size' = size - 1
        /\ content' = [i \in 1 .. size' |-> ptr'[_offset' + i - 1]]
    BY <1>2 DEF pop_front, content
  <2>2. ASSUME NEW i \in 1 .. size - 1
        PROVE  ptr'[_offset' + i - 1] = IF i < 1 THEN content[i] ELSE content[i + 1]
    BY <1>2, <1>a DEF pop_front, QueueInside
  <2>3. content' = [i \in 1 .. size - 1 |-> IF i < 1 THEN content[i] ELSE content[i + 1]]
    BY <2>1, <2>2, <1>a
  <2> QED
    BY <2>1, <2>3, <1>a DEF QueueList!Delete, QueueList!FifoNext
<1>3. CASE pop_back
  <2>1. /\ size > 0 /\ size' = size - 1
        /\ content' = [i \in 1 .. size' |-> ptr'[_offset' + i - 1]]
    BY <1>3 DEF pop_back, content
  <2>2. ASSUME NEW i \in 1 .. size - 1
        PROVE  ptr'[_offset' + i - 1] = IF i < size THEN content[i] ELSE content[i + 1]
    BY <1>3, <1>a DEF pop_back, QueueInside
  <2>3. content' = [i \in 1 .. size - 1 |-> IF i < size THEN content[i] ELSE content[i + 1]]
    BY <2>1, <2>2, <1>a
  <2> QED
    BY <2>1, <2>3, <1>a DEF QueueList!Delete, QueueList!FifoNext
<1>4. CASE clear
  BY <1>4 DEF clear, content, QueueList!Clear, QueueList!FifoNext
<1>5. CASE UNCHANGED queueVars
  BY <1>5 DEF queueVars, content
<1> QED
  BY <1>1, <1>2, <1>3, <1>4, <1>5 DEF QueueNext, QueueList!FifoNext

\* No operation of queue.h leaves its block, for every initial size.
THEOREM QueueInBlock == QueueSpec => []QueueInside
<1>1. QueueInit => QueueInside
  BY QueueAssumption DEF QueueInit, QueueInside
<1>2. QueueInside /\ [QueueNext]_queueVars => QueueInside'
  BY InBlockStep
<1> QED
  BY <1>1, <1>2, PTL DEF QueueSpec

\* The queue of queue.h is a first-in first-out list, for every initial size.
THEOREM QueueIsFifo == QueueSpec => ImplementsFifo
<1>1. QueueInit => QueueList!Init
  BY DEF QueueInit, QueueList!Init, content
<1>2. QueueInside /\ [QueueNext]_queueVars => [QueueList!FifoNext]_content
  BY StepRefines
<1> QED
  BY <1>1, <1>2, QueueInBlock, PTL DEF QueueSpec, ImplementsFifo, QueueList!FifoSpec
=============================================================================
