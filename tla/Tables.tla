-------------------------------- MODULE Tables --------------------------------
(***************************************************************************)
(* The tables, lists and trees of src/container, one at a time: a          *)
(* behaviour is about one of them, box, and the others keep their initial  *)
(* state.                                                                  *)
(***************************************************************************)
EXTENDS Box, Integers

CONSTANTS HashName, HashKey, HashInitSize, HashMaxSizes,    \* of HashTable
          ValueOf,                                          \* of HashTable and HashMap
          MapName, HashOf, MinCap, GrowAt, ShrinkAt, Factors, Powers,
          ListNode, ListData,                               \* of LinkList
          TreeNode, TreeKey,                                \* of RBTree
          SkipNode, SkipKey, SkipLevel, Header,             \* of SkipList
          VectorValue, VectorSizes, MaxSlot,                \* of Vector
          ChunkSize, MaxChunks, MaxFlush, MaxPut, MaxBytes  \* of OutBuffer

VARIABLES hash, walk, hashOut,
          map, mapOut,
          list, listOp,
          tree, members,
          sl, arrived,
          vec, vecOp,
          buf, wire, accepted, status, flushing

hashVars == <<hash, walk, hashOut>>
mapVars == <<map, mapOut>>
listVars == <<list, listOp>>
treeVars == <<tree, members>>
skipVars == <<sl, arrived>>
vectorVars == <<vec, vecOp>>
bufferVars == <<buf, wire, accepted, status, flushing>>

tableVars == <<hashVars, mapVars, listVars, treeVars, skipVars, vectorVars, bufferVars>>

Hash == INSTANCE HashTable WITH Name <- HashName, out <- hashOut, MaxSizes <- HashMaxSizes, InitSize <- HashInitSize
Open == INSTANCE HashMap WITH Name <- MapName, out <- mapOut
Linked == INSTANCE LinkList WITH Node <- ListNode, Data <- ListData, op <- listOp
Tree == INSTANCE RBTree WITH Node <- TreeNode, Key <- TreeKey
Skip == INSTANCE SkipList WITH Node <- SkipNode, Key <- SkipKey, MaxLevel <- SkipLevel
Slots == INSTANCE Vector WITH Value <- VectorValue, InitSizes <- VectorSizes, op <- vecOp
Chunks == INSTANCE OutBuffer WITH Size <- ChunkSize

TablesInit ==
  /\ Hash!Init /\ Open!Init /\ Linked!Init /\ Tree!Init /\ Skip!Init /\ Slots!Init /\ Chunks!Init
  /\ box # "hash" => hash.max = 0
  /\ box # "list" => list.cmp
  /\ box # "skip" => sl.dups
  /\ box # "vector" => \A size \in VectorSizes : size <= Slots!Alloced(vec)

TablesNext ==
  \/ box = "hash" /\ Hash!Next
     /\ UNCHANGED <<mapVars, listVars, treeVars, skipVars, vectorVars, bufferVars>>
  \/ box = "map" /\ Open!Next
     /\ UNCHANGED <<hashVars, listVars, treeVars, skipVars, vectorVars, bufferVars>>
  \/ box = "list" /\ Linked!Next
     /\ UNCHANGED <<hashVars, mapVars, treeVars, skipVars, vectorVars, bufferVars>>
  \/ box = "tree" /\ Tree!Next
     /\ UNCHANGED <<hashVars, mapVars, listVars, skipVars, vectorVars, bufferVars>>
  \/ box = "skip" /\ Skip!Next
     /\ UNCHANGED <<hashVars, mapVars, listVars, treeVars, vectorVars, bufferVars>>
  \/ box = "vector" /\ Slots!Next
     /\ UNCHANGED <<hashVars, mapVars, listVars, treeVars, skipVars, bufferVars>>
  \/ box = "buffer" /\ Chunks!Next
     /\ UNCHANGED <<hashVars, mapVars, listVars, treeVars, skipVars, vectorVars>>

-----------------------------------------------------------------------------
\* HashTable!IsMap, HashMap!IsMap: hash.c is a map through expansion, hashmap.c
\* through growth, shrinking and clearing.
TablesAreMaps == Hash!IsMap /\ Open!IsMap

\* LinkList!LookupFinds: what linklist.h says of listnode_lookup, "pointer to
\* listnode storing the given data if found".
ListLookupFinds == Linked!LookupFinds

\* Vector!SmallestSlot: vector_set takes the smallest empty slot.
VectorSmallest == Slots!SmallestSlot

\* OutBuffer!StreamKept: buffer.c loses, repeats and reorders no byte.
BufferStream == Chunks!StreamKept

\* The counters and chains of hash.c agree and hash_iterate visits every item
\* once; hashmap.c keeps a free bucket, which ends its probes, and its buckets in
\* the order of their distances from home; the links of linklist.c agree both
\* ways; openbsd_tree.c keeps the red-black balance; every level of skiplist.c is
\* ordered, part of the one below and counted; the count of vector.c is exact;
\* the chunks of buffer.c keep their bounds.
TablesSound ==
  CASE box = "hash" -> Hash!StatsExact /\ Hash!WalkVisitsAll
    [] box = "map" -> Open!Room /\ Open!RobinHood
    [] box = "list" -> Linked!DoublyLinked
    [] box = "tree" -> Tree!Balanced
    [] box = "skip" -> Skip!Ordered /\ Skip!LevelsExact
    [] box = "vector" -> Slots!CountExact
    [] box = "buffer" -> Chunks!ChunksFit
    [] OTHER -> TRUE
=============================================================================
