----------------------------- MODULE MCCollections ----------------------------
\* Small structures for TLC: ring buffers of two sizes, names that collide at some sizes and not at others,
\* equal keys in the tree and the skip list.
EXTENDS Collections

CONSTANTS n_a, n_b, n_c, n_d

RingSizes == [x \in Buf |-> IF x = n_a THEN 2 ELSE 1]
ChainKeys == [n \in {n_a, n_b, n_c} |-> CASE n = n_a -> 0 [] n = n_b -> 2 [] n = n_c -> 3]
ProbeHashes == [n \in {n_a, n_b, n_c, n_d} |-> CASE n \in {n_a, n_b} -> 3 [] n = n_c -> 0 [] n = n_d -> 7]
Values == [n \in {n_a, n_b, n_c, n_d} |-> IF n = n_a THEN {1, 2} ELSE {1}]
TreeKeys == [n \in TreeNode |-> IF n = 9 THEN 4 ELSE n]
SkipKeys == [n \in SkipNode |-> IF n \in {2, 3, 4} THEN 2 ELSE n]
=============================================================================
