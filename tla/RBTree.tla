-------------------------------- MODULE RBTree --------------------------------
(***************************************************************************)
(* The red-black tree of src/container/openbsd_tree.c, which holds the     *)
(* interfaces, VRFs and namespaces, at the level of its pointers.  The     *)
(* code writes each case twice, once for each side: child[L] and child[R]  *)
(* are RBE_LEFT and RBE_RIGHT, and Other(s) is the mirror of side s.       *)
(***************************************************************************)
EXTENDS Integers, Sequences, FiniteSets, SequencesExt

CONSTANTS Node, NULL,
          Key           \* the key t_compare looks at, for each node

VARIABLES tree,
          members       \* the nodes inserted and not removed

vars == <<tree, members>>

L == "left"
R == "right"
Other(s) == IF s = L THEN R ELSE L

Init ==
  /\ tree = [root |-> NULL,
             child |-> [s \in {L, R} |-> [n \in Node |-> NULL]],
             parent |-> [n \in Node |-> NULL],
             color |-> [n \in Node |-> "black"]]
  /\ members = {}

Red(t, n) == n # NULL /\ t.color[n] = "red"
Paint(t, n, c) == IF n = NULL THEN t ELSE [t EXCEPT !.color[n] = c]
rbe_set_blackred(t, black, red) == Paint(Paint(t, black, "black"), red, "red")

\* n's place below its parent, or the root, goes to m.
Relink(t, n, m) ==
  LET p == t.parent[n]
      s == IF t.child[L][p] = n THEN L ELSE R
  IN IF p = NULL THEN [t EXCEPT !.root = m] ELSE [t EXCEPT !.child[s][p] = m]

Hang(t, n, p) == IF n = NULL THEN t ELSE [t EXCEPT !.parent[n] = p]

\* rbe_rotate_left (s = L), rbe_rotate_right (s = R): n goes down on side s.
rbe_rotate(t, s, n) ==
  LET o == Other(s)
      tmp == t.child[o][n]
      inner == t.child[s][tmp]
      t1 == Hang([t EXCEPT !.child[o][n] = inner], inner, n)
      t2 == Relink(Hang(t1, tmp, t.parent[n]), n, tmp)
  IN [t2 EXCEPT !.child[s][tmp] = n, !.parent[n] = tmp]

RECURSIVE rbe_insert_color(_, _)
rbe_insert_color(t, n) ==
  IF ~Red(t, t.parent[n]) THEN Paint(t, t.root, "black")
  ELSE LET parent == t.parent[n]
           gparent == t.parent[parent]
           s == IF t.child[L][gparent] = parent THEN L ELSE R
           o == Other(s)
           uncle == t.child[o][gparent]
           inner == t.child[o][parent] = n
           t1 == IF inner THEN rbe_rotate(t, s, parent) ELSE t
           top == IF inner THEN n ELSE parent
           low == IF inner THEN parent ELSE n
       IN IF Red(t, uncle)
          THEN rbe_insert_color(rbe_set_blackred(Paint(t, uncle, "black"), parent, gparent), gparent)
          ELSE rbe_insert_color(rbe_rotate(rbe_set_blackred(t1, top, gparent), o, gparent), low)

\* n, which may be missing, is one black node short below parent.
RECURSIVE rbe_remove_color(_, _, _)
rbe_remove_color(t, parent, n) ==
  IF Red(t, n) \/ n = t.root \/ parent = NULL THEN Paint(t, n, "black")
  ELSE LET s == IF t.child[L][parent] = n THEN L ELSE R
           o == Other(s)
           t1 == IF Red(t, t.child[o][parent])
                 THEN rbe_rotate(rbe_set_blackred(t, t.child[o][parent], parent), s, parent)
                 ELSE t
           tmp == t1.child[o][parent]
           t2 == IF Red(t1, t1.child[o][tmp]) THEN t1
                 ELSE rbe_rotate(Paint(Paint(t1, t1.child[s][tmp], "black"), tmp, "red"), o, tmp)
           tmp2 == t2.child[o][parent]
           t3 == Paint(Paint(Paint(t2, tmp2, t2.color[parent]), parent, "black"),
                       t2.child[o][tmp2], "black")
           t4 == rbe_rotate(t3, s, parent)
       IN IF ~Red(t1, t1.child[L][tmp]) /\ ~Red(t1, t1.child[R][tmp])
          THEN rbe_remove_color(Paint(t1, tmp, "red"), t1.parent[parent], parent)
          ELSE Paint(t4, t4.root, "black")

RECURSIVE Deepest(_, _, _)
Deepest(t, s, n) == IF t.child[s][n] = NULL THEN n ELSE Deepest(t, s, t.child[s][n])

\* The entry of a node that is in no tree.
Clear(t, n) == [t EXCEPT !.child[L][n] = NULL, !.child[R][n] = NULL,
                         !.parent[n] = NULL, !.color[n] = "black"]

\* A node with at most one child is cut out; one with two gives its entry to
\* its successor, which is cut out instead.
rbe_remove(t, old) ==
  LET two == t.child[L][old] # NULL /\ t.child[R][old] # NULL
      n == IF two THEN Deepest(t, L, t.child[R][old]) ELSE old
      child == IF t.child[L][n] = NULL THEN t.child[R][n] ELSE t.child[L][n]
      t1 == Relink(Hang(t, child, t.parent[n]), n, child)
      parent == IF two /\ t.parent[n] = old THEN n ELSE t.parent[n]
      t2 == [t1 EXCEPT !.child[L][n] = t1.child[L][old], !.child[R][n] = t1.child[R][old],
                       !.parent[n] = t1.parent[old], !.color[n] = t1.color[old]]
      t3 == Hang(Hang(Relink(t2, old, n), t1.child[L][old], n), t1.child[R][old], n)
      cut == IF two THEN t3 ELSE t1
      done == IF t.color[n] = "black" THEN rbe_remove_color(cut, parent, child) ELSE cut
  IN Clear(done, old)

_rb_remove(n) == tree' = rbe_remove(tree, n) /\ members' = members \ {n}

\* The last node of the search for key k from n down, and NULL for none.
RECURSIVE Descend(_, _, _)
Descend(t, n, k) ==
  LET next == IF k < Key[n] THEN t.child[L][n] ELSE t.child[R][n]
  IN IF k = Key[n] \/ next = NULL THEN n ELSE Descend(t, next, k)

_rb_find(t, k) ==
  LET n == Descend(t, t.root, k) IN IF t.root # NULL /\ Key[n] = k THEN n ELSE NULL

\* A node of an equal key stays, and the new one is not linked.
_rb_insert(n) ==
  LET parent == Descend(tree, tree.root, Key[n])
      s == IF Key[n] < Key[parent] THEN L ELSE R
      t == Hang([tree EXCEPT !.color[n] = "red"], n, IF tree.root = NULL THEN NULL ELSE parent)
      linked == IF tree.root = NULL THEN [t EXCEPT !.root = n] ELSE [t EXCEPT !.child[s][parent] = n]
  IN IF _rb_find(tree, Key[n]) # NULL THEN UNCHANGED vars
     ELSE tree' = rbe_insert_color(linked, n) /\ members' = members \cup {n}

_rb_nfindExact(t, k) == _rb_find(t, k)

_rb_nfind(t, k) ==
  LET RECURSIVE Least(_, _)
      Least(n, res) == IF n = NULL THEN res
                       ELSE IF k < Key[n] THEN Least(t.child[L][n], n)
                       ELSE IF k > Key[n] THEN Least(t.child[R][n], res)
                       ELSE n
  IN Least(t.root, NULL)

\* _rb_min (s = L), _rb_max (s = R)
End(t, s) == IF t.root = NULL THEN NULL ELSE Deepest(t, s, t.root)

\* Up from n as long as it is the child on side s.
RECURSIVE Climb(_, _, _)
Climb(t, s, n) ==
  IF t.parent[n] = NULL THEN NULL
  ELSE IF t.child[s][t.parent[n]] = n THEN Climb(t, s, t.parent[n]) ELSE t.parent[n]

\* _rb_next (s = R), _rb_prev (s = L)
Step(t, s, n) ==
  IF t.child[s][n] # NULL THEN Deepest(t, Other(s), t.child[s][n]) ELSE Climb(t, s, n)

Next ==
  \/ \E n \in Node \ members : _rb_insert(n)
  \/ \E n \in members : _rb_remove(n)

Spec == Init /\ [][Next]_vars

-----------------------------------------------------------------------------
\* The number of black nodes on every path down from n, -1 when paths differ
\* or a red node has a red child.
RECURSIVE Black(_, _)
Black(t, n) ==
  IF n = NULL THEN 0
  ELSE LET l == Black(t, t.child[L][n]) r == Black(t, t.child[R][n])
           clash == Red(t, n) /\ (Red(t, t.child[L][n]) \/ Red(t, t.child[R][n]))
       IN IF l = -1 \/ l # r \/ clash THEN -1 ELSE IF Red(t, n) THEN l ELSE l + 1

\* After any mix of _rb_insert and _rb_remove the tree is balanced: the root
\* is black, no red node has a red child, and all paths have as many black
\* nodes.
Balanced == ~Red(tree, tree.root) /\ Black(tree, tree.root) # -1

\* The nodes from end s of the tree, each by _rb_next or _rb_prev of the last.
RECURSIVE Listed(_, _, _)
Listed(t, s, n) == IF n = NULL THEN <<>> ELSE <<n>> \o Listed(t, s, Step(t, s, n))

Ascending ==
  [i \in 1 .. Cardinality(members) |->
     CHOOSE n \in members : Cardinality({m \in members : Key[m] < Key[n]}) = i - 1]

\* The tree is the ordered set of the nodes inserted and not removed: walked
\* from either end it lists them all, each once, in the order of their keys,
\* and _rb_find and _rb_nfind return the node with the key, or the least above.
OrderedSet ==
  /\ Listed(tree, R, End(tree, L)) = Ascending
  /\ Listed(tree, L, End(tree, R)) = Reverse(Ascending)
  /\ \A k \in {Key[n] : n \in Node} :
       LET above == SelectSeq(Ascending, LAMBDA n : Key[n] >= k)
           least == IF above = <<>> THEN NULL ELSE above[1]
       IN /\ _rb_nfind(tree, k) = least
          /\ _rb_find(tree, k) = IF least # NULL /\ Key[least] = k THEN least ELSE NULL
=============================================================================
