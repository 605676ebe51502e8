------------------------------- MODULE SkipList -------------------------------
(***************************************************************************)
(* The skip list of src/container/skiplist.c.  sl is the struct with the   *)
(* forward pointers of its nodes and of its header; a node's value is the  *)
(* node itself.  The levels that random() would give are chosen.           *)
(***************************************************************************)
EXTENDS Integers, Sequences, FiniteSets

CONSTANTS Node, NULL, Header,
          Key,          \* the key of each node
          MaxLevel      \* the highest level

VARIABLES sl,
          arrived       \* the nodes in the list, in the order of their insertion

vars == <<sl, arrived>>

Levels == 0 .. MaxLevel

\* skiplist_new, without and with SKIPLIST_FLAG_ALLOW_DUPLICATES
Init ==
  /\ sl \in {[forward |-> [k \in Levels |-> [n \in Node \cup {Header} |-> NULL]],
              level |-> 0, last |-> NULL, count |-> 0,
              stats |-> [k \in Levels |-> 0], dups |-> d] : d \in BOOLEAN}
  /\ arrived = <<>>

Before(l, k, p, key) == l.forward[k][p] # NULL /\ Key[l.forward[k][p]] < key

\* Along level k from p to the last node below key.
RECURSIVE Along(_, _, _, _)
Along(l, k, p, key) == IF Before(l, k, p, key) THEN Along(l, k, l.forward[k][p], key) ELSE p

\* The descent of skiplist_insert, _delete and _first_value: update[k].
Update(l, key) ==
  LET u[j \in 0 .. l.level] ==
        LET k == l.level - j IN Along(l, k, IF j = 0 THEN Header ELSE u[j - 1], key)
  IN [k \in 0 .. l.level |-> u[l.level - k]]

\* q as the descent leaves it.
Reached(l, key) == l.forward[0][Update(l, key)[0]]

Matches(q, key) == q # NULL /\ Key[q] = key

skiplist_insert(n) ==
  \E random \in Levels :
    LET grows == random > sl.level
        k == IF grows THEN sl.level + 1 ELSE random
        update == [j \in 0 .. k |-> IF j > sl.level THEN Header ELSE Update(sl, Key[n])[j]]
        forward == [j \in Levels |->
                      IF j > k THEN sl.forward[j]
                      ELSE [sl.forward[j] EXCEPT ![n] = sl.forward[j][update[j]],
                                             ![update[j]] = n]]
    IN IF ~sl.dups /\ Matches(Reached(sl, Key[n]), Key[n]) THEN UNCHANGED vars
       ELSE /\ sl' = [sl EXCEPT !.forward = forward, !.stats[k] = @ + 1, !.count = @ + 1,
                                !.level = IF grows THEN k ELSE @,
                                !.last = IF forward[0][n] = NULL THEN n ELSE @]
            /\ arrived' = Append(arrived, n)

Without(s, n) == SelectSeq(s, LAMBDA m : m # n)

\* The next pointers of a node that is in no list.
Clear(forward, n) == [k \in Levels |-> [forward[k] EXCEPT ![n] = NULL]]

\* Among the nodes with the key, on to the one with the value.
RECURSIVE Skip(_, _, _, _)
Skip(l, update, q, value) ==
  IF q # NULL /\ Key[q] = Key[value] /\ q # value
  THEN Skip(l, [k \in DOMAIN update |-> IF l.forward[k][update[k]] = q THEN q ELSE update[k]],
            l.forward[0][q], value)
  ELSE [update |-> update, q |-> q]

\* The levels, from 0 up, on which q follows update[k].
Tower(l, update, q) ==
  {k \in DOMAIN update : \A j \in 0 .. k : l.forward[j][update[j]] = q}

Shrunk(forward, m) ==
  LET used == {k \in 1 .. m : forward[k][Header] # NULL}
  IN IF used = {} THEN 0 ELSE CHOOSE k \in used : \A j \in used : j <= k

\* skiplist_delete of the key of n and, when duplicates are allowed, its value
skiplist_delete(n) ==
  LET first == [update |-> Update(sl, Key[n]), q |-> Reached(sl, Key[n])]
      at == IF sl.dups THEN Skip(sl, first.update, first.q, n) ELSE first
      q == at.q
      u == at.update
      on == Tower(sl, u, q)
      forward == [k \in Levels |-> IF k \in on THEN [sl.forward[k] EXCEPT ![u[k]] = sl.forward[k][q]]
                                   ELSE sl.forward[k]]
  IN IF ~Matches(q, Key[n]) \/ (sl.dups /\ q # n) THEN UNCHANGED vars
     ELSE /\ sl' = [sl EXCEPT !.forward = Clear(forward, q),
                              !.last = IF @ # q THEN @ ELSE IF u[0] = Header THEN NULL ELSE u[0],
                              !.stats[Cardinality(on) - 1] = @ - 1,
                              !.level = Shrunk(forward, @), !.count = @ - 1]
          /\ arrived' = Without(arrived, q)


\* From the top level down: the level goes down while the header is left with
\* nothing there.
RECURSIVE Lowered(_, _, _, _)
Lowered(forward, on, k, level) ==
  IF k = 0 THEN level
  ELSE Lowered(forward, on, k - 1,
               IF k \in on /\ k = level /\ forward[k][Header] = NULL THEN level - 1 ELSE level)

skiplist_delete_first ==
  LET q == sl.forward[0][Header]
      on == {k \in 0 .. sl.level : sl.forward[k][Header] = q}
      forward == [k \in Levels |-> IF k \in on THEN [sl.forward[k] EXCEPT ![Header] = sl.forward[k][q]]
                                   ELSE sl.forward[k]]
  IN IF q = NULL THEN UNCHANGED vars
     ELSE /\ sl' = [sl EXCEPT !.forward = Clear(forward, q), !.last = IF @ = q THEN NULL ELSE @,
                              !.stats[CHOOSE k \in on : \A j \in on : j <= k] = @ - 1,
                              !.level = Lowered(forward, on, @, @), !.count = @ - 1]
          /\ arrived' = Without(arrived, q)

Next ==
  \/ \E n \in Node : \/ n \notin {arrived[i] : i \in DOMAIN arrived} /\ skiplist_insert(n)
                     \/ skiplist_delete(n)
  \/ skiplist_delete_first

Spec == Init /\ [][Next]_vars

-----------------------------------------------------------------------------
\* The nodes of level k, as skiplist_next walks them for k = 0.
RECURSIVE From(_, _, _)
From(l, k, n) == IF n = NULL THEN <<>> ELSE <<n>> \o From(l, k, l.forward[k][n])
Listed(k) == From(sl, k, sl.forward[k][Header])
On(k) == {Listed(k)[i] : i \in DOMAIN Listed(k)}

Arrival(n) == CHOOSE i \in DOMAIN arrived : arrived[i] = n

\* Level 0 lists the nodes inserted and not deleted, ordered by key and, among
\* equal keys, the latest first, and each higher level lists some of those of
\* the level below in the same order; last, which skiplist_last and
\* skiplist_empty look at, is the end of level 0.
Ordered ==
  /\ On(0) = {arrived[i] : i \in DOMAIN arrived}
  /\ \A k \in Levels : k > 0 => On(k) \subseteq On(k - 1)
  /\ \A k \in Levels : \A i, j \in DOMAIN Listed(k) :
       i < j => LET m == Listed(k)[i] n == Listed(k)[j]
                IN Key[m] < Key[n] \/ (Key[m] = Key[n] /\ Arrival(m) > Arrival(n))
  /\ sl.last = IF Listed(0) = <<>> THEN NULL ELSE Listed(0)[Len(Listed(0))]

\* The search loops start at level: it is the highest level in use, so that
\* no node is searched above the header's lists and no level is lost; count
\* and level_stats count the nodes by the height of their towers.
LevelsExact ==
  /\ \A k \in Levels : (k <= sl.level /\ k > 0) <=> (k > 0 /\ On(k) # {})
  /\ sl.count = Cardinality(On(0))
  /\ \A k \in Levels :
       sl.stats[k] = Cardinality(On(k)) - IF k = MaxLevel THEN 0 ELSE Cardinality(On(k + 1))

\* skiplist_first_value finds the first of the nodes with a key, if any.
SearchFinds ==
  \A key \in {Key[n] : n \in Node} :
    LET with == SelectSeq(Listed(0), LAMBDA n : Key[n] = key)
        q == Reached(sl, key)
    IN IF with = <<>> THEN ~Matches(q, key) ELSE q = with[1]
=============================================================================
