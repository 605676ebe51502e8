------------------------------- MODULE HashMap -------------------------------
(***************************************************************************)
(* The open-addressing hash map of src/container/hashmap.c.  A bucket has  *)
(* the distance dib of its item from its home plus one, 0 when it is free; *)
(* an item that is further from home takes the bucket of one that is       *)
(* nearer.  map is the struct; the element is a name (what hash and        *)
(* compare look at) and a value.                                           *)
(***************************************************************************)
EXTENDS Integers, FiniteSets

CONSTANTS Name, NULL,
          ValueOf,            \* the values each name is stored with
          HashOf,             \* the clipped hash of each name
          MinCap,             \* the smallest number of buckets, a power of 2 (16)
          GrowAt, ShrinkAt,   \* the default load factors in percent
          Factors,            \* load factors a caller sets, in percent
          Powers              \* growth powers a caller sets

VARIABLES map, out

vars == <<map, out>>

Free == [dib |-> 0, hash |-> 0, name |-> NULL, value |-> NULL]

N(m) == Cardinality(DOMAIN m.buckets)

\* ncap: the power of 2 that is at least cap
Rounded(cap) ==
  LET powers == {MinCap * 2 ^ k : k \in 0 .. 6}
  IN CHOOSE p \in powers : p >= cap /\ \A q \in powers : q >= cap => p <= q

Answer(call, n, v) == out' = [call |-> call, name |-> n, got |-> v]

\* The map with n free buckets and the thresholds of a load factor.
Cleared(m, n, factor) ==
  [m EXCEPT !.buckets = [i \in 0 .. n - 1 |-> Free], !.count = 0,
            !.growat = (n * factor) \div 100, !.shrinkat = (n * ShrinkAt) \div 100]

hashmap_new(cap) ==
  Cleared([buckets |-> <<>>, count |-> 0, growat |-> 0, shrinkat |-> 0,
           cap |-> Rounded(cap), factor |-> GrowAt, power |-> 1], Rounded(cap), GrowAt)

Init == map = hashmap_new(0) /\ out = [call |-> "new", name |-> NULL, got |-> NULL]


\* The loop of hashmap_set and of resize0: the entry goes to the first free
\* bucket from i on; on the way it changes places with every item that is
\* nearer to its home.  hashmap_set (same) stops at an item of the same name
\* and overwrites its value; old is the value overwritten.
RECURSIVE Place(_, _, _, _)
Place(buckets, entry, i, same) ==
  LET there == buckets[i]
      next == (i + 1) % Cardinality(DOMAIN buckets)
  IN IF there.dib = 0 THEN [buckets |-> [buckets EXCEPT ![i] = entry], old |-> NULL]
     ELSE IF same /\ there.hash = entry.hash /\ there.name = entry.name
     THEN [buckets |-> [buckets EXCEPT ![i].value = entry.value], old |-> there.value]
     ELSE IF there.dib < entry.dib
     THEN Place([buckets EXCEPT ![i] = entry], [there EXCEPT !.dib = @ + 1], next, same)
     ELSE Place(buckets, [entry EXCEPT !.dib = @ + 1], next, same)

\* resize0: a new map of its own default thresholds takes the items in the
\* order of the buckets.  cap, the load factor and the power stay.
RECURSIVE Moved(_, _, _)
Moved(from, to, i) ==
  IF i = Cardinality(DOMAIN from) THEN to
  ELSE Moved(from,
             IF from[i].dib = 0 THEN to
             ELSE Place(to, [from[i] EXCEPT !.dib = 1],
                        from[i].hash % Cardinality(DOMAIN to), FALSE).buckets,
             i + 1)

resize(m, new_cap) ==
  LET map2 == hashmap_new(new_cap)
  IN [m EXCEPT !.buckets = Moved(m.buckets, map2.buckets, 0),
               !.growat = map2.growat, !.shrinkat = map2.shrinkat]

\* The bucket of n as hashmap_get and _del find it: the first from its
\* home on with its hash and name, or -1 at the first free bucket.
RECURSIVE Probe(_, _, _)
Probe(m, n, i) ==
  IF m.buckets[i].dib = 0 THEN -1
  ELSE IF m.buckets[i].hash = HashOf[n] /\ m.buckets[i].name = n THEN i
  ELSE Probe(m, n, (i + 1) % N(m))

Find(m, n) == Probe(m, n, HashOf[n] % N(m))

Held(m, n) == IF Find(m, n) = -1 THEN NULL ELSE m.buckets[Find(m, n)].value

hashmap_get(n) == Answer("get", n, Held(map, n)) /\ UNCHANGED map

\* The map grows before it is known whether the item is new; without memory
\* the call fails.
hashmap_set(n, v) ==
  LET full == map.count >= map.growat
      m == IF full THEN resize(map, N(map) * 2 ^ map.power) ELSE map
      put == Place(m.buckets, [dib |-> 1, hash |-> HashOf[n], name |-> n, value |-> v],
                   HashOf[n] % N(m), TRUE)
  IN \/ /\ Answer("put", n, put.old)
        /\ map' = [m EXCEPT !.buckets = put.buckets, !.count = IF put.old = NULL THEN @ + 1 ELSE @]
     \/ full /\ Answer("nomem", n, NULL) /\ UNCHANGED map

ClosedNot(buckets, prev) == [buckets EXCEPT ![prev] = Free]

\* Those behind the free bucket prev move back by one, up to one that is at
\* home or a free one.
RECURSIVE Closed(_, _)
Closed(buckets, prev) ==
  LET i == (prev + 1) % Cardinality(DOMAIN buckets)
  IN IF buckets[i].dib <= 1 THEN [buckets EXCEPT ![prev] = Free]
     ELSE Closed([buckets EXCEPT ![prev] = [buckets[i] EXCEPT !.dib = @ - 1]], i)

Removed(m, n) == [m EXCEPT !.buckets = Closed(@, Find(m, n)), !.count = @ - 1]

\* The shrink may fail for want of memory, and the map stays as it is.
hashmap_del(n) ==
  LET m == Removed(map, n)
      shrinks == N(m) > m.cap /\ m.count <= m.shrinkat
  IN /\ Answer("remove", n, Held(map, n))
     /\ IF Find(map, n) = -1 THEN UNCHANGED map
        ELSE \/ map' = IF shrinks THEN resize(m, N(m) \div 2) ELSE m
             \/ shrinks /\ map' = m

hashmap_clear(update_cap) ==
  /\ map' = IF update_cap THEN Cleared([map EXCEPT !.cap = N(map)], N(map), map.factor)
            ELSE Cleared(map, map.cap, map.factor)
  /\ Answer("clear", NULL, NULL)

hashmap_set_load_factor(f) ==
  /\ map' = [map EXCEPT !.factor = f, !.growat = (N(map) * f) \div 100]
  /\ UNCHANGED out

hashmap_set_grow_by_power(p) == map' = [map EXCEPT !.power = p] /\ UNCHANGED out

Next ==
  \/ \E n \in Name : hashmap_get(n) \/ hashmap_del(n) \/ \E v \in ValueOf[n] : hashmap_set(n, v)
  \/ \E u \in BOOLEAN : hashmap_clear(u)
  \/ \E f \in Factors : hashmap_set_load_factor(f)
  \/ \E p \in Powers : hashmap_set_grow_by_power(p)

Spec == Init /\ [][Next]_vars

-----------------------------------------------------------------------------
Used(m) == {i \in DOMAIN m.buckets : m.buckets[i].dib # 0}

\* After growing, shrinking, clearing and a failed allocation the map keeps a
\* free bucket, which is what ends the probe loops of hashmap_get, _set and
\* _del, and count is the number of buckets in use.
Room == map.count = Cardinality(Used(map)) /\ map.count < N(map)

\* Every item is where its dib says, and no item stands behind one that is
\* further from home by less than a step: the order the swaps of hashmap_set
\* and the moves of hashmap_del keep.
RobinHood ==
  \A i \in Used(map) :
    LET b == map.buckets[i] prev == map.buckets[(i - 1) % N(map)]
    IN (b.hash + b.dib - 1) % N(map) = i /\ b.dib <= prev.dib + 1

AsMap == INSTANCE MapSpec WITH Value <- UNION {ValueOf[n] : n \in Name},
  entries <- [n \in {map.buckets[i].name : i \in Used(map)} |->
                map.buckets[CHOOSE i \in Used(map) : map.buckets[i].name = n].value]

\* hashmap.c is a map: a set, get or del answers with what the last set of
\* that key stored, through displacement, growth, shrinking and clearing.
IsMap == AsMap!Spec
=============================================================================
