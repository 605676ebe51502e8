------------------------------ MODULE HashTable ------------------------------
(***************************************************************************)
(* The chained hash table of src/container/hash.c.  An item is a name (what*)
(* hash_key and hash_cmp look at) and a value (the rest of it).  hash is   *)
(* the struct: its chains, its count and its statistics; walk is a         *)
(* hash_iterate or hash_walk in progress, whose callback may release the   *)
(* bucket it is given.                                                     *)
(***************************************************************************)
EXTENDS Integers, Sequences, FiniteSets, SequencesExt

CONSTANTS Name, NULL,
          ValueOf,            \* the values each name is stored with
          HashKey,            \* the hash of each name
          InitSize,           \* HASH_INITIAL_SIZE, a power of 2
          MaxSizes            \* the values of max_size

VARIABLES hash, walk, out

vars == <<hash, walk, out>>

\* No walk in progress.
Idle == [chain |-> 0, hb |-> NULL, seen |-> <<>>, due |-> {}]

Size(t) == Cardinality(DOMAIN t.index)

\* hash_create_size
hash_create ==
  \E m \in MaxSizes :
    hash = [index |-> [i \in 0 .. InitSize - 1 |-> <<>>], count |-> 0,
            empty |-> InitSize, ssq |-> 0, max |-> m]

Init ==
  /\ hash_create
  /\ walk = Idle
  /\ out = [call |-> "new", name |-> NULL, got |-> NULL]

Answer(call, n, v) == out' = [call |-> call, name |-> n, got |-> v]

\* A bucket goes to the head of its chain and takes over the chain's length.
Push(t, b) ==
  LET h == b.key % Size(t)
      chain == t.index[h]
      oldlen == IF chain = <<>> THEN 0 ELSE chain[1].len
      behind == IF chain = <<>> THEN chain ELSE [chain EXCEPT ![1].len = 0]
  IN [t EXCEPT !.index[h] = <<[b EXCEPT !.len = oldlen + 1]>> \o behind,
               !.empty = IF oldlen = 0 THEN @ - 1 ELSE @,
               !.ssq = @ + 2 * oldlen + 1]

Buckets(t) == FlattenSeq([i \in 1 .. Size(t) |-> t.index[i - 1]])

hash_expand(t) ==
  IF t.max # 0 /\ 2 * Size(t) > t.max THEN t
  ELSE FoldLeft(Push, [t EXCEPT !.index = [i \in 0 .. 2 * Size(t) - 1 |-> <<>>],
                                !.empty = 2 * Size(t)], Buckets(t))

Chain(t, n) == t.index[HashKey[n] % Size(t)]

\* Where n is in its chain, 0 when it is not.
Position(t, n) == SelectInSeq(Chain(t, n), LAMBDA b : b.key = HashKey[n] /\ b.name = n)

Found(t, n) == LET p == Position(t, n) IN IF p = 0 THEN NULL ELSE Chain(t, n)[p].value

\* hash_get with no alloc_func
hash_lookup(n) ==
  /\ Answer("get", n, IF hash.count = 0 THEN NULL ELSE Found(hash, n))
  /\ UNCHANGED hash

\* hash_get with an alloc_func that returns the item, or NULL
hash_get(n, v) ==
  LET t == IF hash.count + 1 > Size(hash) THEN hash_expand(hash) ELSE hash
  IN IF Found(hash, n) # NULL
     THEN Answer("intern", n, Found(hash, n)) /\ UNCHANGED hash
     ELSE \/ Answer("nomem", n, NULL) /\ UNCHANGED hash
          \/ /\ Answer("intern", n, v)
             /\ hash' = [Push(t, [key |-> HashKey[n], name |-> n, value |-> v, len |-> 0])
                         EXCEPT !.count = @ + 1]

\* The table without n: what was or becomes the head takes the new length.
Released(t, n) ==
  LET h == HashKey[n] % Size(t)
      oldlen == t.index[h][1].len
      chain == RemoveAt(t.index[h], Position(t, n))
  IN [t EXCEPT !.index[h] = IF chain = <<>> THEN chain ELSE [chain EXCEPT ![1].len = oldlen - 1],
               !.empty = IF chain = <<>> THEN @ + 1 ELSE @,
               !.ssq = @ - (2 * oldlen - 1),
               !.count = @ - 1]

hash_release(n) ==
  /\ Answer("remove", n, Found(hash, n))
  /\ hash' = IF Found(hash, n) = NULL THEN hash ELSE Released(hash, n)

hash_clean ==
  /\ hash' = [hash EXCEPT !.index = [i \in DOMAIN @ |-> <<>>], !.count = 0,
                          !.ssq = 0, !.empty = Size(hash)]
  /\ Answer("clear", NULL, NULL)

-----------------------------------------------------------------------------
\* The first bucket at or after chain i, as a place for walk.
From(t, i) ==
  LET full == {c \in DOMAIN t.index : c >= i /\ t.index[c] # <<>>}
  IN IF full = {} THEN [chain |-> Size(t), hb |-> NULL]
     ELSE LET c == CHOOSE c \in full : \A d \in full : c <= d
          IN [chain |-> c, hb |-> t.index[c][1].name]

\* The place after bucket n of chain c: hbnext, or the next chain.
Behind(t, c, n) ==
  LET p == Position(t, n)
  IN IF p = 0 \/ p = Len(t.index[c]) THEN From(t, c + 1)
     ELSE [chain |-> c, hb |-> t.index[c][p + 1].name]

Walking == walk.hb # NULL

hash_iterate ==
  /\ LET f == From(hash, 0)
     IN walk' = [chain |-> f.chain, hb |-> f.hb, seen |-> <<>>,
                 due |-> {b.name : b \in Range(Buckets(hash))}]
  /\ UNCHANGED <<hash, out>>

\* hbnext is read, then func runs, and may call hash_release on its bucket.
Visit ==
  \E gone \in BOOLEAN :
    /\ hash' = IF gone THEN Released(hash, walk.hb) ELSE hash
    /\ LET f == Behind(hash, walk.chain, walk.hb)
       IN walk' = [walk EXCEPT !.chain = f.chain, !.hb = f.hb, !.seen = Append(@, walk.hb)]
    /\ IF gone THEN Answer("remove", walk.hb, Found(hash, walk.hb)) ELSE UNCHANGED out

\* hash_walk only: func returns HASHWALK_ABORT.
Abort == walk' = Idle /\ UNCHANGED <<hash, out>>

Call ==
  \/ \E n \in Name : hash_lookup(n) \/ hash_release(n) \/ \E v \in ValueOf[n] : hash_get(n, v)
  \/ hash_clean

Next ==
  \/ ~Walking /\ Call /\ walk' = Idle
  \/ ~Walking /\ hash_iterate
  \/ Walking /\ (Visit \/ Abort)

-----------------------------------------------------------------------------
\* The counters of the struct agree with its chains after any sequence of
\* calls: count is the number of items, stats.empty the number of empty
\* chains, and the head of each chain, and no other bucket, holds its length
\* (hash_get, hash_expand, hash_release, hash_clean).  stats.ssq is the sum of
\* the squares of the lengths as long as the table has not grown; hash_expand
\* adds the new squares without taking off the old ones.
StatsExact ==
  /\ hash.count = Len(Buckets(hash))
  /\ hash.empty = Cardinality({i \in DOMAIN hash.index : hash.index[i] = <<>>})
  /\ \A i \in DOMAIN hash.index : \A p \in DOMAIN hash.index[i] :
       hash.index[i][p].len = IF p = 1 THEN Len(hash.index[i]) ELSE 0
  /\ Size(hash) = InitSize =>
       hash.ssq = FoldLeft(LAMBDA s, b : s + b.len * b.len, 0, Buckets(hash))

\* hash_iterate and hash_walk call func once for every item the table held
\* when they started, although func may release the bucket it is given.
WalkVisitsAll ==
  ~Walking /\ walk.due # {} => IsInjective(walk.seen) /\ Range(walk.seen) = walk.due

Map == INSTANCE MapSpec WITH Value <- UNION {ValueOf[n] : n \in Name},
  entries <- [n \in {b.name : b \in Range(Buckets(hash))} |-> Found(hash, n)]

\* Through growth, collisions and releases, hash.c is a map: a lookup returns
\* what was stored under an equal key and nothing else.
IsMap == Map!Spec

Spec == Init /\ [][Next]_vars
=============================================================================
