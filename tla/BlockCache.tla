----------------------------- MODULE BlockCache -----------------------------
(***************************************************************************)
(* The cache in front of the S3 engine: blocks in the order of their last  *)
(* use, and the size that the cache believes it has.  That size grows with *)
(* every put, of a block that is there already too, and shrinks with       *)
(* evictions only; it is a size_t, so it must never go below zero.         *)
(***************************************************************************)
EXTENDS Sums

CONSTANTS
  Blocks,     \* the identifiers of blocks
  SizeOf,     \* the size of each block
  CacheSize,  \* BlockCache::m_maxSize
  Wrap        \* size_t is the numbers below Wrap

ASSUME BlockCacheAssumption ==
  /\ SizeOf \in [Blocks -> Nat \ {0}]
  /\ CacheSize \in Nat
  /\ Wrap \in Nat \ {0}

\* m_cache by its sequenced index, and m_size.
EmptyCache == [order |-> <<>>, size |-> 0]

IsCached(cache, b) == b \in Range(cache.order)

Bytes(order) == Total([i \in DOMAIN order |-> SizeOf[order[i]]])

\* All but the block b.
Without(order, b) ==
  RemoveAt(order, CHOOSE i \in DOMAIN order : order[i] = b)

\* BlockCache::get of a block that is there: it becomes the last one.
Touch(cache, b) ==
  [order |-> Append(Without(cache.order, b), b), size |-> cache.size]

\* The cache without the first n blocks of its order.
Evict(cache, n) ==
  [order |-> SubSeq(cache.order, n + 1, Len(cache.order)),
   size  |-> (cache.size - Bytes(SubSeq(cache.order, 1, n))) % Wrap]

\* Mistake: one block is enough.
EvictionsAtMostOne(cache) ==
  IF cache.size <= CacheSize \/ cache.order = <<>> THEN 0 ELSE 1

\* How many blocks go until the size is right or no block is left.
Evictions(cache) ==
  Min({n \in 0..Len(cache.order) :
         Evict(cache, n).size <= CacheSize \/ n = Len(cache.order)})

Inserted(cache, b) ==
  [order |-> IF IsCached(cache, b) THEN cache.order ELSE Append(cache.order, b),
   size  |-> (cache.size + SizeOf[b]) % Wrap]

\* Mistake: each eviction takes the size of the new block off.
CachePutOwnSize(cache, b) ==
  LET more == Inserted(cache, b)
      n == Evictions(more)
  IN  [Evict(more, n) EXCEPT !.size = (more.size - n * SizeOf[b]) % Wrap]

\* BlockCache::put
CachePut(cache, b) ==
  LET more == Inserted(cache, b) IN Evict(more, Evictions(more))

\* Mistake: a block that is deleted stays.
CacheDelNot(cache, b) == cache

\* BlockCache::del
CacheDel(cache, b) ==
  IF IsCached(cache, b)
  THEN [order |-> Without(cache.order, b), size |-> cache.size]
  ELSE cache
=============================================================================
