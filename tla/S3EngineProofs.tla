--------------------------- MODULE S3EngineProofs ---------------------------
(***************************************************************************)
(* The cache of S3Engine never holds a block that its own process knows to *)
(* be deleted or never stored, and never more than it may, for every set   *)
(* of blocks of every size, every cache size and every list of blocks a    *)
(* call may have.                                                          *)
(*                                                                         *)
(* What it holds does not depend on how large it is, only on that an       *)
(* eviction leaves an end of the order.  How large it is needs the sums of *)
(* ListsProofs: a put adds the size of a block whether it is inserted or    *)
(* not, and the evictions take off what they remove.                       *)
(***************************************************************************)
EXTENDS S3Engine, ListsProofs

\* A cache that holds each of its blocks once.
OrderOK(c) ==
  /\ c = [order |-> c.order, size |-> c.size]
  /\ c.order \in Seq(Blocks)
  /\ IsInjective(c.order)

\* The lists of the running call.
CallOK ==
  /\ op \in Ops
  /\ ask \in Seq(Blocks) /\ list \in Seq(Blocks)
  /\ answer \in Seq(Answers) /\ Len(answer) = Len(list)
  /\ op # "get" => got = {} /\ ask = <<>>
  /\ op = "none" => list = <<>>

\* An answer that says a block is there stays true, but for what others do.
AnswersHold ==
  op \in {"get", "put"} =>
    \A i \in DOMAIN list : answer[i] = "ok" => list[i] \in bucket \cup gone

HonestInv == OrderOK(cache) /\ CallOK /\ CacheHonest /\ AnswersHold

-----------------------------------------------------------------------------
(* The operations of the cache *)

LEMMA Fields ==
  ASSUME NEW o, NEW z, NEW r, r = [order |-> o, size |-> z]
  PROVE  r.order = o /\ r = [order |-> r.order, size |-> r.size]
OBVIOUS

\* Removing a block keeps the others, each of them once.
LEMMA WithoutOthers ==
  ASSUME NEW s \in Seq(Blocks), IsInjective(s), NEW b \in Range(s)
  PROVE  /\ Without(s, b) \in Seq(Blocks)
         /\ IsInjective(Without(s, b))
         /\ Range(Without(s, b)) = Range(s) \ {b}
<1> DEFINE p == CHOOSE i \in DOMAIN s : s[i] = b
           r == Without(s, b)
<1>1. p \in 1..Len(s) /\ s[p] = b
  BY DEF Range
<1> HIDE DEF p
<1>2. r = SubSeq(s, 1, p - 1) \o SubSeq(s, p + 1, Len(s))
  BY DEF Without, RemoveAt, p
<1>3. /\ r \in Seq(Blocks)
      /\ Len(r) = Len(s) - 1
      /\ \A i \in 1..(Len(s) - 1) : r[i] = IF i < p THEN s[i] ELSE s[i + 1]
  <2> DEFINE front == SubSeq(s, 1, p - 1)
             back == SubSeq(s, p + 1, Len(s))
  <2>1. /\ front \in Seq(Blocks) /\ Len(front) = p - 1
        /\ \A i \in 1..(p - 1) : front[i] = s[i]
    BY <1>1
  <2>2. /\ back \in Seq(Blocks) /\ Len(back) = Len(s) - p
        /\ \A i \in 1..(Len(s) - p) : back[i] = s[i + p]
    BY <1>1
  <2>3. r = front \o back
    BY <1>2
  <2> HIDE DEF front, back, r
  <2>4. /\ r \in Seq(Blocks) /\ Len(r) = Len(front) + Len(back)
        /\ \A i \in 1..(Len(front) + Len(back)) :
             r[i] = IF i <= Len(front) THEN front[i] ELSE back[i - Len(front)]
    BY <2>1, <2>2, <2>3, ConcatProperties
  <2>5. Len(r) = Len(s) - 1
    BY <1>1, <2>1, <2>2, <2>4
  <2>6. ASSUME NEW i \in 1..(Len(s) - 1)
        PROVE  r[i] = IF i < p THEN s[i] ELSE s[i + 1]
    <3>1. CASE i < p
      <4>1. i \in 1..(p - 1)
        BY <1>1, <3>1
      <4>2. r[i] = front[i]
        BY <1>1, <2>1, <2>2, <2>4, <4>1
      <4> QED
        BY <2>1, <3>1, <4>1, <4>2
    <3>2. CASE i >= p
      <4>1. i - (p - 1) \in 1..(Len(s) - p)
        BY <1>1, <3>2
      <4>2. back[i - (p - 1)] = s[i - (p - 1) + p]
        BY <2>2, <4>1
      <4>3. r[i] = back[i - (p - 1)]
        BY <1>1, <2>1, <2>2, <2>4, <3>2
      <4> QED
        BY <1>1, <3>2, <4>2, <4>3
    <3> QED
      BY <1>1, <3>1, <3>2
  <2> QED
    BY <2>4, <2>5, <2>6
<1> HIDE DEF r
<1>4. IsInjective(r)
  BY <1>1, <1>3 DEF IsInjective
<1>5. Range(r) \subseteq Range(s) \ {b}
  BY <1>1, <1>3 DEF IsInjective, Range
<1>6. \A c \in Range(s) \ {b} : c \in Range(r)
  <2> TAKE c \in Range(s) \ {b}
  <2>1. PICK i \in 1..Len(s) : s[i] = c
    BY DEF Range
  <2>2. CASE i < p
    BY <1>1, <1>3, <2>1, <2>2 DEF Range
  <2>3. CASE i > p
    <3>1. i - 1 \in 1..(Len(s) - 1) /\ r[i - 1] = c
      BY <1>1, <1>3, <2>1, <2>3
    <3> QED
      BY <1>3, <3>1 DEF Range
  <2> QED
    BY <1>1, <2>1, <2>2, <2>3
<1> QED
  BY <1>3, <1>4, <1>5, <1>6 DEF r

\* A new block goes to the end.
LEMMA AppendOthers ==
  ASSUME NEW s \in Seq(Blocks), IsInjective(s), NEW b \in Blocks, b \notin Range(s)
  PROVE  /\ Append(s, b) \in Seq(Blocks)
         /\ IsInjective(Append(s, b))
         /\ Range(Append(s, b)) = Range(s) \cup {b}
<1>1. /\ Append(s, b) \in Seq(Blocks)
      /\ DOMAIN Append(s, b) = 1..(Len(s) + 1)
      /\ \A i \in 1..Len(s) : Append(s, b)[i] = s[i]
      /\ Append(s, b)[Len(s) + 1] = b
  OBVIOUS
<1>2. IsInjective(Append(s, b))
  BY <1>1 DEF IsInjective, Range
<1>3. Range(Append(s, b)) = Range(s) \cup {b}
  BY <1>1 DEF Range
<1> QED
  BY <1>1, <1>2, <1>3

\* What an eviction leaves.
LEMMA SuffixOthers ==
  ASSUME NEW s \in Seq(Blocks), IsInjective(s), NEW n \in 0..Len(s)
  PROVE  /\ SubSeq(s, n + 1, Len(s)) \in Seq(Blocks)
         /\ IsInjective(SubSeq(s, n + 1, Len(s)))
         /\ Range(SubSeq(s, n + 1, Len(s))) \subseteq Range(s)
<1>1. /\ SubSeq(s, n + 1, Len(s)) \in Seq(Blocks)
      /\ DOMAIN SubSeq(s, n + 1, Len(s)) = 1..(Len(s) - n)
      /\ \A i \in 1..(Len(s) - n) : SubSeq(s, n + 1, Len(s))[i] = s[n + i]
  OBVIOUS
<1>2. \A i \in 1..(Len(s) - n) : n + i \in DOMAIN s
  OBVIOUS
<1>3. IsInjective(SubSeq(s, n + 1, Len(s)))
  BY <1>1, <1>2 DEF IsInjective
<1> QED
  BY <1>1, <1>2, <1>3 DEF Range

\* Min is a least element, for there is one.
LEMMA LeastIsMember ==
  ASSUME NEW S \in SUBSET Nat, S # {}
  PROVE  Min(S) \in S
<1>1. \E x \in S : \A y \in S : x <= y
  BY LeastNat
<1> QED
  BY <1>1 DEF Min

LEMMA EvictionsInRange ==
  ASSUME NEW c, OrderOK(c)
  PROVE  Evictions(c) \in 0..Len(c.order)
<1> DEFINE S == {n \in 0..Len(c.order) :
                   Evict(c, n).size <= CacheSize \/ n = Len(c.order)}
<1>1. Len(c.order) \in S
  BY DEF OrderOK
<1>2. S \in SUBSET Nat /\ S # {}
  BY <1>1
<1>3. Min(S) \in S
  BY <1>2, LeastIsMember
<1> QED
  BY <1>3 DEF Evictions

LEMMA TouchKeeps ==
  ASSUME NEW c, OrderOK(c), NEW b \in Blocks, IsCached(c, b)
  PROVE  OrderOK(Touch(c, b)) /\ Range(Touch(c, b).order) = Range(c.order)
<1> DEFINE s == Without(c.order, b)
<1>1. s \in Seq(Blocks) /\ IsInjective(s) /\ Range(s) = Range(c.order) \ {b}
  BY WithoutOthers DEF OrderOK, IsCached
<1>2. Touch(c, b) = [order |-> Append(s, b), size |-> c.size]
  BY DEF Touch, OrderOK
<1> HIDE DEF s
<1>3. /\ Append(s, b) \in Seq(Blocks) /\ IsInjective(Append(s, b))
      /\ Range(Append(s, b)) = Range(s) \cup {b}
  BY <1>1, AppendOthers
<1>4. /\ Touch(c, b).order = Append(s, b)
      /\ Touch(c, b) = [order |-> Touch(c, b).order, size |-> Touch(c, b).size]
  BY <1>2, Fields
<1>5. OrderOK(Touch(c, b))
  BY <1>3, <1>4 DEF OrderOK
<1>6. Range(Touch(c, b).order) = Range(c.order)
  BY <1>1, <1>3, <1>4 DEF IsCached
<1> QED
  BY <1>5, <1>6

LEMMA PutAddsAtMost ==
  ASSUME NEW c, OrderOK(c), NEW b \in Blocks
  PROVE  /\ OrderOK(CachePut(c, b))
         /\ Range(CachePut(c, b).order) \subseteq Range(c.order) \cup {b}
<1> DEFINE more == Inserted(c, b)
           n == Evictions(more)
<1>1. OrderOK(more) /\ Range(more.order) = Range(c.order) \cup {b}
  <2>1. CASE IsCached(c, b)
    BY <2>1 DEF Inserted, OrderOK, IsCached
  <2>2. CASE ~IsCached(c, b)
    BY <2>2, AppendOthers DEF Inserted, OrderOK, IsCached
  <2> QED
    BY <2>1, <2>2
<1>2. n \in 0..Len(more.order)
  BY <1>1, EvictionsInRange
<1>3. CachePut(c, b) = Evict(more, n)
  BY DEF CachePut
<1> HIDE DEF more, n
<1>4. /\ SubSeq(more.order, n + 1, Len(more.order)) \in Seq(Blocks)
      /\ IsInjective(SubSeq(more.order, n + 1, Len(more.order)))
      /\ Range(SubSeq(more.order, n + 1, Len(more.order))) \subseteq Range(more.order)
  BY <1>1, <1>2, SuffixOthers DEF OrderOK
<1>5. /\ CachePut(c, b).order = SubSeq(more.order, n + 1, Len(more.order))
      /\ CachePut(c, b) = [order |-> CachePut(c, b).order, size |-> CachePut(c, b).size]
  <2> DEFINE left == SubSeq(more.order, n + 1, Len(more.order))
             size == (more.size - Bytes(SubSeq(more.order, 1, n))) % Wrap
  <2>1. CachePut(c, b) = [order |-> left, size |-> size]
    BY <1>3, Zenon DEF Evict
  <2> HIDE DEF left, size
  <2>2. /\ CachePut(c, b).order = left
        /\ CachePut(c, b) = [order |-> CachePut(c, b).order,
                              size |-> CachePut(c, b).size]
    BY <2>1, Fields
  <2> QED
    BY <2>2 DEF left
<1> QED
  BY <1>1, <1>4, <1>5 DEF OrderOK

LEMMA DelRemoves ==
  ASSUME NEW c, OrderOK(c), NEW b \in Blocks
  PROVE  OrderOK(CacheDel(c, b)) /\ Range(CacheDel(c, b).order) = Range(c.order) \ {b}
<1>1. CASE IsCached(c, b)
  <2> DEFINE s == Without(c.order, b)
  <2>1. s \in Seq(Blocks) /\ IsInjective(s) /\ Range(s) = Range(c.order) \ {b}
    BY <1>1, WithoutOthers DEF OrderOK, IsCached
  <2>2. CacheDel(c, b) = [order |-> s, size |-> c.size]
    BY <1>1 DEF CacheDel, OrderOK
  <2> HIDE DEF s
  <2> QED
    BY <2>1, <2>2 DEF OrderOK
<1>2. CASE ~IsCached(c, b)
  BY <1>2 DEF CacheDel, IsCached
<1> QED
  BY <1>1, <1>2

-----------------------------------------------------------------------------
(* Sizes *)

SizesOf(s) == [i \in DOMAIN s |-> SizeOf[s[i]]]

LEMMA SizesAre ==
  ASSUME NEW s \in Seq(Blocks)
  PROVE  /\ SizesOf(s) \in Seq(Nat) /\ Len(SizesOf(s)) = Len(s)
         /\ \A i \in 1..Len(s) : SizesOf(s)[i] = SizeOf[s[i]]
         /\ Bytes(s) = Total(SizesOf(s)) /\ Bytes(s) \in Nat
<1>1. SizeOf \in [Blocks -> Nat]
  BY BlockCacheAssumption
<1>2. /\ SizesOf(s) \in Seq(Nat) /\ Len(SizesOf(s)) = Len(s)
      /\ \A i \in 1..Len(s) : SizesOf(s)[i] = SizeOf[s[i]]
  BY <1>1 DEF SizesOf
<1>3. Total(SizesOf(s)) \in Nat
  BY <1>2, PartialSumsExist, TotalIs
<1>4. Bytes(s) = Total(SizesOf(s))
  BY DEF Bytes, SizesOf
<1> QED
  BY <1>2, <1>3, <1>4

LEMMA BytesAppend ==
  ASSUME NEW s \in Seq(Blocks), NEW b \in Blocks
  PROVE  Bytes(Append(s, b)) = Bytes(s) + SizeOf[b]
<1>1. SizeOf[b] \in Nat
  BY BlockCacheAssumption
<1>2. Append(s, b) \in Seq(Blocks)
  OBVIOUS
<1>3. SizesOf(Append(s, b)) = Append(SizesOf(s), SizeOf[b])
  BY SizesAre, <1>1, <1>2, SeqEqual DEF SizesOf
<1>4. SizesOf(s) \in Seq(Nat) /\ Bytes(s) = Total(SizesOf(s))
  BY SizesAre
<1>5. Bytes(Append(s, b)) = Total(SizesOf(Append(s, b)))
  BY <1>2, SizesAre
<1>6. Total(Append(SizesOf(s), SizeOf[b])) = Total(SizesOf(s)) + SizeOf[b]
  BY ONLY <1>1, <1>4, TotalAppend
<1> QED
  BY ONLY <1>3, <1>4, <1>5, <1>6

LEMMA SizesSub ==
  ASSUME NEW s \in Seq(Blocks), NEW m \in 1..(Len(s) + 1), NEW n \in 0..Len(s)
  PROVE  SizesOf(SubSeq(s, m, n)) = SubSeq(SizesOf(s), m, n)
BY SizesAre DEF SizesOf

LEMMA SizesConcat ==
  ASSUME NEW s \in Seq(Blocks), NEW t \in Seq(Blocks)
  PROVE  SizesOf(s \o t) = SizesOf(s) \o SizesOf(t)
<1> DEFINE u == SizesOf(s)
           v == SizesOf(t)
<1>a. Len(s) \in Nat /\ Len(t) \in Nat
  OBVIOUS
<1>1. /\ s \o t \in Seq(Blocks) /\ Len(s \o t) = Len(s) + Len(t)
      /\ \A i \in 1..(Len(s) + Len(t)) :
           (s \o t)[i] = IF i <= Len(s) THEN s[i] ELSE t[i - Len(s)]
  BY ConcatProperties
<1>2. /\ SizesOf(s \o t) \in Seq(Nat) /\ Len(SizesOf(s \o t)) = Len(s) + Len(t)
      /\ \A i \in 1..(Len(s) + Len(t)) : SizesOf(s \o t)[i] = SizeOf[(s \o t)[i]]
  BY <1>1, SizesAre
<1>3. /\ u \in Seq(Nat) /\ Len(u) = Len(s)
      /\ \A i \in 1..Len(s) : u[i] = SizeOf[s[i]]
      /\ v \in Seq(Nat) /\ Len(v) = Len(t)
      /\ \A i \in 1..Len(t) : v[i] = SizeOf[t[i]]
  BY SizesAre
<1> HIDE DEF u, v
<1>4. /\ u \o v \in Seq(Nat) /\ Len(u \o v) = Len(u) + Len(v)
      /\ \A i \in 1..(Len(u) + Len(v)) :
           (u \o v)[i] = IF i <= Len(u) THEN u[i] ELSE v[i - Len(u)]
  BY <1>3, ConcatProperties
<1>5. ASSUME NEW i \in 1..(Len(s) + Len(t)) PROVE SizesOf(s \o t)[i] = (u \o v)[i]
  <2>1. SizesOf(s \o t)[i] = SizeOf[(s \o t)[i]]
    BY <1>2
  <2>2. CASE i <= Len(s)
    <3>1. i \in 1..Len(s) /\ (s \o t)[i] = s[i] /\ (u \o v)[i] = u[i]
      BY <1>a, <1>1, <1>3, <1>4, <2>2
    <3> QED
      BY <1>3, <2>1, <3>1
  <2>3. CASE ~(i <= Len(s))
    <3>1. i - Len(s) \in 1..Len(t)
      BY <1>a, <2>3
    <3>2. (s \o t)[i] = t[i - Len(s)] /\ (u \o v)[i] = v[i - Len(s)]
      BY <1>a, <1>1, <1>3, <1>4, <2>3
    <3> QED
      BY <1>3, <2>1, <3>1, <3>2
  <2> QED
    BY <2>2, <2>3
<1>6. SizesOf(s \o t) = u \o v
  <2>1. Len(u \o v) = Len(s) + Len(t)
    BY <1>3, <1>4
  <2> QED
    BY <1>2, <1>4, <1>5, <2>1, SeqEqual
<1> QED
  BY <1>6 DEF u, v

\* An eviction splits the blocks into those that go and those that stay.
LEMMA BytesSplit ==
  ASSUME NEW s \in Seq(Blocks), NEW n \in 0..Len(s)
  PROVE  /\ Bytes(s) = Bytes(SubSeq(s, 1, n)) + Bytes(SubSeq(s, n + 1, Len(s)))
         /\ Bytes(SubSeq(s, 1, n)) \in Nat
         /\ Bytes(SubSeq(s, n + 1, Len(s))) \in Nat
<1>1. /\ SubSeq(s, 1, n) \in Seq(Blocks)
      /\ SubSeq(s, n + 1, Len(s)) \in Seq(Blocks)
  OBVIOUS
<1>2. /\ SizesOf(SubSeq(s, 1, n)) = SubSeq(SizesOf(s), 1, n)
      /\ SizesOf(SubSeq(s, n + 1, Len(s))) = SubSeq(SizesOf(s), n + 1, Len(s))
  <2>1. /\ 1 \in 1..(Len(s) + 1) /\ n + 1 \in 1..(Len(s) + 1)
        /\ n \in 0..Len(s) /\ Len(s) \in 0..Len(s)
    OBVIOUS
  <2> QED
    BY <2>1, SizesSub, Zenon
<1>3. SizesOf(s) \in Seq(Nat) /\ Len(SizesOf(s)) = Len(s)
  BY SizesAre
<1>4. Total(SizesOf(s)) = Total(SubSeq(SizesOf(s), 1, n))
                            + Total(SubSeq(SizesOf(s), n + 1, Len(s)))
  BY <1>3, TotalSplit
<1> QED
  BY <1>1, <1>2, <1>4, SizesAre

\* A block that is removed takes its size with it.
LEMMA BytesWithout ==
  ASSUME NEW s \in Seq(Blocks), NEW b \in Range(s)
  PROVE  Bytes(s) = Bytes(Without(s, b)) + SizeOf[b]
<1> DEFINE p == CHOOSE i \in DOMAIN s : s[i] = b
           front == SubSeq(s, 1, p - 1)
           back == SubSeq(s, p + 1, Len(s))
<1>1. p \in 1..Len(s) /\ s[p] = b
  BY DEF Range
<1>2. Without(s, b) = front \o back
  BY DEF Without, RemoveAt
<1> HIDE DEF p
<1>3. front \in Seq(Blocks) /\ back \in Seq(Blocks)
  BY <1>1
<1>4. /\ SizesOf(front) = SubSeq(SizesOf(s), 1, p - 1)
      /\ SizesOf(back) = SubSeq(SizesOf(s), p + 1, Len(s))
  <2>1. /\ 1 \in 1..(Len(s) + 1) /\ p + 1 \in 1..(Len(s) + 1)
        /\ p - 1 \in 0..Len(s) /\ Len(s) \in 0..Len(s)
    BY <1>1
  <2> QED
    BY <2>1, SizesSub, Zenon
<1> HIDE DEF front, back
<1>5. SizesOf(front \o back) = SizesOf(front) \o SizesOf(back)
  BY <1>3, SizesConcat
<1>6. SizesOf(s) \in Seq(Nat) /\ Len(SizesOf(s)) = Len(s) /\ SizesOf(s)[p] = SizeOf[b]
  BY <1>1, SizesAre
<1>7. Total(SizesOf(s)) = Total(SizesOf(front) \o SizesOf(back)) + SizesOf(s)[p]
  BY <1>1, <1>4, <1>6, TotalRemove
<1>8. front \o back \in Seq(Blocks)
  BY <1>3
<1> QED
  BY <1>2, <1>5, <1>6, <1>7, <1>8, SizesAre

-----------------------------------------------------------------------------
(* The size that the cache believes it has *)

\* What the cache may hold and one more block can be counted in a size_t.
RoomBelowWrap == \A b \in Blocks : CacheSize + SizeOf[b] < Wrap

\* What is too small to wrap around does not.
LEMMA ModSmall == \A n \in Nat : n < Wrap => n % Wrap = n
BY BlockCacheAssumption

LEMMA ModType == \A n \in Int : n % Wrap \in 0..(Wrap - 1)
BY BlockCacheAssumption

\* The cache counts at least the blocks that it holds, and no more than it may.
CacheFits(c) ==
  /\ c.size \in Nat /\ c.size <= CacheSize
  /\ Bytes(c.order) <= c.size

LEMMA EvictFields ==
  ASSUME NEW c, NEW n
  PROVE  /\ Evict(c, n).order = SubSeq(c.order, n + 1, Len(c.order))
         /\ Evict(c, n).size = (c.size - Bytes(SubSeq(c.order, 1, n))) % Wrap
BY Zenon DEF Evict

\* An eviction takes no more off than what was counted.
LEMMA EvictCounts ==
  ASSUME NEW c, OrderOK(c), c.size \in Nat, c.size < Wrap,
         Bytes(c.order) <= c.size, NEW n \in 0..Len(c.order)
  PROVE  /\ Evict(c, n).size = c.size - Bytes(SubSeq(c.order, 1, n))
         /\ Evict(c, n).size \in Nat
         /\ Bytes(Evict(c, n).order) <= Evict(c, n).size
<1> DEFINE front == Bytes(SubSeq(c.order, 1, n))
           back == Bytes(SubSeq(c.order, n + 1, Len(c.order)))
<1>1. Bytes(c.order) = front + back /\ front \in Nat /\ back \in Nat
  BY BytesSplit DEF OrderOK
<1>2. Evict(c, n).size = (c.size - front) % Wrap /\ Bytes(Evict(c, n).order) = back
  BY EvictFields, Zenon
<1> HIDE DEF front, back
<1>3. c.size - front \in Nat /\ c.size - front < Wrap /\ back <= c.size - front
  BY <1>1, BlockCacheAssumption
<1>4. Evict(c, n).size = c.size - front
  BY <1>2, <1>3, ModSmall
<1> QED
  BY <1>2, <1>3, <1>4 DEF front

\* Evicting goes on until the size is right or nothing is left.
LEMMA EvictsEnough ==
  ASSUME NEW c, OrderOK(c)
  PROVE  Evict(c, Evictions(c)).size <= CacheSize \/ Evictions(c) = Len(c.order)
<1> DEFINE S == {n \in 0..Len(c.order) :
                   Evict(c, n).size <= CacheSize \/ n = Len(c.order)}
<1>1. Len(c.order) \in S
  BY DEF OrderOK
<1>2. S \in SUBSET Nat /\ S # {}
  BY <1>1
<1>3. Min(S) \in S
  BY <1>2, LeastIsMember
<1> QED
  BY <1>3 DEF Evictions

LEMMA InsertedFields ==
  ASSUME NEW c, OrderOK(c), NEW b \in Blocks
  PROVE  /\ OrderOK(Inserted(c, b))
         /\ Inserted(c, b).size = (c.size + SizeOf[b]) % Wrap
         /\ ~IsCached(c, b) => Inserted(c, b).order = Append(c.order, b)
         /\ IsCached(c, b) => Inserted(c, b).order = c.order
<1>1. CASE IsCached(c, b)
  BY <1>1 DEF Inserted, OrderOK, IsCached
<1>2. CASE ~IsCached(c, b)
  BY <1>2, AppendOthers DEF Inserted, OrderOK, IsCached
<1> QED
  BY <1>1, <1>2

\* What is counted without being inserted is there already, so that evicting all
\* of it leaves no more than there was.
LEMMA PutFits ==
  ASSUME RoomBelowWrap, NEW c, OrderOK(c), CacheFits(c), NEW b \in Blocks
  PROVE  CacheFits(CachePut(c, b))
<1> DEFINE more == Inserted(c, b)
           n == Evictions(more)
<1>a. SizeOf[b] \in Nat /\ CacheSize \in Nat /\ Bytes(c.order) \in Nat
  BY BlockCacheAssumption, SizesAre DEF OrderOK
<1>1. OrderOK(more) /\ more.size = c.size + SizeOf[b] /\ more.size < Wrap
  <2>1. c.size + SizeOf[b] \in Nat /\ c.size + SizeOf[b] < Wrap
    BY <1>a, BlockCacheAssumption DEF RoomBelowWrap, CacheFits
  <2> QED
    BY <2>1, ModSmall, InsertedFields
<1>2. /\ Bytes(more.order) <= more.size
      /\ more.size <= CacheSize + Bytes(more.order)
  <2>1. CASE IsCached(c, b)
    <3>1. /\ Bytes(c.order) = Bytes(Without(c.order, b)) + SizeOf[b]
          /\ Bytes(Without(c.order, b)) \in Nat
      BY <2>1, BytesWithout, WithoutOthers, SizesAre DEF OrderOK, IsCached
    <3>2. more.order = c.order
      BY <2>1, InsertedFields
    <3> HIDE DEF more
    <3> QED
      BY <1>a, <1>1, <3>1, <3>2 DEF CacheFits
  <2>2. CASE ~IsCached(c, b)
    <3>1. more.order = Append(c.order, b)
      BY <2>2, InsertedFields
    <3>2. Bytes(more.order) = Bytes(c.order) + SizeOf[b]
      BY <3>1, BytesAppend DEF OrderOK
    <3> HIDE DEF more
    <3> QED
      BY <1>a, <1>1, <3>2 DEF CacheFits
  <2> QED
    BY <2>1, <2>2
<1>3. n \in 0..Len(more.order)
  BY <1>1, EvictionsInRange
<1>4. Evict(more, n).size <= CacheSize \/ n = Len(more.order)
  BY <1>1, EvictsEnough
<1>5. CachePut(c, b) = Evict(more, n)
  BY DEF CachePut
<1>6. more.size \in Nat
  BY <1>a, <1>1 DEF CacheFits
<1>7. more.order \in Seq(Blocks)
  BY <1>1 DEF OrderOK
<1> HIDE DEF more, n
<1>8. /\ Evict(more, n).size = more.size - Bytes(SubSeq(more.order, 1, n))
      /\ Evict(more, n).size \in Nat
      /\ Bytes(Evict(more, n).order) <= Evict(more, n).size
  BY <1>1, <1>2, <1>3, <1>6, EvictCounts
<1>9. Evict(more, n).size <= CacheSize
  <2>1. CASE n = Len(more.order)
    <3>1. SubSeq(more.order, 1, n) = more.order
      BY <1>7, <2>1
    <3>2. Bytes(more.order) \in Nat
      BY <1>7, SizesAre
    <3>3. Evict(more, n).size = more.size - Bytes(more.order)
      BY <1>8, <3>1
    <3>4. more.size - Bytes(more.order) <= CacheSize
      BY <1>a, <1>2, <1>6, <3>2
    <3> QED
      BY <3>3, <3>4
  <2> QED
    BY <1>4, <2>1
<1> QED
  BY <1>5, <1>8, <1>9 DEF CacheFits

LEMMA EmptyFits == CacheFits(EmptyCache)
<1>1. EmptyCache.order = <<>> /\ EmptyCache.size = 0
  BY DEF EmptyCache
<1>2. Bytes(<<>>) = 0
  <2>1. <<>> \in Seq(Blocks) /\ Len(<<>>) = 0
    OBVIOUS
  <2>2. SizesOf(<<>>) \in Seq(Nat) /\ Len(SizesOf(<<>>)) = 0
    BY <2>1, SizesAre
  <2>3. SizesOf(<<>>) = <<>>
    BY <2>2
  <2> QED
    BY <2>1, <2>3, SizesAre, TotalEmpty
<1> QED
  BY <1>1, <1>2, BlockCacheAssumption DEF CacheFits

LEMMA TouchFits ==
  ASSUME NEW c, OrderOK(c), CacheFits(c), NEW b \in Blocks, IsCached(c, b)
  PROVE  CacheFits(Touch(c, b))
<1> DEFINE s == Without(c.order, b)
<1>1. s \in Seq(Blocks) /\ Bytes(c.order) = Bytes(s) + SizeOf[b]
  BY BytesWithout, WithoutOthers DEF OrderOK, IsCached
<1>2. Touch(c, b).order = Append(s, b) /\ Touch(c, b).size = c.size
  BY Zenon DEF Touch
<1> HIDE DEF s
<1>3. Bytes(Append(s, b)) = Bytes(s) + SizeOf[b]
  BY <1>1, BytesAppend
<1> QED
  BY <1>1, <1>2, <1>3 DEF CacheFits

LEMMA DelFits ==
  ASSUME NEW c, OrderOK(c), CacheFits(c), NEW b \in Blocks
  PROVE  CacheFits(CacheDel(c, b))
<1>1. CASE IsCached(c, b)
  <2> DEFINE s == Without(c.order, b)
  <2>1. s \in Seq(Blocks) /\ Bytes(c.order) = Bytes(s) + SizeOf[b]
    BY <1>1, BytesWithout, WithoutOthers DEF OrderOK, IsCached
  <2>2. CacheDel(c, b).order = s /\ CacheDel(c, b).size = c.size
    BY <1>1, Zenon DEF CacheDel
  <2> HIDE DEF s
  <2>3. Bytes(s) \in Nat /\ SizeOf[b] \in Nat
    BY <2>1, SizesAre, BlockCacheAssumption
  <2> QED
    BY <2>1, <2>2, <2>3 DEF CacheFits
<1>2. CASE ~IsCached(c, b)
  BY <1>2 DEF CacheDel
<1> QED
  BY <1>1, <1>2

-----------------------------------------------------------------------------
(* The calls *)

LEMMA InitHonest == Init => HonestInv
<1> SUFFICES ASSUME Init PROVE HonestInv
  OBVIOUS
<1>1. Range(cache.order) = {} /\ OrderOK(cache)
  BY DEF Init, EmptyCache, OrderOK, IsInjective, Range
<1>2. CallOK
  BY DEF Init, CallOK, Ops, Answers
<1> QED
  BY <1>1, <1>2 DEF Init, HonestInv, CacheHonest, AnswersHold

\* A call that is over asks for nothing.
LEMMA DoneOK == Done => CallOK' /\ AnswersHold' /\ got' = {}
<1> SUFFICES ASSUME Done PROVE CallOK' /\ AnswersHold'
  BY DEF Done
<1>1. CallOK'
  BY DEF Done, CallOK, Ops, Answers
<1>2. AnswersHold'
  BY DEF Done, AnswersHold
<1> QED
  BY <1>1, <1>2

\* What a block's answer is worth does not depend on its place in the list.
LEMMA CollectsRest ==
  ASSUME CallOK, AnswersHold, NEW said, Collects(said),
         op' = op, ask' = ask, got' = got \/ op = "get",
         bucket' \cup gone' = bucket \cup gone \/ op = "del"
  PROVE  CallOK' /\ AnswersHold' /\ Head(list) \in Blocks
         /\ (op \in {"get", "put"} /\ said = "ok" => Head(list) \in bucket \cup gone)
<1>1. /\ list \in Seq(Blocks) /\ list # <<>>
      /\ answer \in Seq(Answers) /\ Len(answer) = Len(list)
      /\ list' = Tail(list) /\ answer' = Tail(answer)
  BY DEF Collects, CallOK
<1>2. /\ list' \in Seq(Blocks) /\ Len(list') = Len(list) - 1
      /\ answer' \in Seq(Answers) /\ Len(answer') = Len(list) - 1
      /\ \A i \in 1..(Len(list) - 1) :
           list'[i] = list[i + 1] /\ answer'[i] = answer[i + 1]
      /\ Head(list) = list[1] /\ Head(answer) = answer[1] /\ 1 \in DOMAIN list
  BY <1>1
<1>3. CallOK'
  BY <1>2 DEF CallOK
<1>4. AnswersHold'
  BY <1>1, <1>2 DEF AnswersHold
<1> QED
  BY <1>1, <1>2, <1>3, <1>4 DEF AnswersHold, Collects

LEMMA NextHonest == HonestInv /\ [Next]_vars => HonestInv'
<1> SUFFICES ASSUME HonestInv, [Next]_vars PROVE HonestInv'
  OBVIOUS
<1> USE DEF HonestInv
<1>1. ASSUME NEW ids \in Lists, Get(ids) PROVE HonestInv'
  <2>1. ids \in Seq(Blocks)
    BY ListsAssumption
  <2>2. CallOK' /\ CacheHonest'
    BY <1>1, <2>1 DEF Get, CallOK, Ops, CacheHonest
  <2>3. AnswersHold'
    BY <1>1 DEF Get, CallOK, AnswersHold
  <2> QED
    BY <1>1, <2>2, <2>3 DEF Get
<1>2. ASSUME NEW ids \in Lists, NEW kind \in {"put", "del"}, Request(kind, ids)
      PROVE  HonestInv'
  <2>1. ids \in Seq(Blocks)
    BY ListsAssumption
  <2>2. answer' \in Seq(Answers) /\ Len(answer') = Len(ids)
    BY <1>2, <2>1 DEF Request, Answers
  <2>3. CallOK'
    BY <1>2, <2>1, <2>2 DEF Request, CallOK, Ops
  <2>4. AnswersHold' /\ CacheHonest'
    BY <1>2, <2>1 DEF Request, AnswersHold, CacheHonest
  <2> QED
    BY <1>2, <2>3, <2>4 DEF Request
<1>3. CASE Ask
  <2> DEFINE b == Head(ask)
  <2>1. /\ b \in Blocks /\ ask' \in Seq(Blocks) /\ op' = op /\ op = "get"
        /\ bucket' = bucket /\ gone' = gone
    BY <1>3 DEF Ask, CallOK
  <2>2. CASE IsCached(cache, b)
    <3>1. /\ cache' = Touch(cache, b) /\ got' = got \cup {b}
          /\ list' = list /\ answer' = answer
      BY <1>3, <2>2 DEF Ask
    <3>2. OrderOK(cache)' /\ Range(cache'.order) = Range(cache.order)
      BY <2>1, <2>2, <3>1, TouchKeeps DEF OrderOK
    <3>3. CacheHonest'
      BY <2>1, <2>2, <3>1, <3>2 DEF CacheHonest, IsCached
    <3> QED
      BY <2>1, <3>1, <3>2, <3>3 DEF CallOK, AnswersHold
  <2>3. CASE ~IsCached(cache, b)
    <3>1. /\ list' = Append(list, b) /\ answer' = Append(answer, "sent")
          /\ cache' = cache /\ got' = got
      BY <1>3, <2>3 DEF Ask
    <3>2. CallOK'
      BY <2>1, <3>1 DEF CallOK, Answers
    <3>3. AnswersHold'
      BY <2>1, <3>1 DEF AnswersHold, CallOK
    <3> QED
      BY <2>1, <3>1, <3>2, <3>3 DEF CacheHonest
  <2> QED
    BY <2>2, <2>3
<1>4. ASSUME NEW i \in DOMAIN list, Serve(i) PROVE HonestInv'
  <2>1. PICK said \in {"ok", "fail"} :
          /\ Handled(list[i], said)
          /\ answer' = [answer EXCEPT ![i] = said]
    BY <1>4 DEF Serve
  <2>2. /\ list' = list /\ op' = op /\ ask' = ask /\ got' = got /\ cache' = cache
    BY <1>4 DEF Serve
  <2>3. bucket \cup gone \subseteq bucket' \cup gone'
    BY <2>1 DEF Handled, Appears, Vanishes
  <2>4. op \in {"get", "put"} /\ said = "ok" => list[i] \in bucket' \cup gone'
    BY <2>1 DEF Handled, Appears, Vanishes
  <2>5. CallOK'
    BY <2>1, <2>2 DEF CallOK, Answers
  <2>6. AnswersHold'
    BY <2>1, <2>2, <2>3, <2>4 DEF AnswersHold, CallOK
  <2> QED
    BY <2>2, <2>3, <2>5, <2>6 DEF CacheHonest
<1>5. CASE CollectGet
  <2>1. CallOK' /\ AnswersHold' /\ Head(list) \in Blocks /\ Head(list) \in bucket \cup gone
    BY <1>5, CollectsRest DEF CollectGet
  <2>2. /\ OrderOK(cache)'
        /\ Range(cache'.order) \subseteq Range(cache.order) \cup {Head(list)}
    BY <1>5, <2>1, PutAddsAtMost DEF CollectGet, OrderOK
  <2> QED
    BY <1>5, <2>1, <2>2 DEF CollectGet, CacheHonest
<1>6. CASE GetThrows
  BY <1>6, DoneOK DEF GetThrows, CacheHonest
<1>7. CASE CollectPut
  <2>1. CallOK' /\ AnswersHold' /\ Head(list) \in Blocks /\ Head(list) \in bucket \cup gone
    BY <1>7, CollectsRest DEF CollectPut
  <2>2. /\ OrderOK(cache)'
        /\ Range(cache'.order) \subseteq Range(cache.order) \cup {Head(list)}
    BY <1>7, <2>1, PutAddsAtMost DEF CollectPut, OrderOK
  <2> QED
    BY <1>7, <2>1, <2>2 DEF CollectPut, CacheHonest
<1>8. CASE CollectDel
  <2>1. CallOK' /\ AnswersHold' /\ Head(list) \in Blocks
    BY <1>8, CollectsRest DEF CollectDel
  <2>2. /\ OrderOK(cache)'
        /\ Range(cache'.order) = Range(cache.order) \ {Head(list)}
    BY <1>8, <2>1, DelRemoves DEF CollectDel, OrderOK
  <2>3. got' = {}
    BY <1>8 DEF CollectDel, CallOK
  <2> QED
    BY <1>8, <2>1, <2>2, <2>3 DEF CollectDel, CacheHonest
<1>9. CASE CollectFailure
  BY <1>9, CollectsRest DEF CollectFailure, CacheHonest
<1>10. CASE Return
  BY <1>10, DoneOK DEF Return, CacheHonest
<1>11. ASSUME NEW b \in Blocks, Elsewhere(b) PROVE HonestInv'
  <2>1. bucket \cup gone \subseteq bucket' \cup gone'
    BY <1>11 DEF Elsewhere, Appears, Vanishes
  <2> QED
    BY <1>11, <2>1 DEF Elsewhere, callVars, CallOK, CacheHonest, AnswersHold
<1>12. CASE Restart
  <2>1. CallOK' /\ AnswersHold' /\ got' = {} /\ cache' = EmptyCache
    BY <1>12, DoneOK DEF Restart
  <2>2. Range(cache'.order) = {} /\ OrderOK(cache)'
    BY <2>1 DEF EmptyCache, OrderOK, IsInjective, Range
  <2> QED
    BY <2>1, <2>2 DEF CacheHonest
<1>13. CASE UNCHANGED vars
  BY <1>13 DEF vars, callVars, CallOK, CacheHonest, AnswersHold
<1> QED
  BY <1>1, <1>2, <1>3, <1>4, <1>5, <1>6, <1>7, <1>8, <1>9, <1>10, <1>11, <1>12,
     <1>13 DEF Next, Proceed

\* A put leaves a size that a size_t can have, whatever the sizes of the blocks.
LEMMA PutSize ==
  ASSUME NEW c, OrderOK(c), c.size \in Nat, NEW b \in Blocks
  PROVE  CachePut(c, b).size \in 0..(Wrap - 1)
<1> DEFINE more == Inserted(c, b)
           n == Evictions(more)
<1>1. OrderOK(more) /\ more.size \in Nat
  <2>1. c.size + SizeOf[b] \in Int
    BY BlockCacheAssumption
  <2>2. OrderOK(more) /\ more.size \in 0..(Wrap - 1)
    BY <2>1, InsertedFields, ModType
  <2> QED
    BY <2>2, BlockCacheAssumption
<1>2. n \in 0..Len(more.order)
  BY <1>1, EvictionsInRange
<1>3. CachePut(c, b) = Evict(more, n)
  BY DEF CachePut
<1> HIDE DEF more, n
<1>4. Bytes(SubSeq(more.order, 1, n)) \in Nat
  BY <1>1, <1>2, BytesSplit DEF OrderOK
<1>5. more.size - Bytes(SubSeq(more.order, 1, n)) \in Int
  BY <1>1, <1>4
<1> QED
  BY <1>3, <1>5, EvictFields, ModType

\* The parts of TypeOK that HonestInv does not say already.
BucketType ==
  /\ bucket \subseteq Blocks /\ gone \subseteq Blocks /\ got \subseteq Blocks
  /\ cache.size \in 0..(Wrap - 1)

LEMMA EmptyCacheType == EmptyCache.size = 0 /\ 0 \in 0..(Wrap - 1)
BY BlockCacheAssumption DEF EmptyCache

LEMMA NextType == HonestInv /\ BucketType /\ [Next]_vars => BucketType'
<1> SUFFICES ASSUME HonestInv, BucketType, [Next]_vars PROVE BucketType'
  OBVIOUS
<1> USE DEF BucketType
<1>a. cache.size \in Nat /\ OrderOK(cache)
  BY BlockCacheAssumption DEF HonestInv
<1>b. /\ list \in Seq(Blocks) /\ ask \in Seq(Blocks)
      /\ list # <<>> => Head(list) \in Blocks
      /\ ask # <<>> => Head(ask) \in Blocks
  BY DEF HonestInv, CallOK
<1>1. ASSUME NEW ids \in Lists, Get(ids) PROVE BucketType'
  BY <1>1 DEF Get
<1>2. ASSUME NEW ids \in Lists, NEW kind \in {"put", "del"}, Request(kind, ids)
      PROVE  BucketType'
  BY <1>2 DEF Request
<1>3. CASE Ask
  <2>1. CASE IsCached(cache, Head(ask))
    <3>1. cache' = Touch(cache, Head(ask)) /\ got' = got \cup {Head(ask)}
          /\ bucket' = bucket /\ gone' = gone
      BY <1>3, <2>1 DEF Ask
    <3>2. cache'.size = cache.size
      BY <3>1 DEF Touch
    <3> QED
      BY <1>3, <1>b, <3>1, <3>2 DEF Ask
  <2>2. CASE ~IsCached(cache, Head(ask))
    BY <1>3, <2>2 DEF Ask
  <2> QED
    BY <2>1, <2>2
<1>4. ASSUME NEW i \in DOMAIN list, Serve(i) PROVE BucketType'
  <2>1. list[i] \in Blocks
    BY <1>b
  <2> QED
    BY <1>4, <2>1 DEF Serve, Handled, Appears, Vanishes
<1>5. CASE CollectGet
  <2>1. cache' = CachePut(cache, Head(list)) /\ Head(list) \in Blocks
    BY <1>5, <1>b DEF CollectGet, Collects
  <2>2. cache'.size \in 0..(Wrap - 1)
    BY <1>a, <2>1, PutSize
  <2> QED
    BY <1>5, <2>1, <2>2 DEF CollectGet
<1>6. CASE GetThrows
  BY <1>6 DEF GetThrows, Done
<1>7. CASE CollectPut
  <2>1. cache' = CachePut(cache, Head(list)) /\ Head(list) \in Blocks
    BY <1>7, <1>b DEF CollectPut, Collects
  <2>2. cache'.size \in 0..(Wrap - 1)
    BY <1>a, <2>1, PutSize
  <2> QED
    BY <1>7, <2>2 DEF CollectPut
<1>8. CASE CollectDel
  <2>1. cache'.size = cache.size
    BY <1>8 DEF CollectDel, CacheDel
  <2> QED
    BY <1>8, <2>1 DEF CollectDel
<1>9. CASE CollectFailure
  BY <1>9 DEF CollectFailure
<1>10. CASE Return
  BY <1>10 DEF Return, Done
<1>11. ASSUME NEW b \in Blocks, Elsewhere(b) PROVE BucketType'
  BY <1>11 DEF Elsewhere, callVars, Appears, Vanishes
<1>12. CASE Restart
  <2>1. cache' = EmptyCache /\ got' = {}
    BY <1>12 DEF Restart, Done
  <2>2. PICK S \in SUBSET {list[i] : i \in {j \in DOMAIN list : answer[j] = "sent"}} :
          CASE op = "put" -> bucket' = bucket \cup S /\ gone' = gone \ S
            [] op = "del" -> bucket' = bucket \ S /\ gone' = gone \cup S
            [] OTHER      -> UNCHANGED <<bucket, gone>>
    BY <1>12 DEF Restart
  <2>3. S \subseteq Blocks
    BY <1>b
  <2>4. bucket' \subseteq Blocks /\ gone' \subseteq Blocks
    BY <2>2, <2>3
  <2> QED
    BY <2>1, <2>4, EmptyCacheType
<1>13. CASE UNCHANGED vars
  BY <1>13 DEF vars, callVars
<1> QED
  BY <1>1, <1>2, <1>3, <1>4, <1>5, <1>6, <1>7, <1>8, <1>9, <1>10, <1>11, <1>12,
     <1>13 DEF Next, Proceed

\* The size of the cache changes where it is put to or emptied, and nowhere else.
LEMMA NextFits ==
  ASSUME RoomBelowWrap
  PROVE  HonestInv /\ CacheFits(cache) /\ [Next]_vars => CacheFits(cache)'
<1> SUFFICES ASSUME HonestInv, CacheFits(cache), [Next]_vars PROVE CacheFits(cache')
  BY DEF CacheFits, Bytes
<1>a. /\ OrderOK(cache)
      /\ list # <<>> => Head(list) \in Blocks
      /\ ask # <<>> => Head(ask) \in Blocks
  BY DEF HonestInv, CallOK
<1>1. CASE cache' = cache
  BY <1>1
<1>2. CASE Ask /\ cache' # cache
  <2>1. /\ IsCached(cache, Head(ask)) /\ ask # <<>>
        /\ cache' = Touch(cache, Head(ask))
    BY <1>2 DEF Ask
  <2> QED
    BY <1>a, <2>1, TouchFits
<1>3. CASE CollectGet \/ CollectPut
  <2>1. list # <<>> /\ cache' = CachePut(cache, Head(list))
    BY <1>3 DEF CollectGet, CollectPut, Collects
  <2> QED
    BY <1>a, <2>1, PutFits
<1>4. CASE CollectDel
  <2>1. list # <<>> /\ cache' = CacheDel(cache, Head(list))
    BY <1>4 DEF CollectDel, Collects
  <2> QED
    BY <1>a, <2>1, DelFits
<1>5. CASE Restart
  <2>1. cache' = EmptyCache
    BY <1>5 DEF Restart
  <2> QED
    BY <2>1, EmptyFits
<1> QED
  BY <1>1, <1>2, <1>3, <1>4, <1>5
  DEF Next, Proceed, Get, Request, Serve, GetThrows, CollectFailure, Return,
      Elsewhere, vars

\* What the cache holds and what a call returns is in the bucket, or was deleted
\* by another process or by a delete that was not reported as done.
THEOREM AlwaysHonest == Spec => []CacheHonest
<1>1. HonestInv => CacheHonest
  BY DEF HonestInv
<1> QED
  BY <1>1, InitHonest, NextHonest, PTL DEF Spec

\* The cache holds no block twice, so that removing it once removes it.
THEOREM AlwaysOnce == Spec => []IsInjective(cache.order)
<1>1. HonestInv => IsInjective(cache.order)
  BY DEF HonestInv, OrderOK
<1> QED
  BY <1>1, InitHonest, NextHonest, PTL DEF Spec

\* The type invariant: in particular the size of the cache stays a size_t.
THEOREM TypeCorrect == Spec => []TypeOK
<1>1. Init => BucketType
  BY EmptyCacheType DEF Init, BucketType
<1>2. HonestInv /\ BucketType => TypeOK
  BY DEF HonestInv, BucketType, OrderOK, CallOK, TypeOK
<1> QED
  BY <1>1, <1>2, InitHonest, NextHonest, NextType, PTL DEF Spec

LEMMA FitsInvariant ==
  ASSUME RoomBelowWrap
  PROVE  Spec => [](HonestInv /\ CacheFits(cache))
<1>1. Init => CacheFits(cache)
  BY EmptyFits DEF Init
<1>2. HonestInv /\ CacheFits(cache) /\ [Next]_vars => CacheFits(cache)'
  BY NextFits
<1> QED
  BY <1>1, <1>2, InitHonest, NextHonest, PTL DEF Spec

\* The cache never counts less than it holds, so that no eviction takes its size
\* below zero, if the cache and a block can be counted in a size_t at all.
THEOREM AlwaysCovered ==
  ASSUME RoomBelowWrap
  PROVE  Spec => []SizeCovered
<1>1. CacheFits(cache) => SizeCovered
  BY DEF CacheFits, SizeCovered
<1>2. Spec => [](HonestInv /\ CacheFits(cache))
  BY FitsInvariant
<1> QED
  BY <1>1, <1>2, PTL

\* The cache holds no more than it may, under the same assumption, though its
\* size drifts away from that of its blocks.
THEOREM AlwaysBounded ==
  ASSUME RoomBelowWrap
  PROVE  Spec => []CacheBounded
<1>1. HonestInv /\ CacheFits(cache) => CacheBounded
  <2> SUFFICES ASSUME HonestInv, CacheFits(cache) PROVE CacheBounded
    OBVIOUS
  <2>1. Bytes(cache.order) \in Nat /\ IsInjective(cache.order)
    BY SizesAre DEF HonestInv, OrderOK
  <2> QED
    BY <2>1, BlockCacheAssumption DEF CacheFits, CacheBounded
<1>2. Spec => [](HonestInv /\ CacheFits(cache))
  BY FitsInvariant
<1> QED
  BY <1>1, <1>2, PTL
=============================================================================
