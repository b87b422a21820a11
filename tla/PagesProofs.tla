----------------------------- MODULE PagesProofs -----------------------------
(***************************************************************************)
(* Pages, proved for keys and values of any sizes and nodes of any number  *)
(* of items: the count of bytes that a leaf keeps is right however it came *)
(* about, a page that was stored in full is read back as the node it was   *)
(* made of, and one that was cut short is refused.                         *)
(***************************************************************************)
EXTENDS Pages, ListsProofs

-----------------------------------------------------------------------------
(* Folds over a sequence, from the left *)

\* The two things that Pages folds over a sequence of edits.
StepOf(what, acc, edit) ==
  IF what = "values" THEN AddValue(acc, edit) ELSE CountedMerge(acc, edit)

\* What the fold computes over the indices of edits up to n.
Folding(it, what, base, edits, n) ==
  it = [T \in SUBSET (1..n) |->
          IF T = {} THEN base
          ELSE StepOf(what, it[T \ {Max(T)}], edits[Max(T)])]

\* It is defined: each step takes the largest index off.
LEMMA FoldingExists ==
  ASSUME NEW what, NEW base, NEW edits, NEW N \in Nat
  PROVE  \E it : Folding(it, what, base, edits, N)
<1> DEFINE Good == {n \in 0..N : \E it : Folding(it, what, base, edits, n)}
<1>1. 0 \in Good
  <2>1. SUBSET (1..0) = {{}}
    OBVIOUS
  <2>2. Folding([T \in SUBSET (1..0) |-> base], what, base, edits, 0)
    BY <2>1 DEF Folding
  <2> QED
    BY <2>2
<1>2. ASSUME NEW n \in 1..N, n - 1 \in Good PROVE n \in Good
  <2>1. PICK it : Folding(it, what, base, edits, n - 1)
    BY <1>2
  <2> DEFINE g == [T \in SUBSET (1..n) |->
                     IF n \in T THEN StepOf(what, it[T \ {n}], edits[n]) ELSE it[T]]
  <2>2. ASSUME NEW T \in SUBSET (1..n)
        PROVE  g[T] = IF T = {} THEN base
                      ELSE StepOf(what, g[T \ {Max(T)}], edits[Max(T)])
    <3>1. CASE T = {}
      BY <2>1, <3>1 DEF Folding
    <3>2. CASE n \in T
      <4>1. Max(T) = n
        BY <3>2, MaxUpTo
      <4>2. T \ {n} \in SUBSET (1..n) /\ n \notin T \ {n}
        OBVIOUS
      <4> QED
        BY <3>2, <4>1, <4>2
    <3>3. CASE T # {} /\ n \notin T
      <4>a. \A x \in T : x \in 1..(n - 1)
        BY <3>3
      <4>1. T \in SUBSET (1..(n - 1)) /\ T \ {Max(T)} \in SUBSET (1..n)
        BY <4>a
      <4>2. it[T] = StepOf(what, it[T \ {Max(T)}], edits[Max(T)])
        BY <2>1, <3>3, <4>1 DEF Folding
      <4> QED
        BY <3>3, <4>1, <4>2
    <3> QED BY <3>1, <3>2, <3>3
  <2>3. Folding(g, what, base, edits, n)
    BY <2>2 DEF Folding
  <2> QED
    BY <2>3
<1> HIDE DEF Good
<1>3. 0..N \subseteq Good
  BY <1>1, <1>2, UpToInduction
<1> QED
  BY <1>3 DEF Good

\* Its values for the first elements, one after the other.
LEMMA FoldingStart ==
  ASSUME NEW what, NEW base, NEW edits, NEW N \in Nat, NEW it,
         Folding(it, what, base, edits, N)
  PROVE  it[1..0] = base
<1>1. 1..0 = {} /\ {} \in SUBSET (1..N)
  OBVIOUS
<1> QED
  BY <1>1 DEF Folding

LEMMA FoldingStep ==
  ASSUME NEW what, NEW base, NEW edits, NEW N \in Nat, NEW it,
         Folding(it, what, base, edits, N), NEW i \in 1..N
  PROVE  it[1..i] = StepOf(what, it[1..(i - 1)], edits[i])
<1>1. i \in 1..i /\ \A j \in 1..i : j \in 1..N
  OBVIOUS
<1>2. 1..i \in SUBSET (1..N) /\ 1..i # {}
  BY <1>1
<1>3. Max(1..i) = i
  BY MaxUpTo
<1>4. (1..i) \ {i} = 1..(i - 1)
  OBVIOUS
<1> QED
  BY <1>2, <1>3, <1>4 DEF Folding

\* The values of a queue, one edit after the other.
LEMMA QueueValuesAre ==
  ASSUME NEW queue, NEW N \in Nat, DOMAIN queue = 1..N
  PROVE  \E f : /\ f[0] = <<>>
                /\ \A i \in 1..N : f[i] = AddValue(f[i - 1], queue[i])
                /\ QueueValues(queue) = f[N]
<1>0. PICK none : none = <<>>
  OBVIOUS
<1>1. PICK it : /\ Folding(it, "values", none, queue, N)
                /\ QueueValues(queue) = it[1..N]
  <2>1. \E it : Folding(it, "values", none, queue, N)
    BY FoldingExists
  <2> QED
    BY <1>0, <2>1 DEF QueueValues, FoldLeft, MapThenFoldSet, Folding, StepOf
<1> DEFINE f == [i \in 0..N |-> it[1..i]]
<1>2. f[0] = <<>> /\ QueueValues(queue) = f[N]
  <2>1. it[1..0] = none
    BY <1>1, FoldingStart
  <2> QED
    BY <1>0, <1>1, <2>1
<1>3. ASSUME NEW i \in 1..N PROVE f[i] = AddValue(f[i - 1], queue[i])
  <2>1. it[1..i] = StepOf("values", it[1..(i - 1)], queue[i])
    BY <1>1, FoldingStep
  <2> QED
    BY <2>1 DEF StepOf
<1> QED
  BY <1>2, <1>3

AllMerged(base, edits) == FoldLeft(CountedMerge, base, edits)

\* A counted merge, one edit after the other.
LEMMA CountedMergesAre ==
  ASSUME NEW base, NEW edits, NEW N \in Nat, DOMAIN edits = 1..N
  PROVE  \E f : /\ f[0] = base
                /\ \A i \in 1..N : f[i] = CountedMerge(f[i - 1], edits[i])
                /\ AllMerged(base, edits) = f[N]
<1>1. PICK it : /\ Folding(it, "merge", base, edits, N)
                /\ AllMerged(base, edits) = it[1..N]
  <2>1. \E it : Folding(it, "merge", base, edits, N)
    BY FoldingExists
  <2> QED
    BY <2>1 DEF AllMerged, FoldLeft, MapThenFoldSet, Folding, StepOf
<1> DEFINE f == [i \in 0..N |-> it[1..i]]
<1>2. f[0] = base /\ AllMerged(base, edits) = f[N]
  <2>1. it[1..0] = base
    BY <1>1, FoldingStart
  <2> QED
    BY <1>1, <2>1
<1>3. ASSUME NEW i \in 1..N PROVE f[i] = CountedMerge(f[i - 1], edits[i])
  <2>1. it[1..i] = StepOf("merge", it[1..(i - 1)], edits[i])
    BY <1>1, FoldingStep
  <2> QED
    BY <2>1 DEF StepOf
<1> QED
  BY <1>2, <1>3

-----------------------------------------------------------------------------
(* Pairs and their bytes *)

LEMMA ItemsAre ==
  /\ Keys \subseteq Nat /\ Values \subseteq Nat
  /\ \A k \in Keys : KeySizeOf[k] \in Nat /\ KeySizeOf[k] > 0
  /\ \A v \in Values : ValueBytes(v) \in Nat /\ ValueBytes(v) > 0
  /\ ValueBytes(NoValue) = 0
<1> QED
  BY PagesAssumption DEF ValueBytes, NoValue

LEMMA BytesOfItems ==
  /\ \A x \in Pairs : x.key \in Nat /\ x.key \in Keys /\ x.val \in Values
                      /\ ItemBytes(x) \in Nat
  /\ \A e \in Edits : e.key \in Nat /\ e.key \in Keys /\ ItemBytes(e) \in Nat
                      /\ e.val \in Values \cup {NoValue}
                      /\ (e.op # "removeKey" => e.val \in Values)
                      /\ e.op \in {"insert", "upsert", "removeKV", "removeKey"}
<1>1. ASSUME NEW x \in Pairs
      PROVE  x.key \in Nat /\ x.key \in Keys /\ x.val \in Values /\ ItemBytes(x) \in Nat
  <2>1. x.key \in Keys /\ x.val \in Values
    BY DEF Pairs
  <2>2. KeySizeOf[x.key] \in Nat /\ ValueBytes(x.val) \in Nat /\ x.key \in Nat
    BY <2>1, ItemsAre
  <2> QED
    BY <2>1, <2>2 DEF ItemBytes
<1>2. ASSUME NEW e \in Edits
      PROVE  /\ e.key \in Nat /\ e.key \in Keys
             /\ e.val \in Values \cup {NoValue}
             /\ (e.op # "removeKey" => e.val \in Values)
             /\ e.op \in {"insert", "upsert", "removeKV", "removeKey"}
  BY ItemsAre DEF Edits
<1>3. ASSUME NEW e \in Edits PROVE ItemBytes(e) \in Nat
  <2>1. KeySizeOf[e.key] \in Nat
    BY <1>2, ItemsAre
  <2>2. CASE e.val \in Values
    <3>1. ValueBytes(e.val) \in Nat
      BY <2>2, ItemsAre
    <3> QED
      BY ONLY <2>1, <3>1 DEF ItemBytes
  <2>3. CASE e.val = NoValue
    <3>1. ItemBytes(e) = KeySizeOf[e.key] + 0
      BY <2>3 DEF ItemBytes, ValueBytes
    <3> QED
      BY <2>1, <3>1
  <2> QED
    BY <1>2, <2>2, <2>3
<1> QED
  BY <1>1, <1>2, <1>3

SizesOf(pairs) == [i \in DOMAIN pairs |-> ItemBytes(pairs[i])]

LEMMA SizesAre ==
  ASSUME NEW s \in Seq(Pairs)
  PROVE  /\ SizesOf(s) \in Seq(Nat) /\ Len(SizesOf(s)) = Len(s)
         /\ \A i \in 1..Len(s) : SizesOf(s)[i] = ItemBytes(s[i])
         /\ PairBytes(s) = Total(SizesOf(s)) /\ PairBytes(s) \in Nat
<1>1. \A i \in 1..Len(s) : s[i] \in Pairs
  OBVIOUS
<1>2. /\ SizesOf(s) \in Seq(Nat) /\ Len(SizesOf(s)) = Len(s)
      /\ \A i \in 1..Len(s) : SizesOf(s)[i] = ItemBytes(s[i])
  BY <1>1, BytesOfItems DEF SizesOf
<1>3. Total(SizesOf(s)) \in Nat
  BY <1>2, PartialSumsExist, TotalIs
<1>4. PairBytes(s) = Total(SizesOf(s))
  BY DEF PairBytes, SizesOf
<1> QED
  BY <1>2, <1>3, <1>4

LEMMA BytesConcat ==
  ASSUME NEW s \in Seq(Pairs), NEW t \in Seq(Pairs)
  PROVE  PairBytes(s \o t) = PairBytes(s) + PairBytes(t)
<1>1. PICK st : st = s \o t
  OBVIOUS
<1>2. /\ st \in Seq(Pairs) /\ Len(st) = Len(s) + Len(t)
      /\ \A i \in 1..Len(s) : st[i] = s[i]
      /\ \A i \in 1..Len(t) : st[Len(s) + i] = t[i]
      /\ Len(s) \in Nat /\ Len(t) \in Nat
  BY <1>1, JoinIs
<1>3. PICK a : a = SizesOf(s)
  OBVIOUS
<1>4. PICK b : b = SizesOf(t)
  OBVIOUS
<1>5. PICK ab : ab = SizesOf(st)
  OBVIOUS
<1>6. /\ a \in Seq(Nat) /\ Len(a) = Len(s) /\ PairBytes(s) = Total(a)
      /\ \A i \in 1..Len(s) : a[i] = ItemBytes(s[i])
  BY <1>3, SizesAre
<1>7. /\ b \in Seq(Nat) /\ Len(b) = Len(t) /\ PairBytes(t) = Total(b)
      /\ \A i \in 1..Len(t) : b[i] = ItemBytes(t[i])
  BY <1>4, SizesAre
<1>8. /\ ab \in Seq(Nat) /\ Len(ab) = Len(st) /\ PairBytes(st) = Total(ab)
      /\ \A i \in 1..Len(st) : ab[i] = ItemBytes(st[i])
  BY <1>2, <1>5, SizesAre
<1>9. /\ \A i \in 1..Len(s) : i \in 1..Len(st)
      /\ \A i \in 1..Len(t) : Len(s) + i \in 1..Len(st)
  BY <1>2
<1>10. /\ \A i \in 1..Len(a) : ab[i] = a[i]
       /\ \A i \in 1..Len(b) : ab[Len(a) + i] = b[i]
  BY <1>2, <1>6, <1>7, <1>8, <1>9
<1>11. ab = a \o b
  <2>1. a \in Seq(Nat) /\ b \in Seq(Nat) /\ ab \in Seq(Nat)
        /\ Len(ab) = Len(a) + Len(b)
    BY <1>2, <1>6, <1>7, <1>8
  <2> QED
    BY ONLY <2>1, <1>10, JoinOf
<1>12. Total(a \o b) = Total(a) + Total(b)
  BY <1>6, <1>7, TotalConcat
<1> QED
  BY <1>1, <1>6, <1>7, <1>8, <1>11, <1>12

LEMMA BytesOfOne ==
  ASSUME NEW x \in Pairs
  PROVE  PairBytes(<<x>>) = ItemBytes(x)
<1>1. <<x>> \in Seq(Pairs) /\ Len(<<x>>) = 1 /\ <<x>>[1] = x
  OBVIOUS
<1>2. ItemBytes(x) \in Nat
  BY BytesOfItems
<1>3. SizesOf(<<x>>) = <<ItemBytes(x)>>
  BY <1>1 DEF SizesOf
<1>4. Total(<<ItemBytes(x)>>) = ItemBytes(x)
  BY <1>2, TotalOne
<1> QED
  BY <1>1, <1>3, <1>4, SizesAre

LEMMA BytesAppend ==
  ASSUME NEW s \in Seq(Pairs), NEW x \in Pairs
  PROVE  PairBytes(Append(s, x)) = PairBytes(s) + ItemBytes(x)
<1>1. Append(s, x) = s \o <<x>> /\ <<x>> \in Seq(Pairs)
  OBVIOUS
<1> QED
  BY <1>1, BytesConcat, BytesOfOne

LEMMA BytesRemove ==
  ASSUME NEW s \in Seq(Pairs), NEW k \in 1..Len(s)
  PROVE  PairBytes(RemoveAt(s, k)) = PairBytes(s) - ItemBytes(s[k])
<1> DEFINE front == SubSeq(s, 1, k - 1)
           back == SubSeq(s, k + 1, Len(s))
<1>1. front \in Seq(Pairs) /\ back \in Seq(Pairs) /\ s[k] \in Pairs
  OBVIOUS
<1>2. SubSeq(s, 1, k) = Append(front, s[k]) /\ SubSeq(s, 1, k) \in Seq(Pairs)
  OBVIOUS
<1>3. s = SubSeq(s, 1, k) \o back
  <2>1. k \in 0..Len(s)
    OBVIOUS
  <2> QED
    BY <2>1, SeqSplit
<1>4. RemoveAt(s, k) = front \o back
  BY DEF RemoveAt
<1> HIDE DEF front, back
<1>5. PairBytes(s) = PairBytes(SubSeq(s, 1, k)) + PairBytes(back)
  BY <1>1, <1>2, <1>3, BytesConcat
<1>6. PairBytes(SubSeq(s, 1, k)) = PairBytes(front) + ItemBytes(s[k])
  BY <1>1, <1>2, BytesAppend
<1>7. PairBytes(front \o back) = PairBytes(front) + PairBytes(back)
  BY <1>1, BytesConcat
<1>8. PairBytes(front) \in Nat /\ PairBytes(back) \in Nat /\ ItemBytes(s[k]) \in Nat
  BY <1>1, SizesAre, BytesOfItems
<1> QED
  BY <1>4, <1>5, <1>6, <1>7, <1>8

LEMMA BytesInsert ==
  ASSUME NEW s \in Seq(Pairs), NEW k \in 1..(Len(s) + 1), NEW x \in Pairs
  PROVE  /\ PairBytes(InsertAt(s, k, x)) = PairBytes(s) + ItemBytes(x)
         /\ InsertAt(s, k, x) = Append(SubSeq(s, 1, k - 1), x) \o SubSeq(s, k, Len(s))
<1> DEFINE front == SubSeq(s, 1, k - 1)
           back == SubSeq(s, k, Len(s))
<1>1. front \in Seq(Pairs) /\ back \in Seq(Pairs) /\ k - 1 \in 0..Len(s) /\ (k - 1) + 1 = k
  OBVIOUS
<1>2. s = front \o back
  BY <1>1, SeqSplit
<1>3. InsertAt(s, k, x) = Append(front, x) \o back
  <2>1. Append(front, x) = front \o <<x>>
    BY <1>1
  <2> QED
    BY <2>1 DEF InsertAt
<1> HIDE DEF front, back
<1>4. PairBytes(s) = PairBytes(front) + PairBytes(back)
  BY <1>1, <1>2, BytesConcat
<1>5. PairBytes(Append(front, x)) = PairBytes(front) + ItemBytes(x)
      /\ Append(front, x) \in Seq(Pairs)
  BY <1>1, BytesAppend
<1>6. PairBytes(Append(front, x) \o back) = PairBytes(Append(front, x)) + PairBytes(back)
  BY <1>1, <1>5, BytesConcat
<1>7. PairBytes(front) \in Nat /\ PairBytes(back) \in Nat /\ ItemBytes(x) \in Nat
  BY <1>1, SizesAre, BytesOfItems
<1> QED
  BY <1>3, <1>4, <1>5, <1>6, <1>7 DEF front, back

\* Another value for one of the pairs.
Revalued(t, s, k, v) == t = [s EXCEPT ![k].val = v]

LEMMA BytesReplace ==
  ASSUME NEW s \in Seq(Pairs), NEW k \in 1..Len(s), NEW v \in Values,
         NEW t, Revalued(t, s, k, v)
  PROVE  /\ t \in Seq(Pairs) /\ Len(t) = Len(s)
         /\ \A i \in 1..Len(s) : t[i].key = s[i].key
         /\ PairBytes(t) = PairBytes(s) - ValueBytes(s[k].val) + ValueBytes(v)
<1>1. t = [s EXCEPT ![k].val = v]
  BY DEF Revalued
<1>2. \A i \in 1..Len(s) : s[i] \in Pairs
  OBVIOUS
<1>3. /\ DOMAIN t = 1..Len(s)
      /\ \A i \in 1..Len(s) : i # k => t[i] = s[i]
      /\ t[k] = [s[k] EXCEPT !.val = v]
  BY <1>1
<1>4. t[k] \in Pairs /\ t[k].key = s[k].key /\ t[k].val = v
  BY <1>2, <1>3 DEF Pairs
<1>5. t \in Seq(Pairs) /\ Len(t) = Len(s)
  <2>1. t = [i \in 1..Len(s) |-> t[i]] /\ Len(s) \in Nat
    <3>1. t = [i \in DOMAIN s |-> IF i = k THEN [s[k] EXCEPT !.val = v] ELSE s[i]]
      BY <1>1
    <3>2. DOMAIN s = 1..Len(s) /\ Len(s) \in Nat
      OBVIOUS
    <3> QED
      BY <3>1, <3>2
  <2>2. \A i \in 1..Len(s) : t[i] \in Pairs
    BY <1>2, <1>3, <1>4
  <2> QED
    BY <2>1, <2>2
<1>6. \A i \in 1..Len(s) : t[i].key = s[i].key
  BY <1>3, <1>4
<1>7. Total(SizesOf(t)) = Total(SizesOf(s)) - SizesOf(s)[k] + SizesOf(t)[k]
  <2>a. PICK a : a = SizesOf(s)
    OBVIOUS
  <2>b. PICK b : b = SizesOf(t)
    OBVIOUS
  <2>1. /\ SizesOf(s) \in Seq(Nat) /\ Len(SizesOf(s)) = Len(s)
        /\ \A i \in 1..Len(s) : SizesOf(s)[i] = ItemBytes(s[i])
    BY SizesAre
  <2>2. /\ SizesOf(t) \in Seq(Nat) /\ Len(SizesOf(t)) = Len(t)
        /\ \A i \in 1..Len(t) : SizesOf(t)[i] = ItemBytes(t[i])
    BY <1>5, SizesAre
  <2>3. \A i \in 1..Len(s) : i # k => SizesOf(t)[i] = SizesOf(s)[i]
    BY <1>3, <1>5, <2>1, <2>2
  <2>4. /\ a \in Seq(Nat) /\ b \in Seq(Nat) /\ Len(b) = Len(a) /\ k \in 1..Len(a)
        /\ \A i \in 1..Len(a) : i # k => b[i] = a[i]
    BY <1>5, <2>a, <2>b, <2>1, <2>2, <2>3
  <2>5. Total(b) = Total(a) - a[k] + b[k]
    BY ONLY <2>4, TotalReplace
  <2> QED
    BY <2>a, <2>b, <2>5
<1>8. SizesOf(s)[k] = ItemBytes(s[k]) /\ SizesOf(t)[k] = ItemBytes(t[k])
  BY <1>5, SizesAre
<1>9. PairBytes(t) = PairBytes(s) - ItemBytes(s[k]) + ItemBytes(t[k])
      /\ PairBytes(s) \in Nat
  BY <1>5, <1>7, <1>8, SizesAre
<1>10. /\ ItemBytes(s[k]) = KeySizeOf[s[k].key] + ValueBytes(s[k].val)
       /\ ItemBytes(t[k]) = KeySizeOf[s[k].key] + ValueBytes(v)
       /\ KeySizeOf[s[k].key] \in Nat /\ ValueBytes(s[k].val) \in Nat
       /\ ValueBytes(v) \in Nat
  BY <1>2, <1>4, ItemsAre, BytesOfItems DEF ItemBytes
<1>11. PairBytes(t) = PairBytes(s) - ValueBytes(s[k].val) + ValueBytes(v)
  BY <1>9, <1>10
<1> QED
  BY <1>1, <1>5, <1>6, <1>11

-----------------------------------------------------------------------------
(* Lists in order *)

LEMMA PairsKeyed == Keyed(Pairs)
<1> QED
  BY BytesOfItems DEF Keyed

\* A list whose neighbours are in order is in order, and the other way round.
LEMMA SortedIs ==
  ASSUME NEW s, Len(s) \in Nat, \A i \in 1..Len(s) : s[i].key \in Nat
  PROVE  Sorted(s) <=> InOrder(s)
<1>1. ASSUME InOrder(s) PROVE Sorted(s)
  <2> SUFFICES ASSUME NEW i \in 2..Len(s) PROVE s[i - 1].key <= s[i].key
    BY DEF Sorted
  <2>1. i - 1 \in 1..Len(s) /\ i \in 1..Len(s) /\ i - 1 <= i
    OBVIOUS
  <2> QED
    BY <1>1, <2>1 DEF InOrder
<1>2. ASSUME Sorted(s), NEW i \in 1..Len(s), NEW j \in 1..Len(s), i <= j
      PROVE  s[i].key <= s[j].key
  <2> DEFINE Good == {d \in 0..(j - i) : s[i].key <= s[i + d].key}
  <2>1. 0 \in Good
    <3>1. i + 0 = i /\ j - i \in Nat
      BY <1>2
    <3>2. PICK a \in Nat : a = s[i].key
      OBVIOUS
    <3> QED
      BY <3>1, <3>2
  <2>2. ASSUME NEW d \in 1..(j - i), d - 1 \in Good PROVE d \in Good
    <3>1. i + d \in 2..Len(s) /\ (i + d) - 1 = i + (d - 1)
          /\ i + d \in 1..Len(s) /\ i + (d - 1) \in 1..Len(s)
      BY <1>2
    <3>2. s[i].key <= s[i + (d - 1)].key
      BY <2>2
    <3>3. s[i + (d - 1)].key <= s[i + d].key
      BY <1>2, <3>1 DEF Sorted
    <3>4. PICK a \in Nat, b \in Nat, c \in Nat :
                 a = s[i].key /\ b = s[i + (d - 1)].key /\ c = s[i + d].key
      BY <3>1
    <3>5. a <= c
      BY <3>2, <3>3, <3>4
    <3> QED
      BY <3>4, <3>5
  <2> HIDE DEF Good
  <2>3. j - i \in Nat
    BY <1>2
  <2>4. 0..(j - i) \subseteq Good
    BY <2>1, <2>2, <2>3, UpToInduction
  <2>5. j - i \in Good /\ i + (j - i) = j
    BY <2>3, <2>4
  <2> QED
    BY <2>5 DEF Good
<1> QED
  BY <1>1, <1>2 DEF InOrder

LEMMA SortedPairs ==
  ASSUME NEW s \in Seq(Pairs)
  PROVE  Sorted(s) <=> InOrder(s)
<1>1. Len(s) \in Nat /\ \A i \in 1..Len(s) : s[i] \in Pairs
  OBVIOUS
<1>2. \A i \in 1..Len(s) : s[i].key \in Nat
  BY <1>1, BytesOfItems
<1> QED
  BY <1>1, <1>2, SortedIs

\* The value of a pair does not matter for the order.
LEMMA OrderReplace ==
  ASSUME NEW s \in Seq(Pairs), InOrder(s), NEW k \in 1..Len(s), NEW v \in Values,
         NEW t, Revalued(t, s, k, v)
  PROVE  InOrder(t)
<1>1. Len(t) = Len(s) /\ \A i \in 1..Len(s) : t[i].key = s[i].key
  BY BytesReplace
<1> QED
  BY <1>1 DEF InOrder

-----------------------------------------------------------------------------
(* Merging an edit *)

\* What a list of pairs must be while edits are merged, and how many bytes its
\* pairs take.
GoodPairs(s, size) == s \in Seq(Pairs) /\ InOrder(s) /\ PairBytes(s) = size

\* The updated pairs stay in order and up to the key of the edit, and take as
\* much more as applyAll adds to its count.
LEMMA UpdatedIs ==
  ASSUME NEW o \in Seq(Pairs), InOrder(o), NEW e \in Edits, UpToKey(o, e.key)
  PROVE  /\ GoodPairs(Updated(o, e), PairBytes(o) + SizeChange(o, e))
         /\ UpToKey(Updated(o, e), e.key)
<1> DEFINE adds == e.op = "insert" \/ (e.op = "upsert" /\ Hits(o, e) = {})
           replaces == e.op = "upsert" /\ Hits(o, e) # {}
           removes == e.op \in {"removeKey", "removeKV"} /\ Hits(o, e) # {}
<1>1. PICK x : x = [key |-> e.key, val |-> e.val]
  OBVIOUS
<1>2. PICK h : h = Max(Hits(o, e))
  OBVIOUS
<1>3. e.op \in {"insert", "upsert", "removeKV", "removeKey"}
      /\ (e.op # "removeKey" => e.val \in Values) /\ e.key \in Keys /\ e.key \in Nat
  BY BytesOfItems
<1>4. CASE adds
  <2>1. x \in Pairs /\ x.key = e.key /\ x.val = e.val
    BY <1>1, <1>3, <1>4 DEF Pairs
  <2>2. Updated(o, e) = Append(o, x)
    BY <1>1, <1>4 DEF Updated
  <2>3. SizeChange(o, e) = ItemBytes(e)
    BY <1>4 DEF SizeChange
  <2>4. ItemBytes(x) = ItemBytes(e)
    BY <2>1 DEF ItemBytes
  <2>5. \A i \in 1..Len(o) : o[i].key <= x.key
    BY <2>1 DEF UpToKey
  <2>6. /\ Append(o, x) \in Seq(Pairs) /\ InOrder(Append(o, x))
        /\ \A i \in 1..Len(Append(o, x)) : Append(o, x)[i].key <= x.key
    BY <2>1, <2>5, OrderAppend, PairsKeyed
  <2>7. PairBytes(Append(o, x)) = PairBytes(o) + ItemBytes(x)
    BY <2>1, BytesAppend
  <2>8. GoodPairs(Updated(o, e), PairBytes(o) + SizeChange(o, e))
    BY <2>2, <2>3, <2>4, <2>6, <2>7 DEF GoodPairs
  <2>9. UpToKey(Updated(o, e), e.key)
    BY <2>1, <2>2, <2>6 DEF UpToKey
  <2> QED
    BY <2>8, <2>9
<1>5. CASE replaces
  <2>1. h \in 1..Len(o) /\ e.val \in Values
    BY <1>2, <1>3, <1>5, HitsAre
  <2>2. Updated(o, e) = [o EXCEPT ![h].val = e.val]
    BY <1>2, <1>5 DEF Updated
  <2>3. SizeChange(o, e) = ValueBytes(e.val) - ValueBytes(o[h].val)
    BY <1>2, <1>5 DEF SizeChange
  <2>4. PICK u : u = [o EXCEPT ![h].val = e.val]
    OBVIOUS
  <2>5. /\ u \in Seq(Pairs) /\ Len(u) = Len(o)
        /\ \A i \in 1..Len(o) : u[i].key = o[i].key
        /\ PairBytes(u) = PairBytes(o) - ValueBytes(o[h].val) + ValueBytes(e.val)
    <3>1. Revalued(u, o, h, e.val)
      BY <2>4 DEF Revalued
    <3> QED
      BY ONLY o \in Seq(Pairs), <2>1, <3>1, BytesReplace
  <2>6. InOrder(u)
    <3>1. Revalued(u, o, h, e.val)
      BY <2>4 DEF Revalued
    <3> QED
      BY <2>1, <3>1, OrderReplace
  <2>7. PairBytes(o) \in Nat /\ ValueBytes(o[h].val) \in Nat /\ ValueBytes(e.val) \in Nat
    <3>1. o[h] \in Pairs
      BY <2>1
    <3>2. o[h].val \in Values
      BY <3>1, BytesOfItems
    <3> QED
      BY <2>1, <3>2, SizesAre, ItemsAre
  <2>8. PairBytes(u) = PairBytes(o) + SizeChange(o, e)
    BY <2>3, <2>5, <2>7
  <2>9. UpToKey(u, e.key)
    BY <2>5 DEF UpToKey
  <2> QED
    BY <2>2, <2>4, <2>5, <2>6, <2>8, <2>9 DEF GoodPairs
<1>6. CASE removes
  <2>1. h \in 1..Len(o)
    BY <1>2, <1>6, HitsAre
  <2>2. Updated(o, e) = RemoveAt(o, h)
    BY <1>2, <1>6 DEF Updated
  <2>3. SizeChange(o, e) = -ItemBytes(o[h])
    BY <1>2, <1>6 DEF SizeChange
  <2>4. PICK u : u = RemoveAt(o, h)
    OBVIOUS
  <2>5. /\ u \in Seq(Pairs) /\ InOrder(u)
        /\ \A i \in 1..Len(u) : \E j \in 1..Len(o) : u[i] = o[j]
    BY <2>1, <2>4, OrderRemove, PairsKeyed
  <2>6. PairBytes(u) = PairBytes(o) - ItemBytes(o[h])
    BY <2>1, <2>4, BytesRemove
  <2>7. PairBytes(o) \in Nat /\ ItemBytes(o[h]) \in Nat
    BY <2>1, SizesAre, BytesOfItems
  <2>8. PairBytes(u) = PairBytes(o) + SizeChange(o, e)
    BY <2>3, <2>6, <2>7
  <2>9. UpToKey(u, e.key)
    BY <2>5 DEF UpToKey
  <2> QED
    BY <2>2, <2>4, <2>5, <2>8, <2>9 DEF GoodPairs
<1>7. CASE ~adds /\ ~replaces /\ ~removes
  <2>1. Updated(o, e) = o
    BY <1>3, <1>7 DEF Updated
  <2>2. SizeChange(o, e) = 0
    BY <1>3, <1>7 DEF SizeChange
  <2>3. PairBytes(o) \in Nat
    BY SizesAre
  <2> QED
    BY <2>1, <2>2, <2>3 DEF GoodPairs
<1> QED
  BY <1>4, <1>5, <1>6, <1>7

\* Pairs behind the edit do not change what it meets.
LEMMA SizeChangeOfFront ==
  ASSUME NEW o \in Seq(Pairs), NEW back \in Seq(Pairs), NEW e \in Edits,
         \A j \in 1..Len(back) :
           back[j].key >= e.key /\ (back[j].key = e.key => e.op = "insert")
  PROVE  SizeChange(o \o back, e) = SizeChange(o, e)
<1>1. PICK all : all = o \o back
  OBVIOUS
<1>2. /\ all \in Seq(Pairs) /\ Len(all) = Len(o) + Len(back)
      /\ \A i \in 1..Len(o) : all[i] = o[i]
      /\ \A i \in 1..Len(back) : all[Len(o) + i] = back[i]
      /\ Len(o) \in Nat /\ Len(back) \in Nat
  BY <1>1, JoinIs
<1>3. CASE e.op = "insert"
  BY <1>3 DEF SizeChange
<1>4. CASE e.op # "insert"
  <2>1. ASSUME NEW i \in Hits(all, e) PROVE i \in Hits(o, e)
    <3>1. i \in 1..(Len(o) + Len(back)) /\ all[i].key = e.key
          /\ (e.op = "removeKV" => all[i].val = e.val)
      BY <1>2 DEF Hits, At
    <3>2. i \in 1..Len(o) \/ \E j \in 1..Len(back) : i = Len(o) + j
      BY <1>2, <3>1, JoinSplits
    <3>3. i \in 1..Len(o)
      BY <1>2, <1>4, <3>1, <3>2
    <3>4. i \in DOMAIN o
      BY <3>3
    <3> QED
      BY <1>2, <3>1, <3>3, <3>4 DEF Hits, At
  <2>2. ASSUME NEW i \in Hits(o, e) PROVE i \in Hits(all, e)
    <3>1. i \in 1..Len(o) /\ o[i].key = e.key /\ (e.op = "removeKV" => o[i].val = e.val)
      BY DEF Hits, At
    <3>2. i \in 1..Len(all)
      BY <1>2, <3>1
    <3>3. i \in DOMAIN all
      BY <1>2, <3>2
    <3> QED
      BY <1>2, <3>1, <3>3 DEF Hits, At
  <2>3. Hits(all, e) = Hits(o, e)
    BY <2>1, <2>2
  <2>4. Hits(o, e) # {} => all[Max(Hits(o, e))] = o[Max(Hits(o, e))]
    BY <1>2, HitsAre
  <2>5. CASE Hits(o, e) = {}
    <3>1. SizeChange(o, e) = IF e.op = "upsert" THEN ItemBytes(e) ELSE 0
      BY <1>4, <2>5 DEF SizeChange
    <3>2. SizeChange(all, e) = IF e.op = "upsert" THEN ItemBytes(e) ELSE 0
      BY <1>4, <2>3, <2>5 DEF SizeChange
    <3> QED
      BY <1>1, <3>1, <3>2
  <2>6. CASE Hits(o, e) # {}
    <3>1. all[Max(Hits(all, e))] = o[Max(Hits(o, e))]
      BY <2>3, <2>4, <2>6
    <3>2. SizeChange(o, e)
            = CASE e.op = "upsert" -> ValueBytes(e.val) - ValueBytes(o[Max(Hits(o, e))].val)
                [] e.op \in {"removeKey", "removeKV"} -> -ItemBytes(o[Max(Hits(o, e))])
      BY <1>4, <2>6, BytesOfItems DEF SizeChange
    <3>3. SizeChange(all, e)
            = CASE e.op = "upsert" -> ValueBytes(e.val) - ValueBytes(o[Max(Hits(o, e))].val)
                [] e.op \in {"removeKey", "removeKV"} -> -ItemBytes(o[Max(Hits(o, e))])
      BY <1>4, <2>3, <2>6, <3>1, BytesOfItems DEF SizeChange
    <3> QED
      BY <1>1, <3>2, <3>3
  <2> QED
    BY <1>1, <2>5, <2>6
<1> QED
  BY <1>1, <1>3, <1>4

LEMMA SizeChangeInt ==
  ASSUME NEW o \in Seq(Pairs), NEW e \in Edits
  PROVE  SizeChange(o, e) \in Int
<1>1. e.op \in {"insert", "upsert", "removeKV", "removeKey"} /\ ItemBytes(e) \in Nat
      /\ (e.op # "removeKey" => ValueBytes(e.val) \in Nat)
  BY BytesOfItems, ItemsAre
<1>2. CASE Hits(o, e) = {}
  BY <1>1, <1>2 DEF SizeChange
<1>3. CASE Hits(o, e) # {}
  <2>1. PICK h : h = Max(Hits(o, e))
    OBVIOUS
  <2>2. h \in 1..Len(o)
    BY <1>3, <2>1, HitsAre
  <2>3. o[h] \in Pairs
    BY <2>2
  <2>4. ItemBytes(o[h]) \in Nat /\ ValueBytes(o[h].val) \in Nat
    BY <2>3, BytesOfItems, ItemsAre
  <2>5. PICK old : old = o[h]
    OBVIOUS
  <2>6. SizeChange(o, e) = CASE e.op = "insert" -> ItemBytes(e)
                             [] e.op = "upsert" -> ValueBytes(e.val) - ValueBytes(old.val)
                             [] e.op \in {"removeKey", "removeKV"} -> -ItemBytes(old)
    BY <1>1, <1>3, <2>1, <2>5 DEF SizeChange
  <2>7. PICK a \in Nat, b \in Nat : a = ItemBytes(old) /\ b = ValueBytes(old.val)
    BY <2>4, <2>5
  <2>8. e.op # "removeKey" => ValueBytes(e.val) - b \in Int
    BY <1>1
  <2> QED
    BY <1>1, <2>6, <2>7, <2>8
<1> QED
  BY <1>2, <1>3

MergeGood(acc, k) ==
  /\ acc.out \in Seq(Pairs) /\ acc.rest \in Seq(Pairs)
  /\ GoodPairs(acc.out \o acc.rest, acc.size)
  /\ UpToKey(acc.out, k)

\* An edit whose key is not below those before it leaves all pairs in order, and
\* their bytes counted.
LEMMA MergeKeeps ==
  ASSUME NEW acc, NEW e \in Edits, MergeGood(acc, e.key)
  PROVE  MergeGood(CountedMerge(acc, e), e.key)
<1>1. PICK out \in Seq(Pairs) : out = acc.out
  BY DEF MergeGood
<1>2. PICK rest \in Seq(Pairs) : rest = acc.rest
  BY DEF MergeGood
<1>3. PICK n : n = Cardinality(Passed(rest, e))
  OBVIOUS
<1>4. PICK front : front = SubSeq(rest, 1, n)
  OBVIOUS
<1>5. PICK back : back = SubSeq(rest, n + 1, Len(rest))
  OBVIOUS
<1>6. PICK o : o = out \o front
  OBVIOUS
<1>7. InOrder(out \o rest) /\ PairBytes(out \o rest) = acc.size /\ UpToKey(out, e.key)
  BY <1>1, <1>2 DEF MergeGood, GoodPairs
<1>8. InOrder(rest) /\ InOrder(out)
  BY <1>7, OrderSplit, PairsKeyed
<1>9. /\ n \in 0..Len(rest)
      /\ \A i \in 1..n : rest[i].key <= e.key
      /\ \A i \in 1..Len(rest) :
           i > n => rest[i].key >= e.key /\ (rest[i].key = e.key => e.op = "insert")
  <2>1. e.key \in Nat
    BY BytesOfItems
  <2> QED
    BY ONLY <1>3, <1>8, <2>1, rest \in Seq(Pairs), PassedAre, PairsKeyed
<1>10. Len(rest) \in Nat /\ n \in Nat /\ n <= Len(rest)
  BY <1>9
<1>11. front \in Seq(Pairs) /\ Len(front) = n /\ \A i \in 1..n : front[i] = rest[i]
  BY <1>4, <1>10
<1>12. /\ back \in Seq(Pairs) /\ Len(back) = Len(rest) - n
       /\ \A i \in 1..(Len(rest) - n) : back[i] = rest[n + i]
  BY <1>5, <1>10
<1>13. rest = front \o back
  BY <1>4, <1>5, <1>9, SeqSplit
<1>14. o \in Seq(Pairs) /\ out \o rest = o \o back
  <2>1. o \in Seq(Pairs)
    BY <1>6, <1>11, JoinIs
  <2>2. (out \o front) \o back = out \o (front \o back)
    <3>1. front \in Seq(Pairs) /\ back \in Seq(Pairs)
      BY <1>11, <1>12
    <3> QED
      BY ONLY out \in Seq(Pairs), <3>1, ConcatAssociative
  <2> QED
    BY <1>6, <1>13, <2>1, <2>2
<1>15. InOrder(o) /\ InOrder(back) /\ PairBytes(o \o back) = acc.size
  BY <1>7, <1>12, <1>14, OrderSplit, PairsKeyed
<1>16. UpToKey(o, e.key)
  <2>1. UpToKey(front, e.key)
    BY <1>9, <1>11 DEF UpToKey
  <2> QED
    BY <1>6, <1>7, <1>11, <2>1, UpToKeyJoin
<1>17. \A j \in 1..Len(back) :
         back[j].key >= e.key /\ (back[j].key = e.key => e.op = "insert")
  <2>1. \A j \in 1..Len(back) : n + j \in 1..Len(rest) /\ n + j > n
    BY <1>10, <1>12
  <2> QED
    BY <1>9, <1>12, <2>1
<1>18. PICK new : new = Updated(o, e)
  OBVIOUS
<1>19. GoodPairs(new, PairBytes(o) + SizeChange(o, e)) /\ UpToKey(new, e.key)
  BY <1>14, <1>15, <1>16, <1>18, UpdatedIs
<1>20. Below(new, back)
  <2>1. \A i \in 1..Len(new) : new[i].key \in Nat
    <3>1. new \in Seq(Pairs)
      BY <1>19 DEF GoodPairs
    <3>2. \A i \in 1..Len(new) : new[i] \in Pairs
      BY <3>1
    <3> QED
      BY <3>2, BytesOfItems
  <2>2. \A i \in 1..Len(back) : back[i].key \in Nat
    <3>1. \A i \in 1..Len(back) : back[i] \in Pairs
      BY <1>12
    <3> QED
      BY <3>1, BytesOfItems
  <2>3. ASSUME NEW i \in 1..Len(new), NEW j \in 1..Len(back) PROVE new[i].key <= back[j].key
    <3>1. PICK a \in Nat, b \in Nat, c \in Nat :
                 a = new[i].key /\ b = back[j].key /\ c = e.key
      BY <2>1, <2>2, BytesOfItems
    <3>2. a <= c /\ b >= c
      BY <1>17, <1>19, <3>1 DEF UpToKey
    <3> QED
      BY <3>1, <3>2
  <2> QED
    BY <2>3 DEF Below
<1>21. new \in Seq(Pairs) /\ InOrder(new) /\ PairBytes(new) = PairBytes(o) + SizeChange(o, e)
  BY <1>19 DEF GoodPairs
<1>22. InOrder(new \o back) /\ new \o back \in Seq(Pairs)
  BY <1>12, <1>15, <1>20, <1>21, OrderJoin, PairsKeyed, JoinIs
<1>23. PairBytes(new \o back) = acc.size + SizeChange(out \o rest, e)
  <2>1. PairBytes(new \o back) = PairBytes(new) + PairBytes(back)
    BY <1>12, <1>21, BytesConcat
  <2>2. acc.size = PairBytes(o) + PairBytes(back)
    BY <1>12, <1>14, <1>15, BytesConcat
  <2>3. SizeChange(out \o rest, e) = SizeChange(o, e)
    BY <1>12, <1>14, <1>17, SizeChangeOfFront
  <2>4. PairBytes(o) \in Nat /\ PairBytes(back) \in Nat /\ PairBytes(new) \in Nat
    BY <1>12, <1>14, <1>21, SizesAre
  <2>5. SizeChange(o, e) \in Int
    BY <1>14, SizeChangeInt
  <2> QED
    BY <1>21, <2>1, <2>2, <2>3, <2>4, <2>5
<1>24. PICK m : m = CountedMerge(acc, e)
  OBVIOUS
<1>25. m.out = new /\ m.rest = back /\ m.size = acc.size + SizeChange(out \o rest, e)
  BY <1>1, <1>2, <1>3, <1>4, <1>5, <1>6, <1>18, <1>24 DEF CountedMerge, MergeEdit
<1>26. MergeGood(m, e.key)
  BY <1>12, <1>19, <1>21, <1>22, <1>23, <1>25 DEF MergeGood, GoodPairs
<1> QED
  BY <1>24, <1>26

\* Nothing has moved yet.
LEMMA MergeStarts ==
  ASSUME NEW pairs \in Seq(Pairs), InOrder(pairs), NEW k, NEW acc,
         acc = [out |-> <<>>, rest |-> pairs, size |-> PairBytes(pairs)]
  PROVE  MergeGood(acc, k)
<1>1. acc.out = <<>> /\ acc.rest = pairs /\ acc.size = PairBytes(pairs)
  OBVIOUS
<1>2. <<>> \o pairs = pairs /\ <<>> \in Seq(Pairs)
  OBVIOUS
<1>3. UpToKey(<<>>, k)
  BY DEF UpToKey
<1> QED
  BY <1>1, <1>2, <1>3 DEF MergeGood, GoodPairs

LEMMA MergeGoodUp ==
  ASSUME NEW acc, NEW k \in Nat, NEW l \in Nat, k <= l, MergeGood(acc, k)
  PROVE  MergeGood(acc, l)
<1>1. PICK out : out = acc.out
  OBVIOUS
<1>2. out \in Seq(Pairs) /\ UpToKey(out, k)
  BY <1>1 DEF MergeGood
<1>3. ASSUME NEW i \in 1..Len(out) PROVE out[i].key <= l
  <2>1. out[i] \in Pairs
    BY <1>2
  <2>2. PICK a \in Nat : a = out[i].key
    BY <2>1, BytesOfItems
  <2>3. a <= k
    BY <1>2, <2>2 DEF UpToKey
  <2> QED
    BY <2>2, <2>3
<1>4. UpToKey(out, l)
  BY <1>3 DEF UpToKey
<1> QED
  BY <1>1, <1>4 DEF MergeGood

\* All edits of a queue, one after the other.
LEMMA MergedAreGood ==
  ASSUME NEW pairs \in Seq(Pairs), InOrder(pairs), NEW edits \in Queues(MaxEdits),
         NEW start, start = [out |-> <<>>, rest |-> pairs, size |-> PairBytes(pairs)],
         NEW merged, merged = AllMerged(start, edits)
  PROVE  GoodPairs(merged.out \o merged.rest, merged.size)
<1>1. PICK N \in Nat : edits \in [1..N -> Edits]
  BY PagesAssumption DEF Queues
<1>2. DOMAIN edits = 1..N /\ Len(edits) = N /\ \A i \in 1..N : edits[i] \in Edits
  <2>1. DOMAIN edits = 1..N /\ \A i \in 1..N : edits[i] \in Edits
    BY <1>1
  <2>2. edits \in Seq(Edits)
    BY <1>1
  <2> QED
    BY <2>1, <2>2
<1>3. \A i \in 2..N : edits[i - 1].key <= edits[i].key
  BY <1>2 DEF Queues, Sorted
<1>4. PICK f : /\ f[0] = start
               /\ \A i \in 1..N : f[i] = CountedMerge(f[i - 1], edits[i])
               /\ merged = f[N]
  BY <1>2, CountedMergesAre
<1> DEFINE Good == {i \in 0..N : /\ i = 0 => f[0] = start
                                 /\ i # 0 => MergeGood(f[i], edits[i].key)}
<1>5. 0 \in Good
  BY <1>4
<1>6. ASSUME NEW i \in 1..N, i - 1 \in Good PROVE i \in Good
  <2>1. PICK e \in Edits : e = edits[i]
    BY <1>2
  <2>2. e.key \in Nat
    BY BytesOfItems
  <2>3. MergeGood(f[i - 1], e.key)
    <3>1. CASE i = 1
      <4>1. f[i - 1] = start
        BY <1>4, <3>1
      <4> QED
        BY <4>1, MergeStarts
    <3>2. CASE i # 1
      <4>1. i \in 2..N /\ i - 1 \in 1..N /\ i - 1 # 0
        BY <3>2
      <4>2. MergeGood(f[i - 1], edits[i - 1].key)
        BY <1>6, <4>1
      <4>3. PICK c \in Edits : c = edits[i - 1]
        BY <1>2, <4>1
      <4>4. c.key <= e.key
        BY <1>3, <2>1, <4>1, <4>3
      <4>5. c.key \in Nat
        BY BytesOfItems
      <4> QED
        BY <2>2, <4>2, <4>3, <4>4, <4>5, MergeGoodUp
    <3> QED BY <3>1, <3>2
  <2>4. MergeGood(CountedMerge(f[i - 1], e), e.key)
    BY <2>3, MergeKeeps
  <2>5. f[i] = CountedMerge(f[i - 1], e)
    BY <1>4, <2>1
  <2> QED
    BY <2>1, <2>4, <2>5
<1>7. N \in Good
  <2> HIDE DEF Good
  <2>1. 0..N \subseteq Good
    BY <1>5, <1>6, UpToInduction
  <2> QED
    BY <2>1
<1>8. CASE N = 0
  <2>1. merged = start
    BY <1>4, <1>8
  <2>2. MergeGood(merged, 0)
    BY <2>1, MergeStarts
  <2> QED
    BY <2>2 DEF MergeGood
<1>9. CASE N # 0
  <2>1. MergeGood(merged, edits[N].key)
    BY <1>4, <1>7, <1>9
  <2> QED
    BY <2>1 DEF MergeGood
<1> QED
  BY <1>8, <1>9

-----------------------------------------------------------------------------
(* Every edit leaves a leaf in order, and its count right *)

LEMMA LeafIs ==
  ASSUME NEW pairs, NEW next \in Links, NEW size, GoodPairs(pairs, size)
  PROVE  /\ Leaf(pairs, next) \in [kind : {"leaf"}, pairs : Seq(Pairs), next : Links]
         /\ Sorted(Leaf(pairs, next).pairs) /\ size = PairBytes(Leaf(pairs, next).pairs)
<1>1. pairs \in Seq(Pairs) /\ InOrder(pairs) /\ PairBytes(pairs) = size
  BY DEF GoodPairs
<1>2. Leaf(pairs, next) \in [kind : {"leaf"}, pairs : Seq(Pairs), next : Links]
      /\ Leaf(pairs, next).pairs = pairs
  BY <1>1 DEF Leaf
<1>3. Sorted(pairs)
  BY <1>1, SortedPairs
<1> QED
  BY <1>1, <1>2, <1>3

\* What a leaf is, as long as NodeInv holds.
LEMMA LeafInMemory ==
  ASSUME NodeInv, node.kind = "leaf"
  PROVE  /\ GoodPairs(node.pairs, bytes) /\ node.next \in Links
         /\ node = Leaf(node.pairs, node.next)
<1>1. node \notin OverflowNodes /\ node \notin InternalNodes
  BY DEF OverflowNodes, InternalNodes
<1>2. /\ node \in [kind : {"leaf"}, pairs : Seq(Pairs), next : Links]
      /\ Sorted(node.pairs) /\ bytes = PairBytes(node.pairs)
  BY <1>1 DEF NodeInv
<1>3. node.pairs \in Seq(Pairs) /\ node.next \in Links
      /\ node = [kind |-> "leaf", pairs |-> node.pairs, next |-> node.next]
  BY <1>2
<1>4. InOrder(node.pairs)
  BY <1>2, <1>3, SortedPairs
<1> QED
  BY <1>2, <1>3, <1>4 DEF GoodPairs, Leaf

LEMMA LeafBecomesKeeps ==
  ASSUME NodeInv, NEW pairs, NEW size, LeafBecomes(pairs, size), GoodPairs(pairs, size)
  PROVE  NodeInv'
<1>1. node.kind = "leaf" /\ node' = [node EXCEPT !.pairs = pairs] /\ bytes' = size
  BY DEF LeafBecomes
<1>2. node.next \in Links /\ node = Leaf(node.pairs, node.next)
  BY <1>1, LeafInMemory
<1>3. node' = Leaf(pairs, node.next)
  <2>1. PICK x : x = node.next
    OBVIOUS
  <2>2. PICK y : y = node.pairs
    OBVIOUS
  <2>3. node = [kind |-> "leaf", pairs |-> y, next |-> x]
    BY <1>2, <2>1, <2>2 DEF Leaf
  <2>4. node' = [kind |-> "leaf", pairs |-> pairs, next |-> x]
    BY <1>1, <2>3
  <2> QED
    BY <2>1, <2>4 DEF Leaf
<1>4. PICK n : n = Leaf(pairs, node.next)
  OBVIOUS
<1>5. /\ n \in [kind : {"leaf"}, pairs : Seq(Pairs), next : Links]
      /\ Sorted(n.pairs) /\ size = PairBytes(n.pairs)
  BY <1>2, <1>4, LeafIs
<1>6. node' = n
  BY <1>3, <1>4
<1> QED
  BY <1>1, <1>5, <1>6 DEF NodeInv

LEMMA InsertedAreGood ==
  ASSUME NEW s \in Seq(Pairs), InOrder(s), NEW x \in Pairs,
         NEW t, t = InsertPair(s, x.key, x.val)
  PROVE  GoodPairs(t, PairBytes(s) + ItemBytes(x))
<1>1. x = [key |-> x.key, val |-> x.val]
  BY DEF Pairs
<1>2. PICK n \in 0..Len(s) : t = InsertAt(s, n + 1, x) /\ t \in Seq(Pairs) /\ InOrder(t)
  BY <1>1, InsertedIs, PairsKeyed
<1>3. n + 1 \in 1..(Len(s) + 1)
  BY <1>2
<1>4. PairBytes(t) = PairBytes(s) + ItemBytes(x)
  BY <1>2, <1>3, BytesInsert
<1> QED
  BY <1>2, <1>4 DEF GoodPairs

LEMMA EditLeafKeeps ==
  ASSUME NodeInv, EditLeaf
  PROVE  NodeInv'
<1>1. node.kind = "leaf"
  BY DEF EditLeaf
<1>2. GoodPairs(node.pairs, bytes)
  BY <1>1, LeafInMemory
<1>3. PICK s : s = node.pairs
  OBVIOUS
<1>4. s \in Seq(Pairs) /\ InOrder(s) /\ PairBytes(s) = bytes /\ bytes \in Nat
  BY <1>2, <1>3, SizesAre DEF GoodPairs
<1>5. ASSUME NEW pair \in Pairs, Insert(pair) PROVE NodeInv'
  <2>1. PICK t : t = InsertPair(s, pair.key, pair.val)
    OBVIOUS
  <2>2. GoodPairs(t, PairBytes(s) + ItemBytes(pair))
    BY <1>4, <2>1, InsertedAreGood
  <2>3. LeafBecomes(t, PairBytes(s) + ItemBytes(pair))
    BY <1>3, <1>4, <1>5, <2>1 DEF Insert
  <2> QED
    BY <2>2, <2>3, LeafBecomesKeeps
<1>6. ASSUME NEW i \in DOMAIN node.pairs, Erase(i) PROVE NodeInv'
  <2>1. i \in 1..Len(s)
    BY <1>3, <1>4
  <2>2. PICK t : t = RemoveAt(s, i)
    OBVIOUS
  <2>3. t \in Seq(Pairs) /\ InOrder(t) /\ PairBytes(t) = PairBytes(s) - ItemBytes(s[i])
    BY <1>4, <2>1, <2>2, OrderRemove, PairsKeyed, BytesRemove
  <2>4. LeafBecomes(t, PairBytes(s) - ItemBytes(s[i]))
    BY <1>3, <1>4, <1>6, <2>2 DEF Erase
  <2> QED
    BY <2>3, <2>4, LeafBecomesKeeps DEF GoodPairs
<1>7. ASSUME NEW i \in DOMAIN node.pairs, NEW v \in Values, UpdateValue(i, v) PROVE NodeInv'
  <2>1. i \in 1..Len(s)
    BY <1>3, <1>4
  <2>2. PICK t : t = [s EXCEPT ![i].val = v]
    OBVIOUS
  <2>3. Revalued(t, s, i, v)
    BY <2>2 DEF Revalued
  <2>4. t \in Seq(Pairs) /\ PairBytes(t) = PairBytes(s) - ValueBytes(s[i].val) + ValueBytes(v)
    BY <1>4, <2>1, <2>3, BytesReplace
  <2>5. InOrder(t)
    BY <1>4, <2>1, <2>3, OrderReplace
  <2>6. LeafBecomes(t, PairBytes(s) - ValueBytes(s[i].val) + ValueBytes(v))
    BY <1>3, <1>4, <1>7, <2>2 DEF UpdateValue
  <2> QED
    BY <2>4, <2>5, <2>6, LeafBecomesKeeps DEF GoodPairs
<1>8. ASSUME NEW edits \in Queues(MaxEdits), ApplyAll(edits) PROVE NodeInv'
  <2>1. PICK start : start = [out |-> <<>>, rest |-> s, size |-> PairBytes(s)]
    OBVIOUS
  <2>2. PICK merged : merged = AllMerged(start, edits)
    OBVIOUS
  <2>3. GoodPairs(merged.out \o merged.rest, merged.size)
    BY <1>4, <2>1, <2>2, MergedAreGood
  <2>4. LeafBecomes(merged.out \o merged.rest, merged.size)
    BY <1>3, <1>8, <2>1, <2>2, Zenon DEF ApplyAll, AllMerged
  <2> QED
    BY <2>3, <2>4, LeafBecomesKeeps
<1> QED
  BY <1>5, <1>6, <1>7, <1>8 DEF EditLeaf

-----------------------------------------------------------------------------
(* Fields *)

Names == {"flags", "count", "edits", "items", "id", "type", "key", "value"}
Ops   == {"insert", "upsert", "removeKV", "removeKey"}

Anything == Nat \cup {"leaf", "overflow", "internal"} \cup Ops

\* The fields whose size is fixed.
FixedSize(what) ==
  CASE what = "flags" -> 2 [] what = "count" -> 4 [] what = "edits" -> 4
    [] what = "items" -> 4 [] what = "id" -> 20 [] what = "type" -> 1

Fixed == {"flags", "count", "edits", "items", "id", "type"}

AField == {f \in [what : Names, is : Anything, bytes : Nat \ {0}] :
             f.what \in Fixed => f.bytes = FixedSize(f.what)}

LEMMA FieldKey ==
  ASSUME NEW k \in Keys
  PROVE  /\ Field("key", k) \in AField
         /\ Field("key", k).what = "key" /\ Field("key", k).is = k
         /\ Field("key", k).bytes = KeySizeOf[k]
<1>1. Field("key", k) = [what |-> "key", is |-> k, bytes |-> KeySizeOf[k]]
  BY DEF Field
<1>2. k \in Nat /\ KeySizeOf[k] \in Nat /\ KeySizeOf[k] > 0
  BY ItemsAre
<1>3. PICK b \in Nat \ {0} : b = KeySizeOf[k]
  BY <1>2
<1>4. k \in Anything /\ "key" \in Names
  BY <1>2 DEF Anything, Names
<1>5. [what |-> "key", is |-> k, bytes |-> b] \in AField
  BY <1>4 DEF AField, Fixed
<1> QED
  BY <1>1, <1>3, <1>5

LEMMA FieldValue ==
  ASSUME NEW v \in Values
  PROVE  /\ Field("value", v) \in AField
         /\ Field("value", v).what = "value" /\ Field("value", v).is = v
         /\ Field("value", v).bytes = ValueBytes(v)
<1>1. Field("value", v) = [what |-> "value", is |-> v, bytes |-> ValueBytes(v)]
  BY DEF Field
<1>2. v \in Nat /\ ValueBytes(v) \in Nat /\ ValueBytes(v) > 0
  BY ItemsAre
<1>3. PICK b \in Nat \ {0} : b = ValueBytes(v)
  BY <1>2
<1>4. v \in Anything /\ "value" \in Names
  BY <1>2 DEF Anything, Names
<1>5. [what |-> "value", is |-> v, bytes |-> b] \in AField
  BY <1>4 DEF AField, Fixed
<1> QED
  BY <1>1, <1>3, <1>5

LEMMA FieldFixed ==
  ASSUME NEW what \in Fixed, NEW v \in Anything
  PROVE  /\ Field(what, v) \in AField
         /\ Field(what, v).what = what /\ Field(what, v).is = v
         /\ Field(what, v).bytes = FixedSize(what)
         /\ Width[what] = FixedSize(what)
<1>1. Width[what] = FixedSize(what)
  BY DEF Fixed, Width, FixedSize
<1>2. Field(what, v) = [what |-> what, is |-> v, bytes |-> FixedSize(what)]
  BY <1>1 DEF Field, Fixed
<1>3. FixedSize(what) \in Nat \ {0} /\ what \in Names
  <2>1. FixedSize(what) \in {1, 2, 4, 20}
    BY DEF Fixed, FixedSize
  <2>2. what \in Names
    BY DEF Fixed, Names
  <2> QED
    BY <2>1, <2>2
<1> QED
  BY <1>1, <1>2, <1>3 DEF AField

BytesIn(s) == [i \in DOMAIN s |-> s[i].bytes]

LEMMA BytesInAre ==
  ASSUME NEW s \in Seq(AField)
  PROVE  /\ BytesIn(s) \in Seq(Nat) /\ Len(BytesIn(s)) = Len(s)
         /\ \A i \in 1..Len(s) : BytesIn(s)[i] = s[i].bytes
         /\ \A i \in 1..Len(s) : BytesIn(s)[i] > 0
         /\ FieldBytes(s) = Total(BytesIn(s)) /\ FieldBytes(s) \in Nat
<1>1. \A i \in 1..Len(s) : s[i] \in AField
  OBVIOUS
<1>2. \A i \in 1..Len(s) : s[i].bytes \in Nat /\ s[i].bytes > 0
  BY <1>1 DEF AField
<1>3. /\ BytesIn(s) \in Seq(Nat) /\ Len(BytesIn(s)) = Len(s)
      /\ \A i \in 1..Len(s) : BytesIn(s)[i] = s[i].bytes
  BY <1>2 DEF BytesIn
<1>4. FieldBytes(s) = Total(BytesIn(s))
  BY DEF FieldBytes, BytesIn
<1>5. Total(BytesIn(s)) \in Nat
  BY <1>3, PartialSumsExist, TotalIs
<1>6. \A i \in 1..Len(s) : BytesIn(s)[i] > 0
  BY <1>2, <1>3
<1> QED
  BY <1>3, <1>4, <1>5, <1>6

LEMMA FieldBytesJoin ==
  ASSUME NEW s \in Seq(AField), NEW t \in Seq(AField)
  PROVE  s \o t \in Seq(AField) /\ FieldBytes(s \o t) = FieldBytes(s) + FieldBytes(t)
<1>1. PICK st : st = s \o t
  OBVIOUS
<1>2. /\ st \in Seq(AField) /\ Len(st) = Len(s) + Len(t)
      /\ \A i \in 1..Len(s) : st[i] = s[i]
      /\ \A i \in 1..Len(t) : st[Len(s) + i] = t[i]
      /\ Len(s) \in Nat /\ Len(t) \in Nat
  BY <1>1, JoinIs
<1>3. PICK a : a = BytesIn(s)
  OBVIOUS
<1>4. PICK b : b = BytesIn(t)
  OBVIOUS
<1>5. PICK ab : ab = BytesIn(st)
  OBVIOUS
<1>6. /\ a \in Seq(Nat) /\ Len(a) = Len(s) /\ FieldBytes(s) = Total(a)
      /\ \A i \in 1..Len(s) : a[i] = s[i].bytes
  BY <1>3, BytesInAre
<1>7. /\ b \in Seq(Nat) /\ Len(b) = Len(t) /\ FieldBytes(t) = Total(b)
      /\ \A i \in 1..Len(t) : b[i] = t[i].bytes
  BY <1>4, BytesInAre
<1>8. /\ ab \in Seq(Nat) /\ Len(ab) = Len(st) /\ FieldBytes(st) = Total(ab)
      /\ \A i \in 1..Len(st) : ab[i] = st[i].bytes
  BY <1>2, <1>5, BytesInAre
<1>9. /\ \A i \in 1..Len(s) : i \in 1..Len(st)
      /\ \A i \in 1..Len(t) : Len(s) + i \in 1..Len(st)
  BY <1>2
<1>10. /\ \A i \in 1..Len(a) : ab[i] = a[i]
       /\ \A i \in 1..Len(b) : ab[Len(a) + i] = b[i]
  <2>1. ASSUME NEW i \in 1..Len(a) PROVE ab[i] = a[i]
    BY <1>2, <1>6, <1>8, <1>9
  <2>2. ASSUME NEW i \in 1..Len(b) PROVE ab[Len(a) + i] = b[i]
    <3>1. st[Len(s) + i] = t[i] /\ Len(s) + i \in 1..Len(st)
      BY <1>2, <1>7, <1>9
    <3>2. b[i] = t[i].bytes
      BY <1>7
    <3>3. ab[Len(s) + i] = st[Len(s) + i].bytes
      BY <1>8, <3>1
    <3> QED
      BY <1>6, <3>1, <3>2, <3>3
  <2> QED
    BY <2>1, <2>2
<1>11. ab = a \o b
  <2>1. a \in Seq(Nat) /\ b \in Seq(Nat) /\ ab \in Seq(Nat)
        /\ Len(ab) = Len(a) + Len(b)
    BY <1>2, <1>6, <1>7, <1>8
  <2> QED
    BY ONLY <2>1, <1>10, JoinOf
<1>12. Total(a \o b) = Total(a) + Total(b)
  BY <1>6, <1>7, TotalConcat
<1> QED
  BY <1>1, <1>2, <1>6, <1>7, <1>8, <1>11, <1>12

\* A run of fields of one kind.
Run(s, what, vals) ==
  /\ s \in Seq(AField) /\ Len(s) = Len(vals)
  /\ \A i \in 1..Len(vals) : s[i] = Field(what, vals[i])
  /\ \A i \in 1..Len(vals) : s[i].what = what /\ s[i].is = vals[i]

LEMMA RunOf ==
  ASSUME NEW what, NEW V, NEW vals \in Seq(V),
         \A v \in V : /\ Field(what, v) \in AField
                      /\ Field(what, v).what = what /\ Field(what, v).is = v
  PROVE  Run(FieldsOf(what, vals), what, vals)
<1>1. PICK s : s = FieldsOf(what, vals)
  OBVIOUS
<1>2. Len(vals) \in Nat /\ \A i \in 1..Len(vals) : vals[i] \in V
  OBVIOUS
<1>3. s = [i \in 1..Len(vals) |-> Field(what, vals[i])]
  <2>1. DOMAIN vals = 1..Len(vals)
    OBVIOUS
  <2> QED
    BY <1>1, <2>1 DEF FieldsOf
<1>4. \A i \in 1..Len(vals) : /\ s[i] = Field(what, vals[i])
                              /\ s[i] \in AField
                              /\ s[i].what = what /\ s[i].is = vals[i]
  BY <1>2, <1>3
<1>5. s \in Seq(AField) /\ Len(s) = Len(vals)
  BY <1>2, <1>3, <1>4
<1> QED
  BY <1>1, <1>4, <1>5 DEF Run

LEMMA RunOfKeys ==
  ASSUME NEW vals \in Seq(Keys)
  PROVE  /\ Run(FieldsOf("key", vals), "key", vals)
         /\ FieldBytes(FieldsOf("key", vals)) = Total([i \in DOMAIN vals |-> KeySizeOf[vals[i]]])
         /\ [i \in DOMAIN vals |-> KeySizeOf[vals[i]]] \in Seq(Nat)
<1>1. Run(FieldsOf("key", vals), "key", vals)
  BY FieldKey, RunOf
<1>2. PICK s : s = FieldsOf("key", vals)
  OBVIOUS
<1>3. s \in Seq(AField) /\ Len(s) = Len(vals)
      /\ \A i \in 1..Len(vals) : s[i] = Field("key", vals[i])
  BY <1>1, <1>2 DEF Run
<1>4. \A i \in 1..Len(vals) : vals[i] \in Keys
  OBVIOUS
<1>5. \A i \in 1..Len(vals) : s[i].bytes = KeySizeOf[vals[i]] /\ KeySizeOf[vals[i]] \in Nat
  BY <1>3, <1>4, FieldKey, ItemsAre
<1>6. DOMAIN vals = 1..Len(vals) /\ DOMAIN s = 1..Len(vals) /\ Len(vals) \in Nat
  BY <1>3
<1>7. BytesIn(s) = [i \in DOMAIN vals |-> KeySizeOf[vals[i]]]
  BY <1>5, <1>6 DEF BytesIn
<1>8. [i \in DOMAIN vals |-> KeySizeOf[vals[i]]] \in Seq(Nat)
  BY <1>5, <1>6
<1> QED
  BY <1>1, <1>2, <1>3, <1>7, <1>8, BytesInAre

LEMMA RunOfValues ==
  ASSUME NEW vals \in Seq(Values)
  PROVE  /\ Run(FieldsOf("value", vals), "value", vals)
         /\ FieldBytes(FieldsOf("value", vals)) = Total([i \in DOMAIN vals |-> ValueBytes(vals[i])])
         /\ [i \in DOMAIN vals |-> ValueBytes(vals[i])] \in Seq(Nat)
<1>1. Run(FieldsOf("value", vals), "value", vals)
  BY FieldValue, RunOf
<1>2. PICK s : s = FieldsOf("value", vals)
  OBVIOUS
<1>3. s \in Seq(AField) /\ Len(s) = Len(vals)
      /\ \A i \in 1..Len(vals) : s[i] = Field("value", vals[i])
  BY <1>1, <1>2 DEF Run
<1>4. \A i \in 1..Len(vals) : vals[i] \in Values
  OBVIOUS
<1>5. \A i \in 1..Len(vals) : s[i].bytes = ValueBytes(vals[i]) /\ ValueBytes(vals[i]) \in Nat
  BY <1>3, <1>4, FieldValue, ItemsAre
<1>6. DOMAIN vals = 1..Len(vals) /\ DOMAIN s = 1..Len(vals) /\ Len(vals) \in Nat
  BY <1>3
<1>7. BytesIn(s) = [i \in DOMAIN vals |-> ValueBytes(vals[i])]
  BY <1>5, <1>6 DEF BytesIn
<1>8. [i \in DOMAIN vals |-> ValueBytes(vals[i])] \in Seq(Nat)
  BY <1>5, <1>6
<1> QED
  BY <1>1, <1>2, <1>3, <1>7, <1>8, BytesInAre

LEMMA RunOfFixed ==
  ASSUME NEW what \in Fixed, NEW vals \in Seq(Anything)
  PROVE  /\ Run(FieldsOf(what, vals), what, vals)
         /\ FieldBytes(FieldsOf(what, vals)) = Len(vals) * FixedSize(what)
<1>1. Run(FieldsOf(what, vals), what, vals)
  BY FieldFixed, RunOf
<1>2. PICK s : s = FieldsOf(what, vals)
  OBVIOUS
<1>3. s \in Seq(AField) /\ Len(s) = Len(vals)
      /\ \A i \in 1..Len(vals) : s[i] = Field(what, vals[i])
  BY <1>1, <1>2 DEF Run
<1>4. \A i \in 1..Len(vals) : vals[i] \in Anything
  OBVIOUS
<1>5. \A i \in 1..Len(vals) : s[i].bytes = FixedSize(what)
  BY <1>3, <1>4, FieldFixed
<1>6. PICK b : b = BytesIn(s)
  OBVIOUS
<1>7. /\ b \in Seq(Nat) /\ Len(b) = Len(s) /\ FieldBytes(s) = Total(b)
      /\ \A i \in 1..Len(s) : b[i] = s[i].bytes
  BY <1>3, <1>6, BytesInAre
<1>8. \A i \in 1..Len(b) : b[i] = FixedSize(what)
  BY <1>3, <1>5, <1>7
<1>9. FixedSize(what) \in Nat
  BY DEF Fixed, FixedSize
<1>10. Total(b) = Len(b) * FixedSize(what)
  BY <1>7, <1>8, <1>9, TotalSame
<1> QED
  BY <1>1, <1>2, <1>3, <1>7, <1>10

-----------------------------------------------------------------------------
(* The values of a queue *)

ValuedUpto(types, i) == Valued(SubSeq(types, 1, i))

LEMMA ValuedIs ==
  ASSUME NEW S, NEW types \in Seq(S), NEW i \in 0..Len(types)
  PROVE  /\ ValuedUpto(types, i) = Cardinality({j \in 1..i : types[j] # "removeKey"})
         /\ ValuedUpto(types, i) \in Nat
         /\ IsFiniteSet({j \in 1..i : types[j] # "removeKey"})
<1>1. i \in Nat /\ i <= Len(types)
  OBVIOUS
<1>2. PICK s : s = SubSeq(types, 1, i)
  OBVIOUS
<1>3. DOMAIN s = 1..i /\ \A j \in 1..i : s[j] = types[j]
  BY <1>1, <1>2
<1>4. {j \in DOMAIN s : s[j] # "removeKey"} = {j \in 1..i : types[j] # "removeKey"}
  BY <1>3
<1>5. IsFiniteSet({j \in 1..i : types[j] # "removeKey"})
  <2>1. IsFiniteSet(1..i)
    BY <1>1, FS_Interval
  <2> QED
    BY <2>1, FS_Subset
<1> QED
  BY <1>2, <1>4, <1>5, FS_CardinalityType DEF ValuedUpto, Valued

LEMMA ValuedStep ==
  ASSUME NEW S, NEW types \in Seq(S)
  PROVE  /\ ValuedUpto(types, 0) = 0
         /\ \A i \in 1..Len(types) :
              ValuedUpto(types, i)
                = ValuedUpto(types, i - 1) + (IF types[i] = "removeKey" THEN 0 ELSE 1)
         /\ ValuedUpto(types, Len(types)) = Valued(types)
<1>0. Len(types) \in Nat
  OBVIOUS
<1>1. ValuedUpto(types, 0) = 0
  <2>1. {j \in 1..0 : types[j] # "removeKey"} = {}
    OBVIOUS
  <2>2. 0 \in 0..Len(types)
    BY <1>0
  <2> QED
    BY <2>1, <2>2, ValuedIs, FS_EmptySet
<1>2. ASSUME NEW i \in 1..Len(types)
      PROVE  ValuedUpto(types, i)
               = ValuedUpto(types, i - 1) + (IF types[i] = "removeKey" THEN 0 ELSE 1)
  <2>1. i \in 0..Len(types) /\ i - 1 \in 0..Len(types) /\ i \notin 1..(i - 1)
        /\ 1..i = (1..(i - 1)) \cup {i}
    BY <1>0
  <2>2. PICK A : A = {j \in 1..i : types[j] # "removeKey"}
    OBVIOUS
  <2>3. PICK B : B = {j \in 1..(i - 1) : types[j] # "removeKey"}
    OBVIOUS
  <2>4. ValuedUpto(types, i) = Cardinality(A) /\ ValuedUpto(types, i - 1) = Cardinality(B)
        /\ IsFiniteSet(B) /\ Cardinality(B) \in Nat
    BY <2>1, <2>2, <2>3, ValuedIs
  <2>5. CASE types[i] = "removeKey"
    <3>1. A = B
      BY <2>1, <2>2, <2>3, <2>5
    <3> QED
      BY <2>4, <2>5, <3>1
  <2>6. CASE types[i] # "removeKey"
    <3>1. A = B \cup {i} /\ i \notin B
      BY <2>1, <2>2, <2>3, <2>6
    <3>2. Cardinality(A) = Cardinality(B) + 1
      BY <2>4, <3>1, FS_AddElement
    <3> QED
      BY <2>4, <2>6, <3>2
  <2> QED BY <2>5, <2>6
<1>3. ValuedUpto(types, Len(types)) = Valued(types)
  <2>1. SubSeq(types, 1, Len(types)) = types
    OBVIOUS
  <2> QED
    BY <2>1 DEF ValuedUpto
<1> QED
  BY <1>1, <1>2, <1>3

ValueSizes(vals) == [i \in DOMAIN vals |-> ValueBytes(vals[i])]

LEMMA ValueSizesAppend ==
  ASSUME NEW s \in Seq(Values), NEW v \in Values
  PROVE  Total(ValueSizes(Append(s, v))) = Total(ValueSizes(s)) + ValueBytes(v)
<1>1. PICK t : t = Append(s, v)
  OBVIOUS
<1>2. /\ Len(s) \in Nat /\ DOMAIN s = 1..Len(s) /\ DOMAIN t = 1..(Len(s) + 1)
      /\ t[Len(s) + 1] = v
      /\ \A i \in 1..Len(s) : t[i] = s[i] /\ s[i] \in Values
  BY <1>1
<1>3. ValueBytes(v) \in Nat /\ \A i \in 1..Len(s) : ValueBytes(s[i]) \in Nat
  BY <1>2, ItemsAre
<1>4. PICK a : a = ValueSizes(s)
  OBVIOUS
<1>5. a \in Seq(Nat) /\ Len(a) = Len(s) /\ \A i \in 1..Len(s) : a[i] = ValueBytes(s[i])
  BY <1>2, <1>3, <1>4 DEF ValueSizes
<1>6. PICK b : b = ValueSizes(t)
  OBVIOUS
<1>7. b = [i \in 1..(Len(s) + 1) |-> ValueBytes(t[i])]
  BY <1>2, <1>6 DEF ValueSizes
<1>8. PICK c : c = Append(a, ValueBytes(v))
  OBVIOUS
<1>9. /\ c = [i \in 1..(Len(s) + 1) |-> c[i]]
      /\ c[Len(s) + 1] = ValueBytes(v) /\ \A i \in 1..Len(s) : c[i] = ValueBytes(s[i])
  <2>1. PICK x \in Nat : x = ValueBytes(v)
    BY <1>3
  <2>2. c \in Seq(Nat) /\ Len(c) = Len(a) + 1 /\ c[Len(a) + 1] = x
        /\ \A i \in 1..Len(a) : c[i] = a[i]
    BY <1>5, <1>8, <2>1
  <2>3. c = [i \in 1..Len(c) |-> c[i]]
    BY <2>2
  <2> QED
    BY <1>5, <2>1, <2>2, <2>3
<1>10. ASSUME NEW i \in 1..(Len(s) + 1) PROVE ValueBytes(t[i]) = c[i]
  <2>1. i \in 1..Len(s) \/ i = Len(s) + 1
    BY <1>2
  <2> QED
    BY <1>2, <1>9, <2>1
<1>11. b = c
  BY <1>7, <1>9, <1>10
<1>12. Total(c) = Total(a) + ValueBytes(v)
  BY <1>3, <1>5, <1>8, TotalAppend
<1> QED
  BY <1>1, <1>4, <1>6, <1>11, <1>12

\* Where the value of an edit is among the values of its queue.
ValuePlaced(vals, queue, types, i) ==
  \A j \in 1..i : queue[j].op # "removeKey" =>
    /\ ValuedUpto(types, j) \in 1..ValuedUpto(types, i)
    /\ vals[ValuedUpto(types, j)] = queue[j].val

LEMMA TypesAre ==
  ASSUME NEW queue \in Seq(Edits), NEW types, types = OpsOf(queue)
  PROVE  /\ types \in Seq(Ops) /\ Len(types) = Len(queue)
         /\ \A j \in 1..Len(queue) : types[j] = queue[j].op
<1>1. \A j \in 1..Len(queue) : queue[j] \in Edits
  OBVIOUS
<1>2. \A j \in 1..Len(queue) : queue[j].op \in Ops
  BY <1>1, BytesOfItems DEF Ops
<1>3. Len(queue) \in Nat /\ types = [j \in 1..Len(queue) |-> queue[j].op]
  BY DEF OpsOf
<1>4. types \in Seq(Ops) /\ Len(types) = Len(queue)
  BY <1>2, <1>3
<1> QED
  BY <1>3, <1>4

LEMMA ValuePlacedStep ==
  ASSUME NEW queue \in Seq(Edits), NEW types, types = OpsOf(queue),
         NEW i \in 1..Len(queue), NEW vals \in Seq(Values),
         ValuePlaced(vals, queue, types, i - 1), Len(vals) = ValuedUpto(types, i - 1)
  PROVE  /\ AddValue(vals, queue[i]) \in Seq(Values)
         /\ Len(AddValue(vals, queue[i])) = ValuedUpto(types, i)
         /\ ValuePlaced(AddValue(vals, queue[i]), queue, types, i)
         /\ Total(ValueSizes(AddValue(vals, queue[i])))
              = Total(ValueSizes(vals)) + ValueBytes(queue[i].val)
         /\ ValueBytes(queue[i].val) \in Nat
<1>0. PICK e \in Edits : e = queue[i]
  OBVIOUS
<1>1. PICK new : new = AddValue(vals, e)
  OBVIOUS
<1>2. PICK m \in Nat : m = Len(vals)
  OBVIOUS
<1>3. types \in Seq(Ops) /\ Len(types) = Len(queue) /\ types[i] = e.op
      /\ \A j \in 1..Len(queue) : types[j] = queue[j].op
  BY <1>0, TypesAre
<1>4. ValuedUpto(types, i - 1) = m
      /\ ValuedUpto(types, i) = m + (IF e.op = "removeKey" THEN 0 ELSE 1)
  BY <1>2, <1>3, ValuedStep
<1>5. \A j \in 1..i : j \in 1..(i - 1) \/ j = i
  OBVIOUS
<1>6. CASE e.op = "removeKey"
  <2>1. new = vals
    BY <1>1, <1>6 DEF AddValue, HasValue
  <2>2. ValuedUpto(types, i) = m
    BY <1>4, <1>6
  <2>3. ValuePlaced(vals, queue, types, i)
    BY <1>0, <1>4, <1>5, <1>6, <2>2 DEF ValuePlaced
  <2>4. ValueBytes(e.val) = 0
    <3>1. e.val = NoValue
      BY <1>6 DEF Edits
    <3> QED
      BY <3>1 DEF ValueBytes
  <2>5. Total(ValueSizes(vals)) \in Nat
    <3>1. ValueSizes(vals) \in Seq(Nat)
      <4>1. \A j \in 1..Len(vals) : vals[j] \in Values
        OBVIOUS
      <4>2. \A j \in 1..Len(vals) : ValueBytes(vals[j]) \in Nat
        BY <4>1, ItemsAre
      <4>3. DOMAIN vals = 1..Len(vals) /\ Len(vals) \in Nat
        OBVIOUS
      <4> QED
        BY <4>2, <4>3 DEF ValueSizes
    <3> QED
      BY <3>1, PartialSumsExist, TotalIs
  <2> QED
    BY <1>0, <1>1, <1>2, <2>1, <2>2, <2>3, <2>4, <2>5
<1>7. CASE e.op # "removeKey"
  <2>1. e.val \in Values /\ new = Append(vals, e.val)
    BY <1>1, <1>7, BytesOfItems DEF AddValue, HasValue
  <2>2. ValuedUpto(types, i) = m + 1
    BY <1>4, <1>7
  <2>3. new \in Seq(Values) /\ Len(new) = m + 1 /\ new[m + 1] = e.val
        /\ \A j \in 1..m : new[j] = vals[j]
    BY <1>2, <2>1
  <2>4. ValuePlaced(new, queue, types, i)
    <3>1. ASSUME NEW j \in 1..i, queue[j].op # "removeKey"
          PROVE  /\ ValuedUpto(types, j) \in 1..(m + 1)
                 /\ new[ValuedUpto(types, j)] = queue[j].val
      <4>1. CASE j = i
        BY <1>0, <2>2, <2>3, <4>1
      <4>2. CASE j \in 1..(i - 1)
        <5>1. PICK c : c = ValuedUpto(types, j)
          OBVIOUS
        <5>2. c \in 1..m /\ vals[c] = queue[j].val
          BY <1>4, <3>1, <4>2, <5>1 DEF ValuePlaced
        <5>3. c \in 1..(m + 1)
          BY <5>2
        <5> QED
          BY <2>3, <5>1, <5>2, <5>3
      <4> QED
        BY <1>5, <4>1, <4>2
    <3> QED
      BY <2>2, <3>1 DEF ValuePlaced
  <2>5. Total(ValueSizes(new)) = Total(ValueSizes(vals)) + ValueBytes(e.val)
        /\ ValueBytes(e.val) \in Nat
    BY <2>1, ValueSizesAppend, ItemsAre
  <2> QED
    BY <1>0, <1>1, <2>2, <2>3, <2>4, <2>5
<1> QED
  BY <1>6, <1>7

\* What the values of a queue are, how many there are, and what they take.
LEMMA ValuesOfQueue ==
  ASSUME NEW queue \in Seq(Edits), NEW types, types = OpsOf(queue),
         NEW vals, vals = QueueValues(queue),
         NEW sizes \in Seq(Nat), Len(sizes) = Len(queue),
         \A i \in 1..Len(queue) : sizes[i] = ValueBytes(queue[i].val)
  PROVE  /\ vals \in Seq(Values) /\ Len(vals) = Valued(types)
         /\ ValuePlaced(vals, queue, types, Len(queue))
         /\ Total(ValueSizes(vals)) = Total(sizes)
<1>0. Len(queue) \in Nat /\ DOMAIN queue = 1..Len(queue)
  OBVIOUS
<1>1. PICK f : /\ f[0] = <<>>
               /\ \A i \in 1..Len(queue) : f[i] = AddValue(f[i - 1], queue[i])
               /\ vals = f[Len(queue)]
  BY <1>0, QueueValuesAre
<1>2. PICK p : PartialSums(p, sizes) /\ Total(sizes) = p[Len(queue)]
  BY PartialSumsExist
<1>3. types \in Seq(Ops) /\ Len(types) = Len(queue)
  BY TypesAre
<1> DEFINE Good == {i \in 0..Len(queue) :
                      /\ f[i] \in Seq(Values) /\ Len(f[i]) = ValuedUpto(types, i)
                      /\ ValuePlaced(f[i], queue, types, i)
                      /\ Total(ValueSizes(f[i])) = p[i]}
<1>4. 0 \in Good
  <2>1. PICK none : none = <<>>
    OBVIOUS
  <2>2. none \in Seq(Values) /\ Len(none) = 0 /\ f[0] = none
    BY <1>1, <2>1
  <2>3. ValuedUpto(types, 0) = 0
    BY <1>3, ValuedStep
  <2>4. ValuePlaced(none, queue, types, 0)
    BY DEF ValuePlaced
  <2>5. ValueSizes(none) = <<>>
    BY <2>1 DEF ValueSizes
  <2>6. Total(ValueSizes(none)) = 0
    BY <2>5, TotalEmpty
  <2>7. p[0] = 0
    BY <1>2 DEF PartialSums
  <2> QED
    <3>1. Total(ValueSizes(none)) = p[0] /\ Len(none) = ValuedUpto(types, 0)
      BY <2>2, <2>3, <2>6, <2>7
    <3>2. 0 \in 0..Len(queue)
      BY <1>0
    <3> QED
      BY <2>2, <2>4, <3>1, <3>2
<1>5. ASSUME NEW i \in 1..Len(queue), i - 1 \in Good PROVE i \in Good
  <2>1. PICK s \in Seq(Values) : s = f[i - 1]
    BY <1>5
  <2>2. Len(s) = ValuedUpto(types, i - 1) /\ ValuePlaced(s, queue, types, i - 1)
        /\ Total(ValueSizes(s)) = p[i - 1]
    BY <1>5, <2>1
  <2>3. PICK t : t = AddValue(s, queue[i])
    OBVIOUS
  <2>4. f[i] = t
    BY <1>1, <2>1, <2>3
  <2>5. /\ t \in Seq(Values) /\ Len(t) = ValuedUpto(types, i)
        /\ ValuePlaced(t, queue, types, i)
        /\ Total(ValueSizes(t)) = p[i - 1] + ValueBytes(queue[i].val)
    BY <2>2, <2>3, ValuePlacedStep
  <2>6. p[i] = p[i - 1] + sizes[i] /\ sizes[i] = ValueBytes(queue[i].val)
    BY <1>2 DEF PartialSums
  <2>7. Total(ValueSizes(t)) = p[i]
    BY <2>5, <2>6
  <2> QED
    BY <2>4, <2>5, <2>7
<1>6. Len(queue) \in Good
  <2> HIDE DEF Good
  <2>1. 0..Len(queue) \subseteq Good
    BY <1>0, <1>4, <1>5, UpToInduction
  <2> QED
    BY <1>0, <2>1
<1>7. ValuedUpto(types, Len(queue)) = Valued(types)
  BY <1>3, ValuedStep
<1> QED
  BY <1>1, <1>2, <1>6, <1>7

-----------------------------------------------------------------------------
(* Nodes, and the bytes that are written of them *)

IsLeaf(x, pairs, next) ==
  x = Leaf(pairs, next) /\ pairs \in Seq(Pairs) /\ next \in Links

IsOverflow(x, vals, next) ==
  /\ x = [kind |-> "overflow", vals |-> vals, next |-> next]
  /\ vals \in Seq(Values) /\ next \in Links

LinksOf(n) == [i \in 1..n |-> Link(i)]

IsInternal(x, keys, n, queue) ==
  /\ x = [kind |-> "internal", keys |-> keys, links |-> LinksOf(n), queue |-> queue]
  /\ n \in Nat \ {0} /\ keys \in Seq(Keys) /\ Len(keys) = n - 1
  /\ queue \in Seq(Edits)

LEMMA LinksAre ==
  \A next \in Links : next.count \in Nat /\ next.id \in Nat
                      /\ next = [count |-> next.count, id |-> next.id]
<1> QED
  BY DEF Links, Link

LEMMA TwoFields ==
  ASSUME NEW a \in AField, NEW b \in AField
  PROVE  <<a, b>> \in Seq(AField) /\ Len(<<a, b>>) = 2
         /\ FieldBytes(<<a, b>>) = a.bytes + b.bytes
<1>1. <<a>> \in Seq(AField) /\ <<b>> \in Seq(AField) /\ <<a, b>> = <<a>> \o <<b>>
  <2>1. <<a>> \in Seq(AField) /\ Len(<<a>>) = 1 /\ <<a>>[1] = a
    OBVIOUS
  <2>2. <<b>> \in Seq(AField) /\ Len(<<b>>) = 1 /\ <<b>>[1] = b
    OBVIOUS
  <2>3. <<a, b>> \in Seq(AField) /\ Len(<<a, b>>) = 2
        /\ <<a, b>>[1] = a /\ <<a, b>>[2] = b
    OBVIOUS
  <2>4. PICK u : u = <<a>> \o <<b>>
    OBVIOUS
  <2>5. u \in Seq(AField) /\ Len(u) = 2 /\ u[1] = a /\ u[2] = b
    BY <2>1, <2>2, <2>4
  <2>6. \A i \in 1..2 : u[i] = <<a, b>>[i]
    BY <2>3, <2>5
  <2>7. u = <<a, b>>
    BY <2>3, <2>5, <2>6, SeqEqual
  <2> QED
    BY <2>1, <2>2, <2>4, <2>7
<1>2. ASSUME NEW x \in AField PROVE FieldBytes(<<x>>) = x.bytes
  <2>1. x.bytes \in Nat
    BY DEF AField
  <2>2. BytesIn(<<x>>) = <<x.bytes>>
    BY DEF BytesIn
  <2>3. FieldBytes(<<x>>) = Total(BytesIn(<<x>>))
    BY DEF FieldBytes, BytesIn
  <2> QED
    BY <2>1, <2>2, <2>3, TotalOne
<1>3. FieldBytes(<<a>> \o <<b>>) = FieldBytes(<<a>>) + FieldBytes(<<b>>)
  BY <1>1, FieldBytesJoin
<1>4. <<a, b>> \in Seq(AField) /\ Len(<<a, b>>) = 2
  OBVIOUS
<1> QED
  BY <1>1, <1>2, <1>3, <1>4

\* The fields that all nodes begin with, and those at the end of a chain's node.
LEMMA StartIs ==
  ASSUME NEW x, x.kind \in {"leaf", "overflow", "internal"}, NEW count \in Nat
  PROVE  /\ Start(x, count) \in Seq(AField) /\ Len(Start(x, count)) = 2
         /\ Start(x, count)[1].what = "flags" /\ Start(x, count)[1].is = x.kind
         /\ Start(x, count)[2].what = "count" /\ Start(x, count)[2].is = count
         /\ FieldBytes(Start(x, count)) = 6
<1>1. x.kind \in Anything /\ count \in Anything /\ "flags" \in Fixed /\ "count" \in Fixed
  BY DEF Anything, Fixed
<1>2. FixedSize("flags") = 2 /\ FixedSize("count") = 4
  BY DEF FixedSize
<1>3. PICK a : a = Field("flags", x.kind)
  OBVIOUS
<1>4. PICK b : b = Field("count", count)
  OBVIOUS
<1>5. a \in AField /\ a.what = "flags" /\ a.is = x.kind /\ a.bytes = 2
  BY <1>1, <1>2, <1>3, FieldFixed
<1>6. b \in AField /\ b.what = "count" /\ b.is = count /\ b.bytes = 4
  BY <1>1, <1>2, <1>4, FieldFixed
<1>7. Start(x, count) = <<a, b>>
  BY <1>3, <1>4 DEF Start
<1>8. /\ <<a, b>> \in Seq(AField) /\ Len(<<a, b>>) = 2
      /\ FieldBytes(<<a, b>>) = a.bytes + b.bytes
  BY <1>5, <1>6, TwoFields
<1>9. <<a, b>>[1] = a /\ <<a, b>>[2] = b
  OBVIOUS
<1> QED
  BY <1>5, <1>6, <1>7, <1>8, <1>9

LEMMA ChainIs ==
  ASSUME NEW next \in Links
  PROVE  /\ Chain(next) \in Seq(AField) /\ Len(Chain(next)) = 2
         /\ Chain(next)[1].what = "items" /\ Chain(next)[1].is = next.count
         /\ Chain(next)[2].what = "id" /\ Chain(next)[2].is = next.id
         /\ FieldBytes(Chain(next)) = 24
<1>1. next.count \in Anything /\ next.id \in Anything /\ "items" \in Fixed /\ "id" \in Fixed
  BY LinksAre DEF Anything, Fixed
<1>2. FixedSize("items") = 4 /\ FixedSize("id") = 20
  BY DEF FixedSize
<1>3. PICK a : a = Field("items", next.count)
  OBVIOUS
<1>4. PICK b : b = Field("id", next.id)
  OBVIOUS
<1>5. a \in AField /\ a.what = "items" /\ a.is = next.count /\ a.bytes = 4
  BY <1>1, <1>2, <1>3, FieldFixed
<1>6. b \in AField /\ b.what = "id" /\ b.is = next.id /\ b.bytes = 20
  BY <1>1, <1>2, <1>4, FieldFixed
<1>7. Chain(next) = <<a, b>>
  BY <1>3, <1>4 DEF Chain
<1>8. /\ <<a, b>> \in Seq(AField) /\ Len(<<a, b>>) = 2
      /\ FieldBytes(<<a, b>>) = a.bytes + b.bytes
  BY <1>5, <1>6, TwoFields
<1>9. <<a, b>>[1] = a /\ <<a, b>>[2] = b
  OBVIOUS
<1> QED
  BY <1>5, <1>6, <1>7, <1>8, <1>9

\* Keys and values of pairs, or of edits.
LEMMA ColumnsOfPairs ==
  ASSUME NEW pairs \in Seq(Pairs)
  PROVE  /\ KeysOf(pairs) \in Seq(Keys) /\ Len(KeysOf(pairs)) = Len(pairs)
         /\ ValsOf(pairs) \in Seq(Values) /\ Len(ValsOf(pairs)) = Len(pairs)
         /\ \A i \in 1..Len(pairs) : KeysOf(pairs)[i] = pairs[i].key
         /\ \A i \in 1..Len(pairs) : ValsOf(pairs)[i] = pairs[i].val
<1>1. Len(pairs) \in Nat /\ DOMAIN pairs = 1..Len(pairs)
      /\ \A i \in 1..Len(pairs) : pairs[i] \in Pairs
  OBVIOUS
<1>2. \A i \in 1..Len(pairs) : pairs[i].key \in Keys /\ pairs[i].val \in Values
  BY <1>1, BytesOfItems
<1>3. KeysOf(pairs) \in Seq(Keys) /\ Len(KeysOf(pairs)) = Len(pairs)
      /\ \A i \in 1..Len(pairs) : KeysOf(pairs)[i] = pairs[i].key
  BY <1>1, <1>2 DEF KeysOf
<1>4. ValsOf(pairs) \in Seq(Values) /\ Len(ValsOf(pairs)) = Len(pairs)
      /\ \A i \in 1..Len(pairs) : ValsOf(pairs)[i] = pairs[i].val
  BY <1>1, <1>2 DEF ValsOf
<1> QED
  BY <1>3, <1>4

LEMMA ColumnOfEdits ==
  ASSUME NEW queue \in Seq(Edits)
  PROVE  /\ KeysOf(queue) \in Seq(Keys) /\ Len(KeysOf(queue)) = Len(queue)
         /\ \A i \in 1..Len(queue) : KeysOf(queue)[i] = queue[i].key
<1>1. Len(queue) \in Nat /\ DOMAIN queue = 1..Len(queue)
      /\ \A i \in 1..Len(queue) : queue[i] \in Edits
  OBVIOUS
<1>2. \A i \in 1..Len(queue) : queue[i].key \in Keys
  BY <1>1, BytesOfItems
<1> QED
  BY <1>1, <1>2 DEF KeysOf

\* The bytes of keys, and the bytes of keys and values together.
KeySizes(keys) == [i \in DOMAIN keys |-> KeySizeOf[keys[i]]]

LEMMA KeySizesAre ==
  ASSUME NEW keys \in Seq(Keys)
  PROVE  /\ KeySizes(keys) \in Seq(Nat) /\ Len(KeySizes(keys)) = Len(keys)
         /\ \A i \in 1..Len(keys) : KeySizes(keys)[i] = KeySizeOf[keys[i]]
<1>1. Len(keys) \in Nat /\ DOMAIN keys = 1..Len(keys)
      /\ \A i \in 1..Len(keys) : keys[i] \in Keys
  OBVIOUS
<1>2. \A i \in 1..Len(keys) : KeySizeOf[keys[i]] \in Nat
  BY <1>1, ItemsAre
<1> QED
  BY <1>1, <1>2 DEF KeySizes

LEMMA ValueSizesAre ==
  ASSUME NEW vals \in Seq(Values)
  PROVE  /\ ValueSizes(vals) \in Seq(Nat) /\ Len(ValueSizes(vals)) = Len(vals)
         /\ \A i \in 1..Len(vals) : ValueSizes(vals)[i] = ValueBytes(vals[i])
<1>1. Len(vals) \in Nat /\ DOMAIN vals = 1..Len(vals)
      /\ \A i \in 1..Len(vals) : vals[i] \in Values
  OBVIOUS
<1>2. \A i \in 1..Len(vals) : ValueBytes(vals[i]) \in Nat
  BY <1>1, ItemsAre
<1> QED
  BY <1>1, <1>2 DEF ValueSizes

LEMMA BytesOfColumns ==
  ASSUME NEW pairs \in Seq(Pairs)
  PROVE  PairBytes(pairs) = Total(KeySizes(KeysOf(pairs))) + Total(ValueSizes(ValsOf(pairs)))
<1>1. PICK keys \in Seq(Keys) : keys = KeysOf(pairs)
  BY ColumnsOfPairs
<1>2. PICK vals \in Seq(Values) : vals = ValsOf(pairs)
  BY ColumnsOfPairs
<1>3. PICK a : a = KeySizes(keys)
  OBVIOUS
<1>4. PICK b : b = ValueSizes(vals)
  OBVIOUS
<1>5. PICK c : c = SizesOf(pairs)
  OBVIOUS
<1>6. a \in Seq(Nat) /\ Len(a) = Len(pairs)
      /\ \A i \in 1..Len(pairs) : a[i] = KeySizeOf[pairs[i].key]
  BY <1>1, <1>3, KeySizesAre, ColumnsOfPairs
<1>7. b \in Seq(Nat) /\ Len(b) = Len(pairs)
      /\ \A i \in 1..Len(pairs) : b[i] = ValueBytes(pairs[i].val)
  BY <1>2, <1>4, ValueSizesAre, ColumnsOfPairs
<1>8. c \in Seq(Nat) /\ Len(c) = Len(pairs) /\ PairBytes(pairs) = Total(c)
      /\ \A i \in 1..Len(pairs) : c[i] = ItemBytes(pairs[i])
  BY <1>5, SizesAre
<1>9. \A i \in 1..Len(c) : c[i] = a[i] + b[i]
  BY <1>6, <1>7, <1>8 DEF ItemBytes
<1>10. Total(c) = Total(a) + Total(b)
  BY <1>6, <1>7, <1>8, <1>9, TotalAdd
<1> QED
  BY <1>1, <1>2, <1>3, <1>4, <1>8, <1>10

LEMMA RunBytesKeys ==
  ASSUME NEW keys \in Seq(Keys), NEW s, s = FieldsOf("key", keys)
  PROVE  /\ s \in Seq(AField) /\ Len(s) = Len(keys)
         /\ FieldBytes(s) = Total(KeySizes(keys)) /\ Total(KeySizes(keys)) \in Nat
         /\ \A i \in 1..Len(keys) : s[i].what = "key" /\ s[i].is = keys[i]
<1>1. Run(s, "key", keys)
  BY RunOfKeys
<1>2. FieldBytes(s) = Total(KeySizes(keys))
  BY RunOfKeys DEF KeySizes
<1>3. s \in Seq(AField) /\ Len(s) = Len(keys)
      /\ \A i \in 1..Len(keys) : s[i].what = "key" /\ s[i].is = keys[i]
  BY <1>1 DEF Run
<1> QED
  BY <1>2, <1>3, BytesInAre

LEMMA RunBytesValues ==
  ASSUME NEW vals \in Seq(Values), NEW s, s = FieldsOf("value", vals)
  PROVE  /\ s \in Seq(AField) /\ Len(s) = Len(vals)
         /\ FieldBytes(s) = Total(ValueSizes(vals)) /\ Total(ValueSizes(vals)) \in Nat
         /\ \A i \in 1..Len(vals) : s[i].what = "value" /\ s[i].is = vals[i]
<1>1. Run(s, "value", vals)
  BY RunOfValues
<1>2. FieldBytes(s) = Total(ValueSizes(vals))
  BY RunOfValues DEF ValueSizes
<1>3. s \in Seq(AField) /\ Len(s) = Len(vals)
      /\ \A i \in 1..Len(vals) : s[i].what = "value" /\ s[i].is = vals[i]
  BY <1>1 DEF Run
<1> QED
  BY <1>2, <1>3, BytesInAre

LEMMA RunBytesFixed ==
  ASSUME NEW what \in Fixed, NEW vals \in Seq(Anything), NEW s, s = FieldsOf(what, vals)
  PROVE  /\ s \in Seq(AField) /\ Len(s) = Len(vals)
         /\ FieldBytes(s) = Len(vals) * FixedSize(what)
         /\ \A i \in 1..Len(vals) : s[i].what = what /\ s[i].is = vals[i]
<1>1. Run(s, what, vals) /\ FieldBytes(s) = Len(vals) * FixedSize(what)
  BY RunOfFixed
<1>2. s \in Seq(AField) /\ Len(s) = Len(vals)
      /\ \A i \in 1..Len(vals) : s[i].what = what /\ s[i].is = vals[i]
  BY <1>1 DEF Run
<1> QED
  BY <1>1, <1>2

LEMMA SizeOfLeaf ==
  ASSUME NEW x, NEW pairs, NEW next, IsLeaf(x, pairs, next)
  PROVE  /\ Serialized(x) \in Seq(AField)
         /\ FieldBytes(Serialized(x)) = 2 + 4 + 4 + 20 + PairBytes(pairs)
<1>1. x.kind = "leaf" /\ x.pairs = pairs /\ x.next = next
      /\ pairs \in Seq(Pairs) /\ next \in Links
  BY DEF IsLeaf, Leaf
<1>2. PICK keys \in Seq(Keys) : keys = KeysOf(pairs)
  BY <1>1, ColumnsOfPairs
<1>3. PICK vals \in Seq(Values) : vals = ValsOf(pairs)
  BY <1>1, ColumnsOfPairs
<1>4. PICK a : a = Start(x, Len(pairs))
  OBVIOUS
<1>5. PICK k : k = FieldsOf("key", keys)
  OBVIOUS
<1>6. PICK v : v = FieldsOf("value", vals)
  OBVIOUS
<1>7. PICK c : c = Chain(next)
  OBVIOUS
<1>8. Serialized(x) = a \o k \o v \o c
  BY <1>1, <1>2, <1>3, <1>4, <1>5, <1>6, <1>7 DEF Serialized
<1>9. a \in Seq(AField) /\ FieldBytes(a) = 6
  <2>1. Len(pairs) \in Nat /\ x.kind \in {"leaf", "overflow", "internal"}
    BY <1>1
  <2> QED
    BY <1>4, <2>1, StartIs
<1>10. k \in Seq(AField) /\ FieldBytes(k) = Total(KeySizes(keys)) /\ Total(KeySizes(keys)) \in Nat
  BY <1>5, RunBytesKeys
<1>11. v \in Seq(AField) /\ FieldBytes(v) = Total(ValueSizes(vals))
       /\ Total(ValueSizes(vals)) \in Nat
  BY <1>6, RunBytesValues
<1>12. c \in Seq(AField) /\ FieldBytes(c) = 24
  BY <1>1, <1>7, ChainIs
<1>13. a \o k \in Seq(AField) /\ FieldBytes(a \o k) = 6 + FieldBytes(k)
  BY <1>9, <1>10, FieldBytesJoin
<1>14. a \o k \o v \in Seq(AField) /\ FieldBytes(a \o k \o v) = FieldBytes(a \o k) + FieldBytes(v)
  BY <1>11, <1>13, FieldBytesJoin
<1>15. a \o k \o v \o c \in Seq(AField)
       /\ FieldBytes(a \o k \o v \o c) = FieldBytes(a \o k \o v) + 24
  BY <1>12, <1>14, FieldBytesJoin
<1>16. PairBytes(pairs) = Total(KeySizes(keys)) + Total(ValueSizes(vals))
  BY <1>1, <1>2, <1>3, BytesOfColumns
<1> QED
  BY <1>8, <1>10, <1>11, <1>13, <1>14, <1>15, <1>16

LEMMA SizeOfOverflow ==
  ASSUME NEW x, NEW vals, NEW next, IsOverflow(x, vals, next)
  PROVE  /\ Serialized(x) \in Seq(AField)
         /\ FieldBytes(Serialized(x)) = 2 + 4 + 4 + 20 + Total(ValueSizes(vals))
<1>1. x.kind = "overflow" /\ x.vals = vals /\ x.next = next
      /\ vals \in Seq(Values) /\ next \in Links
  BY DEF IsOverflow
<1>2. PICK a : a = Start(x, Len(vals))
  OBVIOUS
<1>3. PICK v : v = FieldsOf("value", vals)
  OBVIOUS
<1>4. PICK c : c = Chain(next)
  OBVIOUS
<1>5. Serialized(x) = a \o v \o c
  BY <1>1, <1>2, <1>3, <1>4 DEF Serialized
<1>6. a \in Seq(AField) /\ FieldBytes(a) = 6
  <2>1. Len(vals) \in Nat /\ x.kind \in {"leaf", "overflow", "internal"}
    BY <1>1
  <2> QED
    BY <1>2, <2>1, StartIs
<1>7. v \in Seq(AField) /\ FieldBytes(v) = Total(ValueSizes(vals))
      /\ Total(ValueSizes(vals)) \in Nat
  BY <1>1, <1>3, RunBytesValues
<1>8. c \in Seq(AField) /\ FieldBytes(c) = 24
  BY <1>1, <1>4, ChainIs
<1>9. a \o v \in Seq(AField) /\ FieldBytes(a \o v) = 6 + FieldBytes(v)
  BY <1>6, <1>7, FieldBytesJoin
<1>10. a \o v \o c \in Seq(AField) /\ FieldBytes(a \o v \o c) = FieldBytes(a \o v) + 24
  BY <1>8, <1>9, FieldBytesJoin
<1> QED
  BY <1>5, <1>7, <1>9, <1>10

\* What the queue of an internal node takes.
LEMMA SizeOfQueue ==
  ASSUME NEW queue \in Seq(Edits), NEW vals, vals = QueueValues(queue),
         NEW sizes, sizes = [i \in DOMAIN queue |-> 1 + ItemBytes(queue[i])]
  PROVE  /\ vals \in Seq(Values)
         /\ Total(sizes)
              = Len(queue) + Total(KeySizes(KeysOf(queue))) + Total(ValueSizes(vals))
<1>1. Len(queue) \in Nat /\ DOMAIN queue = 1..Len(queue)
      /\ \A i \in 1..Len(queue) : queue[i] \in Edits
  OBVIOUS
<1>2. PICK keys \in Seq(Keys) : keys = KeysOf(queue)
  BY ColumnOfEdits
<1>3. PICK a : a = KeySizes(keys)
  OBVIOUS
<1>4. a \in Seq(Nat) /\ Len(a) = Len(queue)
      /\ \A i \in 1..Len(queue) : a[i] = KeySizeOf[queue[i].key]
  BY <1>2, <1>3, KeySizesAre, ColumnOfEdits
<1>5. PICK b : b = [i \in 1..Len(queue) |-> ValueBytes(queue[i].val)]
  OBVIOUS
<1>6. ASSUME NEW i \in 1..Len(queue) PROVE ValueBytes(queue[i].val) \in Nat
  <2>1. queue[i].val \in Values \cup {NoValue}
    BY <1>1, BytesOfItems
  <2>2. CASE queue[i].val \in Values
    BY <2>2, ItemsAre
  <2>3. CASE queue[i].val = NoValue
    BY <2>3 DEF ValueBytes
  <2> QED
    BY <2>1, <2>2, <2>3
<1>7. b \in Seq(Nat) /\ Len(b) = Len(queue)
      /\ \A i \in 1..Len(queue) : b[i] = ValueBytes(queue[i].val)
  BY <1>1, <1>5, <1>6
<1>8. PICK one : one = [i \in 1..Len(queue) |-> 1]
  OBVIOUS
<1>9. one \in Seq(Nat) /\ Len(one) = Len(queue) /\ \A i \in 1..Len(one) : one[i] = 1
  BY <1>1, <1>8
<1>10. PICK ab : ab = [i \in 1..Len(queue) |-> a[i] + b[i]]
  OBVIOUS
<1>11. ab \in Seq(Nat) /\ Len(ab) = Len(queue) /\ \A i \in 1..Len(ab) : ab[i] = a[i] + b[i]
  <2>1. \A i \in 1..Len(queue) : a[i] \in Nat /\ b[i] \in Nat
    BY <1>4, <1>7
  <2>2. \A i \in 1..Len(queue) : a[i] + b[i] \in Nat
    BY <2>1
  <2> QED
    BY <1>1, <1>10, <2>2
<1>12. sizes \in Seq(Nat) /\ Len(sizes) = Len(queue)
       /\ \A i \in 1..Len(sizes) : sizes[i] = one[i] + ab[i]
  <2>1. \A i \in 1..Len(queue) : sizes[i] = 1 + (KeySizeOf[queue[i].key] + ValueBytes(queue[i].val))
    BY <1>1 DEF ItemBytes
  <2>2. \A i \in 1..Len(queue) : sizes[i] = one[i] + ab[i]
    BY <1>4, <1>7, <1>9, <1>11, <2>1
  <2>3. \A i \in 1..Len(queue) : 1 + ItemBytes(queue[i]) \in Nat
    BY <1>1, BytesOfItems
  <2>4. sizes \in Seq(Nat) /\ Len(sizes) = Len(queue)
    BY <1>1, <2>3
  <2> QED
    BY <2>2, <2>4
<1>13. Total(sizes) = Total(one) + Total(ab)
  <2>1. Len(one) = Len(sizes) /\ Len(ab) = Len(sizes)
    BY <1>9, <1>11, <1>12
  <2>2. one \in Seq(Nat) /\ ab \in Seq(Nat) /\ sizes \in Seq(Nat)
        /\ \A i \in 1..Len(sizes) : sizes[i] = one[i] + ab[i]
    BY <1>9, <1>11, <1>12
  <2> QED
    BY ONLY <2>1, <2>2, TotalAdd
<1>14. Total(ab) = Total(a) + Total(b)
  <2>1. Len(a) = Len(ab) /\ Len(b) = Len(ab)
    BY <1>4, <1>7, <1>11
  <2>2. a \in Seq(Nat) /\ b \in Seq(Nat) /\ ab \in Seq(Nat)
        /\ \A i \in 1..Len(ab) : ab[i] = a[i] + b[i]
    BY <1>4, <1>7, <1>11
  <2> QED
    BY ONLY <2>1, <2>2, TotalAdd
<1>15. Total(one) = Len(queue)
  <2>1. Total(one) = Len(one) * 1
    BY <1>9, TotalSame
  <2>2. PICK n \in Nat : n = Len(queue)
    BY <1>1
  <2>3. Total(one) = n * 1
    BY <1>9, <2>1, <2>2
  <2> QED
    BY ONLY <2>2, <2>3
<1>16. vals \in Seq(Values) /\ Total(ValueSizes(vals)) = Total(b)
  BY <1>7, ValuesOfQueue
<1>17. Total(a) \in Nat /\ Total(b) \in Nat
  BY <1>4, <1>7, PartialSumsExist, TotalIs
<1> QED
  BY <1>1, <1>2, <1>3, <1>13, <1>14, <1>15, <1>16, <1>17

\* A part of what is written: fields of one kind, and the bytes they take.
Part(s, what, vals, size) ==
  /\ s \in Seq(AField) /\ Len(s) = Len(vals)
  /\ FieldBytes(s) = size /\ size \in Nat
  /\ \A i \in 1..Len(vals) : s[i].what = what /\ s[i].is = vals[i]

LEMMA PartJoin ==
  ASSUME NEW s \in Seq(AField), NEW t, NEW what, NEW vals, NEW size, Part(t, what, vals, size)
  PROVE  s \o t \in Seq(AField) /\ FieldBytes(s \o t) = FieldBytes(s) + size
<1>1. t \in Seq(AField) /\ FieldBytes(t) = size
  BY DEF Part
<1> QED
  BY <1>1, FieldBytesJoin

\* The first three fields of an internal node.
HeadOf(x, n, m) == Start(x, n) \o <<Field("edits", m)>>

LEMMA HeadIs ==
  ASSUME NEW x, x.kind = "internal", NEW n \in Nat, NEW m \in Nat, NEW h, h = HeadOf(x, n, m)
  PROVE  /\ h \in Seq(AField) /\ Len(h) = 3 /\ FieldBytes(h) = 10
         /\ h[1].what = "flags" /\ h[1].is = "internal"
         /\ h[2].what = "count" /\ h[2].is = n
         /\ h[3].what = "edits" /\ h[3].is = m
<1>1. PICK a : a = Start(x, n)
  OBVIOUS
<1>2. /\ a \in Seq(AField) /\ Len(a) = 2 /\ FieldBytes(a) = 6
      /\ a[1].what = "flags" /\ a[1].is = "internal" /\ a[2].what = "count" /\ a[2].is = n
  BY <1>1, StartIs
<1>3. PICK f : f = Field("edits", m)
  OBVIOUS
<1>4. f \in AField /\ f.what = "edits" /\ f.is = m /\ f.bytes = 4
  <2>1. "edits" \in Fixed /\ m \in Anything /\ FixedSize("edits") = 4
    BY DEF Fixed, Anything, FixedSize
  <2> QED
    BY <1>3, <2>1, FieldFixed
<1>5. PICK b : b = <<f>>
  OBVIOUS
<1>6. b \in Seq(AField) /\ Len(b) = 1 /\ b[1] = f
  BY <1>4, <1>5
<1>7. h = a \o b
  BY <1>1, <1>3, <1>5 DEF HeadOf
<1>8. h \in Seq(AField) /\ Len(h) = 3 /\ h[1] = a[1] /\ h[2] = a[2] /\ h[3] = f
  <2>1. /\ h \in Seq(AField) /\ Len(h) = Len(a) + Len(b)
        /\ \A i \in 1..Len(a) : h[i] = a[i]
        /\ \A i \in 1..Len(b) : h[Len(a) + i] = b[i]
    <3>1. a \in Seq(AField) /\ b \in Seq(AField)
      BY <1>2, <1>6
    <3> QED
      BY ONLY <1>7, <3>1, JoinIs
  <2>2. 1 \in 1..Len(a) /\ 2 \in 1..Len(a) /\ 1 \in 1..Len(b) /\ Len(a) + 1 = 3
    BY <1>2, <1>6
  <2>3. h[1] = a[1] /\ h[2] = a[2]
    BY <2>1, <2>2
  <2>4. h[Len(a) + 1] = b[1]
    BY <2>1, <2>2
  <2> QED
    BY <1>2, <1>6, <2>1, <2>2, <2>3, <2>4
<1>9. FieldBytes(b) = 4
  <2>1. BytesIn(b) = <<4>>
    BY <1>4, <1>5 DEF BytesIn
  <2>2. FieldBytes(b) = Total(BytesIn(b))
    BY DEF FieldBytes, BytesIn
  <2>3. Total(<<4>>) = 4
    BY TotalOne
  <2> QED
    BY <2>1, <2>2, <2>3
<1>10. FieldBytes(h) = FieldBytes(a) + FieldBytes(b)
  BY <1>2, <1>6, <1>7, FieldBytesJoin
<1> QED
  BY <1>2, <1>4, <1>8, <1>9, <1>10

Identity(n) == [i \in 1..n |-> i]

\* All parts of an internal node.
InternalParts(x, keys, n, queue, h, k, l, c, t, q, v) ==
  /\ Serialized(x) = h \o k \o l \o c \o t \o q \o v
  /\ h = HeadOf(x, n, Len(queue))
  /\ Part(k, "key", keys, Total(KeySizes(keys)))
  /\ Part(l, "id", Identity(n), n * 20)
  /\ Part(c, "items", Identity(n), n * 4)
  /\ Part(t, "type", OpsOf(queue), Len(queue))
  /\ Part(q, "key", KeysOf(queue), Total(KeySizes(KeysOf(queue))))
  /\ Part(v, "value", QueueValues(queue), Total(ValueSizes(QueueValues(queue))))

LEMMA InternalWritten ==
  ASSUME NEW x, NEW keys, NEW n, NEW queue, IsInternal(x, keys, n, queue)
  PROVE  \E h, k, l, c, t, q, v : InternalParts(x, keys, n, queue, h, k, l, c, t, q, v)
<1>1. /\ x.kind = "internal" /\ x.keys = keys /\ x.links = LinksOf(n) /\ x.queue = queue
      /\ n \in Nat /\ keys \in Seq(Keys) /\ queue \in Seq(Edits) /\ Len(queue) \in Nat
  BY DEF IsInternal
<1>2. /\ Len(LinksOf(n)) = n
      /\ IdsOf(LinksOf(n)) = Identity(n) /\ CountsOf(LinksOf(n)) = Identity(n)
  <2>1. DOMAIN LinksOf(n) = 1..n /\ \A i \in 1..n : LinksOf(n)[i] = Link(i)
    BY DEF LinksOf
  <2>2. Len(LinksOf(n)) = n
    BY <1>1 DEF LinksOf
  <2>3. IdsOf(LinksOf(n)) = Identity(n)
    BY <2>1 DEF IdsOf, Identity, Link
  <2>4. CountsOf(LinksOf(n)) = Identity(n)
    BY <2>1 DEF CountsOf, Identity, Link
  <2> QED
    BY <2>2, <2>3, <2>4
<1>3. PICK h : h = HeadOf(x, n, Len(queue))
  OBVIOUS
<1>4. PICK k : k = FieldsOf("key", keys)
  OBVIOUS
<1>5. PICK l : l = FieldsOf("id", Identity(n))
  OBVIOUS
<1>6. PICK c : c = FieldsOf("items", Identity(n))
  OBVIOUS
<1>7. PICK t : t = FieldsOf("type", OpsOf(queue))
  OBVIOUS
<1>8. PICK q : q = FieldsOf("key", KeysOf(queue))
  OBVIOUS
<1>9. PICK v : v = FieldsOf("value", QueueValues(queue))
  OBVIOUS
<1>10. Serialized(x) = h \o k \o l \o c \o t \o q \o v
  BY <1>1, <1>2, <1>3, <1>4, <1>5, <1>6, <1>7, <1>8, <1>9 DEF Serialized, HeadOf
<1>11. Part(k, "key", keys, Total(KeySizes(keys)))
  BY <1>1, <1>4, RunBytesKeys DEF Part
<1>12. /\ Identity(n) \in Seq(Anything) /\ Len(Identity(n)) = n
       /\ "id" \in Fixed /\ "items" \in Fixed /\ "type" \in Fixed
       /\ FixedSize("id") = 20 /\ FixedSize("items") = 4 /\ FixedSize("type") = 1
  <2>1. Identity(n) \in Seq(Anything) /\ Len(Identity(n)) = n
    BY <1>1 DEF Identity, Anything
  <2> QED
    BY <2>1 DEF Fixed, FixedSize
<1>13. Part(l, "id", Identity(n), n * 20)
  <2>1. PICK ids \in Seq(Anything) : ids = Identity(n) /\ Len(ids) = n
    BY <1>12
  <2>2. /\ l \in Seq(AField) /\ Len(l) = Len(ids)
        /\ FieldBytes(l) = Len(ids) * FixedSize("id")
        /\ \A i \in 1..Len(ids) : l[i].what = "id" /\ l[i].is = ids[i]
    BY <1>5, <1>12, <2>1, RunBytesFixed
  <2>3. FieldBytes(l) = n * 20 /\ n * 20 \in Nat
    BY <1>1, <1>12, <2>1, <2>2
  <2> QED
    BY <2>1, <2>2, <2>3 DEF Part
<1>14. Part(c, "items", Identity(n), n * 4)
  <2>1. PICK ids \in Seq(Anything) : ids = Identity(n) /\ Len(ids) = n
    BY <1>12
  <2>2. /\ c \in Seq(AField) /\ Len(c) = Len(ids)
        /\ FieldBytes(c) = Len(ids) * FixedSize("items")
        /\ \A i \in 1..Len(ids) : c[i].what = "items" /\ c[i].is = ids[i]
    BY <1>6, <1>12, <2>1, RunBytesFixed
  <2>3. FieldBytes(c) = n * 4 /\ n * 4 \in Nat
    BY <1>1, <1>12, <2>1, <2>2
  <2> QED
    BY <2>1, <2>2, <2>3 DEF Part
<1>15. Part(t, "type", OpsOf(queue), Len(queue))
  <2>1. PICK types : types = OpsOf(queue)
    OBVIOUS
  <2>2. types \in Seq(Ops) /\ Len(types) = Len(queue)
    BY <1>1, <2>1, TypesAre
  <2>3. types \in Seq(Anything)
    BY <2>2 DEF Anything
  <2>4. t \in Seq(AField) /\ Len(t) = Len(types)
        /\ FieldBytes(t) = Len(types) * FixedSize("type")
        /\ \A i \in 1..Len(types) : t[i].what = "type" /\ t[i].is = types[i]
    BY <1>7, <1>12, <2>1, <2>3, RunBytesFixed
  <2>5. FieldBytes(t) = Len(queue)
    BY <1>1, <1>12, <2>2, <2>4
  <2> QED
    BY <1>1, <2>1, <2>2, <2>4, <2>5 DEF Part
<1>16. Part(q, "key", KeysOf(queue), Total(KeySizes(KeysOf(queue))))
  <2>1. KeysOf(queue) \in Seq(Keys)
    BY <1>1, ColumnOfEdits
  <2> QED
    BY <1>8, <2>1, RunBytesKeys DEF Part
<1>17. Part(v, "value", QueueValues(queue), Total(ValueSizes(QueueValues(queue))))
  <2>1. QueueValues(queue) \in Seq(Values)
    BY <1>1, SizeOfQueue
  <2> QED
    BY <1>9, <2>1, RunBytesValues DEF Part
<1>18. InternalParts(x, keys, n, queue, h, k, l, c, t, q, v)
  BY <1>3, <1>10, <1>11, <1>13, <1>14, <1>15, <1>16, <1>17 DEF InternalParts
<1> QED
  BY <1>18

LEMMA SizeOfInternal ==
  ASSUME NEW x, NEW keys, NEW n, NEW queue, IsInternal(x, keys, n, queue),
         NEW sizes, sizes = [i \in DOMAIN queue |-> 1 + ItemBytes(queue[i])]
  PROVE  /\ Serialized(x) \in Seq(AField)
         /\ FieldBytes(Serialized(x))
              = 2 + 4 + 4 + Total(KeySizes(keys)) + n * (20 + 4) + Total(sizes)
<1>1. x.kind = "internal" /\ n \in Nat /\ queue \in Seq(Edits) /\ Len(queue) \in Nat
  BY DEF IsInternal
<1>2. PICK h, k, l, c, t, q, v : InternalParts(x, keys, n, queue, h, k, l, c, t, q, v)
  BY InternalWritten
<1>3. h \in Seq(AField) /\ FieldBytes(h) = 10
  BY <1>1, <1>2, HeadIs DEF InternalParts
<1>4. PICK vals : vals = QueueValues(queue)
  OBVIOUS
<1>5. PICK sk : sk = Total(KeySizes(keys))
  OBVIOUS
<1>6. PICK sq : sq = Total(KeySizes(KeysOf(queue)))
  OBVIOUS
<1>7. PICK sv : sv = Total(ValueSizes(vals))
  OBVIOUS
<1>8. /\ Part(k, "key", keys, sk) /\ Part(l, "id", Identity(n), n * 20)
      /\ Part(c, "items", Identity(n), n * 4) /\ Part(t, "type", OpsOf(queue), Len(queue))
      /\ Part(q, "key", KeysOf(queue), sq) /\ Part(v, "value", vals, sv)
      /\ Serialized(x) = h \o k \o l \o c \o t \o q \o v
  BY <1>2, <1>4, <1>5, <1>6, <1>7 DEF InternalParts
<1>9. sk \in Nat /\ sq \in Nat /\ sv \in Nat
  BY <1>8 DEF Part
<1>p0. PICK u0 : u0 = h \o k
  OBVIOUS
<1>q0. u0 \in Seq(AField) /\ FieldBytes(u0) = FieldBytes(h) + sk
  BY <1>8, <1>3, <1>p0, PartJoin
<1>p1. PICK u1 : u1 = u0 \o l
  OBVIOUS
<1>q1. u1 \in Seq(AField) /\ FieldBytes(u1) = FieldBytes(u0) + n * 20
  BY <1>8, <1>q0, <1>p1, PartJoin
<1>p2. PICK u2 : u2 = u1 \o c
  OBVIOUS
<1>q2. u2 \in Seq(AField) /\ FieldBytes(u2) = FieldBytes(u1) + n * 4
  BY <1>8, <1>q1, <1>p2, PartJoin
<1>p3. PICK u3 : u3 = u2 \o t
  OBVIOUS
<1>q3. u3 \in Seq(AField) /\ FieldBytes(u3) = FieldBytes(u2) + Len(queue)
  BY <1>8, <1>q2, <1>p3, PartJoin
<1>p4. PICK u4 : u4 = u3 \o q
  OBVIOUS
<1>q4. u4 \in Seq(AField) /\ FieldBytes(u4) = FieldBytes(u3) + sq
  BY <1>8, <1>q3, <1>p4, PartJoin
<1>p5. PICK u5 : u5 = u4 \o v
  OBVIOUS
<1>q5. u5 \in Seq(AField) /\ FieldBytes(u5) = FieldBytes(u4) + sv
  BY <1>8, <1>q4, <1>p5, PartJoin
<1>15. Serialized(x) = u5
  BY <1>8, <1>p0, <1>p1, <1>p2, <1>p3, <1>p4, <1>p5
<1>16. Total(sizes) = Len(queue) + sq + sv
  BY <1>1, <1>4, <1>6, <1>7, SizeOfQueue
<1> QED
  <2>1. FieldBytes(u2) = 10 + sk + n * 20 + n * 4
    BY <1>3, <1>q0, <1>q1, <1>q2
  <2>2. FieldBytes(u5) = FieldBytes(u2) + Len(queue) + sq + sv
    BY <1>q3, <1>q4, <1>q5
  <2>3. PICK m \in Nat : m = Len(queue)
    BY <1>1
  <2>4. FieldBytes(u5) = 10 + sk + n * 20 + n * 4 + m + sq + sv
    BY <2>1, <2>2, <2>3
  <2>5. Total(sizes) = m + sq + sv
    BY <1>16, <2>3
  <2>6. FieldBytes(u5) = 2 + 4 + 4 + sk + n * (20 + 4) + Total(sizes)
    <3>1. n * 20 + n * 4 = n * (20 + 4) /\ n * 20 \in Nat /\ n * 4 \in Nat
      BY <1>1
    <3>2. PICK y \in Nat, z \in Nat : y = n * 20 /\ z = n * 4
      BY <3>1
    <3>3. n * (20 + 4) = y + z
      BY <3>1, <3>2
    <3>4. FieldBytes(u5) = 10 + sk + y + z + m + sq + sv
      BY <2>4, <3>2
    <3>5. FieldBytes(u5) = 10 + sk + (y + z) + Total(sizes)
      BY <1>9, <2>5, <3>4
    <3> QED
      BY <3>3, <3>5
  <2> QED
    BY <1>5, <1>15, <1>q5, <2>6

-----------------------------------------------------------------------------
(* The size of a page *)

LEMMA NodeKinds ==
  ASSUME NodeInv
  PROVE  \/ \E pairs, next : IsLeaf(node, pairs, next) /\ bytes = PairBytes(pairs)
         \/ \E vals, next : IsOverflow(node, vals, next)
         \/ \E keys, n, queue : IsInternal(node, keys, n, queue)
<1>1. CASE node.kind = "leaf"
  <2>1. GoodPairs(node.pairs, bytes) /\ node.next \in Links
        /\ node = Leaf(node.pairs, node.next)
    BY <1>1, LeafInMemory
  <2> QED
    BY <2>1 DEF GoodPairs, IsLeaf
<1>2. CASE node \in OverflowNodes
  <2>1. PICK vals, next : /\ node = [kind |-> "overflow", vals |-> vals, next |-> next]
                          /\ vals \in UNION {[1..n -> Values] : n \in 1..MaxPairs}
                          /\ next \in Links
    BY <1>2 DEF OverflowNodes
  <2>2. vals \in Seq(Values)
    <3>1. PICK n \in 1..MaxPairs : vals \in [1..n -> Values]
      BY <2>1
    <3>2. n \in Nat
      BY <3>1, PagesAssumption
    <3> QED
      BY <3>1, <3>2
  <2>3. IsOverflow(node, vals, next)
    BY <2>1, <2>2 DEF IsOverflow
  <2> QED
    BY <2>3
<1>3. CASE node \in InternalNodes /\ Len(node.links) = Len(node.keys) + 1
  <2>1. PICK keys, links, queue :
               /\ node = [kind |-> "internal", keys |-> keys, links |-> links, queue |-> queue]
               /\ keys \in UNION {[1..n -> Keys] : n \in 0..(MaxBranches - 1)}
               /\ links \in {[i \in 1..n |-> Link(i)] : n \in 1..MaxBranches}
               /\ queue \in Queues(MaxEdits)
    BY <1>3 DEF InternalNodes
  <2>2. PICK n \in 1..MaxBranches : links = LinksOf(n)
    BY <2>1 DEF LinksOf
  <2>3. n \in Nat \ {0} /\ Len(links) = n
    <3>1. n \in Nat \ {0}
      BY PagesAssumption
    <3>2. links = [i \in 1..n |-> Link(i)]
      BY <2>2 DEF LinksOf
    <3> QED
      BY <3>1, <3>2
  <2>4. keys \in Seq(Keys)
    <3>1. PICK m \in 0..(MaxBranches - 1) : keys \in [1..m -> Keys]
      BY <2>1
    <3>2. m \in Nat
      BY <3>1, PagesAssumption
    <3> QED
      BY <3>1, <3>2
  <2>5. Len(keys) = n - 1
    <3>1. n = Len(keys) + 1
      BY <1>3, <2>1, <2>3
    <3>2. Len(keys) \in Nat
      BY <2>4
    <3> QED
      BY <3>1, <3>2
  <2>6. queue \in Seq(Edits)
    <3>1. PICK m \in 0..MaxEdits : queue \in [1..m -> Edits]
      BY <2>1 DEF Queues
    <3>2. m \in Nat
      BY <3>1, PagesAssumption
    <3> QED
      BY <3>1, <3>2
  <2>7. IsInternal(node, keys, n, queue)
    BY <2>1, <2>2, <2>3, <2>4, <2>5, <2>6 DEF IsInternal
  <2> QED
    BY <2>7
<1>4. \/ node.kind = "leaf"
      \/ node \in OverflowNodes
      \/ node \in InternalNodes /\ Len(node.links) = Len(node.keys) + 1
  BY DEF NodeInv
<1> QED
  BY <1>1, <1>2, <1>3, <1>4

\* The page gets as many bytes as its fields take.
LEMMA WrittenAsCounted ==
  ASSUME NodeInv
  PROVE  /\ Serialized(node) \in Seq(AField)
         /\ PageSize(node) = FieldBytes(Serialized(node))
<1>1. ASSUME NEW pairs, NEW next, IsLeaf(node, pairs, next), bytes = PairBytes(pairs)
      PROVE  /\ Serialized(node) \in Seq(AField)
             /\ PageSize(node) = FieldBytes(Serialized(node))
  <2>1. /\ Serialized(node) \in Seq(AField)
        /\ FieldBytes(Serialized(node)) = 2 + 4 + 4 + 20 + PairBytes(pairs)
    BY <1>1, SizeOfLeaf
  <2>2. node.kind = "leaf"
    BY <1>1 DEF IsLeaf, Leaf
  <2>3. PageSize(node) = 2 + 4 + 4 + 20 + bytes
    BY <2>2 DEF PageSize
  <2> QED
    BY <1>1, <2>1, <2>3
<1>2. ASSUME NEW vals, NEW next, IsOverflow(node, vals, next)
      PROVE  /\ Serialized(node) \in Seq(AField)
             /\ PageSize(node) = FieldBytes(Serialized(node))
  <2>1. /\ Serialized(node) \in Seq(AField)
        /\ FieldBytes(Serialized(node)) = 2 + 4 + 4 + 20 + Total(ValueSizes(vals))
    BY <1>2, SizeOfOverflow
  <2>2. node.kind = "overflow" /\ node.vals = vals
    BY <1>2 DEF IsOverflow
  <2>3. PageSize(node) = 2 + 4 + 4 + 20 + Total(ValueSizes(vals))
    BY <2>2 DEF PageSize, ValueSizes
  <2> QED
    BY <2>1, <2>3
<1>3. ASSUME NEW keys, NEW n, NEW queue, IsInternal(node, keys, n, queue)
      PROVE  /\ Serialized(node) \in Seq(AField)
             /\ PageSize(node) = FieldBytes(Serialized(node))
  <2>1. PICK sizes : sizes = [i \in DOMAIN queue |-> 1 + ItemBytes(queue[i])]
    OBVIOUS
  <2>2. /\ Serialized(node) \in Seq(AField)
        /\ FieldBytes(Serialized(node))
             = 2 + 4 + 4 + Total(KeySizes(keys)) + n * (20 + 4) + Total(sizes)
    BY <1>3, <2>1, SizeOfInternal
  <2>3. /\ node.kind = "internal" /\ node.keys = keys /\ node.links = LinksOf(n)
        /\ node.queue = queue /\ n \in Nat
    BY <1>3 DEF IsInternal
  <2>4. Len(LinksOf(n)) = n
    BY <2>3 DEF LinksOf
  <2>5. PageSize(node) = 2 + 4 + 4 + Total(KeySizes(keys)) + n * (20 + 4) + Total(sizes)
    BY <2>1, <2>3, <2>4 DEF PageSize, KeySizes
  <2> QED
    BY <2>2, <2>5
<1> QED
  BY <1>1, <1>2, <1>3, NodeKinds

LEMMA NodeInvStarts ==
  ASSUME Init
  PROVE  NodeInv
<1>1. bytes = 0
  BY DEF Init
<1>2. ASSUME NEW next \in Links, node = Leaf(<<>>, next) PROVE NodeInv
  <2>1. PICK none : none = <<>>
    OBVIOUS
  <2>2. none \in Seq(Pairs) /\ InOrder(none)
    BY <2>1 DEF InOrder
  <2>3. PairBytes(none) = 0
    <3>1. SizesOf(none) = <<>>
      BY <2>1 DEF SizesOf
    <3> QED
      BY <2>2, <3>1, SizesAre, TotalEmpty
  <2>4. GoodPairs(none, 0)
    BY <2>2, <2>3 DEF GoodPairs
  <2>5. /\ Leaf(none, next) \in [kind : {"leaf"}, pairs : Seq(Pairs), next : Links]
        /\ Sorted(Leaf(none, next).pairs) /\ 0 = PairBytes(Leaf(none, next).pairs)
    BY <2>4, LeafIs
  <2>6. node = Leaf(none, next)
    BY <1>2, <2>1
  <2> QED
    BY <1>1, <2>5, <2>6 DEF NodeInv
<1> QED
  BY <1>2 DEF Init, NodeInv

\* Only editing changes the node.
LEMMA NodeInvKept ==
  ASSUME NodeInv, [Next]_vars
  PROVE  NodeInv'
<1>1. CASE EditLeaf
  BY <1>1, EditLeafKeeps
<1>2. CASE UNCHANGED <<node, bytes>>
  BY <1>2 DEF NodeInv
<1>3. EditLeaf \/ UNCHANGED <<node, bytes>>
  BY DEF Next, Store, CutShort, Read, EndsEarly, UnknownType, Trailing, Accept,
         Refuse, Parsed, Over, vars
<1> QED
  BY <1>1, <1>2, <1>3

\* Whatever a leaf went through, it is in order and has its bytes counted: what
\* merging edits, binary search and the size of its page rely on.
THEOREM NodeAlwaysGood == Spec => []NodeInv
<1>1. Init => NodeInv
  BY NodeInvStarts
<1>2. NodeInv /\ [Next]_vars => NodeInv'
  BY NodeInvKept
<1> QED
  BY <1>1, <1>2, PTL DEF Spec

\* A page always has as many bytes as the serializer writes into it.
THEOREM SizesAlwaysRight == Spec => []SizeRight
<1>1. NodeInv => SizeRight
  BY WrittenAsCounted DEF SizeRight
<1> QED
  BY <1>1, NodeAlwaysGood, PTL

-----------------------------------------------------------------------------
(* Where things are in what is written *)

Within(u, p, s) ==
  p \in Nat /\ p + Len(s) <= Len(u) /\ \A i \in 1..Len(s) : u[p + i] = s[i]

LEMMA WithinBack ==
  ASSUME NEW s \in Seq(AField), NEW t \in Seq(AField), NEW p, p = Len(s), NEW u, u = s \o t
  PROVE  Within(u, p, t) /\ Len(u) = p + Len(t) /\ u \in Seq(AField)
<1>1. /\ u \in Seq(AField) /\ Len(u) = Len(s) + Len(t)
      /\ Len(s) \in Nat /\ Len(t) \in Nat
      /\ \A i \in 1..Len(t) : u[Len(s) + i] = t[i]
  BY JoinIs
<1>2. p \in Nat /\ Len(u) = p + Len(t) /\ \A i \in 1..Len(t) : u[p + i] = t[i]
  BY <1>1
<1>3. p + Len(t) <= Len(u)
  BY <1>1, <1>2
<1> QED
  BY <1>1, <1>2, <1>3 DEF Within

LEMMA WithinFront ==
  ASSUME NEW s \in Seq(AField), NEW t \in Seq(AField), NEW u, u = s \o t,
         NEW r, Len(r) \in Nat, NEW p, Within(s, p, r)
  PROVE  Within(u, p, r)
<1>1. /\ Len(u) = Len(s) + Len(t) /\ Len(s) \in Nat /\ Len(t) \in Nat
      /\ \A i \in 1..Len(s) : u[i] = s[i]
  BY JoinIs
<1>2. p \in Nat /\ p + Len(r) <= Len(s) /\ \A i \in 1..Len(r) : s[p + i] = r[i]
  BY DEF Within
<1>3. p + Len(r) <= Len(u)
  BY <1>1, <1>2
<1>4. ASSUME NEW i \in 1..Len(r) PROVE u[p + i] = r[i]
  <2>1. p + i \in 1..Len(s)
    BY <1>1, <1>2
  <2>2. u[p + i] = s[p + i]
    BY <1>1, <2>1
  <2> QED
    BY <1>2, <2>2
<1> QED
  BY <1>2, <1>3, <1>4 DEF Within

LEMMA WithinSelf ==
  ASSUME NEW s \in Seq(AField)
  PROVE  Within(s, 0, s)
<1>1. Len(s) \in Nat /\ \A i \in 1..Len(s) : 0 + i = i
  OBVIOUS
<1>2. 0 + Len(s) <= Len(s)
  BY <1>1
<1>3. \A i \in 1..Len(s) : s[0 + i] = s[i]
  BY <1>1
<1> QED
  BY <1>2, <1>3 DEF Within

\* The names in w are those of the first fields of s.
Begins(w, s) ==
  /\ w \in Seq(Names) /\ Len(w) <= Len(s)
  /\ \A i \in 1..Len(w) : w[i] = s[i].what

LEMMA BeginsMore ==
  ASSUME NEW s \in Seq(AField), NEW t \in Seq(AField), NEW w, Begins(w, s)
  PROVE  Begins(w, s \o t)
<1>1. PICK u : u = s \o t
  OBVIOUS
<1>2. /\ Len(u) = Len(s) + Len(t) /\ Len(s) \in Nat /\ Len(t) \in Nat
      /\ \A i \in 1..Len(s) : u[i] = s[i]
  BY <1>1, JoinIs
<1>3. w \in Seq(Names) /\ Len(w) <= Len(s) /\ \A i \in 1..Len(w) : w[i] = s[i].what
  BY DEF Begins
<1>4. Len(w) \in Nat
  BY <1>3
<1>5. Len(w) <= Len(u) /\ \A i \in 1..Len(w) : i \in 1..Len(s)
  BY <1>2, <1>3, <1>4
<1>6. Begins(w, u)
  BY <1>2, <1>3, <1>5 DEF Begins
<1> QED
  BY <1>1, <1>6

LEMMA BeginsJoin ==
  ASSUME NEW s \in Seq(AField), NEW t \in Seq(AField),
         NEW v, Begins(v, s), Len(v) = Len(s), NEW w, Begins(w, t)
  PROVE  Begins(v \o w, s \o t) /\ Len(v \o w) = Len(v) + Len(w)
<1>1. PICK u : u = s \o t
  OBVIOUS
<1>2. PICK x : x = v \o w
  OBVIOUS
<1>3. PICK m \in Nat : m = Len(s)
  OBVIOUS
<1>4. PICK n \in Nat : n = Len(t)
  OBVIOUS
<1>5. v \in Seq(Names) /\ Len(v) = m /\ \A i \in 1..m : v[i] = s[i].what
  BY <1>3 DEF Begins
<1>6. w \in Seq(Names) /\ Len(w) <= n /\ \A i \in 1..Len(w) : w[i] = t[i].what
  BY <1>4 DEF Begins
<1>7. PICK l \in Nat : l = Len(w)
  BY <1>6
<1>8. l <= n /\ \A i \in 1..l : w[i] = t[i].what
  BY <1>6, <1>7
<1>9. /\ Len(u) = m + n
      /\ \A i \in 1..m : u[i] = s[i]
      /\ \A i \in 1..n : u[m + i] = t[i]
  BY <1>1, <1>3, <1>4, JoinIs
<1>10. /\ x \in Seq(Names) /\ Len(x) = m + l
       /\ \A i \in 1..m : x[i] = v[i]
       /\ \A i \in 1..l : x[m + i] = w[i]
  <2>1. v \in Seq(Names) /\ w \in Seq(Names)
    BY <1>5, <1>6
  <2>2. /\ x \in Seq(Names) /\ Len(x) = Len(v) + Len(w)
        /\ \A i \in 1..Len(v) : x[i] = v[i]
        /\ \A i \in 1..Len(w) : x[Len(v) + i] = w[i]
    BY ONLY <1>2, <2>1, JoinIs
  <2> QED
    BY <1>5, <1>7, <2>2
<1>11. ASSUME NEW i \in 1..(m + l) PROVE x[i] = u[i].what
  <2>1. i \in 1..m \/ \E j \in 1..l : i = m + j
    BY JoinSplits
  <2>2. CASE i \in 1..m
    BY <1>5, <1>9, <1>10, <2>2
  <2>3. ASSUME NEW j \in 1..l, i = m + j PROVE x[i] = u[i].what
    <3>1. j \in 1..n
      BY <1>8
    <3>2. x[m + j] = w[j] /\ u[m + j] = t[j]
      BY <1>9, <1>10, <3>1
    <3> QED
      BY <1>8, <2>3, <3>2
  <2> QED
    BY <2>1, <2>2, <2>3
<1>12. m + l <= m + n
  BY <1>8
<1>13. Begins(x, u)
  BY <1>9, <1>10, <1>11, <1>12 DEF Begins
<1> QED
  BY <1>1, <1>2, <1>5, <1>7, <1>10, <1>13

LEMMA RepeatIs ==
  ASSUME NEW what \in Names, NEW n \in Nat, NEW r, r = Repeat(what, n)
  PROVE  r \in Seq(Names) /\ Len(r) = n /\ \A i \in 1..n : r[i] = what
<1>1. Max({0, n}) = n
  BY DEF Max
<1>2. r = [i \in 1..n |-> what]
  BY <1>1 DEF Repeat
<1> QED
  BY <1>2

LEMMA BeginsRun ==
  ASSUME NEW what \in Names, NEW vals, NEW size, NEW s, Part(s, what, vals, size),
         NEW n \in Nat, n = Len(vals)
  PROVE  Begins(Repeat(what, n), s) /\ Len(Repeat(what, n)) = n /\ Len(s) = n
         /\ s \in Seq(AField)
<1>1. PICK r : r = Repeat(what, n)
  OBVIOUS
<1>2. r \in Seq(Names) /\ Len(r) = n /\ \A i \in 1..n : r[i] = what
  BY ONLY what \in Names, n \in Nat, <1>1, RepeatIs
<1>3. Len(s) = n /\ s \in Seq(AField) /\ \A i \in 1..n : s[i].what = what
  BY DEF Part
<1>4. Len(r) <= Len(s) /\ \A i \in 1..Len(r) : r[i] = s[i].what
  BY <1>2, <1>3
<1>5. Begins(r, s)
  BY <1>2, <1>4 DEF Begins
<1> QED
  BY <1>1, <1>2, <1>3, <1>5

-----------------------------------------------------------------------------
(* What the parser expects to come next *)

Prefix(whole, k) == [i \in 1..k |-> whole[i].is]

LEMMA PrefixIs ==
  ASSUME NEW whole \in Seq(AField), NEW k \in 0..Len(whole), NEW r, r = Prefix(whole, k)
  PROVE  r \in Seq(Anything) /\ Len(r) = k /\ \A i \in 1..k : r[i] = whole[i].is
<1>1. k \in Nat /\ \A i \in 1..k : whole[i] \in AField
  OBVIOUS
<1>2. \A i \in 1..k : whole[i].is \in Anything
  BY <1>1 DEF AField
<1> QED
  BY <1>1, <1>2 DEF Prefix

\* After k fields, the names in w go on as the fields do, and only end with them.
Fits(w, whole, k) ==
  Begins(w, whole) /\ Len(w) > 0 /\ (Len(w) > k \/ Len(w) = Len(whole))

Readable(x) ==
  \A k \in 0..Len(Serialized(x)) :
    Fits(Wanted(Prefix(Serialized(x), k)), Serialized(x), k)

LEMMA BeginsStart ==
  ASSUME NEW x, x.kind \in {"leaf", "overflow", "internal"}, NEW n \in Nat
  PROVE  Begins(<<"flags", "count">>, Start(x, n)) /\ Len(<<"flags", "count">>) = 2
<1>1. PICK a : a = Start(x, n)
  OBVIOUS
<1>2. Len(a) = 2 /\ a[1].what = "flags" /\ a[2].what = "count"
  BY <1>1, StartIs
<1>3. PICK w : w = <<"flags", "count">>
  OBVIOUS
<1>4. w \in Seq(Names) /\ Len(w) = 2 /\ w[1] = "flags" /\ w[2] = "count"
  BY <1>3 DEF Names
<1>5. \A i \in 1..2 : i = 1 \/ i = 2
  OBVIOUS
<1>6. Begins(w, a)
  BY <1>2, <1>4, <1>5 DEF Begins
<1> QED
  BY <1>1, <1>3, <1>4, <1>6

LEMMA BeginsChain ==
  ASSUME NEW next \in Links
  PROVE  Begins(<<"items", "id">>, Chain(next)) /\ Len(<<"items", "id">>) = 2
<1>1. PICK a : a = Chain(next)
  OBVIOUS
<1>2. Len(a) = 2 /\ a[1].what = "items" /\ a[2].what = "id"
  BY <1>1, ChainIs
<1>3. PICK w : w = <<"items", "id">>
  OBVIOUS
<1>4. w \in Seq(Names) /\ Len(w) = 2 /\ w[1] = "items" /\ w[2] = "id"
  BY <1>3 DEF Names
<1>5. \A i \in 1..2 : i = 1 \/ i = 2
  OBVIOUS
<1>6. Begins(w, a)
  BY <1>2, <1>4, <1>5 DEF Begins
<1> QED
  BY <1>1, <1>3, <1>4, <1>6

\* All parts of a leaf, and of an overflow node.
LeafParts(x, pairs, next, a, k, v, c) ==
  /\ Serialized(x) = a \o k \o v \o c
  /\ a = Start(x, Len(pairs)) /\ c = Chain(next)
  /\ Part(k, "key", KeysOf(pairs), Total(KeySizes(KeysOf(pairs))))
  /\ Part(v, "value", ValsOf(pairs), Total(ValueSizes(ValsOf(pairs))))

OverflowParts(x, vals, next, a, v, c) ==
  /\ Serialized(x) = a \o v \o c
  /\ a = Start(x, Len(vals)) /\ c = Chain(next)
  /\ Part(v, "value", vals, Total(ValueSizes(vals)))

LEMMA LeafWritten ==
  ASSUME NEW x, NEW pairs, NEW next, IsLeaf(x, pairs, next)
  PROVE  \E a, k, v, c : LeafParts(x, pairs, next, a, k, v, c)
<1>1. x.kind = "leaf" /\ x.pairs = pairs /\ x.next = next /\ pairs \in Seq(Pairs)
  BY DEF IsLeaf, Leaf
<1>2. PICK k : k = FieldsOf("key", KeysOf(pairs))
  OBVIOUS
<1>3. PICK v : v = FieldsOf("value", ValsOf(pairs))
  OBVIOUS
<1>4. Serialized(x) = Start(x, Len(pairs)) \o k \o v \o Chain(next)
  BY <1>1, <1>2, <1>3 DEF Serialized
<1>5. KeysOf(pairs) \in Seq(Keys) /\ ValsOf(pairs) \in Seq(Values)
  BY <1>1, ColumnsOfPairs
<1>6. Part(k, "key", KeysOf(pairs), Total(KeySizes(KeysOf(pairs))))
  BY <1>2, <1>5, RunBytesKeys DEF Part
<1>7. Part(v, "value", ValsOf(pairs), Total(ValueSizes(ValsOf(pairs))))
  BY <1>3, <1>5, RunBytesValues DEF Part
<1> QED
  BY <1>4, <1>6, <1>7 DEF LeafParts

LEMMA OverflowWritten ==
  ASSUME NEW x, NEW vals, NEW next, IsOverflow(x, vals, next)
  PROVE  \E a, v, c : OverflowParts(x, vals, next, a, v, c)
<1>1. x.kind = "overflow" /\ x.vals = vals /\ x.next = next /\ vals \in Seq(Values)
  BY DEF IsOverflow
<1>2. PICK v : v = FieldsOf("value", vals)
  OBVIOUS
<1>3. Serialized(x) = Start(x, Len(vals)) \o v \o Chain(next)
  BY <1>1, <1>2 DEF Serialized
<1>4. Part(v, "value", vals, Total(ValueSizes(vals)))
  BY <1>1, <1>2, RunBytesValues DEF Part
<1> QED
  BY <1>3, <1>4 DEF OverflowParts

\* What the first two fields tell.
LEMMA StartRead ==
  ASSUME NEW x, x.kind \in {"leaf", "overflow", "internal"}, NEW n \in Nat,
         NEW whole \in Seq(AField), Within(whole, 0, Start(x, n)),
         NEW k \in 0..Len(whole), k >= 2, NEW r, r = Prefix(whole, k)
  PROVE  r[1] = x.kind /\ r[2] = n /\ Len(r) = k
<1>1. Len(r) = k /\ \A i \in 1..k : r[i] = whole[i].is
  BY PrefixIs
<1>2. PICK a : a = Start(x, n)
  OBVIOUS
<1>3. Len(a) = 2 /\ a[1].is = x.kind /\ a[2].is = n
  BY <1>2, StartIs
<1>4. whole[0 + 1] = a[1] /\ whole[0 + 2] = a[2]
  BY <1>2, <1>3 DEF Within
<1>5. 1 \in 1..k /\ 2 \in 1..k /\ 0 + 1 = 1 /\ 0 + 2 = 2
  OBVIOUS
<1> QED
  BY <1>1, <1>3, <1>4, <1>5

\* The names in w are those of all n fields of s.
Named(w, s, n) ==
  s \in Seq(AField) /\ Len(s) = n /\ n \in Nat /\ Begins(w, s) /\ Len(w) = n

LEMMA NamedRun ==
  ASSUME NEW what \in Names, NEW vals, NEW size, NEW s, Part(s, what, vals, size),
         NEW n \in Nat, n = Len(vals)
  PROVE  Named(Repeat(what, n), s, n)
<1> QED
  BY BeginsRun DEF Named

\* Besides, s goes on from its first fields a, whose names are in start.
Grown(s, w, n, start, a) == Named(w, s, n) /\ Begins(start, s) /\ Within(s, 0, a)

LEMMA GrownStart ==
  ASSUME NEW a, NEW start, NEW n, Named(start, a, n)
  PROVE  Grown(a, start, n, start, a)
<1>1. a \in Seq(AField) /\ Begins(start, a)
  BY DEF Named
<1> QED
  BY <1>1, WithinSelf DEF Grown

LEMMA GrownMore ==
  ASSUME NEW s, NEW w, NEW m, NEW start, NEW a, Grown(s, w, m, start, a), a \in Seq(AField),
         NEW t, NEW v, NEW n, Named(v, t, n),
         NEW st, st = s \o t, NEW wv, wv = w \o v
  PROVE  Grown(st, wv, m + n, start, a)
<1>1. s \in Seq(AField) /\ Len(s) = m /\ m \in Nat /\ Begins(w, s) /\ Len(w) = m
      /\ Begins(start, s) /\ Within(s, 0, a)
  BY DEF Grown, Named
<1>2. t \in Seq(AField) /\ Len(t) = n /\ n \in Nat /\ Begins(v, t) /\ Len(v) = n
  BY DEF Named
<1>3. st \in Seq(AField) /\ Len(st) = Len(s) + Len(t)
  BY <1>1, <1>2, JoinIs
<1>4. Begins(wv, st) /\ Len(wv) = Len(w) + Len(v)
  <2>1. /\ s \in Seq(AField) /\ Begins(w, s) /\ Len(w) = Len(s)
        /\ t \in Seq(AField) /\ Begins(v, t)
    BY <1>1, <1>2
  <2>2. Begins(w \o v, s \o t) /\ Len(w \o v) = Len(w) + Len(v)
    BY ONLY <2>1, BeginsJoin
  <2> QED
    BY <2>2
<1>5. Begins(start, st)
  BY <1>1, <1>2, BeginsMore
<1>6. Within(st, 0, a)
  <2>1. Len(a) \in Nat
    OBVIOUS
  <2> QED
    BY <1>1, <1>2, <2>1, WithinFront
<1>7. Len(st) = m + n /\ Len(wv) = m + n /\ m + n \in Nat
  BY <1>1, <1>2, <1>3, <1>4
<1> QED
  BY <1>3, <1>4, <1>5, <1>6, <1>7 DEF Grown, Named

\* Names that go far enough, or all the way, fit.
LEMMA GrownFits ==
  ASSUME NEW s, NEW w, NEW n, NEW start, NEW a, Grown(s, w, n, start, a), n > 0, NEW k
  PROVE  Fits(w, s, k)
<1> QED
  BY DEF Grown, Named, Fits

LEMMA StartFits ==
  ASSUME NEW s, NEW w, NEW n, NEW start, NEW a, Grown(s, w, n, start, a),
         NEW k \in Nat, Len(start) \in Nat, Len(start) > k
  PROVE  Fits(start, s, k)
<1> QED
  BY DEF Grown, Fits

LEMMA LeafReadable ==
  ASSUME NEW x, NEW pairs, NEW next, IsLeaf(x, pairs, next)
  PROVE  Readable(x)
<1>1. x.kind = "leaf" /\ pairs \in Seq(Pairs) /\ next \in Links
  BY DEF IsLeaf, Leaf
<1>2. PICK n \in Nat : n = Len(pairs)
  BY <1>1
<1>3. PICK a, k, v, c : LeafParts(x, pairs, next, a, k, v, c)
  BY LeafWritten
<1>4. PICK start : start = <<"flags", "count">>
  OBVIOUS
<1>5. PICK end : end = <<"items", "id">>
  OBVIOUS
<1>6. a = Start(x, n) /\ a \in Seq(AField) /\ Named(start, a, 2)
  BY <1>1, <1>2, <1>3, <1>4, StartIs, BeginsStart DEF LeafParts, Named
<1>7. Named(end, c, 2)
  BY <1>1, <1>3, <1>5, ChainIs, BeginsChain DEF LeafParts, Named
<1>8. Named(Repeat("key", n), k, n)
  <2>1. Len(KeysOf(pairs)) = n /\ "key" \in Names
    BY <1>1, <1>2, ColumnsOfPairs DEF Names
  <2> QED
    BY <1>3, <2>1, NamedRun DEF LeafParts
<1>9. Named(Repeat("value", n), v, n)
  <2>1. Len(ValsOf(pairs)) = n /\ "value" \in Names
    BY <1>1, <1>2, ColumnsOfPairs DEF Names
  <2> QED
    BY <1>3, <2>1, NamedRun DEF LeafParts
<1>10. PICK u1 : u1 = a \o k
  OBVIOUS
<1>11. PICK u2 : u2 = u1 \o v
  OBVIOUS
<1>12. PICK u3 : u3 = u2 \o c
  OBVIOUS
<1>13. PICK w1 : w1 = start \o Repeat("key", n)
  OBVIOUS
<1>14. PICK w2 : w2 = w1 \o Repeat("value", n)
  OBVIOUS
<1>15. PICK w3 : w3 = w2 \o end
  OBVIOUS
<1>16. Grown(u1, w1, 2 + n, start, a)
  BY <1>6, <1>8, <1>10, <1>13, GrownStart, GrownMore
<1>17. Grown(u2, w2, 2 + n + n, start, a)
  BY <1>6, <1>9, <1>11, <1>14, <1>16, GrownMore
<1>18. Grown(u3, w3, 2 + n + n + 2, start, a)
  BY <1>6, <1>7, <1>12, <1>15, <1>17, GrownMore
<1>19. Serialized(x) = u3
  BY <1>3, <1>10, <1>11, <1>12 DEF LeafParts
<1>20. u3 \in Seq(AField) /\ Within(u3, 0, a) /\ Len(start) = 2
  BY <1>6, <1>18 DEF Grown, Named
<1>21. ASSUME NEW j \in 0..Len(u3) PROVE Fits(Wanted(Prefix(u3, j)), u3, j)
  <2>1. PICK r : r = Prefix(u3, j)
    OBVIOUS
  <2>2. Len(r) = j
    BY <1>20, <2>1, PrefixIs
  <2>3. CASE j < 2
    <3>1. Wanted(r) = start
      BY <1>4, <2>2, <2>3 DEF Wanted
    <3>2. Len(start) \in Nat /\ Len(start) > j /\ j \in Nat
      BY <1>20, <2>3
    <3>3. Fits(start, u3, j)
      BY <1>18, <3>2, StartFits
    <3> QED
      BY <2>1, <3>1, <3>3
  <2>4. CASE ~(j < 2)
    <3>1. j >= 2
      BY <2>4
    <3>2. r[1] = "leaf" /\ r[2] = n
      BY <1>1, <1>6, <1>20, <2>1, <3>1, StartRead
    <3>3. Wanted(r) = start \o Repeat("key", n) \o Repeat("value", n) \o end
      BY <1>4, <1>5, <2>2, <2>4, <3>1, <3>2 DEF Wanted
    <3>4. Wanted(r) = w3
      BY <1>13, <1>14, <1>15, <3>3
    <3>5. 2 + n + n + 2 > 0
      OBVIOUS
    <3> QED
      BY <1>18, <2>1, <3>4, <3>5, GrownFits
  <2> QED BY <2>3, <2>4
<1> QED
  BY <1>19, <1>21 DEF Readable

LEMMA OverflowReadable ==
  ASSUME NEW x, NEW vals, NEW next, IsOverflow(x, vals, next)
  PROVE  Readable(x)
<1>1. x.kind = "overflow" /\ vals \in Seq(Values) /\ next \in Links
  BY DEF IsOverflow
<1>2. PICK n \in Nat : n = Len(vals)
  BY <1>1
<1>3. PICK a, v, c : OverflowParts(x, vals, next, a, v, c)
  BY OverflowWritten
<1>4. PICK start : start = <<"flags", "count">>
  OBVIOUS
<1>5. PICK end : end = <<"items", "id">>
  OBVIOUS
<1>6. a = Start(x, n) /\ a \in Seq(AField) /\ Named(start, a, 2)
  BY <1>1, <1>2, <1>3, <1>4, StartIs, BeginsStart DEF OverflowParts, Named
<1>7. Named(end, c, 2)
  BY <1>1, <1>3, <1>5, ChainIs, BeginsChain DEF OverflowParts, Named
<1>8. Named(Repeat("value", n), v, n)
  <2>1. "value" \in Names
    BY DEF Names
  <2> QED
    BY <1>2, <1>3, <2>1, NamedRun DEF OverflowParts
<1>9. PICK u1 : u1 = a \o v
  OBVIOUS
<1>10. PICK u2 : u2 = u1 \o c
  OBVIOUS
<1>11. PICK w1 : w1 = start \o Repeat("value", n)
  OBVIOUS
<1>12. PICK w2 : w2 = w1 \o end
  OBVIOUS
<1>13. Grown(u1, w1, 2 + n, start, a)
  BY <1>6, <1>8, <1>9, <1>11, GrownStart, GrownMore
<1>14. Grown(u2, w2, 2 + n + 2, start, a)
  BY <1>6, <1>7, <1>10, <1>12, <1>13, GrownMore
<1>15. Serialized(x) = u2
  BY <1>3, <1>9, <1>10 DEF OverflowParts
<1>16. u2 \in Seq(AField) /\ Within(u2, 0, a) /\ Len(start) = 2
  BY <1>6, <1>14 DEF Grown, Named
<1>17. ASSUME NEW j \in 0..Len(u2) PROVE Fits(Wanted(Prefix(u2, j)), u2, j)
  <2>1. PICK r : r = Prefix(u2, j)
    OBVIOUS
  <2>2. Len(r) = j
    BY <1>16, <2>1, PrefixIs
  <2>3. CASE j < 2
    <3>1. Wanted(r) = start
      BY <1>4, <2>2, <2>3 DEF Wanted
    <3>2. Len(start) \in Nat /\ Len(start) > j /\ j \in Nat
      BY <1>16, <2>3
    <3>3. Fits(start, u2, j)
      BY <1>14, <3>2, StartFits
    <3> QED
      BY <2>1, <3>1, <3>3
  <2>4. CASE ~(j < 2)
    <3>1. j >= 2
      BY <2>4
    <3>2. r[1] = "overflow" /\ r[2] = n
      BY <1>1, <1>6, <1>16, <2>1, <3>1, StartRead
    <3>3. Wanted(r) = start \o Repeat("value", n) \o end
      BY <1>4, <1>5, <2>2, <2>4, <3>1, <3>2 DEF Wanted
    <3>4. Wanted(r) = w2
      BY <1>11, <1>12, <3>3
    <3>5. 2 + n + 2 > 0
      OBVIOUS
    <3> QED
      BY <1>14, <2>1, <3>4, <3>5, GrownFits
  <2> QED BY <2>3, <2>4
<1> QED
  BY <1>15, <1>17 DEF Readable

HeadHas(whole, h, n, m) ==
  /\ Len(h) = 3 /\ h[1].is = "internal" /\ h[2].is = n /\ h[3].is = m
  /\ whole \in Seq(AField) /\ Within(whole, 0, h)

\* What the first three fields of an internal node tell.
LEMMA HeadRead ==
  ASSUME NEW n, NEW m, NEW h, NEW whole, HeadHas(whole, h, n, m),
         NEW k \in 0..Len(whole), NEW r, r = Prefix(whole, k)
  PROVE  /\ Len(r) = k
         /\ (k >= 2 => r[1] = "internal" /\ r[2] = n)
         /\ (k >= 3 => r[3] = m)
<1>0. /\ Len(h) = 3 /\ h[1].is = "internal" /\ h[2].is = n /\ h[3].is = m
      /\ whole \in Seq(AField) /\ Within(whole, 0, h)
  BY DEF HeadHas
<1>1. Len(r) = k /\ \A i \in 1..k : r[i] = whole[i].is
  BY <1>0, PrefixIs
<1>2. \A i \in 1..3 : whole[0 + i] = h[i]
  BY <1>0 DEF Within
<1>3. whole[1] = h[1] /\ whole[2] = h[2] /\ whole[3] = h[3]
  <2>1. 1 \in 1..3 /\ 2 \in 1..3 /\ 3 \in 1..3 /\ 0 + 1 = 1 /\ 0 + 2 = 2 /\ 0 + 3 = 3
    OBVIOUS
  <2> QED
    BY <1>2, <2>1
<1>4. k >= 2 => 1 \in 1..k /\ 2 \in 1..k
  BY <1>0
<1>5. k >= 3 => 3 \in 1..k
  BY <1>0
<1> QED
  BY <1>0, <1>1, <1>3, <1>4, <1>5

LEMMA BeginsHead ==
  ASSUME NEW x, x.kind = "internal", NEW n \in Nat, NEW m \in Nat, NEW h, h = HeadOf(x, n, m)
  PROVE  /\ Named(<<"flags", "count", "edits">>, h, 3)
         /\ Begins(<<"flags", "count">>, h)
<1>1. /\ h \in Seq(AField) /\ Len(h) = 3
      /\ h[1].what = "flags" /\ h[2].what = "count" /\ h[3].what = "edits"
  BY HeadIs
<1>2. PICK w : w = <<"flags", "count", "edits">>
  OBVIOUS
<1>3. w \in Seq(Names) /\ Len(w) = 3 /\ w[1] = "flags" /\ w[2] = "count" /\ w[3] = "edits"
  BY <1>2 DEF Names
<1>4. \A i \in 1..3 : i = 1 \/ i = 2 \/ i = 3
  OBVIOUS
<1>5. Named(w, h, 3)
  BY <1>1, <1>3, <1>4 DEF Begins, Named
<1>6. PICK b : b = <<"flags", "count">>
  OBVIOUS
<1>7. b \in Seq(Names) /\ Len(b) = 2 /\ b[1] = "flags" /\ b[2] = "count"
  BY <1>6 DEF Names
<1>8. \A i \in 1..2 : i = 1 \/ i = 2
  OBVIOUS
<1>9. Begins(b, h)
  BY <1>1, <1>7, <1>8 DEF Begins
<1> QED
  BY <1>2, <1>5, <1>6, <1>9

FrontNames(n) ==
  <<"flags", "count", "edits">> \o Repeat("key", n - 1) \o Repeat("id", n) \o Repeat("items", n)

QueueNames(m, z) == Repeat("type", m) \o Repeat("key", m) \o Repeat("value", z)

\* The part of an internal node before its queue, and the names of its fields.
LEMMA FrontNamed ==
  ASSUME NEW x, NEW keys, NEW n, NEW queue, IsInternal(x, keys, n, queue),
         NEW h, NEW k, NEW l, NEW c, NEW t, NEW q, NEW v,
         InternalParts(x, keys, n, queue, h, k, l, c, t, q, v),
         NEW start, start = <<"flags", "count", "edits">>,
         NEW w, w = FrontNames(n)
  PROVE  Grown(h \o k \o l \o c, w, 3 * n + 2, start, h) /\ h \in Seq(AField)
<1>1. /\ x.kind = "internal" /\ n \in Nat \ {0} /\ keys \in Seq(Keys) /\ Len(keys) = n - 1
      /\ queue \in Seq(Edits) /\ Len(queue) \in Nat
  BY DEF IsInternal
<1>2. h = HeadOf(x, n, Len(queue)) /\ n \in Nat
  BY <1>1 DEF InternalParts
<1>3. Named(start, h, 3) /\ h \in Seq(AField)
  BY <1>1, <1>2, BeginsHead, HeadIs
<1>4. Named(Repeat("key", n - 1), k, n - 1)
  <2>1. n - 1 \in Nat /\ "key" \in Names
    BY <1>1 DEF Names
  <2> QED
    BY <1>1, <2>1, NamedRun DEF InternalParts
<1>5. Len(Identity(n)) = n
  BY <1>1 DEF Identity
<1>6. Named(Repeat("id", n), l, n)
  <2>1. "id" \in Names
    BY DEF Names
  <2> QED
    BY <1>2, <1>5, <2>1, NamedRun DEF InternalParts
<1>7. Named(Repeat("items", n), c, n)
  <2>1. "items" \in Names
    BY DEF Names
  <2> QED
    BY <1>2, <1>5, <2>1, NamedRun DEF InternalParts
<1>8. PICK u1 : u1 = h \o k
  OBVIOUS
<1>9. PICK u2 : u2 = u1 \o l
  OBVIOUS
<1>10. PICK u3 : u3 = u2 \o c
  OBVIOUS
<1>11. PICK w1 : w1 = start \o Repeat("key", n - 1)
  OBVIOUS
<1>12. PICK w2 : w2 = w1 \o Repeat("id", n)
  OBVIOUS
<1>13. w = w2 \o Repeat("items", n)
  BY <1>11, <1>12 DEF FrontNames
<1>14. Grown(u1, w1, 3 + (n - 1), start, h)
  BY <1>3, <1>4, <1>8, <1>11, GrownStart, GrownMore
<1>15. Grown(u2, w2, (3 + (n - 1)) + n, start, h)
  BY <1>3, <1>6, <1>9, <1>12, <1>14, GrownMore
<1>16. Grown(u3, w, ((3 + (n - 1)) + n) + n, start, h)
  BY <1>3, <1>7, <1>10, <1>13, <1>15, GrownMore
<1>17. ((3 + (n - 1)) + n) + n = 3 * n + 2
  BY <1>1
<1> QED
  BY <1>3, <1>8, <1>9, <1>10, <1>16, <1>17

\* The types and keys of a queue follow.
LEMMA QueueNamed ==
  ASSUME NEW x, NEW keys, NEW n, NEW queue, IsInternal(x, keys, n, queue),
         NEW h, NEW k, NEW l, NEW c, NEW t, NEW q, NEW v,
         InternalParts(x, keys, n, queue, h, k, l, c, t, q, v),
         NEW m \in Nat, m = Len(queue),
         NEW u, NEW w, NEW d, NEW start, Grown(u, w, d, start, h), h \in Seq(AField)
  PROVE  Grown(u \o t \o q, w \o Repeat("type", m) \o Repeat("key", m), d + m + m, start, h)
<1>1. queue \in Seq(Edits)
  BY DEF IsInternal
<1>2. Named(Repeat("type", m), t, m)
  <2>1. "type" \in Names /\ Len(OpsOf(queue)) = m
    BY <1>1, TypesAre DEF Names
  <2> QED
    BY <2>1, NamedRun DEF InternalParts
<1>3. Named(Repeat("key", m), q, m)
  <2>1. "key" \in Names /\ Len(KeysOf(queue)) = m
    BY <1>1, ColumnOfEdits DEF Names
  <2> QED
    BY <2>1, NamedRun DEF InternalParts
<1>4. PICK u1 : u1 = u \o t
  OBVIOUS
<1>5. PICK w1 : w1 = w \o Repeat("type", m)
  OBVIOUS
<1>6. Grown(u1, w1, d + m, start, h)
  BY <1>2, <1>4, <1>5, GrownMore
<1>7. Grown(u1 \o q, w1 \o Repeat("key", m), (d + m) + m, start, h)
  BY <1>3, <1>6, GrownMore
<1> QED
  BY <1>4, <1>5, <1>7

\* Names in the order in which the parser puts them together.
LEMMA Regrouped ==
  ASSUME NEW w \in Seq(Names), NEW m \in Nat, NEW z \in Nat
  PROVE  w \o QueueNames(m, z)
           = w \o Repeat("type", m) \o Repeat("key", m) \o Repeat("value", z)
<1>1. "type" \in Names /\ "key" \in Names /\ "value" \in Names
  BY DEF Names
<1>2. PICK a \in Seq(Names) : a = Repeat("type", m)
  BY <1>1, RepeatIs
<1>3. PICK b \in Seq(Names) : b = Repeat("key", m)
  BY <1>1, RepeatIs
<1>4. PICK c \in Seq(Names) : c = Repeat("value", z)
  BY <1>1, RepeatIs
<1>5. PICK ab \in Seq(Names) : ab = a \o b
  BY JoinIs
<1>6. (w \o ab) \o c = w \o (ab \o c)
  BY ConcatAssociative
<1>7. (w \o a) \o b = w \o ab
  BY <1>5, ConcatAssociative
<1>8. QueueNames(m, z) = ab \o c
  BY <1>2, <1>3, <1>4, <1>5 DEF QueueNames
<1> QED
  BY <1>2, <1>3, <1>4, <1>6, <1>7, <1>8

TypesIn(queue, m, whole, d, t) ==
  /\ queue \in Seq(Edits) /\ m \in Nat /\ m = Len(queue)
  /\ whole \in Seq(AField) /\ d \in Nat
  /\ Part(t, "type", OpsOf(queue), m) /\ Within(whole, d, t)

\* The types that have been read: those of the queue, as far as they go.
LEMMA TypesRead ==
  ASSUME NEW queue, NEW m, NEW whole, NEW d, NEW t, TypesIn(queue, m, whole, d, t),
         NEW k \in 0..Len(whole), NEW r, r = Prefix(whole, k),
         NEW types, types = SubSeq(r, d + 1, k)
  PROVE  /\ Len(types) < m => k < d + m
         /\ ~(Len(types) < m) => SubSeq(types, 1, m) = OpsOf(queue)
<1>1. /\ queue \in Seq(Edits) /\ m \in Nat /\ m = Len(queue)
      /\ whole \in Seq(AField) /\ d \in Nat
      /\ Part(t, "type", OpsOf(queue), m) /\ Within(whole, d, t)
  BY DEF TypesIn
<1>2. r \in Seq(Anything) /\ Len(r) = k /\ \A i \in 1..k : r[i] = whole[i].is /\ k \in Nat
  BY <1>1, PrefixIs
<1>3. PICK ops : ops = OpsOf(queue)
  OBVIOUS
<1>4. ops \in Seq(Ops) /\ Len(ops) = m
  BY <1>1, <1>3, TypesAre
<1>5. Len(t) = m /\ \A i \in 1..m : t[i].is = ops[i]
  BY <1>1, <1>3, <1>4 DEF Part
<1>6. \A i \in 1..m : whole[d + i].is = ops[i]
  BY <1>1, <1>5 DEF Within
<1>7. ASSUME k < d + m, m > 0 PROVE Len(types) < m
  BY <1>1, <1>2, <1>7
<1>8. ASSUME k >= d + m PROVE ~(Len(types) < m) /\ SubSeq(types, 1, m) = ops
  <2>1. PICK j \in Nat : j = k - d
    BY <1>1, <1>2, <1>8
  <2>2. types \in Seq(Anything) /\ Len(types) = j /\ j >= m
        /\ \A i \in 1..j : types[i] = r[d + i]
    BY <1>1, <1>2, <1>8, <2>1
  <2>3. \A i \in 1..m : i \in 1..j /\ d + i \in 1..k
    BY <1>1, <1>2, <2>1, <2>2
  <2>4. \A i \in 1..m : types[i] = ops[i]
    BY <1>2, <1>6, <2>2, <2>3
  <2>5. PICK f : f = SubSeq(types, 1, m)
    OBVIOUS
  <2>6. Len(f) = m /\ \A i \in 1..m : f[i] = types[i]
    BY <1>1, <2>2, <2>5
  <2>7. f = [i \in 1..m |-> f[i]] /\ ops = [i \in 1..m |-> ops[i]]
    BY <1>1, <1>4, <2>2, <2>5, <2>6
  <2>8. \A i \in 1..m : f[i] = ops[i]
    BY <2>4, <2>6
  <2>9. f = ops
    BY ONLY <2>7, <2>8
  <2>10. ~(Len(types) < m)
    BY <1>1, <2>1, <2>2
  <2> QED
    BY <2>5, <2>9, <2>10
<1>9. ASSUME m = 0 PROVE SubSeq(types, 1, m) = ops
  <2>1. PICK f : f = SubSeq(types, 1, 0)
    OBVIOUS
  <2>2. PICK none : none = <<>>
    OBVIOUS
  <2>3. f = none
    BY <2>1, <2>2
  <2>4. ops = none
    BY <1>4, <1>9, <2>2
  <2> QED
    BY <1>9, <2>1, <2>3, <2>4
<1>10. k < d + m \/ k >= d + m
  BY <1>1, <1>2
<1>11. m = 0 \/ m > 0
  BY <1>1
<1> QED
  BY <1>3, <1>7, <1>8, <1>9, <1>10, <1>11

\* There are as many values in a queue as edits with a value.
LEMMA CountOfValues ==
  ASSUME NEW queue \in Seq(Edits), NEW types, types = OpsOf(queue)
  PROVE  /\ QueueValues(queue) \in Seq(Values)
         /\ Len(QueueValues(queue)) = Valued(types) /\ Valued(types) \in Nat
         /\ ValuePlaced(QueueValues(queue), queue, types, Len(queue))
<1>1. PICK vals : vals = QueueValues(queue)
  OBVIOUS
<1>2. PICK sizes : sizes = [i \in 1..Len(queue) |-> ValueBytes(queue[i].val)]
  OBVIOUS
<1>3. Len(queue) \in Nat /\ \A i \in 1..Len(queue) : queue[i] \in Edits
  OBVIOUS
<1>4. ASSUME NEW i \in 1..Len(queue) PROVE ValueBytes(queue[i].val) \in Nat
  <2>1. PICK y : y = queue[i].val
    OBVIOUS
  <2>2. y \in Values \cup {NoValue}
    BY <1>3, <2>1, BytesOfItems
  <2>3. y \in Values \/ y = NoValue
    BY <2>2
  <2>4. CASE y = NoValue
    <3>1. ValueBytes(NoValue) = 0
      BY ItemsAre
    <3> QED
      BY <2>1, <2>4, <3>1
  <2>5. CASE y \in Values
    <3>1. ValueBytes(y) \in Nat
      BY <2>5, ItemsAre
    <3> QED
      BY <2>1, <3>1
  <2> QED
    BY <2>3, <2>4, <2>5
<1>5. /\ sizes \in Seq(Nat) /\ Len(sizes) = Len(queue)
      /\ \A i \in 1..Len(queue) : sizes[i] = ValueBytes(queue[i].val)
  BY <1>2, <1>3, <1>4
<1>6. /\ vals \in Seq(Values) /\ Len(vals) = Valued(types)
      /\ ValuePlaced(vals, queue, types, Len(queue))
  BY <1>1, <1>5, ValuesOfQueue
<1> QED
  BY <1>1, <1>6

\* Fewer names that are in order fit as well.
LEMMA FewerFit ==
  ASSUME NEW s \in Seq(AField), Begins(<<"flags", "count", "edits">>, s), NEW k \in Nat, k < 2
  PROVE  Fits(<<"flags", "count">>, s, k)
<1>1. PICK w : w = <<"flags", "count", "edits">>
  OBVIOUS
<1>2. w \in Seq(Names) /\ Len(w) = 3 /\ w[1] = "flags" /\ w[2] = "count"
  BY <1>1 DEF Names
<1>3. PICK b : b = <<"flags", "count">>
  OBVIOUS
<1>4. b \in Seq(Names) /\ Len(b) = 2 /\ b[1] = "flags" /\ b[2] = "count"
  BY <1>3 DEF Names
<1>5. 3 <= Len(s) /\ \A i \in 1..3 : w[i] = s[i].what
  BY <1>1, <1>2 DEF Begins
<1>6. PICK m \in Nat : m = Len(s)
  OBVIOUS
<1>7. \A i \in 1..2 : i \in 1..3 /\ (i = 1 \/ i = 2)
  OBVIOUS
<1>8. \A i \in 1..2 : b[i] = s[i].what
  BY <1>2, <1>4, <1>5, <1>7
<1>9. Begins(b, s)
  BY <1>4, <1>5, <1>6, <1>8 DEF Begins
<1> QED
  BY <1>3, <1>4, <1>9 DEF Fits

\* The types are where the front of the node ends.
LEMMA TypesPlaced ==
  ASSUME NEW u \in Seq(AField), NEW d, d = Len(u), NEW t \in Seq(AField),
         NEW q \in Seq(AField), NEW v \in Seq(AField), NEW all, all = u \o t \o q \o v
  PROVE  Within(all, d, t)
<1>1. PICK u1 : u1 = u \o t
  OBVIOUS
<1>2. Within(u1, d, t) /\ u1 \in Seq(AField)
  BY <1>1, WithinBack
<1>3. PICK u2 : u2 = u1 \o q
  OBVIOUS
<1>4. u2 \in Seq(AField)
  BY <1>2, <1>3, JoinIs
<1>5. Len(t) \in Nat
  OBVIOUS
<1>6. Within(u2, d, t)
  BY <1>2, <1>3, <1>5, WithinFront
<1>7. all = u2 \o v
  BY <1>1, <1>3
<1> QED
  BY <1>4, <1>5, <1>6, <1>7, WithinFront

HeadKnown(r, n, m, j) ==
  /\ n \in Nat \ {0} /\ m \in Nat /\ j \in Nat /\ j > 2 /\ Len(r) = j
  /\ r[1] = "internal" /\ r[2] = n /\ r[3] = m

\* What is wanted of an internal node once its head has been read.
LEMMA WantedOfInternal ==
  ASSUME NEW r, NEW n, NEW m, NEW j, HeadKnown(r, n, m, j),
         NEW types, types = SubSeq(r, 3 * n + 2 + 1, j),
         NEW z, z = (IF Len(types) < m THEN 0 ELSE Valued(SubSeq(types, 1, m)))
  PROVE  Wanted(r) = FrontNames(n) \o QueueNames(m, z)
<1>1. /\ n \in Nat \ {0} /\ m \in Nat /\ j \in Nat /\ j > 2 /\ Len(r) = j
      /\ r[1] = "internal" /\ r[2] = n /\ r[3] = m
  BY DEF HeadKnown
<1>2. PICK l \in Nat : l = n - 1
  BY <1>1
<1>3. PICK ks : ks = Repeat("key", l)
  OBVIOUS
<1>4. Len(ks) = l
  <2>1. "key" \in Names
    BY DEF Names
  <2> QED
    BY <1>3, <2>1, RepeatIs
<1>5. 3 + Len(ks) + n + n + 1 = 3 * n + 2 + 1
  <2>1. 3 + l + n + n + 1 = 3 * n + 2 + 1
    BY <1>1, <1>2
  <2> QED
    BY <1>4, <2>1
<1>6. WantedEdits(types, m) = QueueNames(m, z)
  BY DEF WantedEdits, QueueNames
<1>7. ~(Len(r) < 2) /\ Len(r) >= 2 /\ Len(r) # 2 /\ Len(r) > 2
  <2>1. ~(j < 2) /\ j >= 2 /\ j # 2
    BY <1>1
  <2> QED
    BY <1>1, <2>1
<1>8. Wanted(r)
        = <<"flags", "count", "edits">> \o ks
            \o Repeat("id", n) \o Repeat("items", n) \o WantedEdits(types, m)
  BY <1>1, <1>2, <1>3, <1>5, <1>7 DEF Wanted
<1> QED
  BY <1>2, <1>3, <1>6, <1>8 DEF FrontNames

LEMMA InternalReadable ==
  ASSUME NEW x, NEW keys, NEW n, NEW queue, IsInternal(x, keys, n, queue)
  PROVE  Readable(x)
<1>1. x.kind = "internal" /\ n \in Nat \ {0} /\ n \in Nat /\ queue \in Seq(Edits)
  BY DEF IsInternal
<1>2. PICK m \in Nat : m = Len(queue)
  BY <1>1
<1>3. PICK h, k, l, c, t, q, v : InternalParts(x, keys, n, queue, h, k, l, c, t, q, v)
  BY InternalWritten
<1>4. PICK start : start = <<"flags", "count", "edits">>
  OBVIOUS
<1>5. PICK w : w = FrontNames(n)
  OBVIOUS
<1>6. PICK u : u = h \o k \o l \o c
  OBVIOUS
<1>7. PICK d \in Nat : d = 3 * n + 2
  BY <1>1
<1>8. Grown(u, w, d, start, h) /\ h \in Seq(AField)
  BY <1>3, <1>4, <1>5, <1>6, <1>7, FrontNamed
<1>9. Len(h) = 3 /\ h[1].is = "internal" /\ h[2].is = n /\ h[3].is = m
  <2>1. h = HeadOf(x, n, m)
    BY <1>2, <1>3 DEF InternalParts
  <2> QED
    BY <1>1, <2>1, HeadIs
<1>10. PICK uq : uq = u \o t \o q
  OBVIOUS
<1>11. PICK wq : wq = w \o Repeat("type", m) \o Repeat("key", m)
  OBVIOUS
<1>12. Grown(uq, wq, d + m + m, start, h)
  BY <1>2, <1>3, <1>8, <1>10, <1>11, QueueNamed
<1>13. PICK ops : ops = OpsOf(queue)
  OBVIOUS
<1>14. PICK p \in Nat : p = Valued(ops) /\ p = Len(QueueValues(queue))
  BY <1>1, <1>13, CountOfValues
<1>15. Named(Repeat("value", p), v, p)
  <2>1. "value" \in Names
    BY DEF Names
  <2> QED
    BY <1>3, <1>14, <2>1, NamedRun DEF InternalParts
<1>16. PICK all : all = uq \o v
  OBVIOUS
<1>17. PICK wall : wall = wq \o Repeat("value", p)
  OBVIOUS
<1>18. Grown(all, wall, (d + m + m) + p, start, h)
  BY <1>8, <1>12, <1>15, <1>16, <1>17, GrownMore
<1>19. Serialized(x) = all
  BY <1>3, <1>6, <1>10, <1>16 DEF InternalParts
<1>20. /\ all \in Seq(AField) /\ Within(all, 0, h) /\ Begins(start, all)
       /\ Begins(wq, uq) /\ uq \in Seq(AField) /\ v \in Seq(AField)
       /\ Len(wq) = d + m + m /\ wq \in Seq(Names) /\ w \in Seq(Names)
  BY <1>8, <1>12, <1>15, <1>18 DEF Grown, Named, Begins
<1>21. Begins(wq, all)
  BY <1>16, <1>20, BeginsMore
<1>22. Within(all, d, t)
  <2>1. u \in Seq(AField) /\ d = Len(u)
    BY <1>8 DEF Grown, Named
  <2>2. t \in Seq(AField) /\ q \in Seq(AField) /\ v \in Seq(AField)
    BY <1>3 DEF InternalParts, Part
  <2>3. all = u \o t \o q \o v
    BY <1>10, <1>16
  <2> QED
    BY <2>1, <2>2, <2>3, TypesPlaced
<1>23. ASSUME NEW j \in 0..Len(all) PROVE Fits(Wanted(Prefix(all, j)), all, j)
  <2>1. PICK r : r = Prefix(all, j)
    OBVIOUS
  <2>2. /\ Len(r) = j /\ j \in Nat
        /\ (j >= 2 => r[1] = "internal" /\ r[2] = n)
        /\ (j >= 3 => r[3] = m)
    <3>1. HeadHas(all, h, n, m)
      BY <1>9, <1>20 DEF HeadHas
    <3>2. /\ Len(r) = j
          /\ (j >= 2 => r[1] = "internal" /\ r[2] = n)
          /\ (j >= 3 => r[3] = m)
      BY <2>1, <3>1, HeadRead
    <3> QED
      BY <1>20, <3>2
  <2>3. CASE j < 2
    <3>1. Wanted(r) = <<"flags", "count">>
      BY <2>2, <2>3 DEF Wanted
    <3>2. Fits(<<"flags", "count">>, all, j)
      BY <1>4, <1>20, <2>2, <2>3, FewerFit
    <3> QED
      BY <2>1, <3>1, <3>2
  <2>4. CASE j = 2
    <3>1. Wanted(r) = start
      BY <1>4, <2>2, <2>4 DEF Wanted
    <3>2. Len(start) \in Nat /\ Len(start) > j
      BY <1>4, <2>4
    <3>3. Fits(start, all, j)
      BY <1>18, <2>2, <3>2, StartFits
    <3> QED
      BY <2>1, <3>1, <3>3
  <2>5. CASE j > 2
    <3>1. j >= 2 /\ j >= 3
      BY <2>2, <2>5
    <3>2. PICK types : types = SubSeq(r, d + 1, j)
      OBVIOUS
    <3>3. PICK z : z = (IF Len(types) < m THEN 0 ELSE Valued(SubSeq(types, 1, m)))
      OBVIOUS
    <3>4. PICK wt : wt = Wanted(r)
      OBVIOUS
    <3>5. wt = w \o QueueNames(m, z)
      <4>1. HeadKnown(r, n, m, j)
        BY <1>1, <2>2, <2>5, <3>1 DEF HeadKnown
      <4>2. types = SubSeq(r, 3 * n + 2 + 1, j)
        BY <1>7, <3>2
      <4> QED
        BY <1>5, <3>3, <3>4, <4>1, <4>2, WantedOfInternal
    <3>6. Part(t, "type", OpsOf(queue), m)
      BY <1>2, <1>3 DEF InternalParts
    <3>7. /\ Len(types) < m => j < d + m
          /\ ~(Len(types) < m) => SubSeq(types, 1, m) = ops
      <4>1. TypesIn(queue, m, all, d, t)
        BY <1>1, <1>2, <1>20, <1>22, <3>6 DEF TypesIn
      <4>2. /\ Len(types) < m => j < d + m
            /\ ~(Len(types) < m) => SubSeq(types, 1, m) = OpsOf(queue)
        BY <2>1, <3>2, <4>1, TypesRead
      <4> QED
        BY <1>13, <4>2
    <3>8. z \in Nat /\ (Len(types) < m => z = 0) /\ (~(Len(types) < m) => z = p)
      BY <1>14, <3>3, <3>7
    <3>9. PICK e \in Seq(Names) : e = Repeat("value", z) /\ Len(e) = z
      <4>1. "value" \in Names
        BY DEF Names
      <4> QED
        BY <3>8, <4>1, RepeatIs
    <3>10. wt = wq \o e
      BY <1>11, <1>20, <3>5, <3>8, <3>9, Regrouped
    <3>11. CASE Len(types) < m
      <4>1. wq \o e = wq
        <5>1. PICK none : none = <<>>
          OBVIOUS
        <5>2. e = none
          BY <3>8, <3>9, <3>11, <5>1
        <5>3. wq \o none = wq
          BY <1>20, <5>1, ConcatEmptySeq
        <5> QED
          BY <5>2, <5>3
      <4>2. Len(wq) > j /\ Len(wq) > 0
        BY <1>20, <2>2, <3>7, <3>11
      <4>3. Fits(wq, all, j)
        BY <1>21, <4>2 DEF Fits
      <4> QED
        BY <2>1, <3>4, <3>10, <4>1, <4>3
    <3>12. CASE ~(Len(types) < m)
      <4>1. wt = wall
        BY <1>17, <3>8, <3>9, <3>10, <3>12
      <4>2. (d + m + m) + p > 0
        BY <1>1, <1>7
      <4>3. Fits(wall, all, j)
        BY <1>18, <4>2, GrownFits
      <4> QED
        BY <2>1, <3>4, <4>1, <4>3
    <3> QED
      BY <3>11, <3>12
  <2>6. j < 2 \/ j = 2 \/ j > 2
    BY <2>2
  <2> QED
    BY <2>3, <2>4, <2>5, <2>6
<1> QED
  BY <1>19, <1>23 DEF Readable

\* Whatever the node is, what the parser expects is what comes.
LEMMA AlwaysReadable ==
  ASSUME NodeInv
  PROVE  Readable(node)
<1> QED
  BY NodeKinds, LeafReadable, OverflowReadable, InternalReadable

-----------------------------------------------------------------------------
(* Where the fields are in the page *)

Offset(whole, k) == FieldBytes(SubSeq(whole, 1, k))

LEMMA OffsetIs ==
  ASSUME NEW whole \in Seq(AField), NEW k \in 0..Len(whole)
  PROVE  Offset(whole, k) = StartOf(BytesIn(whole), k + 1)
<1>1. PICK b \in Seq(Nat) : b = BytesIn(whole)
  BY BytesInAre
<1>2. Len(b) = Len(whole) /\ \A i \in 1..Len(whole) : b[i] = whole[i].bytes
  BY <1>1, BytesInAre
<1>3. k \in Nat /\ k <= Len(whole) /\ k <= Len(b)
  BY <1>2
<1>4. PICK f : f = SubSeq(whole, 1, k)
  OBVIOUS
<1>5. f \in Seq(AField) /\ Len(f) = k /\ \A i \in 1..k : f[i] = whole[i]
  BY <1>4, <1>3
<1>6. PICK g : g = SubSeq(b, 1, k)
  OBVIOUS
<1>7. g \in Seq(Nat) /\ Len(g) = k /\ \A i \in 1..k : g[i] = b[i]
  BY <1>3, <1>6
<1>8. /\ BytesIn(f) \in Seq(Nat) /\ Len(BytesIn(f)) = Len(f)
      /\ \A i \in 1..Len(f) : BytesIn(f)[i] = f[i].bytes
      /\ FieldBytes(f) = Total(BytesIn(f))
  BY <1>5, BytesInAre
<1>9. BytesIn(f) = g
  <2>1. PICK a \in Seq(Nat) : a = BytesIn(f)
    BY <1>8
  <2>2. Len(a) = k /\ \A i \in 1..k : a[i] = f[i].bytes
    BY <1>5, <1>8, <2>1
  <2>3. \A i \in 1..k : i \in 1..Len(whole)
    OBVIOUS
  <2>4. \A i \in 1..k : a[i] = g[i]
    BY <1>2, <1>5, <1>7, <2>2, <2>3
  <2>5. a = [i \in 1..k |-> a[i]] /\ g = [i \in 1..k |-> g[i]]
    BY <1>7, <2>2
  <2> QED
    BY <2>1, <2>4, <2>5
<1>10. k + 1 - 1 = k
  OBVIOUS
<1>11. Offset(whole, k) = FieldBytes(f)
  BY <1>4 DEF Offset
<1>12. StartOf(b, k + 1) = Total(g)
  BY <1>6, <1>10 DEF StartOf
<1> QED
  BY <1>1, <1>8, <1>9, <1>11, <1>12

\* Each field begins where the one before it ends.
LEMMA OffsetsAre ==
  ASSUME NEW whole \in Seq(AField)
  PROVE  /\ Offset(whole, 0) = 0 /\ Offset(whole, Len(whole)) = FieldBytes(whole)
         /\ \A k \in 0..Len(whole) : Offset(whole, k) \in Nat
         /\ \A k \in 1..Len(whole) : Offset(whole, k) = Offset(whole, k - 1) + whole[k].bytes
<1>1. PICK b \in Seq(Nat) : b = BytesIn(whole)
  BY BytesInAre
<1>2. Len(b) = Len(whole) /\ \A i \in 1..Len(whole) : b[i] = whole[i].bytes
  BY <1>1, BytesInAre
<1>3. FieldBytes(whole) = Total(b)
  BY <1>1, BytesInAre
<1>4. PICK n \in Nat : n = Len(whole)
  OBVIOUS
<1>5. \A k \in 0..n : Offset(whole, k) = StartOf(b, k + 1)
  BY <1>1, <1>4, OffsetIs
<1>6. /\ StartOf(b, 1) = 0 /\ StartOf(b, n + 1) = Total(b)
      /\ \A i \in 1..(n + 1) : StartOf(b, i) \in Nat
      /\ \A i \in 1..n : StartOf(b, i + 1) = StartOf(b, i) + b[i]
  BY <1>2, <1>4, StartsAre
<1>7. Offset(whole, 0) = 0
  <2>1. 0 \in 0..n /\ 0 + 1 = 1
    BY <1>4
  <2> QED
    BY <1>5, <1>6, <2>1
<1>8. Offset(whole, n) = FieldBytes(whole)
  BY <1>3, <1>5, <1>6
<1>9. \A k \in 0..n : Offset(whole, k) \in Nat
  <2>1. \A k \in 0..n : k + 1 \in 1..(n + 1)
    OBVIOUS
  <2> QED
    BY <1>5, <1>6, <2>1
<1>10. ASSUME NEW k \in 1..n PROVE Offset(whole, k) = Offset(whole, k - 1) + whole[k].bytes
  <2>1. k \in 0..n /\ k - 1 \in 0..n /\ k - 1 + 1 = k
    OBVIOUS
  <2>2. Offset(whole, k) = StartOf(b, k + 1) /\ Offset(whole, k - 1) = StartOf(b, k)
    BY <1>5, <2>1
  <2>3. b[k] = whole[k].bytes
    BY <1>2, <1>4
  <2> QED
    BY <1>6, <2>2, <2>3
<1> QED
  BY <1>4, <1>7, <1>8, <1>9, <1>10

LEMMA OffsetsIncrease ==
  ASSUME NEW whole \in Seq(AField), NEW k \in 0..Len(whole), NEW l \in 0..Len(whole), k < l
  PROVE  Offset(whole, k) < Offset(whole, l)
<1>1. PICK b \in Seq(Nat) : b = BytesIn(whole)
  BY BytesInAre
<1>2. Len(b) = Len(whole) /\ \A i \in 1..Len(b) : b[i] > 0
  BY <1>1, BytesInAre
<1>3. k + 1 \in 1..(Len(b) + 1) /\ l + 1 \in 1..(Len(b) + 1) /\ k + 1 < l + 1
  BY <1>2
<1>4. PICK kk \in 1..(Len(b) + 1) : kk = k + 1
  BY <1>3
<1>5. PICK ll \in 1..(Len(b) + 1) : ll = l + 1
  BY <1>3
<1>6. StartOf(b, kk) < StartOf(b, ll)
  BY <1>2, <1>3, <1>4, <1>5, StartsIncrease
<1> QED
  BY <1>1, <1>4, <1>5, <1>6, OffsetIs

\* In the page, each field is where it begins.
LEMMA PlacedAre ==
  ASSUME NEW whole \in Seq(AField)
  PROVE  /\ \A k \in 1..Len(whole) : /\ Offset(whole, k - 1) \in DOMAIN Placed(whole)
                                     /\ Placed(whole)[Offset(whole, k - 1)] = whole[k]
         /\ \A o \in DOMAIN Placed(whole) : Placed(whole)[o] \in AField
<1>1. PICK n \in Nat : n = Len(whole)
  OBVIOUS
<1>2. DOMAIN whole = 1..n /\ \A i \in 1..n : whole[i] \in AField
  BY <1>1
<1>3. PICK p : p = Placed(whole)
  OBVIOUS
<1>4. p = [o \in {Offset(whole, i - 1) : i \in 1..n} |->
             whole[CHOOSE i \in 1..n : Offset(whole, i - 1) = o]]
  BY <1>2, <1>3 DEF Placed, Offset
<1>5. ASSUME NEW k \in 1..n
      PROVE  Offset(whole, k - 1) \in DOMAIN p /\ p[Offset(whole, k - 1)] = whole[k]
  <2>1. PICK o : o = Offset(whole, k - 1)
    OBVIOUS
  <2>2. PICK j : j = CHOOSE i \in 1..n : Offset(whole, i - 1) = o
    OBVIOUS
  <2>3. j \in 1..n /\ Offset(whole, j - 1) = o
    BY <2>1, <2>2
  <2>4. j = k
    <3>1. j - 1 \in 0..n /\ k - 1 \in 0..n
      BY <2>3
    <3>2. PICK a \in 0..n : a = j - 1
      BY <3>1
    <3>3. PICK b \in 0..n : b = k - 1
      BY <3>1
    <3>4. Offset(whole, a) = o /\ Offset(whole, b) = o /\ o \in Nat
      BY <1>1, <2>1, <2>3, <3>2, <3>3, OffsetsAre
    <3>5. ~(a < b)
      BY <1>1, <3>4, OffsetsIncrease
    <3>6. ~(b < a)
      BY <1>1, <3>4, OffsetsIncrease
    <3> QED
      BY <2>3, <3>2, <3>3, <3>5, <3>6
  <2>5. o \in {Offset(whole, i - 1) : i \in 1..n}
    BY <2>1
  <2> QED
    BY <1>4, <2>1, <2>2, <2>4, <2>5
<1>6. ASSUME NEW o \in DOMAIN p PROVE p[o] \in AField
  <2>1. o \in {Offset(whole, i - 1) : i \in 1..n}
    BY <1>4
  <2>2. PICK k \in 1..n : o = Offset(whole, k - 1)
    BY <2>1
  <2> QED
    BY <1>2, <1>5, <2>2
<1> QED
  BY <1>1, <1>3, <1>5, <1>6

-----------------------------------------------------------------------------
(* What the parser does to what it has read *)

\* Of the fields of whole, the parser has read k.
Tracked(whole, g, o, k) ==
  k \in 0..Len(whole) /\ g = Prefix(whole, k) /\ o = Offset(whole, k)

\* It is behind the end of a page that was cut.
Behind(whole, size, o) == size < FieldBytes(whole) /\ o \in Nat /\ o > size

OnTheWay(whole, size, g, o) ==
  (\E k \in 0..Len(whole) : Tracked(whole, g, o, k)) \/ Behind(whole, size, o)

\* The page of a node, cut or not.
PageOf(whole, p) == p \in [size : 0..FieldBytes(whole), fields : {Placed(whole)}]

LEMMA TrackNext ==
  ASSUME NEW whole \in Seq(AField), NEW g, NEW o, NEW k, Tracked(whole, g, o, k),
         NEW w, Fits(w, whole, k)
  PROVE  /\ Len(g) = k /\ k \in Nat /\ w # <<>> /\ Len(w) \in Nat
         /\ k # Len(w) => k + 1 \in 1..Len(whole) /\ w[k + 1] = whole[k + 1].what
         /\ k = Len(w) => k = Len(whole)
<1>1. PICK n \in Nat : n = Len(whole)
  OBVIOUS
<1>2. k \in 0..n /\ g = Prefix(whole, k)
  BY <1>1 DEF Tracked
<1>3. Len(g) = k
  BY <1>1, <1>2, PrefixIs
<1>4. w \in Seq(Names) /\ Len(w) <= n /\ (\A i \in 1..Len(w) : w[i] = whole[i].what)
      /\ Len(w) > 0 /\ (Len(w) > k \/ Len(w) = n)
  BY <1>1 DEF Fits, Begins
<1>5. PICK l \in Nat : l = Len(w)
  BY <1>4
<1>6. w # <<>>
  <2>1. PICK none : none = <<>>
    OBVIOUS
  <2>2. Len(none) = 0
    BY <2>1
  <2>3. Len(w) # 0
    BY <1>4, <1>5
  <2> QED
    BY <2>1, <2>2, <2>3
<1>7. ASSUME k # l PROVE k + 1 \in 1..n /\ w[k + 1] = whole[k + 1].what
  <2>1. k + 1 \in 1..l /\ k + 1 \in 1..n
    BY <1>2, <1>4, <1>5, <1>7
  <2> QED
    BY <1>4, <1>5, <2>1
<1>8. ASSUME k = l PROVE k = n
  BY <1>2, <1>4, <1>5, <1>8
<1> QED
  BY <1>1, <1>2, <1>3, <1>5, <1>6, <1>7, <1>8

LEMMA TrackMore ==
  ASSUME NEW whole \in Seq(AField), NEW g, NEW o, NEW k, Tracked(whole, g, o, k),
         NEW l, l = k + 1, l \in 1..Len(whole), NEW is, is = whole[l].is,
         NEW b, b = whole[l].bytes
  PROVE  Tracked(whole, Append(g, is), o + b, l)
<1>1. PICK n \in Nat : n = Len(whole)
  OBVIOUS
<1>2. k \in 0..n /\ g = Prefix(whole, k) /\ o = Offset(whole, k) /\ l \in 0..n /\ l \in 1..n
      /\ k = l - 1 /\ k \in Nat
  BY <1>1 DEF Tracked
<1>3. g \in Seq(Anything) /\ Len(g) = k /\ \A i \in 1..k : g[i] = whole[i].is
  BY <1>1, <1>2, PrefixIs
<1>4. PICK r : r = Prefix(whole, l)
  OBVIOUS
<1>5. r \in Seq(Anything) /\ Len(r) = l /\ \A i \in 1..l : r[i] = whole[i].is
  BY <1>1, <1>2, <1>4, PrefixIs
<1>6. is \in Anything
  <2>1. l \in 1..l
    BY <1>2
  <2> QED
    BY <1>5, <2>1
<1>7. PICK t : t = Append(g, is)
  OBVIOUS
<1>8. t \in Seq(Anything) /\ Len(t) = k + 1 /\ t[k + 1] = is /\ \A i \in 1..k : t[i] = g[i]
  BY <1>3, <1>6, <1>7
<1>9. ASSUME NEW i \in 1..l PROVE t[i] = r[i]
  <2>1. i \in 1..k \/ i = k + 1
    BY <1>2
  <2> QED
    BY <1>3, <1>5, <1>8, <2>1
<1>10. t = [i \in 1..l |-> t[i]] /\ r = [i \in 1..l |-> r[i]]
  BY <1>5, <1>8
<1>11. t = r
  BY ONLY <1>9, <1>10
<1>12. Offset(whole, l) = Offset(whole, k) + b
  BY <1>1, <1>2, OffsetsAre
<1> QED
  BY <1>1, <1>2, <1>4, <1>7, <1>11, <1>12 DEF Tracked

\* A field that does not fit takes the parser behind the end.
LEMMA TrackLost ==
  ASSUME NEW whole \in Seq(AField), NEW g, NEW o, NEW k, Tracked(whole, g, o, k),
         NEW l, l = k + 1, l \in 1..Len(whole),
         NEW size \in 0..FieldBytes(whole), o + whole[l].bytes > size,
         NEW b \in Nat, b = whole[l].bytes \/ b = size - o + 1
  PROVE  Behind(whole, size, o + b)
<1>1. PICK n \in Nat : n = Len(whole)
  OBVIOUS
<1>2. k \in 0..n /\ o = Offset(whole, k) /\ l \in 0..n /\ l \in 1..n /\ k = l - 1
  BY <1>1 DEF Tracked
<1>3. PICK c : c = whole[l].bytes
  OBVIOUS
<1>4. PICK full \in Nat : full = FieldBytes(whole)
  BY BytesInAre
<1>5. /\ o \in Nat /\ Offset(whole, l) \in Nat /\ Offset(whole, l) = o + c
      /\ Offset(whole, n) = full
  BY <1>1, <1>2, <1>3, <1>4, OffsetsAre
<1>6. whole[l] \in AField
  BY <1>1, <1>2
<1>7. c \in Nat
  BY <1>3, <1>6 DEF AField
<1>8. Offset(whole, l) <= full
  <2>1. CASE l = n
    BY <1>5, <2>1
  <2>2. CASE l < n
    <3>1. n \in 0..n
      OBVIOUS
    <3>2. Offset(whole, l) < Offset(whole, n)
      BY <1>1, <1>2, <2>2, <3>1, OffsetsIncrease
    <3> QED
      BY <1>4, <1>5, <3>2
  <2> QED
    BY <1>2, <2>1, <2>2
<1>9. size \in Nat /\ o + c > size /\ o + c <= full /\ (b = c \/ b = size - o + 1)
  BY <1>3, <1>4, <1>5, <1>8
<1>10. size < full /\ o + b \in Nat /\ o + b > size
  BY <1>4, <1>5, <1>7, <1>9
<1> QED
  BY <1>4, <1>10 DEF Behind

LEMMA FixedSizes ==
  \A what \in Fixed : FixedSize(what) \in Nat /\ FixedSize(what) > 0 /\ what \in Names
<1> TAKE what \in Fixed
<1>1. FixedSize(what) \in {1, 2, 4, 20}
  BY DEF Fixed, FixedSize
<1>2. what \in Names
  BY DEF Fixed, Names
<1> QED
  BY <1>1, <1>2

\* What a field takes where the page has been cut.
LEMMA GarbledBytes ==
  ASSUME NEW what \in Names, NEW field \in Garbled(what)
  PROVE  /\ what \in Fixed => field.bytes = FixedSize(what)
         /\ what \notin Fixed => field.bytes = page.size - offset + 1
<1>1. CASE what = "flags"
  <2>1. field.bytes = 2
    BY <1>1 DEF Garbled
  <2>2. FixedSize(what) = 2 /\ what \in Fixed
    BY <1>1 DEF FixedSize, Fixed
  <2> QED
    BY <2>1, <2>2
<1>2. CASE what \in {"count", "edits"}
  <2>1. field.bytes = 4
    BY <1>2 DEF Garbled
  <2>2. FixedSize(what) = 4 /\ what \in Fixed
    BY <1>2 DEF FixedSize, Fixed
  <2> QED
    BY <2>1, <2>2
<1>3. CASE what \in {"items", "id", "type"}
  <2>1. field.bytes = Width[what]
    BY <1>3 DEF Garbled
  <2>2. Width[what] = FixedSize(what) /\ what \in Fixed
    BY <1>3 DEF FixedSize, Fixed, Width
  <2> QED
    BY <2>1, <2>2
<1>4. CASE what \in {"key", "value"}
  <2>1. field.bytes = page.size - offset + 1
    BY <1>4 DEF Garbled
  <2>2. what \notin Fixed
    BY <1>4 DEF Fixed
  <2> QED
    BY <2>1, <2>2
<1> QED
  BY <1>1, <1>2, <1>3, <1>4 DEF Names

\* How far the parser is with a page, in any state.
Good(whole, p, g, o, ph) ==
  /\ ph = "memory" => g = <<>> /\ o = 0
  /\ ph # "memory" => PageOf(whole, p) /\ OnTheWay(whole, p.size, g, o)
  /\ ph = "parsed" => Tracked(whole, g, o, Len(whole)) /\ p.size = FieldBytes(whole)
  /\ ph = "refused" => p.size < FieldBytes(whole)

LEMMA ParseInvIs ==
  ASSUME NEW whole \in Seq(AField), whole = Serialized(node)
  PROVE  ParseInv <=> Good(whole, page, got, offset, phase)
<1>1. Len(whole) \in 0..Len(whole)
  OBVIOUS
<1>2. \A k \in 0..Len(whole) : Upto(k) <=> Tracked(whole, got, offset, k)
  BY DEF Upto, Tracked, Prefix, Offset
<1>3. OnTheWay(whole, page.size, got, offset) <=>
         \/ \E k \in 0..Len(whole) : Upto(k)
         \/ page.size < FieldBytes(whole) /\ offset \in Nat /\ offset > page.size
  BY <1>2 DEF OnTheWay, Behind
<1> QED
  BY <1>1, <1>2, <1>3 DEF ParseInv, Good, PageOf

LEMMA ParseInvNext ==
  ASSUME NEW whole \in Seq(AField), whole = Serialized(node'),
         Good(whole, page', got', offset', phase')
  PROVE  ParseInv'
<1>1. Len(whole) \in 0..Len(whole)
  OBVIOUS
<1>2. \A k \in 0..Len(whole) : Upto(k)' <=> Tracked(whole, got', offset', k)
  BY DEF Upto, Tracked, Prefix, Offset
<1>3. OnTheWay(whole, page.size', got', offset') <=>
         \/ \E k \in 0..Len(whole) : Upto(k)'
         \/ page.size' < FieldBytes(whole) /\ offset' \in Nat /\ offset' > page.size'
  BY <1>2 DEF OnTheWay, Behind
<1> QED
  BY <1>1, <1>2, <1>3 DEF ParseInv, Good, PageOf

\* While it parses: the node and its page, and how far the parser is.
LEMMA Reading ==
  ASSUME NodeInv, ParseInv, phase = "stored"
  PROVE  \E whole \in Seq(AField) :
           /\ whole = Serialized(node)
           /\ page.size \in 0..FieldBytes(whole) /\ page.fields = Placed(whole)
           /\ PageOf(whole, page) /\ OnTheWay(whole, page.size, got, offset)
           /\ \A k : Tracked(whole, got, offset, k) => Fits(Wanted(got), whole, k)
<1>1. PICK whole \in Seq(AField) : whole = Serialized(node)
  BY WrittenAsCounted
<1>2. Good(whole, page, got, offset, phase)
  BY <1>1, ParseInvIs
<1>3. PageOf(whole, page) /\ OnTheWay(whole, page.size, got, offset)
  BY <1>2 DEF Good
<1>4. page.size \in 0..FieldBytes(whole) /\ page.fields = Placed(whole)
  BY <1>3 DEF PageOf
<1>5. ASSUME NEW k, Tracked(whole, got, offset, k) PROVE Fits(Wanted(got), whole, k)
  <2>1. k \in 0..Len(whole) /\ got = Prefix(whole, k)
    BY <1>5 DEF Tracked
  <2> QED
    BY <1>1, <2>1, AlwaysReadable DEF Readable
<1> QED
  BY <1>1, <1>3, <1>4, <1>5

LEMMA ReadKeeps ==
  ASSUME NodeInv, ParseInv, Read
  PROVE  ParseInv'
<1>1. phase = "stored" /\ phase' = phase /\ node' = node /\ page' = page
  BY DEF Read, Parsing
<1>2. PICK whole \in Seq(AField) :
           /\ whole = Serialized(node)
           /\ page.size \in 0..FieldBytes(whole) /\ page.fields = Placed(whole)
           /\ PageOf(whole, page) /\ OnTheWay(whole, page.size, got, offset)
           /\ \A k : Tracked(whole, got, offset, k) => Fits(Wanted(got), whole, k)
  BY <1>1, Reading
<1>3. PICK size \in 0..FieldBytes(whole) : size = page.size
  BY <1>2
<1>4. PICK what : what = NextWanted
  OBVIOUS
<1>5. what \in Unchecked \/ offset < size
  BY <1>3, <1>4 DEF Read
<1>6. PICK field \in FieldsHere(what) :
              got' = Append(got, field.is) /\ offset' = offset + field.bytes
  BY <1>4 DEF Read
<1>7. \A o \in DOMAIN page.fields : page.fields[o] \in AField
  BY <1>2, PlacedAre
<1>8. FieldBytes(whole) \in Nat /\ size \in Nat
  BY <1>3, BytesInAre
<1>9. ASSUME Behind(whole, size, offset)
      PROVE  OnTheWay(whole, size, got', offset')
  <2>1. size < FieldBytes(whole) /\ offset \in Nat /\ offset > size
    BY <1>9 DEF Behind
  <2>2. what \in Unchecked
    BY <1>5, <1>8, <2>1
  <2>3. what \in Fixed
    BY <2>2 DEF Unchecked, Fixed
  <2>4. ASSUME offset \in DOMAIN page.fields PROVE ~(offset + page.fields[offset].bytes <= size)
    <3>1. page.fields[offset].bytes \in Nat
      BY <1>7, <2>4 DEF AField
    <3> QED
      BY <1>8, <2>1, <3>1
  <2>5. field \in Garbled(what)
    BY <1>3, <1>6, <2>4 DEF FieldsHere
  <2>6. field.bytes = FixedSize(what) /\ FixedSize(what) \in Nat
    BY <2>3, <2>5, FixedSizes, GarbledBytes
  <2>7. offset' \in Nat /\ offset' > size
    BY <1>6, <1>8, <2>1, <2>6
  <2> QED
    BY <2>1, <2>7 DEF Behind, OnTheWay
<1>10. ASSUME NEW k, Tracked(whole, got, offset, k)
       PROVE  OnTheWay(whole, size, got', offset')
  <2>1. PICK w : w = Wanted(got)
    OBVIOUS
  <2>2. Fits(w, whole, k)
    BY <1>2, <1>10, <2>1
  <2>3. /\ Len(got) = k /\ k \in Nat /\ Len(w) \in Nat
        /\ k # Len(w) => k + 1 \in 1..Len(whole) /\ w[k + 1] = whole[k + 1].what
    BY <1>10, <2>2, TrackNext
  <2>4. k # Len(w) /\ what = w[k + 1]
    BY <1>4, <2>1, <2>3 DEF Read, AtEnd, NextWanted
  <2>5. PICK l \in 1..Len(whole) : l = k + 1
    BY <2>3, <2>4
  <2>6. what = whole[l].what /\ whole[l] \in AField
    BY <2>3, <2>4, <2>5
  <2>7. k \in 0..Len(whole) /\ offset = Offset(whole, k) /\ l - 1 = k
    BY <1>10, <2>3, <2>5 DEF Tracked
  <2>8. offset \in DOMAIN page.fields /\ page.fields[offset] = whole[l] /\ offset \in Nat
    BY <1>2, <2>5, <2>7, PlacedAre, OffsetsAre
  <2>9. CASE offset + whole[l].bytes <= size
    <3>1. field = whole[l]
      BY <1>3, <1>6, <2>6, <2>8, <2>9 DEF FieldsHere
    <3>2. Tracked(whole, got', offset', l)
      BY <1>6, <1>10, <2>5, <3>1, TrackMore
    <3>3. l \in 0..Len(whole)
      BY <3>2 DEF Tracked
    <3> QED
      BY <3>2, <3>3 DEF OnTheWay
  <2>10. CASE ~(offset + whole[l].bytes <= size)
    <3>1. field \in Garbled(what)
      BY <1>3, <1>6, <2>8, <2>10 DEF FieldsHere
    <3>2. what \in Names /\ (what \in Fixed => whole[l].bytes = FixedSize(what))
          /\ whole[l].bytes \in Nat
      BY <2>6 DEF AField
    <3>3. PICK b : b = field.bytes
      OBVIOUS
    <3>4. /\ what \in Fixed => b = whole[l].bytes
          /\ what \notin Fixed => b = size - offset + 1
      BY <1>3, <3>1, <3>2, <3>3, GarbledBytes
    <3>5. b \in Nat
      <4>1. CASE what \in Fixed
        BY <3>2, <3>4, <4>1
      <4>2. CASE what \notin Fixed
        <5>1. what \notin Unchecked
          BY <4>2 DEF Unchecked, Fixed
        <5> QED
          BY <1>5, <1>8, <2>8, <3>4, <4>2, <5>1
      <4> QED
        BY <4>1, <4>2
    <3>6. offset + whole[l].bytes > size
      BY <1>8, <2>8, <2>10, <3>2
    <3>7. Behind(whole, size, offset + b)
      BY <1>10, <2>5, <3>4, <3>5, <3>6, TrackLost
    <3> QED
      BY <1>6, <3>3, <3>7 DEF OnTheWay
  <2> QED
    BY <2>9, <2>10
<1>11. OnTheWay(whole, size, got', offset')
  BY <1>2, <1>3, <1>9, <1>10 DEF OnTheWay
<1>12. Good(whole, page', got', offset', phase')
  BY <1>1, <1>2, <1>3, <1>11 DEF Good
<1> QED
  BY <1>1, <1>2, <1>12, ParseInvNext

LEMMA StoreKeeps ==
  ASSUME NodeInv, ParseInv, Store
  PROVE  ParseInv'
<1>1. PICK whole \in Seq(AField) : whole = Serialized(node)
  BY WrittenAsCounted
<1>2. /\ phase = "memory" /\ phase' = "stored" /\ node' = node /\ got' = got /\ offset' = offset
      /\ page' = [size |-> PageSize(node), fields |-> Placed(whole)]
  BY <1>1 DEF Store
<1>3. got = <<>> /\ offset = 0
  BY <1>2 DEF ParseInv
<1>4. PICK full \in Nat : full = FieldBytes(whole) /\ full = PageSize(node)
  BY <1>1, WrittenAsCounted, BytesInAre
<1>5. page' = [size |-> full, fields |-> Placed(whole)] /\ full \in 0..full
  BY <1>2, <1>4
<1>6. PageOf(whole, page')
  BY <1>4, <1>5 DEF PageOf
<1>7. Prefix(whole, 0) = <<>>
  BY DEF Prefix
<1>8. Tracked(whole, got', offset', 0)
  <2>1. 0 \in 0..Len(whole)
    OBVIOUS
  <2> QED
    BY <1>2, <1>3, <1>7, <2>1, OffsetsAre DEF Tracked
<1>9. OnTheWay(whole, page'.size, got', offset')
  <2>1. 0 \in 0..Len(whole)
    OBVIOUS
  <2> QED
    BY <1>8, <2>1 DEF OnTheWay
<1>10. Good(whole, page', got', offset', phase')
  BY <1>2, <1>6, <1>9 DEF Good
<1> QED
  BY <1>1, <1>2, <1>10, ParseInvNext

LEMMA CutKeeps ==
  ASSUME NodeInv, ParseInv, NEW n \in 0..(page.size - 1), CutShort(n)
  PROVE  ParseInv'
<1>1. /\ phase = "stored" /\ phase' = phase /\ node' = node /\ got' = got /\ offset' = offset
      /\ page' = [page EXCEPT !.size = n]
  BY DEF CutShort
<1>2. PICK whole \in Seq(AField) :
           /\ whole = Serialized(node)
           /\ page.size \in 0..FieldBytes(whole) /\ page.fields = Placed(whole)
           /\ PageOf(whole, page) /\ OnTheWay(whole, page.size, got, offset)
  BY <1>1, Reading
<1>3. PICK full \in Nat : full = FieldBytes(whole)
  BY BytesInAre
<1>4. PICK size \in 0..full : size = page.size
  BY <1>2, <1>3
<1>5. n \in Nat /\ n < size /\ n \in 0..full
  BY <1>4
<1>6. page = [size |-> size, fields |-> Placed(whole)]
  BY <1>2, <1>4 DEF PageOf
<1>7. page' = [size |-> n, fields |-> Placed(whole)]
  BY <1>1, <1>6
<1>8. PageOf(whole, page')
  BY <1>3, <1>5, <1>7 DEF PageOf
<1>9. page'.size = n
  BY <1>7
<1>10. Behind(whole, size, offset) => Behind(whole, n, offset)
  BY <1>3, <1>4, <1>5 DEF Behind
<1>11. OnTheWay(whole, n, got', offset')
  BY <1>1, <1>2, <1>4, <1>10 DEF OnTheWay
<1>12. Good(whole, page', got', offset', phase')
  BY <1>1, <1>8, <1>9, <1>11 DEF Good
<1> QED
  BY <1>1, <1>2, <1>12, ParseInvNext

\* The parser gives up only on a page that was cut.
LEMMA RefuseKeeps ==
  ASSUME NodeInv, ParseInv, EndsEarly \/ UnknownType \/ Trailing
  PROVE  ParseInv'
<1>1. /\ phase = "stored" /\ phase' = "refused"
      /\ node' = node /\ got' = got /\ offset' = offset /\ page' = page
  BY DEF EndsEarly, UnknownType, Trailing, Parsing, Refuse
<1>2. PICK whole \in Seq(AField) :
           /\ whole = Serialized(node)
           /\ page.size \in 0..FieldBytes(whole) /\ page.fields = Placed(whole)
           /\ PageOf(whole, page) /\ OnTheWay(whole, page.size, got, offset)
           /\ \A k : Tracked(whole, got, offset, k) => Fits(Wanted(got), whole, k)
  BY <1>1, Reading
<1>3. PICK full \in Nat : full = FieldBytes(whole)
  BY BytesInAre
<1>4. PICK size \in 0..full : size = page.size
  BY <1>2, <1>3
<1>5. ASSUME Behind(whole, size, offset) PROVE size < full
  BY <1>3, <1>5 DEF Behind
<1>6. ASSUME NEW k, Tracked(whole, got, offset, k) PROVE size < full
  <2>1. PICK w : w = Wanted(got)
    OBVIOUS
  <2>2. Fits(w, whole, k)
    BY <1>2, <1>6, <2>1
  <2>3. /\ Len(got) = k /\ k \in Nat /\ w # <<>> /\ Len(w) \in Nat
        /\ k # Len(w) => k + 1 \in 1..Len(whole)
        /\ k = Len(w) => k = Len(whole)
    BY <1>6, <2>2, TrackNext
  <2>4. offset = Offset(whole, k) /\ k \in 0..Len(whole) /\ offset \in Nat
    BY <1>6, OffsetsAre DEF Tracked
  <2>5. Offset(whole, Len(whole)) = full
    BY <1>3, OffsetsAre
  <2>6. CASE EndsEarly
    <3>1. k # Len(w) /\ offset >= size
      BY <1>4, <2>1, <2>3, <2>6 DEF EndsEarly, AtEnd
    <3>2. k < Len(whole) /\ Len(whole) \in 0..Len(whole)
      BY <2>3, <3>1
    <3>3. offset < full
      BY <2>4, <2>5, <3>2, OffsetsIncrease
    <3> QED
      BY <2>4, <3>1, <3>3
  <2>7. CASE UnknownType
    BY <2>1, <2>3, <2>7 DEF UnknownType
  <2>8. CASE Trailing
    <3>1. k = Len(w) /\ offset # size
      BY <1>4, <2>1, <2>3, <2>8 DEF Trailing, AtEnd
    <3>2. offset = full
      BY <2>3, <2>4, <2>5, <3>1
    <3> QED
      BY <3>1, <3>2
  <2> QED
    BY <2>6, <2>7, <2>8
<1>7. size < full
  BY <1>2, <1>4, <1>5, <1>6 DEF OnTheWay
<1>8. Good(whole, page', got', offset', phase')
  BY <1>1, <1>2, <1>3, <1>4, <1>7 DEF Good
<1> QED
  BY <1>1, <1>2, <1>8, ParseInvNext

\* It accepts only a page that it has read to its end, all of it.
LEMMA AcceptKeeps ==
  ASSUME NodeInv, ParseInv, Accept
  PROVE  ParseInv'
<1>1. /\ phase = "stored" /\ phase' = "parsed" /\ Len(got) = Len(Wanted(got))
      /\ node' = node /\ got' = got /\ offset' = offset /\ page' = page
      /\ offset = page.size
  BY DEF Accept, Parsing, Parsed, AtEnd
<1>2. PICK whole \in Seq(AField) :
           /\ whole = Serialized(node)
           /\ page.size \in 0..FieldBytes(whole) /\ page.fields = Placed(whole)
           /\ PageOf(whole, page) /\ OnTheWay(whole, page.size, got, offset)
           /\ \A k : Tracked(whole, got, offset, k) => Fits(Wanted(got), whole, k)
  BY <1>1, Reading
<1>3. PICK full \in Nat : full = FieldBytes(whole)
  BY BytesInAre
<1>4. PICK size \in 0..full : size = page.size
  BY <1>2, <1>3
<1>5. ~Behind(whole, size, offset)
  BY <1>1, <1>4 DEF Behind
<1>6. PICK k \in 0..Len(whole) : Tracked(whole, got, offset, k)
  BY <1>2, <1>4, <1>5 DEF OnTheWay
<1>7. Fits(Wanted(got), whole, k)
  BY <1>2, <1>6
<1>8. k = Len(whole)
  BY <1>1, <1>6, <1>7, TrackNext
<1>9. Tracked(whole, got, offset, Len(whole))
  BY <1>6, <1>8
<1>10. size = full
  BY <1>1, <1>3, <1>4, <1>9, OffsetsAre DEF Tracked
<1>11. Good(whole, page', got', offset', phase')
  BY <1>1, <1>2, <1>3, <1>4, <1>9, <1>10 DEF Good
<1> QED
  BY <1>1, <1>2, <1>11, ParseInvNext

LEMMA ParseInvKept ==
  ASSUME NodeInv, ParseInv, [Next]_vars
  PROVE  ParseInv'
<1>1. CASE EditLeaf
  <2>1. phase = "memory" /\ phase' = phase /\ got' = got /\ offset' = offset
    BY <1>1 DEF EditLeaf, Insert, Erase, UpdateValue, ApplyAll, LeafBecomes
  <2> QED
    BY <2>1 DEF ParseInv
<1>2. CASE Store
  BY <1>2, StoreKeeps
<1>3. CASE \E n \in 0..(page.size - 1) : CutShort(n)
  BY <1>3, CutKeeps
<1>4. CASE Read
  BY <1>4, ReadKeeps
<1>5. CASE EndsEarly \/ UnknownType \/ Trailing
  BY <1>5, RefuseKeeps
<1>6. CASE Accept
  BY <1>6, AcceptKeeps
<1>7. CASE Over \/ UNCHANGED vars
  BY <1>7 DEF Over, vars, ParseInv, Upto
<1> QED
  BY <1>1, <1>2, <1>3, <1>4, <1>5, <1>6, <1>7 DEF Next

LEMMA ParseInvStarts ==
  ASSUME Init
  PROVE  ParseInv
<1> QED
  BY DEF Init, ParseInv

\* What has been read is what was written, or the parser is behind the end of a
\* page that was cut: it never takes one field for another.
THEOREM ParserOnTrack == Spec => []PagesInv
<1>1. Init => PagesInv
  BY NodeInvStarts, ParseInvStarts DEF PagesInv
<1>2. PagesInv /\ [Next]_vars => PagesInv'
  BY NodeInvKept, ParseInvKept DEF PagesInv
<1> QED
  BY <1>1, <1>2, PTL DEF Spec

\* A page that was cut short is never parsed, wherever it was cut.
THEOREM CutAlwaysRefused == Spec => []CutRefused
<1>1. PagesInv => CutRefused
  BY DEF PagesInv, ParseInv, CutRefused
<1> QED
  BY <1>1, ParserOnTrack, PTL

-----------------------------------------------------------------------------
(* What the parser makes of the fields of a node *)

\* In u, of length n, the pieces of S are at their places.
Laid(u, n, S) ==
  /\ u \in Seq(AField) /\ n \in Nat /\ Len(u) = n
  /\ \A x \in S : x[2] \in Seq(AField) /\ Within(u, x[1], x[2])

LEMMA LaidFirst ==
  ASSUME NEW u \in Seq(AField), NEW n \in Nat, Len(u) = n
  PROVE  Laid(u, n, {<<0, u>>})
<1>1. ASSUME NEW x \in {<<0, u>>} PROVE x[2] \in Seq(AField) /\ Within(u, x[1], x[2])
  BY WithinSelf
<1> QED
  BY <1>1 DEF Laid

LEMMA LaidMore ==
  ASSUME NEW u, NEW n, NEW S, Laid(u, n, S),
         NEW t \in Seq(AField), NEW m \in Nat, Len(t) = m,
         NEW ut, ut = u \o t
  PROVE  Laid(ut, n + m, S \cup {<<n, t>>})
<1>1. u \in Seq(AField) /\ n \in Nat /\ Len(u) = n
  BY DEF Laid
<1>2. ut \in Seq(AField) /\ Len(ut) = n + m /\ Within(ut, n, t)
  BY <1>1, WithinBack
<1>3. ASSUME NEW x \in S PROVE x[2] \in Seq(AField) /\ Within(ut, x[1], x[2])
  <2>1. PICK p : p = x[1]
    OBVIOUS
  <2>2. PICK s : s = x[2]
    OBVIOUS
  <2>3. s \in Seq(AField) /\ Within(u, p, s)
    BY <2>1, <2>2 DEF Laid
  <2>4. Len(s) \in Nat
    BY <2>3
  <2>5. Within(ut, p, s)
    BY <1>1, <2>3, <2>4, WithinFront
  <2> QED
    BY <2>1, <2>2, <2>3, <2>5
<1>4. ASSUME NEW x \in {<<n, t>>} PROVE x[2] \in Seq(AField) /\ Within(ut, x[1], x[2])
  BY <1>2
<1> QED
  BY <1>1, <1>2, <1>3, <1>4 DEF Laid

\* All of whole has been read, and its piece s is behind the first p fields.
Lies(whole, w, S, p, s, r) ==
  Laid(whole, w, S) /\ <<p, s>> \in S /\ r = Prefix(whole, w)

\* What is read of a piece that has been laid.
LEMMA PieceRead ==
  ASSUME NEW whole, NEW w, NEW S, NEW p, NEW s, NEW r, Lies(whole, w, S, p, s, r)
  PROVE  /\ p \in Nat /\ p + Len(s) <= w /\ s \in Seq(AField)
         /\ \A i \in 1..Len(s) : r[p + i] = s[i].is
<1>1. whole \in Seq(AField) /\ w \in Nat /\ Len(whole) = w
      /\ s \in Seq(AField) /\ Within(whole, p, s) /\ r = Prefix(whole, w)
  BY DEF Laid, Lies
<1>2. p \in Nat /\ p + Len(s) <= w /\ \A i \in 1..Len(s) : whole[p + i] = s[i]
  BY <1>1 DEF Within
<1>3. w \in 0..Len(whole)
  BY <1>1
<1>4. \A i \in 1..w : r[i] = whole[i].is
  BY <1>1, <1>3, PrefixIs
<1>5. ASSUME NEW i \in 1..Len(s) PROVE r[p + i] = s[i].is
  <2>1. PICK l \in Nat : l = Len(s)
    BY <1>1
  <2>2. p + i \in 1..w
    BY <1>1, <1>2, <2>1
  <2> QED
    BY <1>2, <1>4, <2>2
<1> QED
  BY <1>1, <1>2, <1>5

LEMMA PartRead ==
  ASSUME NEW whole, NEW w, NEW S, NEW p, NEW s, NEW r, Lies(whole, w, S, p, s, r),
         NEW what, NEW vals, NEW size, Part(s, what, vals, size), NEW n \in Nat, n = Len(vals)
  PROVE  p \in Nat /\ p + n <= w /\ \A i \in 1..n : r[p + i] = vals[i]
<1>1. p \in Nat /\ p + Len(s) <= w /\ \A i \in 1..Len(s) : r[p + i] = s[i].is
  BY PieceRead
<1>2. Len(s) = n /\ \A i \in 1..n : s[i].is = vals[i]
  BY DEF Part
<1> QED
  BY <1>1, <1>2

LEMMA PieceOf ==
  ASSUME NEW r \in Seq(Anything), NEW p \in Nat, NEW m \in Nat, p + m <= Len(r),
         NEW V, NEW vals \in Seq(V), Len(vals) = m, \A i \in 1..m : r[p + i] = vals[i],
         NEW a, a = p + 1, NEW b, b = p + m
  PROVE  SubSeq(r, a, b) = vals
<1>1. PICK f : f = SubSeq(r, a, b)
  OBVIOUS
<1>2. f \in Seq(Anything) /\ Len(f) = m /\ \A i \in 1..m : f[i] = r[p + i]
  <2>1. PICK l \in Nat : l = Len(r)
    OBVIOUS
  <2>2. a \in 1..(l + 1) /\ b \in (a - 1)..l /\ b - a + 1 = m
    BY <2>1
  <2>3. /\ f \in Seq(Anything) /\ Len(f) = b - a + 1
        /\ \A i \in 1..(b - a + 1) : f[i] = r[a + i - 1]
    BY <1>1, <2>1, <2>2, SubSeqProperties
  <2>4. \A i \in 1..m : a + i - 1 = p + i
    OBVIOUS
  <2> QED
    BY <2>2, <2>3, <2>4
<1>3. f = [i \in 1..m |-> f[i]] /\ vals = [i \in 1..m |-> vals[i]]
  BY <1>2
<1>4. \A i \in 1..m : f[i] = vals[i]
  BY <1>2
<1>5. f = vals
  BY ONLY <1>3, <1>4
<1> QED
  BY <1>1, <1>5

LEMMA LeafReadBack ==
  ASSUME NEW x, NEW pairs, NEW next, IsLeaf(x, pairs, next)
  PROVE  ParsedNode(Prefix(Serialized(x), Len(Serialized(x)))) = x
<1>1. /\ x = Leaf(pairs, next) /\ x.kind = "leaf" /\ pairs \in Seq(Pairs) /\ next \in Links
  BY DEF IsLeaf, Leaf
<1>2. PICK n \in Nat : n = Len(pairs)
  BY <1>1
<1>3. PICK a, k, v, c : LeafParts(x, pairs, next, a, k, v, c)
  BY LeafWritten
<1>4. /\ Part(k, "key", KeysOf(pairs), Total(KeySizes(KeysOf(pairs))))
      /\ Part(v, "value", ValsOf(pairs), Total(ValueSizes(ValsOf(pairs))))
      /\ a = Start(x, n) /\ c = Chain(next)
  BY <1>2, <1>3 DEF LeafParts
<1>5. /\ Len(KeysOf(pairs)) = n /\ \A i \in 1..n : KeysOf(pairs)[i] = pairs[i].key
      /\ Len(ValsOf(pairs)) = n /\ \A i \in 1..n : ValsOf(pairs)[i] = pairs[i].val
  BY <1>1, <1>2, ColumnsOfPairs
<1>6. /\ a \in Seq(AField) /\ Len(a) = 2 /\ a[1].is = "leaf" /\ a[2].is = n
      /\ c \in Seq(AField) /\ Len(c) = 2 /\ c[1].is = next.count /\ c[2].is = next.id
  BY <1>1, <1>4, StartIs, ChainIs
<1>7. k \in Seq(AField) /\ Len(k) = n /\ v \in Seq(AField) /\ Len(v) = n
  BY <1>4, <1>5 DEF Part
<1>8. PICK u1 : u1 = a
  OBVIOUS
<1>9. PICK u2 : u2 = u1 \o k
  OBVIOUS
<1>10. PICK u3 : u3 = u2 \o v
  OBVIOUS
<1>11. PICK u4 : u4 = u3 \o c
  OBVIOUS
<1>12. Laid(u1, 2, {<<0, a>>})
  BY <1>6, <1>8, LaidFirst
<1>13. Laid(u2, 2 + n, {<<0, a>>} \cup {<<2, k>>})
  BY <1>7, <1>9, <1>12, LaidMore
<1>14. Laid(u3, 2 + n + n, {<<0, a>>} \cup {<<2, k>>} \cup {<<2 + n, v>>})
  BY <1>7, <1>10, <1>13, LaidMore
<1>15. PICK S : S = {<<0, a>>} \cup {<<2, k>>} \cup {<<2 + n, v>>} \cup {<<2 + n + n, c>>}
  OBVIOUS
<1>16. PICK w : w = 2 + n + n + 2
  OBVIOUS
<1>17. Laid(u4, w, S)
  BY <1>6, <1>11, <1>14, <1>15, <1>16, LaidMore
<1>18. Serialized(x) = u4
  BY <1>3, <1>8, <1>9, <1>10, <1>11 DEF LeafParts
<1>19. PICK r : r = Prefix(u4, w)
  OBVIOUS
<1>20. \A i \in 1..n : r[2 + i] = pairs[i].key
  <2>1. <<2, k>> \in S
    BY <1>15
  <2>2. \A i \in 1..n : r[2 + i] = KeysOf(pairs)[i]
    BY <1>4, <1>5, <1>17, <1>19, <2>1, PartRead DEF Lies
  <2> QED
    BY <1>5, <2>2
<1>21. \A i \in 1..n : r[2 + n + i] = pairs[i].val
  <2>1. PICK p : p = 2 + n
    OBVIOUS
  <2>2. <<p, v>> \in S
    BY <1>15, <2>1
  <2>3. \A i \in 1..n : r[p + i] = ValsOf(pairs)[i]
    BY <1>4, <1>5, <1>17, <1>19, <2>2, PartRead DEF Lies
  <2> QED
    BY <1>5, <2>1, <2>3
<1>22. r[1] = "leaf" /\ r[2] = n
  <2>1. PICK z : z = 0
    OBVIOUS
  <2>2. <<z, a>> \in S
    BY <1>15, <2>1
  <2>3. \A i \in 1..Len(a) : r[z + i] = a[i].is
    BY <1>17, <1>19, <2>2, PieceRead DEF Lies
  <2>4. r[z + 1] = a[1].is /\ r[z + 2] = a[2].is /\ z + 1 = 1 /\ z + 2 = 2
    BY <1>6, <2>1, <2>3
  <2> QED
    BY <1>6, <2>4
<1>23. [count |-> r[2 + 2 * n + 1], id |-> r[2 + 2 * n + 2]] = next
  <2>1. PICK p : p = 2 + 2 * n
    OBVIOUS
  <2>2. <<p, c>> \in S
    BY <1>15, <2>1
  <2>3. \A i \in 1..Len(c) : r[p + i] = c[i].is
    BY <1>17, <1>19, <2>2, PieceRead DEF Lies
  <2>4. r[p + 1] = next.count /\ r[p + 2] = next.id
    BY <1>6, <2>3
  <2> QED
    BY <1>1, <2>1, <2>4, LinksAre
<1>24. [i \in 1..n |-> [key |-> r[2 + i], val |-> r[2 + n + i]]] = pairs
  <2>1. \A i \in 1..n : pairs[i] \in Pairs
    BY <1>1, <1>2
  <2>2. ASSUME NEW i \in 1..n PROVE [key |-> r[2 + i], val |-> r[2 + n + i]] = pairs[i]
    <3>1. pairs[i] = [key |-> pairs[i].key, val |-> pairs[i].val]
      BY <2>1 DEF Pairs
    <3> QED
      BY <1>20, <1>21, <3>1
  <2>3. pairs = [i \in 1..n |-> pairs[i]]
    BY <1>1, <1>2
  <2> QED
    BY <2>2, <2>3
<1>25. ParsedNode(r) = Leaf([i \in 1..n |-> [key |-> r[2 + i], val |-> r[2 + n + i]]],
                            [count |-> r[2 + 2 * n + 1], id |-> r[2 + 2 * n + 2]])
  BY <1>22 DEF ParsedNode
<1>26. Len(u4) = w
  BY <1>17 DEF Laid
<1> QED
  BY <1>1, <1>18, <1>19, <1>23, <1>24, <1>25, <1>26

LEMMA OverflowReadBack ==
  ASSUME NEW x, NEW vals, NEW next, IsOverflow(x, vals, next)
  PROVE  ParsedNode(Prefix(Serialized(x), Len(Serialized(x)))) = x
<1>1. /\ x = [kind |-> "overflow", vals |-> vals, next |-> next] /\ x.kind = "overflow"
      /\ vals \in Seq(Values) /\ next \in Links
  BY DEF IsOverflow
<1>2. PICK n \in Nat : n = Len(vals)
  BY <1>1
<1>3. PICK a, v, c : OverflowParts(x, vals, next, a, v, c)
  BY OverflowWritten
<1>4. /\ Part(v, "value", vals, Total(ValueSizes(vals)))
      /\ a = Start(x, n) /\ c = Chain(next)
  BY <1>2, <1>3 DEF OverflowParts
<1>5. /\ a \in Seq(AField) /\ Len(a) = 2 /\ a[1].is = "overflow" /\ a[2].is = n
      /\ c \in Seq(AField) /\ Len(c) = 2 /\ c[1].is = next.count /\ c[2].is = next.id
  BY <1>1, <1>4, StartIs, ChainIs
<1>6. v \in Seq(AField) /\ Len(v) = n
  BY <1>2, <1>4 DEF Part
<1>7. PICK u1 : u1 = a
  OBVIOUS
<1>8. PICK u2 : u2 = u1 \o v
  OBVIOUS
<1>9. PICK u3 : u3 = u2 \o c
  OBVIOUS
<1>10. Laid(u1, 2, {<<0, a>>})
  BY <1>5, <1>7, LaidFirst
<1>11. Laid(u2, 2 + n, {<<0, a>>} \cup {<<2, v>>})
  BY <1>6, <1>8, <1>10, LaidMore
<1>12. PICK S : S = {<<0, a>>} \cup {<<2, v>>} \cup {<<2 + n, c>>}
  OBVIOUS
<1>13. PICK w : w = 2 + n + 2
  OBVIOUS
<1>14. Laid(u3, w, S)
  BY <1>5, <1>9, <1>11, <1>12, <1>13, LaidMore
<1>15. Serialized(x) = u3
  BY <1>3, <1>7, <1>8, <1>9 DEF OverflowParts
<1>16. PICK r : r = Prefix(u3, w)
  OBVIOUS
<1>17. u3 \in Seq(AField) /\ Len(u3) = w /\ w \in 0..Len(u3)
  BY <1>13, <1>14 DEF Laid
<1>18. r \in Seq(Anything) /\ Len(r) = w
  BY <1>16, <1>17, PrefixIs
<1>19. SubSeq(r, 3, 2 + n) = vals
  <2>1. <<2, v>> \in S
    BY <1>12
  <2>2. \A i \in 1..n : r[2 + i] = vals[i]
    BY <1>2, <1>4, <1>14, <1>16, <2>1, PartRead DEF Lies
  <2>3. 2 + n <= Len(r) /\ 3 = 2 + 1
    BY <1>13, <1>18
  <2> QED
    BY <1>1, <1>2, <1>18, <2>2, <2>3, PieceOf
<1>20. r[1] = "overflow" /\ r[2] = n
  <2>1. PICK z : z = 0
    OBVIOUS
  <2>2. <<z, a>> \in S
    BY <1>12, <2>1
  <2>3. \A i \in 1..Len(a) : r[z + i] = a[i].is
    BY <1>14, <1>16, <2>2, PieceRead DEF Lies
  <2>4. r[z + 1] = a[1].is /\ r[z + 2] = a[2].is /\ z + 1 = 1 /\ z + 2 = 2
    BY <1>5, <2>1, <2>3
  <2> QED
    BY <1>5, <2>4
<1>21. [count |-> r[2 + n + 1], id |-> r[2 + n + 2]] = next
  <2>1. PICK p : p = 2 + n
    OBVIOUS
  <2>2. <<p, c>> \in S
    BY <1>12, <2>1
  <2>3. \A i \in 1..Len(c) : r[p + i] = c[i].is
    BY <1>14, <1>16, <2>2, PieceRead DEF Lies
  <2>4. r[p + 1] = next.count /\ r[p + 2] = next.id
    BY <1>5, <2>3
  <2> QED
    BY <1>1, <2>1, <2>4, LinksAre
<1>22. ParsedNode(r) = [kind |-> "overflow", vals |-> SubSeq(r, 3, 2 + n),
                        next |-> [count |-> r[2 + n + 1], id |-> r[2 + n + 2]]]
  BY <1>20 DEF ParsedNode
<1> QED
  BY <1>1, <1>15, <1>16, <1>17, <1>19, <1>21, <1>22

\* The places of the parts of an internal node, and its length.
InternalLaid(all, w, n, m, d, S, h, k, l, c, t, q, v) ==
  /\ d = 3 * n + 2 /\ Laid(all, w, S)
  /\ S = {<<0, h>>, <<3, k>>, <<n + 2, l>>, <<n + 2 + n, c>>, <<d, t>>, <<d + m, q>>,
          <<d + m + m, v>>}

LEMMA InternalPlaces ==
  ASSUME NEW x, NEW keys, NEW n, NEW queue, IsInternal(x, keys, n, queue),
         NEW h, NEW k, NEW l, NEW c, NEW t, NEW q, NEW v,
         InternalParts(x, keys, n, queue, h, k, l, c, t, q, v),
         NEW m \in Nat, m = Len(queue)
  PROVE  \E w, d, S : InternalLaid(Serialized(x), w, n, m, d, S, h, k, l, c, t, q, v)
<1>1. /\ x.kind = "internal" /\ n \in Nat \ {0} /\ keys \in Seq(Keys) /\ Len(keys) = n - 1
      /\ queue \in Seq(Edits)
  BY DEF IsInternal
<1>2. x.kind = "internal" /\ h = HeadOf(x, n, m) /\ n \in Nat /\ m \in Nat
  BY <1>1 DEF InternalParts
<1>3. h \in Seq(AField) /\ Len(h) = 3
  BY ONLY <1>2, HeadIs
<1>4. Len(Identity(n)) = n
  BY <1>1 DEF Identity
<1>5. PICK j \in Nat : j = n - 1
  BY <1>1
<1>6. k \in Seq(AField) /\ Len(k) = j
  BY <1>1, <1>5 DEF InternalParts, Part
<1>7. l \in Seq(AField) /\ Len(l) = n /\ c \in Seq(AField) /\ Len(c) = n
  BY <1>4 DEF InternalParts, Part
<1>8. t \in Seq(AField) /\ Len(t) = m
  <2>1. Len(OpsOf(queue)) = m
    BY <1>1, TypesAre
  <2> QED
    BY <2>1 DEF InternalParts, Part
<1>9. q \in Seq(AField) /\ Len(q) = m
  <2>1. Len(KeysOf(queue)) = m
    BY <1>1, ColumnOfEdits
  <2> QED
    BY <2>1 DEF InternalParts, Part
<1>10. PICK p \in Nat : p = Len(v)
  BY DEF InternalParts, Part
<1>11. v \in Seq(AField)
  BY DEF InternalParts, Part
<1>12. PICK u1 : u1 = h \o k
  OBVIOUS
<1>13. PICK u2 : u2 = u1 \o l
  OBVIOUS
<1>14. PICK u3 : u3 = u2 \o c
  OBVIOUS
<1>15. PICK u4 : u4 = u3 \o t
  OBVIOUS
<1>16. PICK u5 : u5 = u4 \o q
  OBVIOUS
<1>17. PICK u6 : u6 = u5 \o v
  OBVIOUS
<1>18. Serialized(x) = u6
  BY <1>12, <1>13, <1>14, <1>15, <1>16, <1>17 DEF InternalParts
<1>19. PICK d : d = 3 * n + 2
  OBVIOUS
<1>20. PICK S1 : S1 = {<<0, h>>} \cup {<<3, k>>}
  OBVIOUS
<1>21. PICK S2 : S2 = S1 \cup {<<n + 2, l>>}
  OBVIOUS
<1>22. PICK S3 : S3 = S2 \cup {<<n + 2 + n, c>>}
  OBVIOUS
<1>23. PICK S4 : S4 = S3 \cup {<<d, t>>}
  OBVIOUS
<1>24. PICK S5 : S5 = S4 \cup {<<d + m, q>>}
  OBVIOUS
<1>25. PICK S6 : S6 = S5 \cup {<<d + m + m, v>>}
  OBVIOUS
<1>26. Laid(u1, n + 2, S1)
  <2>1. Laid(u1, 3 + j, S1)
    BY <1>3, <1>6, <1>12, <1>20, LaidFirst, LaidMore
  <2>2. 3 + j = n + 2
    BY <1>1, <1>5
  <2> QED
    BY <2>1, <2>2
<1>27. Laid(u2, n + 2 + n, S2)
  BY <1>2, <1>7, <1>13, <1>21, <1>26, LaidMore
<1>28. Laid(u3, d, S3)
  <2>1. Laid(u3, n + 2 + n + n, S3)
    BY <1>2, <1>7, <1>14, <1>22, <1>27, LaidMore
  <2>2. n + 2 + n + n = d
    BY <1>1, <1>19
  <2> QED
    BY <2>1, <2>2
<1>29. Laid(u4, d + m, S4)
  BY <1>8, <1>15, <1>23, <1>28, LaidMore
<1>30. Laid(u5, d + m + m, S5)
  BY <1>9, <1>16, <1>24, <1>29, LaidMore
<1>31. Laid(u6, d + m + m + p, S6)
  BY <1>10, <1>11, <1>17, <1>25, <1>30, LaidMore
<1>32. S6 = {<<0, h>>, <<3, k>>, <<n + 2, l>>, <<n + 2 + n, c>>, <<d, t>>, <<d + m, q>>,
             <<d + m + m, v>>}
  BY <1>20, <1>21, <1>22, <1>23, <1>24, <1>25
<1> QED
  BY <1>18, <1>19, <1>31, <1>32 DEF InternalLaid

\* What is read of the parts of an internal node.
InternalRead(r, keys, n, queue, m, ops, vals, d) ==
  /\ r \in Seq(Anything) /\ d = 3 * n + 2 /\ d + m + m <= Len(r)
  /\ r[1] = "internal" /\ r[2] = n /\ r[3] = m
  /\ \A i \in 1..(n - 1) : r[3 + i] = keys[i]
  /\ \A i \in 1..n : r[2 + n + i] = i /\ r[2 + n + n + i] = i
  /\ \A i \in 1..m : r[d + i] = ops[i] /\ r[d + m + i] = queue[i].key
  /\ \A i \in 1..Len(vals) : r[d + m + m + i] = vals[i]

LEMMA InternalIsRead ==
  ASSUME NEW x, NEW keys, NEW n, NEW queue, IsInternal(x, keys, n, queue),
         NEW h, NEW k, NEW l, NEW c, NEW t, NEW q, NEW v,
         InternalParts(x, keys, n, queue, h, k, l, c, t, q, v),
         NEW m \in Nat, m = Len(queue),
         NEW all, NEW w, NEW d, NEW S, InternalLaid(all, w, n, m, d, S, h, k, l, c, t, q, v),
         NEW r, r = Prefix(all, w)
  PROVE  InternalRead(r, keys, n, queue, m, OpsOf(queue), QueueValues(queue), d)
<1>1. /\ x.kind = "internal" /\ n \in Nat \ {0} /\ keys \in Seq(Keys) /\ Len(keys) = n - 1
      /\ queue \in Seq(Edits)
  BY DEF IsInternal
<1>2. x.kind = "internal" /\ h = HeadOf(x, n, m) /\ n \in Nat /\ m \in Nat
  BY <1>1 DEF InternalParts
<1>3. Len(h) = 3 /\ h[1].is = "internal" /\ h[2].is = n /\ h[3].is = m
  BY ONLY <1>2, HeadIs
<1>4. /\ d = 3 * n + 2 /\ Laid(all, w, S)
      /\ S = {<<0, h>>, <<3, k>>, <<n + 2, l>>, <<n + 2 + n, c>>, <<d, t>>, <<d + m, q>>,
              <<d + m + m, v>>}
  BY DEF InternalLaid
<1>5. /\ Part(k, "key", keys, Total(KeySizes(keys)))
      /\ Part(l, "id", Identity(n), n * 20) /\ Part(c, "items", Identity(n), n * 4)
      /\ Part(t, "type", OpsOf(queue), Len(queue))
      /\ Part(q, "key", KeysOf(queue), Total(KeySizes(KeysOf(queue))))
      /\ Part(v, "value", QueueValues(queue), Total(ValueSizes(QueueValues(queue))))
  BY DEF InternalParts
<1>6. r[1] = "internal" /\ r[2] = n /\ r[3] = m
  <2>1. PICK z : z = 0
    OBVIOUS
  <2>2. Lies(all, w, S, z, h, r)
    BY <1>4, <2>1 DEF Lies
  <2>3. \A i \in 1..Len(h) : r[z + i] = h[i].is
    BY <1>4, <2>2, PieceRead
  <2>4. 1 \in 1..Len(h) /\ 2 \in 1..Len(h) /\ 3 \in 1..Len(h)
        /\ z + 1 = 1 /\ z + 2 = 2 /\ z + 3 = 3
    BY <1>3, <2>1
  <2> QED
    BY <1>3, <2>3, <2>4
<1>7. \A i \in 1..(n - 1) : r[3 + i] = keys[i]
  <2>1. PICK j \in Nat : j = n - 1
    BY <1>1
  <2>2. Lies(all, w, S, 3, k, r)
    BY <1>4 DEF Lies
  <2>3. \A i \in 1..j : r[3 + i] = keys[i]
    BY <1>1, <1>4, <1>5, <2>1, <2>2, PartRead
  <2> QED
    BY <2>1, <2>3
<1>8. Len(Identity(n)) = n /\ \A i \in 1..n : Identity(n)[i] = i
  BY <1>1 DEF Identity
<1>9. \A i \in 1..n : r[2 + n + i] = i
  <2>1. PICK p : p = n + 2
    OBVIOUS
  <2>2. Lies(all, w, S, p, l, r)
    BY <1>4, <2>1 DEF Lies
  <2>3. \A i \in 1..n : r[p + i] = Identity(n)[i]
    BY <1>2, <1>4, <1>5, <1>8, <2>2, PartRead
  <2>4. p = 2 + n
    BY <1>2, <2>1
  <2> QED
    BY <1>8, <2>3, <2>4
<1>10. \A i \in 1..n : r[2 + n + n + i] = i
  <2>1. PICK p : p = n + 2 + n
    OBVIOUS
  <2>2. Lies(all, w, S, p, c, r)
    BY <1>4, <2>1 DEF Lies
  <2>3. \A i \in 1..n : r[p + i] = Identity(n)[i]
    BY <1>2, <1>4, <1>5, <1>8, <2>2, PartRead
  <2>4. p = 2 + n + n
    BY <1>2, <2>1
  <2> QED
    BY <1>8, <2>3, <2>4
<1>11. \A i \in 1..m : r[d + i] = OpsOf(queue)[i]
  <2>1. Lies(all, w, S, d, t, r)
    BY <1>4 DEF Lies
  <2>2. Len(OpsOf(queue)) = m
    BY <1>1, TypesAre
  <2> QED
    BY <1>4, <1>5, <2>1, <2>2, PartRead
<1>12. d + m + m <= w /\ \A i \in 1..m : r[d + m + i] = queue[i].key
  <2>1. PICK p : p = d + m
    OBVIOUS
  <2>2. Lies(all, w, S, p, q, r)
    BY <1>4, <2>1 DEF Lies
  <2>3. Len(KeysOf(queue)) = m /\ \A i \in 1..m : KeysOf(queue)[i] = queue[i].key
    BY <1>1, ColumnOfEdits
  <2>4. p + m <= w /\ \A i \in 1..m : r[p + i] = KeysOf(queue)[i]
    BY <1>4, <1>5, <2>2, <2>3, PartRead
  <2> QED
    BY <2>1, <2>3, <2>4
<1>13. \A i \in 1..Len(QueueValues(queue)) : r[d + m + m + i] = QueueValues(queue)[i]
  <2>1. PICK p : p = d + m + m
    OBVIOUS
  <2>2. Lies(all, w, S, p, v, r)
    BY <1>4, <2>1 DEF Lies
  <2>3. PICK j \in Nat : j = Len(QueueValues(queue))
    BY <1>5 DEF Part
  <2>4. \A i \in 1..j : r[p + i] = QueueValues(queue)[i]
    BY <1>4, <1>5, <2>2, <2>3, PartRead
  <2> QED
    BY <2>1, <2>3, <2>4
<1>14. r \in Seq(Anything) /\ Len(r) = w
  <2>1. all \in Seq(AField) /\ w \in Nat /\ Len(all) = w
    BY <1>4 DEF Laid
  <2>2. w \in 0..Len(all)
    BY <2>1
  <2> QED
    BY <2>1, <2>2, PrefixIs
<1> QED
  BY <1>4, <1>6, <1>7, <1>9, <1>10, <1>11, <1>12, <1>13, <1>14 DEF InternalRead

\* The parser finds the value of an edit by counting the edits before it that have one.
LEMMA InternalReadBack ==
  ASSUME NEW x, NEW keys, NEW n, NEW queue, IsInternal(x, keys, n, queue)
  PROVE  ParsedNode(Prefix(Serialized(x), Len(Serialized(x)))) = x
<1>1. /\ x = [kind |-> "internal", keys |-> keys, links |-> LinksOf(n), queue |-> queue]
      /\ x.kind = "internal" /\ n \in Nat \ {0} /\ n \in Nat
      /\ keys \in Seq(Keys) /\ Len(keys) = n - 1 /\ queue \in Seq(Edits)
  BY DEF IsInternal
<1>2. PICK m \in Nat : m = Len(queue)
  BY <1>1
<1>3. PICK h, k, l, c, t, q, v : InternalParts(x, keys, n, queue, h, k, l, c, t, q, v)
  BY InternalWritten
<1>4. PICK all : all = Serialized(x)
  OBVIOUS
<1>5. PICK w, d, S : InternalLaid(all, w, n, m, d, S, h, k, l, c, t, q, v)
  BY <1>2, <1>3, <1>4, InternalPlaces
<1>6. PICK r : r = Prefix(all, w)
  OBVIOUS
<1>7. Len(all) = w
  BY <1>5 DEF InternalLaid, Laid
<1>8. PICK ops : ops = OpsOf(queue)
  OBVIOUS
<1>9. PICK vals : vals = QueueValues(queue)
  OBVIOUS
<1>10. InternalRead(r, keys, n, queue, m, ops, vals, d)
  BY <1>2, <1>3, <1>5, <1>6, <1>8, <1>9, InternalIsRead
<1>11. /\ r \in Seq(Anything) /\ d = 3 * n + 2 /\ d + m + m <= Len(r) /\ d \in Nat
       /\ r[1] = "internal" /\ r[2] = n /\ r[3] = m
       /\ \A i \in 1..(n - 1) : r[3 + i] = keys[i]
       /\ \A i \in 1..n : r[2 + n + i] = i /\ r[2 + n + n + i] = i
       /\ \A i \in 1..m : r[d + i] = ops[i] /\ r[d + m + i] = queue[i].key
       /\ \A i \in 1..Len(vals) : r[d + m + m + i] = vals[i]
  <2>1. d = 3 * n + 2
    BY <1>10 DEF InternalRead
  <2>2. d \in Nat
    BY ONLY <1>1, <2>1
  <2> QED
    BY <1>10, <2>2 DEF InternalRead
<1>12. ops \in Seq(Ops) /\ Len(ops) = m /\ \A i \in 1..m : ops[i] = queue[i].op
  BY <1>1, <1>2, <1>8, TypesAre
<1>13. /\ Len(vals) = Valued(ops) /\ Valued(ops) \in Nat
       /\ ValuePlaced(vals, queue, ops, m)
  BY <1>1, <1>2, <1>8, <1>9, CountOfValues
<1>14. SubSeq(r, 4, 2 + n) = keys
  <2>1. PICK j \in Nat : j = n - 1
    BY <1>1
  <2>2. PICK len \in Nat : len = Len(r)
    BY <1>11
  <2>3. 3 + j <= len
    BY <1>1, <1>11, <2>1, <2>2
  <2>4. 4 = 3 + 1 /\ 2 + n = 3 + j
    BY <1>1, <2>1
  <2>5. Len(keys) = j /\ \A i \in 1..j : r[3 + i] = keys[i]
    BY <1>1, <1>11, <2>1
  <2> QED
    BY <1>1, <1>11, <2>2, <2>3, <2>4, <2>5, PieceOf
<1>15. PICK types : types = SubSeq(r, 3 * n + 3, 3 * n + 2 + m)
  OBVIOUS
<1>16. types = ops
  <2>1. PICK len \in Nat : len = Len(r)
    BY <1>11
  <2>2. d + m <= len
    BY <1>11, <2>1
  <2>3. 3 * n + 3 = d + 1 /\ 3 * n + 2 + m = d + m
    BY <1>1, <1>11
  <2>4. /\ r \in Seq(Anything) /\ d \in Nat /\ m \in Nat /\ d + m <= Len(r)
        /\ ops \in Seq(Ops) /\ Len(ops) = m /\ \A i \in 1..m : r[d + i] = ops[i]
    BY <1>11, <1>12, <2>1, <2>2
  <2>5. PICK a : a = 3 * n + 3
    OBVIOUS
  <2>6. PICK b : b = 3 * n + 2 + m
    OBVIOUS
  <2>7. a = d + 1 /\ b = d + m
    BY <2>3, <2>5, <2>6
  <2>8. SubSeq(r, a, b) = ops
    BY ONLY <2>4, <2>7, PieceOf
  <2> QED
    BY <1>15, <2>5, <2>6, <2>8
<1>17. [i \in 1..n |-> [id |-> r[2 + n + i], count |-> r[2 + n + n + i]]] = LinksOf(n)
  <2>1. ASSUME NEW i \in 1..n
        PROVE  [id |-> r[2 + n + i], count |-> r[2 + n + n + i]] = Link(i)
    <3>1. r[2 + n + i] = i /\ r[2 + n + n + i] = i
      BY <1>11
    <3>2. [id |-> i, count |-> i] = [count |-> i, id |-> i]
      OBVIOUS
    <3> QED
      BY <3>1, <3>2 DEF Link
  <2> QED
    BY <2>1 DEF LinksOf
<1> DEFINE EditRead(i) ==
      [op  |-> types[i],
       key |-> r[2 + 3 * n + m + i],
       val |-> IF types[i] = "removeKey" THEN NoValue
               ELSE r[2 + 3 * n + m + m + Valued(SubSeq(types, 1, i))]]
<1>18. ASSUME NEW i \in 1..m PROVE EditRead(i) = queue[i]
  <2>1. PICK e \in Edits : e = queue[i]
    BY <1>1, <1>2
  <2>2. e = [op |-> e.op, key |-> e.key, val |-> e.val]
    BY DEF Edits
  <2>3. types[i] = e.op
    BY <1>12, <1>16, <2>1
  <2>4. r[2 + 3 * n + m + i] = e.key
    <3>1. 2 + 3 * n + m + i = d + m + i
      BY <1>1, <1>11
    <3> QED
      BY <1>11, <2>1, <3>1
  <2>5. CASE e.op = "removeKey"
    <3>1. e.val = NoValue
      BY <2>5 DEF Edits
    <3> QED
      BY <2>1, <2>2, <2>3, <2>4, <2>5, <3>1
  <2>6. CASE e.op # "removeKey"
    <3>1. PICK j : j = ValuedUpto(ops, i)
      OBVIOUS
    <3>2. j \in 1..ValuedUpto(ops, m) /\ vals[j] = e.val
      BY <1>13, <2>1, <2>6, <3>1 DEF ValuePlaced
    <3>3. ValuedUpto(ops, m) = Len(vals)
      BY <1>12, <1>13, ValuedStep
    <3>4. r[d + m + m + j] = e.val
      BY <1>11, <3>2, <3>3
    <3>5. Valued(SubSeq(types, 1, i)) = j
      BY <1>16, <3>1 DEF ValuedUpto
    <3>6. 2 + 3 * n + m + m + j = d + m + m + j
      <4>1. j \in Nat
        BY <1>13, <3>2, <3>3
      <4> QED
        BY <1>1, <1>11, <4>1
    <3>7. r[2 + 3 * n + m + m + Valued(SubSeq(types, 1, i))] = e.val
      BY <3>4, <3>5, <3>6
    <3> QED
      BY <2>1, <2>2, <2>3, <2>4, <2>6, <3>7
  <2> QED
    BY <2>5, <2>6
<1>19. [i \in 1..m |-> EditRead(i)] = queue
  <2>1. queue = [i \in 1..m |-> queue[i]]
    BY <1>1, <1>2
  <2> QED
    BY <1>18, <2>1
<1>20. ParsedNode(r) =
         [kind |-> "internal", keys |-> SubSeq(r, 4, 2 + n),
          links |-> [i \in 1..n |-> [id |-> r[2 + n + i], count |-> r[2 + n + n + i]]],
          queue |-> [i \in 1..m |-> EditRead(i)]]
  BY <1>11, <1>15 DEF ParsedNode
<1> QED
  BY <1>1, <1>4, <1>6, <1>7, <1>14, <1>17, <1>19, <1>20

\* All that was written makes the node it was written for.
LEMMA ReadBack ==
  ASSUME NodeInv
  PROVE  ParsedNode(Prefix(Serialized(node), Len(Serialized(node)))) = node
<1> QED
  BY NodeKinds, LeafReadBack, OverflowReadBack, InternalReadBack

\* A page that was stored in full is never refused, and what is parsed is the node
\* that was stored.
THEOREM AlwaysReadsBack == Spec => []ReadsBack
<1>1. ASSUME PagesInv, phase = "parsed" PROVE ParsedNode(got) = node
  <2>1. got = Prefix(Serialized(node), Len(Serialized(node)))
    BY <1>1 DEF PagesInv, ParseInv, Upto, Prefix
  <2> QED
    BY <1>1, <2>1, ReadBack DEF PagesInv
<1>2. PagesInv /\ phase = "refused" => page.size < FieldBytes(Serialized(node))
  BY DEF PagesInv, ParseInv
<1>3. PagesInv => ReadsBack
  BY <1>1, <1>2 DEF ReadsBack
<1> QED
  BY <1>3, ParserOnTrack, PTL
=============================================================================
