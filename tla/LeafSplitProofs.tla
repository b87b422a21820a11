-------------------------- MODULE LeafSplitProofs --------------------------
(***************************************************************************)
(* How a leaf is divided, for leaves of any length, keys and values of any *)
(* size and blocks of any size: no pair is lost, no key is in two leaves,  *)
(* and pushing down ends unless some value fits into no block at all.  If  *)
(* no pair of the leaf is larger than half a block, and each fits behind   *)
(* the header, every piece fits into a block and a chain finds its leaf.   *)
(***************************************************************************)
EXTENDS LeafSplit, ListsProofs

-----------------------------------------------------------------------------
(* Sizes *)

LEMMA PairsAre ==
  ASSUME NEW p \in Pairs
  PROVE  SizeOf(p) \in Nat /\ p.val \in Nat /\ p.val <= SizeOf(p) /\ p.key \in Nat
<1>1. /\ p \in [key : DOMAIN KeySizeOf, val : ValueSizes]
      /\ KeySizeOf \in [DOMAIN KeySizeOf -> Nat] /\ DOMAIN KeySizeOf \subseteq Nat
      /\ ValueSizes \subseteq Nat
  BY LeafSplitAssumption DEF Pairs
<1>2. p.key \in DOMAIN KeySizeOf /\ KeySizeOf[p.key] \in Nat /\ p.val \in Nat
  BY <1>1
<1> QED
  BY <1>1, <1>2 DEF SizeOf

\* f[i] is the size of a page with the first i sizes, up to n.
Sizing(f, sizes, n) ==
  f = [i \in 0..n |-> IF i = 0 THEN Header ELSE f[i - 1] + sizes[i]]

LEMMA SizingAt ==
  ASSUME NEW f, NEW sizes, NEW n \in Nat, Sizing(f, sizes, n)
  PROVE  /\ DOMAIN f = 0..n
         /\ f[0] = Header
         /\ \A i \in 1..n : f[i] = f[i - 1] + sizes[i]
<1> DEFINE step(j) == IF j = 0 THEN Header ELSE f[j - 1] + sizes[j]
<1>1. f = [j \in 0..n |-> step(j)]
  BY Zenon DEF Sizing
<1> HIDE DEF step
<1>2. DOMAIN f = 0..n /\ \A i \in 0..n : f[i] = step(i)
  BY <1>1
<1>3. \A i \in 1..n : i \in 0..n /\ i # 0
  OBVIOUS
<1>4. 0 \in 0..n
  OBVIOUS
<1>5. f[0] = Header
  BY <1>2, <1>4, Zenon DEF step
<1> QED
  BY <1>2, <1>3, <1>5, Zenon DEF step

\* What UpTo returns, for sizes of any number.
LEMMA UpToIs ==
  ASSUME NEW sizes \in Seq(Nat), NEW N \in Nat, N = Len(sizes)
  PROVE  /\ DOMAIN UpTo(sizes) = 0..N
         /\ UpTo(sizes)[0] = Header
         /\ \A i \in 1..N : UpTo(sizes)[i] = UpTo(sizes)[i - 1] + sizes[i]
         /\ \A i \in 0..N : UpTo(sizes)[i] \in Nat
<1>1. PICK p : PartialSums(p, sizes)
  BY PartialSumsExist
<1>2. /\ \A i \in 0..N : p[i] \in Nat
      /\ p[0] = 0
      /\ \A i \in 1..N : p[i] = p[i - 1] + sizes[i] /\ sizes[i] \in Nat
  <2>1. p \in [0..N -> Nat]
    BY <1>1 DEF PartialSums
  <2>2. p[0] = 0 /\ \A i \in 1..N : p[i] = p[i - 1] + sizes[i]
    BY <1>1 DEF PartialSums
  <2>3. \A i \in 1..N : sizes[i] \in Nat
    OBVIOUS
  <2> QED
    BY <2>1, <2>2, <2>3
<1> DEFINE g == [i \in 0..N |-> Header + p[i]]
<1>h. Header \in Nat
  BY DEF Header
<1>3. Sizing(g, sizes, N)
  <2>1. ASSUME NEW i \in 0..N
        PROVE  g[i] = IF i = 0 THEN Header ELSE g[i - 1] + sizes[i]
    <3>1. CASE i = 0
      BY <1>2, <1>h, <3>1
    <3>2. CASE i # 0
      <4>1. i \in 1..N /\ i - 1 \in 0..N
        BY <3>2
      <4>2. g[i] = Header + p[i] /\ g[i - 1] = Header + p[i - 1]
        BY <4>1
      <4>3. p[i] = p[i - 1] + sizes[i] /\ p[i - 1] \in Nat /\ sizes[i] \in Nat
        BY <1>2, <4>1
      <4> HIDE DEF g
      <4> QED
        BY <1>h, <3>2, <4>2, <4>3
    <3> QED
      BY <3>1, <3>2
  <2> QED
    BY <2>1 DEF Sizing
<1>4. Sizing(UpTo(sizes), sizes, N)
  <2>1. \E f : Sizing(f, sizes, N)
    BY <1>3
  <2> QED
    BY <2>1 DEF UpTo, Sizing
<1> DEFINE u == UpTo(sizes)
<1> HIDE DEF g, u
<1>5. /\ DOMAIN u = 0..N
      /\ u[0] = Header
      /\ \A i \in 1..N : u[i] = u[i - 1] + sizes[i]
  BY <1>4, SizingAt DEF u
<1>6. \A i \in 0..N : u[i] \in Nat
  <2> DEFINE Good == {i \in 0..N : u[i] \in Nat}
  <2>1. 0 \in Good
    BY <1>5, <1>h
  <2>2. ASSUME NEW i \in 1..N, i - 1 \in Good PROVE i \in Good
    BY <1>2, <1>5, <2>2
  <2> HIDE DEF Good
  <2>3. 0..N \subseteq Good
    BY <2>1, <2>2, UpToInduction
  <2> QED
    BY <2>3 DEF Good
<1> QED
  BY <1>5, <1>6 DEF u

\* Only the sizes before it decide where a page has got to.
LEMMA UpToAgree ==
  ASSUME NEW s \in Seq(Nat), NEW t \in Seq(Nat),
         NEW n \in Nat, n <= Len(s), n <= Len(t), \A i \in 1..n : s[i] = t[i]
  PROVE  UpTo(s)[n] = UpTo(t)[n]
<1>a. Len(s) \in Nat /\ Len(t) \in Nat
  OBVIOUS
<1> DEFINE u == UpTo(s)
           v == UpTo(t)
           Good == {i \in 0..n : u[i] = v[i]}
<1>1. /\ u[0] = Header
      /\ \A i \in 1..Len(s) : u[i] = u[i - 1] + s[i]
  BY <1>a, UpToIs
<1>2. /\ v[0] = Header
      /\ \A i \in 1..Len(t) : v[i] = v[i - 1] + t[i]
  BY <1>a, UpToIs
<1> HIDE DEF u, v
<1>3. 0 \in Good
  BY <1>1, <1>2
<1>4. ASSUME NEW i \in 1..n, i - 1 \in Good PROVE i \in Good
  <2>1. u[i] = u[i - 1] + s[i] /\ v[i] = v[i - 1] + t[i] /\ s[i] = t[i]
    BY <1>a, <1>1, <1>2
  <2> QED
    BY <1>4, <2>1
<1> HIDE DEF Good
<1>5. 0..n \subseteq Good
  BY <1>3, <1>4, UpToInduction
<1> QED
  BY <1>5 DEF Good, u, v

LEMMA LeafSizesAre ==
  ASSUME NEW pairs \in Seq(Pairs)
  PROVE  /\ DOMAIN LeafSizes(pairs) = 0..Len(pairs)
         /\ LeafSizes(pairs)[0] = Header
         /\ \A i \in 1..Len(pairs) :
              LeafSizes(pairs)[i] = LeafSizes(pairs)[i - 1] + SizeOf(pairs[i])
         /\ \A i \in 0..Len(pairs) : LeafSizes(pairs)[i] \in Nat
<1> DEFINE sizes == [i \in DOMAIN pairs |-> SizeOf(pairs[i])]
<1>1. /\ sizes \in Seq(Nat) /\ Len(sizes) = Len(pairs) /\ Len(pairs) \in Nat
      /\ \A i \in 1..Len(pairs) : sizes[i] = SizeOf(pairs[i])
  BY PairsAre
<1>2. LeafSizes(pairs) = UpTo(sizes)
  BY DEF LeafSizes
<1> HIDE DEF sizes
<1> QED
  BY <1>1, <1>2, UpToIs

LEMMA BlockSizesAre ==
  ASSUME NEW block \in Seq(Pairs)
  PROVE  /\ DOMAIN BlockSizes(block) = 0..Len(block)
         /\ BlockSizes(block)[0] = Header
         /\ \A i \in 1..Len(block) :
              BlockSizes(block)[i] = BlockSizes(block)[i - 1] + block[i].val
         /\ \A i \in 0..Len(block) : BlockSizes(block)[i] \in Nat
<1> DEFINE sizes == [i \in DOMAIN block |-> block[i].val]
<1>1. /\ sizes \in Seq(Nat) /\ Len(sizes) = Len(block) /\ Len(block) \in Nat
      /\ \A i \in 1..Len(block) : sizes[i] = block[i].val
  BY PairsAre
<1>2. BlockSizes(block) = UpTo(sizes)
  BY DEF BlockSizes
<1> HIDE DEF sizes
<1> QED
  BY <1>1, <1>2, UpToIs

\* The size of a piece that is cut off is where the whole had got to.
LEMMA FrontSizes ==
  ASSUME NEW pairs \in Seq(Pairs), NEW n \in 0..Len(pairs)
  PROVE  /\ LeafSize(SubSeq(pairs, 1, n)) = LeafSizes(pairs)[n]
         /\ BlockBytes(SubSeq(pairs, 1, n)) = BlockSizes(pairs)[n]
<1> DEFINE front == SubSeq(pairs, 1, n)
<1>1. /\ front \in Seq(Pairs) /\ Len(front) = n /\ n \in Nat /\ n <= Len(pairs)
      /\ DOMAIN front = 1..n
      /\ \A i \in 1..n : front[i] = pairs[i]
  OBVIOUS
<1> HIDE DEF front
<1>2. LeafSizes(front)[n] = LeafSizes(pairs)[n]
  <2> DEFINE s == [i \in DOMAIN front |-> SizeOf(front[i])]
             t == [i \in DOMAIN pairs |-> SizeOf(pairs[i])]
  <2>1. /\ s \in Seq(Nat) /\ Len(s) = n /\ t \in Seq(Nat) /\ Len(t) = Len(pairs)
        /\ \A i \in 1..n : s[i] = t[i]
    BY <1>1, PairsAre
  <2>2. LeafSizes(front) = UpTo(s) /\ LeafSizes(pairs) = UpTo(t)
    BY DEF LeafSizes
  <2> HIDE DEF s, t
  <2>3. n <= Len(s) /\ n <= Len(t)
    BY <1>1, <2>1
  <2> QED
    BY <1>1, <2>1, <2>2, <2>3, UpToAgree
<1>3. BlockSizes(front)[n] = BlockSizes(pairs)[n]
  <2> DEFINE s == [i \in DOMAIN front |-> front[i].val]
             t == [i \in DOMAIN pairs |-> pairs[i].val]
  <2>1. /\ s \in Seq(Nat) /\ Len(s) = n /\ t \in Seq(Nat) /\ Len(t) = Len(pairs)
        /\ \A i \in 1..n : s[i] = t[i]
    <3>1. s \in Seq(Nat) /\ Len(s) = n
      BY <1>1, PairsAre
    <3>2. t \in Seq(Nat) /\ Len(t) = Len(pairs)
      BY PairsAre
    <3>3. \A i \in 1..n : s[i] = t[i]
      BY <1>1
    <3> QED
      BY <3>1, <3>2, <3>3
  <2>2. BlockSizes(front) = UpTo(s) /\ BlockSizes(pairs) = UpTo(t)
    BY DEF BlockSizes
  <2> HIDE DEF s, t
  <2>3. n <= Len(s) /\ n <= Len(t)
    BY <1>1, <2>1
  <2> QED
    BY <1>1, <2>1, <2>2, <2>3, UpToAgree
<1> QED
  BY <1>1, <1>2, <1>3 DEF LeafSize, BlockBytes, front

-----------------------------------------------------------------------------
(* Where a leaf is cut *)

\* If the page gets too large at all, there is a first place where it does.
LEMMA FirstOverIs ==
  ASSUME NEW u, NEW N \in Nat \ {0}, DOMAIN u = 0..N, \A i \in 0..N : u[i] \in Nat,
         NEW limit \in Nat, u[N] > limit
  PROVE  /\ FirstOver(u, limit) \in 1..N
         /\ u[FirstOver(u, limit)] > limit
         /\ \A j \in 1..N : j < FirstOver(u, limit) => u[j] <= limit
<1> DEFINE S == {i \in DOMAIN u : i > 0 /\ u[i] > limit}
<1>1. N \in S /\ S \in SUBSET Nat
  OBVIOUS
<1>2. \E m \in S : \A n \in S : m <= n
  BY <1>1, LeastNat
<1>3. Min(S) \in S /\ \A n \in S : Min(S) <= n
  BY <1>2 DEF Min
<1>4. FirstOver(u, limit) = Min(S)
  BY DEF FirstOver
<1>5. \A j \in 1..N : j \notin S => u[j] <= limit
  OBVIOUS
<1>6. S \subseteq 1..N /\ \A j \in S : u[j] > limit
  OBVIOUS
<1> DEFINE m == Min(S)
<1> HIDE DEF S, m
<1>7. ASSUME NEW j \in 1..N, j < m PROVE j \notin S
  <2>1. m \in Nat /\ \A n \in S : m <= n
    BY <1>1, <1>3 DEF m
  <2> QED
    BY <1>7, <2>1
<1> QED
  BY <1>3, <1>4, <1>5, <1>6, <1>7 DEF m

LEMMA GreatestIsMember ==
  ASSUME NEW N \in Nat, NEW S \in SUBSET (1..N), S # {}
  PROVE  Max(S) \in S /\ \A i \in S : i <= Max(S)
<1> DEFINE T == {N - i : i \in S}
<1>a. \A i \in S : i \in Nat /\ N - i \in Nat
  OBVIOUS
<1>1. T \in SUBSET Nat /\ T # {}
  BY <1>a
<1>2. PICK d \in T : \A e \in T : d <= e
  BY <1>1, LeastNat
<1>3. PICK m \in S : d = N - m
  BY <1>2
<1>4. ASSUME NEW i \in S PROVE m >= i
  <2>1. N - i \in T
    OBVIOUS
  <2>2. d <= N - i
    BY <1>2, <2>1
  <2> QED
    BY <1>a, <1>3, <2>2
<1>5. \E x \in S : \A y \in S : x >= y
  BY <1>4
<1>6. Max(S) \in S /\ \A y \in S : Max(S) >= y
  BY <1>5 DEF Max
<1> QED
  BY <1>6

\* A leaf that is in order from each pair to the next is in order.
LEMMA NextOrdered ==
  ASSUME NEW s \in Seq(Pairs), \A i \in 2..Len(s) : s[i - 1].key <= s[i].key
  PROVE  Ordered(s)
<1> DEFINE Good == {j \in 0..Len(s) : \A i \in 1..j : s[i].key <= s[j].key}
<1>a. Len(s) \in Nat /\ DOMAIN s = 1..Len(s) /\ \A i \in 1..Len(s) : s[i].key \in Nat
  BY PairsAre
<1>1. 0 \in Good
  BY <1>a
<1>2. ASSUME NEW j \in 1..Len(s), j - 1 \in Good PROVE j \in Good
  <2>1. ASSUME NEW i \in 1..j PROVE s[i].key <= s[j].key
    <3>1. CASE i = j
      BY <1>a, <3>1
    <3>2. CASE i < j
      <4>1. s[i].key <= s[j - 1].key
        BY <1>2, <3>2
      <4>2. s[j - 1].key <= s[j].key
        BY <3>2
      <4>3. s[i].key \in Nat /\ s[j - 1].key \in Nat /\ s[j].key \in Nat
        BY <1>a, <3>2
      <4> QED
        BY <4>1, <4>2, <4>3
    <3> QED
      BY <3>1, <3>2
  <2> QED
    BY <2>1
<1> HIDE DEF Good
<1>3. 0..Len(s) \subseteq Good
  BY <1>a, <1>1, <1>2, UpToInduction
<1>4. ASSUME NEW i \in 1..Len(s), NEW j \in 1..Len(s), i <= j
      PROVE  s[i].key <= s[j].key
  <2>1. j \in Good
    BY <1>a, <1>3
  <2> QED
    BY <1>4, <2>1 DEF Good
<1> QED
  BY <1>a, <1>4 DEF Ordered

LEMMA HalfOfBlock ==
  PieceSize \in Nat /\ PieceSize <= BlockSize /\ 2 * PieceSize <= BlockSize + 1
<1>1. BlockSize \in Nat
  BY LeafSplitAssumption
<1> QED
  BY <1>1 DEF PieceSize

\* The left leaf is the first f pairs, the block those behind it up to l: pair h,
\* the first that does not fit into half a block, is of the key of f, as are all
\* between f and l, and those behind l are of a greater key.
CutAt(pairs, f, h, l) ==
  /\ OverflowStart(pairs) = f + 1 /\ SplitStart(pairs) = l + 1
  /\ f <= h /\ h <= l
  /\ \A i \in f..l : pairs[i].key = pairs[f].key
  /\ \A i \in (l + 1)..Len(pairs) : pairs[f].key < pairs[i].key
  /\ \A i \in 1..(h - 1) : LeafSizes(pairs)[i] <= PieceSize

LEMMA CutIs ==
  ASSUME NEW pairs \in Seq(Pairs), Ordered(pairs), pairs # <<>>,
         ShouldSplit(LeafSize(pairs))
  PROVE  \E f, h, l \in 1..Len(pairs) : CutAt(pairs, f, h, l)
<1> DEFINE N == Len(pairs)
           u == LeafSizes(pairs)
           h == Here(pairs)
           S == SameKey(pairs, h)
           f == Min(S)
           l == Max(S)
<1>a. /\ N \in Nat \ {0} /\ DOMAIN pairs = 1..N
      /\ BlockSize \in Nat /\ PieceSize \in Nat /\ PieceSize <= BlockSize
  BY LeafSplitAssumption, HalfOfBlock
<1>k. \A i \in 1..N : pairs[i].key \in Nat
  BY PairsAre
<1>1. DOMAIN u = 0..N /\ (\A i \in 0..N : u[i] \in Nat) /\ u[N] > PieceSize
  <2>1. DOMAIN u = 0..N /\ (\A i \in 0..N : u[i] \in Nat)
    BY LeafSizesAre
  <2>2. u[N] > BlockSize
    <3>1. BlockSize < u[N]
      BY DEF ShouldSplit, LeafSize
    <3>2. u[N] \in Nat
      BY <1>a, <2>1
    <3> HIDE DEF u, N
    <3> QED
      BY <1>a, <3>1, <3>2
  <2>3. u[N] \in Nat
    BY <1>a, <2>1
  <2> HIDE DEF u, N
  <2> QED
    BY <1>a, <2>1, <2>2, <2>3
<1>2. /\ h \in 1..N
      /\ \A j \in 1..N : j < h => u[j] <= PieceSize
  <2>1. h = FirstOver(u, PieceSize)
    BY DEF Here
  <2> HIDE DEF u, N, h
  <2> QED
    BY <1>a, <1>1, <2>1, FirstOverIs
<1> HIDE DEF h
<1>3. /\ S \in SUBSET (1..N) /\ S \in SUBSET Nat /\ h \in S
      /\ \A i \in S : pairs[i].key = pairs[h].key
      /\ \A i \in (1..N) \ S : pairs[i].key # pairs[h].key
  BY <1>a, <1>2 DEF SameKey
<1>s. OverflowStart(pairs) = f + 1 /\ SplitStart(pairs) = l + 1
  BY DEF OverflowStart, SplitStart, h
<1> HIDE DEF S, u
<1>4. f \in S /\ \A i \in S : f <= i
  <2>1. \E m \in S : \A n \in S : m <= n
    BY <1>3, LeastNat
  <2> QED
    BY <2>1 DEF Min
<1>5. l \in S /\ \A i \in S : i <= l
  BY <1>a, <1>3, GreatestIsMember
<1> HIDE DEF f, l, N
<1>6. f \in 1..N /\ h \in 1..N /\ l \in 1..N /\ f <= h /\ h <= l
  BY <1>3, <1>4, <1>5
<1>o. \A i, j \in 1..N : i <= j => pairs[i].key <= pairs[j].key
  BY <1>a DEF Ordered
<1>7. ASSUME NEW i \in f..l PROVE pairs[i].key = pairs[f].key
  <2>1. i \in 1..N /\ f <= i /\ i <= l
    BY <1>a, <1>6
  <2>2. pairs[f].key = pairs[h].key /\ pairs[l].key = pairs[h].key
    BY <1>3, <1>4, <1>5
  <2>3. pairs[f].key <= pairs[i].key /\ pairs[i].key <= pairs[l].key
    BY <1>o, <1>6, <2>1
  <2>4. pairs[f].key \in Nat /\ pairs[i].key \in Nat /\ pairs[l].key \in Nat
    BY <1>k, <1>6, <2>1
  <2> QED
    BY <2>2, <2>3, <2>4
<1>8. ASSUME NEW i \in (l + 1)..N PROVE pairs[f].key < pairs[i].key
  <2>1. i \in 1..N /\ f <= i /\ ~(i <= l)
    BY <1>a, <1>6
  <2>2. pairs[i].key # pairs[f].key
    BY <1>3, <1>4, <1>5, <2>1
  <2>3. pairs[f].key <= pairs[i].key
    BY <1>o, <1>6, <2>1
  <2>4. pairs[f].key \in Nat /\ pairs[i].key \in Nat
    BY <1>k, <1>6, <2>1
  <2> QED
    BY <2>2, <2>3, <2>4
<1>9. \A i \in 1..(h - 1) : u[i] <= PieceSize
  BY <1>a, <1>2
<1>10. CutAt(pairs, f, h, l)
  BY <1>s, <1>6, <1>7, <1>8, <1>9 DEF CutAt, u, N
<1> QED
  BY <1>6, <1>10 DEF N

\* What is in a piece of a sequence is in the sequence, at its own place.
IsPart(t, s, m, n) ==
  /\ Len(t) = (n + 1) - m
  /\ \A i \in 1..Len(t) : t[i] = s[m + i - 1]
  /\ Range(t) \subseteq Range(s)
  /\ \A x \in Range(t) : \E j \in m..n : x = s[j]

LEMMA PartOf ==
  ASSUME NEW S, NEW s \in Seq(S), NEW m \in Nat \ {0}, NEW n \in Nat,
         m <= n + 1, n <= Len(s)
  PROVE  SubSeq(s, m, n) \in Seq(S) /\ IsPart(SubSeq(s, m, n), s, m, n)
<1> DEFINE t == SubSeq(s, m, n)
<1>a. Len(s) \in Nat
  OBVIOUS
<1>1. \A i \in m..n : s[i] \in S
  BY <1>a
<1>2. t \in Seq(S) /\ Len(t) = (n + 1) - m
  BY <1>1, SubSeqProperties
<1>3. \A i \in 1..((n - m) + 1) : t[i] = s[(m + i) - 1]
  BY <1>1, SubSeqProperties
<1> HIDE DEF t
<1>4. ASSUME NEW i \in 1..Len(t)
      PROVE  m + i - 1 \in m..n /\ m + i - 1 \in 1..Len(s) /\ t[i] = s[m + i - 1]
  BY <1>a, <1>2, <1>3
<1>5. \A x \in Range(t) : \E i \in 1..Len(t) : x = t[i]
  BY <1>2 DEF Range
<1>6. ASSUME NEW x \in Range(t)
      PROVE  x \in Range(s) /\ \E j \in m..n : x = s[j]
  <2>1. PICK i \in 1..Len(t) : x = t[i]
    BY <1>5
  <2>2. m + i - 1 \in m..n /\ m + i - 1 \in 1..Len(s) /\ x = s[m + i - 1]
    BY <1>4, <2>1
  <2> QED
    BY <2>2 DEF Range
<1> QED
  BY <1>2, <1>4, <1>6 DEF t, IsPart

\* The three pieces are the leaf, and their keys are in order.
ThreePieces(pairs, f, l, left, block, right) ==
  /\ left \in Seq(Pairs) /\ Len(left) = f /\ left[Len(left)] = pairs[f]
  /\ block \in Seq(Pairs)
  /\ right \in Seq(Pairs) /\ Len(right) = Len(pairs) - l
  /\ pairs = left \o (block \o right)
  /\ Range(left) \subseteq Range(pairs)
  /\ \A p \in Range(block) : p.key = pairs[f].key
  /\ \A p \in Range(right) : pairs[f].key < p.key
  /\ Range(right) \subseteq Range(pairs)
  /\ \A i \in 1..Len(right) : right[i] = pairs[l + i]
  /\ Ordered(right)

LEMMA CutPieces ==
  ASSUME NEW pairs \in Seq(Pairs), Ordered(pairs),
         NEW f \in 1..Len(pairs), NEW h \in 1..Len(pairs), NEW l \in 1..Len(pairs),
         CutAt(pairs, f, h, l),
         NEW left, left = SubSeq(pairs, 1, OverflowStart(pairs) - 1),
         NEW block,
         block = SubSeq(pairs, OverflowStart(pairs), SplitStart(pairs) - 1),
         NEW right, right = SubSeq(pairs, SplitStart(pairs), Len(pairs))
  PROVE  ThreePieces(pairs, f, l, left, block, right)
<1> DEFINE N == Len(pairs)
<1>a. /\ N \in Nat /\ f \in Nat \ {0} /\ f <= h /\ h <= l /\ l <= N /\ f <= l /\ l \in Nat
      /\ f + 1 \in Nat \ {0} /\ l + 1 \in Nat \ {0}
  BY DEF CutAt
<1>b. /\ left = SubSeq(pairs, 1, f) /\ block = SubSeq(pairs, f + 1, l)
      /\ right = SubSeq(pairs, l + 1, N)
  <2>1. OverflowStart(pairs) = f + 1 /\ SplitStart(pairs) = l + 1
        /\ (f + 1) - 1 = f /\ (l + 1) - 1 = l
    BY <1>a DEF CutAt
  <2> QED
    BY <2>1
<1> HIDE DEF N
<1>1. /\ left \in Seq(Pairs) /\ Len(left) = f /\ Range(left) \subseteq Range(pairs)
      /\ left[Len(left)] = pairs[f]
  <2>1. left \in Seq(Pairs) /\ IsPart(left, pairs, 1, f)
    <3>1. 1 \in Nat \ {0} /\ 1 <= f + 1 /\ f <= N
      BY <1>a
    <3> QED
      BY <1>a, <1>b, <3>1, PartOf DEF N
  <2>2. (f + 1) - 1 = f /\ f \in 1..f /\ (1 + f) - 1 = f
    BY <1>a
  <2> QED
    BY <2>1, <2>2 DEF IsPart
<1>2. block \in Seq(Pairs) /\ \A p \in Range(block) : p.key = pairs[f].key
  <2>1. block \in Seq(Pairs) /\ IsPart(block, pairs, f + 1, l)
    <3>1. f + 1 <= l + 1
      BY <1>a
    <3> QED
      BY <1>a, <1>b, <3>1, PartOf DEF N
  <2>2. \A j \in (f + 1)..l : j \in f..l
    BY <1>a
  <2> QED
    BY <2>1, <2>2 DEF CutAt, IsPart
<1>3. /\ right \in Seq(Pairs) /\ Len(right) = N - l
      /\ Range(right) \subseteq Range(pairs)
      /\ \A p \in Range(right) : pairs[f].key < p.key
      /\ \A i \in 1..Len(right) : right[i] = pairs[l + i]
  <2>1. right \in Seq(Pairs) /\ IsPart(right, pairs, l + 1, N)
    <3>1. l + 1 <= N + 1
      BY <1>a
    <3> QED
      BY <1>a, <1>b, <3>1, PartOf DEF N
  <2>2. (N + 1) - (l + 1) = N - l
    BY <1>a
  <2>3. \A i \in 1..Len(right) : (l + 1) + i - 1 = l + i
    BY <1>a
  <2> QED
    BY <2>1, <2>2, <2>3 DEF CutAt, N, IsPart
<1>4. pairs = left \o (block \o right)
  <2> DEFINE back == SubSeq(pairs, f + 1, N)
  <2>1. pairs = left \o back
    <3>1. f \in 0..Len(pairs)
      BY <1>a
    <3> QED
      BY <1>b, <3>1, SeqSplit DEF N
  <2>2. back = block \o right
    <3>1. f + 1 \in 1..(Len(pairs) + 1) /\ l \in ((f + 1) - 1)..Len(pairs)
          /\ N \in l..Len(pairs)
      BY <1>a DEF N
    <3> QED
      BY <1>b, <3>1, ConcatAdjacentSubSeq
  <2> QED
    BY <2>1, <2>2
<1>5. Ordered(right)
  <2>1. ASSUME NEW i \in 1..Len(right), NEW j \in 1..Len(right), i <= j
        PROVE  right[i].key <= right[j].key
    <3>1. l + i \in 1..N /\ l + j \in 1..N /\ l + i <= l + j
      BY <1>a, <1>3, <2>1
    <3>2. pairs[l + i].key <= pairs[l + j].key
      BY <3>1 DEF Ordered, N
    <3> QED
      BY <1>3, <3>2
  <2>2. DOMAIN right = 1..Len(right)
    BY <1>3
  <2> QED
    BY <2>1, <2>2 DEF Ordered
<1> QED
  BY <1>1, <1>2, <1>3, <1>4, <1>5 DEF N, ThreePieces

WithTwo(t, s, x, y, n) ==
  /\ t = Append(Append(s, x), y)
  /\ Len(t) = n + 2
  /\ \A i \in 1..n : t[i] = s[i]
  /\ t[n + 1] = x /\ t[n + 2] = y

LEMMA TwoMore ==
  ASSUME NEW S, NEW s \in Seq(S), NEW x \in S, NEW y \in S, NEW n \in Nat, n = Len(s)
  PROVE  s \o <<x, y>> \in Seq(S) /\ WithTwo(s \o <<x, y>>, s, x, y, n)
<1> DEFINE a == s \o <<x, y>>
           b == Append(Append(s, x), y)
<1>1. a \in Seq(S) /\ Len(a) = n + 2
      /\ (\A i \in 1..n : a[i] = s[i]) /\ a[n + 1] = x /\ a[n + 2] = y
  OBVIOUS
<1>2. b \in Seq(S) /\ Len(b) = n + 2
      /\ (\A i \in 1..n : b[i] = s[i]) /\ b[n + 1] = x /\ b[n + 2] = y
  OBVIOUS
<1> HIDE DEF a, b
<1>3. \A i \in 1..(n + 2) : i \in 1..n \/ i = n + 1 \/ i = n + 2
  OBVIOUS
<1>4. \A i \in 1..(n + 2) : a[i] = b[i]
  BY <1>1, <1>2, <1>3
<1>5. a = b
  BY <1>1, <1>2, <1>4, SeqEqual
<1> QED
  BY <1>1, <1>5 DEF a, b, WithTwo

LEMMA FlattenTwo ==
  ASSUME NEW S, NEW ss \in Seq(Seq(S)), NEW x \in Seq(S), NEW y \in Seq(S)
  PROVE  FlattenSeq(Append(Append(ss, x), y)) = FlattenSeq(ss) \o (x \o y)
<1> DEFINE before == FlattenSeq(ss)
<1>1. before \in Seq(S)
  BY FlattenRange
<1>2. FlattenSeq(Append(ss, x)) = before \o x
  BY FlattenAppend
<1>3. Append(ss, x) \in Seq(Seq(S))
  OBVIOUS
<1>4. FlattenSeq(Append(Append(ss, x), y)) = (before \o x) \o y
  BY <1>2, <1>3, FlattenAppend
<1> HIDE DEF before
<1>5. (before \o x) \o y = before \o (x \o y)
  BY <1>1, ConcatAssociative
<1> QED
  BY <1>4, <1>5 DEF before

\* A chain whose last block is divided.
PushedTo(chain, i, kept, next, new) ==
  /\ new \in Seq(Seq(Pairs)) /\ Len(new) = Len(chain) + 1
  /\ \A j \in 1..(Len(chain) - 1) : new[j] = chain[j]
  /\ new[Len(chain)] = kept /\ new[Len(chain) + 1] = next
  /\ kept \in Seq(Pairs) /\ Len(kept) = i - 1
  /\ next \in Seq(Pairs) /\ next # <<>>
  /\ Range(kept) \subseteq Range(Last(chain))
  /\ Range(next) \subseteq Range(Last(chain))
  /\ FlattenSeq(new) = FlattenSeq(chain)

LEMMA PushedChain ==
  ASSUME NEW chain \in Seq(Seq(Pairs)), chain # <<>>,
         NEW i \in 1..Len(Last(chain)),
         NEW kept, kept = SubSeq(Last(chain), 1, i - 1),
         NEW next, next = SubSeq(Last(chain), i, Len(Last(chain))),
         NEW new, new = Front(chain) \o <<kept, next>>
  PROVE  PushedTo(chain, i, kept, next, new)
<1> DEFINE N == Len(chain)
           block == Last(chain)
           front == Front(chain)
<1>a. N \in Nat \ {0} /\ block = chain[N] /\ block \in Seq(Pairs) /\ Len(block) \in Nat
  BY DEF Last
<1>1. /\ front \in Seq(Seq(Pairs)) /\ Len(front) = N - 1
      /\ \A j \in 1..(N - 1) : front[j] = chain[j]
  <2>1. /\ front = SubSeq(chain, 1, N - 1) /\ N - 1 \in Nat
        /\ 1 \in Nat \ {0} /\ 1 <= (N - 1) + 1 /\ N - 1 <= Len(chain)
        /\ ((N - 1) + 1) - 1 = N - 1
    BY <1>a DEF Front
  <2>2. front \in Seq(Seq(Pairs)) /\ IsPart(front, chain, 1, N - 1)
    BY <2>1, PartOf
  <2>3. \A j \in 1..(N - 1) : (1 + j) - 1 = j
    BY <1>a
  <2>4. Len(front) = N - 1 /\ \A j \in 1..Len(front) : front[j] = chain[1 + j - 1]
    BY <2>1, <2>2 DEF IsPart
  <2> HIDE DEF front, N
  <2> QED
    BY <2>2, <2>3, <2>4
<1>2. chain = Append(front, block)
  <2>1. Append(front, block) \in Seq(Seq(Pairs)) /\ Len(Append(front, block)) = N
        /\ \A j \in 1..N : Append(front, block)[j] = chain[j]
    BY <1>a, <1>1
  <2> QED
    BY <2>1, SeqEqual
<1> HIDE DEF block, front
<1>b. /\ i \in Nat \ {0} /\ i - 1 \in Nat /\ i <= Len(block)
      /\ kept = SubSeq(block, 1, i - 1) /\ next = SubSeq(block, i, Len(block))
      /\ (i - 1) + 1 = i /\ i - 1 \in 0..Len(block)
  BY <1>a DEF block
<1>3. /\ kept \in Seq(Pairs) /\ Len(kept) = i - 1
      /\ Range(kept) \subseteq Range(block)
  <2>1. 1 \in Nat \ {0} /\ 1 <= (i - 1) + 1 /\ i - 1 <= Len(block)
    BY <1>a, <1>b
  <2>2. kept \in Seq(Pairs) /\ IsPart(kept, block, 1, i - 1)
    BY <1>a, <1>b, <2>1, PartOf
  <2> QED
    BY <1>b, <2>2 DEF IsPart
<1>4. /\ next \in Seq(Pairs) /\ next # <<>>
      /\ Range(next) \subseteq Range(block)
  <2>1. i <= Len(block) + 1 /\ Len(block) <= Len(block)
    BY <1>a, <1>b
  <2>2. next \in Seq(Pairs) /\ IsPart(next, block, i, Len(block))
    BY <1>a, <1>b, <2>1, PartOf
  <2>3. Len(next) # 0
    BY <1>a, <1>b, <2>2 DEF IsPart
  <2> QED
    BY <2>2, <2>3 DEF IsPart
<1>5. block = kept \o next
  BY <1>a, <1>b, SeqSplit
<1>6. new \in Seq(Seq(Pairs)) /\ WithTwo(new, front, kept, next, N - 1)
  <2> DEFINE S == Seq(Pairs)
  <2>1. N - 1 \in Nat /\ N - 1 = Len(front)
    BY <1>a, <1>1
  <2>2. new = front \o <<kept, next>>
    BY DEF front
  <2>3. front \in Seq(S) /\ kept \in S /\ next \in S
    BY <1>1, <1>3, <1>4
  <2> HIDE DEF S, N
  <2> QED
    BY <2>1, <2>2, <2>3, TwoMore DEF S
<1>7. /\ Len(new) = N + 1
      /\ \A j \in 1..(N - 1) : new[j] = chain[j]
      /\ new[N] = kept /\ new[N + 1] = next
  <2>1. (N - 1) + 2 = N + 1 /\ (N - 1) + 1 = N
    BY <1>a
  <2> QED
    BY <1>1, <1>6, <2>1 DEF WithTwo
<1>8. FlattenSeq(new) = FlattenSeq(chain)
  <2>1. FlattenSeq(chain) = FlattenSeq(front) \o block
    BY <1>a, <1>1, <1>2, FlattenAppend
  <2>2. new = Append(Append(front, kept), next)
    BY <1>6 DEF WithTwo
  <2>3. FlattenSeq(Append(Append(front, kept), next))
          = FlattenSeq(front) \o (kept \o next)
    <3>1. front \in Seq(Seq(Pairs)) /\ kept \in Seq(Pairs) /\ next \in Seq(Pairs)
      BY <1>1, <1>3, <1>4
    <3> QED
      BY ONLY <3>1, FlattenTwo
  <2> QED
    BY <1>5, <2>1, <2>2, <2>3
<1> QED
  BY <1>3, <1>4, <1>6, <1>7, <1>8 DEF block, N, PushedTo

-----------------------------------------------------------------------------
(* Every leaf with its chain *)

LEMMA FromBefore ==
  ASSUME NEW leaf, NEW s, NEW t, Before(leaf, t), Range(s) \subseteq Range(t)
  PROVE  Before(leaf, s)
BY DEF Before

LEMMA CutIsLeaf ==
  ASSUME NEW left \in Seq(Pairs), NEW block \in Seq(Pairs)
  PROVE  /\ Cut(left, block) \in Leaves
         /\ Cut(left, block).pairs = left
         /\ \A i \in DOMAIN Cut(left, block).chain :
              i = 1 /\ Cut(left, block).chain[i] = block
         /\ block = <<>> => Cut(left, block).chain = <<>>
         /\ block # <<>> =>
              /\ Cut(left, block).chain # <<>> /\ Len(Cut(left, block).chain) = 1
              /\ Last(Cut(left, block).chain) = block
         /\ Piece(Cut(left, block)) = left \o block
<1>1. CASE block = <<>>
  <2>1. Cut(left, block) = [pairs |-> left, chain |-> <<>>]
    BY <1>1, Zenon DEF Cut
  <2>2. FlattenSeq(<<>>) = <<>>
    BY DEF FlattenSeq
  <2>3. Cut(left, block) \in Leaves
    BY <2>1 DEF Leaves
  <2>4. Piece(Cut(left, block)) = left \o block
    <3>1. Cut(left, block).pairs = left /\ FlattenSeq(Cut(left, block).chain) = block
      BY <1>1, <2>1, <2>2
    <3> QED
      BY <3>1, Zenon DEF Piece
  <2> QED
    BY <1>1, <2>1, <2>3, <2>4
<1>2. CASE block # <<>>
  <2>1. Cut(left, block) = [pairs |-> left, chain |-> <<block>>]
    BY <1>2, Zenon DEF Cut
  <2>2. <<block>> \in Seq(Seq(Pairs)) /\ Len(<<block>>) = 1 /\ <<block>>[1] = block
    OBVIOUS
  <2>3. FlattenSeq(<<block>>) = block
    <3>1. \E g : FlattenSeq(<<block>>) = g[1] /\ g[1] = <<block>>[1]
      <4>1. 1 \in Nat \ {0} /\ 1 = Len(<<block>>)
        OBVIOUS
      <4> QED
        BY <4>1, FlattenIs
    <3> QED
      BY <3>1
  <2> QED
    BY <1>2, <2>1, <2>2, <2>3 DEF Piece, Leaves, Last
<1> QED
  BY <1>1, <1>2

LEMMA PiecesAre ==
  ASSUME NEW cut \in Seq(Leaves)
  PROVE  /\ Pieces(cut) \in Seq(Seq(Pairs)) /\ Len(Pieces(cut)) = Len(cut)
         /\ FlattenSeq(Pieces(cut)) \in Seq(Pairs)
<1>1. ASSUME NEW n \in DOMAIN cut PROVE Piece(cut[n]) \in Seq(Pairs)
  <2>1. cut[n] \in Leaves
    OBVIOUS
  <2>2. cut[n].pairs \in Seq(Pairs) /\ cut[n].chain \in Seq(Seq(Pairs))
    BY <2>1 DEF Leaves
  <2>3. FlattenSeq(cut[n].chain) \in Seq(Pairs)
    BY <2>2, FlattenRange
  <2> QED
    BY <2>2, <2>3 DEF Piece
<1>2. Pieces(cut) \in Seq(Seq(Pairs)) /\ Len(Pieces(cut)) = Len(cut)
  BY <1>1 DEF Pieces
<1> QED
  BY <1>2, FlattenRange

LEMMA PiecesAdd ==
  ASSUME NEW cut \in Seq(Leaves), NEW leaf \in Leaves
  PROVE  FlattenSeq(Pieces(Append(cut, leaf))) = FlattenSeq(Pieces(cut)) \o Piece(leaf)
<1>1. /\ Append(cut, leaf) \in Seq(Leaves) /\ Len(Append(cut, leaf)) = Len(cut) + 1
      /\ DOMAIN Append(cut, leaf) = 1..(Len(cut) + 1)
      /\ Len(cut) \in Nat /\ DOMAIN cut = 1..Len(cut)
  OBVIOUS
<1>2. \A n \in 1..Len(cut) : Append(cut, leaf)[n] = cut[n]
  OBVIOUS
<1>3. Append(cut, leaf)[Len(cut) + 1] = leaf
  OBVIOUS
<1>4. Piece(leaf) \in Seq(Pairs)
  <2>1. leaf.pairs \in Seq(Pairs) /\ leaf.chain \in Seq(Seq(Pairs))
    BY DEF Leaves
  <2>2. FlattenSeq(leaf.chain) \in Seq(Pairs)
    BY <2>1, FlattenRange
  <2> QED
    BY <2>1, <2>2 DEF Piece
<1> DEFINE a == Pieces(Append(cut, leaf))
           b == Append(Pieces(cut), Piece(leaf))
<1>5. a \in Seq(Seq(Pairs)) /\ Len(a) = Len(cut) + 1
  BY <1>1, PiecesAre
<1>6. Pieces(cut) \in Seq(Seq(Pairs)) /\ Len(Pieces(cut)) = Len(cut)
  BY PiecesAre
<1>7. b \in Seq(Seq(Pairs)) /\ Len(b) = Len(cut) + 1
  BY <1>4, <1>6
<1>8. ASSUME NEW n \in 1..(Len(cut) + 1) PROVE a[n] = b[n]
  <2>1. a[n] = Piece(Append(cut, leaf)[n])
    BY <1>1 DEF Pieces
  <2>2. CASE n = Len(cut) + 1
    <3>1. b[n] = Piece(leaf)
      BY <1>4, <1>6, <2>2
    <3> QED
      BY <1>3, <2>1, <2>2, <3>1
  <2>3. CASE n # Len(cut) + 1
    <3>1. n \in 1..Len(cut)
      BY <1>1, <2>3
    <3>2. b[n] = Pieces(cut)[n]
      BY <1>4, <1>6, <3>1
    <3>3. Pieces(cut)[n] = Piece(cut[n])
      BY <1>1, <3>1 DEF Pieces
    <3> QED
      BY <1>2, <2>1, <3>1, <3>2, <3>3
  <2> QED
    BY <2>2, <2>3
<1> HIDE DEF a, b
<1>9. a = b
  BY <1>5, <1>7, <1>8, SeqEqual
<1> QED
  BY <1>4, <1>6, <1>9, FlattenAppend DEF a, b

\* Three runs of pairs, put together from either side.
LEMMA Regroup ==
  \A a, b, c \in Seq(Pairs) : a \o (b \o c) = (a \o b) \o c
<1> SUFFICES ASSUME NEW a \in Seq(Pairs), NEW b \in Seq(Pairs), NEW c \in Seq(Pairs)
             PROVE  a \o (b \o c) = (a \o b) \o c
  OBVIOUS
<1> QED
  BY ConcatAssociative

\* One leaf more, and less of what is left.
LEMMA CutOff ==
  ASSUME Working, NothingLost,
         NEW left \in Seq(Pairs), NEW block \in Seq(Pairs), NEW right \in Seq(Pairs),
         rest = left \o (block \o right)
  PROVE  all = FlattenSeq(Pieces(Append(leaves, Cut(left, block)))) \o right
<1> DEFINE before == FlattenSeq(Pieces(leaves))
<1>1. before \in Seq(Pairs) /\ leaves \in Seq(Leaves)
  BY PiecesAre DEF Working
<1>2. FlattenSeq(Pieces(Append(leaves, Cut(left, block)))) = before \o (left \o block)
  <2>1. Cut(left, block) \in Leaves /\ Piece(Cut(left, block)) = left \o block
    BY CutIsLeaf
  <2> QED
    BY <1>1, <2>1, PiecesAdd
<1>3. all = before \o (left \o (block \o right))
  BY DEF NothingLost
<1> HIDE DEF before
<1>4. left \o (block \o right) = (left \o block) \o right
  BY Regroup
<1>5. before \o ((left \o block) \o right) = (before \o (left \o block)) \o right
  <2>1. left \o block \in Seq(Pairs)
    BY ConcatProperties
  <2> QED
    BY ONLY <1>1, <2>1, right \in Seq(Pairs), Regroup
<1> QED
  BY <1>2, <1>3, <1>4, <1>5

LEMMA KeysAdd ==
  ASSUME Working, KeysInOrder,
         NEW leaf \in Leaves, leaves' = Append(leaves, leaf),
         ChainOfLastKey(leaf), Before(leaf, rest'), Ordered(rest'),
         Range(leaf.pairs) \subseteq Range(rest), Range(rest') \subseteq Range(rest)
  PROVE  KeysInOrder'
<1> DEFINE N == Len(leaves)
           new == Append(leaves, leaf)
<1>1. /\ N \in Nat /\ DOMAIN leaves = 1..N /\ DOMAIN new = 1..(N + 1)
      /\ (\A n \in 1..N : new[n] = leaves[n]) /\ new[N + 1] = leaf
  BY DEF Working
<1>2. /\ \A n \in 1..N : ChainOfLastKey(leaves[n]) /\ Before(leaves[n], rest)
      /\ \A n, m \in 1..N : n < m => Before(leaves[n], leaves[m].pairs)
  BY <1>1 DEF KeysInOrder
<1> HIDE DEF N, new
<1>3. \A n \in 1..(N + 1) : n \in 1..N \/ n = N + 1
  BY <1>1
<1>4. ASSUME NEW n \in 1..(N + 1) PROVE ChainOfLastKey(new[n]) /\ Before(new[n], rest')
  <2>1. CASE n \in 1..N
    BY <1>1, <1>2, <2>1, FromBefore
  <2>2. CASE n = N + 1
    BY <1>1, <2>2
  <2> QED
    BY <1>3, <2>1, <2>2
<1>5. ASSUME NEW n \in 1..(N + 1), NEW m \in 1..(N + 1), n < m
      PROVE  Before(new[n], new[m].pairs)
  <2>1. n \in 1..N
    BY <1>1, <1>5
  <2>2. CASE m \in 1..N
    BY <1>1, <1>2, <1>5, <2>1, <2>2
  <2>3. CASE m = N + 1
    <3>1. Before(leaves[n], rest)
      BY <1>2, <2>1
    <3>2. Before(leaves[n], leaf.pairs)
      BY <3>1, FromBefore
    <3> QED
      BY <1>1, <2>1, <2>3, <3>2
  <2> QED
    BY <1>3, <2>2, <2>3
<1>6. leaves' = new
  BY DEF new
<1> QED
  BY <1>1, <1>4, <1>5, <1>6 DEF KeysInOrder

-----------------------------------------------------------------------------
(* The steps *)

\* A leaf, its block and what goes on to the right, with their keys in order.
CutInto(pairs, left, block, right) ==
  /\ left \in Seq(Pairs) /\ block \in Seq(Pairs) /\ right \in Seq(Pairs)
  /\ pairs = left \o (block \o right)
  /\ left # <<>>
  /\ Range(left) \subseteq Range(pairs) /\ Range(right) \subseteq Range(pairs)
  /\ \A p \in Range(block) : p.key = Last(left).key
  /\ \A p \in Range(right) : Last(left).key < p.key
  /\ Ordered(right)

\* What SplitLeaf does.
CutsOff(f, h, l, left, block, right) ==
  /\ CutAt(rest, f, h, l)
  /\ CutInto(rest, left, block, right)
  /\ left = SubSeq(rest, 1, f)
  /\ Len(right) = Len(rest) - l
  /\ \A i \in 1..Len(right) : right[i] = rest[l + i]
  /\ leaves' = Append(leaves, Cut(left, block))
  /\ rest' = right
  /\ phase' = IF chained /\ right = <<>> THEN "assert"
              ELSE IF block # <<>> THEN "overflow"
              ELSE IF right = <<>> THEN "done" ELSE "leaf"
  /\ all' = all /\ chained' = chained

LEMMA SplitLeafIs ==
  ASSUME Working, KeysInOrder, SplitLeaf
  PROVE  \E f, h, l \in 1..Len(rest) : \E left, block, right :
           CutsOff(f, h, l, left, block, right)
<1>1. rest \in Seq(Pairs) /\ Ordered(rest) /\ rest # <<>> /\ ShouldSplit(LeafSize(rest))
  BY DEF Working, KeysInOrder, SplitLeaf
<1>2. \E f, h, l \in 1..Len(rest) : CutAt(rest, f, h, l)
  BY <1>1, CutIs
<1>3. PICK f \in 1..Len(rest), h \in 1..Len(rest), l \in 1..Len(rest) :
             CutAt(rest, f, h, l)
  BY <1>2
<1> DEFINE left  == SubSeq(rest, 1, OverflowStart(rest) - 1)
           block == SubSeq(rest, OverflowStart(rest), SplitStart(rest) - 1)
           right == SubSeq(rest, SplitStart(rest), Len(rest))
<1>4. /\ leaves' = Append(leaves, Cut(left, block))
      /\ rest' = right
      /\ phase' = IF chained /\ right = <<>> THEN "assert"
                  ELSE IF block # <<>> THEN "overflow"
                  ELSE IF right = <<>> THEN "done" ELSE "leaf"
      /\ all' = all /\ chained' = chained
  BY Zenon DEF SplitLeaf
<1>5. left = SubSeq(rest, 1, f)
  <2>1. OverflowStart(rest) = f + 1 /\ (f + 1) - 1 = f
    BY <1>3 DEF CutAt
  <2> QED
    BY <2>1
<1>6. ThreePieces(rest, f, l, left, block, right)
  BY ONLY <1>1, <1>3, CutPieces
<1> HIDE DEF left, block, right
<1>7. left # <<>> /\ Last(left) = rest[f]
  <2>1. Len(left) \in Nat \ {0}
    BY <1>6 DEF ThreePieces
  <2> QED
    BY <1>6, <2>1 DEF Last, ThreePieces
<1>8. CutInto(rest, left, block, right)
  BY <1>6, <1>7, Zenon DEF CutInto, ThreePieces
<1>9. CutsOff(f, h, l, left, block, right)
  BY <1>3, <1>4, <1>5, <1>6, <1>8, Zenon DEF CutsOff, ThreePieces
<1> QED
  BY <1>3, <1>9, Zenon

\* What PushDown does.
PushesDown(chain, i, kept, next, new) ==
  /\ i = SplitIndex(Last(chain)) /\ i \in 1..Len(Last(chain))
  /\ kept = SubSeq(Last(chain), 1, i - 1)
  /\ PushedTo(chain, i, kept, next, new)
  /\ leaves' \in Seq(Leaves) /\ Len(leaves') = Len(leaves)
  /\ \A n \in 1..Len(leaves) : /\ n # Len(leaves) => leaves'[n] = leaves[n]
                               /\ leaves'[n].pairs = leaves[n].pairs
  /\ leaves'[Len(leaves)].chain = new
  /\ phase' = IF kept = <<>> THEN "endless" ELSE phase
  /\ all' = all /\ chained' = chained /\ rest' = rest

LEMMA PushDownIs ==
  ASSUME Working, PushDown
  PROVE  \E i, kept, next, new :
           PushesDown(leaves[Len(leaves)].chain, i, kept, next, new)
<1> DEFINE N     == Len(leaves)
           chain == leaves[N].chain
           block == Last(chain)
           i     == SplitIndex(block)
           kept  == SubSeq(block, 1, i - 1)
           next  == SubSeq(block, i, Len(block))
           new   == Front(chain) \o <<kept, next>>
<1>1. /\ leaves \in Seq(Leaves) /\ leaves # <<>> /\ N \in Nat \ {0}
      /\ leaves[N] \in Leaves
      /\ chain \in Seq(Seq(Pairs)) /\ chain # <<>>
      /\ LastBlock = block /\ block # <<>>
  <2>1. phase = "overflow"
    BY DEF PushDown
  <2>2. /\ leaves \in Seq(Leaves) /\ leaves # <<>> /\ chain # <<>> /\ LastBlock # <<>>
    BY <2>1 DEF Working
  <2>3. N \in Nat \ {0} /\ leaves[N] \in Leaves
    BY <2>2
  <2>4. chain \in Seq(Seq(Pairs))
    BY <2>3 DEF Leaves
  <2>5. LastBlock = block
    BY DEF LastBlock, Last
  <2> QED
    BY <2>2, <2>3, <2>4, <2>5
<1>2. block \in Seq(Pairs) /\ Len(block) \in Nat \ {0}
  BY <1>1 DEF Last
<1>3. i \in 1..Len(block)
  <2> DEFINE u == BlockSizes(block)
  <2>1. DOMAIN u = 0..Len(block) /\ (\A j \in 0..Len(block) : u[j] \in Nat)
    BY <1>2, BlockSizesAre
  <2>2. BlockSize < u[Len(block)]
    BY <1>1 DEF PushDown, ShouldSplit, BlockBytes
  <2>3. BlockSize \in Nat /\ u[Len(block)] \in Nat
    BY <1>2, <2>1, LeafSplitAssumption
  <2>4. i = FirstOver(u, BlockSize)
    BY DEF SplitIndex
  <2> HIDE DEF u, i, block
  <2>5. u[Len(block)] > BlockSize
    BY <2>2, <2>3
  <2> QED
    BY <1>2, <2>1, <2>3, <2>4, <2>5, FirstOverIs
<1>4. PushedTo(chain, i, kept, next, new)
  <2>1. /\ kept = SubSeq(Last(chain), 1, i - 1)
        /\ next = SubSeq(Last(chain), i, Len(Last(chain)))
        /\ new = Front(chain) \o <<kept, next>> /\ i \in 1..Len(Last(chain))
    BY <1>3
  <2> HIDE DEF chain, block, i, kept, next, new
  <2> QED
    BY ONLY <1>1, <2>1, PushedChain
<1>5. /\ leaves' = [leaves EXCEPT ![N].chain = Front(@) \o <<kept, next>>]
      /\ phase' = IF kept = <<>> THEN "endless" ELSE phase
      /\ all' = all /\ chained' = chained /\ rest' = rest
  BY <1>1, Zenon DEF PushDown
<1>6. /\ leaves' \in Seq(Leaves) /\ Len(leaves') = N
      /\ \A n \in 1..N : /\ n # N => leaves'[n] = leaves[n]
                         /\ leaves'[n].pairs = leaves[n].pairs
      /\ leaves'[N].chain = new
  <2> DEFINE leaf == [leaves[N] EXCEPT !.chain = new]
  <2>1. leaves' = [leaves EXCEPT ![N] = leaf]
    BY <1>5
  <2> HIDE DEF kept, next
  <2>2. new \in Seq(Seq(Pairs))
    BY <1>4 DEF PushedTo
  <2> HIDE DEF new, chain, block, i
  <2>3. leaf \in Leaves /\ leaf.pairs = leaves[N].pairs /\ leaf.chain = new
    BY <1>1, <2>2 DEF Leaves
  <2> HIDE DEF leaf
  <2>4. N \in 1..Len(leaves)
    BY <1>1
  <2>5. /\ leaves' \in Seq(Leaves) /\ Len(leaves') = N
        /\ \A n \in 1..N : leaves'[n] = IF n = N THEN leaf ELSE leaves[n]
    BY <1>1, <2>1, <2>3, <2>4, ExceptSeq
  <2> QED
    BY <2>3, <2>4, <2>5
<1> HIDE DEF i, new, kept, next
<1>7. PushesDown(chain, i, kept, next, new)
  BY <1>3, <1>4, <1>5, <1>6 DEF PushesDown, i, kept
<1> QED
  BY <1>7

LEMMA SplitInvInit ==
  ASSUME Init PROVE SplitInv
<1>1. PICK n \in 1..MaxPairs : all \in [1..n -> Pairs]
  BY DEF Init
<1>2. all \in Seq(Pairs) /\ Len(all) = n /\ all # <<>>
  <2>1. n \in Nat \ {0}
    BY LeafSplitAssumption
  <2> QED
    BY <1>1, <2>1
<1>3. leaves = <<>> /\ rest = all /\ phase = "leaf"
  BY DEF Init
<1>4. Working
  BY <1>2, <1>3 DEF Working
<1>5. Ordered(rest)
  <2>1. \A i \in 2..Len(all) : all[i - 1].key <= all[i].key
    BY DEF Init
  <2> QED
    BY <1>2, <1>3, <2>1, NextOrdered
<1>6. KeysInOrder
  BY <1>3, <1>5 DEF KeysInOrder
<1> QED
  BY <1>4, <1>6 DEF SplitInv

\* Each step leaves every chain with its key, and all keys in order.
LEMMA SplitInvStep ==
  ASSUME SplitInv, [Next]_vars PROVE SplitInv'
<1>a. Working /\ KeysInOrder
  BY DEF SplitInv
<1>1. CASE KeepLeaf
  <2>1. /\ rest \in Seq(Pairs) /\ rest # <<>> /\ leaves \in Seq(Leaves)
        /\ leaves' = Append(leaves, Cut(rest, <<>>)) /\ rest' = <<>>
        /\ phase' = "done" /\ all' = all /\ all \in Seq(Pairs)
    BY <1>1, <1>a DEF KeepLeaf, Working
  <2>2. <<>> \in Seq(Pairs) /\ Range(<<>>) = {}
    BY DEF Range
  <2> DEFINE leaf == Cut(rest, <<>>)
  <2>3. /\ leaf \in Leaves /\ leaf.pairs = rest
        /\ \A i \in DOMAIN leaf.chain : i = 1 /\ leaf.chain[i] = <<>>
    BY <2>1, <2>2, CutIsLeaf
  <2> HIDE DEF leaf
  <2>4. Working'
    BY <2>1, <2>3 DEF Working, leaf
  <2>5. ChainOfLastKey(leaf)
    BY <2>1, <2>2, <2>3 DEF ChainOfLastKey
  <2>6. Before(leaf, rest') /\ Ordered(rest') /\ Range(rest') \subseteq Range(rest)
    BY <2>1, <2>2 DEF Before, Ordered
  <2>7. leaves' = Append(leaves, leaf) /\ Range(leaf.pairs) \subseteq Range(rest)
    BY <2>1, <2>3 DEF leaf
  <2>8. KeysInOrder'
    BY <1>a, <2>3, <2>5, <2>6, <2>7, KeysAdd
  <2> QED
    BY <2>4, <2>8 DEF SplitInv
<1>2. CASE SplitLeaf
  <2>1. PICK f, h, l, left, block, right : CutsOff(f, h, l, left, block, right)
    BY <1>2, <1>a, SplitLeafIs
  <2>2. /\ left \in Seq(Pairs) /\ block \in Seq(Pairs) /\ right \in Seq(Pairs)
        /\ left # <<>> /\ Ordered(right)
        /\ Range(left) \subseteq Range(rest) /\ Range(right) \subseteq Range(rest)
        /\ \A p \in Range(block) : p.key = Last(left).key
        /\ \A p \in Range(right) : Last(left).key < p.key
    BY <2>1 DEF CutsOff, CutInto
  <2>3. /\ leaves' = Append(leaves, Cut(left, block)) /\ rest' = right /\ all' = all
        /\ phase' = IF chained /\ right = <<>> THEN "assert"
                    ELSE IF block # <<>> THEN "overflow"
                    ELSE IF right = <<>> THEN "done" ELSE "leaf"
    BY <2>1 DEF CutsOff
  <2> DEFINE leaf == Cut(left, block)
  <2>4. /\ leaf \in Leaves /\ leaf.pairs = left
        /\ \A i \in DOMAIN leaf.chain : i = 1 /\ leaf.chain[i] = block
        /\ block # <<>> => leaf.chain # <<>> /\ Last(leaf.chain) = block
    BY <2>2, CutIsLeaf
  <2>5. leaves' = Append(leaves, leaf)
    BY <2>3
  <2> HIDE DEF leaf
  <2>6. Working'
    <3>1. leaves \in Seq(Leaves) /\ all \in Seq(Pairs) /\ Len(leaves) \in Nat
      BY <1>a DEF Working
    <3>2. all' \in Seq(Pairs) /\ rest' \in Seq(Pairs) /\ leaves' \in Seq(Leaves)
      BY <2>2, <2>3, <2>4, <2>5, <3>1
    <3>3. phase' = "leaf" => rest' # <<>>
      BY <2>3
    <3>4. phase' = "overflow" => block # <<>>
      BY <2>3
    <3>5. leaves' # <<>> /\ leaves'[Len(leaves')] = leaf
      BY <2>4, <2>5, <3>1
    <3>6. phase' = "overflow" => Last(Last(leaves').chain) # <<>>
      BY <2>4, <3>4, <3>5 DEF Last
    <3> QED
      BY <2>4, <3>2, <3>3, <3>4, <3>5, <3>6 DEF Working, LastBlock
  <2>7. ChainOfLastKey(leaf)
    BY <2>2, <2>4 DEF ChainOfLastKey
  <2>8. Before(leaf, rest') /\ Ordered(rest') /\ Range(rest') \subseteq Range(rest)
    BY <2>2, <2>3, <2>4 DEF Before
  <2>9. Range(leaf.pairs) \subseteq Range(rest)
    BY <2>2, <2>4
  <2>10. KeysInOrder'
    BY <1>a, <2>4, <2>5, <2>7, <2>8, <2>9, KeysAdd
  <2> QED
    BY <2>6, <2>10 DEF SplitInv
<1>3. CASE KeepBlock
  <2>1. /\ all' = all /\ rest' = rest /\ leaves' = leaves
        /\ phase' = IF rest = <<>> THEN "done" ELSE "leaf"
    BY <1>3 DEF KeepBlock
  <2>2. Working'
    BY <1>a, <2>1 DEF Working
  <2>3. KeysInOrder'
    BY <1>a, <2>1 DEF KeysInOrder
  <2> QED
    BY <2>2, <2>3 DEF SplitInv
<1>4. CASE PushDown
  <2> DEFINE N == Len(leaves)
             chain == leaves[N].chain
  <2>1. PICK i, kept, next, new : PushesDown(chain, i, kept, next, new)
    BY <1>4, <1>a, PushDownIs
  <2>2. /\ new \in Seq(Seq(Pairs)) /\ Len(new) = Len(chain) + 1
        /\ \A j \in 1..(Len(chain) - 1) : new[j] = chain[j]
        /\ new[Len(chain)] = kept /\ new[Len(chain) + 1] = next
        /\ next # <<>>
        /\ Range(kept) \subseteq Range(Last(chain))
        /\ Range(next) \subseteq Range(Last(chain))
    BY <2>1 DEF PushesDown, PushedTo
  <2>3. /\ leaves' \in Seq(Leaves) /\ Len(leaves') = N
        /\ \A n \in 1..N : /\ n # N => leaves'[n] = leaves[n]
                           /\ leaves'[n].pairs = leaves[n].pairs
        /\ leaves'[N].chain = new
        /\ all' = all /\ rest' = rest
        /\ phase' = IF kept = <<>> THEN "endless" ELSE phase
    BY <2>1 DEF PushesDown
  <2>4. /\ phase = "overflow" /\ leaves \in Seq(Leaves) /\ N \in Nat \ {0}
        /\ chain \in Seq(Seq(Pairs)) /\ Len(chain) \in Nat \ {0}
        /\ all \in Seq(Pairs) /\ rest \in Seq(Pairs)
    <3>1. phase = "overflow" /\ leaves \in Seq(Leaves) /\ leaves # <<>> /\ chain # <<>>
      BY <1>4, <1>a DEF PushDown, Working
    <3>2. N \in Nat \ {0} /\ leaves[N] \in Leaves
      BY <3>1
    <3>3. chain \in Seq(Seq(Pairs))
      BY <3>2 DEF Leaves
    <3> QED
      BY <1>a, <3>1, <3>2, <3>3 DEF Working
  <2> HIDE DEF N, chain
  <2>5. Working'
    <3>1. phase' # "leaf"
      BY <2>3, <2>4
    <3>2. leaves' # <<>> /\ leaves'[Len(leaves')].chain = new /\ new # <<>>
      BY <2>2, <2>3, <2>4
    <3>3. Last(new) = next
      BY <2>2 DEF Last
    <3>4. Last(Last(leaves').chain) # <<>>
      BY <2>2, <3>2, <3>3 DEF Last
    <3> QED
      BY <2>3, <2>4, <3>1, <3>2, <3>4 DEF Working, LastBlock
  <2>6. /\ DOMAIN leaves = 1..N /\ DOMAIN leaves' = 1..N
        /\ DOMAIN new = 1..(Len(chain) + 1) /\ DOMAIN chain = 1..Len(chain)
    BY <2>2, <2>3, <2>4 DEF N
  <2>7. ASSUME NEW n \in 1..N
        PROVE  /\ ChainOfLastKey(leaves[n]) /\ Before(leaves[n], rest)
               /\ \A m \in 1..N : n < m => Before(leaves[n], leaves[m].pairs)
    BY <1>a, <2>6 DEF KeysInOrder
  <2>8. ASSUME NEW n \in 1..N PROVE ChainOfLastKey(leaves'[n])
    <3>1. CASE n # N
      BY <2>3, <2>7, <3>1
    <3>2. CASE n = N
      <4>1. leaves'[n].pairs = leaves[n].pairs /\ leaves'[n].chain = new
            /\ leaves[n].chain = chain
        BY <2>3, <3>2 DEF chain
      <4>2. /\ leaves[n].pairs # <<>>
            /\ \A j \in 1..Len(chain) :
                 \A p \in Range(chain[j]) : p.key = Last(leaves[n].pairs).key
        BY <2>6, <2>7, <4>1 DEF ChainOfLastKey
      <4>3. \A p \in Range(Last(chain)) : p.key = Last(leaves[n].pairs).key
        <5>1. Len(chain) \in 1..Len(chain)
          BY <2>4
        <5> QED
          BY <4>2, <5>1 DEF Last
      <4>4. ASSUME NEW j \in 1..(Len(chain) + 1), NEW p \in Range(new[j])
            PROVE  p.key = Last(leaves[n].pairs).key
        <5>1. CASE j \in 1..(Len(chain) - 1)
          <6>1. j \in 1..Len(chain) /\ new[j] = chain[j]
            BY <2>2, <2>4, <5>1
          <6> QED
            BY <4>2, <4>4, <6>1
        <5>2. CASE j = Len(chain)
          BY <2>2, <4>3, <4>4, <5>2
        <5>3. CASE j = Len(chain) + 1
          BY <2>2, <4>3, <4>4, <5>3
        <5> QED
          BY <2>4, <5>1, <5>2, <5>3
      <4> QED
        BY <2>6, <4>1, <4>2, <4>4 DEF ChainOfLastKey
    <3> QED
      BY <3>1, <3>2
  <2>9. ASSUME NEW n \in 1..N, NEW s, Before(leaves[n], s) PROVE Before(leaves'[n], s)
    BY <2>3, <2>9 DEF Before
  <2>10. ASSUME NEW n \in 1..N, NEW m \in 1..N, n < m
         PROVE  Before(leaves'[n], leaves'[m].pairs)
    <3>1. Before(leaves[n], leaves[m].pairs)
      BY <2>7, <2>10
    <3>2. Before(leaves'[n], leaves[m].pairs)
      BY <2>9, <3>1
    <3> QED
      BY <2>3, <3>2
  <2>11. Ordered(rest')
    BY <1>a, <2>3 DEF KeysInOrder
  <2>12. ASSUME NEW n \in 1..N PROVE Before(leaves'[n], rest')
    BY <2>3, <2>7, <2>9
  <2>13. KeysInOrder'
    BY <2>6, <2>8, <2>10, <2>11, <2>12 DEF KeysInOrder
  <2> QED
    BY <2>5, <2>13 DEF SplitInv
<1>5. CASE UNCHANGED vars
  BY <1>a, <1>5 DEF vars, SplitInv, Working, KeysInOrder, LastBlock
<1>6. CASE Written
  BY <1>a, <1>6 DEF Written, vars, SplitInv, Working, KeysInOrder, LastBlock
<1> QED
  BY <1>1, <1>2, <1>3, <1>4, <1>5, <1>6 DEF Next

LEMMA NothingLostInit ==
  ASSUME Init PROVE NothingLost
<1>1. SplitInv
  BY SplitInvInit
<1>2. leaves = <<>> /\ rest = all /\ all \in Seq(Pairs)
  BY <1>1 DEF Init, SplitInv, Working
<1>3. Pieces(leaves) = <<>>
  BY <1>2 DEF Pieces
<1>4. FlattenSeq(Pieces(leaves)) = <<>>
  BY <1>3 DEF FlattenSeq
<1> QED
  BY <1>2, <1>4 DEF NothingLost

\* Each step leaves the pairs what they were together.
LEMMA NothingLostStep ==
  ASSUME SplitInv, NothingLost, [Next]_vars PROVE NothingLost'
<1>a. Working /\ KeysInOrder /\ rest \in Seq(Pairs)
  BY DEF SplitInv, Working
<1>1. CASE KeepLeaf
  <2>1. leaves' = Append(leaves, Cut(rest, <<>>)) /\ rest' = <<>> /\ all' = all
    BY <1>1 DEF KeepLeaf
  <2>2. rest = rest \o (<<>> \o <<>>) /\ <<>> \in Seq(Pairs)
    BY <1>a
  <2>3. all = FlattenSeq(Pieces(Append(leaves, Cut(rest, <<>>)))) \o <<>>
    BY <1>a, <2>2, CutOff
  <2> QED
    BY <2>1, <2>3, Zenon DEF NothingLost
<1>2. CASE SplitLeaf
  <2>1. PICK f, h, l, left, block, right : CutsOff(f, h, l, left, block, right)
    BY <1>2, <1>a, SplitLeafIs
  <2>2. /\ left \in Seq(Pairs) /\ block \in Seq(Pairs) /\ right \in Seq(Pairs)
        /\ rest = left \o (block \o right)
        /\ leaves' = Append(leaves, Cut(left, block)) /\ rest' = right /\ all' = all
    BY <2>1 DEF CutsOff, CutInto
  <2>3. all = FlattenSeq(Pieces(Append(leaves, Cut(left, block)))) \o right
    BY <1>a, <2>2, CutOff
  <2> QED
    BY <2>2, <2>3, Zenon DEF NothingLost
<1>3. CASE PushDown
  <2>1. PICK i, kept, next, new :
               PushesDown(leaves[Len(leaves)].chain, i, kept, next, new)
    BY <1>3, <1>a, PushDownIs
  <2>2. /\ leaves \in Seq(Leaves) /\ leaves' \in Seq(Leaves)
        /\ Len(leaves') = Len(leaves)
        /\ \A n \in 1..Len(leaves) : /\ n # Len(leaves) => leaves'[n] = leaves[n]
                                     /\ leaves'[n].pairs = leaves[n].pairs
        /\ leaves'[Len(leaves)].chain = new
        /\ FlattenSeq(new) = FlattenSeq(leaves[Len(leaves)].chain)
        /\ all' = all /\ rest' = rest
    BY <1>a, <2>1 DEF PushesDown, PushedTo, Working
  <2>3. ASSUME NEW n \in 1..Len(leaves) PROVE Piece(leaves'[n]) = Piece(leaves[n])
    BY <2>2 DEF Piece
  <2>4. DOMAIN leaves = 1..Len(leaves) /\ DOMAIN leaves' = 1..Len(leaves)
    BY <2>2
  <2>5. Pieces(leaves') = Pieces(leaves)
    BY <2>3, <2>4 DEF Pieces
  <2> QED
    BY <2>2, <2>5 DEF NothingLost
<1>4. CASE KeepBlock
  BY <1>4 DEF KeepBlock, NothingLost
<1>5. CASE UNCHANGED vars
  BY <1>5 DEF vars, NothingLost
<1>6. CASE Written
  BY <1>6 DEF Written, vars, NothingLost
<1> QED
  BY <1>1, <1>2, <1>3, <1>4, <1>5, <1>6 DEF Next

\* Nothing is lost, doubled or moved, however large the pairs are.
THEOREM SplitKeeps == Spec => []PairsKept
<1>1. Init => SplitInv /\ NothingLost
  BY SplitInvInit, NothingLostInit
<1>2. (SplitInv /\ NothingLost) /\ [Next]_vars => (SplitInv /\ NothingLost)'
  BY SplitInvStep, NothingLostStep
<1>3. SplitInv /\ NothingLost => PairsKept
  BY DEF SplitInv, NothingLost, Pieces, Piece, PairsKept, KeysInOrder, ChainOfLastKey
<1> QED
  BY <1>1, <1>2, <1>3, PTL DEF Spec

\* maybeSplitLeaf never divides a key between two leaves, and a chain has the
\* last key of its leaf only, however large the pairs are.
THEOREM KeysStayTogether == Spec => []KeysTogether
<1>1. Init => SplitInv
  BY SplitInvInit
<1>2. SplitInv /\ [Next]_vars => SplitInv'
  BY SplitInvStep
<1>3. ASSUME SplitInv PROVE KeysTogether
  <2> SUFFICES ASSUME NEW n \in DOMAIN leaves
               PROVE  LET own == leaves[n].pairs
                          later == FlattenSeq([m \in 1..(Len(leaves) - n) |->
                                                 leaves[n + m].pairs])
                      IN  /\ \A p \in Range(FlattenSeq(leaves[n].chain)) :
                               p.key = Last(own).key
                          /\ \A p \in Range(later \o rest) : Last(own).key < p.key
    BY DEF KeysTogether
  <2> DEFINE own == leaves[n].pairs
             behind == [m \in 1..(Len(leaves) - n) |-> leaves[n + m].pairs]
             later == FlattenSeq(behind)
  <2>1. /\ leaves \in Seq(Leaves) /\ rest \in Seq(Pairs)
        /\ DOMAIN leaves = 1..Len(leaves) /\ Len(leaves) \in Nat
        /\ n \in 1..Len(leaves)
    BY <1>3 DEF SplitInv, Working
  <2>2. /\ ChainOfLastKey(leaves[n]) /\ Before(leaves[n], rest)
        /\ \A m \in 1..Len(leaves) : n < m => Before(leaves[n], leaves[m].pairs)
    BY <1>3, <2>1 DEF SplitInv, KeysInOrder
  <2>3. \A m \in 1..Len(leaves) :
          leaves[m].pairs \in Seq(Pairs) /\ leaves[m].chain \in Seq(Seq(Pairs))
    <3>1. \A m \in 1..Len(leaves) : leaves[m] \in Leaves
      BY <2>1
    <3> QED
      BY <3>1 DEF Leaves
  <2>4. ASSUME NEW p \in Range(FlattenSeq(leaves[n].chain))
        PROVE  p.key = Last(own).key
    <3>1. leaves[n].chain \in Seq(Seq(Pairs))
      BY <2>1, <2>3
    <3>2. PICK i \in 1..Len(leaves[n].chain) : p \in Range(leaves[n].chain[i])
      BY <3>1, <2>4, FlattenRange
    <3>3. i \in DOMAIN leaves[n].chain
      BY <3>1
    <3> QED
      BY <2>2, <3>2, <3>3 DEF ChainOfLastKey
  <2>5. /\ behind \in Seq(Seq(Pairs)) /\ Len(behind) = Len(leaves) - n
        /\ \A m \in 1..(Len(leaves) - n) :
             /\ n + m \in 1..Len(leaves) /\ n < n + m
             /\ behind[m] = leaves[n + m].pairs
    <3>1. \A m \in 1..(Len(leaves) - n) : n + m \in 1..Len(leaves) /\ n < n + m
      BY <2>1
    <3>2. Len(leaves) - n \in Nat
      BY <2>1
    <3> DEFINE k == Len(leaves) - n
               S == Seq(Pairs)
    <3>3. \A m \in 1..k : leaves[n + m].pairs \in S
      BY <2>3, <3>1
    <3>4. k \in Nat /\ behind = [m \in 1..k |-> leaves[n + m].pairs]
      BY <3>2
    <3> HIDE DEF k, S, behind
    <3>5. /\ behind \in Seq(S) /\ Len(behind) = k
          /\ \A m \in 1..k : behind[m] = leaves[n + m].pairs
      BY <3>3, <3>4
    <3> QED
      BY <3>1, <3>5 DEF k, S
  <2> HIDE DEF behind, own
  <2>6. ASSUME NEW p \in Range(later) PROVE Last(own).key < p.key
    <3>1. PICK m \in 1..Len(behind) : p \in Range(behind[m])
      BY <2>5, <2>6, FlattenRange
    <3>2. Before(leaves[n], leaves[n + m].pairs) /\ p \in Range(leaves[n + m].pairs)
      BY <2>2, <2>5, <3>1
    <3> QED
      BY <2>2, <3>2 DEF Before, ChainOfLastKey, own
  <2>7. \A p \in Range(rest) : Last(own).key < p.key
    BY <2>2 DEF Before, own
  <2>8. Range(later \o rest) = Range(later) \cup Range(rest)
    <3>1. later \in Seq(Pairs)
      BY <2>5, FlattenRange
    <3> HIDE DEF later
    <3> QED
      BY <2>1, <3>1, RangeConcat
  <2> QED
    BY <2>4, <2>6, <2>7, <2>8 DEF own, behind
<1> QED
  BY <1>1, <1>2, <1>3, PTL DEF Spec

-----------------------------------------------------------------------------
(* The pieces fit *)

\* No pair of these is larger than half a block.
Halves(pairs) == \A p \in Range(pairs) : AtMostHalf(p)

\* What is still to be divided, or pushed down, comes from the leaf that there was.
Traced ==
  /\ Range(rest) \subseteq Range(all)
  /\ phase = "overflow" => Range(LastBlock) \subseteq Range(all)

LEMMA TracedStep ==
  ASSUME SplitInv, Traced, [Next]_vars
  PROVE  Traced' /\ all' = all
<1>a. Working /\ KeysInOrder /\ rest \in Seq(Pairs)
  BY DEF SplitInv, Working
<1>1. CASE KeepLeaf
  <2>1. rest' = <<>> /\ phase' = "done" /\ all' = all
    BY <1>1 DEF KeepLeaf
  <2>2. Range(<<>>) = {}
    BY DEF Range
  <2> QED
    BY <2>1, <2>2 DEF Traced
<1>2. CASE SplitLeaf
  <2>1. PICK f, h, l, left, block, right : CutsOff(f, h, l, left, block, right)
    BY <1>2, <1>a, SplitLeafIs
  <2>2. /\ left \in Seq(Pairs) /\ block \in Seq(Pairs) /\ right \in Seq(Pairs)
        /\ rest = left \o (block \o right)
        /\ Range(right) \subseteq Range(rest)
        /\ leaves' = Append(leaves, Cut(left, block)) /\ rest' = right /\ all' = all
        /\ phase' = "overflow" => block # <<>>
    BY <2>1 DEF CutsOff, CutInto
  <2>3. Range(block) \subseteq Range(rest)
    <3>1. block \o right \in Seq(Pairs)
      BY <2>2
    <3> DEFINE behind == block \o right
    <3>2. Range(left \o behind) = Range(left) \cup Range(behind)
      <4>1. left \in Seq(Pairs) /\ behind \in Seq(Pairs)
        BY <2>2, <3>1
      <4> HIDE DEF behind
      <4> QED
        BY <4>1, RangeConcat
    <3>3. Range(block \o right) = Range(block) \cup Range(right)
      BY <2>2, RangeConcat
    <3> QED
      BY <2>2, <3>2, <3>3
  <2>4. ASSUME block # <<>> PROVE LastBlock' = block
    <3>1. Last(Cut(left, block).chain) = block
      BY <2>2, <2>4, CutIsLeaf
    <3>2. leaves \in Seq(Leaves) /\ Len(leaves') = Len(leaves) + 1
          /\ leaves'[Len(leaves) + 1] = Cut(left, block)
      BY <1>a, <2>2 DEF Working
    <3>3. Last(leaves') = Cut(left, block)
      BY <3>2 DEF Last
    <3> QED
      BY <3>1, <3>3 DEF LastBlock
  <2> QED
    BY <2>2, <2>3, <2>4 DEF Traced
<1>3. CASE PushDown
  <2> DEFINE chain == leaves[Len(leaves)].chain
  <2>1. PICK i, kept, next, new : PushesDown(chain, i, kept, next, new)
    BY <1>3, <1>a, PushDownIs
  <2>2. /\ Len(leaves') = Len(leaves) /\ leaves'[Len(leaves)].chain = new
        /\ new \in Seq(Seq(Pairs)) /\ Len(new) = Len(chain) + 1
        /\ new[Len(chain) + 1] = next
        /\ Range(next) \subseteq Range(Last(chain))
        /\ all' = all /\ rest' = rest
    BY <2>1 DEF PushesDown, PushedTo
  <2>3. LastBlock' = next
    BY <2>2 DEF LastBlock, Last
  <2>4. LastBlock = Last(chain) /\ phase = "overflow"
    BY <1>3 DEF LastBlock, Last, PushDown
  <2> QED
    BY <2>2, <2>3, <2>4 DEF Traced
<1>4. CASE KeepBlock
  BY <1>4 DEF KeepBlock, Traced
<1>5. CASE UNCHANGED vars
  BY <1>5 DEF vars, Traced, LastBlock
<1>6. CASE Written
  BY <1>6 DEF Written, vars, Traced, LastBlock
<1> QED
  BY <1>1, <1>2, <1>3, <1>4, <1>5, <1>6 DEF Next

\* Up to the pair that does not fit into half a block, a leaf fits into a block.
LEMMA HalfFits ==
  ASSUME NEW pairs \in Seq(Pairs), NEW f \in 1..Len(pairs), NEW h \in 1..Len(pairs),
         Halves(pairs), f <= h, \A i \in 1..(h - 1) : LeafSizes(pairs)[i] <= PieceSize
  PROVE  LeafSizes(pairs)[f] <= BlockSize
<1> DEFINE u == LeafSizes(pairs)
<1>1. /\ BlockSize \in Nat /\ PieceSize \in Nat /\ PieceSize <= BlockSize
      /\ 2 * PieceSize <= BlockSize + 1
  BY HalfOfBlock, LeafSplitAssumption
<1>2. /\ u[f] = u[f - 1] + SizeOf(pairs[f]) /\ u[f] \in Nat /\ u[f - 1] \in Nat
      /\ u[0] = Header
  BY LeafSizesAre
<1>3. /\ 2 * SizeOf(pairs[f]) <= BlockSize
      /\ Header + SizeOf(pairs[f]) <= BlockSize
      /\ SizeOf(pairs[f]) \in Nat
  <2>1. pairs[f] \in Range(pairs) /\ pairs[f] \in Pairs
    BY DEF Range
  <2> QED
    BY <2>1, PairsAre DEF Halves, AtMostHalf
<1>4. f \in Nat /\ h \in Nat
  OBVIOUS
<1> HIDE DEF u
<1>5. CASE f < h
  <2>1. f \in 1..(h - 1)
    BY <1>4, <1>5
  <2>2. u[f] <= PieceSize
    BY <2>1 DEF u
  <2> QED
    BY <1>1, <1>2, <2>2 DEF u
<1>6. CASE f = h /\ f = 1
  BY <1>2, <1>3, <1>6 DEF u
<1>7. CASE f = h /\ f # 1
  <2>1. f - 1 \in 1..(h - 1)
    BY <1>4, <1>7
  <2>2. u[f - 1] <= PieceSize
    BY <2>1 DEF u
  <2>3. u[f] <= BlockSize
    BY <1>1, <1>2, <1>3, <2>2
  <2> QED
    BY <2>3 DEF u
<1> QED
  BY <1>4, <1>5, <1>6, <1>7

LEMMA FitInit ==
  ASSUME Init PROVE FitInv
<1>1. SplitInv
  BY SplitInvInit
<1>2. leaves = <<>> /\ rest = all /\ phase = "leaf" /\ all \in Seq(Pairs) /\ all # <<>>
  BY <1>1 DEF Init, SplitInv, Working
<1>3. ASSUME chained, NEW i \in DOMAIN rest, i < Len(rest)
      PROVE  rest[i].key # rest[Len(rest)].key
  <2>1. Cardinality(SameKey(all, Len(all))) = 1
    BY <1>3 DEF Init
  <2>2. IsFiniteSet(SameKey(all, Len(all)))
    <3>1. SameKey(all, Len(all)) \subseteq 1..Len(all) /\ Len(all) \in Nat
      BY <1>2 DEF SameKey
    <3>2. IsFiniteSet(1..Len(all))
      BY <3>1, FS_Interval
    <3> QED
      BY <3>1, <3>2, FS_Subset
  <2>3. PICK x : SameKey(all, Len(all)) = {x}
    BY <2>1, <2>2, FS_Singleton
  <2>4. Len(all) \in SameKey(all, Len(all))
    BY <1>2 DEF SameKey
  <2>5. i \notin SameKey(all, Len(all))
    BY <1>2, <1>3, <2>3, <2>4
  <2> QED
    BY <1>2, <1>3, <2>5 DEF SameKey
<1> QED
  BY <1>2, <1>3 DEF FitInv

\* A chain finds its leaf: the last key of the leaf is there once, so that a cut
\* behind it is at the last pair, and before that the leaf would fit.
LEMMA SomethingLeft ==
  ASSUME Halves(rest), Working, FitInv, SplitLeaf,
         NEW f \in 1..Len(rest), NEW h \in 1..Len(rest), NEW l \in 1..Len(rest),
         CutAt(rest, f, h, l), chained
  PROVE  l # Len(rest)
<1> SUFFICES ASSUME l = Len(rest) PROVE FALSE
  OBVIOUS
<1>1. /\ rest \in Seq(Pairs) /\ Len(rest) \in Nat /\ DOMAIN rest = 1..Len(rest)
      /\ f <= h /\ h <= l
      /\ \A i \in f..l : rest[i].key = rest[f].key
      /\ \A i \in 1..(h - 1) : LeafSizes(rest)[i] <= PieceSize
  BY DEF Working, CutAt
<1>2. \A i \in 1..Len(rest) : i < Len(rest) => rest[i].key # rest[Len(rest)].key
  BY <1>1 DEF FitInv
<1>3. rest[f].key = rest[Len(rest)].key
  BY <1>1
<1>4. f = Len(rest)
  BY <1>1, <1>2, <1>3
<1>5. LeafSizes(rest)[f] <= BlockSize
  BY <1>1, HalfFits
<1>6. BlockSize < LeafSizes(rest)[Len(rest)]
  BY DEF SplitLeaf, ShouldSplit, LeafSize
<1>7. BlockSize \in Nat /\ LeafSizes(rest)[f] \in Nat
  BY <1>1, LeafSizesAre, LeafSplitAssumption
<1> QED
  BY <1>4, <1>5, <1>6, <1>7

LEMMA RoomForOne ==
  ASSUME NEW pairs \in Seq(Pairs), Halves(pairs), pairs # <<>>
  PROVE  BlockSize \in Nat \ {0} /\ Header + SizeOf(pairs[1]) <= BlockSize
<1>1. pairs[1] \in Pairs /\ pairs[1] \in Range(pairs)
  BY DEF Range
<1>2. Header + SizeOf(pairs[1]) <= BlockSize /\ SizeOf(pairs[1]) \in Nat
  BY <1>1, PairsAre DEF Halves, AtMostHalf
<1> QED
  BY <1>2, LeafSplitAssumption DEF Header

LEMMA FitAdd ==
  ASSUME Working, FitInv, phase = "leaf",
         NEW leaf \in Leaves, leaves' = Append(leaves, leaf),
         phase' \notin {"assert", "endless"}, chained' = chained,
         LeafSize(leaf.pairs) <= BlockSize,
         \A i \in DOMAIN leaf.chain :
           phase' = "overflow" /\ i = Len(leaf.chain),
         chained => \A i \in DOMAIN rest' :
                      i < Len(rest') => rest'[i].key # rest'[Len(rest')].key
  PROVE  FitInv'
<1> DEFINE N == Len(leaves)
           new == Append(leaves, leaf)
<1>1. /\ N \in Nat /\ DOMAIN leaves = 1..N /\ DOMAIN new = 1..(N + 1)
      /\ Len(new) = N + 1
      /\ (\A n \in 1..N : new[n] = leaves[n]) /\ new[N + 1] = leaf
  BY DEF Working
<1>2. \A n \in 1..N :
        /\ LeafSize(leaves[n].pairs) <= BlockSize
        /\ \A i \in DOMAIN leaves[n].chain : BlockBytes(leaves[n].chain[i]) <= BlockSize
  BY <1>1 DEF FitInv
<1> HIDE DEF N, new
<1>3. ASSUME NEW n \in 1..(N + 1)
      PROVE  /\ LeafSize(new[n].pairs) <= BlockSize
             /\ \A i \in DOMAIN new[n].chain :
                  \/ BlockBytes(new[n].chain[i]) <= BlockSize
                  \/ phase' = "overflow" /\ n = N + 1 /\ i = Len(new[n].chain)
  <2>1. CASE n \in 1..N
    BY <1>1, <1>2, <2>1
  <2>2. CASE n = N + 1
    BY <1>1, <2>2
  <2> QED
    BY <1>1, <2>1, <2>2
<1>4. leaves' = new
  BY DEF new
<1>5. ASSUME chained', NEW i \in DOMAIN rest', i < Len(rest')
      PROVE  rest'[i].key # rest'[Len(rest')].key
  BY <1>5
<1> QED
  BY <1>1, <1>3, <1>4, <1>5 DEF FitInv

\* Each step leaves pieces that fit.
LEMMA FitStep ==
  ASSUME Moderate, SplitInv, Traced, FitInv, [Next]_vars PROVE FitInv'
<1>a. Working /\ KeysInOrder
  BY DEF SplitInv
<1>c. /\ Halves(rest)
      /\ phase = "overflow" => Halves(LastBlock)
  BY DEF Moderate, Traced, Halves
<1>b. /\ rest \in Seq(Pairs) /\ Len(rest) \in Nat /\ DOMAIN rest = 1..Len(rest)
      /\ leaves \in Seq(Leaves) /\ DOMAIN leaves = 1..Len(leaves)
  BY <1>a DEF Working
<1>1. CASE KeepLeaf
  <2>1. /\ phase = "leaf" /\ rest # <<>> /\ ~ShouldSplit(LeafSize(rest))
        /\ leaves' = Append(leaves, Cut(rest, <<>>)) /\ rest' = <<>>
        /\ phase' = "done" /\ chained' = chained
    BY <1>1, <1>a DEF KeepLeaf, Working
  <2>2. LeafSize(rest) <= BlockSize
    <3>1. BlockSize \in Nat \ {0}
      BY <1>b, <1>c, <2>1, RoomForOne
    <3>2. LeafSize(rest) \in Nat
      <4>1. Len(rest) \in 0..Len(rest)
        BY <1>b
      <4> QED
        BY <1>b, <4>1, LeafSizesAre DEF LeafSize
    <3> QED
      BY <2>1, <3>1, <3>2 DEF ShouldSplit
  <2> DEFINE leaf == Cut(rest, <<>>)
  <2>3. leaf \in Leaves /\ leaf.pairs = rest /\ leaf.chain = <<>>
    <3>1. <<>> \in Seq(Pairs)
      OBVIOUS
    <3> QED
      BY <1>b, <3>1, CutIsLeaf
  <2>4. leaves' = Append(leaves, leaf)
    BY <2>1
  <2> HIDE DEF leaf
  <2>5. DOMAIN leaf.chain = {} /\ DOMAIN rest' = {}
    BY <2>1, <2>3
  <2>6. LeafSize(leaf.pairs) <= BlockSize
    BY <2>2, <2>3
  <2> QED
    BY <1>a, <2>1, <2>3, <2>4, <2>5, <2>6, FitAdd
<1>2. CASE SplitLeaf
  <2>0. PICK f \in 1..Len(rest), h \in 1..Len(rest), l \in 1..Len(rest) :
               \E left, block, right : CutsOff(f, h, l, left, block, right)
    BY <1>2, <1>a, SplitLeafIs
  <2>1. PICK left, block, right : CutsOff(f, h, l, left, block, right)
    BY <2>0
  <2>2. /\ CutAt(rest, f, h, l)
        /\ left \in Seq(Pairs) /\ block \in Seq(Pairs) /\ right \in Seq(Pairs)
        /\ left = SubSeq(rest, 1, f)
        /\ Len(right) = Len(rest) - l
        /\ \A i \in 1..Len(right) : right[i] = rest[l + i]
    BY <2>1 DEF CutsOff, CutInto
  <2>3. /\ leaves' = Append(leaves, Cut(left, block)) /\ rest' = right
        /\ chained' = chained
        /\ phase' = IF chained /\ right = <<>> THEN "assert"
                    ELSE IF block # <<>> THEN "overflow"
                    ELSE IF right = <<>> THEN "done" ELSE "leaf"
    BY <2>1 DEF CutsOff
  <2>4. chained => right # <<>>
    <3>1. chained => l # Len(rest)
      BY <1>2, <1>a, <1>c, <2>2, SomethingLeft
    <3>2. right = <<>> => l = Len(rest)
      <4>1. ASSUME right = <<>> PROVE Len(rest) - l = 0
        <5>1. Len(right) = 0
          BY <4>1
        <5> QED
          BY ONLY <2>2, <5>1
      <4> QED
        <5>1. l \in Nat /\ Len(rest) \in Nat
          BY <1>b
        <5> QED
          BY ONLY <4>1, <5>1
    <3> QED
      BY <3>1, <3>2
  <2>5. LeafSize(left) <= BlockSize
    <3>1. f <= h /\ \A i \in 1..(h - 1) : LeafSizes(rest)[i] <= PieceSize
      BY <2>2 DEF CutAt
    <3>2. LeafSizes(rest)[f] <= BlockSize
      BY <1>b, <1>c, <3>1, HalfFits
    <3>3. f \in 0..Len(rest)
      BY <1>b
    <3>4. LeafSize(SubSeq(rest, 1, f)) = LeafSizes(rest)[f]
      BY <1>b, <3>3, FrontSizes
    <3> QED
      BY <2>2, <3>2, <3>4
  <2> DEFINE leaf == Cut(left, block)
  <2>6. /\ leaf \in Leaves /\ leaf.pairs = left
        /\ \A i \in DOMAIN leaf.chain : i = 1
        /\ block = <<>> => leaf.chain = <<>>
        /\ block # <<>> => Len(leaf.chain) = 1
    <3>1. left \in Seq(Pairs) /\ block \in Seq(Pairs)
      BY <2>2
    <3> QED
      BY ONLY <3>1, CutIsLeaf
  <2>7. leaves' = Append(leaves, leaf)
    BY <2>3
  <2> HIDE DEF leaf
  <2>8. phase' \notin {"assert", "endless"} /\ (block # <<>> => phase' = "overflow")
    BY <2>3, <2>4
  <2>9. \A i \in DOMAIN leaf.chain : phase' = "overflow" /\ i = Len(leaf.chain)
    <3>1. CASE block = <<>>
      <4>1. DOMAIN leaf.chain = {}
        BY <2>6, <3>1
      <4> QED
        BY <4>1
    <3>2. CASE block # <<>>
      BY <2>6, <2>8, <3>2
    <3> QED
      BY <3>1, <3>2
  <2>10. chained => \A i \in DOMAIN rest' :
                      i < Len(rest') => rest'[i].key # rest'[Len(rest')].key
    <3>a. rest' = right
      BY <2>3
    <3> SUFFICES ASSUME chained, NEW i \in DOMAIN right, i < Len(right)
                 PROVE  right[i].key # right[Len(right)].key
      BY <3>a, Zenon
    <3>b. i \in 1..Len(right)
      BY <2>2
    <3>1. /\ l + i \in 1..Len(rest) /\ l + i < Len(rest)
          /\ Len(right) \in 1..Len(right) /\ l + Len(right) = Len(rest)
      BY <1>b, <2>2, <3>b
    <3>2. rest[l + i].key # rest[Len(rest)].key
      BY <1>b, <3>1 DEF FitInv
    <3>3. right[i] = rest[l + i] /\ right[Len(right)] = rest[l + Len(right)]
      BY <2>2, <3>1, <3>b
    <3> QED
      BY <3>1, <3>2, <3>3
  <2>11. phase = "leaf" /\ LeafSize(leaf.pairs) <= BlockSize
    BY <1>2, <2>5, <2>6 DEF SplitLeaf
  <2> QED
    BY <1>a, <2>3, <2>6, <2>7, <2>8, <2>9, <2>10, <2>11, FitAdd
<1>3. CASE KeepBlock
  <2>1. /\ phase = "overflow" /\ ~ShouldSplit(BlockBytes(LastBlock))
        /\ chained' = chained /\ rest' = rest /\ leaves' = leaves
        /\ phase' = IF rest = <<>> THEN "done" ELSE "leaf"
    BY <1>3 DEF KeepBlock
  <2> DEFINE N == Len(leaves)
             chain == leaves[N].chain
  <2>2. /\ N \in Nat \ {0} /\ chain \in Seq(Seq(Pairs)) /\ chain # <<>>
        /\ LastBlock = chain[Len(chain)] /\ LastBlock \in Seq(Pairs) /\ LastBlock # <<>>
    <3>1. leaves # <<>> /\ chain # <<>> /\ LastBlock # <<>>
      BY <1>a, <2>1 DEF Working
    <3>2. N \in Nat \ {0} /\ leaves[N] \in Leaves
      BY <1>b, <3>1
    <3>3. chain \in Seq(Seq(Pairs))
      BY <3>2 DEF Leaves
    <3>4. LastBlock = chain[Len(chain)]
      BY DEF LastBlock, Last
    <3>5. Len(chain) \in 1..Len(chain)
      BY <3>1, <3>3
    <3> QED
      BY <3>1, <3>2, <3>3, <3>4, <3>5
  <2>3. BlockBytes(LastBlock) <= BlockSize
    <3>1. BlockSize \in Nat \ {0}
      BY <1>c, <2>1, <2>2, RoomForOne
    <3>2. BlockBytes(LastBlock) \in Nat
      <4>1. Len(LastBlock) \in 0..Len(LastBlock)
        BY <2>2
      <4> QED
        BY <2>2, <4>1, BlockSizesAre DEF BlockBytes
    <3> QED
      BY <2>1, <3>1, <3>2 DEF ShouldSplit
  <2>4. phase' \notin {"assert", "endless"}
    BY <2>1
  <2>5. ASSUME NEW n \in DOMAIN leaves, NEW i \in DOMAIN leaves[n].chain
        PROVE  BlockBytes(leaves[n].chain[i]) <= BlockSize
    <3>1. CASE n = N /\ i = Len(chain)
      BY <2>2, <2>3, <3>1
    <3>2. CASE ~(n = N /\ i = Len(chain))
      BY <3>2 DEF FitInv
    <3> QED
      BY <3>1, <3>2
  <2>6. \A n \in DOMAIN leaves : LeafSize(leaves[n].pairs) <= BlockSize
    BY DEF FitInv
  <2>7. chained => \A i \in DOMAIN rest :
                     i < Len(rest) => rest[i].key # rest[Len(rest)].key
    BY DEF FitInv
  <2> QED
    BY <2>1, <2>4, <2>5, <2>6, <2>7 DEF FitInv
<1>4. CASE PushDown
  <2> DEFINE N == Len(leaves)
             chain == leaves[N].chain
             block == Last(chain)
             u == BlockSizes(block)
  <2>1. PICK i, kept, next, new : PushesDown(chain, i, kept, next, new)
    BY <1>4, <1>a, PushDownIs
  <2>2. /\ Len(new) = Len(chain) + 1
        /\ \A j \in 1..(Len(chain) - 1) : new[j] = chain[j]
        /\ new[Len(chain)] = kept /\ Len(kept) = i - 1 /\ kept \in Seq(Pairs)
        /\ new \in Seq(Seq(Pairs))
        /\ kept = SubSeq(block, 1, i - 1)
        /\ i = SplitIndex(block) /\ i \in 1..Len(block)
    BY <2>1 DEF PushesDown, PushedTo
  <2>3. /\ leaves' \in Seq(Leaves) /\ Len(leaves') = N
        /\ \A n \in 1..N : /\ n # N => leaves'[n] = leaves[n]
                           /\ leaves'[n].pairs = leaves[n].pairs
        /\ leaves'[N].chain = new
        /\ chained' = chained /\ rest' = rest
        /\ phase' = IF kept = <<>> THEN "endless" ELSE phase
    BY <2>1 DEF PushesDown
  <2>4. /\ phase = "overflow" /\ N \in Nat \ {0}
        /\ chain \in Seq(Seq(Pairs)) /\ Len(chain) \in Nat \ {0}
        /\ block \in Seq(Pairs) /\ block # <<>> /\ Len(block) \in Nat \ {0}
        /\ BlockSize < u[Len(block)]
    <3>1. phase = "overflow" /\ leaves # <<>> /\ chain # <<>> /\ LastBlock # <<>>
          /\ ShouldSplit(BlockBytes(LastBlock))
      BY <1>4, <1>a DEF PushDown, Working
    <3>2. N \in Nat \ {0} /\ leaves[N] \in Leaves
      BY <1>b, <3>1
    <3>3. chain \in Seq(Seq(Pairs))
      BY <3>2 DEF Leaves
    <3>4. LastBlock = block
      BY DEF LastBlock, Last
    <3>5. Len(chain) \in Nat \ {0} /\ Len(chain) \in 1..Len(chain)
      BY <3>1, <3>3
    <3>6. block \in Seq(Pairs)
      BY <3>3, <3>5 DEF Last
    <3> QED
      BY <3>1, <3>2, <3>3, <3>4, <3>5, <3>6 DEF ShouldSplit, BlockBytes
  <2>5. /\ DOMAIN u = 0..Len(block) /\ (\A j \in 0..Len(block) : u[j] \in Nat)
        /\ u[0] = Header /\ u[1] = u[0] + block[1].val
    <3>1. 1 \in 1..Len(block) /\ 1 - 1 = 0
      BY <2>4
    <3> QED
      BY <2>4, <3>1, BlockSizesAre
  <2>6. BlockSize \in Nat \ {0} /\ Header + SizeOf(block[1]) <= BlockSize
    <3>1. LastBlock = block
      BY DEF LastBlock, Last
    <3> QED
      BY <1>c, <2>4, <3>1, RoomForOne
  <2>7. block[1].val \in Nat /\ SizeOf(block[1]) \in Nat /\ block[1].val <= SizeOf(block[1])
    BY <2>4, PairsAre
  <2>8. u[1] <= BlockSize
    BY <2>5, <2>6, <2>7 DEF Header
  <2> HIDE DEF u, block, chain, N
  <2>9. /\ u[i] > BlockSize
        /\ \A j \in 1..Len(block) : j < i => u[j] <= BlockSize
    <3>1. i = FirstOver(u, BlockSize)
      BY <2>2 DEF SplitIndex, u
    <3>2. u[Len(block)] > BlockSize /\ u[Len(block)] \in Nat
      BY <2>4, <2>5, <2>6
    <3> QED
      BY <2>4, <2>5, <2>6, <3>1, <3>2, FirstOverIs
  <2>10. i # 1 /\ i \in Nat /\ i <= Len(block) /\ i >= 1
    <3>1. u[1] \in Nat
      BY <2>4, <2>5
    <3>2. ~(u[1] > BlockSize)
      BY <2>6, <2>8, <3>1
    <3>3. i # 1
      BY <2>9, <3>2
    <3> QED
      BY <2>2, <2>4, <3>3
  <2>11. BlockBytes(kept) <= BlockSize
    <3>1. i - 1 \in 0..Len(block) /\ i - 1 \in 1..Len(block) /\ i - 1 < i
      BY <2>4, <2>10
    <3>2. BlockBytes(SubSeq(block, 1, i - 1)) = u[i - 1]
      BY <2>4, <3>1, FrontSizes DEF u
    <3> QED
      BY <2>2, <2>9, <3>1, <3>2
  <2>12. kept # <<>> /\ phase' = "overflow"
    <3>1. Len(kept) # 0
      BY <2>2, <2>10
    <3> QED
      BY <2>3, <2>4, <3>1
  <2>13. /\ DOMAIN leaves = 1..N /\ DOMAIN leaves' = 1..N
         /\ DOMAIN new = 1..(Len(chain) + 1) /\ DOMAIN chain = 1..Len(chain)
    <3>1. DOMAIN leaves = 1..N
      BY <1>b DEF N
    <3>2. DOMAIN leaves' = 1..N
      BY <2>3
    <3>3. DOMAIN new = 1..(Len(chain) + 1)
      BY <2>2
    <3>4. DOMAIN chain = 1..Len(chain)
      BY <2>4
    <3> QED
      BY <3>1, <3>2, <3>3, <3>4
  <2>14. ASSUME NEW n \in 1..N, NEW j \in DOMAIN leaves'[n].chain
         PROVE  \/ BlockBytes(leaves'[n].chain[j]) <= BlockSize
                \/ n = N /\ j = Len(leaves'[n].chain)
    <3>1. CASE n # N
      BY <2>3, <2>13, <2>14, <3>1 DEF FitInv, N
    <3>2. CASE n = N
      <4>1. leaves'[n].chain = new /\ j \in 1..(Len(chain) + 1)
        BY <2>3, <2>13, <2>14, <3>2
      <4>2. CASE j = Len(chain) + 1
        BY <2>2, <3>2, <4>1, <4>2
      <4>3. CASE j = Len(chain)
        BY <2>2, <2>11, <4>1, <4>3
      <4>4. CASE j \in 1..(Len(chain) - 1)
        <5>1. j \in DOMAIN chain /\ j # Len(chain) /\ N \in DOMAIN leaves
          BY <2>4, <2>13, <4>4
        <5>2. BlockBytes(chain[j]) <= BlockSize
          BY <5>1 DEF FitInv, chain, N
        <5> QED
          BY <2>2, <4>1, <4>4, <5>2
      <4> QED
        BY <2>4, <4>1, <4>2, <4>3, <4>4
    <3> QED
      BY <3>1, <3>2
  <2>15. \A n \in 1..N : LeafSize(leaves'[n].pairs) <= BlockSize
    BY <2>3, <2>13 DEF FitInv
  <2>16. chained => \A j \in DOMAIN rest :
                      j < Len(rest) => rest[j].key # rest[Len(rest)].key
    BY DEF FitInv
  <2> QED
    BY <2>3, <2>12, <2>13, <2>14, <2>15, <2>16 DEF FitInv
<1>5. CASE UNCHANGED vars
  BY <1>5 DEF vars, FitInv
<1>6. CASE Written
  BY <1>6 DEF Written, vars, FitInv
<1> QED
  BY <1>1, <1>2, <1>3, <1>4, <1>5, <1>6 DEF Next

\* A block keeps nothing only if its first value fits into no block.
LEMMA EndlessStep ==
  ASSUME SplitInv, Traced, PushDownEnds, [Next]_vars PROVE PushDownEnds'
<1>a. Working
  BY DEF SplitInv
<1>b. all' = all
  BY TracedStep
<1>1. CASE PushDown /\ phase' = "endless"
  <2> DEFINE chain == leaves[Len(leaves)].chain
             block == Last(chain)
             u == BlockSizes(block)
  <2>1. PICK i, kept, next, new : PushesDown(chain, i, kept, next, new)
    BY <1>1, <1>a, PushDownIs
  <2>2. /\ phase = "overflow" /\ LastBlock = block /\ LastBlock # <<>>
        /\ ShouldSplit(BlockBytes(LastBlock)) /\ leaves # <<>> /\ chain # <<>>
    BY <1>1, <1>a DEF PushDown, Working, LastBlock, Last
  <2>3. kept = <<>> /\ Len(kept) = i - 1 /\ i = SplitIndex(block) /\ i \in 1..Len(block)
    BY <1>1, <2>1, <2>2 DEF PushesDown, PushedTo
  <2>4. block \in Seq(Pairs) /\ Len(block) \in Nat \ {0}
    <3>1. leaves[Len(leaves)] \in Leaves
      BY <1>a, <2>2 DEF Working
    <3>2. chain \in Seq(Seq(Pairs))
      BY <3>1 DEF Leaves
    <3>3. block \in Seq(Pairs)
      BY <2>2, <3>2 DEF Last
    <3> QED
      BY <2>2, <3>3
  <2>5. i = 1
    BY <2>3, <2>4
  <2>6. /\ DOMAIN u = 0..Len(block) /\ (\A j \in 0..Len(block) : u[j] \in Nat)
        /\ u[0] = Header /\ u[1] = u[0] + block[1].val
    <3>1. 1 \in 1..Len(block) /\ 1 - 1 = 0
      BY <2>4
    <3> QED
      BY <2>4, <3>1, BlockSizesAre
  <2>7. BlockSize \in Nat /\ BlockSize < u[Len(block)]
    BY <2>2, LeafSplitAssumption DEF ShouldSplit, BlockBytes
  <2> HIDE DEF u, block, chain
  <2>8. u[i] > BlockSize
    <3>1. i = FirstOver(u, BlockSize)
      BY <2>3 DEF SplitIndex, u
    <3>2. u[Len(block)] > BlockSize /\ u[Len(block)] \in Nat
      BY <2>4, <2>6, <2>7
    <3> QED
      BY <2>4, <2>6, <2>7, <3>1, <3>2, FirstOverIs
  <2>9. block[1] \in Range(all)
    BY <2>2, <2>4 DEF Traced, Range
  <2>10. Header + block[1].val > BlockSize
    BY <2>5, <2>6, <2>8
  <2> QED
    BY <1>b, <2>9, <2>10 DEF PushDownEnds
<1>2. CASE phase' # "endless"
  BY <1>2 DEF PushDownEnds
<1>3. CASE phase' = "endless" /\ ~PushDown
  <2>1. phase = "endless"
    BY <1>3 DEF Next, KeepLeaf, SplitLeaf, KeepBlock, Written, vars
  <2> QED
    BY <1>b, <2>1 DEF PushDownEnds
<1> QED
  BY <1>1, <1>2, <1>3

\* The whole: among moderate pairs the pieces fit, and pushing down ends.
Divided == SplitInv /\ Traced /\ PushDownEnds /\ (Moderate => FitInv)

LEMMA DividedInvariant == Spec => []Divided
<1>1. Init => Divided
  <2> SUFFICES ASSUME Init PROVE Divided
    OBVIOUS
  <2>1. SplitInv /\ FitInv
    BY SplitInvInit, FitInit
  <2>2. Traced /\ PushDownEnds
    BY DEF Init, Traced, PushDownEnds
  <2> QED
    BY <2>1, <2>2 DEF Divided
<1>2. Divided /\ [Next]_vars => Divided'
  <2> SUFFICES ASSUME Divided, [Next]_vars PROVE Divided'
    OBVIOUS
  <2>1. SplitInv' /\ Traced' /\ PushDownEnds' /\ all' = all
    BY SplitInvStep, TracedStep, EndlessStep DEF Divided
  <2>2. Moderate' => Moderate
    BY <2>1 DEF Moderate
  <2>3. Moderate' => FitInv'
    BY <2>2, FitStep DEF Divided
  <2> QED
    BY <2>1, <2>3 DEF Divided
<1> QED
  BY <1>1, <1>2, PTL DEF Spec

\* If no pair of a leaf is larger than half a block, and each fits behind the
\* header, the pieces of maybeSplitLeaf and pushDownOverflowNodeSize fit into a
\* block (mem.cpp:45-56).
THEOREM PiecesAlwaysFit == Spec => []PiecesFit
<1>1. Divided => PiecesFit
  BY DEF Divided, FitInv, PiecesFit
<1> QED
  BY <1>1, DividedInvariant, PTL

\* For such pairs, the chain of a leaf always finds a leaf to go to
\* (tree_impl.cpp:401-404).
THEOREM ChainAlwaysHasLeaf == Spec => []ChainHasLeaf
<1>1. Divided => ChainHasLeaf
  BY DEF Divided, FitInv, ChainHasLeaf
<1> QED
  BY <1>1, DividedInvariant, PTL

\* pushDownOverflowNodeSize calls itself for ever only if there is a value that
\* fits into no block behind the header: validateKVSize lets such values through
\* (tree_impl.cpp:305), and they are all that can keep it from ending.
THEOREM PushingDownEnds == Spec => []PushDownEnds
<1>1. Divided => PushDownEnds
  BY DEF Divided
<1> QED
  BY <1>1, DividedInvariant, PTL
=============================================================================
